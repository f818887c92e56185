----------------------- MODULE ClientParts_proofs -------------------------
(***************************************************************************)
(* What is proved of the parts of the client by themselves.                *)
(*                                                                         *)
(* LoginChecked, for any callers, keys, requirements and limits: the       *)
(* invariant follows what the client offers, signs and answers along the   *)
(* wire into the flags and the cache of its connection, and from there     *)
(* into the sshd's answer.                                                 *)
(*                                                                         *)
(* NeverSendOnClosed, for any addresses, opens and work: while a handler   *)
(* holds the lock of the list, the address of its open is in the list, and *)
(* an address in the list is not closed.  That an address comes into the   *)
(* list only once is why it never goes from closed back into the list.     *)
(*                                                                         *)
(* NothingCutShort, for streams of any length: everything that closes an   *)
(* end goes back to a Halter that was asked to stop; unless that came from *)
(* outside, or a far end broke off, it goes back to a copier that had      *)
(* copied all there was.                                                   *)
(***************************************************************************)
EXTENDS Authentication, Forwards, Shovel, TLAPS
-----------------------------------------------------------------------------
(* The login. *)

\* Where the client and the sshd are, and what the client sends.
ClientAt == {"idle", "kex", "start", "service", "none", "query", "signed", "ki", "in", "failed"}
ServerAt == {"idle", "waiting", "service", "loop", "challenge", "noted", "in", "failed"}
Kinds == {"service", "none", "query", "signed", "missigned", "ki", "answers"}

Requests ==
    [type : Kinds, key : Keys \cup {NoKey}, pass : {"right", "wrong", "none"},
     code : {"right", "wrong", "none"}]

AuthTypeOK ==
    /\ require \in SUBSET Factors
    /\ login \in [Callers -> Logins]
    /\ cli \in [Callers -> ClientAt]
    /\ signer \in [Callers -> Nat]
    /\ srv \in [Callers -> ServerAt]
    /\ cache \in [Callers -> SUBSET [key : Keys \cup {NoKey}, ok : BOOLEAN]]
    /\ PublicKeyOK \in [Callers -> BOOLEAN]
    /\ OneTimeOK \in [Callers -> BOOLEAN]
    /\ toServer \in [Callers -> Seq(Requests)]

\* What the client may truthfully send.
Own(c, m) ==
    /\ m.type \in {"query", "signed", "missigned"} => m.key \in Offers(c)
    /\ m.type = "signed" => m.key \in login[c].holds
    /\ m.pass = "right" => login[c].pass = "right"
    /\ m.code = "right" => login[c].code = "right"

\* The client is at one of its keys, and the wire holds what it sent.
WireInv ==
    \A c \in Callers :
        /\ cli[c] \in {"query", "signed"} => signer[c] \in DOMAIN login[c].signers
        /\ \A i \in 1..Len(toServer[c]) : Own(c, toServer[c][i])

KeyShown(c) == "rsa" \in require => Registered \in Offers(c)
AnswersShown(c) ==
    /\ "pass" \in require => login[c].pass = "right"
    /\ "totp" \in require => login[c].code = "right"

\* Where a login may be: the keyboard is used when there is something to ask; without it,
\* who is in has given a good signature.
Placed(c, pc) ==
    /\ pc \in {"challenge", "noted"} => Asks
    /\ pc = "in" => Asks \/ Offers(c) \cap login[c].holds # {}

\* The flags and the cache remember only what was shown.
FlagInv ==
    \A c \in Callers :
        /\ PublicKeyOK[c] = TRUE => KeyShown(c)
        /\ OneTimeOK[c] = TRUE => AnswersShown(c)
        /\ \A e \in cache[c] : e.ok = TRUE => PublicKeyOK[c] = TRUE /\ OneTimeOK[c] = TRUE
        /\ srv[c] \in {"noted", "in"} => PublicKeyOK[c] = TRUE /\ OneTimeOK[c] = TRUE
        /\ Placed(c, srv[c])

AuthInv == AuthTypeOK /\ WireInv /\ FlagInv

-----------------------------------------------------------------------------
\* Taking from the wire and appending to it keep it a list of the client's own messages.
LEMMA TailOwn ==
    ASSUME NEW c, NEW s \in Seq(Requests), s # <<>>, \A i \in 1..Len(s) : Own(c, s[i])
    PROVE  /\ Tail(s) \in Seq(Requests) /\ Head(s) \in Requests /\ Own(c, Head(s))
           /\ \A i \in 1..Len(Tail(s)) : Own(c, Tail(s)[i])
<1>1. Tail(s) \in Seq(Requests) /\ Head(s) \in Requests /\ Head(s) = s[1] /\ 1 \in 1..Len(s)
    OBVIOUS
<1>2. \A i \in 1..Len(Tail(s)) : Tail(s)[i] = s[i + 1] /\ i + 1 \in 1..Len(s)
    OBVIOUS
<1> QED
    BY <1>1, <1>2, Zenon

LEMMA AppendOwn ==
    ASSUME NEW c, NEW s \in Seq(Requests), NEW m \in Requests, Own(c, m),
           \A i \in 1..Len(s) : Own(c, s[i])
    PROVE  /\ Append(s, m) \in Seq(Requests)
           /\ \A i \in 1..Len(Append(s, m)) : Own(c, Append(s, m)[i])
<1>1. Append(s, m) \in Seq(Requests) /\ Len(Append(s, m)) = Len(s) + 1
    OBVIOUS
<1>2. \A i \in 1..Len(s) + 1 : Append(s, m)[i] = IF i = Len(s) + 1 THEN m ELSE s[i]
    OBVIOUS
<1>3. \A i \in 1..Len(s) + 1 : i = Len(s) + 1 \/ i \in 1..Len(s)
    OBVIOUS
<1> QED
    BY <1>1, <1>2, <1>3, Zenon

\* At most one own message more on the wire.
SendsOwn(c) ==
    \/ toServer' = toServer
    \/ \E m \in Requests : Own(c, m) /\ Sends(c, m)

\* A step of the client of c, which leaves the sshd's state alone.
LEMMA ClientKeeps ==
    ASSUME AuthInv, NEW c \in Callers,
           UNCHANGED <<require, login, srv, cache, PublicKeyOK, OneTimeOK>>,
           cli' \in [Callers -> ClientAt], signer' \in [Callers -> Nat],
           \A d \in Callers \ {c} : cli'[d] = cli[d] /\ signer'[d] = signer[d],
           cli'[c] \in {"query", "signed"} => signer'[c] \in DOMAIN login[c].signers,
           SendsOwn(c)
    PROVE  AuthInv'
<1> USE DEF AuthInv
<1>1. \A d \in Callers : Offers(d)' = Offers(d) /\ \A m : Own(d, m)' <=> Own(d, m)
    BY Zenon DEF Offers, Own
<1>2. toServer' \in [Callers -> Seq(Requests)]
      /\ \A d \in Callers : \A i \in 1..Len(toServer'[d]) : Own(d, toServer'[d][i])
    <2>1. CASE toServer' = toServer
        BY <2>1, Zenon DEF AuthTypeOK, WireInv
    <2>2. CASE \E m \in Requests : Own(c, m) /\ Sends(c, m)
        <3>1. PICK m \in Requests : Own(c, m) /\ toServer' = [toServer EXCEPT ![c] = Append(@, m)]
            BY <2>2, Zenon DEF Sends
        <3>2. toServer[c] \in Seq(Requests) /\ \A i \in 1..Len(toServer[c]) : Own(c, toServer[c][i])
            BY Zenon DEF AuthTypeOK, WireInv
        <3>3. /\ Append(toServer[c], m) \in Seq(Requests)
              /\ \A i \in 1..Len(Append(toServer[c], m)) : Own(c, Append(toServer[c], m)[i])
            BY <3>1, <3>2, AppendOwn, Zenon
        <3> QED
            BY <3>1, <3>3, Zenon DEF AuthTypeOK, WireInv
    <2> QED
        BY <2>1, <2>2, Zenon DEF SendsOwn
<1>3. AuthTypeOK'
    BY <1>2, Zenon DEF AuthTypeOK
<1>4. WireInv'
    BY <1>1, <1>2, Zenon DEF WireInv, AuthTypeOK
<1>5. FlagInv'
    BY <1>1, Zenon DEF FlagInv, AuthTypeOK, KeyShown, AnswersShown, Placed, Asks
<1> QED
    BY <1>3, <1>4, <1>5, Zenon

\* What a step of the sshd's does on the wire: it takes a message of the client's, or none.
LEMMA ServerWire ==
    ASSUME AuthInv, NEW c \in Callers, UNCHANGED <<login, cli, signer>>,
           toServer' = toServer \/ \E t : Gets(c, t)
    PROVE  WireInv' /\ toServer' \in [Callers -> Seq(Requests)]
<1> USE DEF AuthInv
<1>1. \A d \in Callers : Offers(d)' = Offers(d) /\ \A m : Own(d, m)' <=> Own(d, m)
    BY DEF Offers, Own
<1>2. CASE toServer' = toServer
    BY <1>1, <1>2, Zenon DEF WireInv, AuthTypeOK
<1>3. CASE \E t : Gets(c, t)
    <2>1. toServer[c] # <<>> /\ toServer' = [toServer EXCEPT ![c] = Tail(@)]
        BY <1>3, Zenon DEF Gets
    <2>2. toServer[c] \in Seq(Requests) /\ \A i \in 1..Len(toServer[c]) : Own(c, toServer[c][i])
        BY Zenon DEF AuthTypeOK, WireInv
    <2>3. /\ Tail(toServer[c]) \in Seq(Requests)
          /\ \A i \in 1..Len(Tail(toServer[c])) : Own(c, Tail(toServer[c])[i])
        BY <2>1, <2>2, TailOwn, Zenon
    <2>4. toServer' \in [Callers -> Seq(Requests)]
          /\ \A d \in Callers : \A i \in 1..Len(toServer'[d]) : Own(d, toServer'[d][i])
        BY <2>1, <2>3, Zenon DEF AuthTypeOK, WireInv
    <2> QED
        BY <1>1, <2>4, Zenon DEF WireInv
<1> QED
    BY <1>2, <1>3, Zenon

\* The message the sshd takes is the client's own.
LEMMA GetsOwn ==
    ASSUME AuthInv, NEW c \in Callers, NEW t, Gets(c, t)
    PROVE  Head(toServer[c]) \in Requests /\ Own(c, Head(toServer[c])) /\ Head(toServer[c]).type = t
<1>1. toServer[c] \in Seq(Requests) /\ \A i \in 1..Len(toServer[c]) : Own(c, toServer[c][i])
    BY Zenon DEF AuthInv, AuthTypeOK, WireInv
<1> QED
    BY <1>1, TailOwn, Zenon DEF Gets

\* A step of the sshd's that takes no flag back: it stays, or lets in a client with both.
LEMMA ServerKeeps ==
    ASSUME AuthInv, NEW c \in Callers, UNCHANGED <<require, login, cli, signer>>,
           toServer' = toServer \/ \E t : Gets(c, t),
           srv' \in [Callers -> ServerAt],
           PublicKeyOK' \in [Callers -> BOOLEAN], OneTimeOK' \in [Callers -> BOOLEAN],
           cache' \in [Callers -> SUBSET [key : Keys \cup {NoKey}, ok : BOOLEAN]],
           \A d \in Callers \ {c} :
               /\ PublicKeyOK'[d] = PublicKeyOK[d] /\ OneTimeOK'[d] = OneTimeOK[d]
               /\ cache'[d] = cache[d] /\ srv'[d] = srv[d],
           PublicKeyOK'[c] = TRUE => KeyShown(c), OneTimeOK'[c] = TRUE => AnswersShown(c),
           \A e \in cache'[c] : e.ok = TRUE => PublicKeyOK'[c] = TRUE /\ OneTimeOK'[c] = TRUE,
           srv'[c] \in {"noted", "in"} => PublicKeyOK'[c] = TRUE /\ OneTimeOK'[c] = TRUE,
           Placed(c, srv'[c])
    PROVE  AuthInv'
<1> USE DEF AuthInv
<1>1. WireInv' /\ toServer' \in [Callers -> Seq(Requests)]
    BY ServerWire, Zenon
<1>2. AuthTypeOK'
    BY <1>1, Zenon DEF AuthTypeOK
<1>3. \A d \in Callers : (KeyShown(d)' <=> KeyShown(d)) /\ (AnswersShown(d)' <=> AnswersShown(d))
    BY Zenon DEF KeyShown, AnswersShown, Offers
<1>4. \A d \in Callers : Placed(d, srv[d])'
    <2>1. \A d \in Callers : Placed(d, srv[d])' <=> Placed(d, srv'[d])
        <3>1. (Asks' <=> Asks) /\ \A d : Offers(d)' = Offers(d) /\ login'[d].holds = login[d].holds
            BY Zenon DEF Asks, Offers
        <3> QED
            BY <3>1, Zenon DEF Placed
    <2>2. ASSUME NEW d \in Callers PROVE Placed(d, srv'[d])
        <3>1. CASE d = c
            BY <3>1, Zenon
        <3>2. CASE d # c
            <4>1. srv'[d] = srv[d] /\ Placed(d, srv[d])
                BY <3>2, Zenon DEF FlagInv
            <4> QED
                BY <4>1, Zenon
        <3> QED
            BY <3>1, <3>2, Zenon
    <2> QED
        BY <2>1, <2>2, Zenon
<1>5. \A d \in Callers :
          /\ PublicKeyOK'[d] = TRUE => KeyShown(d)
          /\ OneTimeOK'[d] = TRUE => AnswersShown(d)
          /\ \A e \in cache'[d] : e.ok = TRUE => PublicKeyOK'[d] = TRUE /\ OneTimeOK'[d] = TRUE
          /\ srv'[d] \in {"noted", "in"} => PublicKeyOK'[d] = TRUE /\ OneTimeOK'[d] = TRUE
    BY DEF FlagInv
<1>6. FlagInv'
    BY <1>3, <1>4, <1>5, Zenon DEF FlagInv
<1> QED
    BY <1>1, <1>2, <1>6, Zenon

\* The same with the flags and the cache as they are.
LEMMA ServerStays ==
    ASSUME AuthInv, NEW c \in Callers,
           UNCHANGED <<require, login, cli, signer, cache, PublicKeyOK, OneTimeOK>>,
           toServer' = toServer \/ \E t : Gets(c, t),
           srv' \in [Callers -> ServerAt], \A d \in Callers \ {c} : srv'[d] = srv[d],
           srv'[c] \in {"noted", "in"} => PublicKeyOK[c] = TRUE /\ OneTimeOK[c] = TRUE,
           Placed(c, srv'[c])
    PROVE  AuthInv'
<1>1. /\ PublicKeyOK' \in [Callers -> BOOLEAN] /\ OneTimeOK' \in [Callers -> BOOLEAN]
      /\ cache' \in [Callers -> SUBSET [key : Keys \cup {NoKey}, ok : BOOLEAN]]
    BY Zenon DEF AuthInv, AuthTypeOK
<1>2. /\ PublicKeyOK[c] = TRUE => KeyShown(c)
      /\ OneTimeOK[c] = TRUE => AnswersShown(c)
      /\ \A e \in cache[c] : e.ok = TRUE => PublicKeyOK[c] = TRUE /\ OneTimeOK[c] = TRUE
    BY Zenon DEF AuthInv, FlagInv
<1> QED
    BY <1>1, <1>2, ServerKeeps, Zenon

-----------------------------------------------------------------------------
\* What the client sends is its own: a key it offers, signed if it holds it, or the answers
\* it has.
LEMMA SendsItsOwn ==
    ASSUME AuthInv, NEW c \in Callers
    PROVE  /\ \A t \in Kinds \ {"query", "signed", "missigned"} :
                  Sends(c, Plain(t)) => SendsOwn(c)
           /\ \A t \in Kinds : \A i \in DOMAIN login[c].signers :
                  /\ t = "signed" => login[c].signers[i] \in login[c].holds
                  /\ Sends(c, Request(t, login[c].signers[i], "none", "none"))
                  => SendsOwn(c)
           /\ \A p \in {login[c].pass, "none"} : \A o \in {login[c].code, "none"} :
                  Sends(c, Request("answers", NoKey, p, o)) => SendsOwn(c)
           /\ 1 \in DOMAIN login[c].signers
           /\ DOMAIN login[c].signers = 1..Len(login[c].signers) /\ Len(login[c].signers) \in Nat
<1>1. /\ login[c] \in Logins /\ login[c].signers \in Seq(Keys) /\ login[c].signers # <<>>
      /\ login[c].pass \in {"right", "wrong", "none"} /\ login[c].code \in {"right", "wrong", "none"}
    BY Zenon DEF AuthInv, AuthTypeOK, Logins
<1>2. /\ 1 \in DOMAIN login[c].signers
      /\ DOMAIN login[c].signers = 1..Len(login[c].signers) /\ Len(login[c].signers) \in Nat
    BY <1>1
<1>3. \A i \in DOMAIN login[c].signers : login[c].signers[i] \in Keys /\ login[c].signers[i] \in Offers(c)
    BY <1>1 DEF Offers
<1>4. ASSUME NEW t \in Kinds \ {"query", "signed", "missigned"}, Sends(c, Plain(t))
      PROVE  SendsOwn(c)
    <2>1. Plain(t) \in Requests /\ Own(c, Plain(t))
        BY <1>4, Zenon DEF Plain, Request, Requests, Own
    <2> QED
        BY <1>4, <2>1, Zenon DEF SendsOwn
<1>5. ASSUME NEW t \in Kinds, NEW i \in DOMAIN login[c].signers,
             t = "signed" => login[c].signers[i] \in login[c].holds,
             Sends(c, Request(t, login[c].signers[i], "none", "none"))
      PROVE  SendsOwn(c)
    <2> DEFINE m == Request(t, login[c].signers[i], "none", "none")
    <2>1. m \in Requests /\ Own(c, m)
        BY <1>3, <1>5, Zenon DEF Request, Requests, Own
    <2> QED
        BY <1>5, <2>1, Zenon DEF SendsOwn
<1>6. ASSUME NEW p \in {login[c].pass, "none"}, NEW o \in {login[c].code, "none"},
             Sends(c, Request("answers", NoKey, p, o))
      PROVE  SendsOwn(c)
    <2> DEFINE m == Request("answers", NoKey, p, o)
    <2>1. m \in Requests /\ Own(c, m)
        <3>1. m = [type |-> "answers", key |-> NoKey, pass |-> p, code |-> o]
            BY Zenon DEF Request
        <3>2. p \in {"right", "wrong", "none"} /\ o \in {"right", "wrong", "none"}
            BY <1>1, Zenon
        <3> QED
            <4>1. m \in Requests
                BY <3>1, <3>2 DEF Requests, Kinds
            <4>2. m.type = "answers" /\ m.pass = p /\ m.code = o
                BY <3>1
            <4>3. Own(c, m)
                BY <4>2, Zenon DEF Own
            <4> QED
                BY <4>1, <4>3, Zenon
    <2> QED
        BY <1>6, <2>1, Zenon DEF SendsOwn
<1> QED
    BY <1>2, <1>4, <1>5, <1>6, Zenon

\* The client's own variables have their types.
LEMMA ClientTypes ==
    ASSUME AuthInv
    PROVE  cli \in [Callers -> ClientAt] /\ signer \in [Callers -> Nat]
    BY Zenon DEF AuthInv, AuthTypeOK

\* The client gives up.
LEMMA GivesUpKeeps ==
    ASSUME AuthInv, NEW c \in Callers, GivesUp(c),
           UNCHANGED <<require, login, cache, PublicKeyOK, OneTimeOK, srv>>
    PROVE  AuthInv'
<1>1. /\ cli' \in [Callers -> ClientAt] /\ signer' \in [Callers -> Nat] /\ cli'[c] = "failed"
      /\ \A d \in Callers \ {c} : cli'[d] = cli[d] /\ signer'[d] = signer[d]
    BY ClientTypes, Zenon DEF GivesUp, ClientAt
<1>2. SendsOwn(c)
    BY Zenon DEF GivesUp, SendsOwn
<1> QED
    BY <1>1, <1>2, ClientKeeps, Zenon

\* The client goes on to its next method, or gives up.
LEMMA TryNextKeeps ==
    ASSUME AuthInv, NEW c \in Callers, NEW methods, TryNext(c, methods),
           UNCHANGED <<require, login, cache, PublicKeyOK, OneTimeOK, srv>>
    PROVE  AuthInv'
<1>1. GivesUp(c) \/ \E method : Begins(c, method)
    BY Zenon DEF TryNext, findNext
<1>2. CASE GivesUp(c)
    BY <1>2, GivesUpKeeps, Zenon
<1>3. ASSUME NEW method, Begins(c, method) PROVE AuthInv'
    <2>1. CASE method = "publickey"
        <3>1. SendsOwn(c) /\ 1 \in DOMAIN login[c].signers
            <4>1. Sends(c, Request("query", login[c].signers[1], "none", "none"))
                BY <1>3, <2>1, Zenon DEF Begins
            <4> QED
                BY <4>1, SendsItsOwn, Zenon DEF Kinds
        <3>2. /\ cli' \in [Callers -> ClientAt] /\ signer' \in [Callers -> Nat] /\ signer'[c] = 1
              /\ \A d \in Callers \ {c} : cli'[d] = cli[d] /\ signer'[d] = signer[d]
            BY <1>3, <2>1, ClientTypes DEF Begins, ClientAt
        <3> QED
            BY <3>1, <3>2, ClientKeeps, Zenon
    <2>2. CASE method # "publickey"
        <3>1. SendsOwn(c)
            <4>1. Sends(c, Plain("ki"))
                BY <1>3, <2>2, Zenon DEF Begins
            <4> QED
                BY <4>1, SendsItsOwn, Zenon DEF Kinds
        <3>2. /\ cli' \in [Callers -> ClientAt] /\ signer' \in [Callers -> Nat] /\ cli'[c] = "ki"
              /\ \A d \in Callers \ {c} : cli'[d] = cli[d] /\ signer'[d] = signer[d]
            BY <1>3, <2>2, ClientTypes, Zenon DEF Begins, ClientAt
        <3> QED
            BY <3>1, <3>2, ClientKeeps, Zenon
    <2> QED
        BY <2>1, <2>2, Zenon
<1> QED
    BY <1>1, <1>2, <1>3, Zenon

-----------------------------------------------------------------------------
\* Every step of a client keeps the invariant.
LEMMA ClientStepKeeps ==
    ASSUME AuthInv, NEW c \in Callers, ClientStep(c)
    PROVE  AuthInv'
<1> DEFINE Moves(pc) ==
        /\ cli' \in [Callers -> ClientAt] /\ signer' = signer /\ cli'[c] = pc
        /\ \A d \in Callers \ {c} : cli'[d] = cli[d]
        /\ UNCHANGED <<require, login, srv, cache, PublicKeyOK, OneTimeOK>>
<1>0. ASSUME NEW pc, Moves(pc), SendsOwn(c),
             pc \in {"query", "signed"} => signer[c] \in DOMAIN login[c].signers
      PROVE  AuthInv'
    BY <1>0, ClientTypes, ClientKeeps, Zenon
<1>1. CASE RequestService(c)
    <2>1. Moves("service") /\ Sends(c, Plain("service"))
        BY <1>1, ClientTypes, Zenon DEF RequestService, srvVars, flagVars, ClientAt
    <2>2. SendsOwn(c)
        BY <2>1, SendsItsOwn, Zenon DEF Kinds
    <2> QED
        BY <2>1, <2>2, <1>0, Zenon
<1>2. CASE noneAuth(c)
    <2>1. Moves("none") /\ Sends(c, Plain("none"))
        BY <1>2, ClientTypes, Zenon DEF noneAuth, srvVars, flagVars, ClientAt
    <2>2. SendsOwn(c)
        BY <2>1, SendsItsOwn, Zenon DEF Kinds
    <2> QED
        BY <2>1, <2>2, <1>0, Zenon
<1>3. CASE AuthFailure(c)
    BY <1>3, TryNextKeeps, Zenon DEF AuthFailure, srvVars, flagVars
<1>4. CASE AuthSuccess(c)
    <2>1. Moves("in") /\ SendsOwn(c)
        BY <1>4, ClientTypes, Zenon DEF AuthSuccess, srvVars, flagVars, ClientAt, SendsOwn
    <2> QED
        BY <2>1, <1>0, Zenon
<1>5. CASE KeyOK(c)
    <2>1. /\ Moves("signed") /\ cli[c] = "query"
        BY <1>5, ClientTypes, Zenon DEF KeyOK, srvVars, flagVars, ClientAt
    <2>2. signer[c] \in DOMAIN login[c].signers
        BY <2>1, Zenon DEF AuthInv, WireInv
    <2>3. SendsOwn(c)
        <3>1. CASE login[c].signers[signer[c]] \in login[c].holds
            <4>1. Sends(c, Request("signed", login[c].signers[signer[c]], "none", "none"))
                BY <1>5, <3>1, Zenon DEF KeyOK
            <4> QED
                BY <4>1, <3>1, <2>2, SendsItsOwn, Zenon DEF Kinds
        <3>2. CASE login[c].signers[signer[c]] \notin login[c].holds
            <4>1. Sends(c, Request("missigned", login[c].signers[signer[c]], "none", "none"))
                BY <1>5, <3>2, Zenon DEF KeyOK
            <4> QED
                BY <4>1, <2>2, SendsItsOwn, Zenon DEF Kinds
        <3> QED
            BY <3>1, <3>2, Zenon
    <2> QED
        BY <2>1, <2>2, <2>3, <1>0, Zenon
<1>6. CASE KeyRefused(c)
    <2>1. CASE signer[c] < Len(login[c].signers)
        <3>1. /\ Sends(c, Request("query", login[c].signers[signer[c] + 1], "none", "none"))
              /\ cli' \in [Callers -> ClientAt] /\ signer' \in [Callers -> Nat]
              /\ signer'[c] = signer[c] + 1
              /\ \A d \in Callers \ {c} : cli'[d] = cli[d] /\ signer'[d] = signer[d]
              /\ UNCHANGED <<require, login, srv, cache, PublicKeyOK, OneTimeOK>>
            BY <1>6, <2>1, ClientTypes DEF KeyRefused, srvVars, flagVars, ClientAt
        <3>2. signer[c] + 1 \in DOMAIN login[c].signers
            BY <2>1, ClientTypes, SendsItsOwn
        <3>3. SendsOwn(c)
            BY <3>1, <3>2, SendsItsOwn, Zenon DEF Kinds
        <3> QED
            BY <3>1, <3>2, <3>3, ClientKeeps, Zenon
    <2>2. CASE ~(signer[c] < Len(login[c].signers))
        <3>1. /\ \E methods : TryNext(c, methods)
              /\ UNCHANGED <<require, login, cache, PublicKeyOK, OneTimeOK, srv>>
            BY <1>6, <2>2, Zenon DEF KeyRefused, srvVars, flagVars
        <3> QED
            BY <3>1, TryNextKeeps, Zenon
    <2> QED
        BY <2>1, <2>2, Zenon
<1>7. CASE helper(c)
    <2>1. PICK p \in {login[c].pass, "none"}, o \in {login[c].code, "none"} :
              Sends(c, Request("answers", NoKey, p, o))
        BY <1>7, Zenon DEF helper
    <2>2. Moves(cli[c])
        BY <1>7, ClientTypes, Zenon DEF helper, cliVars, srvVars, flagVars
    <2>3. SendsOwn(c)
        BY <2>1, SendsItsOwn, Zenon
    <2>4. cli[c] = "ki"
        BY <1>7, Zenon DEF helper
    <2> QED
        BY <2>2, <2>3, <2>4, <1>0, Zenon
<1>8. CASE ClientFails(c)
    BY <1>8, GivesUpKeeps, Zenon DEF ClientFails, srvVars, flagVars
<1>9. CASE SignFails(c)
    BY <1>9, GivesUpKeeps, Zenon DEF SignFails, srvVars, flagVars
<1> QED
    BY <1>1, <1>2, <1>3, <1>4, <1>5, <1>6, <1>7, <1>8, <1>9, Zenon DEF ClientStep

-----------------------------------------------------------------------------
\* The sshd goes on with c alone.
ServerMoves(c, pc) ==
    /\ srv' \in [Callers -> ServerAt] /\ srv'[c] = pc
    /\ \A d \in Callers \ {c} : srv'[d] = srv[d]

\* The sshd's own variables have their types.
LEMMA ServerTypes ==
    ASSUME AuthInv
    PROVE  /\ srv \in [Callers -> ServerAt]
           /\ PublicKeyOK \in [Callers -> BOOLEAN] /\ OneTimeOK \in [Callers -> BOOLEAN]
           /\ cache \in [Callers -> SUBSET [key : Keys \cup {NoKey}, ok : BOOLEAN]]
    BY Zenon DEF AuthInv, AuthTypeOK

\* An attempt that failed lets nobody in.
LEMMA FailsMoves ==
    ASSUME AuthInv, NEW c \in Callers, NEW f, Fails(c, f)
    PROVE  ServerMoves(c, "loop") \/ ServerMoves(c, "failed")
    BY ServerTypes, Zenon DEF Fails, ServerMoves, ServerAt

\* Most places ask nothing of a login.
LEMMA PlacedEarly ==
    ASSUME NEW c
    PROVE  Placed(c, "waiting") /\ Placed(c, "service") /\ Placed(c, "loop") /\ Placed(c, "failed")
    BY Zenon DEF Placed

\* A move to a place where the login may be, with everything else as it is.
LEMMA MovesKeeps ==
    ASSUME AuthInv, NEW c \in Callers, NEW pc, ServerMoves(c, pc),
           UNCHANGED <<require, login, cli, signer, cache, PublicKeyOK, OneTimeOK>>,
           toServer' = toServer \/ \E t : Gets(c, t),
           pc \in {"noted", "in"} => PublicKeyOK[c] = TRUE /\ OneTimeOK[c] = TRUE,
           Placed(c, pc)
    PROVE  AuthInv'
    BY ServerStays, Zenon DEF ServerMoves

\* The candidate key: what is noted of it, what the cache keeps of it, and that a key
\* is good only with both flags.
LEMMA CandidateSound ==
    ASSUME AuthInv, NEW c \in Callers, NEW k \in Keys \cup {NoKey}, k \in Offers(c), Offered(c, k)
    PROVE  /\ PublicKeyOK' \in [Callers -> BOOLEAN] /\ OneTimeOK' = OneTimeOK
           /\ cache' \in [Callers -> SUBSET [key : Keys \cup {NoKey}, ok : BOOLEAN]]
           /\ \A d \in Callers \ {c} : PublicKeyOK'[d] = PublicKeyOK[d] /\ cache'[d] = cache[d]
           /\ PublicKeyOK'[c] = TRUE => KeyShown(c)
           /\ OneTimeOK'[c] = TRUE => AnswersShown(c)
           /\ \A e \in cache'[c] : e.ok = TRUE => PublicKeyOK'[c] = TRUE /\ OneTimeOK'[c] = TRUE
           /\ Candidate(c, k).ok => PublicKeyOK'[c] = TRUE /\ OneTimeOK[c] = TRUE
<1> DEFINE n == Candidate(c, k).noted
           ok == Candidate(c, k).ok
<1>0. /\ login[c].known \in BOOLEAN
      /\ PublicKeyOK[c] = TRUE => KeyShown(c)
      /\ OneTimeOK[c] = TRUE => AnswersShown(c)
      /\ \A e \in cache[c] : e.ok = TRUE => PublicKeyOK[c] = TRUE /\ OneTimeOK[c] = TRUE
    BY Zenon DEF AuthInv, AuthTypeOK, FlagInv, Logins
<1>1. /\ n \in BOOLEAN /\ ok \in BOOLEAN
      /\ PublicKeyOK[c] = TRUE => n = TRUE
      /\ n = TRUE => KeyShown(c)
      /\ ok = TRUE => n = TRUE /\ OneTimeOK[c] = TRUE
    <2>1. CASE \E e \in cache[c] : e.key = k
        <3>1. n = PublicKeyOK[c] /\ ok = ([key |-> k, ok |-> TRUE] \in cache[c])
            BY <2>1, Zenon DEF Candidate
        <3>2. [key |-> k, ok |-> TRUE] \in cache[c] => PublicKeyOK[c] = TRUE /\ OneTimeOK[c] = TRUE
            BY <1>0, Zenon
        <3> QED
            BY <3>1, <3>2, <1>0, ServerTypes, SMTT(30)
    <2>2. CASE ~ \E e \in cache[c] : e.key = k
        <3>1. /\ n = (PublicKeyOK[c] \/ (login[c].known /\ k = Registered))
              /\ ok = (login[c].known /\ (PublicKeyOK[c] \/ (login[c].known /\ k = Registered)) /\ OneTimeOK[c])
            BY <2>2, Zenon DEF Candidate, PublicKeyCallback
        <3>2. k = Registered => KeyShown(c)
            BY Zenon DEF KeyShown
        <3> QED
            BY <3>1, <3>2, <1>0, ServerTypes, Zenon
    <2> QED
        BY <2>1, <2>2, Zenon
<1>2. /\ PublicKeyOK' = [PublicKeyOK EXCEPT ![c] = n] /\ OneTimeOK' = OneTimeOK
      /\ cache' = [cache EXCEPT ![c] = Cached(c, k, ok)]
    BY Zenon DEF Offered
<1>3. /\ Cached(c, k, ok) \in SUBSET [key : Keys \cup {NoKey}, ok : BOOLEAN]
      /\ \A e \in Cached(c, k, ok) : e \in cache[c] \/ e.ok = ok
    <2>1. cache[c] \in SUBSET [key : Keys \cup {NoKey}, ok : BOOLEAN]
        BY ServerTypes, Zenon
    <2>2. [key |-> k, ok |-> ok] \in [key : Keys \cup {NoKey}, ok : BOOLEAN]
        BY <1>1, Zenon
    <2>3. Cached(c, k, ok) = cache[c] \/ Cached(c, k, ok) = cache[c] \cup {[key |-> k, ok |-> ok]}
        BY Zenon DEF Cached
    <2> HIDE DEF ok
    <2> QED
        BY <2>1, <2>2, <2>3, Zenon
<1> HIDE DEF n, ok
<1>4. PublicKeyOK'[c] = n /\ cache'[c] = Cached(c, k, ok)
    BY <1>2, ServerTypes, Zenon
<1>5. /\ PublicKeyOK' \in [Callers -> BOOLEAN]
      /\ cache' \in [Callers -> SUBSET [key : Keys \cup {NoKey}, ok : BOOLEAN]]
      /\ \A d \in Callers \ {c} : PublicKeyOK'[d] = PublicKeyOK[d] /\ cache'[d] = cache[d]
    BY <1>1, <1>2, <1>3, ServerTypes, Zenon
<1>6. \A e \in cache'[c] : e.ok = TRUE => PublicKeyOK'[c] = TRUE /\ OneTimeOK'[c] = TRUE
    BY <1>0, <1>1, <1>2, <1>3, <1>4, Zenon
<1>7. Candidate(c, k).ok => PublicKeyOK'[c] = TRUE /\ OneTimeOK[c] = TRUE
    BY <1>1, <1>4, Zenon DEF ok
<1> QED
    BY <1>0, <1>1, <1>2, <1>4, <1>5, <1>6, <1>7, Zenon

\* A query or a signature leaves the sshd where it may be.
LEMMA OfferKeeps ==
    ASSUME AuthInv, NEW c \in Callers, NEW t \in {"query", "signed", "missigned"}, Gets(c, t),
           Offered(c, Head(toServer[c]).key), NEW pc, ServerMoves(c, pc),
           pc \in {"noted", "in"} => Candidate(c, Head(toServer[c]).key).ok,
           Placed(c, pc)
    PROVE  AuthInv'
<1> DEFINE k == Head(toServer[c]).key
<1>1. k \in Keys \cup {NoKey} /\ k \in Offers(c)
    BY GetsOwn, Zenon DEF Own, Requests
<1>2. /\ PublicKeyOK' \in [Callers -> BOOLEAN] /\ OneTimeOK' = OneTimeOK
      /\ cache' \in [Callers -> SUBSET [key : Keys \cup {NoKey}, ok : BOOLEAN]]
      /\ \A d \in Callers \ {c} : PublicKeyOK'[d] = PublicKeyOK[d] /\ cache'[d] = cache[d]
      /\ PublicKeyOK'[c] = TRUE => KeyShown(c)
      /\ OneTimeOK'[c] = TRUE => AnswersShown(c)
      /\ \A e \in cache'[c] : e.ok = TRUE => PublicKeyOK'[c] = TRUE /\ OneTimeOK'[c] = TRUE
      /\ Candidate(c, k).ok => PublicKeyOK'[c] = TRUE /\ OneTimeOK[c] = TRUE
    BY <1>1, CandidateSound, Zenon
<1>3. UNCHANGED <<require, login, cli, signer>>
    BY Zenon DEF Offered, cliVars
<1>4. OneTimeOK' \in [Callers -> BOOLEAN]
    BY <1>2, ServerTypes, Zenon
<1>5. /\ srv' \in [Callers -> ServerAt] /\ \A d \in Callers \ {c} : srv'[d] = srv[d]
      /\ srv'[c] \in {"noted", "in"} => PublicKeyOK'[c] = TRUE /\ OneTimeOK'[c] = TRUE
      /\ Placed(c, srv'[c])
    BY <1>2, Zenon DEF ServerMoves
<1> HIDE DEF k
<1> QED
    BY <1>2, <1>3, <1>4, <1>5, ServerKeeps, Zenon

\* Every step of the sshd's keeps the invariant.
LEMMA ServerStepKeeps ==
    ASSUME AuthInv, NEW c \in Callers, ServerStep(c)
    PROVE  AuthInv'
<1> DEFINE Same == UNCHANGED <<require, login, cli, signer, cache, PublicKeyOK, OneTimeOK>>
<1>1. CASE AcceptLoop(c)
    <2>1. Same /\ toServer' = toServer
        BY <1>1, Zenon DEF AcceptLoop, cliVars, flagVars
    <2>2. ServerMoves(c, "failed") \/ ServerMoves(c, "service")
        BY <1>1, ServerTypes, Zenon DEF AcceptLoop, ServerMoves, ServerAt
    <2> QED
        BY <2>1, <2>2, PlacedEarly, MovesKeeps, Zenon
<1>2. CASE serverHandshake(c)
    <2>1. Same /\ Gets(c, "service")
        BY <1>2, Zenon DEF serverHandshake, cliVars, flagVars
    <2>2. ServerMoves(c, "loop")
        BY <1>2, ServerTypes, Zenon DEF serverHandshake, ServerMoves, ServerAt
    <2> QED
        BY <2>1, <2>2, PlacedEarly, MovesKeeps, Zenon
<1>3. CASE NoneRequest(c)
    <2>1. Same /\ Gets(c, "none")
        BY <1>3, Zenon DEF NoneRequest, cliVars
    <2>2. ServerMoves(c, "loop") \/ ServerMoves(c, "failed")
        BY <1>3, FailsMoves, Zenon DEF NoneRequest
    <2> QED
        BY <2>1, <2>2, PlacedEarly, MovesKeeps, Zenon
<1>4. CASE KeyQuery(c)
    <2>1. Gets(c, "query") /\ Offered(c, Head(toServer[c]).key)
        BY <1>4, Zenon DEF KeyQuery
    <2>2. ServerMoves(c, "loop") \/ ServerMoves(c, "failed")
        <3>1. (srv' = srv /\ srv[c] = "loop") \/ \E f : Fails(c, f)
            BY <1>4, Zenon DEF KeyQuery
        <3> QED
            BY <3>1, FailsMoves, ServerTypes, Zenon DEF ServerMoves
    <2> QED
        BY <2>1, <2>2, PlacedEarly, OfferKeeps, Zenon
<1>5. CASE KeySigned(c)
    <2>1. Gets(c, "signed") /\ Offered(c, Head(toServer[c]).key)
        BY <1>5, Zenon DEF KeySigned
    <2>2. \/ ServerMoves(c, "loop") \/ ServerMoves(c, "failed")
          \/ ServerMoves(c, "in") /\ Candidate(c, Head(toServer[c]).key).ok
        <3>1. \/ srv' = [srv EXCEPT ![c] = "in"] /\ Candidate(c, Head(toServer[c]).key).ok
              \/ \E f : Fails(c, f)
            BY <1>5, Zenon DEF KeySigned
        <3> QED
            BY <3>1, FailsMoves, ServerTypes, Zenon DEF ServerMoves, ServerAt
    <2>3. Placed(c, "in")
        <3>1. Head(toServer[c]).key \in Offers(c) /\ Head(toServer[c]).key \in login[c].holds
            BY <2>1, GetsOwn, Zenon DEF Own
        <3> QED
            BY <3>1, Zenon DEF Placed
    <2> QED
        BY <2>1, <2>2, <2>3, PlacedEarly, OfferKeeps, Zenon
<1>10. CASE KeyMissigned(c)
    <2>1. Gets(c, "missigned") /\ Offered(c, Head(toServer[c]).key)
        BY <1>10, Zenon DEF KeyMissigned
    <2>2. ServerMoves(c, "failed")
        BY <1>10, ServerTypes, Zenon DEF KeyMissigned, ServerMoves, ServerAt
    <2> QED
        BY <2>1, <2>2, PlacedEarly, OfferKeeps, Zenon
<1>6. CASE Challenge(c)
    <2>1. Same /\ Gets(c, "ki")
        BY <1>6, Zenon DEF Challenge, cliVars, flagVars
    <2>2. ServerMoves(c, "challenge")
        BY <1>6, ServerTypes, Zenon DEF Challenge, ServerMoves, ServerAt
    <2>3. Placed(c, "challenge")
        BY <1>6, Zenon DEF Challenge, Placed
    <2> QED
        BY <2>1, <2>2, <2>3, MovesKeeps, Zenon
<1>7. CASE KeyboardInteractiveCallback(c)
    <2> DEFINE m == Head(toServer[c])
               right == RightAnswers(c, m)
    <2>1. /\ Gets(c, "answers") /\ UNCHANGED <<require, login, cli, signer, cache, PublicKeyOK>>
          /\ OneTimeOK' = [OneTimeOK EXCEPT ![c] = OneTimeOK[c] \/ right]
          /\ \/ right /\ PublicKeyOK[c] /\ srv' = [srv EXCEPT ![c] = "noted"]
             \/ \E f : Fails(c, f)
        BY <1>7, Zenon DEF KeyboardInteractiveCallback, cliVars
    <2>2. Own(c, m)
        BY <2>1, GetsOwn, Zenon
    <2>3. right \in BOOLEAN /\ (right => AnswersShown(c))
        BY <2>2, Zenon DEF RightAnswers, Own, AnswersShown
    <2> HIDE DEF m, right
    <2>4. /\ OneTimeOK' \in [Callers -> BOOLEAN] /\ OneTimeOK'[c] = (OneTimeOK[c] \/ right)
          /\ \A d \in Callers \ {c} : OneTimeOK'[d] = OneTimeOK[d]
        BY <2>1, <2>3, ServerTypes, Zenon
    <2>5. /\ PublicKeyOK[c] = TRUE => KeyShown(c)
          /\ OneTimeOK'[c] = TRUE => AnswersShown(c)
          /\ \A e \in cache[c] : e.ok = TRUE => PublicKeyOK[c] = TRUE /\ OneTimeOK'[c] = TRUE
        BY <2>3, <2>4, ServerTypes, Zenon DEF AuthInv, FlagInv
    <2>6. /\ srv' \in [Callers -> ServerAt] /\ \A d \in Callers \ {c} : srv'[d] = srv[d]
          /\ srv'[c] \in {"noted", "in"} => PublicKeyOK[c] = TRUE /\ OneTimeOK'[c] = TRUE
          /\ Placed(c, srv'[c])
        <3>1. CASE right /\ PublicKeyOK[c] /\ srv' = [srv EXCEPT ![c] = "noted"]
            <4>1. srv[c] = "challenge"
                BY <1>7, Zenon DEF KeyboardInteractiveCallback
            <4>2. Asks
                BY <4>1, Zenon DEF AuthInv, FlagInv, Placed
            <4>3. Placed(c, "noted")
                BY <4>2, Zenon DEF Placed
            <4> QED
                BY <3>1, <2>3, <2>4, <4>3, ServerTypes, Zenon DEF ServerAt
        <3>2. CASE \E f : Fails(c, f)
            BY <3>2, FailsMoves, PlacedEarly, Zenon DEF ServerMoves
        <3> QED
            BY <2>1, <3>1, <3>2, Zenon
    <2> QED
        BY <2>1, <2>4, <2>5, <2>6, ServerTypes, ServerKeeps, Zenon
<1>8. CASE NoteLogin(c)
    <2>1. Same /\ Gets(c, "answers")
        BY <1>8, Zenon DEF NoteLogin, cliVars, flagVars
    <2>2. ServerMoves(c, "in") /\ srv[c] = "noted"
        BY <1>8, ServerTypes, Zenon DEF NoteLogin, ServerMoves, ServerAt
    <2>3. PublicKeyOK[c] = TRUE /\ OneTimeOK[c] = TRUE
        BY <2>2, Zenon DEF AuthInv, FlagInv
    <2>4. Placed(c, "in")
        BY <2>2, Zenon DEF AuthInv, FlagInv, Placed
    <2> QED
        BY <2>1, <2>2, <2>3, <2>4, MovesKeeps, Zenon
<1>9. CASE ServerFails(c)
    <2>1. Same /\ toServer' = toServer
        BY <1>9, Zenon DEF ServerFails, cliVars, flagVars
    <2>2. ServerMoves(c, "failed")
        BY <1>9, ServerTypes, Zenon DEF ServerFails, ServerMoves, ServerAt
    <2> QED
        BY <2>1, <2>2, PlacedEarly, MovesKeeps, Zenon
<1> QED
    BY <1>1, <1>2, <1>3, <1>4, <1>5, <1>6, <1>7, <1>8, <1>9, <1>10, Zenon DEF ServerStep

-----------------------------------------------------------------------------
\* At the start nothing is required of a factor whose flag is set, and nothing is sent.
LEMMA AuthInitInv ==
    ASSUME require \in SUBSET Factors, login \in [Callers -> Logins], AuthInit
    PROVE  AuthInv
<1>1. AuthTypeOK
    BY DEF AuthInit, AuthTypeOK, ClientAt, ServerAt
<1>2. WireInv
    <2>1. \A c \in Callers : cli[c] = "idle" /\ toServer[c] = <<>>
        BY Zenon DEF AuthInit
    <2>2. 1..Len(<<>>) = {}
        OBVIOUS
    <2> QED
        BY <2>1, <2>2, Zenon DEF WireInv
<1>3. FlagInv
    BY Zenon DEF AuthInit, FlagInv, KeyShown, AnswersShown, Placed
<1> QED
    BY <1>1, <1>2, <1>3, Zenon DEF AuthInv

\* What the invariant speaks of stays as it is.
LEMMA SameKeeps ==
    ASSUME AuthInv,
           UNCHANGED <<require, login, cli, signer, srv, cache, PublicKeyOK, OneTimeOK, toServer>>
    PROVE  AuthInv'
<1>1. AuthTypeOK'
    BY Zenon DEF AuthInv, AuthTypeOK
<1>2. \A d \in Callers : Offers(d)' = Offers(d) /\ \A m : Own(d, m)' <=> Own(d, m)
    BY DEF Offers, Own
<1>3. WireInv'
    BY <1>2, Zenon DEF AuthInv, WireInv
<1>4. FlagInv'
    BY <1>2, Zenon DEF AuthInv, FlagInv, KeyShown, AnswersShown, Placed, Asks
<1> QED
    BY <1>1, <1>3, <1>4, Zenon DEF AuthInv

\* Dialling, the host key's answer and the loss of the connection keep the invariant.
LEMMA DialKeeps ==
    ASSUME AuthInv, NEW c \in Callers,
           mySSHDial(c) \/ HostKeyAccepted(c) \/ HostKeyRefused(c) \/ ConnectionLost(c)
    PROVE  AuthInv'
<1>5. CASE mySSHDial(c) /\ cli'[c] = "failed"
    <2>1. /\ UNCHANGED <<require, login, signer, srv, cache, PublicKeyOK, OneTimeOK, toServer>>
          /\ cli' \in [Callers -> ClientAt] /\ cli'[c] = "failed"
          /\ \A d \in Callers \ {c} : cli'[d] = cli[d]
        BY <1>5, ClientTypes, Zenon DEF mySSHDial, flagVars, ClientAt
    <2> QED
        BY <2>1, ClientTypes, ClientKeeps, Zenon DEF SendsOwn
<1>1. CASE mySSHDial(c) /\ cli'[c] # "failed"
    <2>1. /\ UNCHANGED <<require, login, signer, cache, PublicKeyOK, OneTimeOK, toServer>>
          /\ cli' \in [Callers -> ClientAt] /\ srv' \in [Callers -> ServerAt]
          /\ cli'[c] = "kex" /\ srv'[c] = "waiting"
          /\ \A d \in Callers \ {c} : cli'[d] = cli[d] /\ srv'[d] = srv[d]
        BY <1>1, ClientTypes, ServerTypes, Zenon DEF mySSHDial, flagVars, ClientAt, ServerAt
    <2>2. AuthTypeOK'
        BY <2>1, Zenon DEF AuthInv, AuthTypeOK
    <2>3. \A d \in Callers : Offers(d)' = Offers(d) /\ \A m : Own(d, m)' <=> Own(d, m)
        BY <2>1 DEF Offers, Own
    <2>4. WireInv'
        BY <2>1, <2>3, Zenon DEF AuthInv, WireInv
    <2>5. FlagInv'
        BY <2>1, <2>3, Zenon DEF AuthInv, FlagInv, KeyShown, AnswersShown, Placed, Asks
    <2> QED
        BY <2>2, <2>4, <2>5, Zenon DEF AuthInv
<1>2. CASE HostKeyAccepted(c)
    <2>1. /\ UNCHANGED <<require, login, signer, srv, cache, PublicKeyOK, OneTimeOK, toServer>>
          /\ cli' \in [Callers -> ClientAt] /\ cli'[c] = "start"
          /\ \A d \in Callers \ {c} : cli'[d] = cli[d]
        BY <1>2, ClientTypes, Zenon DEF HostKeyAccepted, srvVars, flagVars, ClientAt
    <2> QED
        BY <2>1, ClientTypes, ClientKeeps, Zenon DEF SendsOwn
<1>3. CASE HostKeyRefused(c)
    BY <1>3, GivesUpKeeps, Zenon DEF HostKeyRefused, srvVars, flagVars
<1>4. CASE ConnectionLost(c)
    <2>1. UNCHANGED <<require, login, cli, signer, srv, cache, PublicKeyOK, OneTimeOK, toServer>>
        BY <1>4, Zenon DEF ConnectionLost, Lose, srvVars, flagVars
    <2> QED
        BY <2>1, SameKeeps, Zenon
<1> QED
    BY <1>1, <1>2, <1>3, <1>4, <1>5, Zenon

\* Whatever the sshd requires, whatever its clients offer, hold and try, however their
\* logins interleave and their connections are lost, and for any MaxAuthTries and size of
\* the cache of keys: who is let in has offered the key on file, if a key is required, and
\* given the right answers to all that is asked; if nothing is asked, it has signed for a
\* key it holds (PublicKeyCallback and KeyboardInteractiveCallback with their flags, and the
\* pubKeyCache in between).
THEOREM OnlyTheCheckedGetIn == AuthSpec => []LoginChecked
<1>1. require \in SUBSET Factors /\ login \in [Callers -> Logins] /\ AuthInit => AuthInv
    BY AuthInitInv, Zenon
<1>2. AuthInv /\ [AuthNext]_authVars => AuthInv'
    <2> SUFFICES ASSUME AuthInv, [AuthNext]_authVars PROVE AuthInv'
        BY Zenon
    <2>1. ASSUME NEW c \in Callers,
                 \/ mySSHDial(c) \/ HostKeyAccepted(c) \/ HostKeyRefused(c)
                 \/ ClientStep(c) \/ ServerStep(c) \/ ConnectionLost(c)
          PROVE  AuthInv'
        BY <2>1, DialKeeps, ClientStepKeeps, ServerStepKeeps, Zenon
    <2>2. CASE UNCHANGED authVars
        BY <2>2, SameKeeps, Zenon DEF authVars, cliVars, srvVars, flagVars
    <2> QED
        BY <2>1, <2>2, Zenon DEF AuthNext
<1>3. AuthInv => LoginChecked
    BY Zenon DEF AuthInv, FlagInv, LoginChecked, KeyShown, AnswersShown, Placed
<1> QED
    BY <1>1, <1>2, <1>3, PTL DEF AuthSpec

-----------------------------------------------------------------------------
(* The forwards. *)

ListenerAt == {"no", "granted", "open", "closing", "cancelling", "closed"}

ForwardTypes ==
    /\ entries \in SUBSET Addrs /\ closed \in SUBSET Addrs
    /\ listener \in [Addrs -> ListenerAt]
    /\ handler \in [Networks -> Opens \cup {"run", "over"}]
    /\ routed \in [Networks -> Seq(Opens)] /\ incoming \in Seq(Opens)
    /\ listMut \in Networks \cup {"free"}

\* Who holds the lock has an open for an address in the list.
HolderInv ==
    \A n \in Networks : listMut = n => handler[n] \in Opens /\ AddrOf(handler[n]) \in entries

\* An address is in the list from AddForward on, and closed after it.
ListInv ==
    /\ entries \cap closed = {}
    /\ \A a \in Addrs : listener[a] \in {"no", "granted"} => a \notin entries \cup closed

ForwardInv == ForwardTypes /\ HolderInv /\ ListInv

-----------------------------------------------------------------------------
\* Nobody is in the list at the start, and nobody holds its lock.
LEMMA ForwardsInitInv == ForwardsInit => ForwardInv
<1> SUFFICES ASSUME ForwardsInit PROVE ForwardInv
    BY Zenon
<1>1. ForwardTypes
    BY DEF ForwardsInit, ForwardTypes, ListenerAt
<1>2. HolderInv
    BY Zenon DEF ForwardsInit, HolderInv, Networks
<1>3. ListInv
    BY Zenon DEF ForwardsInit, ListInv
<1> QED
    BY <1>1, <1>2, <1>3, Zenon DEF ForwardInv

\* The list changes only while nobody holds its lock.
LEMMA ListenerKeeps ==
    ASSUME ForwardInv, NEW a \in Addrs,
           \/ Listen(a) \/ AddForward(a) \/ CloseListener(a) \/ Remove(a) \/ CancelAnswered(a)
           \/ AcceptorStep(a)
    PROVE  ForwardInv'
<1> USE DEF ForwardInv
<1>1. CASE Listen(a)
    <2>1. ForwardTypes'
        BY <1>1, Zenon DEF Listen, ForwardTypes, ListenerAt
    <2>2. HolderInv'
        BY <1>1, Zenon DEF Listen, HolderInv
    <2>3. ListInv'
        BY <1>1, Zenon DEF Listen, ListInv, ForwardTypes
    <2> QED
        BY <2>1, <2>2, <2>3, Zenon
<1>2. CASE AddForward(a)
    <2>1. ForwardTypes'
        BY <1>2, Zenon DEF AddForward, ForwardTypes, ListenerAt
    <2>2. HolderInv'
        BY <1>2, Zenon DEF AddForward, HolderInv, Networks
    <2>3. ListInv'
        BY <1>2, Zenon DEF AddForward, ListInv, ForwardTypes
    <2> QED
        BY <2>1, <2>2, <2>3, Zenon
<1>3. CASE CloseListener(a)
    <2>1. ForwardTypes'
        BY <1>3, Zenon DEF CloseListener, ForwardTypes, ListenerAt
    <2>2. HolderInv'
        BY <1>3, Zenon DEF CloseListener, HolderInv
    <2>3. ListInv'
        BY <1>3, Zenon DEF CloseListener, ListInv, ForwardTypes
    <2> QED
        BY <2>1, <2>2, <2>3, Zenon
<1>4. CASE Remove(a)
    <2>1. ForwardTypes'
        BY <1>4, Zenon DEF Remove, ForwardTypes, ListenerAt
    <2>2. HolderInv'
        BY <1>4, Zenon DEF Remove, HolderInv, Networks
    <2>3. ListInv'
        BY <1>4, Zenon DEF Remove, ListInv, ForwardTypes
    <2> QED
        BY <2>1, <2>2, <2>3, Zenon
<1>5. CASE AcceptorStep(a)
    BY <1>5, Zenon DEF AcceptorStep, AcceptForward, AcceptEOF, ForwardTypes, HolderInv, ListInv
<1>6. CASE CancelAnswered(a)
    <2>1. ForwardTypes'
        BY <1>6, Zenon DEF CancelAnswered, ForwardTypes, ListenerAt
    <2>2. HolderInv'
        BY <1>6, Zenon DEF CancelAnswered, HolderInv
    <2>3. ListInv'
        BY <1>6, Zenon DEF CancelAnswered, ListInv, ForwardTypes
    <2> QED
        BY <2>1, <2>2, <2>3, Zenon
<1> QED
    BY <1>1, <1>2, <1>3, <1>4, <1>5, <1>6, Zenon

\* A handler takes the lock with its address in the list, and keeps its open while it
\* holds it.
LEMMA HandlerKeeps ==
    ASSUME ForwardInv, NEW n \in Networks, HandlerStep(n)
    PROVE  ForwardInv'
<1> USE DEF ForwardInv
<1>1. CASE HandleChannels(n)
    <2>1. routed[n] \in Seq(Opens) /\ routed[n] # <<>>
        BY <1>1, Zenon DEF HandleChannels, ForwardTypes
    <2>2. Head(routed[n]) \in Opens /\ Tail(routed[n]) \in Seq(Opens)
        BY <2>1
    <2>3. ForwardTypes'
        BY <1>1, <2>2, Zenon DEF HandleChannels, ForwardTypes
    <2>4. listMut # n
        BY <1>1, OpensAssumption, Zenon DEF HandleChannels, HolderInv
    <2>5. HolderInv' /\ ListInv'
        BY <1>1, <2>4, Zenon DEF HandleChannels, HolderInv, ListInv, ForwardTypes
    <2> QED
        BY <2>3, <2>5, Zenon
<1>2. CASE Forward(n)
    <2>1. ForwardTypes'
        BY <1>2, Zenon DEF Forward, ForwardTypes
    <2>2. HolderInv'
        BY <1>2, Zenon DEF Forward, HolderInv, ForwardTypes, Networks
    <2>3. ListInv'
        BY <1>2, Zenon DEF Forward, ListInv
    <2> QED
        BY <2>1, <2>2, <2>3, Zenon
<1>3. CASE ForwardSend(n)
    <2>1. ForwardTypes'
        BY <1>3, Zenon DEF ForwardSend, ForwardTypes
    <2>2. HolderInv'
        BY <1>3, Zenon DEF ForwardSend, HolderInv, Networks
    <2>3. ListInv'
        BY <1>3, Zenon DEF ForwardSend, ListInv
    <2> QED
        BY <2>1, <2>2, <2>3, Zenon
<1>4. CASE HandlerEnds(n)
    <2>1. ForwardTypes'
        BY <1>4, Zenon DEF HandlerEnds, ForwardTypes
    <2>2. HolderInv'
        BY <1>4, Zenon DEF HandlerEnds, HolderInv, ForwardTypes, Networks
    <2>3. ListInv'
        BY <1>4, Zenon DEF HandlerEnds, ListInv
    <2> QED
        BY <2>1, <2>2, <2>3, Zenon
<1> QED
    BY <1>1, <1>2, <1>3, <1>4, Zenon DEF HandlerStep

\* The dispatch, the sshd, and the ends of the connection.
LEMMA OthersKeep ==
    ASSUME ForwardInv,
           (\E o \in Opens : OpenArrives(o)) \/ DispatchStep \/ CloseAll \/ MuxEnds \/ ConnClosed
    PROVE  ForwardInv'
<1> USE DEF ForwardInv
<1>1. ASSUME NEW o \in Opens, OpenArrives(o) PROVE ForwardInv'
    <2>1. Append(incoming, o) \in Seq(Opens)
        BY DEF ForwardTypes
    <2> QED
        BY <1>1, <2>1, Zenon DEF OpenArrives, ForwardTypes, HolderInv, ListInv
<1>2. CASE HandleChannelOpens
    <2> DEFINE o == Head(incoming)
               n == Network(AddrOf(o))
    <2>1. o \in Opens /\ Tail(incoming) \in Seq(Opens)
        BY <1>2 DEF HandleChannelOpens, ForwardTypes
    <2>2. routed' \in [Networks -> Seq(Opens)]
        <3>1. \A m \in Networks : Append(routed[m], o) \in Seq(Opens)
            BY <2>1 DEF ForwardTypes
        <3>2. routed' = routed \/ routed' = [routed EXCEPT ![n] = Append(@, o)]
            BY <1>2, Zenon DEF HandleChannelOpens
        <3> HIDE DEF n, o
        <3> QED
            BY <3>1, <3>2, Zenon DEF ForwardTypes
    <2> QED
        BY <1>2, <2>1, <2>2, Zenon DEF HandleChannelOpens, ForwardTypes, HolderInv, ListInv
<1>3. CASE DispatchEnds
    BY <1>3, Zenon DEF DispatchEnds, ForwardTypes, HolderInv, ListInv
<1>4. CASE CloseAll
    <2>1. ForwardTypes'
        BY <1>4, Zenon DEF CloseAll, ForwardTypes
    <2>2. HolderInv'
        BY <1>4, Zenon DEF CloseAll, HolderInv, Networks
    <2>3. ListInv'
        BY <1>4, Zenon DEF CloseAll, ListInv
    <2> QED
        BY <2>1, <2>2, <2>3, Zenon
<1>5. CASE MuxEnds \/ ConnClosed
    BY <1>5, Zenon DEF MuxEnds, ConnClosed, ForwardTypes, HolderInv, ListInv
<1> QED
    BY <1>1, <1>2, <1>3, <1>4, <1>5, Zenon DEF DispatchStep

\* Whatever listeners come and go, however the two handlers, the listeners' Close, the
\* CloseAll at the end of the mux loop and the loss of the connection interleave: Forward
\* never sends to a channel that Remove or CloseAll has closed.
THEOREM NoSendPanics == ForwardsSpec => []NeverSendOnClosed
<1>1. ForwardInv /\ [ForwardsNext]_forwardVars => ForwardInv'
    <2> SUFFICES ASSUME ForwardInv, [ForwardsNext]_forwardVars PROVE ForwardInv'
        BY Zenon
    <2>1. CASE ForwardsNext
        BY <2>1, ListenerKeeps, HandlerKeeps, OthersKeep, Zenon DEF ForwardsNext
    <2>2. CASE UNCHANGED forwardVars
        BY <2>2, Zenon DEF forwardVars, ForwardInv, ForwardTypes, HolderInv, ListInv
    <2> QED
        BY <2>1, <2>2, Zenon
<1>2. ForwardInv => NeverSendOnClosed
    BY Zenon DEF ForwardInv, HolderInv, ListInv, NeverSendOnClosed
<1> QED
    BY ForwardsInitInv, <1>1, <1>2, PTL DEF ForwardsSpec

-----------------------------------------------------------------------------
(* The shovels. *)

CopierAt == {"off", "read", "write", "end"}

ShovelTypes ==
    /\ sent \in [Ends -> Nat] /\ copied \in [Shovels -> Nat]
    /\ copier \in [Shovels -> CopierAt]
    /\ closer \in [Shovels -> {"off", "wait", "w", "end"}]
    /\ starting \in {"no", "AB", "BA", "started"}
    /\ watcher \in {"off", "wait", "AB", "BA", "end"}
    /\ stopped \in BOOLEAN

\* A copier that has ended with its far end, and all it sent.
Complete(s) == copier[s] = "end" /\ R(s) \in finished /\ copied[s] = sent[R(s)]

\* A stop has begun somewhere: a Halter knows, an end is closed or fails, a goroutine of
\* the pair is on its way.
Stopping ==
    \/ reqStop # {} \/ haltDone # {} \/ closedHere # {} \/ gone # {}
    \/ watcher \in {"AB", "BA", "end"} \/ \E s \in Shovels : closer[s] \in {"w", "end"}

\* Copiers start one after the other, with nothing copied twice; every stop has a cause.
ShovelInv ==
    /\ ShovelTypes
    /\ \A s \in Shovels : starting = s \/ starting = "no" => copier[s] = "off"
    /\ starting = "AB" => copier["BA"] = "off"
    /\ Stopping /\ stopped = FALSE /\ shut = {} => \E s \in Shovels : Complete(s)

-----------------------------------------------------------------------------
\* The pair is not started.
LEMMA ShovelInitInv == ShovelInit => ShovelInv
<1> SUFFICES ASSUME ShovelInit PROVE ShovelInv
    BY Zenon
<1>1. ShovelTypes
    BY Zenon DEF ShovelInit, ShovelTypes, CopierAt
<1>2. ~Stopping
    BY Zenon DEF ShovelInit, Stopping
<1>3. \A s \in Shovels : copier[s] = "off"
    BY Zenon DEF ShovelInit
<1>4. starting = "no"
    BY Zenon DEF ShovelInit
<1> QED
    BY <1>1, <1>2, <1>3, <1>4, Zenon DEF ShovelInv

\* A copier that is complete stays so, whatever else happens.
LEMMA CompleteStays ==
    ASSUME ShovelInv, ShovelNext, NEW s \in Shovels, Complete(s)
    PROVE  Complete(s)'
<1> USE DEF ShovelInv, ShovelTypes, Complete
<1>1. R(s) \in Ends /\ s \in {"AB", "BA"}
    BY Zenon DEF R, Ends, Shovels
<1>2. ASSUME NEW z \in Shovels, ShovelStep(z) \/ CopyWrite(z) PROVE Complete(s)'
    BY <1>2, Zenon DEF ShovelStep, CopyRead, CopyWrite, WriteFails, CopyEnds
<1>3. ASSUME NEW z \in Shovels, Closer(z) PROVE Complete(s)'
    BY <1>3, Zenon DEF Closer
<1>4. ASSUME NEW e \in Ends, FarSends(e) PROVE Complete(s)'
    BY <1>4, <1>1, Zenon DEF FarSends
<1>5. ASSUME NEW e \in Ends, FarFinishes(e) \/ FarCloses(e) PROVE Complete(s)'
    BY <1>5, Zenon DEF FarFinishes, FarCloses
<1>6. CASE StartShovel
    <2>1. starting # s
        BY Zenon
    <2> QED
        BY <1>6, <2>1, Zenon DEF StartShovel
<1>7. CASE StartPair \/ Watcher \/ StopPair \/ PeerCloses \/ ChannelLost \/ SocketReset
    BY <1>7, Zenon DEF StartPair, Watcher, StopPair, PeerCloses, ChannelLost, SocketReset
<1> QED
    BY <1>2, <1>3, <1>4, <1>5, <1>6, <1>7, Zenon DEF ShovelNext, FarStep

\* Types and the order of the start.
LEMMA StartKeeps ==
    ASSUME ShovelInv, ShovelNext
    PROVE  /\ ShovelTypes'
           /\ \A s \in Shovels : starting' = s \/ starting' = "no" => copier'[s] = "off"
           /\ starting' = "AB" => copier'["BA"] = "off"
<1> USE DEF ShovelInv, ShovelTypes, CopierAt
<1>0. Shovels = {"AB", "BA"}
    BY Zenon DEF Shovels
<1>2. ASSUME NEW z \in Shovels, ShovelStep(z) \/ CopyWrite(z) PROVE ShovelTypes'
    BY <1>2 DEF ShovelStep, CopyRead, CopyWrite, WriteFails, CopyEnds
<1>3. ASSUME NEW z \in Shovels, ShovelStep(z) \/ CopyWrite(z)
      PROVE  /\ \A s \in Shovels : starting' = s \/ starting' = "no" => copier'[s] = "off"
             /\ starting' = "AB" => copier'["BA"] = "off"
    <2>1. copier[z] # "off" /\ starting' = starting /\ \A s \in Shovels \ {z} : copier'[s] = copier[s]
        BY <1>3, Zenon DEF ShovelStep, CopyRead, CopyWrite, WriteFails, CopyEnds
    <2> QED
        BY <2>1, <1>0, Zenon
<1>4. ASSUME NEW z \in Shovels, Closer(z)
      PROVE  ShovelTypes' /\ copier' = copier /\ starting' = starting
    BY <1>4, Zenon DEF Closer
<1>5. ASSUME NEW e \in Ends, FarSends(e) \/ FarFinishes(e) \/ FarCloses(e)
      PROVE  ShovelTypes' /\ copier' = copier /\ starting' = starting
    BY <1>5 DEF FarSends, FarFinishes, FarCloses
<1>6. CASE StartPair
    BY <1>6, <1>0, Zenon DEF StartPair
<1>7. CASE StartShovel
    BY <1>7, <1>0, Zenon DEF StartShovel
<1>8. CASE Watcher \/ StopPair \/ PeerCloses \/ ChannelLost \/ SocketReset
    <2>1. ShovelTypes' /\ copier' = copier /\ starting' = starting
        BY <1>8, Zenon DEF Watcher, StopPair, PeerCloses, ChannelLost, SocketReset
    <2> QED
        BY <2>1, Zenon
<1> QED
    BY <1>2, <1>3, <1>4, <1>5, <1>6, <1>7, <1>8, Zenon DEF ShovelNext, FarStep

\* A stop that was not asked for begins with a copier that has copied everything.
LEMMA StopHasCause ==
    ASSUME ShovelInv, ShovelNext, Stopping', stopped' = FALSE, shut' = {}
    PROVE  Stopping \/ \E s \in Shovels : Complete(s)'
<1> SUFFICES ASSUME ~Stopping PROVE \E s \in Shovels : Complete(s)'
    BY Zenon
<1>0. /\ reqStop = {} /\ haltDone = {} /\ closedHere = {} /\ gone = {}
      /\ watcher \in {"off", "wait"} /\ \A s \in Shovels : closer[s] \in {"off", "wait"}
    BY Zenon DEF Stopping, ShovelInv, ShovelTypes
<1>7. \A x : shut' # shut \cup {x}
    BY Zenon
<1>1. ASSUME NEW z \in Shovels, ShovelStep(z) \/ CopyWrite(z)
      PROVE  \E s \in Shovels : Complete(s)'
    <2>1. CASE CopyRead(z)
        <3>1. CASE CopyEnds(z) /\ R(z) \in finished /\ copied[z] = sent[R(z)]
            BY <2>1, <3>1, Zenon DEF CopyRead, CopyEnds, Complete, ShovelInv, ShovelTypes
        <3>2. CASE UNCHANGED <<reqStop, haltDone>>
            BY <2>1, <3>2, <1>0, Zenon DEF CopyRead, Stopping
        <3> QED
            BY <2>1, <3>1, <3>2, <1>0, Zenon DEF CopyRead
    <2>2. CASE CopyWrite(z)
        BY <2>2, <1>0, Zenon DEF CopyWrite, Stopping
    <2>3. CASE WriteFails(z)
        BY <2>3, <1>0, Zenon DEF WriteFails
    <2> QED
        BY <1>1, <2>1, <2>2, <2>3, Zenon DEF ShovelStep
<1>2. ASSUME NEW z \in Shovels, Closer(z) PROVE FALSE
    BY <1>2, <1>0, Zenon DEF Closer
<1>3. ASSUME NEW e \in Ends, FarSends(e) \/ FarFinishes(e) PROVE FALSE
    BY <1>3, <1>0, Zenon DEF FarSends, FarFinishes, Stopping
<1>8. ASSUME NEW e \in Ends, FarCloses(e) PROVE FALSE
    BY <1>8, <1>7, Zenon DEF FarCloses
<1>9. CASE SocketReset
    BY <1>9, <1>7, Zenon DEF SocketReset
<1>4. CASE StartPair
    BY <1>4, <1>0, Zenon DEF StartPair, Stopping
<1>5. CASE StartShovel
    <2>1. /\ UNCHANGED <<reqStop, haltDone, closedHere, gone>>
          /\ watcher' \in {"off", "wait"} /\ \A s \in Shovels : closer'[s] \in {"off", "wait"}
        BY <1>5, <1>0, Zenon DEF StartShovel, ShovelInv, ShovelTypes
    <2> QED
        BY <2>1, <1>0, Zenon DEF Stopping
<1>6. CASE Watcher \/ StopPair \/ PeerCloses \/ ChannelLost
    BY <1>6, <1>0, Zenon DEF Watcher, StopPair, PeerCloses, ChannelLost
<1> QED
    BY <1>1, <1>2, <1>3, <1>4, <1>5, <1>6, <1>8, <1>9, Zenon DEF ShovelNext, FarStep

\* However the copiers, the closers, the watcher and the far ends interleave, and however
\* much there is to copy: unless a stop was asked for, the connection was lost or a far end
\* closed or reset its own, an end is closed only after one direction was copied to its end.
THEOREM NoStreamCutShort == ShovelSpec => []NothingCutShort
<1>1. ShovelInv /\ [ShovelNext]_shovelVars => ShovelInv'
    <2> SUFFICES ASSUME ShovelInv, [ShovelNext]_shovelVars PROVE ShovelInv'
        BY Zenon
    <2>1. CASE ShovelNext
        <3>1. Stopping' /\ stopped' = FALSE /\ shut' = {} => \E s \in Shovels : Complete(s)'
            <4> SUFFICES ASSUME Stopping', stopped' = FALSE, shut' = {}
                         PROVE  \E s \in Shovels : Complete(s)'
                BY Zenon
            <4>1. CASE Stopping
                <5>1. stopped = FALSE /\ shut = {}
                    <6>1. (stopped' = stopped \/ stopped' = TRUE) /\ shut \subseteq shut'
                        BY <2>1, Zenon DEF ShovelNext, ShovelStep, CopyRead, CopyWrite, WriteFails,
                                Closer, FarStep, FarSends, FarFinishes, FarCloses, SocketReset,
                                StartPair, StartShovel, Watcher, StopPair, PeerCloses, ChannelLost
                    <6> QED
                        BY <6>1, Zenon
                <5>2. PICK s \in Shovels : Complete(s)
                    BY <4>1, <5>1, Zenon DEF ShovelInv
                <5> QED
                    BY <2>1, <5>2, CompleteStays, Zenon
            <4> QED
                BY <2>1, <4>1, StopHasCause, Zenon
        <3> QED
            BY <2>1, <3>1, StartKeeps, Zenon DEF ShovelInv
    <2>2. CASE UNCHANGED shovelVars
        BY <2>2, Zenon DEF shovelVars, ShovelInv, ShovelTypes, Stopping, Complete
    <2> QED
        BY <2>1, <2>2, Zenon
<1>2. ShovelInv => NothingCutShort
    BY Zenon DEF ShovelInv, ShovelTypes, Stopping, Complete, NothingCutShort
<1> QED
    BY ShovelInitInv, <1>1, <1>2, PTL DEF ShovelSpec
=============================================================================

--------------------------- MODULE Authentication ---------------------------
(***************************************************************************)
(* User authentication on both ends of a connection: clientAuthenticate    *)
(* and its methods (X/client_auth.go), serverAuthenticate (X/server.go),   *)
(* and the callbacks of the embedded sshd with their per-connection flags  *)
(* PublicKeyOK and OneTimeOK (server.go).                                  *)
(*                                                                         *)
(* The sshd serves one login at a time, in its accept loop.  Keys and      *)
(* answers are members of small sets.  A client offers any public keys; it *)
(* can sign for those it holds the private key of.  The connection may be  *)
(* lost at any moment, and what was on the wire with it.                   *)
(***************************************************************************)
EXTENDS Dialing, Integers, Sequences, FiniteSets, FiniteSetsExt

CONSTANTS
    Keys,             \* the public keys a client may offer
    Registered,       \* the key on file for the user
    MaxAuthTries,
    maxCachedPubKeys

ASSUME AuthAssumption ==
    /\ Registered \in Keys
    /\ MaxAuthTries \in Nat \ {0} /\ maxCachedPubKeys \in Nat

VARIABLES
    require,      \* what the sshd asks for: a subset of Factors
    login,        \* [Callers -> what the client has, see Logins]
    signer,       \* [Callers -> the index of the key the client offers]
    tried,        \* [Callers -> the methods the client has tried]
    lastMethods,  \* [Callers -> the methods the server listed last]
    srv,          \* [Callers -> where the sshd is with the connection]
    authFailures, \* [Callers -> Int]
    cache,        \* [Callers -> the pubKeyCache of the connection]
    PublicKeyOK,  \* [Callers -> BOOLEAN], of the PerAttempt
    OneTimeOK,    \* [Callers -> BOOLEAN], of the PerAttempt
    toServer,     \* [Callers -> the requests on the wire]
    toClient      \* [Callers -> the answers on the wire]

cliVars == <<cli, signer, tried, lastMethods>>
flagVars == <<authFailures, cache, PublicKeyOK, OneTimeOK>>
srvVars == <<srv, flagVars>>
authVars == <<require, login, cliVars, srvVars, toServer, toClient, lost>>

Factors == {"rsa", "pass", "totp"}
Methods == {"publickey", "password", "keyboard-interactive"}

\* The user name is one the sshd knows or not; signers are the public keys that are offered,
\* holds those whose signatures are good; the answers are right, wrong or missing; order is
\* the list of methods of the ClientConfig.
Logins ==
    [known : BOOLEAN, signers : Seq(Keys) \ {<<>>}, holds : SUBSET Keys,
     pass : {"right", "wrong", "none"}, code : {"right", "wrong", "none"}, order : Seq(Methods)]

Offers(c) == {login[c].signers[i] : i \in DOMAIN login[c].signers}

NoKey == "no key"
Request(t, k, p, o) == [type |-> t, key |-> k, pass |-> p, code |-> o]
Plain(t) == Request(t, NoKey, "none", "none")
Reply(t, s) == [type |-> t, list |-> s]

AuthInit ==
    /\ cli = [c \in Callers |-> "idle"]
    /\ signer = [c \in Callers |-> 0]
    /\ tried = [c \in Callers |-> {}]
    /\ lastMethods = [c \in Callers |-> {}]
    /\ srv = [c \in Callers |-> "idle"]
    /\ authFailures = [c \in Callers |-> 0]
    /\ cache = [c \in Callers |-> {}]
    /\ PublicKeyOK = [c \in Callers |-> "rsa" \notin require]
    /\ OneTimeOK = [c \in Callers |-> require \cap {"pass", "totp"} = {}]
    /\ toServer = [c \in Callers |-> <<>>]
    /\ toClient = [c \in Callers |-> <<>>]
    /\ lost = {}

-----------------------------------------------------------------------------
(* NewClientConn, and clientAuthenticate in it.                             *)

Sends(c, m) == toServer' = [toServer EXCEPT ![c] = Append(@, m)]

Receives(c, t) ==
    /\ toClient[c] # <<>> /\ Head(toClient[c]).type = t
    /\ toClient' = [toClient EXCEPT ![c] = Tail(@)]

\* The error path of NewClientConn closes the connection.
GivesUp(c) ==
    /\ cli' = [cli EXCEPT ![c] = "failed"]
    /\ lost' = lost \cup {c}
    /\ UNCHANGED <<signer, toServer>>

\* net.DialTimeout fails, or the sshd has the connection in its backlog.
mySSHDial(c) ==
    /\ cli[c] = "idle" /\ srv[c] = "idle"
    /\ \/ cli' = [cli EXCEPT ![c] = "failed"] /\ UNCHANGED srv
       \/ /\ cli' = [cli EXCEPT ![c] = "kex"]
          /\ srv' = [srv EXCEPT ![c] = "waiting"]
    /\ UNCHANGED <<require, login, signer, tried, lastMethods, flagVars, toServer, toClient, lost>>

\* waitSession: the key exchange, which needs the sshd, ends with the host key callback.
HostKeyAccepted(c) ==
    /\ cli[c] = "kex" /\ srv[c] = "service"
    /\ cli' = [cli EXCEPT ![c] = "start"]
    /\ UNCHANGED <<require, login, signer, tried, lastMethods, srvVars, toServer, toClient, lost>>

HostKeyRefused(c) ==
    /\ cli[c] = "kex" /\ srv[c] = "service"
    /\ GivesUp(c)
    /\ UNCHANGED <<require, login, tried, lastMethods, srvVars, toClient>>

\* The first request of an AuthMethod; Password is not in any list of the sshd.
Begins(c, method) ==
    /\ IF method = "publickey"
       THEN /\ Sends(c, Request("query", login[c].signers[1], "none", "none"))
            /\ cli' = [cli EXCEPT ![c] = "query"]
            /\ signer' = [signer EXCEPT ![c] = 1]
       ELSE /\ Sends(c, Plain("ki"))
            /\ cli' = [cli EXCEPT ![c] = "ki"]
            /\ UNCHANGED signer
    /\ UNCHANGED lost

\* findNext: the first method of the configuration that the server lists and that was
\* not tried.
findNext(c, methods, done) ==
    LET order == login[c].order
        left == {i \in DOMAIN order : order[i] \in methods \ done}
    IN  IF left = {} THEN GivesUp(c) ELSE Begins(c, order[Min(left)])

MethodOf(pc) ==
    CASE pc = "none" -> "none"
      [] pc \in {"query", "signed"} -> "publickey"
      [] OTHER -> "keyboard-interactive"

\* The method failed.
TryNext(c, methods) ==
    /\ tried' = [tried EXCEPT ![c] = @ \cup {MethodOf(cli[c])}]
    /\ lastMethods' = [lastMethods EXCEPT ![c] = methods]
    /\ findNext(c, methods, tried[c] \cup {MethodOf(cli[c])})

RequestService(c) ==
    /\ cli[c] = "start" /\ c \notin lost
    /\ Sends(c, Plain("service"))
    /\ cli' = [cli EXCEPT ![c] = "service"]
    /\ UNCHANGED <<require, login, signer, tried, lastMethods, srvVars, toClient, lost>>

noneAuth(c) ==
    /\ cli[c] = "service" /\ Receives(c, "accept")
    /\ Sends(c, Plain("none"))
    /\ cli' = [cli EXCEPT ![c] = "none"]
    /\ UNCHANGED <<require, login, signer, tried, lastMethods, srvVars, lost>>

\* handleAuthResponse.
AuthFailure(c) ==
    /\ cli[c] \in {"none", "ki"} /\ Receives(c, "failure")
    /\ TryNext(c, Head(toClient[c]).list)
    /\ UNCHANGED <<require, login, srvVars>>

AuthSuccess(c) ==
    /\ cli[c] \in {"signed", "ki"} /\ Receives(c, "success")
    /\ cli' = [cli EXCEPT ![c] = "in"]
    /\ UNCHANGED <<require, login, signer, tried, lastMethods, srvVars, toServer, lost>>

\* validateKey: the server takes the key, and the client signs with it; or it does not,
\* and the next key is offered, as after a signature that was refused.  Without the
\* private key the signature is bad, or Sign fails and with it the method.
KeyOK(c) ==
    /\ cli[c] = "query" /\ Receives(c, "pkok")
    /\ LET k == login[c].signers[signer[c]] IN
        Sends(c, Request(IF k \in login[c].holds THEN "signed" ELSE "missigned", k, "none", "none"))
    /\ cli' = [cli EXCEPT ![c] = "signed"]
    /\ UNCHANGED <<require, login, signer, tried, lastMethods, srvVars, lost>>

SignFails(c) ==
    /\ cli[c] = "query" /\ Receives(c, "pkok")
    /\ login[c].signers[signer[c]] \notin login[c].holds
    /\ GivesUp(c)
    /\ UNCHANGED <<require, login, tried, lastMethods, srvVars>>

KeyRefused(c) ==
    /\ cli[c] \in {"query", "signed"} /\ Receives(c, "failure")
    /\ IF signer[c] < Len(login[c].signers)
       THEN /\ Sends(c, Request("query", login[c].signers[signer[c] + 1], "none", "none"))
            /\ signer' = [signer EXCEPT ![c] = @ + 1]
            /\ cli' = [cli EXCEPT ![c] = "query"]
            /\ UNCHANGED <<tried, lastMethods, lost>>
       ELSE TryNext(c, IF cli[c] = "query" THEN lastMethods[c] ELSE Head(toClient[c]).list)
    /\ UNCHANGED <<require, login, srvVars>>

\* The helper of kiCliHelp answers the questions it is asked.
helper(c) ==
    /\ cli[c] = "ki" /\ Receives(c, "info")
    /\ LET asked == Head(toClient[c]).list IN
        Sends(c, Request("answers", NoKey,
                         IF "pass" \in asked THEN login[c].pass ELSE "none",
                         IF "totp" \in asked THEN login[c].code ELSE "none"))
    /\ UNCHANGED <<require, login, cliVars, srvVars, lost>>

\* An error of readPacket: the server said disconnect, or the connection is gone.
ClientFails(c) ==
    /\ cli[c] \notin {"idle", "in", "failed"}
    /\ \/ Receives(c, "disconnect")
       \/ c \in lost /\ UNCHANGED toClient
    /\ GivesUp(c)
    /\ UNCHANGED <<require, login, tried, lastMethods, srvVars>>

-----------------------------------------------------------------------------
(* The sshd.                                                                *)

\* There is something to ask for with the keyboard.
Asks == require \cap {"pass", "totp"} # {}

ServerMethods ==
    (IF "rsa" \in require THEN {"publickey"} ELSE {}) \cup
    (IF Asks THEN {"keyboard-interactive"} ELSE {})

Gets(c, t) ==
    /\ toServer[c] # <<>> /\ Head(toServer[c]).type = t
    /\ toServer' = [toServer EXCEPT ![c] = Tail(@)]

Answers(c, ms) == toClient' = [toClient EXCEPT ![c] = @ \o ms]

\* The accept loop: PerConnection is called without a goroutine.  With nothing to ask
\* for, serverHandshake fails at once.
AcceptLoop(c) ==
    /\ srv[c] = "waiting"
    /\ \A d \in Callers : srv[d] \in {"idle", "waiting", "in", "failed"}
    /\ IF ServerMethods = {}
       THEN srv' = [srv EXCEPT ![c] = "failed"] /\ lost' = lost \cup {c}
       ELSE srv' = [srv EXCEPT ![c] = "service"] /\ UNCHANGED lost
    /\ UNCHANGED <<require, login, cliVars, flagVars, toServer, toClient>>

serverHandshake(c) ==
    /\ srv[c] = "service" /\ Gets(c, "service")
    /\ Answers(c, <<Reply("accept", {})>>)
    /\ srv' = [srv EXCEPT ![c] = "loop"]
    /\ UNCHANGED <<require, login, cliVars, flagVars, lost>>

\* The end of the loop: authErr is not nil.  At the top of the next round the limit is
\* looked at before anything is read.
Fails(c, failures) ==
    /\ authFailures' = [authFailures EXCEPT ![c] = failures + 1]
    /\ IF failures + 1 >= MaxAuthTries
       THEN /\ Answers(c, <<Reply("failure", ServerMethods), Reply("disconnect", {})>>)
            /\ srv' = [srv EXCEPT ![c] = "failed"] /\ lost' = lost \cup {c}
       ELSE /\ Answers(c, <<Reply("failure", ServerMethods)>>)
            /\ srv' = [srv EXCEPT ![c] = "loop"] /\ UNCHANGED lost

\* "none" never passes, and its first attempt costs nothing.
NoneRequestCounted(c) ==
    /\ srv[c] = "loop" /\ Gets(c, "none")
    /\ Fails(c, authFailures[c])
    /\ UNCHANGED <<require, login, cliVars, cache, PublicKeyOK, OneTimeOK>>
NoneRequest(c) ==
    /\ srv[c] = "loop" /\ Gets(c, "none")
    /\ Fails(c, IF authFailures[c] = 0 THEN -1 ELSE authFailures[c])
    /\ UNCHANGED <<require, login, cliVars, cache, PublicKeyOK, OneTimeOK>>

\* PublicKeyCallback: the key on file is noted, before any signature was asked for, and the
\* client is told of it only when the answers were right before, on this connection.
PublicKeyCallback(c, k) ==
    LET match == login[c].known /\ k = Registered IN
    [noted |-> PublicKeyOK[c] \/ match,
     ok |-> login[c].known /\ (PublicKeyOK[c] \/ match) /\ OneTimeOK[c]]

\* The result for the key, from the cache of the connection if it is there.
Candidate(c, k) ==
    IF \E e \in cache[c] : e.key = k
    THEN [noted |-> PublicKeyOK[c], ok |-> [key |-> k, ok |-> TRUE] \in cache[c]]
    ELSE PublicKeyCallback(c, k)

Cached(c, k, ok) ==
    IF (\E e \in cache[c] : e.key = k) \/ Cardinality(cache[c]) >= maxCachedPubKeys
    THEN cache[c]
    ELSE cache[c] \cup {[key |-> k, ok |-> ok]}

Offered(c, k) ==
    /\ PublicKeyOK' = [PublicKeyOK EXCEPT ![c] = Candidate(c, k).noted]
    /\ cache' = [cache EXCEPT ![c] = Cached(c, k, Candidate(c, k).ok)]
    /\ UNCHANGED <<require, login, cliVars, OneTimeOK>>

KeyQuery(c) ==
    /\ srv[c] = "loop" /\ Gets(c, "query")
    /\ LET k == Head(toServer[c]).key IN
        /\ Offered(c, k)
        /\ IF Candidate(c, k).ok
           THEN /\ Answers(c, <<Reply("pkok", {})>>)
                /\ UNCHANGED <<srv, authFailures, lost>>
           ELSE Fails(c, authFailures[c])

\* The signature is right.
KeySigned(c) ==
    /\ srv[c] = "loop" /\ Gets(c, "signed")
    /\ LET k == Head(toServer[c]).key IN
        /\ Offered(c, k)
        /\ IF Candidate(c, k).ok
           THEN /\ Answers(c, <<Reply("success", {})>>)
                /\ srv' = [srv EXCEPT ![c] = "in"]
                /\ UNCHANGED <<authFailures, lost>>
           ELSE Fails(c, authFailures[c])

\* Verify fails, which ends the login and its connection.
KeyMissigned(c) ==
    /\ srv[c] = "loop" /\ Gets(c, "missigned")
    /\ Offered(c, Head(toServer[c]).key)
    /\ srv' = [srv EXCEPT ![c] = "failed"] /\ lost' = lost \cup {c}
    /\ UNCHANGED <<authFailures, toClient>>

\* KeyboardInteractiveCallback, which is listed when there is something to ask: the
\* questions ...
Challenge(c) ==
    /\ srv[c] = "loop" /\ Asks /\ Gets(c, "ki")
    /\ Answers(c, <<Reply("info", require \cap {"pass", "totp"})>>)
    /\ srv' = [srv EXCEPT ![c] = "challenge"]
    /\ UNCHANGED <<require, login, cliVars, flagVars, lost>>

\* ... the answers, and when all is right a last message that asks nothing ...
RightAnswersEither(c, m) ==
    /\ login[c].known
    /\ "pass" \notin require \/ m.pass = "right" \/ m.code = "right"
    /\ "totp" \notin require \/ m.code = "right"
RightAnswers(c, m) ==
    /\ login[c].known
    /\ "pass" \notin require \/ m.pass = "right"
    /\ "totp" \notin require \/ m.code = "right"

KeyboardInteractiveCallback(c) ==
    /\ srv[c] = "challenge" /\ Gets(c, "answers")
    /\ LET right == RightAnswers(c, Head(toServer[c])) IN
        /\ OneTimeOK' = [OneTimeOK EXCEPT ![c] = @ \/ right]
        /\ IF right /\ PublicKeyOK[c]
           THEN /\ Answers(c, <<Reply("info", {})>>)
                /\ srv' = [srv EXCEPT ![c] = "noted"]
                /\ UNCHANGED <<authFailures, lost>>
           ELSE Fails(c, authFailures[c])
    /\ UNCHANGED <<require, login, cliVars, cache, PublicKeyOK>>

\* ... after which the login is noted and accepted.
NoteLogin(c) ==
    /\ srv[c] = "noted" /\ Gets(c, "answers")
    /\ Answers(c, <<Reply("success", {})>>)
    /\ srv' = [srv EXCEPT ![c] = "in"]
    /\ UNCHANGED <<require, login, cliVars, flagVars, lost>>

\* An error of readPacket or writePacket; NewServerConn closes the connection.
ServerFails(c) ==
    /\ srv[c] \notin {"idle", "waiting", "in", "failed"} /\ c \in lost
    /\ srv' = [srv EXCEPT ![c] = "failed"]
    /\ UNCHANGED <<require, login, cliVars, flagVars, toServer, toClient, lost>>

-----------------------------------------------------------------------------
ConnectionLost(c) ==
    Lose(c) /\ UNCHANGED <<require, login, signer, tried, lastMethods, srvVars, toServer, toClient>>

ClientStep(c) ==
    \/ RequestService(c) \/ noneAuth(c) \/ AuthFailure(c) \/ AuthSuccess(c)
    \/ KeyOK(c) \/ SignFails(c) \/ KeyRefused(c) \/ helper(c) \/ ClientFails(c)

ServerStep(c) ==
    \/ AcceptLoop(c) \/ serverHandshake(c) \/ NoneRequest(c) \/ KeyQuery(c) \/ KeySigned(c)
    \/ KeyMissigned(c) \/ Challenge(c) \/ KeyboardInteractiveCallback(c)
    \/ NoteLogin(c) \/ ServerFails(c)

AuthNext ==
    \E c \in Callers :
        \/ mySSHDial(c) \/ HostKeyAccepted(c) \/ HostKeyRefused(c)
        \/ ClientStep(c) \/ ServerStep(c) \/ ConnectionLost(c)

\* Any requirements, and clients with anything.
AuthSpec ==
    /\ require \in SUBSET Factors /\ login \in [Callers -> Logins] /\ AuthInit
    /\ [][AuthNext]_authVars

-----------------------------------------------------------------------------
\* What the sshd has checked of a client it lets in, whatever it tried, in whatever order,
\* and whatever the cache and the flags remember of earlier attempts: it offered the key on
\* file, and its answers to all that is asked were right; and if nothing is asked, it gave a
\* good signature for one of the keys it offered.  The signature need not be for the key on
\* file, and with right answers there need be none: PublicKeyCallback sets PublicKeyOK
\* when the key is offered.
LoginChecked ==
    \A c \in Callers :
        srv[c] = "in" =>
            /\ "rsa" \in require => Registered \in Offers(c)
            /\ "pass" \in require => login[c].pass = "right"
            /\ "totp" \in require => login[c].code = "right"
            /\ ~Asks => Offers(c) \cap login[c].holds # {}

\* The ends agree: a client that takes itself for logged in is.
EndsAgree == \A c \in Callers : cli[c] = "in" => srv[c] = "in"
=============================================================================

----------------------------- MODULE Handshake -----------------------------
(***************************************************************************)
(* xcryptossh/handshake.go: the handshakeTransport of both ends of a       *)
(* connection, which changes keys while others read and write packets.     *)
(* Each end runs readLoop and kexLoop, and kexLoop leaves a goroutine that *)
(* drains startKex behind; writePacket is called by others.                *)
(*                                                                         *)
(* A key is the number of the key exchange that made it; every packet on   *)
(* the wire carries the key it is encrypted with (transport.go).  The      *)
(* exchange itself is one message of the client and one of the server.     *)
(***************************************************************************)
EXTENDS Naturals, Sequences

CONSTANTS
    ChanSize,   \* chanSize, the capacity of incoming
    Uses        \* what happens to the connection, one of these per behaviour

Peer == {"client", "server"}
Other(p) == IF p = "client" THEN "server" ELSE "client"

\* How many packets each end writes and how often a threshold asks for new keys,
\* and what may go wrong: the connection breaks, an end is told to halt, or the
\* client's hostKeyCallback says no.
Use == [data : [Peer -> Nat], rekeys : [Peer -> Nat],
        failures : SUBSET {"lost", "halt", "reject"}]

ASSUME UsesAssumption == ChanSize \in Nat \ {0} /\ Uses \subseteq Use

VARIABLES
    use,                \* the one of Uses
    wire,               \* wire[p]: packets p sent
    up,                 \* the connection under the transport works
    wkey, rkey,         \* the keys in use
    rpend,              \* pendingKeyChange of the reader, 0 for none
    sentInit,           \* sentInitMsg is not nil
    pending,            \* pendingPackets
    writeError,
    muHeld,             \* kexLoop holds t.mu
    requestKex, startKex, startClosed, kexDone,   \* the Go channels
    kpc, request, sent, \* kexLoop and its locals
    drain,              \* the draining goroutine
    rpc, hand,          \* readLoop, and the packet it has read
    incoming, inClosed,
    session,            \* the first key exchange is over
    halted,             \* config.Halt has been asked to stop
    writing,            \* a call of writePacket is in progress
    written, got, asked,\* packets written and read by the users; rekeys
    protoError          \* a packet could not be decrypted, or was unexpected

keyVars  == <<wkey, rkey, rpend>>
kexVars  == <<sentInit, muHeld, requestKex, kexDone, kpc, request, sent, drain>>
readVars == <<rpc, hand, incoming, inClosed, session>>
userVars == <<halted, writing, written, got, asked>>
vars == <<use, wire, up, keyVars, pending, writeError, startKex, startClosed,
          kexVars, readVars, userVars, protoError>>

Packet == [type : {"kexInit", "kex", "newKeys", "data"}, key : Nat, n : Nat]

TypeOK ==
    /\ use \in Uses
    /\ wire \in [Peer -> Seq(Packet)]
    /\ up \in BOOLEAN
    /\ wkey \in [Peer -> Nat] /\ rkey \in [Peer -> Nat]
    /\ rpend \in [Peer -> Nat]
    /\ sentInit \in [Peer -> BOOLEAN]
    /\ pending \in [Peer -> Seq(Nat)]
    /\ writeError \in [Peer -> BOOLEAN]
    /\ muHeld \in [Peer -> BOOLEAN]
    /\ requestKex \in [Peer -> BOOLEAN]
    /\ startKex \in [Peer -> BOOLEAN] /\ startClosed \in [Peer -> BOOLEAN]
    /\ kexDone \in [Peer -> {"none", "ok", "error"}]
    /\ kpc \in [Peer -> {"top", "select", "check", "kex1", "kex2", "kex3", "locked",
                         "flush", "end"}]
    /\ request \in [Peer -> BOOLEAN] /\ sent \in [Peer -> BOOLEAN]
    /\ drain \in [Peer -> {"no", "run", "end"}]
    /\ rpc \in [Peer -> {"read", "deliver", "offer", "kexWait", "fail", "record",
                         "end"}]
    /\ hand \in [Peer -> Nat]
    /\ incoming \in [Peer -> Seq(Nat)]
    /\ \A p \in Peer : Len(incoming[p]) <= ChanSize
    /\ inClosed \in [Peer -> BOOLEAN]
    /\ session \in [Peer -> BOOLEAN]
    /\ halted \in [Peer -> BOOLEAN] /\ writing \in [Peer -> BOOLEAN]
    /\ written \in [Peer -> Nat] /\ got \in [Peer -> Nat]
    /\ asked \in [Peer -> Nat]
    /\ protoError \in [Peer -> BOOLEAN]

\* newHandshakeTransport: a mandatory key exchange is requested.
Init ==
    /\ use \in Uses
    /\ wire = [p \in Peer |-> <<>>]
    /\ up = TRUE
    /\ wkey = [p \in Peer |-> 0] /\ rkey = [p \in Peer |-> 0]
    /\ rpend = [p \in Peer |-> 0]
    /\ sentInit = [p \in Peer |-> FALSE]
    /\ pending = [p \in Peer |-> <<>>]
    /\ writeError = [p \in Peer |-> FALSE]
    /\ muHeld = [p \in Peer |-> FALSE]
    /\ requestKex = [p \in Peer |-> TRUE]
    /\ startKex = [p \in Peer |-> FALSE]
    /\ startClosed = [p \in Peer |-> FALSE]
    /\ kexDone = [p \in Peer |-> "none"]
    /\ kpc = [p \in Peer |-> "top"]
    /\ request = [p \in Peer |-> FALSE]
    /\ sent = [p \in Peer |-> FALSE]
    /\ drain = [p \in Peer |-> "no"]
    /\ rpc = [p \in Peer |-> "read"]
    /\ hand = [p \in Peer |-> 0]
    /\ incoming = [p \in Peer |-> <<>>]
    /\ inClosed = [p \in Peer |-> FALSE]
    /\ session = [p \in Peer |-> FALSE]
    /\ halted = [p \in Peer |-> FALSE]
    /\ writing = [p \in Peer |-> FALSE]
    /\ written = [p \in Peer |-> 0]
    /\ got = [p \in Peer |-> 0]
    /\ asked = [p \in Peer |-> 0]
    /\ protoError = [p \in Peer |-> FALSE]

-----------------------------------------------------------------------------
(* The transport: packets, encrypted with the key of their direction *)

Encrypted(p, type, n) == [type |-> type, key |-> wkey[p], n |-> n]
Sent(w, p, pkts) == IF up THEN [w EXCEPT ![p] = @ \o pkts] ELSE w
Arrived(p) == wire[Other(p)] # <<>>
Pkt(p) == Head(wire[Other(p)])
Took(p) == [wire EXCEPT ![Other(p)] = Tail(@)]
Readable(p) == Pkt(p).key = rkey[p]

-----------------------------------------------------------------------------
(* writePacket *)

CallWrite(p) ==
    /\ session[p] /\ ~writing[p] /\ written[p] < use.data[p]
    /\ writing' = [writing EXCEPT ![p] = TRUE]
    /\ UNCHANGED <<use, wire, up, keyVars, pending, writeError, startKex, startClosed,
                   kexVars, readVars, halted, written, got, asked, protoError>>

\* requestKeyExchange, when a threshold of packets or bytes is passed.
Threshold(p) ==
    \/ UNCHANGED <<requestKex, asked>>
    \/ /\ asked[p] < use.rekeys[p]
       /\ asked' = [asked EXCEPT ![p] = @ + 1]
       /\ requestKex' = [requestKex EXCEPT ![p] = TRUE]

Push(p, n) ==
    /\ wire' = Sent(wire, p, <<Encrypted(p, "data", n)>>)
    /\ writeError' = [writeError EXCEPT ![p] = ~up]
    /\ Threshold(p)
    /\ UNCHANGED pending

\* writePacket: while a key exchange is in progress the packet is queued.
Queue(p, n) ==
    /\ pending' = [pending EXCEPT ![p] = Append(@, n)]
    /\ UNCHANGED <<wire, writeError, requestKex, asked>>

\* writePacket after t.mu.Lock: it returns at once when a write has failed.
WritePacket(p) ==
    /\ writing[p] /\ ~muHeld[p]
    /\ writing' = [writing EXCEPT ![p] = FALSE]
    /\ \/ /\ writeError[p]
          /\ UNCHANGED <<wire, pending, writeError, requestKex, asked, written>>
       \/ /\ ~writeError[p]
          /\ written' = [written EXCEPT ![p] = @ + 1]
          /\ IF sentInit[p] THEN Queue(p, written[p] + 1)
                            ELSE Push(p, written[p] + 1)
    /\ UNCHANGED <<use, up, keyVars, startKex, startClosed, sentInit, muHeld, kexDone,
                   kpc, request, sent, drain, readVars, halted, got, protoError>>

-----------------------------------------------------------------------------
(* readLoop *)

ReadFails(p) ==
    /\ rpc' = [rpc EXCEPT ![p] = "fail"]
    /\ UNCHANGED <<hand, requestKex, asked>>

\* transport.readPacket and readOnePacket up to the test for msgKexInit.  The
\* first packet must be a msgKexInit; a msgNewKeys is bogus here.
ReadOnePacket(p) ==
    /\ rpc[p] = "read"
    /\ \/ /\ Arrived(p)
          /\ wire' = Took(p)
          /\ IF ~Readable(p) \/ Pkt(p).type \in {"kex", "newKeys"}
             THEN /\ protoError' = [protoError EXCEPT ![p] = TRUE]
                  /\ ReadFails(p)
             ELSE /\ UNCHANGED protoError
                  /\ Threshold(p)
                  /\ hand' = [hand EXCEPT ![p] = Pkt(p).n]
                  /\ rpc' = [rpc EXCEPT ![p] =
                        IF Pkt(p).type = "kexInit" THEN "offer" ELSE "deliver"]
       \/ /\ ~up
          /\ ReadFails(p)
          /\ UNCHANGED <<wire, protoError>>
    /\ UNCHANGED <<use, up, keyVars, pending, writeError, startKex, startClosed,
                   sentInit, muHeld, kexDone, kpc, request, sent, drain,
                   incoming, inClosed, session, halted, writing, written, got>>

\* The packet goes to the reader, or readLoop returns.
Deliver(p) ==
    /\ rpc[p] = "deliver"
    /\ hand' = [hand EXCEPT ![p] = 0]
    /\ \/ /\ Len(incoming[p]) < ChanSize
          /\ incoming' = [incoming EXCEPT ![p] = Append(@, hand[p])]
          /\ rpc' = [rpc EXCEPT ![p] = "read"]
       \/ /\ halted[p]
          /\ rpc' = [rpc EXCEPT ![p] = "end"]
          /\ UNCHANGED incoming
    /\ UNCHANGED <<use, wire, up, keyVars, pending, writeError, startKex, startClosed,
                   kexVars, inClosed, session, userVars, protoError>>

\* t.startKex <- &kex
Offer(p) ==
    /\ rpc[p] = "offer"
    /\ \/ /\ ~startKex[p]
          /\ startKex' = [startKex EXCEPT ![p] = TRUE]
          /\ rpc' = [rpc EXCEPT ![p] = "kexWait"]
       \/ /\ halted[p]
          /\ rpc' = [rpc EXCEPT ![p] = "fail"]
          /\ UNCHANGED startKex
    /\ UNCHANGED <<use, wire, up, keyVars, pending, writeError, startClosed, kexVars,
                   hand, incoming, inClosed, session, userVars, protoError>>

\* <-kex.done; the first success is what waitSession waits for.
KexDone(p) ==
    /\ rpc[p] = "kexWait"
    /\ \/ /\ kexDone[p] # "none"
          /\ kexDone' = [kexDone EXCEPT ![p] = "none"]
          /\ rpc' = [rpc EXCEPT ![p] = IF kexDone[p] = "ok" THEN "read" ELSE "fail"]
          /\ session' = [session EXCEPT ![p] = @ \/ kexDone[p] = "ok"]
       \/ /\ halted[p]
          /\ rpc' = [rpc EXCEPT ![p] = "fail"]
          /\ UNCHANGED <<kexDone, session>>
    /\ UNCHANGED <<use, wire, up, keyVars, pending, writeError, startKex, startClosed,
                   sentInit, muHeld, requestKex, kpc, request, sent, drain,
                   hand, incoming, inClosed, userVars, protoError>>

CloseIncoming(p) ==
    /\ rpc[p] = "fail"
    /\ inClosed' = [inClosed EXCEPT ![p] = TRUE]
    /\ rpc' = [rpc EXCEPT ![p] = "record"]
    /\ UNCHANGED <<use, wire, up, keyVars, pending, writeError, startKex, startClosed,
                   kexVars, hand, incoming, session, userVars, protoError>>

\* The mutant leaves startKex open.
StopWritersOpen(p) ==
    /\ rpc[p] = "record" /\ ~muHeld[p]
    /\ writeError' = [writeError EXCEPT ![p] = TRUE]
    /\ rpc' = [rpc EXCEPT ![p] = "end"]
    /\ UNCHANGED <<use, wire, up, keyVars, pending, startKex, startClosed, kexVars,
                   hand, incoming, inClosed, session, userVars, protoError>>

\* recordWriteError(t.readError); close(t.startKex)
StopWriters(p) ==
    /\ rpc[p] = "record" /\ ~muHeld[p]
    /\ writeError' = [writeError EXCEPT ![p] = TRUE]
    /\ startClosed' = [startClosed EXCEPT ![p] = TRUE]
    /\ rpc' = [rpc EXCEPT ![p] = "end"]
    /\ UNCHANGED <<use, wire, up, keyVars, pending, startKex, kexVars, hand, incoming,
                   inClosed, session, userVars, protoError>>

\* readPacket, called by the mux.
ReadPacket(p) ==
    /\ incoming[p] # <<>>
    /\ incoming' = [incoming EXCEPT ![p] = Tail(@)]
    /\ got' = [got EXCEPT ![p] = Head(incoming[p])]
    /\ UNCHANGED <<use, wire, up, keyVars, pending, writeError, startKex, startClosed,
                   kexVars, rpc, hand, inClosed, session, halted, writing,
                   written, asked, protoError>>

-----------------------------------------------------------------------------
(* kexLoop *)

KGoto(p, pc) == kpc' = [kpc EXCEPT ![p] = pc]

\* kexLoop's end: the draining goroutine starts and the connection is closed.
LeaveLoop(p) ==
    /\ KGoto(p, "end")
    /\ drain' = [drain EXCEPT ![p] = "run"]
    /\ up' = FALSE

\* sendKexInit, and where the inner loop goes from there; req says whether
\* kexLoop has the other side's kexInit.
SendKexInit(p, req) ==
    LET ok == sentInit[p] \/ up IN
    /\ wire' = IF sentInit[p] THEN wire
               ELSE Sent(wire, p, <<Encrypted(p, "kexInit", 0)>>)
    /\ sentInit' = [sentInit EXCEPT ![p] = ok]
    /\ writeError' = [writeError EXCEPT ![p] = @ \/ ~ok]
    /\ sent' = [sent EXCEPT ![p] = ok]
    /\ request' = [request EXCEPT ![p] = req]
    /\ KGoto(p, IF ~ok \/ req THEN "check" ELSE "select")

\* The test of the outer loop.
Top(p) ==
    /\ kpc[p] = "top"
    /\ IF writeError[p]
       THEN LeaveLoop(p)
       ELSE KGoto(p, "select") /\ UNCHANGED <<drain, up>>
    /\ request' = [request EXCEPT ![p] = FALSE]
    /\ sent' = [sent EXCEPT ![p] = FALSE]
    /\ UNCHANGED <<use, wire, keyVars, pending, writeError, startKex, startClosed,
                   sentInit, muHeld, requestKex, kexDone, readVars, userVars,
                   protoError>>

\* The select of the inner loop.
Select(p) ==
    /\ kpc[p] = "select"
    /\ \/ /\ startKex[p]
          /\ startKex' = [startKex EXCEPT ![p] = FALSE]
          /\ SendKexInit(p, TRUE)
          /\ UNCHANGED <<up, drain, requestKex>>
       \/ /\ startClosed[p] /\ ~startKex[p]
          /\ LeaveLoop(p)
          /\ UNCHANGED <<wire, writeError, sentInit, request, sent, startKex,
                         requestKex>>
       \/ /\ requestKex[p]
          /\ requestKex' = [requestKex EXCEPT ![p] = FALSE]
          /\ SendKexInit(p, request[p])
          /\ UNCHANGED <<up, drain, startKex>>
       \/ /\ halted[p]
          /\ KGoto(p, "end")
          /\ UNCHANGED <<wire, up, writeError, sentInit, request, sent, drain,
                         startKex, requestKex>>
    /\ UNCHANGED <<use, keyVars, pending, startClosed, muHeld, kexDone, readVars,
                   userVars, protoError>>

\* getWriteError after the inner loop.
Check(p) ==
    /\ kpc[p] = "check"
    /\ \/ /\ ~writeError[p]
          /\ KGoto(p, "kex1")
          /\ UNCHANGED <<kexDone, drain, up>>
       \/ /\ writeError[p]
          /\ kexDone' = [kexDone EXCEPT ![p] = IF request[p] THEN "error" ELSE @]
          /\ LeaveLoop(p)
       \/ /\ writeError[p] /\ request[p] /\ halted[p]
          /\ KGoto(p, "end")
          /\ UNCHANGED <<kexDone, drain, up>>
    /\ UNCHANGED <<use, wire, keyVars, pending, writeError, startKex, startClosed,
                   sentInit, muHeld, requestKex, request, sent, readVars,
                   userVars, protoError>>

\* The mutants: t.mu is not held until the queued packets are out; sentInitMsg
\* is not reset.
FinishUnlocked(p, err) ==
    /\ muHeld' = muHeld
    /\ writeError' = [writeError EXCEPT ![p] = err]
    /\ sentInit' = [sentInit EXCEPT ![p] = FALSE]
    /\ requestKex' = [requestKex EXCEPT ![p] = FALSE]
    /\ KGoto(p, "locked")

FinishKeepsInit(p, err) ==
    /\ muHeld' = [muHeld EXCEPT ![p] = TRUE]
    /\ writeError' = [writeError EXCEPT ![p] = err]
    /\ requestKex' = [requestKex EXCEPT ![p] = FALSE]
    /\ KGoto(p, "locked")
    /\ UNCHANGED sentInit

\* t.mu.Lock() after enterKeyExchange, up to the send of its result.
Finish(p, err) ==
    /\ muHeld' = [muHeld EXCEPT ![p] = TRUE]
    /\ writeError' = [writeError EXCEPT ![p] = err]
    /\ sentInit' = [sentInit EXCEPT ![p] = FALSE]
    /\ requestKex' = [requestKex EXCEPT ![p] = FALSE]
    /\ KGoto(p, "locked")

Continue(p, pc) ==
    /\ KGoto(p, pc)
    /\ UNCHANGED <<muHeld, writeError, sentInit, requestKex>>

\* The mutant changes the key before the msgNewKeys is sent.
SendNewKeysEarly(p, w) ==
    /\ wire' = Sent(w, p, <<[Encrypted(p, "newKeys", 0) EXCEPT !.key = @ + 1]>>)
    /\ rpend' = [rpend EXCEPT ![p] = rkey[p] + 1]
    /\ IF up THEN /\ wkey' = [wkey EXCEPT ![p] = @ + 1]
                  /\ Continue(p, "kex3")
             ELSE /\ UNCHANGED wkey
                  /\ Finish(p, TRUE)

\* prepareKeyChange, then the msgNewKeys whose sending changes the key.
SendNewKeys(p, w) ==
    /\ wire' = Sent(w, p, <<Encrypted(p, "newKeys", 0)>>)
    /\ rpend' = [rpend EXCEPT ![p] = rkey[p] + 1]
    /\ IF up THEN /\ wkey' = [wkey EXCEPT ![p] = @ + 1]
                  /\ Continue(p, "kex3")
             ELSE /\ UNCHANGED wkey
                  /\ Finish(p, TRUE)

\* The client's first message, or nothing.
ClientKex(p) ==
    /\ kpc[p] = "kex1"
    /\ wire' = IF p = "client" THEN Sent(wire, p, <<Encrypted(p, "kex", 0)>>)
                               ELSE wire
    /\ IF p = "client" /\ ~up THEN Finish(p, TRUE) ELSE Continue(p, "kex2")
    /\ UNCHANGED <<use, up, keyVars, pending, startKex, startClosed, kexDone, request,
                   sent, drain, readVars, userVars, protoError>>

KexReadFails(p) ==
    /\ ~up
    /\ Finish(p, TRUE)
    /\ UNCHANGED <<wire, keyVars, protoError>>

Unexpected(p) ==
    /\ protoError' = [protoError EXCEPT ![p] = TRUE]
    /\ Finish(p, TRUE)
    /\ wire' = Took(p)
    /\ UNCHANGED keyVars

\* kex.Server and kex.Client: the server answers the message it has read.
KexAnswer(p) ==
    IF p = "client" THEN Took(p) ELSE Sent(Took(p), p, <<Encrypted(p, "kex", 0)>>)

\* The kex algorithm: the server answers the client's message, the client reads
\* the answer and checks the host key; then both prepare the key change and
\* announce it.  prepareKeyChange may give up when the end is halted.
AgreeKey(p) ==
    /\ kpc[p] = "kex2"
    /\ \/ /\ Arrived(p)
          /\ IF ~Readable(p) \/ Pkt(p).type # "kex"
             THEN Unexpected(p)
             ELSE /\ \/ SendNewKeys(p, KexAnswer(p))
                     \/ /\ halted[p] \/ (p = "client" /\ "reject" \in use.failures)
                        /\ wire' = KexAnswer(p)
                        /\ Finish(p, TRUE)
                        /\ UNCHANGED <<wkey, rpend>>
                  /\ UNCHANGED <<rkey, protoError>>
       \/ KexReadFails(p)
    /\ UNCHANGED <<use, up, pending, startKex, startClosed, kexDone, request, sent,
                   drain, readVars, userVars>>

\* The other side's msgNewKeys changes the key of the reader.
ReadNewKeys(p) ==
    /\ kpc[p] = "kex3"
    /\ \/ /\ Arrived(p)
          /\ IF ~Readable(p) \/ Pkt(p).type # "newKeys"
             THEN Unexpected(p)
             ELSE /\ wire' = Took(p)
                  /\ rkey' = [rkey EXCEPT ![p] = rpend[p]]
                  /\ rpend' = [rpend EXCEPT ![p] = 0]
                  /\ Finish(p, FALSE)
                  /\ UNCHANGED <<wkey, protoError>>
       \/ KexReadFails(p)
    /\ UNCHANGED <<use, up, pending, startKex, startClosed, kexDone, request, sent,
                   drain, readVars, userVars>>

\* request.done <- t.writeError, or the return that leaves t.mu locked.
TellReader(p) ==
    /\ kpc[p] = "locked"
    /\ \/ /\ kexDone' = [kexDone EXCEPT ![p] = IF writeError[p] THEN "error" ELSE "ok"]
          /\ KGoto(p, "flush")
       \/ /\ halted[p]
          /\ KGoto(p, "end")
          /\ UNCHANGED kexDone
    /\ UNCHANGED <<use, wire, up, keyVars, pending, writeError, startKex, startClosed,
                   sentInit, muHeld, requestKex, request, sent, drain, readVars,
                   userVars, protoError>>

\* The packets queued during the exchange go out; t.mu.Unlock().
Flush(p) ==
    /\ kpc[p] = "flush"
    /\ wire' = Sent(wire, p, [i \in DOMAIN pending[p] |->
                                Encrypted(p, "data", pending[p][i])])
    /\ writeError' = [writeError EXCEPT ![p] = IF pending[p] = <<>> THEN @ ELSE ~up]
    /\ pending' = [pending EXCEPT ![p] = <<>>]
    /\ muHeld' = [muHeld EXCEPT ![p] = FALSE]
    /\ KGoto(p, "top")
    /\ UNCHANGED <<use, up, keyVars, startKex, startClosed, sentInit, requestKex,
                   kexDone, request, sent, drain, readVars, userVars, protoError>>

\* The draining goroutine; a closed startKex keeps it going round.
Drain(p) ==
    /\ drain[p] = "run"
    /\ \/ /\ startKex[p]
          /\ startKex' = [startKex EXCEPT ![p] = FALSE]
          /\ kexDone' = [kexDone EXCEPT ![p] = IF writeError[p] THEN "error" ELSE "ok"]
          /\ UNCHANGED drain
       \/ /\ halted[p]
          /\ drain' = [drain EXCEPT ![p] = "end"]
          /\ UNCHANGED <<startKex, kexDone>>
    /\ UNCHANGED <<use, wire, up, keyVars, pending, writeError, startClosed, sentInit,
                   muHeld, requestKex, kpc, request, sent, readVars, userVars,
                   protoError>>

-----------------------------------------------------------------------------
(* What happens to the connection *)

\* config.Halt.RequestStop, or the context is cancelled.
Halt(p) ==
    /\ "halt" \in use.failures /\ ~halted[p]
    /\ halted' = [halted EXCEPT ![p] = TRUE]
    /\ UNCHANGED <<use, wire, up, keyVars, pending, writeError, startKex, startClosed,
                   kexVars, readVars, writing, written, got, asked, protoError>>

Lose ==
    /\ "lost" \in use.failures /\ up
    /\ up' = FALSE
    /\ UNCHANGED <<use, wire, keyVars, pending, writeError, startKex, startClosed,
                   kexVars, readVars, userVars, protoError>>

ReadLoop(p) ==
    \/ ReadOnePacket(p) \/ Deliver(p) \/ Offer(p) \/ KexDone(p)
    \/ CloseIncoming(p) \/ StopWriters(p)

KexLoop(p) ==
    \/ Top(p) \/ Select(p) \/ Check(p) \/ ClientKex(p) \/ AgreeKey(p)
    \/ ReadNewKeys(p) \/ TellReader(p) \/ Flush(p)

Next ==
    \/ Lose
    \/ \E p \in Peer :
          \/ CallWrite(p) \/ WritePacket(p) \/ ReadPacket(p)
          \/ ReadLoop(p) \/ KexLoop(p) \/ Drain(p) \/ Halt(p)

Spec == Init /\ [][Next]_vars

\* The goroutines and the calls in progress go on; nobody has to write, to halt
\* or to break the connection.
Fairness ==
    \A p \in Peer :
        /\ WF_vars(ReadLoop(p)) /\ WF_vars(KexLoop(p)) /\ WF_vars(Drain(p))
        /\ WF_vars(WritePacket(p)) /\ WF_vars(ReadPacket(p))

FairSpec == Spec /\ Fairness

-----------------------------------------------------------------------------
(* Properties *)

\* The numbers of queued packets, and of the data packets on a wire; the packet in the hands
\* of readLoop.
Numbers(s) == {s[i] : i \in DOMAIN s}
DataIn(w) == {w[i].n : i \in {j \in DOMAIN w : w[j].type = "data"}}
Held(p) == IF rpc[p] = "deliver" THEN {hand[p]} ELSE {}

Ascends(s) == \A i, j \in DOMAIN s : i < j => s[i] < s[j]
DataAscends(w) ==
    \A i, j \in DOMAIN w :
        i < j /\ w[i].type = "data" /\ w[j].type = "data" => w[i].n < w[j].n

\* Six sets of packets, each before the next ones.
Precedes(S, T) == \A m \in S, n \in T : m < n
Ordered(A, B, C, D, E, F) ==
    /\ Precedes(A, B \cup C \cup D \cup E \cup F) /\ Precedes(B, C \cup D \cup E \cup F)
    /\ Precedes(C, D \cup E \cup F) /\ Precedes(D, E \cup F) /\ Precedes(E, F)

\* Whatever the two ends' rekeys do, the packets written arrive in the order in
\* which writePacket accepted them; as long as the connection works and no end
\* is halted or fails, none is missing (pendingPackets and its flush).
PacketsInOrder ==
    \A p \in Peer :
        LET q == Other(p) IN
        /\ Ascends(incoming[p]) /\ DataAscends(wire[q]) /\ Ascends(pending[q])
        /\ Ordered({got[p]}, Numbers(incoming[p]), Held(p), DataIn(wire[q]),
                   Numbers(pending[q]), {written[q] + 1})
        /\ up /\ use.failures \cap {"halt", "reject"} = {} =>
              (got[p] + 1)..written[q] \subseteq
                  Numbers(incoming[p]) \cup Held(p) \cup DataIn(wire[q])
                      \cup Numbers(pending[q])

\* Rekeys that either end, or both at once, begin while packets are in flight
\* never make an end read a packet with the wrong key, a data packet inside a
\* key exchange, or a message of the exchange outside it, also when the
\* connection breaks, unless an end gave an exchange up (enterKeyExchange,
\* sendKexInit, writePacket).
NoProtocolError ==
    \A p \in Peer : protoError[p] => use.failures \cap {"halt", "reject"} # {}

KeyAfter(x) == IF x.type = "newKeys" THEN x.key + 1 ELSE x.key

\* The two ends change the keys of each direction at the same point of the
\* stream: every packet in flight carries the key its reader will have when it
\* gets there (connectionState.readPacket and writePacket).
KeysInStep ==
    \A p \in Peer :
        LET w == wire[Other(p)] IN
        /\ w # <<>> => w[1].key = rkey[p]
        /\ \A i \in 1..(Len(w) - 1) : w[i + 1].key = KeyAfter(w[i])
        /\ up => wkey[Other(p)] = IF w = <<>> THEN rkey[p] ELSE KeyAfter(w[Len(w)])

\* Both ends always agree on where the stream changes its keys, and neither ever reads
\* what it does not expect there.
KeysAgree == TypeOK /\ KeysInStep /\ NoProtocolError

\* While the connection works, key exchanges end, and every packet that
\* writePacket accepted, queued in an exchange or not, is read by the other end.
PacketsArrive ==
    []<>(use.failures = {} =>
            \A p \in Peer : /\ ~sentInit[p] /\ ~requestKex[p]
                            /\ got[p] = written[Other(p)])

\* When the connection breaks, or the client gives an exchange up, kexLoop and
\* readLoop of both ends end, whatever each was waiting for, and the callers of
\* writePacket return ("Stop writers too", "Unblock the writer should it wait
\* for this").
LoopsEnd ==
    \A p \in Peer :
        []<>("halt" \notin use.failures =>
                ~writing[p] /\ (~up => rpc[p] = "end" /\ kpc[p] = "end"))

\* handshake.go:237: after a read error readLoop will "Stop writers too": a
\* caller of writePacket gets the error, also when the end is halted.
WritersStopped == \A p \in Peer : []<>(~writing[p])

=============================================================================

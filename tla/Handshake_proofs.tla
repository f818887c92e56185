-------------------------- MODULE Handshake_proofs --------------------------
(***************************************************************************)
(* The two safety properties of handshakeTransport, for any number of      *)
(* packets and of key exchanges and for every use of the two ends.         *)
(*                                                                         *)
(* KeysAgree rests on StreamInv.  The reader of each wire is in a phase    *)
(* (ReadPhase: outside an exchange, before the exchange's message, before  *)
(* the change of keys) that its loops determine, and so is the sender      *)
(* (SendPhase).  The packets between them form a Chain: from the reader's  *)
(* phase and key each packet is one the reader then expects, under the key *)
(* it will then have, and the last one leads to the sender's phase and     *)
(* key.  Taking the first packet or adding one behind the last keeps the   *)
(* chain; what a step does to the loops of its own end decides which       *)
(* packets it may add.                                                     *)
(*                                                                         *)
(* PacketsInOrder is inductive on top of it: StreamInv says that a packet  *)
(* taken inside an exchange is no data, and that nothing is queued while   *)
(* writePacket sends directly.                                             *)
(***************************************************************************)
EXTENDS Handshake, TLAPS

\* Neither end gives an exchange up: none is halted, none rejects a key.
NoneGivesUp == use.failures \cap {"halt", "reject"} = {}

\* kexLoop is in an exchange.
Busy(p) ==
    kpc[p] \in {"kex1", "kex2", "kex3", "locked"} \/ (kpc[p] = "check" /\ request[p])

\* What the reader of an end expects next: outside a key exchange, the exchange's message,
\* the change of keys, or nothing any more.
ReadPhase(p) ==
    IF rpc[p] \in {"read", "deliver"} THEN "open"
    ELSE IF kpc[p] = "kex3" THEN "newKeys"
    ELSE IF \/ rpc[p] = "offer" \/ (startKex[p] /\ kpc[p] # "end")
            \/ kpc[p] \in {"kex1", "kex2"} \/ (kpc[p] = "check" /\ request[p])
         THEN "kex"
    ELSE IF /\ rpc[p] = "kexWait"
            /\ (kpc[p] = "locked" /\ ~writeError[p]) \/ kexDone[p] = "ok"
         THEN "open"
    ELSE "dead"

\* What an end may send next: anything outside an exchange, its message of the exchange,
\* its change of keys, or nothing any more.
SendPhase(q) ==
    IF ~sentInit[q] \/ kpc[q] = "kex3" THEN "open"
    ELSE IF kpc[q] = "end" THEN "none"
    ELSE IF kpc[q] = "kex2" /\ q = "client" THEN "newKeys"
    ELSE "kex"

\* What comes behind a packet.
PhaseAfter(x) ==
    IF x.type = "kexInit" THEN "kex" ELSE IF x.type = "kex" THEN "newKeys" ELSE "open"

\* A packet is what its reader expects. Data and a kexInit may come out of place when an end
\* gives up an exchange ("strict" is that none does).
Fits(phase, x, strict) ==
    /\ x.type = "kex" => phase = "kex"
    /\ x.type = "newKeys" => phase = "newKeys"
    /\ strict /\ x.type \in {"data", "kexInit"} => phase = "open"

\* The packets of a wire, from the phase and the key of its reader on: each is encrypted with
\* the key that those before it leave, and is what its reader expects behind them.
Chain(w, phase, key, strict) ==
    /\ w # <<>> => w[1].key = key /\ (phase # "dead" => Fits(phase, w[1], strict))
    /\ \A i \in 1..(Len(w) - 1) :
          w[i + 1].key = KeyAfter(w[i]) /\ Fits(PhaseAfter(w[i]), w[i + 1], strict)

\* The key and the phase behind the last packet of a wire.
TailKey(w, key) == IF w = <<>> THEN key ELSE KeyAfter(w[Len(w)])
TailPhase(w, phase) == IF w = <<>> THEN phase ELSE PhaseAfter(w[Len(w)])

\* A chain, and what it ends with.
Ends(w, phase, key, strict, tail, tailKey) ==
    /\ Chain(w, phase, key, strict)
    /\ TailKey(w, key) = tailKey /\ TailPhase(w, phase) = tail

\* What a sender may send is what its reader will expect.
Agreed(phase, tail, strict) ==
    tail = "dead" \/ phase = "none" \/ (phase = "open" /\ ~strict) \/ tail = phase

\* The wire to p leads from p's key and phase to those of its sender.
Stream(p) ==
    LET q == Other(p) IN
    /\ Chain(wire[q], ReadPhase(p), rkey[p], NoneGivesUp)
    /\ up => /\ wkey[q] = TailKey(wire[q], rkey[p])
             /\ Agreed(SendPhase(q), TailPhase(wire[q], ReadPhase(p)), NoneGivesUp)

\* readLoop hands one request at a time to kexLoop, and waits for its end.
Asking(p) ==
    /\ rpc[p] \in {"read", "deliver", "offer"} => ~startKex[p] /\ kexDone[p] = "none" /\ ~Busy(p)
    /\ startKex[p] => ~Busy(p) /\ kexDone[p] = "none"
    /\ Busy(p) => kexDone[p] = "none"
    /\ rpc[p] = "kexWait" => startKex[p] \/ Busy(p) \/ kexDone[p] # "none" \/ kpc[p] = "end"

\* kexLoop has the other side's kexInit, and has sent its own, when it exchanges keys.
Exchanging(p) ==
    /\ kpc[p] \in {"kex1", "kex2", "kex3", "locked"} => request[p]
    /\ kpc[p] = "select" => ~request[p]
    /\ kpc[p] = "check" => (request[p] /\ sentInit[p]) \/ writeError[p]
    /\ kpc[p] \in {"kex1", "kex2", "kex3"} => sentInit[p]
    /\ sentInit[p] => kpc[p] \in {"select", "check", "kex1", "kex2", "kex3", "end"}
    /\ kpc[p] = "kex3" => rpend[p] = rkey[p] + 1

\* t.mu is held from the end of the exchange until the queue is empty.
Locking(p) ==
    /\ kpc[p] \in {"locked", "flush"} => muHeld[p]
    /\ muHeld[p] => kpc[p] \in {"locked", "flush", "end"}
    /\ pending[p] # <<>> => sentInit[p] \/ muHeld[p]

\* The channels are closed, and startKex is emptied, at the end of the loops.
Ending(p) ==
    /\ startClosed[p] => rpc[p] = "end"
    /\ drain[p] = "run" => kpc[p] = "end" /\ (rpc[p] # "end" => writeError[p])

\* What holds between the loops of one end.
Loops(p) == Asking(p) /\ Exchanging(p) /\ Locking(p) /\ Ending(p)

\* Without an end that gives up, and while the connection lasts, nothing fails.
Sound(p) ==
    /\ halted[p] => "halt" \in use.failures
    /\ NoneGivesUp => ~protoError[p]
    /\ NoneGivesUp /\ up =>
          /\ ~writeError[p] /\ rpc[p] \notin {"fail", "record", "end"} /\ kpc[p] # "end"
          /\ kexDone[p] # "error"

\* The inductive invariant.
StreamInv == TypeOK /\ \A p \in Peer : Loops(p) /\ Sound(p) /\ Stream(p)

-----------------------------------------------------------------------------
(* Types.                                                                  *)

\* The two ends are each other's other end.
LEMMA OtherPeer == \A p \in Peer : Other(p) \in Peer /\ Other(p) # p /\ Other(Other(p)) = p
BY DEF Peer, Other

\* What is put on the wire, and what is left of it when a packet is taken.
LEMMA SentType ==
    ASSUME NEW w \in [Peer -> Seq(Packet)], NEW p \in Peer, NEW s \in Seq(Packet)
    PROVE  Sent(w, p, s) \in [Peer -> Seq(Packet)]
<1>1. w[p] \o s \in Seq(Packet)
  OBVIOUS
<1> QED
  BY <1>1, Zenon DEF Sent

\* What is left of the wires when a packet is taken, and the packet.
LEMMA TookType ==
    ASSUME wire \in [Peer -> Seq(Packet)], NEW p \in Peer, Arrived(p)
    PROVE  /\ Took(p) \in [Peer -> Seq(Packet)]
           /\ Pkt(p) \in Packet
<1>1. wire[Other(p)] \in Seq(Packet) /\ wire[Other(p)] # <<>>
  BY OtherPeer, Zenon DEF Arrived
<1>2. Tail(wire[Other(p)]) \in Seq(Packet) /\ Head(wire[Other(p)]) \in Packet
  BY <1>1
<1> QED
  BY <1>2, OtherPeer, Zenon DEF Took, Pkt

\* pushPacket's packet.
LEMMA EncryptedType ==
    ASSUME wkey \in [Peer -> Nat], NEW p \in Peer, NEW n \in Nat,
           NEW t \in {"kexInit", "kex", "newKeys", "data"}
    PROVE  Encrypted(p, t, n) \in Packet /\ <<Encrypted(p, t, n)>> \in Seq(Packet)
<1>1. Encrypted(p, t, n) \in Packet
  BY DEF Encrypted, Packet
<1> QED
  BY <1>1

\* The packets that waited for the end of the exchange, encrypted.
LEMMA QueuedType ==
    ASSUME wkey \in [Peer -> Nat], pending \in [Peer -> Seq(Nat)], NEW p \in Peer
    PROVE  [i \in DOMAIN pending[p] |-> Encrypted(p, "data", pending[p][i])] \in Seq(Packet)
<1>1. pending[p] \in Seq(Nat)
  OBVIOUS
<1>2. \A i \in DOMAIN pending[p] : Encrypted(p, "data", pending[p][i]) \in Packet
  BY <1>1, EncryptedType
<1>3. DOMAIN pending[p] = 1..Len(pending[p]) /\ Len(pending[p]) \in Nat
  BY <1>1
<1> QED
  BY <1>2, <1>3

\* What the end of a key exchange sets.
LoopTypes ==
    /\ muHeld \in [Peer -> BOOLEAN] /\ writeError \in [Peer -> BOOLEAN]
    /\ sentInit \in [Peer -> BOOLEAN] /\ requestKex \in [Peer -> BOOLEAN]
    /\ kpc \in [Peer -> {"top", "select", "check", "kex1", "kex2", "kex3", "locked", "flush", "end"}]

\* The end of enterKeyExchange keeps the types of what it sets ...
LEMMA FinishType ==
    ASSUME TypeOK, NEW p \in Peer, NEW err \in BOOLEAN, Finish(p, err)
    PROVE  LoopTypes'
BY Zenon DEF TypeOK, LoopTypes, Finish, KGoto

\* ... and so does its next step.
LEMMA ContinueType ==
    ASSUME TypeOK, NEW p \in Peer, NEW pc \in {"kex2", "kex3"}, Continue(p, pc)
    PROVE  LoopTypes'
BY Zenon DEF TypeOK, LoopTypes, Continue, KGoto

\* A user calls writePacket.
LEMMA CallWriteType == ASSUME TypeOK, NEW p \in Peer, CallWrite(p) PROVE TypeOK'
<1>1. writing' \in [Peer -> BOOLEAN]
  BY Zenon DEF TypeOK, CallWrite
<1>2. UNCHANGED <<use, wire, up, keyVars, pending, writeError, startKex, startClosed,
                  kexVars, readVars, halted, written, got, asked, protoError>>
  BY Zenon DEF CallWrite
<1> QED
  BY <1>1, <1>2, Zenon DEF TypeOK, keyVars, kexVars, readVars, userVars

\* writePacket queues, sends or fails.
LEMMA WritePacketType == ASSUME TypeOK, NEW p \in Peer, WritePacket(p) PROVE TypeOK'
<1>1. writing' \in [Peer -> BOOLEAN]
  BY Zenon DEF TypeOK, WritePacket, Push, Queue, Threshold, Sent
<1>2. wire' \in [Peer -> Seq(Packet)]
  <2>1. \/ wire' = wire
        \/ wire' = Sent(wire, p, <<Encrypted(p, "data", written[p] + 1)>>)
    BY Zenon DEF WritePacket, Push, Queue, Threshold
  <2>2. wire \in [Peer -> Seq(Packet)] /\ wkey \in [Peer -> Nat] /\ written \in [Peer -> Nat]
    BY Zenon DEF TypeOK
  <2>3. written[p] + 1 \in Nat
    BY <2>2
  <2>4. <<Encrypted(p, "data", written[p] + 1)>> \in Seq(Packet)
    BY <2>2, <2>3, EncryptedType, Zenon
  <2>5. Sent(wire, p, <<Encrypted(p, "data", written[p] + 1)>>) \in [Peer -> Seq(Packet)]
    BY <2>2, <2>4, SentType, Zenon
  <2> QED
    BY <2>1, <2>2, <2>5, Zenon
<1>3. pending' \in [Peer -> Seq(Nat)]
  <2>1. \/ pending' = pending
        \/ pending' = [pending EXCEPT ![p] = Append(@, written[p] + 1)]
    BY Zenon DEF WritePacket, Push, Queue, Threshold, Sent
  <2>2. written \in [Peer -> Nat] /\ pending \in [Peer -> Seq(Nat)]
    BY Zenon DEF TypeOK
  <2>3. Append(pending[p], written[p] + 1) \in Seq(Nat)
    BY <2>2
  <2> QED
    BY <2>1, <2>2, <2>3, Zenon
<1>4. writeError' \in [Peer -> BOOLEAN]
  <2>1. \/ writeError' = writeError
        \/ writeError' = [writeError EXCEPT ![p] = ~up]
    BY Zenon DEF WritePacket, Push, Queue, Threshold, Sent
  <2>2. up \in BOOLEAN /\ writeError \in [Peer -> BOOLEAN]
    BY Zenon DEF TypeOK
  <2> QED
    BY <2>1, <2>2, Zenon
<1>5. requestKex' \in [Peer -> BOOLEAN]
  <2>1. \/ requestKex' = requestKex
        \/ requestKex' = [requestKex EXCEPT ![p] = TRUE]
    BY Zenon DEF WritePacket, Push, Queue, Threshold, Sent
  <2>2. requestKex \in [Peer -> BOOLEAN]
    BY Zenon DEF TypeOK
  <2> QED
    BY <2>1, <2>2, Zenon
<1>6. asked' \in [Peer -> Nat]
  <2>1. \/ asked' = asked
        \/ asked' = [asked EXCEPT ![p] = @ + 1]
    BY Zenon DEF WritePacket, Push, Queue, Threshold, Sent
  <2>2. asked \in [Peer -> Nat]
    BY Zenon DEF TypeOK
  <2>3. asked[p] + 1 \in Nat
    BY <2>2
  <2> QED
    BY <2>1, <2>2, <2>3, Zenon
<1>7. written' \in [Peer -> Nat]
  <2>1. \/ written' = written
        \/ written' = [written EXCEPT ![p] = @ + 1]
    BY Zenon DEF WritePacket, Push, Queue, Threshold, Sent
  <2>2. written \in [Peer -> Nat]
    BY Zenon DEF TypeOK
  <2>3. written[p] + 1 \in Nat
    BY <2>2
  <2> QED
    BY <2>1, <2>2, <2>3, Zenon
<1>8. UNCHANGED <<use, up, keyVars, startKex, startClosed, sentInit, muHeld, kexDone,
                  kpc, request, sent, drain, readVars, halted, got, protoError>>
  BY Zenon DEF WritePacket
<1> QED
  BY <1>1, <1>2, <1>3, <1>4, <1>5, <1>6, <1>7, <1>8, Zenon DEF TypeOK, keyVars, kexVars,
     readVars, userVars

\* readOnePacket takes a packet of the wire.
LEMMA ReadOnePacketType == ASSUME TypeOK, NEW p \in Peer, ReadOnePacket(p) PROVE TypeOK'
<1>1. wire' \in [Peer -> Seq(Packet)]
  <2>1. \/ wire' = wire
        \/ Arrived(p) /\ wire' = Took(p)
    BY Zenon DEF ReadOnePacket, ReadFails, Threshold
  <2>2. wire \in [Peer -> Seq(Packet)]
    BY Zenon DEF TypeOK
  <2> QED
    BY <2>1, <2>2, TookType, Zenon
<1>2. rpc' \in [Peer -> {"read", "deliver", "offer", "kexWait", "fail", "record", "end"}]
  <2>1. \/ rpc' = rpc
        \/ rpc' = [rpc EXCEPT ![p] = "fail"]
        \/ rpc' = [rpc EXCEPT ![p] = "offer"]
        \/ rpc' = [rpc EXCEPT ![p] = "deliver"]
    BY Zenon DEF ReadOnePacket, Took, ReadFails, Threshold
  <2>2. rpc \in [Peer -> {"read", "deliver", "offer", "kexWait", "fail", "record", "end"}]
    BY Zenon DEF TypeOK
  <2> QED
    BY <2>1, <2>2, Zenon
<1>3. protoError' \in [Peer -> BOOLEAN]
  <2>1. \/ protoError' = protoError
        \/ protoError' = [protoError EXCEPT ![p] = TRUE]
    BY Zenon DEF ReadOnePacket, Took, ReadFails, Threshold
  <2>2. protoError \in [Peer -> BOOLEAN]
    BY Zenon DEF TypeOK
  <2> QED
    BY <2>1, <2>2, Zenon
<1>4. hand' \in [Peer -> Nat]
  <2>1. \/ hand' = hand
        \/ Arrived(p) /\ hand' = [hand EXCEPT ![p] = Pkt(p).n]
    BY Zenon DEF ReadOnePacket, Took, ReadFails, Threshold
  <2>2. wire \in [Peer -> Seq(Packet)] /\ hand \in [Peer -> Nat]
    BY Zenon DEF TypeOK
  <2>3. Arrived(p) => Pkt(p).n \in Nat
    BY <2>2, TookType DEF Packet
  <2> QED
    BY <2>1, <2>2, <2>3, Zenon
<1>5. asked' \in [Peer -> Nat]
  <2>1. \/ asked' = asked
        \/ asked' = [asked EXCEPT ![p] = @ + 1]
    BY Zenon DEF ReadOnePacket, Took, ReadFails, Threshold
  <2>2. asked \in [Peer -> Nat]
    BY Zenon DEF TypeOK
  <2>3. asked[p] + 1 \in Nat
    BY <2>2
  <2> QED
    BY <2>1, <2>2, <2>3, Zenon
<1>6. requestKex' \in [Peer -> BOOLEAN]
  <2>1. \/ requestKex' = requestKex
        \/ requestKex' = [requestKex EXCEPT ![p] = TRUE]
    BY Zenon DEF ReadOnePacket, Took, ReadFails, Threshold
  <2>2. requestKex \in [Peer -> BOOLEAN]
    BY Zenon DEF TypeOK
  <2> QED
    BY <2>1, <2>2, Zenon
<1>7. UNCHANGED <<use, up, keyVars, pending, writeError, startKex, startClosed,
                  sentInit, muHeld, kexDone, kpc, request, sent, drain, incoming,
                  inClosed, session, halted, writing, written, got>>
  BY Zenon DEF ReadOnePacket
<1> QED
  BY <1>1, <1>2, <1>3, <1>4, <1>5, <1>6, <1>7, Zenon DEF TypeOK, keyVars, kexVars, readVars,
     userVars

\* readLoop hands a packet to incoming.
LEMMA DeliverType == ASSUME TypeOK, NEW p \in Peer, Deliver(p) PROVE TypeOK'
<1>1. hand' \in [Peer -> Nat]
  BY Zenon DEF TypeOK, Deliver
<1>2. incoming' \in [Peer -> Seq(Nat)]
  <2>1. \/ incoming' = incoming
        \/ incoming' = [incoming EXCEPT ![p] = Append(@, hand[p])]
    BY Zenon DEF Deliver
  <2>2. hand \in [Peer -> Nat] /\ incoming \in [Peer -> Seq(Nat)]
    BY Zenon DEF TypeOK
  <2>3. Append(incoming[p], hand[p]) \in Seq(Nat)
    BY <2>2
  <2> QED
    BY <2>1, <2>2, <2>3, Zenon
<1>3. rpc' \in [Peer -> {"read", "deliver", "offer", "kexWait", "fail", "record", "end"}]
  <2>1. \/ rpc' = rpc
        \/ rpc' = [rpc EXCEPT ![p] = "read"]
        \/ rpc' = [rpc EXCEPT ![p] = "end"]
    BY Zenon DEF Deliver
  <2>2. rpc \in [Peer -> {"read", "deliver", "offer", "kexWait", "fail", "record", "end"}]
    BY Zenon DEF TypeOK
  <2> QED
    BY <2>1, <2>2, Zenon
<1>4. \A q \in Peer : Len(incoming'[q]) <= ChanSize
  <2>1. \/ incoming' = incoming
        \/ Len(incoming[p]) < ChanSize /\ incoming' = [incoming EXCEPT ![p] = Append(@, hand[p])]
    BY Zenon DEF Deliver
  <2>2. /\ incoming \in [Peer -> Seq(Nat)] /\ hand \in [Peer -> Nat]
        /\ \A q \in Peer : Len(incoming[q]) <= ChanSize
    BY Zenon DEF TypeOK
  <2>3. TAKE q \in Peer
  <2>4. incoming[q] \in Seq(Nat) /\ hand[p] \in Nat /\ Len(incoming[q]) <= ChanSize
    BY <2>2, Zenon
  <2>5. incoming'[q] = incoming[q] \/ (Len(incoming[q]) < ChanSize /\ incoming'[q] = Append(incoming[q], hand[p]))
    BY <2>1, <2>2, Zenon
  <2>6. Len(Append(incoming[q], hand[p])) = Len(incoming[q]) + 1
    BY <2>4
  <2>7. Len(incoming[q]) \in Nat /\ ChanSize \in Nat
    BY <2>4, UsesAssumption
  <2> QED
    BY <2>4, <2>5, <2>6, <2>7
<1>5. UNCHANGED <<use, wire, up, keyVars, pending, writeError, startKex, startClosed,
                  kexVars, inClosed, session, userVars, protoError>>
  BY Zenon DEF Deliver
<1> QED
  BY <1>1, <1>2, <1>3, <1>4, <1>5, Zenon DEF TypeOK, keyVars, kexVars, readVars, userVars

\* readLoop hands a kexInit to kexLoop.
LEMMA OfferType == ASSUME TypeOK, NEW p \in Peer, Offer(p) PROVE TypeOK'
<1>1. startKex' \in [Peer -> BOOLEAN]
  BY Zenon DEF TypeOK, Offer
<1>2. rpc' \in [Peer -> {"read", "deliver", "offer", "kexWait", "fail", "record", "end"}]
  <2>1. \/ rpc' = rpc
        \/ rpc' = [rpc EXCEPT ![p] = "kexWait"]
        \/ rpc' = [rpc EXCEPT ![p] = "fail"]
    BY Zenon DEF Offer
  <2>2. rpc \in [Peer -> {"read", "deliver", "offer", "kexWait", "fail", "record", "end"}]
    BY Zenon DEF TypeOK
  <2> QED
    BY <2>1, <2>2, Zenon
<1>3. UNCHANGED <<use, wire, up, keyVars, pending, writeError, startClosed, kexVars,
                  hand, incoming, inClosed, session, userVars, protoError>>
  BY Zenon DEF Offer
<1> QED
  BY <1>1, <1>2, <1>3, Zenon DEF TypeOK, keyVars, kexVars, readVars, userVars

\* readLoop has the result of the exchange.
LEMMA KexDoneType == ASSUME TypeOK, NEW p \in Peer, KexDone(p) PROVE TypeOK'
<1>1. /\ kexDone' \in [Peer -> {"none", "ok", "error"}]
      /\ session' \in [Peer -> BOOLEAN]
  BY Zenon DEF TypeOK, KexDone
<1>2. rpc' \in [Peer -> {"read", "deliver", "offer", "kexWait", "fail", "record", "end"}]
  <2>1. \/ rpc' = rpc
        \/ rpc' = [rpc EXCEPT ![p] = "read"]
        \/ rpc' = [rpc EXCEPT ![p] = "fail"]
    BY Zenon DEF KexDone
  <2>2. rpc \in [Peer -> {"read", "deliver", "offer", "kexWait", "fail", "record", "end"}]
    BY Zenon DEF TypeOK
  <2> QED
    BY <2>1, <2>2, Zenon
<1>3. UNCHANGED <<use, wire, up, keyVars, pending, writeError, startKex, startClosed,
                  sentInit, muHeld, requestKex, kpc, request, sent, drain, hand,
                  incoming, inClosed, userVars, protoError>>
  BY Zenon DEF KexDone
<1> QED
  BY <1>1, <1>2, <1>3, Zenon DEF TypeOK, keyVars, kexVars, readVars, userVars

\* readLoop ends.
LEMMA CloseIncomingType == ASSUME TypeOK, NEW p \in Peer, CloseIncoming(p) PROVE TypeOK'
<1>1. /\ inClosed' \in [Peer -> BOOLEAN]
      /\ rpc' \in [Peer -> {"read", "deliver", "offer", "kexWait", "fail", "record", "end"}]
  BY Zenon DEF TypeOK, CloseIncoming
<1>2. UNCHANGED <<use, wire, up, keyVars, pending, writeError, startKex, startClosed,
                  kexVars, hand, incoming, session, userVars, protoError>>
  BY Zenon DEF CloseIncoming
<1> QED
  BY <1>1, <1>2, Zenon DEF TypeOK, keyVars, kexVars, readVars, userVars

\* recordWriteError at the end of readLoop.
LEMMA StopWritersType == ASSUME TypeOK, NEW p \in Peer, StopWriters(p) PROVE TypeOK'
<1>1. /\ writeError' \in [Peer -> BOOLEAN]
      /\ startClosed' \in [Peer -> BOOLEAN]
      /\ rpc' \in [Peer -> {"read", "deliver", "offer", "kexWait", "fail", "record", "end"}]
  BY Zenon DEF TypeOK, StopWriters
<1>2. UNCHANGED <<use, wire, up, keyVars, pending, startKex, kexVars, hand, incoming,
                  inClosed, session, userVars, protoError>>
  BY Zenon DEF StopWriters
<1> QED
  BY <1>1, <1>2, Zenon DEF TypeOK, keyVars, kexVars, readVars, userVars

\* A user reads a packet.
LEMMA ReadPacketType == ASSUME TypeOK, NEW p \in Peer, ReadPacket(p) PROVE TypeOK'
<1>1. incoming' \in [Peer -> Seq(Nat)]
  <2>1. incoming[p] # <<>> /\ incoming' = [incoming EXCEPT ![p] = Tail(@)]
    BY Zenon DEF ReadPacket
  <2>2. incoming \in [Peer -> Seq(Nat)]
    BY Zenon DEF TypeOK
  <2>3. Tail(incoming[p]) \in Seq(Nat)
    BY <2>1, <2>2
  <2> QED
    BY <2>1, <2>2, <2>3, Zenon
<1>2. got' \in [Peer -> Nat]
  <2>1. incoming[p] # <<>> /\ got' = [got EXCEPT ![p] = Head(incoming[p])]
    BY Zenon DEF ReadPacket
  <2>2. incoming \in [Peer -> Seq(Nat)] /\ got \in [Peer -> Nat]
    BY Zenon DEF TypeOK
  <2>3. Head(incoming[p]) \in Nat
    BY <2>1, <2>2
  <2> QED
    BY <2>1, <2>2, <2>3, Zenon
<1>3. \A q \in Peer : Len(incoming'[q]) <= ChanSize
  <2>1. incoming[p] # <<>> /\ incoming' = [incoming EXCEPT ![p] = Tail(@)]
    BY Zenon DEF ReadPacket
  <2>2. /\ incoming \in [Peer -> Seq(Nat)] /\ hand \in [Peer -> Nat]
        /\ \A q \in Peer : Len(incoming[q]) <= ChanSize
    BY Zenon DEF TypeOK
  <2>3. TAKE q \in Peer
  <2>4. incoming[q] \in Seq(Nat) /\ hand[p] \in Nat /\ Len(incoming[q]) <= ChanSize
    BY <2>2, Zenon
  <2>5. incoming'[q] = incoming[q] \/ (incoming[q] # <<>> /\ incoming'[q] = Tail(incoming[q]))
    BY <2>1, <2>2, Zenon
  <2>6. incoming[q] # <<>> => Len(Tail(incoming[q])) = Len(incoming[q]) - 1
    BY <2>4
  <2>7. Len(incoming[q]) \in Nat /\ ChanSize \in Nat
    BY <2>4, UsesAssumption
  <2>8. Len(incoming'[q]) = Len(incoming[q]) \/ Len(incoming'[q]) = Len(incoming[q]) - 1
    BY <2>5, <2>6, Zenon
  <2>9. Len(incoming[q]) <= ChanSize
    BY <2>4, Zenon
  <2> QED
    BY <2>7, <2>8, <2>9
<1>4. UNCHANGED <<use, wire, up, keyVars, pending, writeError, startKex, startClosed,
                  kexVars, rpc, hand, inClosed, session, halted, writing, written,
                  asked, protoError>>
  BY Zenon DEF ReadPacket
<1> QED
  BY <1>1, <1>2, <1>3, <1>4, Zenon DEF TypeOK, keyVars, kexVars, readVars, userVars

\* kexLoop begins anew.
LEMMA TopType == ASSUME TypeOK, NEW p \in Peer, Top(p) PROVE TypeOK'
<1>1. /\ drain' \in [Peer -> {"no", "run", "end"}]
      /\ up' \in BOOLEAN
      /\ request' \in [Peer -> BOOLEAN]
      /\ sent' \in [Peer -> BOOLEAN]
  BY Zenon DEF TypeOK, Top, KGoto, LeaveLoop
<1>2. kpc' \in [Peer -> {"top", "select", "check", "kex1", "kex2", "kex3", "locked", "flush", "end"}]
  <2>1. \/ kpc' = kpc
        \/ kpc' = [kpc EXCEPT ![p] = "end"]
        \/ kpc' = [kpc EXCEPT ![p] = "select"]
    BY Zenon DEF Top, KGoto, LeaveLoop
  <2>2. kpc \in [Peer -> {"top", "select", "check", "kex1", "kex2", "kex3", "locked", "flush", "end"}]
    BY Zenon DEF TypeOK
  <2> QED
    BY <2>1, <2>2, Zenon
<1>3. UNCHANGED <<use, wire, keyVars, pending, writeError, startKex, startClosed,
                  sentInit, muHeld, requestKex, kexDone, readVars, userVars,
                  protoError>>
  BY Zenon DEF Top
<1> QED
  BY <1>1, <1>2, <1>3, Zenon DEF TypeOK, keyVars, kexVars, readVars, userVars

\* kexLoop's select, and sendKexInit.
LEMMA SelectType == ASSUME TypeOK, NEW p \in Peer, Select(p) PROVE TypeOK'
<1>1. /\ drain' \in [Peer -> {"no", "run", "end"}]
      /\ up' \in BOOLEAN
      /\ requestKex' \in [Peer -> BOOLEAN]
      /\ startKex' \in [Peer -> BOOLEAN]
  BY Zenon DEF TypeOK, Select, KGoto, LeaveLoop, SendKexInit
<1>6. /\ sentInit' \in [Peer -> BOOLEAN]
      /\ writeError' \in [Peer -> BOOLEAN]
      /\ sent' \in [Peer -> BOOLEAN]
  <2>1. up \in BOOLEAN /\ sentInit \in [Peer -> BOOLEAN]
    BY Zenon DEF TypeOK
  <2>2. writeError \in [Peer -> BOOLEAN] /\ sent \in [Peer -> BOOLEAN]
    BY Zenon DEF TypeOK
  <2>3. sentInit' \in [Peer -> BOOLEAN]
    BY <2>1, Zenon DEF Select, LeaveLoop, SendKexInit
  <2>4. writeError' \in [Peer -> BOOLEAN]
    BY <2>1, <2>2, Zenon DEF Select, LeaveLoop, SendKexInit
  <2>5. sent' \in [Peer -> BOOLEAN]
    BY <2>1, <2>2, Zenon DEF Select, LeaveLoop, SendKexInit
  <2> QED
    BY <2>3, <2>4, <2>5, Zenon
<1>2. wire' \in [Peer -> Seq(Packet)]
  <2>1. \/ wire' = wire
        \/ wire' = Sent(wire, p, <<Encrypted(p, "kexInit", 0)>>)
    BY Zenon DEF Select, KGoto, LeaveLoop, SendKexInit
  <2>2. wire \in [Peer -> Seq(Packet)] /\ wkey \in [Peer -> Nat]
    BY Zenon DEF TypeOK
  <2>4. <<Encrypted(p, "kexInit", 0)>> \in Seq(Packet)
    BY <2>2, EncryptedType
  <2>5. Sent(wire, p, <<Encrypted(p, "kexInit", 0)>>) \in [Peer -> Seq(Packet)]
    BY <2>2, <2>4, SentType, Zenon
  <2> QED
    BY <2>1, <2>2, <2>5, Zenon
<1>3. request' \in [Peer -> BOOLEAN]
  <2>1. \/ request' = request
        \/ request' = [request EXCEPT ![p] = TRUE]
        \/ request' = [request EXCEPT ![p] = request[p]]
    BY Zenon DEF Select, KGoto, LeaveLoop, SendKexInit, Sent
  <2>2. request \in [Peer -> BOOLEAN]
    BY Zenon DEF TypeOK
  <2> QED
    BY <2>1, <2>2, Zenon
<1>4. kpc' \in [Peer -> {"top", "select", "check", "kex1", "kex2", "kex3", "locked", "flush", "end"}]
  <2>1. \/ kpc' = kpc
        \/ kpc' = [kpc EXCEPT ![p] = "check"]
        \/ kpc' = [kpc EXCEPT ![p] = "select"]
        \/ kpc' = [kpc EXCEPT ![p] = "end"]
    BY Zenon DEF Select, KGoto, LeaveLoop, SendKexInit, Sent
  <2>2. kpc \in [Peer -> {"top", "select", "check", "kex1", "kex2", "kex3", "locked", "flush", "end"}]
    BY Zenon DEF TypeOK
  <2> QED
    BY <2>1, <2>2, Zenon
<1>5. UNCHANGED <<use, keyVars, pending, startClosed, muHeld, kexDone, readVars,
                  userVars, protoError>>
  BY Zenon DEF Select
<1> QED
  BY <1>1, <1>2, <1>3, <1>4, <1>5, <1>6, Zenon DEF TypeOK, keyVars, kexVars, readVars, userVars

\* kexLoop has left its inner loop.
LEMMA CheckType == ASSUME TypeOK, NEW p \in Peer, Check(p) PROVE TypeOK'
<1>1. /\ kexDone' \in [Peer -> {"none", "ok", "error"}]
      /\ drain' \in [Peer -> {"no", "run", "end"}]
      /\ up' \in BOOLEAN
  BY Zenon DEF TypeOK, Check, KGoto, LeaveLoop
<1>2. kpc' \in [Peer -> {"top", "select", "check", "kex1", "kex2", "kex3", "locked", "flush", "end"}]
  <2>1. \/ kpc' = kpc
        \/ kpc' = [kpc EXCEPT ![p] = "kex1"]
        \/ kpc' = [kpc EXCEPT ![p] = "end"]
    BY Zenon DEF Check, KGoto, LeaveLoop
  <2>2. kpc \in [Peer -> {"top", "select", "check", "kex1", "kex2", "kex3", "locked", "flush", "end"}]
    BY Zenon DEF TypeOK
  <2> QED
    BY <2>1, <2>2, Zenon
<1>3. UNCHANGED <<use, wire, keyVars, pending, writeError, startKex, startClosed,
                  sentInit, muHeld, requestKex, request, sent, readVars, userVars,
                  protoError>>
  BY Zenon DEF Check
<1> QED
  BY <1>1, <1>2, <1>3, Zenon DEF TypeOK, keyVars, kexVars, readVars, userVars

\* The client sends its message of the exchange.
LEMMA ClientKexType == ASSUME TypeOK, NEW p \in Peer, ClientKex(p) PROVE TypeOK'
<1>1. LoopTypes'
  <2>1. (\E err \in BOOLEAN : Finish(p, err)) \/ Continue(p, "kex2")
    BY Zenon DEF ClientKex
  <2> QED
    BY <2>1, FinishType, ContinueType, Zenon
<1>2. wire' \in [Peer -> Seq(Packet)]
  <2>1. \/ wire' = wire
        \/ wire' = Sent(wire, p, <<Encrypted(p, "kex", 0)>>)
    BY Zenon DEF ClientKex, Finish, Continue, KGoto
  <2>2. wire \in [Peer -> Seq(Packet)] /\ wkey \in [Peer -> Nat]
    BY Zenon DEF TypeOK
  <2>4. <<Encrypted(p, "kex", 0)>> \in Seq(Packet)
    BY <2>2, EncryptedType
  <2>5. Sent(wire, p, <<Encrypted(p, "kex", 0)>>) \in [Peer -> Seq(Packet)]
    BY <2>2, <2>4, SentType, Zenon
  <2> QED
    BY <2>1, <2>2, <2>5, Zenon
<1>3. UNCHANGED <<use, up, keyVars, pending, startKex, startClosed, kexDone, request,
                  sent, drain, readVars, userVars, protoError>>
  BY Zenon DEF ClientKex
<1> QED
  BY <1>1, <1>2, <1>3, Zenon DEF TypeOK, LoopTypes, keyVars, kexVars, readVars, userVars

\* The exchange's message arrives.
LEMMA AgreeKeyType == ASSUME TypeOK, NEW p \in Peer, AgreeKey(p) PROVE TypeOK'
<1>1. LoopTypes'
  <2>1. (\E err \in BOOLEAN : Finish(p, err)) \/ Continue(p, "kex3")
    BY Zenon DEF AgreeKey, KexReadFails, Unexpected, SendNewKeys
  <2> QED
    BY <2>1, FinishType, ContinueType, Zenon
<1>2. wire' \in [Peer -> Seq(Packet)]
  <2>1. \/ wire' = wire
        \/ Arrived(p) /\ wire' = Took(p)
        \/ Arrived(p) /\ wire' = Sent(Took(p), p, <<Encrypted(p, "kex", 0)>>)
        \/ Arrived(p) /\ wire' = Sent(Took(p), p, <<Encrypted(p, "newKeys", 0)>>)
        \/ Arrived(p) /\ wire' = Sent(Sent(Took(p), p, <<Encrypted(p, "kex", 0)>>), p, <<Encrypted(p, "newKeys", 0)>>)
    BY Zenon DEF AgreeKey, KexAnswer, KexReadFails, Unexpected, SendNewKeys, keyVars, Finish,
       Continue, KGoto
  <2>2. wire \in [Peer -> Seq(Packet)] /\ wkey \in [Peer -> Nat]
    BY Zenon DEF TypeOK
  <2>4. <<Encrypted(p, "kex", 0)>> \in Seq(Packet) /\ <<Encrypted(p, "newKeys", 0)>> \in Seq(Packet)
    BY <2>2, EncryptedType
  <2>5. ASSUME Arrived(p)
        PROVE  /\ Took(p) \in [Peer -> Seq(Packet)]
               /\ Sent(Took(p), p, <<Encrypted(p, "newKeys", 0)>>) \in [Peer -> Seq(Packet)]
               /\ Sent(Took(p), p, <<Encrypted(p, "kex", 0)>>) \in [Peer -> Seq(Packet)]
    BY <2>2, <2>4, <2>5, TookType, SentType, Zenon
  <2>6. Arrived(p) => Sent(Sent(Took(p), p, <<Encrypted(p, "kex", 0)>>), p, <<Encrypted(p, "newKeys", 0)>>) \in [Peer -> Seq(Packet)]
    BY <2>4, <2>5, SentType, Zenon
  <2> QED
    BY <2>1, <2>2, <2>5, <2>6, Zenon
<1>3. wkey' \in [Peer -> Nat]
  <2>1. \/ wkey' = wkey
        \/ wkey' = [wkey EXCEPT ![p] = @ + 1]
    BY Zenon DEF AgreeKey, KexReadFails, Unexpected, SendNewKeys, Sent, keyVars, Finish,
       Continue, KGoto
  <2>2. wkey \in [Peer -> Nat]
    BY Zenon DEF TypeOK
  <2>3. wkey[p] + 1 \in Nat
    BY <2>2
  <2> QED
    BY <2>1, <2>2, <2>3, Zenon
<1>4. rpend' \in [Peer -> Nat]
  <2>1. \/ rpend' = rpend
        \/ rpend' = [rpend EXCEPT ![p] = rkey[p] + 1]
    BY Zenon DEF AgreeKey, KexReadFails, Unexpected, SendNewKeys, Sent, keyVars, Finish,
       Continue, KGoto
  <2>2. rpend \in [Peer -> Nat] /\ rkey \in [Peer -> Nat]
    BY Zenon DEF TypeOK
  <2>3. rkey[p] + 1 \in Nat
    BY <2>2
  <2> QED
    BY <2>1, <2>2, <2>3, Zenon
<1>5. rkey' \in [Peer -> Nat]
  BY Zenon DEF TypeOK, AgreeKey, KexReadFails, Unexpected, SendNewKeys, Sent, keyVars, Finish,
     Continue, KGoto
<1>6. protoError' \in [Peer -> BOOLEAN]
  <2>1. \/ protoError' = protoError
        \/ protoError' = [protoError EXCEPT ![p] = TRUE]
    BY Zenon DEF AgreeKey, KexReadFails, Unexpected, SendNewKeys, Sent, keyVars, Finish,
       Continue, KGoto
  <2>2. protoError \in [Peer -> BOOLEAN]
    BY Zenon DEF TypeOK
  <2> QED
    BY <2>1, <2>2, Zenon
<1>7. UNCHANGED <<use, up, pending, startKex, startClosed, kexDone, request, sent,
                  drain, readVars, userVars>>
  BY Zenon DEF AgreeKey
<1> QED
  BY <1>1, <1>2, <1>3, <1>4, <1>5, <1>6, <1>7, Zenon DEF TypeOK, LoopTypes, keyVars, kexVars,
     readVars, userVars

\* The other end's msgNewKeys arrives.
LEMMA ReadNewKeysType == ASSUME TypeOK, NEW p \in Peer, ReadNewKeys(p) PROVE TypeOK'
<1>1. LoopTypes'
  <2>1. (\E err \in BOOLEAN : Finish(p, err))
    BY Zenon DEF ReadNewKeys, KexReadFails, Unexpected
  <2> QED
    BY <2>1, FinishType, Zenon
<1>2. wire' \in [Peer -> Seq(Packet)]
  <2>1. \/ wire' = wire
        \/ Arrived(p) /\ wire' = Took(p)
    BY Zenon DEF ReadNewKeys, KexReadFails, Unexpected, keyVars, KGoto, Finish
  <2>2. wire \in [Peer -> Seq(Packet)]
    BY Zenon DEF TypeOK
  <2> QED
    BY <2>1, <2>2, TookType, Zenon
<1>3. rkey' \in [Peer -> Nat]
  <2>1. \/ rkey' = rkey
        \/ rkey' = [rkey EXCEPT ![p] = rpend[p]]
    BY Zenon DEF ReadNewKeys, KexReadFails, Unexpected, keyVars, KGoto, Finish
  <2>2. rkey \in [Peer -> Nat] /\ rpend \in [Peer -> Nat]
    BY Zenon DEF TypeOK
  <2> QED
    BY <2>1, <2>2, Zenon
<1>4. rpend' \in [Peer -> Nat]
  <2>1. \/ rpend' = rpend
        \/ rpend' = [rpend EXCEPT ![p] = 0]
    BY Zenon DEF ReadNewKeys, KexReadFails, Unexpected, keyVars, KGoto, Finish
  <2>2. rpend \in [Peer -> Nat]
    BY Zenon DEF TypeOK
  <2>3. 0 \in Nat
    BY <2>2
  <2> QED
    BY <2>1, <2>2, <2>3, Zenon
<1>5. wkey' \in [Peer -> Nat]
  BY Zenon DEF TypeOK, ReadNewKeys, KexReadFails, Unexpected, keyVars, KGoto, Finish
<1>6. protoError' \in [Peer -> BOOLEAN]
  <2>1. \/ protoError' = protoError
        \/ protoError' = [protoError EXCEPT ![p] = TRUE]
    BY Zenon DEF ReadNewKeys, KexReadFails, Unexpected, keyVars, KGoto, Finish
  <2>2. protoError \in [Peer -> BOOLEAN]
    BY Zenon DEF TypeOK
  <2> QED
    BY <2>1, <2>2, Zenon
<1>7. UNCHANGED <<use, up, pending, startKex, startClosed, kexDone, request, sent,
                  drain, readVars, userVars>>
  BY Zenon DEF ReadNewKeys
<1> QED
  BY <1>1, <1>2, <1>3, <1>4, <1>5, <1>6, <1>7, Zenon DEF TypeOK, LoopTypes, keyVars, kexVars,
     readVars, userVars

\* kexLoop tells readLoop the result.
LEMMA TellReaderType == ASSUME TypeOK, NEW p \in Peer, TellReader(p) PROVE TypeOK'
<1>1. kexDone' \in [Peer -> {"none", "ok", "error"}]
  BY Zenon DEF TypeOK, TellReader, KGoto
<1>2. kpc' \in [Peer -> {"top", "select", "check", "kex1", "kex2", "kex3", "locked", "flush", "end"}]
  <2>1. \/ kpc' = kpc
        \/ kpc' = [kpc EXCEPT ![p] = "flush"]
        \/ kpc' = [kpc EXCEPT ![p] = "end"]
    BY Zenon DEF TellReader, KGoto
  <2>2. kpc \in [Peer -> {"top", "select", "check", "kex1", "kex2", "kex3", "locked", "flush", "end"}]
    BY Zenon DEF TypeOK
  <2> QED
    BY <2>1, <2>2, Zenon
<1>3. UNCHANGED <<use, wire, up, keyVars, pending, writeError, startKex, startClosed,
                  sentInit, muHeld, requestKex, request, sent, drain, readVars,
                  userVars, protoError>>
  BY Zenon DEF TellReader
<1> QED
  BY <1>1, <1>2, <1>3, Zenon DEF TypeOK, keyVars, kexVars, readVars, userVars

\* kexLoop sends the queued packets.
LEMMA FlushType == ASSUME TypeOK, NEW p \in Peer, Flush(p) PROVE TypeOK'
<1>1. /\ writeError' \in [Peer -> BOOLEAN]
      /\ muHeld' \in [Peer -> BOOLEAN]
      /\ kpc' \in [Peer -> {"top", "select", "check", "kex1", "kex2", "kex3", "locked", "flush", "end"}]
  BY Zenon DEF TypeOK, Flush, KGoto, Sent
<1>2. wire' \in [Peer -> Seq(Packet)]
  <2>1. \/ wire' = wire
        \/ wire' = Sent(wire, p, [i \in DOMAIN pending[p] |-> Encrypted(p, "data", pending[p][i])])
    BY Zenon DEF Flush, KGoto
  <2>2. wire \in [Peer -> Seq(Packet)] /\ wkey \in [Peer -> Nat] /\ pending \in [Peer -> Seq(Nat)]
    BY Zenon DEF TypeOK
  <2>4. [i \in DOMAIN pending[p] |-> Encrypted(p, "data", pending[p][i])] \in Seq(Packet)
    BY <2>2, QueuedType, Zenon
  <2>5. Sent(wire, p, [i \in DOMAIN pending[p] |-> Encrypted(p, "data", pending[p][i])]) \in [Peer -> Seq(Packet)]
    BY <2>2, <2>4, SentType, Zenon
  <2> QED
    BY <2>1, <2>2, <2>5, Zenon
<1>3. pending' \in [Peer -> Seq(Nat)]
  <2>1. \/ pending' = pending
        \/ pending' = [pending EXCEPT ![p] = <<>>]
    BY Zenon DEF Flush, KGoto, Sent
  <2>2. pending \in [Peer -> Seq(Nat)]
    BY Zenon DEF TypeOK
  <2>3. <<>> \in Seq(Nat)
    BY <2>2
  <2> QED
    BY <2>1, <2>2, <2>3, Zenon
<1>4. UNCHANGED <<use, up, keyVars, startKex, startClosed, sentInit, requestKex,
                  kexDone, request, sent, drain, readVars, userVars, protoError>>
  BY Zenon DEF Flush
<1> QED
  BY <1>1, <1>2, <1>3, <1>4, Zenon DEF TypeOK, keyVars, kexVars, readVars, userVars

\* The goroutine that empties startKex.
LEMMA DrainType == ASSUME TypeOK, NEW p \in Peer, Drain(p) PROVE TypeOK'
<1>1. /\ startKex' \in [Peer -> BOOLEAN]
      /\ kexDone' \in [Peer -> {"none", "ok", "error"}]
  BY Zenon DEF TypeOK, Drain
<1>2. drain' \in [Peer -> {"no", "run", "end"}]
  <2>1. \/ drain' = drain
        \/ drain' = [drain EXCEPT ![p] = "end"]
    BY Zenon DEF Drain
  <2>2. drain \in [Peer -> {"no", "run", "end"}]
    BY Zenon DEF TypeOK
  <2> QED
    BY <2>1, <2>2, Zenon
<1>3. UNCHANGED <<use, wire, up, keyVars, pending, writeError, startClosed, sentInit,
                  muHeld, requestKex, kpc, request, sent, readVars, userVars,
                  protoError>>
  BY Zenon DEF Drain
<1> QED
  BY <1>1, <1>2, <1>3, Zenon DEF TypeOK, keyVars, kexVars, readVars, userVars

\* The halter is asked to stop.
LEMMA HaltType == ASSUME TypeOK, NEW p \in Peer, Halt(p) PROVE TypeOK'
<1>1. halted' \in [Peer -> BOOLEAN]
  BY Zenon DEF TypeOK, Halt
<1>2. UNCHANGED <<use, wire, up, keyVars, pending, writeError, startKex, startClosed,
                  kexVars, readVars, writing, written, got, asked, protoError>>
  BY Zenon DEF Halt
<1> QED
  BY <1>1, <1>2, Zenon DEF TypeOK, keyVars, kexVars, readVars, userVars

\* The connection is lost.
LEMMA LoseType == ASSUME TypeOK, Lose PROVE TypeOK'
<1>1. up' \in BOOLEAN
  BY Zenon DEF TypeOK, Lose
<1>2. UNCHANGED <<use, wire, keyVars, pending, writeError, startKex, startClosed,
                  kexVars, readVars, userVars, protoError>>
  BY Zenon DEF Lose
<1> QED
  BY <1>1, <1>2, Zenon DEF TypeOK, keyVars, kexVars, readVars, userVars

-----------------------------------------------------------------------------
(* What a wire looks like.                                                  *)

\* One packet is taken: the rest is a chain for a reader that has followed it, and ends
\* as before.
LEMMA ChainTake ==
    ASSUME NEW w \in Seq(Packet), w # <<>>, NEW phase, NEW key \in Nat, NEW strict,
           Chain(w, phase, key, strict)
    PROVE  /\ Chain(Tail(w), PhaseAfter(w[1]), KeyAfter(w[1]), strict)
           /\ TailKey(Tail(w), KeyAfter(w[1])) = TailKey(w, key)
           /\ TailPhase(Tail(w), PhaseAfter(w[1])) = TailPhase(w, phase)
<1>1. /\ Tail(w) \in Seq(Packet) /\ Len(w) \in Nat \ {0} /\ Len(Tail(w)) = Len(w) - 1
      /\ \A i \in 1..(Len(w) - 1) : Tail(w)[i] = w[i + 1]
  OBVIOUS
<1>2. Tail(w) # <<>> => Len(w) > 1 /\ Tail(w)[1] = w[2] /\ Tail(w)[Len(Tail(w))] = w[Len(w)]
  <2>1. Tail(w) # <<>> => Len(Tail(w)) > 0
    BY <1>1
  <2>2. Len(w) > 1 => /\ Tail(w)[1] = w[1 + 1] /\ 1 + 1 = 2
                      /\ Tail(w)[Len(w) - 1] = w[(Len(w) - 1) + 1] /\ (Len(w) - 1) + 1 = Len(w)
    BY <1>1
  <2> QED
    BY <2>1, <2>2, <1>1
<1>3. Tail(w) = <<>> => Len(w) = 1
  <2>1. Len(<<>>) = 0
    OBVIOUS
  <2>2. Tail(w) = <<>> => Len(Tail(w)) = 0
    BY <2>1, Zenon
  <2>3. Len(w) \in Nat /\ Len(Tail(w)) = Len(w) - 1
    BY <1>1, Zenon
  <2> QED
    BY <2>2, <2>3
<1>4. \A i \in 1..(Len(w) - 1) :
          w[i + 1].key = KeyAfter(w[i]) /\ Fits(PhaseAfter(w[i]), w[i + 1], strict)
  BY Zenon DEF Chain
<1>5. Tail(w) # <<>> => Tail(w)[1].key = KeyAfter(w[1]) /\ Fits(PhaseAfter(w[1]), Tail(w)[1], strict)
  <2>1. Len(w) > 1 => 1 \in 1..(Len(w) - 1) /\ 1 + 1 = 2
    BY <1>1
  <2> QED
    BY <2>1, <1>2, <1>4
<1>6. ASSUME NEW i \in 1..(Len(Tail(w)) - 1)
      PROVE  /\ Tail(w)[i + 1].key = KeyAfter(Tail(w)[i])
             /\ Fits(PhaseAfter(Tail(w)[i]), Tail(w)[i + 1], strict)
  <2>1. /\ i + 1 \in 1..(Len(w) - 1) /\ i \in 1..(Len(w) - 1)
        /\ Tail(w)[i] = w[i + 1] /\ Tail(w)[i + 1] = w[(i + 1) + 1]
    BY <1>1
  <2> QED
    BY <2>1, <1>4, Zenon
<1>7. Chain(Tail(w), PhaseAfter(w[1]), KeyAfter(w[1]), strict)
  BY <1>5, <1>6, Zenon DEF Chain
<1> QED
  BY <1>2, <1>3, <1>7, Zenon DEF TailKey, TailPhase

\* A reader that has given up asks nothing of the wire.
LEMMA ChainDead ==
    ASSUME NEW w, NEW phase, NEW key, NEW strict, Chain(w, phase, key, strict)
    PROVE  Chain(w, "dead", key, strict)
BY Zenon DEF Chain

\* Packets are added to the wire: the first fits its end, and each the one before it.
LEMMA ChainSend ==
    ASSUME NEW w \in Seq(Packet), NEW x \in Packet, NEW phase, NEW key \in Nat, NEW strict,
           NEW tail, Ends(w, phase, key, strict, tail, x.key),
           tail = "dead" \/ Fits(tail, x, strict)
    PROVE  Ends(w \o <<x>>, phase, key, strict, PhaseAfter(x), KeyAfter(x))
<1>0. /\ Chain(w, phase, key, strict) /\ x.key = TailKey(w, key)
      /\ TailPhase(w, phase) = "dead" \/ Fits(TailPhase(w, phase), x, strict)
  BY Zenon DEF Ends
<1> DEFINE v == w \o <<x>>
<1>1. /\ v \in Seq(Packet) /\ Len(w) \in Nat /\ Len(v) = Len(w) + 1 /\ v # <<>>
      /\ \A i \in 1..Len(w) : v[i] = w[i]
      /\ v[Len(v)] = x
  OBVIOUS
<1>2. w = <<>> => Len(w) = 0
  OBVIOUS
<1>3. w # <<>> => Len(w) > 0
  BY <1>1
<1> HIDE DEF v
<1>4. v[1].key = key /\ (phase # "dead" => Fits(phase, v[1], strict))
  <2>1. CASE w = <<>>
    <3>1. v[1] = x
      BY <2>1, <1>1, <1>2
    <3> QED
      BY <3>1, <2>1, <1>0, Zenon DEF TailKey, TailPhase
  <2>2. CASE w # <<>>
    <3>1. v[1] = w[1]
      BY <2>2, <1>1, <1>3
    <3> QED
      BY <3>1, <2>2, <1>0, Zenon DEF Chain
  <2> QED
    BY <2>1, <2>2
<1>5. ASSUME NEW i \in 1..(Len(v) - 1)
      PROVE  v[i + 1].key = KeyAfter(v[i]) /\ Fits(PhaseAfter(v[i]), v[i + 1], strict)
  <2>1. i \in 1..Len(w) /\ v[i] = w[i] /\ w # <<>>
    BY <1>1, <1>2
  <2>2. CASE i = Len(w)
    <3>1. v[i + 1] = x
      BY <2>2, <1>1
    <3>2. PhaseAfter(w[i]) # "dead"
      BY DEF PhaseAfter
    <3> QED
      BY <3>1, <3>2, <2>1, <2>2, <1>0, Zenon DEF TailKey, TailPhase
  <2>3. CASE i # Len(w)
    <3>1. i \in 1..(Len(w) - 1) /\ v[i + 1] = w[i + 1]
      BY <2>1, <2>3, <1>1
    <3> QED
      BY <3>1, <2>1, <1>0, Zenon DEF Chain
  <2> QED
    BY <2>2, <2>3
<1>6. Chain(v, phase, key, strict)
  BY <1>4, <1>5, Zenon DEF Chain
<1>7. TailKey(v, key) = KeyAfter(x) /\ TailPhase(v, phase) = PhaseAfter(x)
  BY <1>1, Zenon DEF TailKey, TailPhase
<1> QED
  BY <1>6, <1>7, Zenon DEF v, Ends

\* The same for any number of data packets with the key of the wire's end.
LEMMA ChainFlush ==
    ASSUME NEW w \in Seq(Packet), NEW s \in Seq(Packet), NEW phase, NEW key \in Nat,
           NEW strict, NEW tail, NEW tailKey, Ends(w, phase, key, strict, tail, tailKey),
           \A i \in DOMAIN s : s[i].type = "data" /\ s[i].key = tailKey,
           tail \in {"dead", "open"} \/ ~strict
    PROVE  Ends(w \o s, phase, key, strict, IF s = <<>> THEN tail ELSE "open", tailKey)
<1>0. /\ Chain(w, phase, key, strict) /\ TailKey(w, key) = tailKey
      /\ TailPhase(w, phase) = tail
  BY Zenon DEF Ends
<1> DEFINE v == w \o s
<1>1. /\ v \in Seq(Packet) /\ Len(w) \in Nat /\ Len(s) \in Nat /\ Len(v) = Len(w) + Len(s)
      /\ \A i \in 1..Len(w) : v[i] = w[i]
      /\ \A i \in 1..Len(s) : v[Len(w) + i] = s[i]
  OBVIOUS
<1>2. (w = <<>> => Len(w) = 0) /\ (s = <<>> => Len(s) = 0) /\ (v = <<>> => Len(v) = 0)
  OBVIOUS
<1>3. (w # <<>> => Len(w) > 0) /\ (s # <<>> => Len(s) > 0) /\ (v # <<>> => Len(v) > 0)
  BY <1>1
<1>4. \A i \in 1..Len(s) :
          /\ s[i].key = TailKey(w, key) /\ KeyAfter(s[i]) = TailKey(w, key)
          /\ PhaseAfter(s[i]) = "open" /\ Fits("open", s[i], strict)
          /\ TailPhase(w, phase) = "dead" \/ Fits(TailPhase(w, phase), s[i], strict)
  <2>1. TAKE i \in 1..Len(s)
  <2>2. i \in DOMAIN s
    OBVIOUS
  <2>3. s[i].type = "data" /\ s[i].key = TailKey(w, key)
    BY <2>2, <1>0, Zenon
  <2> QED
    BY <2>3, <1>0 DEF KeyAfter, PhaseAfter, Fits
<1> HIDE DEF v
<1>5. v # <<>> => v[1].key = key /\ (phase # "dead" => Fits(phase, v[1], strict))
  <2>1. CASE w = <<>> /\ v # <<>>
    <3>1. 1 \in 1..Len(s) /\ v[1] = s[1]
      BY <2>1, <1>1, <1>2, <1>3
    <3> QED
      BY <3>1, <2>1, <1>4, Zenon DEF TailKey, TailPhase
  <2>2. CASE w # <<>>
    <3>1. v[1] = w[1]
      BY <2>2, <1>1, <1>3
    <3> QED
      BY <3>1, <2>2, <1>0, Zenon DEF Chain
  <2> QED
    BY <2>1, <2>2
<1>6. ASSUME NEW i \in 1..(Len(v) - 1)
      PROVE  v[i + 1].key = KeyAfter(v[i]) /\ Fits(PhaseAfter(v[i]), v[i + 1], strict)
  <2>1. CASE i < Len(w)
    <3>1. i \in 1..(Len(w) - 1) /\ i \in 1..Len(w) /\ i + 1 \in 1..Len(w)
      BY <2>1, <1>1
    <3>2. v[i] = w[i] /\ v[i + 1] = w[i + 1]
      BY <3>1, <1>1, Zenon
    <3> QED
      BY <3>1, <3>2, <1>0, Zenon DEF Chain
  <2>2. CASE i = Len(w)
    <3>1. w # <<>> /\ v[i] = w[Len(w)] /\ 1 \in 1..Len(s) /\ v[i + 1] = s[1]
      BY <2>2, <1>1, <1>2
    <3>2. PhaseAfter(w[Len(w)]) # "dead"
      BY DEF PhaseAfter
    <3> QED
      BY <3>1, <3>2, <1>4, Zenon DEF TailKey, TailPhase
  <2>3. CASE i > Len(w)
    <3> DEFINE j == i - Len(w)
    <3>1. /\ j \in 1..Len(s) /\ j + 1 \in 1..Len(s)
          /\ v[i] = s[j] /\ v[i + 1] = s[j + 1]
      <4>1. j \in 1..Len(s) /\ j + 1 \in 1..Len(s) /\ Len(w) + j = i /\ Len(w) + (j + 1) = i + 1
        BY <2>3, <1>1
      <4> HIDE DEF j
      <4> QED
        BY <4>1, <1>1
    <3> HIDE DEF j
    <3> QED
      BY <3>1, <1>4, Zenon
  <2> QED
    BY <2>1, <2>2, <2>3, <1>1
<1>7. Chain(v, phase, key, strict)
  BY <1>5, <1>6, Zenon DEF Chain
<1>8. CASE s = <<>>
  <2>1. v = w
    BY <1>8 DEF v
  <2> QED
    BY <2>1, <1>0, <1>7, <1>8, Zenon DEF v, Ends
<1>9. CASE s # <<>>
  <2>1. Len(s) \in 1..Len(s) /\ v[Len(v)] = s[Len(s)] /\ v # <<>>
    BY <1>9, <1>1, <1>3, <1>2
  <2>2. TailKey(v, key) = TailKey(w, key)
    BY <2>1, <1>4, Zenon DEF TailKey
  <2>3. TailPhase(v, phase) = "open"
    BY <2>1, <1>4, Zenon DEF TailPhase
  <2> QED
    BY <2>2, <2>3, <1>0, <1>7, <1>9, Zenon DEF v, Ends
<1> QED
  BY <1>8, <1>9

-----------------------------------------------------------------------------
(* What a step may do to the stream that an end reads.                      *)

\* Nothing, but for a reader that gives up, or a sender that does.
LEMMA StreamQuiet ==
    ASSUME NEW p \in Peer, Stream(p), use' = use, up' => up,
           wire'[Other(p)] = wire[Other(p)], rkey'[p] = rkey[p],
           wkey'[Other(p)] = wkey[Other(p)],
           ReadPhase(p)' \in {ReadPhase(p), "dead"},
           \/ SendPhase(Other(p))' \in {SendPhase(Other(p)), "none"}
           \/ SendPhase(Other(p))' = "open" /\ ~NoneGivesUp
           \/ ~up'
    PROVE  Stream(p)'
<1> DEFINE q == Other(p)
           w == wire[Other(p)]
<1>1. NoneGivesUp' = NoneGivesUp
  BY Zenon DEF NoneGivesUp
<1>2. Chain(w, ReadPhase(p)', rkey[p], NoneGivesUp)
  BY ChainDead, Zenon DEF Stream
<1>3. TailPhase(w, ReadPhase(p)') \in {TailPhase(w, ReadPhase(p)), "dead"}
  BY Zenon DEF TailPhase
<1>4. ASSUME up'
      PROVE  /\ wkey[q] = TailKey(w, rkey[p])
             /\ Agreed(SendPhase(q)', TailPhase(w, ReadPhase(p)'), NoneGivesUp)
  <2>1. wkey[q] = TailKey(w, rkey[p]) /\ Agreed(SendPhase(q), TailPhase(w, ReadPhase(p)), NoneGivesUp)
    BY <1>4, Zenon DEF Stream
  <2> QED
    BY <1>4, <2>1, <1>3, Zenon DEF Agreed
<1> QED
  BY <1>1, <1>2, <1>4, Zenon DEF Stream

\* The reader takes the first packet, and follows it or gives up.
LEMMA StreamTake ==
    ASSUME NEW p \in Peer, Stream(p), use' = use, up' = up,
           wire[Other(p)] \in Seq(Packet), wire[Other(p)] # <<>>, rkey[p] \in Nat,
           wire'[Other(p)] = Tail(wire[Other(p)]),
           rkey'[p] = KeyAfter(wire[Other(p)][1]), wkey'[Other(p)] = wkey[Other(p)],
           ReadPhase(p)' \in {PhaseAfter(wire[Other(p)][1]), "dead"},
           SendPhase(Other(p))' = SendPhase(Other(p))
    PROVE  Stream(p)'
<1> DEFINE q == Other(p)
           w == wire[Other(p)]
           k == KeyAfter(wire[Other(p)][1])
           f == PhaseAfter(wire[Other(p)][1])
<1>1. NoneGivesUp' = NoneGivesUp
  BY Zenon DEF NoneGivesUp
<1>2. /\ Chain(Tail(w), f, k, NoneGivesUp)
      /\ TailKey(Tail(w), k) = TailKey(w, rkey[p])
      /\ TailPhase(Tail(w), f) = TailPhase(w, ReadPhase(p))
  BY ChainTake, Zenon DEF Stream
<1>3. Chain(Tail(w), ReadPhase(p)', k, NoneGivesUp)
  BY <1>2, ChainDead, Zenon
<1>4. TailPhase(Tail(w), ReadPhase(p)') \in {TailPhase(w, ReadPhase(p)), "dead"}
  BY <1>2, Zenon DEF TailPhase
<1>5. ASSUME up
      PROVE  /\ wkey[q] = TailKey(Tail(w), k)
             /\ Agreed(SendPhase(q), TailPhase(Tail(w), ReadPhase(p)'), NoneGivesUp)
  <2>1. wkey[q] = TailKey(w, rkey[p]) /\ Agreed(SendPhase(q), TailPhase(w, ReadPhase(p)), NoneGivesUp)
    BY <1>5, Zenon DEF Stream
  <2> QED
    BY <2>1, <1>2, <1>4, Zenon DEF Agreed
<1> QED
  BY <1>1, <1>3, <1>5, Zenon DEF Stream

\* The sender adds a packet that it may send in its phase.
Sendable(phase, x) ==
    /\ x.type = "kex" => phase = "kex"
    /\ x.type = "newKeys" => phase = "newKeys"
    /\ x.type \in {"data", "kexInit"} => phase = "open"

\* What a sender may send fits what its reader expects behind the packets on the wire.
LEMMA SendableFits ==
    ASSUME NEW x \in Packet, NEW phase, NEW tail, NEW strict,
           Agreed(phase, tail, strict), Sendable(phase, x)
    PROVE  tail = "dead" \/ Fits(tail, x, strict)
BY DEF Agreed, Sendable, Fits, Packet

\* The sender puts one packet on the wire, and goes on to the phase behind it, or gives up.
LEMMA StreamSend ==
    ASSUME NEW p \in Peer, Stream(p), use' = use, up, NEW x \in Packet,
           wire[Other(p)] \in Seq(Packet), rkey[p] \in Nat,
           wire'[Other(p)] = wire[Other(p)] \o <<x>>, rkey'[p] = rkey[p],
           x.key = wkey[Other(p)], wkey'[Other(p)] = KeyAfter(x),
           ReadPhase(p)' = ReadPhase(p),
           Sendable(SendPhase(Other(p)), x),
           \/ SendPhase(Other(p))' = PhaseAfter(x)
           \/ SendPhase(Other(p))' = "open" /\ ~NoneGivesUp
    PROVE  Stream(p)'
<1> DEFINE q == Other(p)
           w == wire[Other(p)]
<1>1. NoneGivesUp' = NoneGivesUp
  BY Zenon DEF NoneGivesUp
<1>2. PICK tail : /\ Ends(w, ReadPhase(p), rkey[p], NoneGivesUp, tail, wkey[q])
                  /\ Agreed(SendPhase(q), tail, NoneGivesUp)
  BY Zenon DEF Stream, Ends
<1>3. tail = "dead" \/ Fits(tail, x, NoneGivesUp)
  BY <1>2, SendableFits, Zenon
<1>4. Ends(w \o <<x>>, ReadPhase(p), rkey[p], NoneGivesUp, PhaseAfter(x), KeyAfter(x))
  BY <1>2, <1>3, ChainSend, Zenon
<1>5. Agreed(SendPhase(q)', PhaseAfter(x), NoneGivesUp)
  BY Zenon DEF Agreed
<1> QED
  BY <1>1, <1>4, <1>5, Zenon DEF Stream, Ends

\* The server's answer and its change of keys.
LEMMA StreamSendTwo ==
    ASSUME NEW p \in Peer, Stream(p), use' = use, up, NEW x \in Packet, NEW y \in Packet,
           wire[Other(p)] \in Seq(Packet), rkey[p] \in Nat,
           wire'[Other(p)] = (wire[Other(p)] \o <<x>>) \o <<y>>, rkey'[p] = rkey[p],
           x.key = wkey[Other(p)], y.key = wkey[Other(p)], x.type = "kex", y.type = "newKeys",
           wkey'[Other(p)] = KeyAfter(y), ReadPhase(p)' = ReadPhase(p),
           SendPhase(Other(p)) = "kex", SendPhase(Other(p))' = "open"
    PROVE  Stream(p)'
<1> DEFINE q == Other(p)
           w == wire[Other(p)]
<1>1. NoneGivesUp' = NoneGivesUp
  BY Zenon DEF NoneGivesUp
<1>2. PICK tail : /\ Ends(w, ReadPhase(p), rkey[p], NoneGivesUp, tail, wkey[q])
                  /\ Agreed(SendPhase(q), tail, NoneGivesUp)
  BY Zenon DEF Stream, Ends
<1>3. tail = "dead" \/ Fits(tail, x, NoneGivesUp)
  <2>1. Sendable(SendPhase(q), x)
    BY DEF Sendable
  <2> QED
    BY <2>1, <1>2, SendableFits, Zenon
<1>4. Ends(w \o <<x>>, ReadPhase(p), rkey[p], NoneGivesUp, PhaseAfter(x), KeyAfter(x))
  BY <1>2, <1>3, ChainSend, Zenon
<1>5. KeyAfter(x) = x.key /\ PhaseAfter(x) = "newKeys" /\ PhaseAfter(y) = "open"
  BY DEF KeyAfter, PhaseAfter
<1>6. Fits("newKeys", y, NoneGivesUp)
  BY DEF Fits
<1>7. w \o <<x>> \in Seq(Packet)
  OBVIOUS
<1>8. Ends((w \o <<x>>) \o <<y>>, ReadPhase(p), rkey[p], NoneGivesUp, PhaseAfter(y), KeyAfter(y))
  <2>1. Ends(w \o <<x>>, ReadPhase(p), rkey[p], NoneGivesUp, "newKeys", y.key)
    BY <1>4, <1>5, Zenon
  <2> HIDE DEF w
  <2> QED
    BY <2>1, <1>6, <1>7, ChainSend, Zenon
<1>9. Agreed("open", "open", NoneGivesUp)
  BY Zenon DEF Agreed
<1> QED
  BY <1>1, <1>5, <1>8, <1>9, Zenon DEF Stream, Ends

\* The queued packets go out.
LEMMA StreamFlush ==
    ASSUME NEW p \in Peer, Stream(p), use' = use, up, NEW s \in Seq(Packet),
           wire[Other(p)] \in Seq(Packet), rkey[p] \in Nat,
           wire'[Other(p)] = wire[Other(p)] \o s, rkey'[p] = rkey[p],
           \A i \in DOMAIN s : s[i].type = "data" /\ s[i].key = wkey[Other(p)],
           wkey'[Other(p)] = wkey[Other(p)], ReadPhase(p)' = ReadPhase(p),
           SendPhase(Other(p)) = "open", SendPhase(Other(p))' = "open"
    PROVE  Stream(p)'
<1> DEFINE q == Other(p)
           w == wire[Other(p)]
<1>1. NoneGivesUp' = NoneGivesUp
  BY Zenon DEF NoneGivesUp
<1>2. PICK tail : /\ Ends(w, ReadPhase(p), rkey[p], NoneGivesUp, tail, wkey[q])
                  /\ Agreed(SendPhase(q), tail, NoneGivesUp)
  BY Zenon DEF Stream, Ends
<1>3. tail \in {"dead", "open"} \/ ~NoneGivesUp
  BY <1>2, Zenon DEF Agreed
<1>4. Ends(w \o s, ReadPhase(p), rkey[p], NoneGivesUp, IF s = <<>> THEN tail ELSE "open", wkey[q])
  BY <1>2, <1>3, ChainFlush, Zenon
<1>5. Agreed("open", IF s = <<>> THEN tail ELSE "open", NoneGivesUp)
  BY <1>2, Zenon DEF Agreed
<1> QED
  BY <1>1, <1>4, <1>5, Zenon DEF Stream, Ends

-----------------------------------------------------------------------------
(* The steps of an end, seen from both ends.                                *)

\* An end that a step leaves alone.
Same(q) ==
    /\ rpc'[q] = rpc[q] /\ startKex'[q] = startKex[q] /\ startClosed'[q] = startClosed[q]
    /\ kpc'[q] = kpc[q] /\ request'[q] = request[q] /\ kexDone'[q] = kexDone[q]
    /\ sentInit'[q] = sentInit[q] /\ writeError'[q] = writeError[q] /\ muHeld'[q] = muHeld[q]
    /\ pending'[q] = pending[q] /\ drain'[q] = drain[q] /\ rpend'[q] = rpend[q]
    /\ rkey'[q] = rkey[q] /\ wkey'[q] = wkey[q]
    /\ halted'[q] = halted[q] /\ protoError'[q] = protoError[q]

\* An end that a step leaves alone keeps its invariant and its phases.
LEMMA SameEnd ==
    ASSUME NEW q \in Peer, Same(q), Loops(q), Sound(q), use' = use, up' => up
    PROVE  /\ Loops(q)' /\ Sound(q)'
           /\ ReadPhase(q)' = ReadPhase(q) /\ SendPhase(q)' = SendPhase(q)
<1>1. Busy(q)' = Busy(q)
  BY Zenon DEF Same, Busy
<1>2. Asking(q)'
  BY <1>1, Zenon DEF Same, Loops, Asking
<1>5. Exchanging(q)'
  BY Zenon DEF Same, Loops, Exchanging
<1>6. Locking(q)' /\ Ending(q)'
  BY Zenon DEF Same, Loops, Locking, Ending
<1>3. Sound(q)'
  BY Zenon DEF Same, Sound, NoneGivesUp
<1>4. ReadPhase(q)' = ReadPhase(q) /\ SendPhase(q)' = SendPhase(q)
  BY Zenon DEF Same, ReadPhase, SendPhase
<1> QED
  BY <1>2, <1>3, <1>4, <1>5, <1>6, Zenon DEF Loops

\* What a step of p has to leave true: of p itself, and of the two streams.
Kept(p) == Loops(p)' /\ Sound(p)' /\ Stream(p)' /\ Stream(Other(p))' /\ Same(Other(p))

\* A step that neither sends nor takes a packet.
LEMMA Quiet ==
    ASSUME StreamInv, NEW p \in Peer, use' = use, up' => up, wire' = wire,
           rkey' = rkey, wkey' = wkey, Same(Other(p)), Loops(p)', Sound(p)',
           ReadPhase(p)' \in {ReadPhase(p), "dead"},
           \/ SendPhase(p)' \in {SendPhase(p), "none"}
           \/ SendPhase(p)' = "open" /\ ~NoneGivesUp
           \/ ~up'
    PROVE  Kept(p)
<1>1. Other(p) \in Peer /\ Other(Other(p)) = p
  BY OtherPeer
<1>2. Loops(Other(p)) /\ Sound(Other(p)) /\ Stream(p) /\ Stream(Other(p))
  BY <1>1, Zenon DEF StreamInv
<1>3. /\ ReadPhase(Other(p))' = ReadPhase(Other(p))
      /\ SendPhase(Other(p))' = SendPhase(Other(p))
  BY <1>1, <1>2, SameEnd, Zenon
<1>4. Stream(p)'
  BY <1>1, <1>2, <1>3, StreamQuiet, Zenon
<1>5. Stream(Other(p))'
  BY <1>1, <1>2, <1>3, StreamQuiet, Zenon
<1> QED
  BY <1>4, <1>5, Zenon DEF Kept

\* A step that touches neither end nor the wires.
LEMMA Untouched ==
    ASSUME StreamInv, use' = use, up' => up, wire' = wire, \A q \in Peer : Same(q)
    PROVE  \A p \in Peer : Loops(p)' /\ Sound(p)' /\ Stream(p)'
<1>1. TAKE p \in Peer
<1>2. Other(p) \in Peer
  BY OtherPeer
<1>3. /\ Loops(p) /\ Sound(p) /\ Stream(p) /\ Same(p)
      /\ Loops(Other(p)) /\ Sound(Other(p)) /\ Same(Other(p))
  BY <1>2, Zenon DEF StreamInv
<1>4. Loops(p)' /\ Sound(p)' /\ ReadPhase(p)' = ReadPhase(p)
  BY <1>3, SameEnd, Zenon
<1>5. SendPhase(Other(p))' = SendPhase(Other(p))
  BY <1>2, <1>3, SameEnd, Zenon
<1>6. rkey'[p] = rkey[p] /\ wkey'[Other(p)] = wkey[Other(p)]
  BY <1>3, Zenon DEF Same
<1> QED
  BY <1>3, <1>4, <1>5, <1>6, StreamQuiet, Zenon

\* What Sent does to the wires.
LEMMA SentWires ==
    ASSUME NEW w \in [Peer -> Seq(Packet)], NEW p \in Peer, NEW s, up
    PROVE  Sent(w, p, s)[p] = w[p] \o s /\ Sent(w, p, s)[Other(p)] = w[Other(p)]
BY OtherPeer, Zenon DEF Sent

\* Outside the exchange an end sends data and its kexInit, in it the messages of the exchange.
SendsIn(p, t) ==
    \/ t = "data" /\ SendPhase(p) = "open" /\ SendPhase(p)' = "open"
    \/ t = "kexInit" /\ SendPhase(p) = "open" /\ SendPhase(p)' = "kex"
    \/ t = "kex" /\ SendPhase(p) = "kex" /\ SendPhase(p)' = "newKeys"

\* A step that sends one packet.
LEMMA OneSent ==
    ASSUME StreamInv, NEW p \in Peer, use' = use, up, NEW t, NEW n \in Nat,
           wire' = Sent(wire, p, <<Encrypted(p, t, n)>>),
           rkey' = rkey, wkey' = wkey, Same(Other(p)), Loops(p)', Sound(p)',
           ReadPhase(p)' \in {ReadPhase(p), "dead"}, SendsIn(p, t)
    PROVE  Kept(p)
<1> DEFINE x == Encrypted(p, t, n)
<1>1. Other(p) \in Peer /\ Other(Other(p)) = p
  BY OtherPeer
<1>2. /\ Loops(Other(p)) /\ Sound(Other(p)) /\ Stream(p) /\ Stream(Other(p))
      /\ wire \in [Peer -> Seq(Packet)] /\ wkey \in [Peer -> Nat] /\ rkey \in [Peer -> Nat]
  BY <1>1, Zenon DEF StreamInv, TypeOK
<1>3. /\ ReadPhase(Other(p))' = ReadPhase(Other(p))
      /\ SendPhase(Other(p))' = SendPhase(Other(p))
  BY <1>1, <1>2, SameEnd, Zenon
<1>4. wire'[p] = wire[p] \o <<x>> /\ wire'[Other(p)] = wire[Other(p)]
  BY <1>2, SentWires, Zenon
<1>5. Stream(p)'
  BY <1>1, <1>2, <1>3, <1>4, StreamQuiet, Zenon
<1>6. x \in Packet /\ x.type = t /\ x.key = wkey[p]
  <2>3. t \in {"kexInit", "kex", "newKeys", "data"}
    BY Zenon DEF SendsIn
  <2>1. Encrypted(p, t, n) \in Packet
    BY <1>2, <2>3, EncryptedType, Zenon
  <2>2. Encrypted(p, t, n).type = t /\ Encrypted(p, t, n).key = wkey[p]
    BY DEF Encrypted
  <2> QED
    BY <2>1, <2>2, Zenon
<1>10. wire[p] \in Seq(Packet) /\ rkey[Other(p)] \in Nat
  BY <1>1, <1>2, Zenon
<1>7. KeyAfter(x) = wkey[p]
  BY <1>6, Zenon DEF SendsIn, KeyAfter
<1>8. Sendable(SendPhase(p), x) /\ SendPhase(p)' = PhaseAfter(x)
  BY <1>6, Zenon DEF SendsIn, Sendable, PhaseAfter
<1> HIDE DEF x
<1>9. Stream(Other(p))'
  BY <1>1, <1>2, <1>3, <1>4, <1>6, <1>7, <1>8, <1>10, StreamSend, Zenon
<1> QED
  BY <1>5, <1>9, Zenon DEF Kept

\* The queued packets go out after the exchange.
LEMMA Flushed ==
    ASSUME StreamInv, NEW p \in Peer, use' = use, up, NEW s \in Seq(Packet),
           \A i \in DOMAIN s : s[i].type = "data" /\ s[i].key = wkey[p],
           wire' = Sent(wire, p, s), rkey' = rkey, wkey' = wkey, Same(Other(p)),
           Loops(p)', Sound(p)', ReadPhase(p)' \in {ReadPhase(p), "dead"},
           SendPhase(p) = "open", SendPhase(p)' = "open"
    PROVE  Kept(p)
<1>1. Other(p) \in Peer /\ Other(Other(p)) = p
  BY OtherPeer
<1>2. /\ Loops(Other(p)) /\ Sound(Other(p)) /\ Stream(p) /\ Stream(Other(p))
      /\ wire \in [Peer -> Seq(Packet)] /\ wkey \in [Peer -> Nat] /\ rkey \in [Peer -> Nat]
  BY <1>1, Zenon DEF StreamInv, TypeOK
<1>3. /\ ReadPhase(Other(p))' = ReadPhase(Other(p))
      /\ SendPhase(Other(p))' = SendPhase(Other(p))
  BY <1>1, <1>2, SameEnd, Zenon
<1>4. wire'[p] = wire[p] \o s /\ wire'[Other(p)] = wire[Other(p)]
  BY <1>2, SentWires, Zenon
<1>5. Stream(p)'
  BY <1>1, <1>2, <1>3, <1>4, StreamQuiet, Zenon
<1>6. wire[p] \in Seq(Packet) /\ rkey[Other(p)] \in Nat
  BY <1>1, <1>2, Zenon
<1>7. Stream(Other(p))'
  BY <1>1, <1>2, <1>3, <1>4, <1>6, StreamFlush, Zenon
<1> QED
  BY <1>5, <1>7, Zenon DEF Kept

\* The packet an end is about to read has its key, and fits what the end expects.
LEMMA HeadFits ==
    ASSUME StreamInv, NEW p \in Peer, Arrived(p)
    PROVE  /\ Pkt(p) = wire[Other(p)][1] /\ Pkt(p) \in Packet
           /\ Pkt(p).type \in {"kexInit", "kex", "newKeys", "data"}
           /\ Readable(p) /\ (ReadPhase(p) # "dead" => Fits(ReadPhase(p), Pkt(p), NoneGivesUp))
<1>1. wire[Other(p)] \in Seq(Packet) /\ wire[Other(p)] # <<>> /\ wire \in [Peer -> Seq(Packet)]
  BY OtherPeer, Zenon DEF StreamInv, TypeOK, Arrived
<1>2. Pkt(p) = wire[Other(p)][1]
  BY <1>1 DEF Pkt
<1>3. Pkt(p) \in Packet
  BY <1>1, TookType, Zenon
<1>4. Pkt(p).type \in {"kexInit", "kex", "newKeys", "data"}
  BY <1>3 DEF Packet
<1> QED
  BY <1>1, <1>2, <1>3, <1>4, Zenon DEF StreamInv, Stream, Chain, Readable

\* An end takes the packet.
LEMMA Taken ==
    ASSUME StreamInv, NEW p \in Peer, Arrived(p), use' = use, up' = up, wire' = Took(p),
           rkey'[p] = KeyAfter(Pkt(p)), wkey' = wkey, Same(Other(p)), Loops(p)', Sound(p)',
           ReadPhase(p)' \in {PhaseAfter(Pkt(p)), "dead"},
           \/ SendPhase(p)' \in {SendPhase(p), "none"}
           \/ SendPhase(p)' = "open" /\ ~NoneGivesUp
           \/ ~up'
    PROVE  Kept(p)
<1>1. Other(p) \in Peer /\ Other(Other(p)) = p /\ Other(p) # p
  BY OtherPeer
<1>2. /\ Loops(Other(p)) /\ Sound(Other(p)) /\ Stream(p) /\ Stream(Other(p))
      /\ wire \in [Peer -> Seq(Packet)] /\ wkey \in [Peer -> Nat] /\ rkey \in [Peer -> Nat]
  BY <1>1, Zenon DEF StreamInv, TypeOK
<1>3. /\ ReadPhase(Other(p))' = ReadPhase(Other(p))
      /\ SendPhase(Other(p))' = SendPhase(Other(p))
  BY <1>1, <1>2, SameEnd, Zenon
<1>4. wire'[p] = wire[p] /\ wire'[Other(p)] = Tail(wire[Other(p)])
  BY <1>1, <1>2, Zenon DEF Took
<1>5. /\ wire[Other(p)] \in Seq(Packet) /\ wire[Other(p)] # <<>> /\ rkey[p] \in Nat
      /\ Pkt(p) = wire[Other(p)][1]
  BY <1>1, <1>2, HeadFits, Zenon DEF Arrived
<1>6. Stream(p)'
  BY <1>2, <1>3, <1>4, <1>5, StreamTake, Zenon
<1>7. rkey'[Other(p)] = rkey[Other(p)]
  BY Zenon DEF Same
<1>8. Stream(Other(p))'
  BY <1>1, <1>2, <1>3, <1>4, <1>7, StreamQuiet, Zenon
<1> QED
  BY <1>6, <1>8, Zenon DEF Kept

\* The server takes the exchange's message and answers it, and then gives up.
LEMMA Answered ==
    ASSUME StreamInv, NEW p \in Peer, Arrived(p), use' = use, up, up' = up,
           wire' = Sent(Took(p), p, <<Encrypted(p, "kex", 0)>>),
           rkey'[p] = KeyAfter(Pkt(p)), wkey' = wkey, Same(Other(p)), Loops(p)', Sound(p)',
           ReadPhase(p)' \in {PhaseAfter(Pkt(p)), "dead"},
           SendPhase(p) = "kex", SendPhase(p)' = "open", ~NoneGivesUp
    PROVE  Kept(p)
<1> DEFINE x == Encrypted(p, "kex", 0)
<1>1. Other(p) \in Peer /\ Other(Other(p)) = p /\ Other(p) # p
  BY OtherPeer
<1>2. /\ Loops(Other(p)) /\ Sound(Other(p)) /\ Stream(p) /\ Stream(Other(p))
      /\ wire \in [Peer -> Seq(Packet)] /\ wkey \in [Peer -> Nat] /\ rkey \in [Peer -> Nat]
  BY <1>1, Zenon DEF StreamInv, TypeOK
<1>3. /\ ReadPhase(Other(p))' = ReadPhase(Other(p))
      /\ SendPhase(Other(p))' = SendPhase(Other(p))
  BY <1>1, <1>2, SameEnd, Zenon
<1>4. /\ Took(p) \in [Peer -> Seq(Packet)]
      /\ Took(p)[p] = wire[p] /\ Took(p)[Other(p)] = Tail(wire[Other(p)])
  <2>1. Took(p) \in [Peer -> Seq(Packet)]
    BY <1>2, TookType, Zenon
  <2> QED
    BY <1>1, <1>2, <2>1, Zenon DEF Took
<1>5. x \in Packet
  BY <1>2, EncryptedType
<1>6. x.type = "kex" /\ x.key = wkey[p]
  BY DEF Encrypted
<1>7. Sendable(SendPhase(p), x)
  BY <1>6, Zenon DEF Sendable
<1>8. wkey'[p] = KeyAfter(x)
  BY <1>6, Zenon DEF KeyAfter
<1> HIDE DEF x
<1>9. wire' = Sent(Took(p), p, <<x>>)
  BY Zenon DEF x
<1>10. wire'[p] = wire[p] \o <<x>> /\ wire'[Other(p)] = Tail(wire[Other(p)])
  <2>1. /\ Sent(Took(p), p, <<x>>)[p] = Took(p)[p] \o <<x>>
        /\ Sent(Took(p), p, <<x>>)[Other(p)] = Took(p)[Other(p)]
    BY <1>4, SentWires, Zenon
  <2> QED
    BY <1>4, <1>9, <2>1, Zenon
<1>11. /\ wire[Other(p)] \in Seq(Packet) /\ wire[Other(p)] # <<>> /\ rkey[p] \in Nat
       /\ wire[p] \in Seq(Packet) /\ rkey[Other(p)] \in Nat
       /\ Pkt(p) = wire[Other(p)][1]
  BY <1>1, <1>2, HeadFits, Zenon DEF Arrived
<1>12. wkey'[Other(p)] = wkey[Other(p)] /\ rkey'[Other(p)] = rkey[Other(p)]
  BY Zenon DEF Same
<1>13. Stream(p)'
  BY <1>2, <1>3, <1>10, <1>11, <1>12, StreamTake, Zenon
<1>14. Stream(Other(p))'
  BY <1>1, <1>2, <1>3, <1>5, <1>6, <1>7, <1>8, <1>10, <1>11, <1>12, StreamSend, Zenon
<1> QED
  BY <1>13, <1>14, Zenon DEF Kept

\* The end of the exchange's message takes it, and announces its new key: the server
\* after its own message.
LEMMA Announced ==
    ASSUME StreamInv, NEW p \in Peer, Arrived(p), use' = use, up, up' = up,
           SendNewKeys(p, KexAnswer(p)), Pkt(p).type = "kex", rkey' = rkey, Same(Other(p)), Loops(p)', Sound(p)',
           ReadPhase(p)' = "newKeys",
           SendPhase(p) = IF p = "client" THEN "newKeys" ELSE "kex", SendPhase(p)' = "open"
    PROVE  Kept(p)
<1> DEFINE x == Encrypted(p, "kex", 0)
           y == Encrypted(p, "newKeys", 0)
<1>1. Other(p) \in Peer /\ Other(Other(p)) = p /\ Other(p) # p
  BY OtherPeer
<1>2. /\ Loops(Other(p)) /\ Sound(Other(p)) /\ Stream(p) /\ Stream(Other(p))
      /\ wire \in [Peer -> Seq(Packet)] /\ wkey \in [Peer -> Nat] /\ rkey \in [Peer -> Nat]
  BY <1>1, Zenon DEF StreamInv, TypeOK
<1>3. /\ ReadPhase(Other(p))' = ReadPhase(Other(p))
      /\ SendPhase(Other(p))' = SendPhase(Other(p))
  BY <1>1, <1>2, SameEnd, Zenon
<1>4. /\ Took(p) \in [Peer -> Seq(Packet)]
      /\ Took(p)[p] = wire[p] /\ Took(p)[Other(p)] = Tail(wire[Other(p)])
  <2>1. Took(p) \in [Peer -> Seq(Packet)]
    BY <1>2, TookType, Zenon
  <2> QED
    BY <1>1, <1>2, <2>1, Zenon DEF Took
<1>5. x \in Packet /\ <<x>> \in Seq(Packet) /\ y \in Packet
  BY <1>2, EncryptedType
<1>6. x.type = "kex" /\ x.key = wkey[p] /\ y.type = "newKeys" /\ y.key = wkey[p]
  BY DEF Encrypted
<1>7. wkey'[p] = KeyAfter(y)
  <2>1. wkey'[p] = wkey[p] + 1
    BY <1>2, Zenon DEF SendNewKeys
  <2>2. KeyAfter(y) = y.key + 1
    BY <1>6, Zenon DEF KeyAfter
  <2> QED
    BY <1>6, <2>1, <2>2, Zenon
<1> HIDE DEF x
<1>8. /\ Sent(Took(p), p, <<x>>) \in [Peer -> Seq(Packet)]
      /\ Sent(Took(p), p, <<x>>)[p] = wire[p] \o <<x>>
      /\ Sent(Took(p), p, <<x>>)[Other(p)] = Tail(wire[Other(p)])
  <2>1. Sent(Took(p), p, <<x>>) \in [Peer -> Seq(Packet)]
    BY <1>4, <1>5, SentType, Zenon
  <2>2. /\ Sent(Took(p), p, <<x>>)[p] = Took(p)[p] \o <<x>>
        /\ Sent(Took(p), p, <<x>>)[Other(p)] = Took(p)[Other(p)]
    BY <1>4, SentWires, Zenon
  <2> QED
    BY <1>4, <2>1, <2>2, Zenon
<1>9. wire' = Sent(IF p = "client" THEN Took(p) ELSE Sent(Took(p), p, <<x>>), p, <<y>>)
  BY Zenon DEF SendNewKeys, KexAnswer, x
<1> HIDE DEF y
<1>10. /\ wire'[p] = IF p = "client" THEN wire[p] \o <<y>> ELSE (wire[p] \o <<x>>) \o <<y>>
       /\ wire'[Other(p)] = Tail(wire[Other(p)])
  <2>1. CASE p = "client"
    <3>1. wire' = Sent(Took(p), p, <<y>>)
      BY <1>9, <2>1, Zenon
    <3>2. wire'[p] = wire[p] \o <<y>> /\ wire'[Other(p)] = Tail(wire[Other(p)])
      BY <3>1, <1>4, SentWires, Zenon
    <3> QED
      BY <2>1, <3>2, Zenon
  <2>2. CASE p # "client"
    <3>1. wire' = Sent(Sent(Took(p), p, <<x>>), p, <<y>>)
      BY <1>9, <2>2, Zenon
    <3>2. /\ wire'[p] = (wire[p] \o <<x>>) \o <<y>>
          /\ wire'[Other(p)] = Tail(wire[Other(p)])
      BY <3>1, <1>8, SentWires, Zenon
    <3> QED
      BY <2>2, <3>2, Zenon
  <2> QED
    BY <2>1, <2>2, Zenon
<1>11. /\ wire[Other(p)] \in Seq(Packet) /\ wire[Other(p)] # <<>> /\ rkey[p] \in Nat
       /\ wire[p] \in Seq(Packet) /\ rkey[Other(p)] \in Nat
       /\ Pkt(p) = wire[Other(p)][1] /\ Readable(p)
  BY <1>1, <1>2, HeadFits, Zenon DEF Arrived
<1>12. rkey'[p] = KeyAfter(Pkt(p)) /\ PhaseAfter(Pkt(p)) = "newKeys"
  BY <1>11, Zenon DEF KeyAfter, Readable, PhaseAfter
<1>13. wkey'[Other(p)] = wkey[Other(p)]
  BY Zenon DEF Same
<1>14. Stream(p)'
  BY <1>2, <1>3, <1>10, <1>11, <1>12, <1>13, StreamTake, Zenon
<1>15. Stream(Other(p))'
  <2>1. CASE p = "client"
    <3>1. Sendable(SendPhase(p), y) /\ SendPhase(p)' = PhaseAfter(y)
      BY <1>6, <2>1, Zenon DEF Sendable, PhaseAfter
    <3>2. wire'[p] = wire[p] \o <<y>>
      BY <1>10, <2>1, Zenon
    <3> QED
      BY <3>1, <3>2, <1>1, <1>2, <1>3, <1>5, <1>6, <1>7, <1>11, StreamSend, Zenon
  <2>2. CASE p # "client"
    <3>1. wire'[p] = (wire[p] \o <<x>>) \o <<y>> /\ SendPhase(p) = "kex"
      BY <1>10, <2>2, Zenon
    <3> QED
      BY <3>1, <1>1, <1>2, <1>3, <1>5, <1>6, <1>7, <1>11, StreamSendTwo, Zenon
  <2> QED
    BY <2>1, <2>2, Zenon
<1> QED
  BY <1>14, <1>15, Zenon DEF Kept

\* A packet handed to incoming is none of the exchange's.
LEMMA DeliverStep == ASSUME StreamInv, NEW p \in Peer, Deliver(p) PROVE Kept(p)
<1>1. TypeOK /\ Loops(p) /\ Sound(p)
  BY Zenon DEF StreamInv
<1>2. /\ rpc \in [Peer -> {"read", "deliver", "offer", "kexWait", "fail", "record", "end"}]
  BY <1>1, Zenon DEF TypeOK
<1>3. /\ use' = use /\ wire' = wire /\ rkey' = rkey /\ wkey' = wkey /\ (up' => up)
      /\ startKex'[p] = startKex[p] /\ startClosed'[p] = startClosed[p]
      /\ kpc'[p] = kpc[p] /\ request'[p] = request[p] /\ kexDone'[p] = kexDone[p]
      /\ sentInit'[p] = sentInit[p] /\ writeError'[p] = writeError[p]
      /\ muHeld'[p] = muHeld[p] /\ pending'[p] = pending[p] /\ drain'[p] = drain[p]
      /\ rpend'[p] = rpend[p] /\ rkey'[p] = rkey[p] /\ wkey'[p] = wkey[p]
      /\ halted'[p] = halted[p] /\ protoError'[p] = protoError[p]
  BY Zenon DEF Deliver, keyVars, kexVars, readVars, userVars
<1>4. Same(Other(p))
  <2>1. rpc'[Other(p)] = rpc[Other(p)]
    BY <1>2, OtherPeer, Zenon DEF Deliver
  <2> QED
    BY <2>1, Zenon DEF Same, Deliver, keyVars, kexVars, readVars, userVars
<1>5. CASE /\ rpc[p] = "deliver" /\ rpc' = [rpc EXCEPT ![p] = "read"]
  <2>1. /\ rpc'[p] = "read"
    BY <1>1, <1>2, <1>3, <1>5, Zenon DEF Deliver
  <2>2. Asking(p)'
    BY <1>1, <1>3, <1>5, <2>1, Zenon DEF Loops, Asking, Busy
  <2>3. Exchanging(p)'
    BY <1>1, <1>3, <1>5, <2>1, Zenon DEF Loops, Exchanging
  <2>4. Locking(p)'
    BY <1>1, <1>3, <1>5, <2>1, Zenon DEF Loops, Locking
  <2>5. Ending(p)'
    BY <1>1, <1>3, <1>5, <2>1, Zenon DEF Loops, Ending
  <2>6. Loops(p)'
    BY <2>2, <2>3, <2>4, <2>5, Zenon DEF Loops
  <2>7. Sound(p)'
    BY <1>1, <1>3, <1>5, <2>1, Zenon DEF Sound, NoneGivesUp
  <2>8. ReadPhase(p)' \in {ReadPhase(p), "dead"}
    BY <1>1, <1>3, <1>5, <2>1, Zenon DEF Loops, Asking, Busy, ReadPhase
  <2>9. SendPhase(p)' \in {SendPhase(p), "none"}
    BY <1>1, <1>3, <1>5, <2>1, Zenon DEF Loops, Exchanging, SendPhase
  <2> QED
    BY <1>3, <1>4, <1>5, <2>1, <2>6, <2>7, <2>8, <2>9, Quiet, Zenon DEF keyVars
<1>6. CASE /\ rpc[p] = "deliver" /\ halted[p] /\ rpc' = [rpc EXCEPT ![p] = "end"]
  <2>1. /\ rpc'[p] = "end"
    BY <1>1, <1>2, <1>3, <1>6, Zenon DEF Deliver
  <2>2. Asking(p)'
    BY <1>1, <1>3, <1>6, <2>1, Zenon DEF Loops, Asking, Busy
  <2>3. Exchanging(p)'
    BY <1>1, <1>3, <1>6, <2>1, Zenon DEF Loops, Exchanging
  <2>4. Locking(p)'
    BY <1>1, <1>3, <1>6, <2>1, Zenon DEF Loops, Locking
  <2>5. Ending(p)'
    BY <1>1, <1>3, <1>6, <2>1, Zenon DEF Loops, Ending
  <2>6. Loops(p)'
    BY <2>2, <2>3, <2>4, <2>5, Zenon DEF Loops
  <2>7. Sound(p)'
    BY <1>1, <1>3, <1>6, <2>1, Zenon DEF Sound, NoneGivesUp
  <2>8. ReadPhase(p)' \in {ReadPhase(p), "dead"}
    BY <1>1, <1>3, <1>6, <2>1, Zenon DEF Loops, Asking, Busy, ReadPhase
  <2>9. SendPhase(p)' \in {SendPhase(p), "none"}
    BY <1>1, <1>3, <1>6, <2>1, Zenon DEF Loops, Exchanging, SendPhase
  <2> QED
    BY <1>3, <1>4, <1>6, <2>1, <2>6, <2>7, <2>8, <2>9, Quiet, Zenon DEF keyVars
<1> QED
  BY <1>2, <1>5, <1>6, Zenon DEF Deliver

\* readLoop asks kexLoop for an exchange and waits.
LEMMA OfferStep == ASSUME StreamInv, NEW p \in Peer, Offer(p) PROVE Kept(p)
<1>1. TypeOK /\ Loops(p) /\ Sound(p)
  BY Zenon DEF StreamInv
<1>2. /\ rpc \in [Peer -> {"read", "deliver", "offer", "kexWait", "fail", "record", "end"}]
      /\ startKex \in [Peer -> BOOLEAN]
  BY <1>1, Zenon DEF TypeOK
<1>3. /\ use' = use /\ wire' = wire /\ rkey' = rkey /\ wkey' = wkey /\ (up' => up)
      /\ startClosed'[p] = startClosed[p] /\ kpc'[p] = kpc[p]
      /\ request'[p] = request[p] /\ kexDone'[p] = kexDone[p]
      /\ sentInit'[p] = sentInit[p] /\ writeError'[p] = writeError[p]
      /\ muHeld'[p] = muHeld[p] /\ pending'[p] = pending[p] /\ drain'[p] = drain[p]
      /\ rpend'[p] = rpend[p] /\ rkey'[p] = rkey[p] /\ wkey'[p] = wkey[p]
      /\ halted'[p] = halted[p] /\ protoError'[p] = protoError[p]
  BY Zenon DEF Offer, keyVars, kexVars, readVars, userVars
<1>4. Same(Other(p))
  <2>1. rpc'[Other(p)] = rpc[Other(p)]
    BY <1>2, OtherPeer, Zenon DEF Offer
  <2>2. startKex'[Other(p)] = startKex[Other(p)]
    BY <1>2, OtherPeer, Zenon DEF Offer
  <2> QED
    BY <2>1, <2>2, Zenon DEF Same, Offer, keyVars, kexVars, readVars, userVars
<1>5. CASE /\ rpc[p] = "offer" /\ ~startKex[p]
           /\ startKex' = [startKex EXCEPT ![p] = TRUE]
           /\ rpc' = [rpc EXCEPT ![p] = "kexWait"]
  <2>1. /\ rpc'[p] = "kexWait" /\ startKex'[p]
    BY <1>1, <1>2, <1>3, <1>5, Zenon DEF Offer
  <2>2. Asking(p)'
    BY <1>1, <1>3, <1>5, <2>1, Zenon DEF Loops, Asking, Busy
  <2>3. Exchanging(p)'
    BY <1>1, <1>3, <1>5, <2>1, Zenon DEF Loops, Exchanging
  <2>4. Locking(p)'
    BY <1>1, <1>3, <1>5, <2>1, Zenon DEF Loops, Locking
  <2>5. Ending(p)'
    BY <1>1, <1>3, <1>5, <2>1, Zenon DEF Loops, Ending
  <2>6. Loops(p)'
    BY <2>2, <2>3, <2>4, <2>5, Zenon DEF Loops
  <2>7. Sound(p)'
    BY <1>1, <1>3, <1>5, <2>1, Zenon DEF Sound, NoneGivesUp
  <2>8. ReadPhase(p)' \in {ReadPhase(p), "dead"}
    BY <1>1, <1>3, <1>5, <2>1, Zenon DEF Loops, Asking, Busy, ReadPhase
  <2>9. SendPhase(p)' \in {SendPhase(p), "none"}
    BY <1>1, <1>3, <1>5, <2>1, Zenon DEF Loops, Exchanging, SendPhase
  <2> QED
    BY <1>3, <1>4, <1>5, <2>1, <2>6, <2>7, <2>8, <2>9, Quiet, Zenon DEF keyVars
<1>6. CASE /\ rpc[p] = "offer" /\ halted[p] /\ rpc' = [rpc EXCEPT ![p] = "fail"]
           /\ startKex' = startKex
  <2>1. /\ rpc'[p] = "fail" /\ startKex'[p] = startKex[p]
    BY <1>1, <1>2, <1>3, <1>6, Zenon DEF Offer
  <2>2. Asking(p)'
    BY <1>1, <1>3, <1>6, <2>1, Zenon DEF Loops, Asking, Busy
  <2>3. Exchanging(p)'
    BY <1>1, <1>3, <1>6, <2>1, Zenon DEF Loops, Exchanging
  <2>4. Locking(p)'
    BY <1>1, <1>3, <1>6, <2>1, Zenon DEF Loops, Locking
  <2>5. Ending(p)'
    BY <1>1, <1>3, <1>6, <2>1, Zenon DEF Loops, Ending
  <2>6. Loops(p)'
    BY <2>2, <2>3, <2>4, <2>5, Zenon DEF Loops
  <2>7. Sound(p)'
    BY <1>1, <1>3, <1>6, <2>1, Zenon DEF Sound, NoneGivesUp
  <2>8. ReadPhase(p)' \in {ReadPhase(p), "dead"}
    BY <1>1, <1>3, <1>6, <2>1, Zenon DEF Loops, Asking, Busy, ReadPhase
  <2>9. SendPhase(p)' \in {SendPhase(p), "none"}
    BY <1>1, <1>3, <1>6, <2>1, Zenon DEF Loops, Exchanging, SendPhase
  <2> QED
    BY <1>3, <1>4, <1>6, <2>1, <2>6, <2>7, <2>8, <2>9, Quiet, Zenon DEF keyVars
<1> QED
  BY <1>2, <1>5, <1>6, Zenon DEF Offer

\* readLoop goes on after an exchange, or gives up with it.
LEMMA KexDoneStep == ASSUME StreamInv, NEW p \in Peer, KexDone(p) PROVE Kept(p)
<1>1. TypeOK /\ Loops(p) /\ Sound(p)
  BY Zenon DEF StreamInv
<1>2. /\ rpc \in [Peer -> {"read", "deliver", "offer", "kexWait", "fail", "record", "end"}]
      /\ kexDone \in [Peer -> {"none", "ok", "error"}]
  BY <1>1, Zenon DEF TypeOK
<1>3. /\ use' = use /\ wire' = wire /\ rkey' = rkey /\ wkey' = wkey /\ (up' => up)
      /\ startKex'[p] = startKex[p] /\ startClosed'[p] = startClosed[p]
      /\ kpc'[p] = kpc[p] /\ request'[p] = request[p] /\ sentInit'[p] = sentInit[p]
      /\ writeError'[p] = writeError[p] /\ muHeld'[p] = muHeld[p]
      /\ pending'[p] = pending[p] /\ drain'[p] = drain[p] /\ rpend'[p] = rpend[p]
      /\ rkey'[p] = rkey[p] /\ wkey'[p] = wkey[p] /\ halted'[p] = halted[p]
      /\ protoError'[p] = protoError[p]
  BY Zenon DEF KexDone, keyVars, kexVars, readVars, userVars
<1>4. Same(Other(p))
  <2>1. rpc'[Other(p)] = rpc[Other(p)]
    BY <1>2, OtherPeer, Zenon DEF KexDone
  <2>2. kexDone'[Other(p)] = kexDone[Other(p)]
    BY <1>2, OtherPeer, Zenon DEF KexDone
  <2> QED
    BY <2>1, <2>2, Zenon DEF Same, KexDone, keyVars, kexVars, readVars, userVars
<1>5. CASE /\ rpc[p] = "kexWait" /\ kexDone[p] = "ok"
           /\ kexDone' = [kexDone EXCEPT ![p] = "none"]
           /\ rpc' = [rpc EXCEPT ![p] = IF kexDone[p] = "ok" THEN "read" ELSE "fail"]
  <2>1. /\ rpc'[p] = "read" /\ kexDone'[p] = "none"
    BY <1>1, <1>2, <1>3, <1>5, Zenon DEF KexDone
  <2>2. Asking(p)'
    BY <1>1, <1>3, <1>5, <2>1, Zenon DEF Loops, Asking, Busy
  <2>3. Exchanging(p)'
    BY <1>1, <1>3, <1>5, <2>1, Zenon DEF Loops, Exchanging
  <2>4. Locking(p)'
    BY <1>1, <1>3, <1>5, <2>1, Zenon DEF Loops, Locking
  <2>5. Ending(p)'
    BY <1>1, <1>3, <1>5, <2>1, Zenon DEF Loops, Ending
  <2>6. Loops(p)'
    BY <2>2, <2>3, <2>4, <2>5, Zenon DEF Loops
  <2>7. Sound(p)'
    BY <1>1, <1>3, <1>5, <2>1, Zenon DEF Sound, NoneGivesUp
  <2>8. ReadPhase(p)' \in {ReadPhase(p), "dead"}
    BY <1>1, <1>3, <1>5, <2>1, Zenon DEF Loops, Asking, Busy, ReadPhase
  <2>9. SendPhase(p)' \in {SendPhase(p), "none"}
    BY <1>1, <1>3, <1>5, <2>1, Zenon DEF Loops, Exchanging, SendPhase
  <2> QED
    BY <1>3, <1>4, <1>5, <2>1, <2>6, <2>7, <2>8, <2>9, Quiet, Zenon DEF keyVars
<1>6. CASE /\ rpc[p] = "kexWait" /\ kexDone[p] = "error"
           /\ kexDone' = [kexDone EXCEPT ![p] = "none"]
           /\ rpc' = [rpc EXCEPT ![p] = IF kexDone[p] = "ok" THEN "read" ELSE "fail"]
  <2>1. /\ rpc'[p] = "fail" /\ kexDone'[p] = "none"
    BY <1>1, <1>2, <1>3, <1>6, Zenon DEF KexDone
  <2>2. Asking(p)'
    BY <1>1, <1>3, <1>6, <2>1, Zenon DEF Loops, Asking, Busy
  <2>3. Exchanging(p)'
    BY <1>1, <1>3, <1>6, <2>1, Zenon DEF Loops, Exchanging
  <2>4. Locking(p)'
    BY <1>1, <1>3, <1>6, <2>1, Zenon DEF Loops, Locking
  <2>5. Ending(p)'
    BY <1>1, <1>3, <1>6, <2>1, Zenon DEF Loops, Ending
  <2>6. Loops(p)'
    BY <2>2, <2>3, <2>4, <2>5, Zenon DEF Loops
  <2>7. Sound(p)'
    BY <1>1, <1>3, <1>6, <2>1, Zenon DEF Sound, NoneGivesUp
  <2>8. ReadPhase(p)' \in {ReadPhase(p), "dead"}
    BY <1>1, <1>3, <1>6, <2>1, Zenon DEF Loops, Asking, Busy, ReadPhase
  <2>9. SendPhase(p)' \in {SendPhase(p), "none"}
    BY <1>1, <1>3, <1>6, <2>1, Zenon DEF Loops, Exchanging, SendPhase
  <2> QED
    BY <1>3, <1>4, <1>6, <2>1, <2>6, <2>7, <2>8, <2>9, Quiet, Zenon DEF keyVars
<1>7. CASE /\ rpc[p] = "kexWait" /\ halted[p] /\ rpc' = [rpc EXCEPT ![p] = "fail"]
           /\ kexDone' = kexDone
  <2>1. /\ rpc'[p] = "fail" /\ kexDone'[p] = kexDone[p]
    BY <1>1, <1>2, <1>3, <1>7, Zenon DEF KexDone
  <2>2. Asking(p)'
    BY <1>1, <1>3, <1>7, <2>1, Zenon DEF Loops, Asking, Busy
  <2>3. Exchanging(p)'
    BY <1>1, <1>3, <1>7, <2>1, Zenon DEF Loops, Exchanging
  <2>4. Locking(p)'
    BY <1>1, <1>3, <1>7, <2>1, Zenon DEF Loops, Locking
  <2>5. Ending(p)'
    BY <1>1, <1>3, <1>7, <2>1, Zenon DEF Loops, Ending
  <2>6. Loops(p)'
    BY <2>2, <2>3, <2>4, <2>5, Zenon DEF Loops
  <2>7. Sound(p)'
    BY <1>1, <1>3, <1>7, <2>1, Zenon DEF Sound, NoneGivesUp
  <2>8. ReadPhase(p)' \in {ReadPhase(p), "dead"}
    BY <1>1, <1>3, <1>7, <2>1, Zenon DEF Loops, Asking, Busy, ReadPhase
  <2>9. SendPhase(p)' \in {SendPhase(p), "none"}
    BY <1>1, <1>3, <1>7, <2>1, Zenon DEF Loops, Exchanging, SendPhase
  <2> QED
    BY <1>3, <1>4, <1>7, <2>1, <2>6, <2>7, <2>8, <2>9, Quiet, Zenon DEF keyVars
<1> QED
  BY <1>2, <1>5, <1>6, <1>7, Zenon DEF KexDone

\* readLoop ends.
LEMMA CloseIncomingStep == ASSUME StreamInv, NEW p \in Peer, CloseIncoming(p) PROVE Kept(p)
<1>1. TypeOK /\ Loops(p) /\ Sound(p)
  BY Zenon DEF StreamInv
<1>2. /\ rpc \in [Peer -> {"read", "deliver", "offer", "kexWait", "fail", "record", "end"}]
  BY <1>1, Zenon DEF TypeOK
<1>3. /\ use' = use /\ wire' = wire /\ rkey' = rkey /\ wkey' = wkey /\ (up' => up)
      /\ startKex'[p] = startKex[p] /\ startClosed'[p] = startClosed[p]
      /\ kpc'[p] = kpc[p] /\ request'[p] = request[p] /\ kexDone'[p] = kexDone[p]
      /\ sentInit'[p] = sentInit[p] /\ writeError'[p] = writeError[p]
      /\ muHeld'[p] = muHeld[p] /\ pending'[p] = pending[p] /\ drain'[p] = drain[p]
      /\ rpend'[p] = rpend[p] /\ rkey'[p] = rkey[p] /\ wkey'[p] = wkey[p]
      /\ halted'[p] = halted[p] /\ protoError'[p] = protoError[p]
  BY Zenon DEF CloseIncoming, keyVars, kexVars, readVars, userVars
<1>4. Same(Other(p))
  <2>1. rpc'[Other(p)] = rpc[Other(p)]
    BY <1>2, OtherPeer, Zenon DEF CloseIncoming
  <2> QED
    BY <2>1, Zenon DEF Same, CloseIncoming, keyVars, kexVars, readVars, userVars
<1>5. CASE /\ rpc[p] = "fail" /\ rpc' = [rpc EXCEPT ![p] = "record"]
  <2>1. /\ rpc'[p] = "record"
    BY <1>1, <1>2, <1>3, <1>5, Zenon DEF CloseIncoming
  <2>2. Asking(p)'
    BY <1>1, <1>3, <1>5, <2>1, Zenon DEF Loops, Asking, Busy
  <2>3. Exchanging(p)'
    BY <1>1, <1>3, <1>5, <2>1, Zenon DEF Loops, Exchanging
  <2>4. Locking(p)'
    BY <1>1, <1>3, <1>5, <2>1, Zenon DEF Loops, Locking
  <2>5. Ending(p)'
    BY <1>1, <1>3, <1>5, <2>1, Zenon DEF Loops, Ending
  <2>6. Loops(p)'
    BY <2>2, <2>3, <2>4, <2>5, Zenon DEF Loops
  <2>7. Sound(p)'
    BY <1>1, <1>3, <1>5, <2>1, Zenon DEF Sound, NoneGivesUp
  <2>8. ReadPhase(p)' \in {ReadPhase(p), "dead"}
    BY <1>1, <1>3, <1>5, <2>1, Zenon DEF Loops, Asking, Busy, ReadPhase
  <2>9. SendPhase(p)' \in {SendPhase(p), "none"}
    BY <1>1, <1>3, <1>5, <2>1, Zenon DEF Loops, Exchanging, SendPhase
  <2> QED
    BY <1>3, <1>4, <1>5, <2>1, <2>6, <2>7, <2>8, <2>9, Quiet, Zenon DEF keyVars
<1> QED
  BY <1>2, <1>5, Zenon DEF CloseIncoming

\* recordWriteError at the end of readLoop.
LEMMA StopWritersStep == ASSUME StreamInv, NEW p \in Peer, StopWriters(p) PROVE Kept(p)
<1>1. TypeOK /\ Loops(p) /\ Sound(p)
  BY Zenon DEF StreamInv
<1>2. /\ rpc \in [Peer -> {"read", "deliver", "offer", "kexWait", "fail", "record", "end"}]
      /\ writeError \in [Peer -> BOOLEAN] /\ startClosed \in [Peer -> BOOLEAN]
  BY <1>1, Zenon DEF TypeOK
<1>3. /\ use' = use /\ wire' = wire /\ rkey' = rkey /\ wkey' = wkey /\ (up' => up)
      /\ startKex'[p] = startKex[p] /\ kpc'[p] = kpc[p] /\ request'[p] = request[p]
      /\ kexDone'[p] = kexDone[p] /\ sentInit'[p] = sentInit[p]
      /\ muHeld'[p] = muHeld[p] /\ pending'[p] = pending[p] /\ drain'[p] = drain[p]
      /\ rpend'[p] = rpend[p] /\ rkey'[p] = rkey[p] /\ wkey'[p] = wkey[p]
      /\ halted'[p] = halted[p] /\ protoError'[p] = protoError[p]
  BY Zenon DEF StopWriters, keyVars, kexVars, readVars, userVars
<1>4. Same(Other(p))
  <2>1. rpc'[Other(p)] = rpc[Other(p)]
    BY <1>2, OtherPeer, Zenon DEF StopWriters
  <2>2. writeError'[Other(p)] = writeError[Other(p)]
    BY <1>2, OtherPeer, Zenon DEF StopWriters
  <2>3. startClosed'[Other(p)] = startClosed[Other(p)]
    BY <1>2, OtherPeer, Zenon DEF StopWriters
  <2> QED
    BY <2>1, <2>2, <2>3, Zenon DEF Same, StopWriters, keyVars, kexVars, readVars, userVars
<1>5. CASE /\ rpc[p] = "record" /\ rpc' = [rpc EXCEPT ![p] = "end"]
           /\ writeError' = [writeError EXCEPT ![p] = TRUE]
           /\ startClosed' = [startClosed EXCEPT ![p] = TRUE]
  <2>1. /\ rpc'[p] = "end" /\ writeError'[p] /\ startClosed'[p]
    BY <1>1, <1>2, <1>3, <1>5, Zenon DEF StopWriters
  <2>2. Asking(p)'
    BY <1>1, <1>3, <1>5, <2>1, Zenon DEF Loops, Asking, Busy
  <2>3. Exchanging(p)'
    BY <1>1, <1>3, <1>5, <2>1, Zenon DEF Loops, Exchanging
  <2>4. Locking(p)'
    BY <1>1, <1>3, <1>5, <2>1, Zenon DEF Loops, Locking
  <2>5. Ending(p)'
    BY <1>1, <1>3, <1>5, <2>1, Zenon DEF Loops, Ending
  <2>6. Loops(p)'
    BY <2>2, <2>3, <2>4, <2>5, Zenon DEF Loops
  <2>7. Sound(p)'
    BY <1>1, <1>3, <1>5, <2>1, Zenon DEF Sound, NoneGivesUp
  <2>8. ReadPhase(p)' \in {ReadPhase(p), "dead"}
    BY <1>1, <1>3, <1>5, <2>1, Zenon DEF Loops, Asking, Busy, ReadPhase
  <2>9. SendPhase(p)' \in {SendPhase(p), "none"}
    BY <1>1, <1>3, <1>5, <2>1, Zenon DEF Loops, Exchanging, SendPhase
  <2> QED
    BY <1>3, <1>4, <1>5, <2>1, <2>6, <2>7, <2>8, <2>9, Quiet, Zenon DEF keyVars
<1> QED
  BY <1>2, <1>5, Zenon DEF StopWriters

\* kexLoop begins anew.
LEMMA TopStep == ASSUME StreamInv, NEW p \in Peer, Top(p) PROVE Kept(p)
<1>1. TypeOK /\ Loops(p) /\ Sound(p)
  BY Zenon DEF StreamInv
<1>2. /\ kpc \in [Peer -> {"top", "select", "check", "kex1", "kex2", "kex3", "locked", "flush", "end"}]
      /\ request \in [Peer -> BOOLEAN] /\ drain \in [Peer -> {"no", "run", "end"}]
  BY <1>1, Zenon DEF TypeOK
<1>3. /\ use' = use /\ wire' = wire /\ rkey' = rkey /\ wkey' = wkey /\ rpc'[p] = rpc[p]
      /\ startKex'[p] = startKex[p] /\ startClosed'[p] = startClosed[p]
      /\ kexDone'[p] = kexDone[p] /\ sentInit'[p] = sentInit[p]
      /\ writeError'[p] = writeError[p] /\ muHeld'[p] = muHeld[p]
      /\ pending'[p] = pending[p] /\ rpend'[p] = rpend[p] /\ rkey'[p] = rkey[p]
      /\ wkey'[p] = wkey[p] /\ halted'[p] = halted[p] /\ protoError'[p] = protoError[p]
  BY Zenon DEF Top, LeaveLoop, KGoto, keyVars, kexVars, readVars, userVars
<1>4. Same(Other(p))
  <2>1. kpc'[Other(p)] = kpc[Other(p)]
    BY <1>2, OtherPeer, Zenon DEF Top, LeaveLoop, KGoto
  <2>2. request'[Other(p)] = request[Other(p)]
    BY <1>2, OtherPeer, Zenon DEF Top, LeaveLoop, KGoto
  <2>3. drain'[Other(p)] = drain[Other(p)]
    BY <1>2, OtherPeer, Zenon DEF Top, LeaveLoop, KGoto
  <2> QED
    BY <2>1, <2>2, <2>3, Zenon DEF Same, Top, LeaveLoop, KGoto, keyVars, kexVars, readVars,
       userVars
<1>5. CASE /\ kpc[p] = "top" /\ writeError[p] /\ LeaveLoop(p)
           /\ request' = [request EXCEPT ![p] = FALSE]
  <2>1. /\ kpc'[p] = "end" /\ drain'[p] = "run" /\ ~request'[p] /\ ~up'
    BY <1>1, <1>2, <1>3, <1>5, Zenon DEF LeaveLoop, KGoto
  <2>2. Asking(p)'
    BY <1>1, <1>3, <1>5, <2>1, Zenon DEF Loops, Asking, Busy
  <2>3. Exchanging(p)'
    BY <1>1, <1>3, <1>5, <2>1, Zenon DEF Loops, Exchanging
  <2>4. Locking(p)'
    BY <1>1, <1>3, <1>5, <2>1, Zenon DEF Loops, Locking
  <2>5. Ending(p)'
    BY <1>1, <1>3, <1>5, <2>1, Zenon DEF Loops, Ending
  <2>6. Loops(p)'
    BY <2>2, <2>3, <2>4, <2>5, Zenon DEF Loops
  <2>7. Sound(p)'
    BY <1>1, <1>3, <1>5, <2>1, Zenon DEF Sound, NoneGivesUp
  <2>8. ReadPhase(p)' \in {ReadPhase(p), "dead"}
    BY <1>1, <1>3, <1>5, <2>1, Zenon DEF Loops, Asking, Busy, ReadPhase
  <2>9. SendPhase(p)' \in {SendPhase(p), "none"}
    BY <1>1, <1>3, <1>5, <2>1, Zenon DEF Loops, Exchanging, SendPhase
  <2> QED
    BY <1>3, <1>4, <1>5, <2>1, <2>6, <2>7, <2>8, <2>9, Quiet, Zenon DEF keyVars
<1>6. CASE /\ kpc[p] = "top" /\ ~writeError[p] /\ KGoto(p, "select") /\ drain' = drain
           /\ up' = up /\ request' = [request EXCEPT ![p] = FALSE]
  <2>1. /\ kpc'[p] = "select" /\ ~request'[p] /\ (up' => up) /\ drain'[p] = drain[p]
    BY <1>1, <1>2, <1>3, <1>6, Zenon DEF LeaveLoop, KGoto
  <2>2. Asking(p)'
    BY <1>1, <1>3, <1>6, <2>1, Zenon DEF Loops, Asking, Busy
  <2>3. Exchanging(p)'
    BY <1>1, <1>3, <1>6, <2>1, Zenon DEF Loops, Exchanging
  <2>4. Locking(p)'
    BY <1>1, <1>3, <1>6, <2>1, Zenon DEF Loops, Locking
  <2>5. Ending(p)'
    BY <1>1, <1>3, <1>6, <2>1, Zenon DEF Loops, Ending
  <2>6. Loops(p)'
    BY <2>2, <2>3, <2>4, <2>5, Zenon DEF Loops
  <2>7. Sound(p)'
    BY <1>1, <1>3, <1>6, <2>1, Zenon DEF Sound, NoneGivesUp
  <2>8. ReadPhase(p)' \in {ReadPhase(p), "dead"}
    BY <1>1, <1>3, <1>6, <2>1, Zenon DEF Loops, Asking, Busy, ReadPhase
  <2>9. SendPhase(p)' \in {SendPhase(p), "none"}
    BY <1>1, <1>3, <1>6, <2>1, Zenon DEF Loops, Exchanging, SendPhase
  <2> QED
    BY <1>3, <1>4, <1>6, <2>1, <2>6, <2>7, <2>8, <2>9, Quiet, Zenon DEF keyVars
<1> QED
  BY <1>2, <1>5, <1>6, Zenon DEF Top

\* kexLoop enters the exchange with both kexInits, or ends.
LEMMA CheckStep == ASSUME StreamInv, NEW p \in Peer, Check(p) PROVE Kept(p)
<1>1. TypeOK /\ Loops(p) /\ Sound(p)
  BY Zenon DEF StreamInv
<1>2. /\ kpc \in [Peer -> {"top", "select", "check", "kex1", "kex2", "kex3", "locked", "flush", "end"}]
      /\ kexDone \in [Peer -> {"none", "ok", "error"}]
      /\ drain \in [Peer -> {"no", "run", "end"}]
  BY <1>1, Zenon DEF TypeOK
<1>3. /\ use' = use /\ wire' = wire /\ rkey' = rkey /\ wkey' = wkey /\ rpc'[p] = rpc[p]
      /\ startKex'[p] = startKex[p] /\ startClosed'[p] = startClosed[p]
      /\ request'[p] = request[p] /\ sentInit'[p] = sentInit[p]
      /\ writeError'[p] = writeError[p] /\ muHeld'[p] = muHeld[p]
      /\ pending'[p] = pending[p] /\ rpend'[p] = rpend[p] /\ rkey'[p] = rkey[p]
      /\ wkey'[p] = wkey[p] /\ halted'[p] = halted[p] /\ protoError'[p] = protoError[p]
  BY Zenon DEF Check, LeaveLoop, KGoto, keyVars, kexVars, readVars, userVars
<1>4. Same(Other(p))
  <2>1. kpc'[Other(p)] = kpc[Other(p)]
    BY <1>2, OtherPeer, Zenon DEF Check, LeaveLoop, KGoto
  <2>2. kexDone'[Other(p)] = kexDone[Other(p)]
    BY <1>2, OtherPeer, Zenon DEF Check, LeaveLoop, KGoto
  <2>3. drain'[Other(p)] = drain[Other(p)]
    BY <1>2, OtherPeer, Zenon DEF Check, LeaveLoop, KGoto
  <2> QED
    BY <2>1, <2>2, <2>3, Zenon DEF Same, Check, LeaveLoop, KGoto, keyVars, kexVars, readVars,
       userVars
<1>5. CASE /\ kpc[p] = "check" /\ ~writeError[p] /\ KGoto(p, "kex1")
           /\ kexDone' = kexDone /\ drain' = drain /\ up' = up
  <2>1. /\ kpc'[p] = "kex1" /\ (up' => up) /\ kexDone'[p] = kexDone[p]
        /\ drain'[p] = drain[p]
    BY <1>1, <1>2, <1>3, <1>5, Zenon DEF LeaveLoop, KGoto
  <2>2. Asking(p)'
    BY <1>1, <1>3, <1>5, <2>1, Zenon DEF Loops, Asking, Exchanging, Busy
  <2>3. Exchanging(p)'
    BY <1>1, <1>3, <1>5, <2>1, Zenon DEF Loops, Exchanging
  <2>4. Locking(p)'
    BY <1>1, <1>3, <1>5, <2>1, Zenon DEF Loops, Locking
  <2>5. Ending(p)'
    BY <1>1, <1>3, <1>5, <2>1, Zenon DEF Loops, Ending
  <2>6. Loops(p)'
    BY <2>2, <2>3, <2>4, <2>5, Zenon DEF Loops
  <2>7. Sound(p)'
    BY <1>1, <1>3, <1>5, <2>1, Zenon DEF Sound, NoneGivesUp
  <2>8. ReadPhase(p)' \in {ReadPhase(p), "dead"}
    BY <1>1, <1>3, <1>5, <2>1, Zenon DEF Loops, Asking, Exchanging, Busy, ReadPhase
  <2>9. SendPhase(p)' \in {SendPhase(p), "none"}
    BY <1>1, <1>3, <1>5, <2>1, Zenon DEF Loops, Exchanging, SendPhase
  <2> QED
    BY <1>3, <1>4, <1>5, <2>1, <2>6, <2>7, <2>8, <2>9, Quiet, Zenon DEF keyVars
<1>6. CASE /\ kpc[p] = "check" /\ writeError[p] /\ request[p] /\ LeaveLoop(p)
           /\ kexDone' = [kexDone EXCEPT ![p] = IF request[p] THEN "error" ELSE @]
  <2>1. /\ kpc'[p] = "end" /\ drain'[p] = "run" /\ kexDone'[p] = "error" /\ ~up'
    BY <1>1, <1>2, <1>3, <1>6, Zenon DEF LeaveLoop, KGoto
  <2>2. Asking(p)'
    BY <1>1, <1>3, <1>6, <2>1, Zenon DEF Loops, Asking, Busy
  <2>3. Exchanging(p)'
    BY <1>1, <1>3, <1>6, <2>1, Zenon DEF Loops, Exchanging
  <2>4. Locking(p)'
    BY <1>1, <1>3, <1>6, <2>1, Zenon DEF Loops, Locking
  <2>5. Ending(p)'
    BY <1>1, <1>3, <1>6, <2>1, Zenon DEF Loops, Ending
  <2>6. Loops(p)'
    BY <2>2, <2>3, <2>4, <2>5, Zenon DEF Loops
  <2>7. Sound(p)'
    BY <1>1, <1>3, <1>6, <2>1, Zenon DEF Sound, NoneGivesUp
  <2>8. ReadPhase(p)' \in {ReadPhase(p), "dead"}
    BY <1>1, <1>3, <1>6, <2>1, Zenon DEF Loops, Asking, Busy, ReadPhase
  <2>9. SendPhase(p)' \in {SendPhase(p), "none"}
    BY <1>1, <1>3, <1>6, <2>1, Zenon DEF Loops, Exchanging, SendPhase
  <2> QED
    BY <1>3, <1>4, <1>6, <2>1, <2>6, <2>7, <2>8, <2>9, Quiet, Zenon DEF keyVars
<1>7. CASE /\ kpc[p] = "check" /\ writeError[p] /\ ~request[p] /\ LeaveLoop(p)
           /\ kexDone' = [kexDone EXCEPT ![p] = IF request[p] THEN "error" ELSE @]
  <2>1. /\ kpc'[p] = "end" /\ drain'[p] = "run" /\ kexDone'[p] = kexDone[p] /\ ~up'
    BY <1>1, <1>2, <1>3, <1>7, Zenon DEF LeaveLoop, KGoto
  <2>2. Asking(p)'
    BY <1>1, <1>3, <1>7, <2>1, Zenon DEF Loops, Asking, Busy
  <2>3. Exchanging(p)'
    BY <1>1, <1>3, <1>7, <2>1, Zenon DEF Loops, Exchanging
  <2>4. Locking(p)'
    BY <1>1, <1>3, <1>7, <2>1, Zenon DEF Loops, Locking
  <2>5. Ending(p)'
    BY <1>1, <1>3, <1>7, <2>1, Zenon DEF Loops, Ending
  <2>6. Loops(p)'
    BY <2>2, <2>3, <2>4, <2>5, Zenon DEF Loops
  <2>7. Sound(p)'
    BY <1>1, <1>3, <1>7, <2>1, Zenon DEF Sound, NoneGivesUp
  <2>8. ReadPhase(p)' \in {ReadPhase(p), "dead"}
    BY <1>1, <1>3, <1>7, <2>1, Zenon DEF Loops, Asking, Busy, ReadPhase
  <2>9. SendPhase(p)' \in {SendPhase(p), "none"}
    BY <1>1, <1>3, <1>7, <2>1, Zenon DEF Loops, Exchanging, SendPhase
  <2> QED
    BY <1>3, <1>4, <1>7, <2>1, <2>6, <2>7, <2>8, <2>9, Quiet, Zenon DEF keyVars
<1>8. CASE /\ kpc[p] = "check" /\ writeError[p] /\ request[p] /\ halted[p]
           /\ KGoto(p, "end") /\ kexDone' = kexDone /\ drain' = drain /\ up' = up
  <2>1. /\ kpc'[p] = "end" /\ (up' => up) /\ kexDone'[p] = kexDone[p]
        /\ drain'[p] = drain[p]
    BY <1>1, <1>2, <1>3, <1>8, Zenon DEF LeaveLoop, KGoto
  <2>2. Asking(p)'
    BY <1>1, <1>3, <1>8, <2>1, Zenon DEF Loops, Asking, Busy
  <2>3. Exchanging(p)'
    BY <1>1, <1>3, <1>8, <2>1, Zenon DEF Loops, Exchanging
  <2>4. Locking(p)'
    BY <1>1, <1>3, <1>8, <2>1, Zenon DEF Loops, Locking
  <2>5. Ending(p)'
    BY <1>1, <1>3, <1>8, <2>1, Zenon DEF Loops, Ending
  <2>6. Loops(p)'
    BY <2>2, <2>3, <2>4, <2>5, Zenon DEF Loops
  <2>7. Sound(p)'
    BY <1>1, <1>3, <1>8, <2>1, Zenon DEF Sound, NoneGivesUp
  <2>8. ReadPhase(p)' \in {ReadPhase(p), "dead"}
    BY <1>1, <1>3, <1>8, <2>1, Zenon DEF Loops, Asking, Busy, ReadPhase
  <2>9. SendPhase(p)' \in {SendPhase(p), "none"}
    BY <1>1, <1>3, <1>8, <2>1, Zenon DEF Loops, Exchanging, SendPhase
  <2> QED
    BY <1>3, <1>4, <1>8, <2>1, <2>6, <2>7, <2>8, <2>9, Quiet, Zenon DEF keyVars
<1> QED
  BY <1>2, <1>5, <1>6, <1>7, <1>8, Zenon DEF Check

\* kexLoop tells readLoop the result.
LEMMA TellReaderStep == ASSUME StreamInv, NEW p \in Peer, TellReader(p) PROVE Kept(p)
<1>1. TypeOK /\ Loops(p) /\ Sound(p)
  BY Zenon DEF StreamInv
<1>2. /\ kpc \in [Peer -> {"top", "select", "check", "kex1", "kex2", "kex3", "locked", "flush", "end"}]
      /\ kexDone \in [Peer -> {"none", "ok", "error"}]
  BY <1>1, Zenon DEF TypeOK
<1>3. /\ use' = use /\ wire' = wire /\ rkey' = rkey /\ wkey' = wkey /\ (up' => up)
      /\ rpc'[p] = rpc[p] /\ startKex'[p] = startKex[p]
      /\ startClosed'[p] = startClosed[p] /\ request'[p] = request[p]
      /\ sentInit'[p] = sentInit[p] /\ writeError'[p] = writeError[p]
      /\ muHeld'[p] = muHeld[p] /\ pending'[p] = pending[p] /\ drain'[p] = drain[p]
      /\ rpend'[p] = rpend[p] /\ rkey'[p] = rkey[p] /\ wkey'[p] = wkey[p]
      /\ halted'[p] = halted[p] /\ protoError'[p] = protoError[p]
  BY Zenon DEF TellReader, KGoto, keyVars, kexVars, readVars, userVars
<1>4. Same(Other(p))
  <2>1. kpc'[Other(p)] = kpc[Other(p)]
    BY <1>2, OtherPeer, Zenon DEF TellReader, KGoto
  <2>2. kexDone'[Other(p)] = kexDone[Other(p)]
    BY <1>2, OtherPeer, Zenon DEF TellReader, KGoto
  <2> QED
    BY <2>1, <2>2, Zenon DEF Same, TellReader, KGoto, keyVars, kexVars, readVars, userVars
<1>5. CASE /\ kpc[p] = "locked" /\ writeError[p]
           /\ kexDone' = [kexDone EXCEPT ![p] = IF writeError[p] THEN "error" ELSE "ok"]
           /\ KGoto(p, "flush")
  <2>1. /\ kpc'[p] = "flush" /\ kexDone'[p] = "error"
    BY <1>1, <1>2, <1>3, <1>5, Zenon DEF KGoto
  <2>2. Asking(p)'
    BY <1>1, <1>3, <1>5, <2>1, Zenon DEF Loops, Asking, Busy
  <2>3. Exchanging(p)'
    BY <1>1, <1>3, <1>5, <2>1, Zenon DEF Loops, Exchanging
  <2>4. Locking(p)'
    BY <1>1, <1>3, <1>5, <2>1, Zenon DEF Loops, Locking
  <2>5. Ending(p)'
    BY <1>1, <1>3, <1>5, <2>1, Zenon DEF Loops, Ending
  <2>6. Loops(p)'
    BY <2>2, <2>3, <2>4, <2>5, Zenon DEF Loops
  <2>7. Sound(p)'
    BY <1>1, <1>3, <1>5, <2>1, Zenon DEF Sound, NoneGivesUp
  <2>8. ReadPhase(p)' \in {ReadPhase(p), "dead"}
    BY <1>1, <1>3, <1>5, <2>1, Zenon DEF Loops, Asking, Busy, ReadPhase
  <2>9. SendPhase(p)' \in {SendPhase(p), "none"}
    BY <1>1, <1>3, <1>5, <2>1, Zenon DEF Loops, Exchanging, SendPhase
  <2> QED
    BY <1>3, <1>4, <1>5, <2>1, <2>6, <2>7, <2>8, <2>9, Quiet, Zenon DEF keyVars
<1>6. CASE /\ kpc[p] = "locked" /\ ~writeError[p]
           /\ kexDone' = [kexDone EXCEPT ![p] = IF writeError[p] THEN "error" ELSE "ok"]
           /\ KGoto(p, "flush")
  <2>1. /\ kpc'[p] = "flush" /\ kexDone'[p] = "ok"
    BY <1>1, <1>2, <1>3, <1>6, Zenon DEF KGoto
  <2>2. Asking(p)'
    BY <1>1, <1>3, <1>6, <2>1, Zenon DEF Loops, Asking, Busy
  <2>3. Exchanging(p)'
    BY <1>1, <1>3, <1>6, <2>1, Zenon DEF Loops, Exchanging
  <2>4. Locking(p)'
    BY <1>1, <1>3, <1>6, <2>1, Zenon DEF Loops, Locking
  <2>5. Ending(p)'
    BY <1>1, <1>3, <1>6, <2>1, Zenon DEF Loops, Ending
  <2>6. Loops(p)'
    BY <2>2, <2>3, <2>4, <2>5, Zenon DEF Loops
  <2>7. Sound(p)'
    BY <1>1, <1>3, <1>6, <2>1, Zenon DEF Sound, NoneGivesUp
  <2>8. ReadPhase(p)' \in {ReadPhase(p), "dead"}
    BY <1>1, <1>3, <1>6, <2>1, Zenon DEF Loops, Asking, Busy, ReadPhase
  <2>9. SendPhase(p)' \in {SendPhase(p), "none"}
    BY <1>1, <1>3, <1>6, <2>1, Zenon DEF Loops, Exchanging, SendPhase
  <2> QED
    BY <1>3, <1>4, <1>6, <2>1, <2>6, <2>7, <2>8, <2>9, Quiet, Zenon DEF keyVars
<1>7. CASE /\ kpc[p] = "locked" /\ halted[p] /\ KGoto(p, "end") /\ kexDone' = kexDone
  <2>1. /\ kpc'[p] = "end" /\ kexDone'[p] = kexDone[p]
    BY <1>1, <1>2, <1>3, <1>7, Zenon DEF KGoto
  <2>2. Asking(p)'
    BY <1>1, <1>3, <1>7, <2>1, Zenon DEF Loops, Asking, Busy
  <2>3. Exchanging(p)'
    BY <1>1, <1>3, <1>7, <2>1, Zenon DEF Loops, Exchanging
  <2>4. Locking(p)'
    BY <1>1, <1>3, <1>7, <2>1, Zenon DEF Loops, Locking
  <2>5. Ending(p)'
    BY <1>1, <1>3, <1>7, <2>1, Zenon DEF Loops, Ending
  <2>6. Loops(p)'
    BY <2>2, <2>3, <2>4, <2>5, Zenon DEF Loops
  <2>7. Sound(p)'
    BY <1>1, <1>3, <1>7, <2>1, Zenon DEF Sound, NoneGivesUp
  <2>8. ReadPhase(p)' \in {ReadPhase(p), "dead"}
    BY <1>1, <1>3, <1>7, <2>1, Zenon DEF Loops, Asking, Busy, ReadPhase
  <2>9. SendPhase(p)' \in {SendPhase(p), "none"}
    BY <1>1, <1>3, <1>7, <2>1, Zenon DEF Loops, Exchanging, SendPhase
  <2> QED
    BY <1>3, <1>4, <1>7, <2>1, <2>6, <2>7, <2>8, <2>9, Quiet, Zenon DEF keyVars
<1> QED
  BY <1>2, <1>5, <1>6, <1>7, Zenon DEF TellReader

\* The goroutine that empties startKex.
LEMMA DrainStep == ASSUME StreamInv, NEW p \in Peer, Drain(p) PROVE Kept(p)
<1>1. TypeOK /\ Loops(p) /\ Sound(p)
  BY Zenon DEF StreamInv
<1>2. /\ startKex \in [Peer -> BOOLEAN] /\ kexDone \in [Peer -> {"none", "ok", "error"}]
      /\ drain \in [Peer -> {"no", "run", "end"}]
  BY <1>1, Zenon DEF TypeOK
<1>3. /\ use' = use /\ wire' = wire /\ rkey' = rkey /\ wkey' = wkey /\ (up' => up)
      /\ rpc'[p] = rpc[p] /\ startClosed'[p] = startClosed[p] /\ kpc'[p] = kpc[p]
      /\ request'[p] = request[p] /\ sentInit'[p] = sentInit[p]
      /\ writeError'[p] = writeError[p] /\ muHeld'[p] = muHeld[p]
      /\ pending'[p] = pending[p] /\ rpend'[p] = rpend[p] /\ rkey'[p] = rkey[p]
      /\ wkey'[p] = wkey[p] /\ halted'[p] = halted[p] /\ protoError'[p] = protoError[p]
  BY Zenon DEF Drain, keyVars, kexVars, readVars, userVars
<1>4. Same(Other(p))
  <2>1. startKex'[Other(p)] = startKex[Other(p)]
    BY <1>2, OtherPeer, Zenon DEF Drain
  <2>2. kexDone'[Other(p)] = kexDone[Other(p)]
    BY <1>2, OtherPeer, Zenon DEF Drain
  <2>3. drain'[Other(p)] = drain[Other(p)]
    BY <1>2, OtherPeer, Zenon DEF Drain
  <2> QED
    BY <2>1, <2>2, <2>3, Zenon DEF Same, Drain, keyVars, kexVars, readVars, userVars
<1>5. CASE /\ drain[p] = "run" /\ startKex[p] /\ writeError[p]
           /\ startKex' = [startKex EXCEPT ![p] = FALSE]
           /\ kexDone' = [kexDone EXCEPT ![p] = IF writeError[p] THEN "error" ELSE "ok"]
           /\ drain' = drain
  <2>1. /\ ~startKex'[p] /\ kexDone'[p] = "error" /\ drain'[p] = drain[p]
    BY <1>1, <1>2, <1>3, <1>5, Zenon DEF Drain
  <2>2. Asking(p)'
    BY <1>1, <1>3, <1>5, <2>1, Zenon DEF Loops, Asking, Ending, Busy
  <2>3. Exchanging(p)'
    BY <1>1, <1>3, <1>5, <2>1, Zenon DEF Loops, Exchanging
  <2>4. Locking(p)'
    BY <1>1, <1>3, <1>5, <2>1, Zenon DEF Loops, Locking
  <2>5. Ending(p)'
    BY <1>1, <1>3, <1>5, <2>1, Zenon DEF Loops, Ending
  <2>6. Loops(p)'
    BY <2>2, <2>3, <2>4, <2>5, Zenon DEF Loops
  <2>7. Sound(p)'
    BY <1>1, <1>3, <1>5, <2>1, Zenon DEF Sound, NoneGivesUp, Loops, Ending
  <2>8. ReadPhase(p)' \in {ReadPhase(p), "dead"}
    BY <1>1, <1>3, <1>5, <2>1, Zenon DEF Loops, Asking, Ending, Busy, ReadPhase
  <2>9. SendPhase(p)' \in {SendPhase(p), "none"}
    BY <1>1, <1>3, <1>5, <2>1, Zenon DEF Loops, Exchanging, SendPhase
  <2> QED
    BY <1>3, <1>4, <1>5, <2>1, <2>6, <2>7, <2>8, <2>9, Quiet, Zenon DEF keyVars
<1>6. CASE /\ drain[p] = "run" /\ startKex[p] /\ ~writeError[p]
           /\ startKex' = [startKex EXCEPT ![p] = FALSE]
           /\ kexDone' = [kexDone EXCEPT ![p] = IF writeError[p] THEN "error" ELSE "ok"]
           /\ drain' = drain
  <2>1. /\ ~startKex'[p] /\ kexDone'[p] = "ok" /\ drain'[p] = drain[p]
    BY <1>1, <1>2, <1>3, <1>6, Zenon DEF Drain
  <2>2. Asking(p)'
    BY <1>1, <1>3, <1>6, <2>1, Zenon DEF Loops, Asking, Ending, Busy
  <2>3. Exchanging(p)'
    BY <1>1, <1>3, <1>6, <2>1, Zenon DEF Loops, Exchanging
  <2>4. Locking(p)'
    BY <1>1, <1>3, <1>6, <2>1, Zenon DEF Loops, Locking
  <2>5. Ending(p)'
    BY <1>1, <1>3, <1>6, <2>1, Zenon DEF Loops, Ending
  <2>6. Loops(p)'
    BY <2>2, <2>3, <2>4, <2>5, Zenon DEF Loops
  <2>7. Sound(p)'
    BY <1>1, <1>3, <1>6, <2>1, Zenon DEF Sound, NoneGivesUp, Loops, Ending
  <2>8. ReadPhase(p)' \in {ReadPhase(p), "dead"}
    BY <1>1, <1>3, <1>6, <2>1, Zenon DEF Loops, Asking, Ending, Busy, ReadPhase
  <2>9. SendPhase(p)' \in {SendPhase(p), "none"}
    BY <1>1, <1>3, <1>6, <2>1, Zenon DEF Loops, Exchanging, SendPhase
  <2> QED
    BY <1>3, <1>4, <1>6, <2>1, <2>6, <2>7, <2>8, <2>9, Quiet, Zenon DEF keyVars
<1>7. CASE /\ drain[p] = "run" /\ halted[p] /\ drain' = [drain EXCEPT ![p] = "end"]
           /\ startKex' = startKex /\ kexDone' = kexDone
  <2>1. /\ drain'[p] = "end" /\ startKex'[p] = startKex[p] /\ kexDone'[p] = kexDone[p]
    BY <1>1, <1>2, <1>3, <1>7, Zenon DEF Drain
  <2>2. Asking(p)'
    BY <1>1, <1>3, <1>7, <2>1, Zenon DEF Loops, Asking, Busy
  <2>3. Exchanging(p)'
    BY <1>1, <1>3, <1>7, <2>1, Zenon DEF Loops, Exchanging
  <2>4. Locking(p)'
    BY <1>1, <1>3, <1>7, <2>1, Zenon DEF Loops, Locking
  <2>5. Ending(p)'
    BY <1>1, <1>3, <1>7, <2>1, Zenon DEF Loops, Ending
  <2>6. Loops(p)'
    BY <2>2, <2>3, <2>4, <2>5, Zenon DEF Loops
  <2>7. Sound(p)'
    BY <1>1, <1>3, <1>7, <2>1, Zenon DEF Sound, NoneGivesUp
  <2>8. ReadPhase(p)' \in {ReadPhase(p), "dead"}
    BY <1>1, <1>3, <1>7, <2>1, Zenon DEF Loops, Asking, Busy, ReadPhase
  <2>9. SendPhase(p)' \in {SendPhase(p), "none"}
    BY <1>1, <1>3, <1>7, <2>1, Zenon DEF Loops, Exchanging, SendPhase
  <2> QED
    BY <1>3, <1>4, <1>7, <2>1, <2>6, <2>7, <2>8, <2>9, Quiet, Zenon DEF keyVars
<1> QED
  BY <1>2, <1>5, <1>6, <1>7, Zenon DEF Drain

\* An end that is told to stop gives up what it does.
LEMMA HaltStep == ASSUME StreamInv, NEW p \in Peer, Halt(p) PROVE Kept(p)
<1>1. TypeOK /\ Loops(p) /\ Sound(p)
  BY Zenon DEF StreamInv
<1>2. /\ halted \in [Peer -> BOOLEAN]
  BY <1>1, Zenon DEF TypeOK
<1>3. /\ use' = use /\ wire' = wire /\ rkey' = rkey /\ wkey' = wkey /\ (up' => up)
      /\ rpc'[p] = rpc[p] /\ startKex'[p] = startKex[p]
      /\ startClosed'[p] = startClosed[p] /\ kpc'[p] = kpc[p]
      /\ request'[p] = request[p] /\ kexDone'[p] = kexDone[p]
      /\ sentInit'[p] = sentInit[p] /\ writeError'[p] = writeError[p]
      /\ muHeld'[p] = muHeld[p] /\ pending'[p] = pending[p] /\ drain'[p] = drain[p]
      /\ rpend'[p] = rpend[p] /\ rkey'[p] = rkey[p] /\ wkey'[p] = wkey[p]
      /\ protoError'[p] = protoError[p]
  BY Zenon DEF Halt, keyVars, kexVars, readVars, userVars
<1>4. Same(Other(p))
  <2>1. halted'[Other(p)] = halted[Other(p)]
    BY <1>2, OtherPeer, Zenon DEF Halt
  <2> QED
    BY <2>1, Zenon DEF Same, Halt, keyVars, kexVars, readVars, userVars
<1>5. CASE /\ "halt" \in use.failures /\ halted' = [halted EXCEPT ![p] = TRUE]
  <2>1. /\ halted'[p]
    BY <1>1, <1>2, <1>3, <1>5, Zenon DEF Halt
  <2>2. Asking(p)'
    BY <1>1, <1>3, <1>5, <2>1, Zenon DEF Loops, Asking, Busy
  <2>3. Exchanging(p)'
    BY <1>1, <1>3, <1>5, <2>1, Zenon DEF Loops, Exchanging
  <2>4. Locking(p)'
    BY <1>1, <1>3, <1>5, <2>1, Zenon DEF Loops, Locking
  <2>5. Ending(p)'
    BY <1>1, <1>3, <1>5, <2>1, Zenon DEF Loops, Ending
  <2>6. Loops(p)'
    BY <2>2, <2>3, <2>4, <2>5, Zenon DEF Loops
  <2>7. Sound(p)'
    BY <1>1, <1>3, <1>5, <2>1, Zenon DEF Sound, NoneGivesUp
  <2>8. ReadPhase(p)' \in {ReadPhase(p), "dead"}
    BY <1>1, <1>3, <1>5, <2>1, Zenon DEF Loops, Asking, Busy, ReadPhase
  <2>9. SendPhase(p)' \in {SendPhase(p), "none"}
    BY <1>1, <1>3, <1>5, <2>1, Zenon DEF Loops, Exchanging, SendPhase
  <2> QED
    BY <1>3, <1>4, <1>5, <2>1, <2>6, <2>7, <2>8, <2>9, Quiet, Zenon DEF keyVars
<1> QED
  BY <1>2, <1>5, Zenon DEF Halt

\* Data is sent outside the exchange only.
LEMMA WritePacketStep == ASSUME StreamInv, NEW p \in Peer, WritePacket(p) PROVE Kept(p)
<1>1. TypeOK /\ Loops(p) /\ Sound(p)
  BY Zenon DEF StreamInv
<1>2. /\ writeError \in [Peer -> BOOLEAN] /\ pending \in [Peer -> Seq(Nat)]
  BY <1>1, Zenon DEF TypeOK
<1>3. /\ use' = use /\ rkey' = rkey /\ wkey' = wkey /\ (up' => up) /\ rpc'[p] = rpc[p]
      /\ startKex'[p] = startKex[p] /\ startClosed'[p] = startClosed[p]
      /\ kpc'[p] = kpc[p] /\ request'[p] = request[p] /\ kexDone'[p] = kexDone[p]
      /\ sentInit'[p] = sentInit[p] /\ muHeld'[p] = muHeld[p] /\ drain'[p] = drain[p]
      /\ rpend'[p] = rpend[p] /\ rkey'[p] = rkey[p] /\ wkey'[p] = wkey[p]
      /\ halted'[p] = halted[p] /\ protoError'[p] = protoError[p]
  BY Zenon DEF WritePacket, Push, Queue, Threshold, keyVars, kexVars, readVars, userVars
<1>4. Same(Other(p))
  <2>1. writeError'[Other(p)] = writeError[Other(p)]
    BY <1>2, OtherPeer, Zenon DEF WritePacket, Push, Queue, Threshold
  <2>2. pending'[Other(p)] = pending[Other(p)]
    BY <1>2, OtherPeer, Zenon DEF WritePacket, Push, Queue, Threshold
  <2> QED
    BY <2>1, <2>2, Zenon DEF Same, WritePacket, Push, Queue, Threshold, keyVars, kexVars,
       readVars, userVars
<1>0. written[p] + 1 \in Nat
  BY <1>1 DEF TypeOK
<1>5. CASE /\ wire' = wire /\ writeError' = writeError /\ pending' = pending
  <2>1. /\ writeError'[p] = writeError[p] /\ pending'[p] = pending[p] /\ wire' = wire
    BY <1>1, <1>2, <1>3, <1>5, Zenon DEF Push, Queue, Threshold
  <2>2. Asking(p)'
    BY <1>1, <1>3, <1>5, <2>1, Zenon DEF Loops, Asking, Busy
  <2>3. Exchanging(p)'
    BY <1>1, <1>3, <1>5, <2>1, Zenon DEF Loops, Exchanging
  <2>4. Locking(p)'
    BY <1>1, <1>3, <1>5, <2>1, Zenon DEF Loops, Locking
  <2>5. Ending(p)'
    BY <1>1, <1>3, <1>5, <2>1, Zenon DEF Loops, Ending
  <2>6. Loops(p)'
    BY <2>2, <2>3, <2>4, <2>5, Zenon DEF Loops
  <2>7. Sound(p)'
    BY <1>1, <1>3, <1>5, <2>1, Zenon DEF Sound, NoneGivesUp
  <2>8. ReadPhase(p)' \in {ReadPhase(p), "dead"}
    BY <1>1, <1>3, <1>5, <2>1, Zenon DEF Loops, Asking, Busy, ReadPhase
  <2>9. SendPhase(p)' \in {SendPhase(p), "none"}
    BY <1>1, <1>3, <1>5, <2>1, Zenon DEF Loops, Exchanging, SendPhase
  <2> QED
    BY <1>3, <1>4, <1>5, <2>1, <2>6, <2>7, <2>8, <2>9, Quiet, Zenon DEF keyVars
<1>6. CASE /\ ~muHeld[p] /\ sentInit[p] /\ Queue(p, written[p] + 1)
  <2>1. /\ wire' = wire /\ writeError'[p] = writeError[p]
    BY <1>1, <1>2, <1>3, <1>6, Zenon DEF Push, Queue, Threshold
  <2>2. Asking(p)'
    BY <1>1, <1>3, <1>6, <2>1, Zenon DEF Loops, Asking, Busy
  <2>3. Exchanging(p)'
    BY <1>1, <1>3, <1>6, <2>1, Zenon DEF Loops, Exchanging
  <2>4. Locking(p)'
    BY <1>1, <1>3, <1>6, <2>1, Zenon DEF Loops, Locking
  <2>5. Ending(p)'
    BY <1>1, <1>3, <1>6, <2>1, Zenon DEF Loops, Ending
  <2>6. Loops(p)'
    BY <2>2, <2>3, <2>4, <2>5, Zenon DEF Loops
  <2>7. Sound(p)'
    BY <1>1, <1>3, <1>6, <2>1, Zenon DEF Sound, NoneGivesUp
  <2>8. ReadPhase(p)' \in {ReadPhase(p), "dead"}
    BY <1>1, <1>3, <1>6, <2>1, Zenon DEF Loops, Asking, Busy, ReadPhase
  <2>9. SendPhase(p)' \in {SendPhase(p), "none"}
    BY <1>1, <1>3, <1>6, <2>1, Zenon DEF Loops, Exchanging, SendPhase
  <2> QED
    BY <1>3, <1>4, <1>6, <2>1, <2>6, <2>7, <2>8, <2>9, Quiet, Zenon DEF keyVars
<1>7. CASE /\ ~muHeld[p] /\ ~sentInit[p] /\ ~writeError[p] /\ up
           /\ Push(p, written[p] + 1)
  <2>1. /\ ~writeError'[p] /\ up
        /\ wire' = Sent(wire, p, <<Encrypted(p, "data", written[p] + 1)>>)
        /\ pending'[p] = pending[p]
    BY <1>1, <1>2, <1>3, <1>7, Zenon DEF Push, Queue, Threshold
  <2>2. Asking(p)'
    BY <1>1, <1>3, <1>7, <2>1, Zenon DEF Loops, Asking, Busy
  <2>3. Exchanging(p)'
    BY <1>1, <1>3, <1>7, <2>1, Zenon DEF Loops, Exchanging
  <2>4. Locking(p)'
    BY <1>1, <1>3, <1>7, <2>1, Zenon DEF Loops, Locking
  <2>5. Ending(p)'
    BY <1>1, <1>3, <1>7, <2>1, Zenon DEF Loops, Ending
  <2>6. Loops(p)'
    BY <2>2, <2>3, <2>4, <2>5, Zenon DEF Loops
  <2>7. Sound(p)'
    BY <1>1, <1>3, <1>7, <2>1, Zenon DEF Sound, NoneGivesUp
  <2>8. ReadPhase(p)' \in {ReadPhase(p), "dead"}
    BY <1>1, <1>3, <1>7, <2>1, Zenon DEF Loops, Asking, Locking, Busy, ReadPhase
  <2>9. SendsIn(p, "data")
    BY <1>1, <1>3, <1>7, <2>1, Zenon DEF Loops, Exchanging, SendPhase, SendsIn
  <2> QED
    BY <1>3, <1>4, <2>1, <2>6, <2>7, <2>8, <2>9, <1>0, OneSent, Zenon
<1>8. CASE /\ ~muHeld[p] /\ ~sentInit[p] /\ ~writeError[p] /\ ~up
           /\ Push(p, written[p] + 1)
  <2>1. /\ writeError'[p] /\ wire' = wire /\ ~up' /\ pending'[p] = pending[p]
    BY <1>1, <1>2, <1>3, <1>8, Zenon DEF Push, Queue, Threshold, Sent
  <2>2. Asking(p)'
    BY <1>1, <1>3, <1>8, <2>1, Zenon DEF Loops, Asking, Busy
  <2>3. Exchanging(p)'
    BY <1>1, <1>3, <1>8, <2>1, Zenon DEF Loops, Exchanging
  <2>4. Locking(p)'
    BY <1>1, <1>3, <1>8, <2>1, Zenon DEF Loops, Locking
  <2>5. Ending(p)'
    BY <1>1, <1>3, <1>8, <2>1, Zenon DEF Loops, Ending
  <2>6. Loops(p)'
    BY <2>2, <2>3, <2>4, <2>5, Zenon DEF Loops
  <2>7. Sound(p)'
    BY <1>1, <1>3, <1>8, <2>1, Zenon DEF Sound, NoneGivesUp
  <2>8. ReadPhase(p)' \in {ReadPhase(p), "dead"}
    BY <1>1, <1>3, <1>8, <2>1, Zenon DEF Loops, Asking, Locking, Busy, ReadPhase
  <2>9. SendPhase(p)' \in {SendPhase(p), "none"}
    BY <1>1, <1>3, <1>8, <2>1, Zenon DEF Loops, Exchanging, SendPhase
  <2> QED
    BY <1>3, <1>4, <1>8, <2>1, <2>6, <2>7, <2>8, <2>9, Quiet, Zenon DEF keyVars
<1> QED
  BY <1>2, <1>5, <1>6, <1>7, <1>8, Zenon DEF WritePacket

\* sendKexInit opens the exchange of its end.
LEMMA SelectStep == ASSUME StreamInv, NEW p \in Peer, Select(p) PROVE Kept(p)
<1>1. TypeOK /\ Loops(p) /\ Sound(p)
  BY Zenon DEF StreamInv
<1>2. /\ kpc \in [Peer -> {"top", "select", "check", "kex1", "kex2", "kex3", "locked", "flush", "end"}]
      /\ request \in [Peer -> BOOLEAN] /\ sentInit \in [Peer -> BOOLEAN]
      /\ writeError \in [Peer -> BOOLEAN] /\ startKex \in [Peer -> BOOLEAN]
      /\ drain \in [Peer -> {"no", "run", "end"}]
  BY <1>1, Zenon DEF TypeOK
<1>3. /\ use' = use /\ rkey' = rkey /\ wkey' = wkey /\ rpc'[p] = rpc[p]
      /\ startClosed'[p] = startClosed[p] /\ kexDone'[p] = kexDone[p]
      /\ muHeld'[p] = muHeld[p] /\ pending'[p] = pending[p] /\ rpend'[p] = rpend[p]
      /\ rkey'[p] = rkey[p] /\ wkey'[p] = wkey[p] /\ halted'[p] = halted[p]
      /\ protoError'[p] = protoError[p]
  BY Zenon DEF Select, SendKexInit, LeaveLoop, KGoto, keyVars, kexVars, readVars, userVars
<1>4. Same(Other(p))
  <2>1. kpc'[Other(p)] = kpc[Other(p)]
    BY <1>2, OtherPeer, Zenon DEF Select, SendKexInit, LeaveLoop, KGoto
  <2>2. request'[Other(p)] = request[Other(p)]
    BY <1>2, OtherPeer, Zenon DEF Select, SendKexInit, LeaveLoop, KGoto
  <2>3. sentInit'[Other(p)] = sentInit[Other(p)]
    BY <1>2, OtherPeer, Zenon DEF Select, SendKexInit, LeaveLoop, KGoto
  <2>4. writeError'[Other(p)] = writeError[Other(p)]
    BY <1>2, OtherPeer, Zenon DEF Select, SendKexInit, LeaveLoop, KGoto
  <2>5. startKex'[Other(p)] = startKex[Other(p)]
    BY <1>2, OtherPeer, Zenon DEF Select, SendKexInit, LeaveLoop, KGoto
  <2>6. drain'[Other(p)] = drain[Other(p)]
    BY <1>2, OtherPeer, Zenon DEF Select, SendKexInit, LeaveLoop, KGoto
  <2> QED
    BY <2>1, <2>2, <2>3, <2>4, <2>5, <2>6, Zenon DEF Same, Select, SendKexInit, LeaveLoop,
       KGoto, keyVars, kexVars, readVars, userVars
<1>0. 0 \in Nat
  OBVIOUS
<1>5. CASE /\ kpc[p] = "select" /\ startKex[p]
           /\ startKex' = [startKex EXCEPT ![p] = FALSE] /\ SendKexInit(p, TRUE)
           /\ drain' = drain /\ up' = up /\ sentInit[p]
  <2>1. /\ ~startKex'[p] /\ kpc'[p] = "check" /\ request'[p] /\ sentInit'[p]
        /\ writeError'[p] = writeError[p] /\ wire' = wire /\ (up' => up)
        /\ drain'[p] = drain[p]
    BY <1>1, <1>2, <1>3, <1>5, Zenon DEF SendKexInit, LeaveLoop, KGoto, Exchanging, Loops
  <2>2. Asking(p)'
    BY <1>1, <1>3, <1>5, <2>1, Zenon DEF Loops, Asking, Busy
  <2>3. Exchanging(p)'
    BY <1>1, <1>3, <1>5, <2>1, Zenon DEF Loops, Exchanging
  <2>4. Locking(p)'
    BY <1>1, <1>3, <1>5, <2>1, Zenon DEF Loops, Locking
  <2>5. Ending(p)'
    BY <1>1, <1>3, <1>5, <2>1, Zenon DEF Loops, Ending
  <2>6. Loops(p)'
    BY <2>2, <2>3, <2>4, <2>5, Zenon DEF Loops
  <2>7. Sound(p)'
    BY <1>1, <1>3, <1>5, <2>1, Zenon DEF Sound, NoneGivesUp
  <2>8. ReadPhase(p)' \in {ReadPhase(p), "dead"}
    BY <1>1, <1>3, <1>5, <2>1, Zenon DEF Loops, Asking, Busy, ReadPhase
  <2>9. SendPhase(p)' \in {SendPhase(p), "none"}
    BY <1>1, <1>3, <1>5, <2>1, Zenon DEF Loops, Exchanging, SendPhase
  <2> QED
    BY <1>3, <1>4, <1>5, <2>1, <2>6, <2>7, <2>8, <2>9, Quiet, Zenon DEF keyVars
<1>6. CASE /\ kpc[p] = "select" /\ startKex[p]
           /\ startKex' = [startKex EXCEPT ![p] = FALSE] /\ SendKexInit(p, TRUE)
           /\ drain' = drain /\ up' = up /\ ~sentInit[p] /\ up
  <2>1. /\ ~startKex'[p] /\ kpc'[p] = "check" /\ request'[p] /\ sentInit'[p]
        /\ writeError'[p] = writeError[p]
        /\ wire' = Sent(wire, p, <<Encrypted(p, "kexInit", 0)>>) /\ up /\ (up' => up)
        /\ drain'[p] = drain[p]
    BY <1>1, <1>2, <1>3, <1>6, Zenon DEF SendKexInit, LeaveLoop, KGoto, Exchanging, Loops
  <2>2. Asking(p)'
    BY <1>1, <1>3, <1>6, <2>1, Zenon DEF Loops, Asking, Busy
  <2>3. Exchanging(p)'
    BY <1>1, <1>3, <1>6, <2>1, Zenon DEF Loops, Exchanging
  <2>4. Locking(p)'
    BY <1>1, <1>3, <1>6, <2>1, Zenon DEF Loops, Locking
  <2>5. Ending(p)'
    BY <1>1, <1>3, <1>6, <2>1, Zenon DEF Loops, Ending
  <2>6. Loops(p)'
    BY <2>2, <2>3, <2>4, <2>5, Zenon DEF Loops
  <2>7. Sound(p)'
    BY <1>1, <1>3, <1>6, <2>1, Zenon DEF Sound, NoneGivesUp
  <2>8. ReadPhase(p)' \in {ReadPhase(p), "dead"}
    BY <1>1, <1>3, <1>6, <2>1, Zenon DEF Loops, Asking, Busy, ReadPhase
  <2>9. SendsIn(p, "kexInit")
    BY <1>1, <1>3, <1>6, <2>1, Zenon DEF Loops, Exchanging, SendPhase, SendsIn
  <2> QED
    BY <1>3, <1>4, <2>1, <2>6, <2>7, <2>8, <2>9, <1>0, OneSent, Zenon
<1>7. CASE /\ kpc[p] = "select" /\ startKex[p]
           /\ startKex' = [startKex EXCEPT ![p] = FALSE] /\ SendKexInit(p, TRUE)
           /\ drain' = drain /\ up' = up /\ ~sentInit[p] /\ ~up
  <2>1. /\ ~startKex'[p] /\ kpc'[p] = "check" /\ request'[p] /\ ~sentInit'[p]
        /\ writeError'[p] /\ wire' = wire /\ ~up' /\ drain'[p] = drain[p]
    BY <1>1, <1>2, <1>3, <1>7, Zenon DEF SendKexInit, LeaveLoop, KGoto, Exchanging, Loops, Sent
  <2>2. Asking(p)'
    BY <1>1, <1>3, <1>7, <2>1, Zenon DEF Loops, Asking, Busy
  <2>3. Exchanging(p)'
    BY <1>1, <1>3, <1>7, <2>1, Zenon DEF Loops, Exchanging
  <2>4. Locking(p)'
    BY <1>1, <1>3, <1>7, <2>1, Zenon DEF Loops, Locking
  <2>5. Ending(p)'
    BY <1>1, <1>3, <1>7, <2>1, Zenon DEF Loops, Ending
  <2>6. Loops(p)'
    BY <2>2, <2>3, <2>4, <2>5, Zenon DEF Loops
  <2>7. Sound(p)'
    BY <1>1, <1>3, <1>7, <2>1, Zenon DEF Sound, NoneGivesUp
  <2>8. ReadPhase(p)' \in {ReadPhase(p), "dead"}
    BY <1>1, <1>3, <1>7, <2>1, Zenon DEF Loops, Asking, Busy, ReadPhase
  <2>9. SendPhase(p)' \in {SendPhase(p), "none"}
    BY <1>1, <1>3, <1>7, <2>1, Zenon DEF Loops, Exchanging, SendPhase
  <2> QED
    BY <1>3, <1>4, <1>7, <2>1, <2>6, <2>7, <2>8, <2>9, Quiet, Zenon DEF keyVars
<1>8. CASE /\ kpc[p] = "select" /\ startKex' = startKex /\ SendKexInit(p, request[p])
           /\ drain' = drain /\ up' = up /\ sentInit[p]
  <2>1. /\ startKex'[p] = startKex[p] /\ kpc'[p] = "select" /\ ~request'[p]
        /\ sentInit'[p] /\ writeError'[p] = writeError[p] /\ wire' = wire /\ (up' => up)
        /\ drain'[p] = drain[p]
    BY <1>1, <1>2, <1>3, <1>8, Zenon DEF SendKexInit, LeaveLoop, KGoto, Exchanging, Loops
  <2>2. Asking(p)'
    BY <1>1, <1>3, <1>8, <2>1, Zenon DEF Loops, Asking, Busy
  <2>3. Exchanging(p)'
    BY <1>1, <1>3, <1>8, <2>1, Zenon DEF Loops, Exchanging
  <2>4. Locking(p)'
    BY <1>1, <1>3, <1>8, <2>1, Zenon DEF Loops, Locking
  <2>5. Ending(p)'
    BY <1>1, <1>3, <1>8, <2>1, Zenon DEF Loops, Ending
  <2>6. Loops(p)'
    BY <2>2, <2>3, <2>4, <2>5, Zenon DEF Loops
  <2>7. Sound(p)'
    BY <1>1, <1>3, <1>8, <2>1, Zenon DEF Sound, NoneGivesUp
  <2>8. ReadPhase(p)' \in {ReadPhase(p), "dead"}
    BY <1>1, <1>3, <1>8, <2>1, Zenon DEF Loops, Asking, Busy, ReadPhase
  <2>9. SendPhase(p)' \in {SendPhase(p), "none"}
    BY <1>1, <1>3, <1>8, <2>1, Zenon DEF Loops, Exchanging, SendPhase
  <2> QED
    BY <1>3, <1>4, <1>8, <2>1, <2>6, <2>7, <2>8, <2>9, Quiet, Zenon DEF keyVars
<1>9. CASE /\ kpc[p] = "select" /\ startKex' = startKex /\ SendKexInit(p, request[p])
           /\ drain' = drain /\ up' = up /\ ~sentInit[p] /\ up
  <2>1. /\ startKex'[p] = startKex[p] /\ kpc'[p] = "select" /\ ~request'[p]
        /\ sentInit'[p] /\ writeError'[p] = writeError[p]
        /\ wire' = Sent(wire, p, <<Encrypted(p, "kexInit", 0)>>) /\ up /\ (up' => up)
        /\ drain'[p] = drain[p]
    BY <1>1, <1>2, <1>3, <1>9, Zenon DEF SendKexInit, LeaveLoop, KGoto, Exchanging, Loops
  <2>2. Asking(p)'
    BY <1>1, <1>3, <1>9, <2>1, Zenon DEF Loops, Asking, Busy
  <2>3. Exchanging(p)'
    BY <1>1, <1>3, <1>9, <2>1, Zenon DEF Loops, Exchanging
  <2>4. Locking(p)'
    BY <1>1, <1>3, <1>9, <2>1, Zenon DEF Loops, Locking
  <2>5. Ending(p)'
    BY <1>1, <1>3, <1>9, <2>1, Zenon DEF Loops, Ending
  <2>6. Loops(p)'
    BY <2>2, <2>3, <2>4, <2>5, Zenon DEF Loops
  <2>7. Sound(p)'
    BY <1>1, <1>3, <1>9, <2>1, Zenon DEF Sound, NoneGivesUp
  <2>8. ReadPhase(p)' \in {ReadPhase(p), "dead"}
    BY <1>1, <1>3, <1>9, <2>1, Zenon DEF Loops, Asking, Busy, ReadPhase
  <2>9. SendsIn(p, "kexInit")
    BY <1>1, <1>3, <1>9, <2>1, Zenon DEF Loops, Exchanging, SendPhase, SendsIn
  <2> QED
    BY <1>3, <1>4, <2>1, <2>6, <2>7, <2>8, <2>9, <1>0, OneSent, Zenon
<1>10. CASE /\ kpc[p] = "select" /\ startKex' = startKex /\ SendKexInit(p, request[p])
           /\ drain' = drain /\ up' = up /\ ~sentInit[p] /\ ~up
  <2>1. /\ startKex'[p] = startKex[p] /\ kpc'[p] = "check" /\ ~request'[p]
        /\ ~sentInit'[p] /\ writeError'[p] /\ wire' = wire /\ ~up'
        /\ drain'[p] = drain[p]
    BY <1>1, <1>2, <1>3, <1>10, Zenon DEF SendKexInit, LeaveLoop, KGoto, Exchanging, Loops, Sent
  <2>2. Asking(p)'
    BY <1>1, <1>3, <1>10, <2>1, Zenon DEF Loops, Asking, Busy
  <2>3. Exchanging(p)'
    BY <1>1, <1>3, <1>10, <2>1, Zenon DEF Loops, Exchanging
  <2>4. Locking(p)'
    BY <1>1, <1>3, <1>10, <2>1, Zenon DEF Loops, Locking
  <2>5. Ending(p)'
    BY <1>1, <1>3, <1>10, <2>1, Zenon DEF Loops, Ending
  <2>6. Loops(p)'
    BY <2>2, <2>3, <2>4, <2>5, Zenon DEF Loops
  <2>7. Sound(p)'
    BY <1>1, <1>3, <1>10, <2>1, Zenon DEF Sound, NoneGivesUp
  <2>8. ReadPhase(p)' \in {ReadPhase(p), "dead"}
    BY <1>1, <1>3, <1>10, <2>1, Zenon DEF Loops, Asking, Busy, ReadPhase
  <2>9. SendPhase(p)' \in {SendPhase(p), "none"}
    BY <1>1, <1>3, <1>10, <2>1, Zenon DEF Loops, Exchanging, SendPhase
  <2> QED
    BY <1>3, <1>4, <1>10, <2>1, <2>6, <2>7, <2>8, <2>9, Quiet, Zenon DEF keyVars
<1>11. CASE /\ kpc[p] = "select" /\ startClosed[p] /\ ~startKex[p] /\ LeaveLoop(p)
           /\ wire' = wire /\ writeError' = writeError /\ sentInit' = sentInit
           /\ request' = request /\ startKex' = startKex
  <2>1. /\ kpc'[p] = "end" /\ drain'[p] = "run" /\ wire' = wire /\ ~up'
        /\ request'[p] = request[p] /\ sentInit'[p] = sentInit[p]
        /\ writeError'[p] = writeError[p] /\ startKex'[p] = startKex[p]
    BY <1>1, <1>2, <1>3, <1>11, Zenon DEF SendKexInit, LeaveLoop, KGoto
  <2>2. Asking(p)'
    BY <1>1, <1>3, <1>11, <2>1, Zenon DEF Loops, Asking, Busy
  <2>3. Exchanging(p)'
    BY <1>1, <1>3, <1>11, <2>1, Zenon DEF Loops, Exchanging
  <2>4. Locking(p)'
    BY <1>1, <1>3, <1>11, <2>1, Zenon DEF Loops, Locking
  <2>5. Ending(p)'
    BY <1>1, <1>3, <1>11, <2>1, Zenon DEF Loops, Ending
  <2>6. Loops(p)'
    BY <2>2, <2>3, <2>4, <2>5, Zenon DEF Loops
  <2>7. Sound(p)'
    BY <1>1, <1>3, <1>11, <2>1, Zenon DEF Sound, NoneGivesUp
  <2>8. ReadPhase(p)' \in {ReadPhase(p), "dead"}
    BY <1>1, <1>3, <1>11, <2>1, Zenon DEF Loops, Asking, Busy, ReadPhase
  <2>9. SendPhase(p)' \in {SendPhase(p), "none"}
    BY <1>1, <1>3, <1>11, <2>1, Zenon DEF Loops, Exchanging, SendPhase
  <2> QED
    BY <1>3, <1>4, <1>11, <2>1, <2>6, <2>7, <2>8, <2>9, Quiet, Zenon DEF keyVars
<1>12. CASE /\ kpc[p] = "select" /\ halted[p] /\ KGoto(p, "end") /\ wire' = wire
           /\ writeError' = writeError /\ sentInit' = sentInit /\ request' = request
           /\ startKex' = startKex /\ drain' = drain /\ up' = up
  <2>1. /\ kpc'[p] = "end" /\ wire' = wire /\ (up' => up) /\ request'[p] = request[p]
        /\ sentInit'[p] = sentInit[p] /\ writeError'[p] = writeError[p]
        /\ startKex'[p] = startKex[p] /\ drain'[p] = drain[p]
    BY <1>1, <1>2, <1>3, <1>12, Zenon DEF SendKexInit, LeaveLoop, KGoto
  <2>2. Asking(p)'
    BY <1>1, <1>3, <1>12, <2>1, Zenon DEF Loops, Asking, Busy
  <2>3. Exchanging(p)'
    BY <1>1, <1>3, <1>12, <2>1, Zenon DEF Loops, Exchanging
  <2>4. Locking(p)'
    BY <1>1, <1>3, <1>12, <2>1, Zenon DEF Loops, Locking
  <2>5. Ending(p)'
    BY <1>1, <1>3, <1>12, <2>1, Zenon DEF Loops, Ending
  <2>6. Loops(p)'
    BY <2>2, <2>3, <2>4, <2>5, Zenon DEF Loops
  <2>7. Sound(p)'
    BY <1>1, <1>3, <1>12, <2>1, Zenon DEF Sound, NoneGivesUp
  <2>8. ReadPhase(p)' \in {ReadPhase(p), "dead"}
    BY <1>1, <1>3, <1>12, <2>1, Zenon DEF Loops, Asking, Busy, ReadPhase
  <2>9. SendPhase(p)' \in {SendPhase(p), "none"}
    BY <1>1, <1>3, <1>12, <2>1, Zenon DEF Loops, Exchanging, SendPhase
  <2> QED
    BY <1>3, <1>4, <1>12, <2>1, <2>6, <2>7, <2>8, <2>9, Quiet, Zenon DEF keyVars
<1> QED
  BY <1>2, <1>5, <1>6, <1>7, <1>8, <1>9, <1>10, <1>11, <1>12, Zenon DEF Select

\* The client sends its message of the exchange.
LEMMA ClientKexStep == ASSUME StreamInv, NEW p \in Peer, ClientKex(p) PROVE Kept(p)
<1>1. TypeOK /\ Loops(p) /\ Sound(p)
  BY Zenon DEF StreamInv
<1>2. /\ kpc \in [Peer -> {"top", "select", "check", "kex1", "kex2", "kex3", "locked", "flush", "end"}]
      /\ sentInit \in [Peer -> BOOLEAN] /\ writeError \in [Peer -> BOOLEAN]
      /\ muHeld \in [Peer -> BOOLEAN]
  BY <1>1, Zenon DEF TypeOK
<1>3. /\ use' = use /\ rkey' = rkey /\ wkey' = wkey /\ (up' => up) /\ rpc'[p] = rpc[p]
      /\ startKex'[p] = startKex[p] /\ startClosed'[p] = startClosed[p]
      /\ request'[p] = request[p] /\ kexDone'[p] = kexDone[p]
      /\ pending'[p] = pending[p] /\ drain'[p] = drain[p] /\ rpend'[p] = rpend[p]
      /\ rkey'[p] = rkey[p] /\ wkey'[p] = wkey[p] /\ halted'[p] = halted[p]
      /\ protoError'[p] = protoError[p]
  BY Zenon DEF ClientKex, Finish, Continue, KGoto, keyVars, kexVars, readVars, userVars
<1>4. Same(Other(p))
  <2>1. kpc'[Other(p)] = kpc[Other(p)]
    BY <1>2, OtherPeer, Zenon DEF ClientKex, Finish, Continue, KGoto
  <2>2. sentInit'[Other(p)] = sentInit[Other(p)]
    BY <1>2, OtherPeer, Zenon DEF ClientKex, Finish, Continue, KGoto
  <2>3. writeError'[Other(p)] = writeError[Other(p)]
    BY <1>2, OtherPeer, Zenon DEF ClientKex, Finish, Continue, KGoto
  <2>4. muHeld'[Other(p)] = muHeld[Other(p)]
    BY <1>2, OtherPeer, Zenon DEF ClientKex, Finish, Continue, KGoto
  <2> QED
    BY <2>1, <2>2, <2>3, <2>4, Zenon DEF Same, ClientKex, Finish, Continue, KGoto, keyVars,
       kexVars, readVars, userVars
<1>0. 0 \in Nat
  OBVIOUS
<1>5. CASE /\ kpc[p] = "kex1" /\ p = "client" /\ up
           /\ wire' = Sent(wire, p, <<Encrypted(p, "kex", 0)>>) /\ Continue(p, "kex2")
  <2>1. /\ kpc'[p] = "kex2" /\ up /\ wire' = Sent(wire, p, <<Encrypted(p, "kex", 0)>>)
        /\ sentInit'[p] = sentInit[p] /\ writeError'[p] = writeError[p]
        /\ muHeld'[p] = muHeld[p]
    BY <1>1, <1>2, <1>3, <1>5, Zenon DEF Finish, Continue, KGoto
  <2>2. Asking(p)'
    BY <1>1, <1>3, <1>5, <2>1, Zenon DEF Loops, Asking, Busy
  <2>3. Exchanging(p)'
    BY <1>1, <1>3, <1>5, <2>1, Zenon DEF Loops, Exchanging
  <2>4. Locking(p)'
    BY <1>1, <1>3, <1>5, <2>1, Zenon DEF Loops, Locking
  <2>5. Ending(p)'
    BY <1>1, <1>3, <1>5, <2>1, Zenon DEF Loops, Ending
  <2>6. Loops(p)'
    BY <2>2, <2>3, <2>4, <2>5, Zenon DEF Loops
  <2>7. Sound(p)'
    BY <1>1, <1>3, <1>5, <2>1, Zenon DEF Sound, NoneGivesUp
  <2>8. ReadPhase(p)' \in {ReadPhase(p), "dead"}
    BY <1>1, <1>3, <1>5, <2>1, Zenon DEF Loops, Asking, Busy, ReadPhase
  <2>9. SendsIn(p, "kex")
    BY <1>1, <1>3, <1>5, <2>1, Zenon DEF Loops, Exchanging, SendPhase, SendsIn
  <2> QED
    BY <1>3, <1>4, <2>1, <2>6, <2>7, <2>8, <2>9, <1>0, OneSent, Zenon
<1>6. CASE /\ kpc[p] = "kex1" /\ ~up
           /\ wire' = Sent(wire, p, <<Encrypted(p, "kex", 0)>>) /\ Finish(p, TRUE)
  <2>1. /\ kpc'[p] = "locked" /\ ~sentInit'[p] /\ writeError'[p] /\ muHeld'[p]
        /\ wire' = wire /\ ~up'
    BY <1>1, <1>2, <1>3, <1>6, Zenon DEF Finish, Continue, KGoto, Sent
  <2>2. Asking(p)'
    BY <1>1, <1>3, <1>6, <2>1, Zenon DEF Loops, Asking, Busy
  <2>3. Exchanging(p)'
    BY <1>1, <1>3, <1>6, <2>1, Zenon DEF Loops, Exchanging
  <2>4. Locking(p)'
    BY <1>1, <1>3, <1>6, <2>1, Zenon DEF Loops, Locking
  <2>5. Ending(p)'
    BY <1>1, <1>3, <1>6, <2>1, Zenon DEF Loops, Ending
  <2>6. Loops(p)'
    BY <2>2, <2>3, <2>4, <2>5, Zenon DEF Loops
  <2>7. Sound(p)'
    BY <1>1, <1>3, <1>6, <2>1, Zenon DEF Sound, NoneGivesUp
  <2>8. ReadPhase(p)' \in {ReadPhase(p), "dead"}
    BY <1>1, <1>3, <1>6, <2>1, Zenon DEF Loops, Asking, Busy, ReadPhase
  <2>9. ~up'
    BY <1>1, <1>3, <1>6, <2>1, Zenon DEF Loops, Exchanging, SendPhase
  <2> QED
    BY <1>3, <1>4, <1>6, <2>1, <2>6, <2>7, <2>8, <2>9, Quiet, Zenon DEF keyVars
<1>7. CASE /\ kpc[p] = "kex1" /\ p # "client" /\ wire' = wire /\ Continue(p, "kex2")
  <2>1. /\ kpc'[p] = "kex2" /\ sentInit'[p] = sentInit[p]
        /\ writeError'[p] = writeError[p] /\ muHeld'[p] = muHeld[p]
    BY <1>1, <1>2, <1>3, <1>7, Zenon DEF Finish, Continue, KGoto
  <2>2. Asking(p)'
    BY <1>1, <1>3, <1>7, <2>1, Zenon DEF Loops, Asking, Busy
  <2>3. Exchanging(p)'
    BY <1>1, <1>3, <1>7, <2>1, Zenon DEF Loops, Exchanging
  <2>4. Locking(p)'
    BY <1>1, <1>3, <1>7, <2>1, Zenon DEF Loops, Locking
  <2>5. Ending(p)'
    BY <1>1, <1>3, <1>7, <2>1, Zenon DEF Loops, Ending
  <2>6. Loops(p)'
    BY <2>2, <2>3, <2>4, <2>5, Zenon DEF Loops
  <2>7. Sound(p)'
    BY <1>1, <1>3, <1>7, <2>1, Zenon DEF Sound, NoneGivesUp
  <2>8. ReadPhase(p)' \in {ReadPhase(p), "dead"}
    BY <1>1, <1>3, <1>7, <2>1, Zenon DEF Loops, Asking, Busy, ReadPhase
  <2>9. SendPhase(p)' \in {SendPhase(p), "none"}
    BY <1>1, <1>3, <1>7, <2>1, Zenon DEF Loops, Exchanging, SendPhase
  <2> QED
    BY <1>3, <1>4, <1>7, <2>1, <2>6, <2>7, <2>8, <2>9, Quiet, Zenon DEF keyVars
<1> QED
  BY <1>2, <1>5, <1>6, <1>7, Zenon DEF ClientKex

\* readOnePacket decrypts with the key the packet was encrypted with.
LEMMA ReadOnePacketStep == ASSUME StreamInv, NEW p \in Peer, ReadOnePacket(p) PROVE Kept(p)
<1>1. TypeOK /\ Loops(p) /\ Sound(p)
  BY Zenon DEF StreamInv
<1>2. /\ rpc \in [Peer -> {"read", "deliver", "offer", "kexWait", "fail", "record", "end"}]
      /\ protoError \in [Peer -> BOOLEAN]
  BY <1>1, Zenon DEF TypeOK
<1>3. /\ use' = use /\ wkey' = wkey /\ up' = up /\ (up' => up) /\ rkey' = rkey
      /\ startKex'[p] = startKex[p] /\ startClosed'[p] = startClosed[p]
      /\ kpc'[p] = kpc[p] /\ request'[p] = request[p] /\ kexDone'[p] = kexDone[p]
      /\ sentInit'[p] = sentInit[p] /\ writeError'[p] = writeError[p]
      /\ muHeld'[p] = muHeld[p] /\ pending'[p] = pending[p] /\ drain'[p] = drain[p]
      /\ rpend'[p] = rpend[p] /\ rkey'[p] = rkey[p] /\ wkey'[p] = wkey[p]
      /\ halted'[p] = halted[p]
  BY Zenon DEF ReadOnePacket, ReadFails, Threshold, keyVars, kexVars, readVars, userVars
<1>4. Same(Other(p))
  <2>1. rpc'[Other(p)] = rpc[Other(p)]
    BY <1>2, OtherPeer, Zenon DEF ReadOnePacket, ReadFails, Threshold
  <2>2. protoError'[Other(p)] = protoError[Other(p)]
    BY <1>2, OtherPeer, Zenon DEF ReadOnePacket, ReadFails, Threshold
  <2> QED
    BY <2>1, <2>2, Zenon DEF Same, ReadOnePacket, ReadFails, Threshold, keyVars, kexVars,
       readVars, userVars
<1>phase. ReadPhase(p) = "open"
  BY <1>1, Zenon DEF ReadOnePacket, Loops, Asking, Busy, ReadPhase
<1>head. Arrived(p) => Readable(p) /\ Pkt(p).type \in {"kexInit", "data"}
  BY <1>phase, HeadFits, Zenon DEF Fits
<1>5. CASE /\ rpc[p] = "read" /\ Arrived(p) /\ wire' = Took(p)
           /\ protoError' = protoError /\ Pkt(p).type = "kexInit"
           /\ rpc' = [rpc EXCEPT ![p] = IF Pkt(p).type = "kexInit" THEN "offer" ELSE "deliver"]
  <2>1. /\ rpc'[p] = "offer" /\ protoError'[p] = protoError[p]
    BY <1>1, <1>2, <1>3, <1>5, Zenon DEF ReadFails, Threshold
  <2>2. Asking(p)'
    BY <1>1, <1>3, <1>5, <2>1, Zenon DEF Loops, Asking, Busy
  <2>3. Exchanging(p)'
    BY <1>1, <1>3, <1>5, <2>1, Zenon DEF Loops, Exchanging
  <2>4. Locking(p)'
    BY <1>1, <1>3, <1>5, <2>1, Zenon DEF Loops, Locking
  <2>5. Ending(p)'
    BY <1>1, <1>3, <1>5, <2>1, Zenon DEF Loops, Ending
  <2>6. Loops(p)'
    BY <2>2, <2>3, <2>4, <2>5, Zenon DEF Loops
  <2>7. Sound(p)'
    BY <1>1, <1>3, <1>5, <2>1, Zenon DEF Sound, NoneGivesUp
  <2>8. ReadPhase(p)' \in {PhaseAfter(Pkt(p)), "dead"}
    BY <1>1, <1>3, <1>5, <2>1, <1>head, Zenon DEF Loops, Asking, Busy, ReadPhase, PhaseAfter
  <2>9. SendPhase(p)' \in {SendPhase(p), "none"}
    BY <1>1, <1>3, <1>5, <2>1, Zenon DEF Loops, Exchanging, SendPhase
  <2>10. rkey'[p] = KeyAfter(Pkt(p))
    BY <1>1, <1>3, <1>5, <2>1, <1>head, Zenon DEF KeyAfter, Readable
  <2> QED
    BY <1>3, <1>4, <1>5, <2>1, <2>6, <2>7, <2>8, <2>9, <2>10, Taken, Zenon
<1>6. CASE /\ rpc[p] = "read" /\ Arrived(p) /\ wire' = Took(p)
           /\ protoError' = protoError /\ Pkt(p).type = "data"
           /\ rpc' = [rpc EXCEPT ![p] = IF Pkt(p).type = "kexInit" THEN "offer" ELSE "deliver"]
  <2>1. /\ rpc'[p] = "deliver" /\ protoError'[p] = protoError[p]
    BY <1>1, <1>2, <1>3, <1>6, Zenon DEF ReadFails, Threshold
  <2>2. Asking(p)'
    BY <1>1, <1>3, <1>6, <2>1, Zenon DEF Loops, Asking, Busy
  <2>3. Exchanging(p)'
    BY <1>1, <1>3, <1>6, <2>1, Zenon DEF Loops, Exchanging
  <2>4. Locking(p)'
    BY <1>1, <1>3, <1>6, <2>1, Zenon DEF Loops, Locking
  <2>5. Ending(p)'
    BY <1>1, <1>3, <1>6, <2>1, Zenon DEF Loops, Ending
  <2>6. Loops(p)'
    BY <2>2, <2>3, <2>4, <2>5, Zenon DEF Loops
  <2>7. Sound(p)'
    BY <1>1, <1>3, <1>6, <2>1, Zenon DEF Sound, NoneGivesUp
  <2>8. ReadPhase(p)' \in {PhaseAfter(Pkt(p)), "dead"}
    BY <1>1, <1>3, <1>6, <2>1, <1>head, Zenon DEF Loops, Asking, Busy, ReadPhase, PhaseAfter
  <2>9. SendPhase(p)' \in {SendPhase(p), "none"}
    BY <1>1, <1>3, <1>6, <2>1, Zenon DEF Loops, Exchanging, SendPhase
  <2>10. rkey'[p] = KeyAfter(Pkt(p))
    BY <1>1, <1>3, <1>6, <2>1, <1>head, Zenon DEF KeyAfter, Readable
  <2> QED
    BY <1>3, <1>4, <1>6, <2>1, <2>6, <2>7, <2>8, <2>9, <2>10, Taken, Zenon
<1>7. CASE /\ rpc[p] = "read" /\ ~up /\ wire' = wire /\ protoError' = protoError
           /\ ReadFails(p)
  <2>1. /\ rpc'[p] = "fail" /\ wire' = wire /\ ~up' /\ protoError'[p] = protoError[p]
    BY <1>1, <1>2, <1>3, <1>7, Zenon DEF ReadFails, Threshold
  <2>2. Asking(p)'
    BY <1>1, <1>3, <1>7, <2>1, Zenon DEF Loops, Asking, Busy
  <2>3. Exchanging(p)'
    BY <1>1, <1>3, <1>7, <2>1, Zenon DEF Loops, Exchanging
  <2>4. Locking(p)'
    BY <1>1, <1>3, <1>7, <2>1, Zenon DEF Loops, Locking
  <2>5. Ending(p)'
    BY <1>1, <1>3, <1>7, <2>1, Zenon DEF Loops, Ending
  <2>6. Loops(p)'
    BY <2>2, <2>3, <2>4, <2>5, Zenon DEF Loops
  <2>7. Sound(p)'
    BY <1>1, <1>3, <1>7, <2>1, Zenon DEF Sound, NoneGivesUp
  <2>8. ReadPhase(p)' \in {ReadPhase(p), "dead"}
    BY <1>1, <1>3, <1>7, <2>1, Zenon DEF Loops, Asking, Busy, ReadPhase
  <2>9. SendPhase(p)' \in {SendPhase(p), "none"}
    BY <1>1, <1>3, <1>7, <2>1, Zenon DEF Loops, Exchanging, SendPhase
  <2> QED
    BY <1>3, <1>4, <1>7, <2>1, <2>6, <2>7, <2>8, <2>9, Quiet, Zenon DEF keyVars
<1> QED
  BY <1>2, <1>5, <1>6, <1>7, <1>head, Zenon DEF ReadOnePacket

\* The reader changes its key where the sender did.
LEMMA ReadNewKeysStep == ASSUME StreamInv, NEW p \in Peer, ReadNewKeys(p) PROVE Kept(p)
<1>1. TypeOK /\ Loops(p) /\ Sound(p)
  BY Zenon DEF StreamInv
<1>2. /\ kpc \in [Peer -> {"top", "select", "check", "kex1", "kex2", "kex3", "locked", "flush", "end"}]
      /\ sentInit \in [Peer -> BOOLEAN] /\ writeError \in [Peer -> BOOLEAN]
      /\ muHeld \in [Peer -> BOOLEAN] /\ rpend \in [Peer -> Nat]
      /\ rkey \in [Peer -> Nat] /\ protoError \in [Peer -> BOOLEAN]
  BY <1>1, Zenon DEF TypeOK
<1>3. /\ use' = use /\ wkey' = wkey /\ up' = up /\ (up' => up) /\ rpc'[p] = rpc[p]
      /\ startKex'[p] = startKex[p] /\ startClosed'[p] = startClosed[p]
      /\ request'[p] = request[p] /\ kexDone'[p] = kexDone[p]
      /\ pending'[p] = pending[p] /\ drain'[p] = drain[p] /\ wkey'[p] = wkey[p]
      /\ halted'[p] = halted[p]
  BY Zenon DEF ReadNewKeys, Unexpected, KexReadFails, Finish, KGoto, keyVars, kexVars,
     readVars, userVars
<1>4. Same(Other(p))
  <2>1. kpc'[Other(p)] = kpc[Other(p)]
    BY <1>2, OtherPeer, Zenon DEF ReadNewKeys, Unexpected, KexReadFails, Finish, KGoto, keyVars
  <2>2. sentInit'[Other(p)] = sentInit[Other(p)]
    BY <1>2, OtherPeer, Zenon DEF ReadNewKeys, Unexpected, KexReadFails, Finish, KGoto, keyVars
  <2>3. writeError'[Other(p)] = writeError[Other(p)]
    BY <1>2, OtherPeer, Zenon DEF ReadNewKeys, Unexpected, KexReadFails, Finish, KGoto, keyVars
  <2>4. muHeld'[Other(p)] = muHeld[Other(p)]
    BY <1>2, OtherPeer, Zenon DEF ReadNewKeys, Unexpected, KexReadFails, Finish, KGoto, keyVars
  <2>5. rpend'[Other(p)] = rpend[Other(p)]
    BY <1>2, OtherPeer, Zenon DEF ReadNewKeys, Unexpected, KexReadFails, Finish, KGoto, keyVars
  <2>6. rkey'[Other(p)] = rkey[Other(p)]
    BY <1>2, OtherPeer, Zenon DEF ReadNewKeys, Unexpected, KexReadFails, Finish, KGoto, keyVars
  <2>7. protoError'[Other(p)] = protoError[Other(p)]
    BY <1>2, OtherPeer, Zenon DEF ReadNewKeys, Unexpected, KexReadFails, Finish, KGoto, keyVars
  <2> QED
    BY <2>1, <2>2, <2>3, <2>4, <2>5, <2>6, <2>7, Zenon DEF Same, ReadNewKeys, Unexpected,
       KexReadFails, Finish, KGoto, keyVars, kexVars, readVars, userVars
<1>phase. ReadPhase(p) = "newKeys"
  BY <1>1, Zenon DEF ReadNewKeys, Loops, Asking, Busy, ReadPhase
<1>head. Arrived(p) => Readable(p) /\ Pkt(p).type \in {"newKeys", "data", "kexInit"}
                        /\ (Pkt(p).type \in {"data", "kexInit"} => ~NoneGivesUp)
  BY <1>phase, HeadFits, Zenon DEF Fits
<1>5. CASE /\ kpc[p] = "kex3" /\ Arrived(p) /\ Pkt(p).type # "newKeys" /\ Unexpected(p)
  <2>1. /\ kpc'[p] = "locked" /\ ~sentInit'[p] /\ muHeld'[p] /\ writeError'[p]
        /\ protoError'[p] /\ ~NoneGivesUp /\ wire' = Took(p)
        /\ Pkt(p).type \in {"data", "kexInit"} /\ rpend'[p] = rpend[p]
        /\ rkey'[p] = rkey[p]
    BY <1>1, <1>2, <1>3, <1>5, <1>head, Zenon DEF Unexpected, Finish, KGoto, keyVars
  <2>2. Asking(p)'
    BY <1>1, <1>3, <1>5, <2>1, Zenon DEF Loops, Asking, Busy
  <2>3. Exchanging(p)'
    BY <1>1, <1>3, <1>5, <2>1, Zenon DEF Loops, Exchanging
  <2>4. Locking(p)'
    BY <1>1, <1>3, <1>5, <2>1, Zenon DEF Loops, Locking
  <2>5. Ending(p)'
    BY <1>1, <1>3, <1>5, <2>1, Zenon DEF Loops, Ending
  <2>6. Loops(p)'
    BY <2>2, <2>3, <2>4, <2>5, Zenon DEF Loops
  <2>7. Sound(p)'
    BY <1>1, <1>3, <1>5, <2>1, Zenon DEF Sound, NoneGivesUp
  <2>8. ReadPhase(p)' \in {PhaseAfter(Pkt(p)), "dead"}
    BY <1>1, <1>3, <1>5, <2>1, <1>head, Zenon DEF Loops, Asking, Busy, ReadPhase, PhaseAfter
  <2>9. SendPhase(p)' = "open" /\ ~NoneGivesUp
    BY <1>1, <1>3, <1>5, <2>1, Zenon DEF Loops, Exchanging, SendPhase
  <2>10. rkey'[p] = KeyAfter(Pkt(p))
    BY <1>1, <1>3, <1>5, <2>1, <1>head, Zenon DEF KeyAfter, Readable
  <2> QED
    BY <1>3, <1>4, <1>5, <2>1, <2>6, <2>7, <2>8, <2>9, <2>10, Taken, Zenon
<1>6. CASE /\ kpc[p] = "kex3" /\ Arrived(p) /\ Pkt(p).type = "newKeys"
           /\ wire' = Took(p) /\ rkey' = [rkey EXCEPT ![p] = rpend[p]]
           /\ rpend' = [rpend EXCEPT ![p] = 0] /\ protoError' = protoError
           /\ Finish(p, FALSE)
  <2>1. /\ kpc'[p] = "locked" /\ ~sentInit'[p] /\ muHeld'[p] /\ ~writeError'[p]
        /\ rkey'[p] = rpend[p] /\ protoError'[p] = protoError[p]
    BY <1>1, <1>2, <1>3, <1>6, Zenon DEF Unexpected, Finish, KGoto, keyVars
  <2>2. Asking(p)'
    BY <1>1, <1>3, <1>6, <2>1, Zenon DEF Loops, Asking, Busy
  <2>3. Exchanging(p)'
    BY <1>1, <1>3, <1>6, <2>1, Zenon DEF Loops, Exchanging
  <2>4. Locking(p)'
    BY <1>1, <1>3, <1>6, <2>1, Zenon DEF Loops, Locking
  <2>5. Ending(p)'
    BY <1>1, <1>3, <1>6, <2>1, Zenon DEF Loops, Ending
  <2>6. Loops(p)'
    BY <2>2, <2>3, <2>4, <2>5, Zenon DEF Loops
  <2>7. Sound(p)'
    BY <1>1, <1>3, <1>6, <2>1, Zenon DEF Sound, NoneGivesUp
  <2>8. ReadPhase(p)' \in {PhaseAfter(Pkt(p)), "dead"}
    BY <1>1, <1>3, <1>6, <2>1, <1>head, Zenon DEF Loops, Asking, Busy, ReadPhase, PhaseAfter
  <2>9. SendPhase(p)' \in {SendPhase(p), "none"}
    BY <1>1, <1>3, <1>6, <2>1, Zenon DEF Loops, Exchanging, SendPhase
  <2>10. rkey'[p] = KeyAfter(Pkt(p))
    BY <1>1, <1>3, <1>6, <2>1, <1>head, Zenon DEF KeyAfter, Readable, Loops, Exchanging
  <2> QED
    BY <1>3, <1>4, <1>6, <2>1, <2>6, <2>7, <2>8, <2>9, <2>10, Taken, Zenon
<1>7. CASE /\ kpc[p] = "kex3" /\ KexReadFails(p)
  <2>1. /\ kpc'[p] = "locked" /\ ~sentInit'[p] /\ muHeld'[p] /\ writeError'[p]
        /\ wire' = wire /\ rkey' = rkey /\ ~up' /\ rpend'[p] = rpend[p]
        /\ rkey'[p] = rkey[p] /\ protoError'[p] = protoError[p]
    BY <1>1, <1>2, <1>3, <1>7, Zenon DEF KexReadFails, Unexpected, Finish, KGoto, keyVars
  <2>2. Asking(p)'
    BY <1>1, <1>3, <1>7, <2>1, Zenon DEF Loops, Asking, Busy
  <2>3. Exchanging(p)'
    BY <1>1, <1>3, <1>7, <2>1, Zenon DEF Loops, Exchanging
  <2>4. Locking(p)'
    BY <1>1, <1>3, <1>7, <2>1, Zenon DEF Loops, Locking
  <2>5. Ending(p)'
    BY <1>1, <1>3, <1>7, <2>1, Zenon DEF Loops, Ending
  <2>6. Loops(p)'
    BY <2>2, <2>3, <2>4, <2>5, Zenon DEF Loops
  <2>7. Sound(p)'
    BY <1>1, <1>3, <1>7, <2>1, Zenon DEF Sound, NoneGivesUp
  <2>8. ReadPhase(p)' \in {ReadPhase(p), "dead"}
    BY <1>1, <1>3, <1>7, <2>1, Zenon DEF Loops, Asking, Busy, ReadPhase
  <2>9. ~up'
    BY <1>1, <1>3, <1>7, <2>1, Zenon DEF Loops, Exchanging, SendPhase
  <2> QED
    BY <1>3, <1>4, <1>7, <2>1, <2>6, <2>7, <2>8, <2>9, Quiet, Zenon DEF keyVars
<1> QED
  BY <1>2, <1>5, <1>6, <1>7, <1>head, Zenon DEF ReadNewKeys

\* The exchange's message arrives, and the end announces its new key.
LEMMA AgreeKeyStep == ASSUME StreamInv, NEW p \in Peer, AgreeKey(p) PROVE Kept(p)
<1>1. TypeOK /\ Loops(p) /\ Sound(p)
  BY Zenon DEF StreamInv
<1>2. /\ kpc \in [Peer -> {"top", "select", "check", "kex1", "kex2", "kex3", "locked", "flush", "end"}]
      /\ sentInit \in [Peer -> BOOLEAN] /\ writeError \in [Peer -> BOOLEAN]
      /\ muHeld \in [Peer -> BOOLEAN] /\ rpend \in [Peer -> Nat]
      /\ rkey \in [Peer -> Nat] /\ wkey \in [Peer -> Nat]
      /\ protoError \in [Peer -> BOOLEAN]
  BY <1>1, Zenon DEF TypeOK
<1>3. /\ use' = use /\ up' = up /\ (up' => up) /\ rpc'[p] = rpc[p]
      /\ startKex'[p] = startKex[p] /\ startClosed'[p] = startClosed[p]
      /\ request'[p] = request[p] /\ kexDone'[p] = kexDone[p]
      /\ pending'[p] = pending[p] /\ drain'[p] = drain[p] /\ halted'[p] = halted[p]
  BY Zenon DEF AgreeKey, SendNewKeys, Unexpected, KexReadFails, Finish, Continue, KGoto,
     keyVars, kexVars, readVars, userVars
<1>4. Same(Other(p))
  <2>1. kpc'[Other(p)] = kpc[Other(p)]
    BY <1>2, OtherPeer, Zenon DEF AgreeKey, SendNewKeys, Unexpected, KexReadFails, Finish,
       Continue, KGoto, keyVars
  <2>2. sentInit'[Other(p)] = sentInit[Other(p)]
    BY <1>2, OtherPeer, Zenon DEF AgreeKey, SendNewKeys, Unexpected, KexReadFails, Finish,
       Continue, KGoto, keyVars
  <2>3. writeError'[Other(p)] = writeError[Other(p)]
    BY <1>2, OtherPeer, Zenon DEF AgreeKey, SendNewKeys, Unexpected, KexReadFails, Finish,
       Continue, KGoto, keyVars
  <2>4. muHeld'[Other(p)] = muHeld[Other(p)]
    BY <1>2, OtherPeer, Zenon DEF AgreeKey, SendNewKeys, Unexpected, KexReadFails, Finish,
       Continue, KGoto, keyVars
  <2>5. rpend'[Other(p)] = rpend[Other(p)]
    BY <1>2, OtherPeer, Zenon DEF AgreeKey, SendNewKeys, Unexpected, KexReadFails, Finish,
       Continue, KGoto, keyVars
  <2>6. rkey'[Other(p)] = rkey[Other(p)]
    BY <1>2, OtherPeer, Zenon DEF AgreeKey, SendNewKeys, Unexpected, KexReadFails, Finish,
       Continue, KGoto, keyVars
  <2>7. wkey'[Other(p)] = wkey[Other(p)]
    BY <1>2, OtherPeer, Zenon DEF AgreeKey, SendNewKeys, Unexpected, KexReadFails, Finish,
       Continue, KGoto, keyVars
  <2>8. protoError'[Other(p)] = protoError[Other(p)]
    BY <1>2, OtherPeer, Zenon DEF AgreeKey, SendNewKeys, Unexpected, KexReadFails, Finish,
       Continue, KGoto, keyVars
  <2> QED
    BY <2>1, <2>2, <2>3, <2>4, <2>5, <2>6, <2>7, <2>8, Zenon DEF Same, AgreeKey, SendNewKeys,
       Unexpected, KexReadFails, Finish, Continue, KGoto, keyVars, kexVars, readVars, userVars
<1>phase. ReadPhase(p) = "kex"
  BY <1>1, Zenon DEF AgreeKey, Loops, Asking, Busy, ReadPhase
<1>head. Arrived(p) => Readable(p) /\ Pkt(p).type \in {"kex", "data", "kexInit"}
                        /\ (Pkt(p).type \in {"data", "kexInit"} => ~NoneGivesUp)
  BY <1>phase, HeadFits, Zenon DEF Fits
<1>5. CASE /\ kpc[p] = "kex2" /\ Arrived(p) /\ Pkt(p).type # "kex" /\ Unexpected(p)
  <2>1. /\ kpc'[p] = "locked" /\ ~sentInit'[p] /\ muHeld'[p] /\ writeError'[p]
        /\ protoError'[p] /\ ~NoneGivesUp /\ wire' = Took(p) /\ wkey' = wkey
        /\ Pkt(p).type \in {"data", "kexInit"} /\ rpend'[p] = rpend[p]
        /\ rkey'[p] = rkey[p] /\ wkey'[p] = wkey[p]
    BY <1>1, <1>2, <1>3, <1>5, <1>head, Zenon DEF Unexpected, Finish, KGoto, keyVars
  <2>2. Asking(p)'
    BY <1>1, <1>3, <1>5, <2>1, Zenon DEF Loops, Asking, Busy
  <2>3. Exchanging(p)'
    BY <1>1, <1>3, <1>5, <2>1, Zenon DEF Loops, Exchanging
  <2>4. Locking(p)'
    BY <1>1, <1>3, <1>5, <2>1, Zenon DEF Loops, Locking
  <2>5. Ending(p)'
    BY <1>1, <1>3, <1>5, <2>1, Zenon DEF Loops, Ending
  <2>6. Loops(p)'
    BY <2>2, <2>3, <2>4, <2>5, Zenon DEF Loops
  <2>7. Sound(p)'
    BY <1>1, <1>3, <1>5, <2>1, Zenon DEF Sound, NoneGivesUp
  <2>8. ReadPhase(p)' \in {PhaseAfter(Pkt(p)), "dead"}
    BY <1>1, <1>3, <1>5, <2>1, <1>head, Zenon DEF Loops, Asking, Busy, ReadPhase, PhaseAfter
  <2>9. SendPhase(p)' = "open" /\ ~NoneGivesUp
    BY <1>1, <1>3, <1>5, <2>1, Zenon DEF Loops, Exchanging, SendPhase
  <2>10. rkey'[p] = KeyAfter(Pkt(p))
    BY <1>1, <1>3, <1>5, <2>1, <1>head, Zenon DEF KeyAfter, Readable
  <2> QED
    BY <1>3, <1>4, <1>5, <2>1, <2>6, <2>7, <2>8, <2>9, <2>10, Taken, Zenon
<1>6. CASE /\ kpc[p] = "kex2" /\ Arrived(p) /\ Pkt(p).type = "kex" /\ up
           /\ SendNewKeys(p, KexAnswer(p))
           /\ rkey' = rkey /\ protoError' = protoError
  <2>1. /\ kpc'[p] = "kex3" /\ rpend'[p] = rkey[p] + 1 /\ wkey'[p] = wkey[p] + 1
        /\ sentInit'[p] = sentInit[p] /\ writeError'[p] = writeError[p]
        /\ muHeld'[p] = muHeld[p] /\ rkey'[p] = rkey[p]
        /\ protoError'[p] = protoError[p]
    BY <1>1, <1>2, <1>3, <1>6, Zenon DEF SendNewKeys, Unexpected, KexReadFails, Finish,
       Continue, KGoto, keyVars
  <2>2. Asking(p)'
    BY <1>1, <1>3, <1>6, <2>1, Zenon DEF Loops, Asking, Busy
  <2>3. Exchanging(p)'
    BY <1>1, <1>3, <1>6, <2>1, Zenon DEF Loops, Exchanging
  <2>4. Locking(p)'
    BY <1>1, <1>3, <1>6, <2>1, Zenon DEF Loops, Locking
  <2>5. Ending(p)'
    BY <1>1, <1>3, <1>6, <2>1, Zenon DEF Loops, Ending
  <2>6. Loops(p)'
    BY <2>2, <2>3, <2>4, <2>5, Zenon DEF Loops
  <2>7. Sound(p)'
    BY <1>1, <1>3, <1>6, <2>1, Zenon DEF Sound, NoneGivesUp
  <2>8. ReadPhase(p)' = "newKeys"
    BY <1>1, <1>3, <1>6, <2>1, Zenon DEF Loops, Asking, Busy, ReadPhase
  <2>9. SendPhase(p) = (IF p = "client" THEN "newKeys" ELSE "kex") /\ SendPhase(p)' = "open"
    BY <1>1, <1>3, <1>6, <2>1, Zenon DEF Loops, Exchanging, SendPhase
  <2> QED
    BY <1>3, <1>4, <1>6, <2>1, <2>6, <2>7, <2>8, <2>9, Announced, Zenon
<1>7. CASE /\ kpc[p] = "kex2" /\ Arrived(p) /\ Pkt(p).type = "kex" /\ ~up
           /\ SendNewKeys(p, KexAnswer(p))
           /\ rkey' = rkey /\ protoError' = protoError
  <2>1. /\ kpc'[p] = "locked" /\ ~sentInit'[p] /\ muHeld'[p] /\ writeError'[p]
        /\ wire' = Took(p) /\ wkey' = wkey /\ ~up' /\ rkey'[p] = rkey[p]
        /\ wkey'[p] = wkey[p] /\ protoError'[p] = protoError[p]
    BY <1>1, <1>2, <1>3, <1>7, Zenon DEF SendNewKeys, KexAnswer, Unexpected, KexReadFails,
       Finish, Continue, KGoto, keyVars, Sent
  <2>2. Asking(p)'
    BY <1>1, <1>3, <1>7, <2>1, Zenon DEF Loops, Asking, Busy
  <2>3. Exchanging(p)'
    BY <1>1, <1>3, <1>7, <2>1, Zenon DEF Loops, Exchanging
  <2>4. Locking(p)'
    BY <1>1, <1>3, <1>7, <2>1, Zenon DEF Loops, Locking
  <2>5. Ending(p)'
    BY <1>1, <1>3, <1>7, <2>1, Zenon DEF Loops, Ending
  <2>6. Loops(p)'
    BY <2>2, <2>3, <2>4, <2>5, Zenon DEF Loops
  <2>7. Sound(p)'
    BY <1>1, <1>3, <1>7, <2>1, Zenon DEF Sound, NoneGivesUp
  <2>8. ReadPhase(p)' \in {PhaseAfter(Pkt(p)), "dead"}
    BY <1>1, <1>3, <1>7, <2>1, <1>head, Zenon DEF Loops, Asking, Busy, ReadPhase, PhaseAfter
  <2>9. ~up'
    BY <1>1, <1>3, <1>7, <2>1, Zenon DEF Loops, Exchanging, SendPhase
  <2>10. rkey'[p] = KeyAfter(Pkt(p))
    BY <1>1, <1>3, <1>7, <2>1, <1>head, Zenon DEF KeyAfter, Readable
  <2> QED
    BY <1>3, <1>4, <1>7, <2>1, <2>6, <2>7, <2>8, <2>9, <2>10, Taken, Zenon
<1>8. CASE /\ kpc[p] = "kex2" /\ Arrived(p) /\ Pkt(p).type = "kex"
           /\ (halted[p] \/ (p = "client" /\ "reject" \in use.failures))
           /\ wire' = KexAnswer(p) /\ Finish(p, TRUE) /\ wkey' = wkey /\ rpend' = rpend
           /\ rkey' = rkey /\ protoError' = protoError
  <2>1. /\ kpc'[p] = "locked" /\ ~sentInit'[p] /\ muHeld'[p] /\ writeError'[p]
        /\ ~NoneGivesUp /\ rpend'[p] = rpend[p] /\ rkey'[p] = rkey[p]
        /\ wkey'[p] = wkey[p] /\ protoError'[p] = protoError[p]
    BY <1>1, <1>2, <1>3, <1>8, Zenon DEF Unexpected, Finish, KGoto, keyVars, Sound, NoneGivesUp
  <2>2. Asking(p)'
    BY <1>1, <1>3, <1>8, <2>1, Zenon DEF Loops, Asking, Busy
  <2>3. Exchanging(p)'
    BY <1>1, <1>3, <1>8, <2>1, Zenon DEF Loops, Exchanging
  <2>4. Locking(p)'
    BY <1>1, <1>3, <1>8, <2>1, Zenon DEF Loops, Locking
  <2>5. Ending(p)'
    BY <1>1, <1>3, <1>8, <2>1, Zenon DEF Loops, Ending
  <2>6. Loops(p)'
    BY <2>2, <2>3, <2>4, <2>5, Zenon DEF Loops
  <2>7. Sound(p)'
    BY <1>1, <1>3, <1>8, <2>1, Zenon DEF Sound, NoneGivesUp
  <2>8. ReadPhase(p)' \in {PhaseAfter(Pkt(p)), "dead"}
    BY <1>1, <1>3, <1>8, <2>1, <1>head, Zenon DEF Loops, Asking, Busy, ReadPhase, PhaseAfter
  <2>9. SendPhase(p)' = "open" /\ ~NoneGivesUp
    BY <1>1, <1>3, <1>8, <2>1, Zenon DEF Loops, Exchanging, SendPhase
  <2>10. rkey'[p] = KeyAfter(Pkt(p))
    BY <1>1, <1>3, <1>8, <2>1, <1>head, Zenon DEF KeyAfter, Readable
  <2>11. CASE wire' = Took(p)
    BY <1>3, <1>4, <1>8, <2>1, <2>6, <2>7, <2>8, <2>9, <2>10, <2>11, Taken, Zenon
  <2>12. CASE up /\ wire' = Sent(Took(p), p, <<Encrypted(p, "kex", 0)>>) /\ p # "client"
    <3>1. SendPhase(p) = "kex"
      BY <1>1, <1>8, <2>12, Zenon DEF Loops, Exchanging, SendPhase
    <3> QED
      BY <1>3, <1>4, <1>8, <2>1, <2>6, <2>7, <2>8, <2>9, <2>10, <2>12, <3>1, Answered, Zenon
  <2> QED
    BY <1>8, <2>11, <2>12, Zenon DEF KexAnswer, Sent
<1>9. CASE /\ kpc[p] = "kex2" /\ KexReadFails(p)
  <2>1. /\ kpc'[p] = "locked" /\ ~sentInit'[p] /\ muHeld'[p] /\ writeError'[p]
        /\ wire' = wire /\ rkey' = rkey /\ wkey' = wkey /\ ~up' /\ rpend'[p] = rpend[p]
        /\ rkey'[p] = rkey[p] /\ wkey'[p] = wkey[p] /\ protoError'[p] = protoError[p]
    BY <1>1, <1>2, <1>3, <1>9, Zenon DEF KexReadFails, Unexpected, Finish, KGoto, keyVars
  <2>2. Asking(p)'
    BY <1>1, <1>3, <1>9, <2>1, Zenon DEF Loops, Asking, Busy
  <2>3. Exchanging(p)'
    BY <1>1, <1>3, <1>9, <2>1, Zenon DEF Loops, Exchanging
  <2>4. Locking(p)'
    BY <1>1, <1>3, <1>9, <2>1, Zenon DEF Loops, Locking
  <2>5. Ending(p)'
    BY <1>1, <1>3, <1>9, <2>1, Zenon DEF Loops, Ending
  <2>6. Loops(p)'
    BY <2>2, <2>3, <2>4, <2>5, Zenon DEF Loops
  <2>7. Sound(p)'
    BY <1>1, <1>3, <1>9, <2>1, Zenon DEF Sound, NoneGivesUp
  <2>8. ReadPhase(p)' \in {ReadPhase(p), "dead"}
    BY <1>1, <1>3, <1>9, <2>1, Zenon DEF Loops, Asking, Busy, ReadPhase
  <2>9. ~up'
    BY <1>1, <1>3, <1>9, <2>1, Zenon DEF Loops, Exchanging, SendPhase
  <2> QED
    BY <1>3, <1>4, <1>9, <2>1, <2>6, <2>7, <2>8, <2>9, Quiet, Zenon DEF keyVars
<1> QED
  BY <1>2, <1>5, <1>6, <1>7, <1>8, <1>9, <1>head, Zenon DEF AgreeKey

\* The queued packets go out with the new key.
LEMMA FlushStep == ASSUME StreamInv, NEW p \in Peer, Flush(p) PROVE Kept(p)
<1>1. TypeOK /\ Loops(p) /\ Sound(p)
  BY Zenon DEF StreamInv
<1>2. /\ kpc \in [Peer -> {"top", "select", "check", "kex1", "kex2", "kex3", "locked", "flush", "end"}]
      /\ writeError \in [Peer -> BOOLEAN] /\ pending \in [Peer -> Seq(Nat)]
      /\ muHeld \in [Peer -> BOOLEAN]
  BY <1>1, Zenon DEF TypeOK
<1>3. /\ use' = use /\ rkey' = rkey /\ wkey' = wkey /\ (up' => up) /\ rpc'[p] = rpc[p]
      /\ startKex'[p] = startKex[p] /\ startClosed'[p] = startClosed[p]
      /\ request'[p] = request[p] /\ kexDone'[p] = kexDone[p]
      /\ sentInit'[p] = sentInit[p] /\ drain'[p] = drain[p] /\ rpend'[p] = rpend[p]
      /\ rkey'[p] = rkey[p] /\ wkey'[p] = wkey[p] /\ halted'[p] = halted[p]
      /\ protoError'[p] = protoError[p]
  BY Zenon DEF Flush, KGoto, keyVars, kexVars, readVars, userVars
<1>4. Same(Other(p))
  <2>1. kpc'[Other(p)] = kpc[Other(p)]
    BY <1>2, OtherPeer, Zenon DEF Flush, KGoto
  <2>2. writeError'[Other(p)] = writeError[Other(p)]
    BY <1>2, OtherPeer, Zenon DEF Flush, KGoto
  <2>3. pending'[Other(p)] = pending[Other(p)]
    BY <1>2, OtherPeer, Zenon DEF Flush, KGoto
  <2>4. muHeld'[Other(p)] = muHeld[Other(p)]
    BY <1>2, OtherPeer, Zenon DEF Flush, KGoto
  <2> QED
    BY <2>1, <2>2, <2>3, <2>4, Zenon DEF Same, Flush, KGoto, keyVars, kexVars, readVars,
       userVars
<1>0. pending \in [Peer -> Seq(Nat)] /\ wkey \in [Peer -> Nat]
  BY <1>1, Zenon DEF TypeOK
<1>5. CASE /\ kpc[p] = "flush" /\ up
           /\ wire' = Sent(wire, p, [i \in DOMAIN pending[p] |-> Encrypted(p, "data", pending[p][i])])
           /\ writeError' = [writeError EXCEPT ![p] = IF pending[p] = <<>> THEN @ ELSE ~up]
           /\ pending' = [pending EXCEPT ![p] = <<>>]
           /\ muHeld' = [muHeld EXCEPT ![p] = FALSE] /\ KGoto(p, "top")
  <2>1. /\ kpc'[p] = "top" /\ pending'[p] = <<>> /\ ~muHeld'[p]
        /\ (writeError'[p] => writeError[p])
    BY <1>1, <1>2, <1>3, <1>5, Zenon DEF KGoto
  <2>2. Asking(p)'
    BY <1>1, <1>3, <1>5, <2>1, Zenon DEF Loops, Asking, Busy
  <2>3. Exchanging(p)'
    BY <1>1, <1>3, <1>5, <2>1, Zenon DEF Loops, Exchanging
  <2>4. Locking(p)'
    BY <1>1, <1>3, <1>5, <2>1, Zenon DEF Loops, Locking
  <2>5. Ending(p)'
    BY <1>1, <1>3, <1>5, <2>1, Zenon DEF Loops, Ending
  <2>6. Loops(p)'
    BY <2>2, <2>3, <2>4, <2>5, Zenon DEF Loops
  <2>7. Sound(p)'
    BY <1>1, <1>3, <1>5, <2>1, Zenon DEF Sound, NoneGivesUp
  <2>8. ReadPhase(p)' \in {ReadPhase(p), "dead"}
    BY <1>1, <1>3, <1>5, <2>1, Zenon DEF Loops, Asking, Busy, ReadPhase
  <2>9. SendPhase(p) = "open" /\ SendPhase(p)' = "open"
    BY <1>1, <1>3, <1>5, <2>1, Zenon DEF Loops, Exchanging, SendPhase
  <2> DEFINE s == [i \in DOMAIN pending[p] |-> Encrypted(p, "data", pending[p][i])]
  <2>10. s \in Seq(Packet)
    BY <1>0, QueuedType, Zenon
  <2>11. \A i \in DOMAIN s : s[i].type = "data" /\ s[i].key = wkey[p]
    BY DEF Encrypted
  <2>12. wire' = Sent(wire, p, s) /\ up
    BY <2>1, <1>5, Zenon
  <2> HIDE DEF s
  <2> QED
    BY <1>3, <1>4, <2>6, <2>7, <2>8, <2>9, <2>10, <2>11, <2>12, Flushed, Zenon
<1>6. CASE /\ kpc[p] = "flush" /\ ~up
           /\ wire' = Sent(wire, p, [i \in DOMAIN pending[p] |-> Encrypted(p, "data", pending[p][i])])
           /\ writeError' = [writeError EXCEPT ![p] = IF pending[p] = <<>> THEN @ ELSE ~up]
           /\ pending' = [pending EXCEPT ![p] = <<>>]
           /\ muHeld' = [muHeld EXCEPT ![p] = FALSE] /\ KGoto(p, "top")
  <2>1. /\ kpc'[p] = "top" /\ pending'[p] = <<>> /\ ~muHeld'[p] /\ wire' = wire /\ ~up'
    BY <1>1, <1>2, <1>3, <1>6, Zenon DEF KGoto, Sent
  <2>2. Asking(p)'
    BY <1>1, <1>3, <1>6, <2>1, Zenon DEF Loops, Asking, Busy
  <2>3. Exchanging(p)'
    BY <1>1, <1>3, <1>6, <2>1, Zenon DEF Loops, Exchanging
  <2>4. Locking(p)'
    BY <1>1, <1>3, <1>6, <2>1, Zenon DEF Loops, Locking
  <2>5. Ending(p)'
    BY <1>1, <1>3, <1>6, <2>1, Zenon DEF Loops, Ending
  <2>6. Loops(p)'
    BY <2>2, <2>3, <2>4, <2>5, Zenon DEF Loops
  <2>7. Sound(p)'
    BY <1>1, <1>3, <1>6, <2>1, Zenon DEF Sound, NoneGivesUp
  <2>8. ReadPhase(p)' \in {ReadPhase(p), "dead"}
    BY <1>1, <1>3, <1>6, <2>1, Zenon DEF Loops, Asking, Busy, ReadPhase
  <2>9. ~up'
    BY <1>1, <1>3, <1>6, <2>1, Zenon DEF Loops, Exchanging, SendPhase
  <2> QED
    BY <1>3, <1>4, <1>6, <2>1, <2>6, <2>7, <2>8, <2>9, Quiet, Zenon DEF keyVars
<1> QED
  BY <1>2, <1>5, <1>6, Zenon DEF Flush

-----------------------------------------------------------------------------
(* The keys of the two ends agree.                                          *)

\* Both ends start with the first key, no exchange and empty wires.
LEMMA StreamInit == Init => StreamInv
<1> SUFFICES ASSUME Init PROVE StreamInv
  OBVIOUS
<1>1. TypeOK
  <2>1. <<>> \in Seq(Packet) /\ <<>> \in Seq(Nat) /\ 0 \in Nat
    OBVIOUS
  <2>2. Len(<<>>) <= ChanSize
    BY UsesAssumption
  <2>3. wire \in [Peer -> Seq(Packet)] /\ wkey \in [Peer -> Nat] /\ rkey \in [Peer -> Nat]
    BY <2>1, Zenon DEF Init
  <2>4. /\ rpend \in [Peer -> Nat] /\ pending \in [Peer -> Seq(Nat)] /\ hand \in [Peer -> Nat]
        /\ incoming \in [Peer -> Seq(Nat)] /\ written \in [Peer -> Nat]
        /\ got \in [Peer -> Nat] /\ asked \in [Peer -> Nat]
    BY <2>1, Zenon DEF Init
  <2>5. \A p \in Peer : Len(incoming[p]) <= ChanSize
    BY <2>2, Zenon DEF Init
  <2> QED
    BY <2>3, <2>4, <2>5, Zenon DEF Init, TypeOK
<1>2. SUFFICES ASSUME NEW p \in Peer PROVE Loops(p) /\ Sound(p) /\ Stream(p)
  BY <1>1, Zenon DEF StreamInv
<1>3. Other(p) \in Peer
  BY OtherPeer
<1>4. Loops(p)
  BY Zenon DEF Init, Loops, Asking, Exchanging, Locking, Ending, Busy
<1>5. Sound(p)
  BY Zenon DEF Init, Sound
<1>6. ReadPhase(p) = "open" /\ SendPhase(Other(p)) = "open"
  BY <1>3, Zenon DEF Init, ReadPhase, SendPhase
<1>7. wire[Other(p)] = <<>> /\ rkey[p] = 0 /\ wkey[Other(p)] = 0
  BY <1>3, Zenon DEF Init
<1>8. 1..(Len(<<>>) - 1) = {}
  OBVIOUS
<1> QED
  BY <1>4, <1>5, <1>6, <1>7, <1>8, Zenon DEF Stream, Chain, TailKey, TailPhase, Agreed

\* A step of one end keeps what holds of the other.
LEMMA KeptBoth ==
    ASSUME StreamInv, NEW p \in Peer, Kept(p), use' = use, up' => up
    PROVE  \A q \in Peer : Loops(q)' /\ Sound(q)' /\ Stream(q)'
<1>1. \A q \in Peer : q = p \/ q = Other(p)
  BY DEF Peer, Other
<1>2. Other(p) \in Peer
  BY OtherPeer
<1>3. Loops(Other(p))' /\ Sound(Other(p))'
  BY <1>2, SameEnd, Zenon DEF Kept, StreamInv
<1> QED
  BY <1>1, <1>3, Zenon DEF Kept

\* Every step keeps the invariant.
LEMMA StreamNext == StreamInv /\ [Next]_vars => StreamInv'
<1> SUFFICES ASSUME StreamInv, [Next]_vars PROVE StreamInv'
  OBVIOUS
<1>1. TypeOK
  BY Zenon DEF StreamInv
<1>2. ASSUME TypeOK', use' = use, up' => up, wire' = wire, \A q \in Peer : Same(q)
      PROVE  StreamInv'
  BY <1>2, Untouched, Zenon DEF StreamInv
<1>3. ASSUME NEW p \in Peer, TypeOK', Kept(p), use' = use, up' => up PROVE StreamInv'
  BY <1>3, KeptBoth, Zenon DEF StreamInv
<1>4. ASSUME NEW p \in Peer, CallWrite(p) PROVE StreamInv'
  <2>1. use' = use /\ (up' => up) /\ wire' = wire /\ \A q \in Peer : Same(q)
    BY <1>4, Zenon DEF CallWrite, Same, keyVars, kexVars, readVars, userVars
  <2> QED
    BY <1>1, <1>2, <1>4, <2>1, CallWriteType, Zenon
<1>5. ASSUME NEW p \in Peer, ReadPacket(p) PROVE StreamInv'
  <2>1. use' = use /\ (up' => up) /\ wire' = wire /\ \A q \in Peer : Same(q)
    BY <1>5, Zenon DEF ReadPacket, Same, keyVars, kexVars, readVars, userVars
  <2> QED
    BY <1>1, <1>2, <1>5, <2>1, ReadPacketType, Zenon
<1>6. ASSUME NEW p \in Peer, WritePacket(p) PROVE StreamInv'
  <2>1. use' = use /\ (up' => up)
    BY <1>6, Zenon DEF WritePacket
  <2>2. TypeOK'
    BY <1>1, <1>6, WritePacketType, Zenon
  <2>3. Kept(p)
    BY <1>6, WritePacketStep, Zenon
  <2> QED
    BY <1>3, <2>1, <2>2, <2>3, Zenon
<1>7. ASSUME NEW p \in Peer, ReadOnePacket(p) PROVE StreamInv'
  <2>1. use' = use /\ (up' => up)
    BY <1>7, Zenon DEF ReadOnePacket
  <2>2. TypeOK'
    BY <1>1, <1>7, ReadOnePacketType, Zenon
  <2>3. Kept(p)
    BY <1>7, ReadOnePacketStep, Zenon
  <2> QED
    BY <1>3, <2>1, <2>2, <2>3, Zenon
<1>8. ASSUME NEW p \in Peer, Deliver(p) PROVE StreamInv'
  <2>1. use' = use /\ (up' => up)
    BY <1>8, Zenon DEF Deliver
  <2>2. TypeOK'
    BY <1>1, <1>8, DeliverType, Zenon
  <2>3. Kept(p)
    BY <1>8, DeliverStep, Zenon
  <2> QED
    BY <1>3, <2>1, <2>2, <2>3, Zenon
<1>9. ASSUME NEW p \in Peer, Offer(p) PROVE StreamInv'
  <2>1. use' = use /\ (up' => up)
    BY <1>9, Zenon DEF Offer
  <2>2. TypeOK'
    BY <1>1, <1>9, OfferType, Zenon
  <2>3. Kept(p)
    BY <1>9, OfferStep, Zenon
  <2> QED
    BY <1>3, <2>1, <2>2, <2>3, Zenon
<1>10. ASSUME NEW p \in Peer, KexDone(p) PROVE StreamInv'
  <2>1. use' = use /\ (up' => up)
    BY <1>10, Zenon DEF KexDone
  <2>2. TypeOK'
    BY <1>1, <1>10, KexDoneType, Zenon
  <2>3. Kept(p)
    BY <1>10, KexDoneStep, Zenon
  <2> QED
    BY <1>3, <2>1, <2>2, <2>3, Zenon
<1>11. ASSUME NEW p \in Peer, CloseIncoming(p) PROVE StreamInv'
  <2>1. use' = use /\ (up' => up)
    BY <1>11, Zenon DEF CloseIncoming
  <2>2. TypeOK'
    BY <1>1, <1>11, CloseIncomingType, Zenon
  <2>3. Kept(p)
    BY <1>11, CloseIncomingStep, Zenon
  <2> QED
    BY <1>3, <2>1, <2>2, <2>3, Zenon
<1>12. ASSUME NEW p \in Peer, StopWriters(p) PROVE StreamInv'
  <2>1. use' = use /\ (up' => up)
    BY <1>12, Zenon DEF StopWriters
  <2>2. TypeOK'
    BY <1>1, <1>12, StopWritersType, Zenon
  <2>3. Kept(p)
    BY <1>12, StopWritersStep, Zenon
  <2> QED
    BY <1>3, <2>1, <2>2, <2>3, Zenon
<1>13. ASSUME NEW p \in Peer, Top(p) PROVE StreamInv'
  <2>1. use' = use /\ (up' => up)
    <3>1. use' = use /\ (up' = up \/ up' = FALSE)
      BY <1>13, Zenon DEF Top, LeaveLoop
    <3> QED
      BY <3>1
  <2>2. TypeOK'
    BY <1>1, <1>13, TopType, Zenon
  <2>3. Kept(p)
    BY <1>13, TopStep, Zenon
  <2> QED
    BY <1>3, <2>1, <2>2, <2>3, Zenon
<1>14. ASSUME NEW p \in Peer, Select(p) PROVE StreamInv'
  <2>1. use' = use /\ (up' => up)
    <3>1. use' = use /\ (up' = up \/ up' = FALSE)
      BY <1>14, Zenon DEF Select, LeaveLoop
    <3> QED
      BY <3>1
  <2>2. TypeOK'
    BY <1>1, <1>14, SelectType, Zenon
  <2>3. Kept(p)
    BY <1>14, SelectStep, Zenon
  <2> QED
    BY <1>3, <2>1, <2>2, <2>3, Zenon
<1>15. ASSUME NEW p \in Peer, Check(p) PROVE StreamInv'
  <2>1. use' = use /\ (up' => up)
    <3>1. use' = use /\ (up' = up \/ up' = FALSE)
      BY <1>15, Zenon DEF Check, LeaveLoop
    <3> QED
      BY <3>1
  <2>2. TypeOK'
    BY <1>1, <1>15, CheckType, Zenon
  <2>3. Kept(p)
    BY <1>15, CheckStep, Zenon
  <2> QED
    BY <1>3, <2>1, <2>2, <2>3, Zenon
<1>16. ASSUME NEW p \in Peer, ClientKex(p) PROVE StreamInv'
  <2>1. use' = use /\ (up' => up)
    BY <1>16, Zenon DEF ClientKex
  <2>2. TypeOK'
    BY <1>1, <1>16, ClientKexType, Zenon
  <2>3. Kept(p)
    BY <1>16, ClientKexStep, Zenon
  <2> QED
    BY <1>3, <2>1, <2>2, <2>3, Zenon
<1>17. ASSUME NEW p \in Peer, AgreeKey(p) PROVE StreamInv'
  <2>1. use' = use /\ (up' => up)
    BY <1>17, Zenon DEF AgreeKey
  <2>2. TypeOK'
    BY <1>1, <1>17, AgreeKeyType, Zenon
  <2>3. Kept(p)
    BY <1>17, AgreeKeyStep, Zenon
  <2> QED
    BY <1>3, <2>1, <2>2, <2>3, Zenon
<1>18. ASSUME NEW p \in Peer, ReadNewKeys(p) PROVE StreamInv'
  <2>1. use' = use /\ (up' => up)
    BY <1>18, Zenon DEF ReadNewKeys
  <2>2. TypeOK'
    BY <1>1, <1>18, ReadNewKeysType, Zenon
  <2>3. Kept(p)
    BY <1>18, ReadNewKeysStep, Zenon
  <2> QED
    BY <1>3, <2>1, <2>2, <2>3, Zenon
<1>19. ASSUME NEW p \in Peer, TellReader(p) PROVE StreamInv'
  <2>1. use' = use /\ (up' => up)
    BY <1>19, Zenon DEF TellReader
  <2>2. TypeOK'
    BY <1>1, <1>19, TellReaderType, Zenon
  <2>3. Kept(p)
    BY <1>19, TellReaderStep, Zenon
  <2> QED
    BY <1>3, <2>1, <2>2, <2>3, Zenon
<1>20. ASSUME NEW p \in Peer, Flush(p) PROVE StreamInv'
  <2>1. use' = use /\ (up' => up)
    BY <1>20, Zenon DEF Flush
  <2>2. TypeOK'
    BY <1>1, <1>20, FlushType, Zenon
  <2>3. Kept(p)
    BY <1>20, FlushStep, Zenon
  <2> QED
    BY <1>3, <2>1, <2>2, <2>3, Zenon
<1>21. ASSUME NEW p \in Peer, Drain(p) PROVE StreamInv'
  <2>1. use' = use /\ (up' => up)
    BY <1>21, Zenon DEF Drain
  <2>2. TypeOK'
    BY <1>1, <1>21, DrainType, Zenon
  <2>3. Kept(p)
    BY <1>21, DrainStep, Zenon
  <2> QED
    BY <1>3, <2>1, <2>2, <2>3, Zenon
<1>22. ASSUME NEW p \in Peer, Halt(p) PROVE StreamInv'
  <2>1. use' = use /\ (up' => up)
    BY <1>22, Zenon DEF Halt
  <2>2. TypeOK'
    BY <1>1, <1>22, HaltType, Zenon
  <2>3. Kept(p)
    BY <1>22, HaltStep, Zenon
  <2> QED
    BY <1>3, <2>1, <2>2, <2>3, Zenon
<1>23. CASE Lose
  <2>1. use' = use /\ (up' => up) /\ wire' = wire /\ \A q \in Peer : Same(q)
    BY <1>23, Zenon DEF Lose, Same, keyVars, kexVars, readVars, userVars
  <2> QED
    BY <1>1, <1>2, <1>23, <2>1, LoseType, Zenon
<1>24. CASE UNCHANGED vars
  <2>1. use' = use /\ (up' => up) /\ wire' = wire /\ \A q \in Peer : Same(q)
    BY <1>24, Zenon DEF vars, Same, keyVars, kexVars, readVars, userVars
  <2>2. TypeOK'
    BY <1>1, <1>24, Zenon DEF TypeOK, vars, keyVars, kexVars, readVars, userVars
  <2> QED
    BY <1>2, <2>1, <2>2, Zenon
<1> QED
  BY <1>4, <1>5, <1>6, <1>7, <1>8, <1>9, <1>10, <1>11, <1>12, <1>13, <1>14, <1>15, <1>16,
     <1>17, <1>18, <1>19, <1>20, <1>21, <1>22, <1>23, <1>24, Zenon DEF Next, ReadLoop, KexLoop

\* The invariant holds of every state the handshakes can reach.
LEMMA StreamAlways == Spec => []StreamInv
BY StreamInit, StreamNext, PTL DEF Spec

\* The invariant says that no end reads what it does not expect, and more.
LEMMA StreamAgrees == StreamInv => KeysAgree
<1> SUFFICES ASSUME StreamInv PROVE KeysAgree
  OBVIOUS
<1>1. KeysInStep
  BY Zenon DEF StreamInv, Stream, Chain, TailKey, KeysInStep
<1>2. NoProtocolError
  BY Zenon DEF StreamInv, Sound, NoneGivesUp, NoProtocolError
<1> QED
  BY <1>1, <1>2, Zenon DEF StreamInv, KeysAgree

\* The keys of the two directions change at the same point of the stream for the one that
\* sends and the one that reads, whatever rekeys begin and whatever is in flight; and unless an
\* end gives an exchange up, neither reads a packet it does not expect there.
THEOREM KeysAlwaysAgree == Spec => []KeysAgree
BY StreamAlways, StreamAgrees, PTL

-----------------------------------------------------------------------------
(* Packets keep their order.                                                *)

\* A packet is appended to a queue, or taken from it.
LEMMA NumbersAppend ==
    ASSUME NEW s \in Seq(Nat), NEW k \in Nat
    PROVE  /\ Numbers(Append(s, k)) = Numbers(s) \cup {k}
           /\ Ascends(s) /\ Precedes(Numbers(s), {k}) => Ascends(Append(s, k))
<1> DEFINE v == Append(s, k)
<1>1. /\ Len(s) \in Nat /\ DOMAIN s = 1..Len(s) /\ DOMAIN v = 1..(Len(s) + 1)
      /\ \A i \in 1..Len(s) : v[i] = s[i]
      /\ v[Len(s) + 1] = k
  OBVIOUS
<1> HIDE DEF v
<1>2. DOMAIN v = DOMAIN s \cup {Len(s) + 1}
  BY <1>1
<1>3. Numbers(v) = Numbers(s) \cup {k}
  BY <1>1, <1>2 DEF Numbers
<1>4. ASSUME Ascends(s), Precedes(Numbers(s), {k}) PROVE Ascends(v)
  <2> SUFFICES ASSUME NEW i \in DOMAIN v, NEW j \in DOMAIN v, i < j PROVE v[i] < v[j]
    BY Zenon DEF Ascends
  <2>1. i \in DOMAIN s /\ v[i] = s[i]
    BY <1>1
  <2>2. CASE j \in DOMAIN s
    BY <1>1, <1>4, <2>1, <2>2, Zenon DEF Ascends
  <2>3. CASE j = Len(s) + 1
    BY <1>1, <1>4, <2>1, <2>3, Zenon DEF Precedes, Numbers
  <2> QED
    BY <1>2, <2>2, <2>3, Zenon
<1> QED
  BY <1>3, <1>4, Zenon DEF v

\* The first of an ascending queue comes before the rest of it.
LEMMA NumbersTail ==
    ASSUME NEW s \in Seq(Nat), s # <<>>
    PROVE  /\ Head(s) \in Nat /\ Numbers(s) = {Head(s)} \cup Numbers(Tail(s))
           /\ Ascends(s) => Ascends(Tail(s)) /\ Precedes({Head(s)}, Numbers(Tail(s)))
<1> DEFINE v == Tail(s)
<1>1. /\ Len(s) \in Nat /\ Len(s) # 0 /\ DOMAIN s = 1..Len(s) /\ DOMAIN v = 1..(Len(s) - 1)
      /\ \A i \in 1..(Len(s) - 1) : v[i] = s[i + 1]
      /\ Head(s) = s[1] /\ Head(s) \in Nat
  OBVIOUS
<1> HIDE DEF v
<1>2. /\ 1 \in DOMAIN s
      /\ \A i \in DOMAIN v : i + 1 \in DOMAIN s /\ v[i] = s[i + 1] /\ 1 < i + 1
      /\ \A j \in DOMAIN s : j = 1 \/ \E i \in DOMAIN v : j = i + 1
  <2>1. \A j \in DOMAIN s : j = 1 \/ (j - 1 \in DOMAIN v /\ j = (j - 1) + 1)
    BY <1>1
  <2> QED
    BY <1>1, <2>1
<1>3. Numbers(s) = {Head(s)} \cup Numbers(v)
  <2>1. Numbers(v) \subseteq Numbers(s)
    BY <1>2 DEF Numbers
  <2>3. Head(s) \in Numbers(s)
    BY <1>1, <1>2, Zenon DEF Numbers
  <2>2. Numbers(s) \subseteq {Head(s)} \cup Numbers(v)
    BY <1>1, <1>2 DEF Numbers
  <2> QED
    BY <2>1, <2>2, <2>3, Zenon
<1>4. ASSUME Ascends(s) PROVE Precedes({Head(s)}, Numbers(v))
  <2>1. \A i \in DOMAIN v : s[1] < v[i]
    BY <1>2, <1>4 DEF Ascends
  <2> QED
    BY <1>1, <2>1, Zenon DEF Precedes, Numbers
<1>5. ASSUME Ascends(s) PROVE Ascends(v)
  <2> SUFFICES ASSUME NEW i \in DOMAIN v, NEW j \in DOMAIN v, i < j PROVE v[i] < v[j]
    BY Zenon DEF Ascends
  <2>1. i + 1 < j + 1
    BY <1>1
  <2> QED
    BY <1>2, <1>5, <2>1, Zenon DEF Ascends
<1> QED
  BY <1>1, <1>3, <1>4, <1>5, Zenon DEF v

\* The empty queue.
LEMMA NumbersEmpty == Numbers(<<>>) = {} /\ Ascends(<<>>)
<1>1. DOMAIN <<>> = {}
  OBVIOUS
<1> QED
  BY <1>1, Zenon DEF Numbers, Ascends

\* Packets are sent: data behind all data of the wire, or something else.
LEMMA DataSent ==
    ASSUME NEW w \in Seq(Packet), NEW x \in Packet
    PROVE  /\ DataIn(w \o <<x>>) = DataIn(w) \cup (IF x.type = "data" THEN {x.n} ELSE {})
           /\ DataAscends(w) /\ (x.type = "data" => Precedes(DataIn(w), {x.n}))
                  => DataAscends(w \o <<x>>)
<1> DEFINE v == w \o <<x>>
<1>1. /\ Len(w) \in Nat /\ DOMAIN w = 1..Len(w) /\ DOMAIN v = 1..(Len(w) + 1)
      /\ \A i \in 1..Len(w) : v[i] = w[i]
      /\ v[Len(w) + 1] = x
  OBVIOUS
<1> HIDE DEF v
<1>2. DOMAIN v = DOMAIN w \cup {Len(w) + 1}
  BY <1>1
<1>3. DataIn(v) = DataIn(w) \cup (IF x.type = "data" THEN {x.n} ELSE {})
  <2>1. \A i \in DOMAIN w : i \in DOMAIN v /\ v[i] = w[i]
    BY <1>1, <1>2, Zenon
  <2>2. Len(w) + 1 \in DOMAIN v /\ v[Len(w) + 1] = x
    BY <1>1, <1>2, Zenon
  <2>3. \A i \in DOMAIN v : (i \in DOMAIN w /\ v[i] = w[i]) \/ v[i] = x
    BY <1>1, <1>2, Zenon
  <2>4. DataIn(v) \subseteq DataIn(w) \cup (IF x.type = "data" THEN {x.n} ELSE {})
    BY <2>3, Zenon DEF DataIn
  <2>5. DataIn(w) \subseteq DataIn(v)
    BY <2>1, Zenon DEF DataIn
  <2>6. x.type = "data" => x.n \in DataIn(v)
    BY <2>2, Zenon DEF DataIn
  <2> QED
    BY <2>4, <2>5, <2>6, Zenon
<1>4. ASSUME DataAscends(w), x.type = "data" => Precedes(DataIn(w), {x.n})
      PROVE  DataAscends(v)
  <2> SUFFICES ASSUME NEW i \in DOMAIN v, NEW j \in DOMAIN v, i < j,
                      v[i].type = "data", v[j].type = "data"
               PROVE  v[i].n < v[j].n
    BY Zenon DEF DataAscends
  <2>1. i \in DOMAIN w /\ v[i] = w[i]
    BY <1>1
  <2>2. CASE j \in DOMAIN w
    BY <1>1, <1>4, <2>1, <2>2, Zenon DEF DataAscends
  <2>3. CASE j = Len(w) + 1
    BY <1>1, <1>4, <2>1, <2>3, Zenon DEF Precedes, DataIn
  <2> QED
    BY <1>2, <2>2, <2>3, Zenon
<1> QED
  BY <1>3, <1>4, Zenon DEF v

\* A packet is taken from the wire.
LEMMA DataTaken ==
    ASSUME NEW w \in Seq(Packet), w # <<>>
    PROVE  /\ DataIn(w) = DataIn(Tail(w)) \cup (IF w[1].type = "data" THEN {w[1].n} ELSE {})
           /\ DataAscends(w) => /\ DataAscends(Tail(w))
                                /\ w[1].type = "data" => Precedes({w[1].n}, DataIn(Tail(w)))
<1> DEFINE v == Tail(w)
<1>1. /\ Len(w) \in Nat /\ Len(w) # 0 /\ DOMAIN w = 1..Len(w) /\ DOMAIN v = 1..(Len(w) - 1)
      /\ \A i \in 1..(Len(w) - 1) : v[i] = w[i + 1]
  OBVIOUS
<1> HIDE DEF v
<1>2. /\ 1 \in DOMAIN w
      /\ \A i \in DOMAIN v : i + 1 \in DOMAIN w /\ v[i] = w[i + 1] /\ 1 < i + 1
      /\ \A j \in DOMAIN w : j = 1 \/ \E i \in DOMAIN v : j = i + 1
  <2>1. \A j \in DOMAIN w : j = 1 \/ (j - 1 \in DOMAIN v /\ j = (j - 1) + 1)
    BY <1>1
  <2> QED
    BY <1>1, <2>1
<1>3. DataIn(w) = DataIn(v) \cup (IF w[1].type = "data" THEN {w[1].n} ELSE {})
  <2>1. DataIn(v) \subseteq DataIn(w)
    BY <1>2 DEF DataIn
  <2>2. w[1].type = "data" => w[1].n \in DataIn(w)
    BY <1>2, Zenon DEF DataIn
  <2>3. DataIn(w) \subseteq DataIn(v) \cup (IF w[1].type = "data" THEN {w[1].n} ELSE {})
    BY <1>2 DEF DataIn
  <2> QED
    BY <2>1, <2>2, <2>3, Zenon
<1>4. ASSUME DataAscends(w), w[1].type = "data" PROVE Precedes({w[1].n}, DataIn(v))
  <2>1. \A i \in DOMAIN v : v[i].type = "data" => w[1].n < v[i].n
    BY <1>2, <1>4, Zenon DEF DataAscends
  <2> QED
    BY <2>1, Zenon DEF Precedes, DataIn
<1>5. ASSUME DataAscends(w) PROVE DataAscends(v)
  <2> SUFFICES ASSUME NEW i \in DOMAIN v, NEW j \in DOMAIN v, i < j,
                      v[i].type = "data", v[j].type = "data"
               PROVE  v[i].n < v[j].n
    BY Zenon DEF DataAscends
  <2>1. i + 1 < j + 1
    BY <1>1
  <2> QED
    BY <1>2, <1>5, <2>1, Zenon DEF DataAscends
<1> QED
  BY <1>3, <1>4, <1>5, Zenon DEF v

\* The queue is sent.
LEMMA DataFlushed ==
    ASSUME NEW w \in Seq(Packet), NEW s \in Seq(Nat), NEW f \in Seq(Packet),
           DOMAIN f = DOMAIN s, \A i \in DOMAIN s : f[i].type = "data" /\ f[i].n = s[i]
    PROVE  /\ DataIn(w \o f) = DataIn(w) \cup Numbers(s)
           /\ DataAscends(w) /\ Ascends(s) /\ Precedes(DataIn(w), Numbers(s))
                  => DataAscends(w \o f)
<1> DEFINE v == w \o f
<1>1. /\ Len(w) \in Nat /\ Len(f) \in Nat /\ DOMAIN w = 1..Len(w) /\ DOMAIN f = 1..Len(f)
      /\ DOMAIN v = 1..(Len(w) + Len(f))
      /\ \A i \in 1..Len(w) : v[i] = w[i]
      /\ \A i \in 1..Len(f) : v[Len(w) + i] = f[i]
  OBVIOUS
<1> HIDE DEF v
<1>2. \A i \in DOMAIN w : i \in DOMAIN v /\ v[i] = w[i]
  BY <1>1
<1>3. \A i \in DOMAIN s : Len(w) + i \in DOMAIN v /\ v[Len(w) + i] = f[i]
  BY <1>1
<1>4. \A i \in DOMAIN v : i \in DOMAIN w \/ \E j \in DOMAIN s : i = Len(w) + j
  <2>1. \A i \in DOMAIN v : i \in DOMAIN w \/ (i - Len(w) \in DOMAIN s /\ i = Len(w) + (i - Len(w)))
    BY <1>1
  <2> QED
    BY <2>1, Zenon
<1>5. DataIn(v) = DataIn(w) \cup Numbers(s)
  <2>1. DataIn(w) \subseteq DataIn(v)
    BY <1>2, Zenon DEF DataIn
  <2>2. Numbers(s) \subseteq DataIn(v)
    BY <1>3 DEF DataIn, Numbers
  <2>3. DataIn(v) \subseteq DataIn(w) \cup Numbers(s)
    BY <1>2, <1>3, <1>4 DEF DataIn, Numbers
  <2> QED
    BY <2>1, <2>2, <2>3, Zenon
<1>6. ASSUME DataAscends(w), Ascends(s), Precedes(DataIn(w), Numbers(s))
      PROVE  DataAscends(v)
  <2> SUFFICES ASSUME NEW i \in DOMAIN v, NEW j \in DOMAIN v, i < j,
                      v[i].type = "data", v[j].type = "data"
               PROVE  v[i].n < v[j].n
    BY Zenon DEF DataAscends
  <2>1. CASE i \in DOMAIN w /\ j \in DOMAIN w
    BY <1>2, <1>6, <2>1, Zenon DEF DataAscends
  <2>2. ASSUME i \in DOMAIN w, NEW b \in DOMAIN s, j = Len(w) + b PROVE v[i].n < v[j].n
    <3>1. v[i] = w[i] /\ v[j].n = s[b]
      BY <1>2, <1>3, <2>2, Zenon
    <3>2. w[i].n \in DataIn(w) /\ s[b] \in Numbers(s)
      BY <2>2, <3>1, Zenon DEF DataIn, Numbers
    <3> QED
      BY <1>6, <3>1, <3>2, Zenon DEF Precedes
  <2>3. ASSUME NEW a \in DOMAIN s, NEW b \in DOMAIN s, i = Len(w) + a, j = Len(w) + b
        PROVE  v[i].n < v[j].n
    <3>1. a < b
      BY <1>1, <2>3
    <3>2. v[i].n = s[a] /\ v[j].n = s[b]
      BY <1>3, <2>3, Zenon
    <3> QED
      BY <1>6, <3>1, <3>2, Zenon DEF Ascends
  <2>4. i \in DOMAIN w \/ j \notin DOMAIN w
    BY <1>1
  <2> QED
    BY <1>4, <2>1, <2>2, <2>3, <2>4, Zenon
<1> QED
  BY <1>5, <1>6, Zenon DEF v

\* The packets between the two users of a direction: the last one read, those in incoming,
\* in the hands of readLoop, on the wire and in the queue, and how many were written.
Flow(g, i, h, w, q, n) ==
    /\ Ascends(i) /\ DataAscends(w) /\ Ascends(q)
    /\ Ordered({g}, Numbers(i), h, DataIn(w), Numbers(q), {n + 1})

\* None of them is missing.
Full(g, i, h, w, q, n) ==
    (g + 1)..n \subseteq Numbers(i) \cup h \cup DataIn(w) \cup Numbers(q)

\* The types of these.
FlowType(g, i, h, w, q, n) ==
    /\ g \in Nat /\ i \in Seq(Nat) /\ h \subseteq Nat /\ w \in Seq(Packet)
    /\ q \in Seq(Nat) /\ n \in Nat

\* The numbers are numbers.
LEMMA FlowNumbers ==
    ASSUME NEW g, NEW i, NEW h, NEW w, NEW q, NEW n, FlowType(g, i, h, w, q, n)
    PROVE  /\ Numbers(i) \subseteq Nat /\ DataIn(w) \subseteq Nat /\ Numbers(q) \subseteq Nat
           /\ g \in Nat /\ h \subseteq Nat /\ n \in Nat
<1>1. i \in Seq(Nat) /\ q \in Seq(Nat) /\ w \in Seq(Packet)
  BY Zenon DEF FlowType
<1>2. Numbers(i) \subseteq Nat /\ Numbers(q) \subseteq Nat
  BY <1>1 DEF Numbers
<1>3. \A j \in DOMAIN w : w[j] \in Packet
  BY <1>1
<1>4. \A j \in DOMAIN w : w[j].n \in Nat
  BY <1>3 DEF Packet
<1>5. DataIn(w) \subseteq Nat
  BY <1>4, Zenon DEF DataIn
<1> QED
  BY <1>2, <1>5, Zenon DEF FlowType

\* One more packet is written: all others come before it.
LEMMA OrderedNext ==
    ASSUME NEW A, NEW B, NEW C, NEW D, NEW E, NEW n \in Nat, A \subseteq Nat, B \subseteq Nat,
           C \subseteq Nat, D \subseteq Nat, E \subseteq Nat, Ordered(A, B, C, D, E, {n})
    PROVE  /\ Ordered(A, B, C, D, E, {n + 1})
           /\ Ordered(A, B, C, D, E \cup {n}, {n + 1})
           /\ E = {} => Ordered(A, B, C, D \cup {n}, E, {n + 1})
<1>1. Precedes(A \cup B \cup C \cup D \cup E, {n})
  BY Zenon DEF Ordered, Precedes
<1>2. Precedes(A \cup B \cup C \cup D \cup E, {n + 1}) /\ Precedes({n}, {n + 1})
  BY <1>1 DEF Precedes
<1>3. Ordered(A, B, C, D, E, {n + 1})
  BY <1>2, Zenon DEF Ordered, Precedes
<1>4. Ordered(A, B, C, D, E \cup {n}, {n + 1})
  BY <1>1, <1>2, Zenon DEF Ordered, Precedes
<1>5. E = {} => Ordered(A, B, C, D \cup {n}, E, {n + 1})
  BY <1>1, <1>2, Zenon DEF Ordered, Precedes
<1> QED
  BY <1>3, <1>4, <1>5, Zenon

\* writePacket queues a packet, sends it, or fails to.
LEMMA FlowQueue ==
    ASSUME NEW g, NEW i, NEW h, NEW w, NEW q, NEW n, FlowType(g, i, h, w, q, n),
           Flow(g, i, h, w, q, n)
    PROVE  /\ Flow(g, i, h, w, Append(q, n + 1), n + 1)
           /\ Full(g, i, h, w, q, n) => Full(g, i, h, w, Append(q, n + 1), n + 1)
<1>1. /\ Numbers(i) \subseteq Nat /\ DataIn(w) \subseteq Nat /\ Numbers(q) \subseteq Nat
      /\ g \in Nat /\ h \subseteq Nat /\ n \in Nat
  BY FlowNumbers, Zenon
<1>2. n + 1 \in Nat /\ {g} \subseteq Nat
  BY <1>1
<1>3. q \in Seq(Nat)
  BY Zenon DEF FlowType
<1>4. Ordered({g}, Numbers(i), h, DataIn(w), Numbers(q) \cup {n + 1}, {(n + 1) + 1})
  BY <1>1, <1>2, OrderedNext, Zenon DEF Flow
<1>5. Numbers(Append(q, n + 1)) = Numbers(q) \cup {n + 1}
  BY <1>2, <1>3, NumbersAppend, Zenon
<1>6. Ascends(Append(q, n + 1))
  <2>1. Ascends(q) /\ Precedes(Numbers(q), {n + 1})
    BY Zenon DEF Flow, Ordered
  <2> QED
    BY <1>2, <1>3, <2>1, NumbersAppend, Zenon
<1>7. \A m \in (g + 1)..(n + 1) : m \in (g + 1)..n \/ m = n + 1
  BY <1>1
<1> QED
  BY <1>4, <1>5, <1>6, <1>7, Zenon DEF Flow, Full

\* ... it puts the packet on the wire when nothing is queued ...
LEMMA FlowPush ==
    ASSUME NEW g, NEW i, NEW h, NEW w, NEW n, FlowType(g, i, h, w, <<>>, n),
           Flow(g, i, h, w, <<>>, n), NEW x \in Packet, x.type = "data", x.n = n + 1
    PROVE  /\ Flow(g, i, h, w \o <<x>>, <<>>, n + 1)
           /\ Full(g, i, h, w, <<>>, n) => Full(g, i, h, w \o <<x>>, <<>>, n + 1)
<1>1. /\ Numbers(i) \subseteq Nat /\ DataIn(w) \subseteq Nat
      /\ g \in Nat /\ h \subseteq Nat /\ n \in Nat
  BY FlowNumbers, Zenon
<1>2. n + 1 \in Nat /\ {g} \subseteq Nat /\ {} \subseteq Nat
  BY <1>1
<1>3. w \in Seq(Packet) /\ Numbers(<<>>) = {}
  BY NumbersEmpty, Zenon DEF FlowType
<1>4. Ordered({g}, Numbers(i), h, DataIn(w) \cup {n + 1}, {}, {(n + 1) + 1})
  BY <1>1, <1>2, <1>3, OrderedNext, Zenon DEF Flow
<1>5. DataIn(w \o <<x>>) = DataIn(w) \cup {n + 1}
  BY <1>3, DataSent, Zenon
<1>6. DataAscends(w \o <<x>>)
  <2>1. DataAscends(w) /\ Precedes(DataIn(w), {n + 1})
    BY Zenon DEF Flow, Ordered, Precedes
  <2> QED
    BY <1>3, <2>1, DataSent, Zenon
<1>7. \A m \in (g + 1)..(n + 1) : m \in (g + 1)..n \/ m = n + 1
  BY <1>1
<1> QED
  BY <1>3, <1>4, <1>5, <1>6, <1>7, Zenon DEF Flow, Full

\* ... or writes a packet that is lost: it is none of the packets on their way.
LEMMA FlowLost ==
    ASSUME NEW g, NEW i, NEW h, NEW w, NEW q, NEW n, FlowType(g, i, h, w, q, n),
           Flow(g, i, h, w, q, n)
    PROVE  Flow(g, i, h, w, q, n + 1)
<1>1. /\ Numbers(i) \subseteq Nat /\ DataIn(w) \subseteq Nat /\ Numbers(q) \subseteq Nat
      /\ g \in Nat /\ h \subseteq Nat /\ n \in Nat
  BY FlowNumbers, Zenon
<1>2. n + 1 \in Nat /\ {g} \subseteq Nat
  BY <1>1
<1>3. Ordered({g}, Numbers(i), h, DataIn(w), Numbers(q), {(n + 1) + 1})
  BY <1>1, <1>2, OrderedNext, Zenon DEF Flow
<1> QED
  BY <1>3, Zenon DEF Flow

\* What is no data does not count.
LEMMA FlowOther ==
    ASSUME NEW g, NEW i, NEW h, NEW w \in Seq(Packet), NEW q, NEW n, Flow(g, i, h, w, q, n),
           NEW x \in Packet, x.type # "data"
    PROVE  /\ Flow(g, i, h, w \o <<x>>, q, n)
           /\ Full(g, i, h, w, q, n) => Full(g, i, h, w \o <<x>>, q, n)
<1>1. DataIn(w \o <<x>>) = DataIn(w)
  BY DataSent, Zenon
<1>2. DataAscends(w \o <<x>>)
  BY DataSent, Zenon DEF Flow
<1> QED
  BY <1>1, <1>2, Zenon DEF Flow, Full

\* A packet of the wire is taken, and lost unless it is no data.
LEMMA FlowDrop ==
    ASSUME NEW g, NEW i, NEW h, NEW w \in Seq(Packet), NEW q, NEW n, Flow(g, i, h, w, q, n),
           w # <<>>
    PROVE  /\ Flow(g, i, h, Tail(w), q, n)
           /\ w[1].type # "data" /\ Full(g, i, h, w, q, n) => Full(g, i, h, Tail(w), q, n)
<1>1. DataIn(w) = DataIn(Tail(w)) \cup (IF w[1].type = "data" THEN {w[1].n} ELSE {})
  BY DataTaken, Zenon
<1>2. DataAscends(Tail(w))
  BY DataTaken, Zenon DEF Flow
<1>3. DataIn(Tail(w)) \subseteq DataIn(w) /\ (w[1].type # "data" => DataIn(Tail(w)) = DataIn(w))
  BY <1>1, Zenon
<1>4. Ordered({g}, Numbers(i), h, DataIn(Tail(w)), Numbers(q), {n + 1})
  BY <1>3, Zenon DEF Flow, Ordered, Precedes
<1> QED
  BY <1>2, <1>3, <1>4, Zenon DEF Flow, Full

\* readOnePacket returns a packet of the wire.
LEMMA FlowHand ==
    ASSUME NEW g, NEW i, NEW w \in Seq(Packet), NEW q, NEW n, Flow(g, i, {}, w, q, n),
           w # <<>>, w[1].type = "data"
    PROVE  /\ Flow(g, i, {w[1].n}, Tail(w), q, n)
           /\ Full(g, i, {}, w, q, n) => Full(g, i, {w[1].n}, Tail(w), q, n)
<1>1. DataIn(w) = DataIn(Tail(w)) \cup {w[1].n}
  BY DataTaken, Zenon
<1>2. DataAscends(Tail(w)) /\ Precedes({w[1].n}, DataIn(Tail(w)))
  BY DataTaken, Zenon DEF Flow
<1>3. Ordered({g}, Numbers(i), {w[1].n}, DataIn(Tail(w)), Numbers(q), {n + 1})
  BY <1>1, <1>2, Zenon DEF Flow, Ordered, Precedes
<1>4. Full(g, i, {}, w, q, n) => Full(g, i, {w[1].n}, Tail(w), q, n)
  BY <1>1, Zenon DEF Full
<1> QED
  BY <1>2, <1>3, <1>4, Zenon DEF Flow

\* readLoop hands a packet to the reader, or drops it.
LEMMA FlowDeliver ==
    ASSUME NEW g, NEW i, NEW k \in Nat, NEW w, NEW q, NEW n, i \in Seq(Nat),
           Flow(g, i, {k}, w, q, n)
    PROVE  /\ Flow(g, Append(i, k), {}, w, q, n)
           /\ Full(g, i, {k}, w, q, n) => Full(g, Append(i, k), {}, w, q, n)
           /\ Flow(g, i, {}, w, q, n)
<1>1. Numbers(Append(i, k)) = Numbers(i) \cup {k}
  BY NumbersAppend, Zenon
<1>2. Ascends(i) /\ Precedes(Numbers(i), {k})
  BY Zenon DEF Flow, Ordered, Precedes
<1>3. Ascends(Append(i, k))
  BY <1>2, NumbersAppend, Zenon
<1>4. Ordered({g}, Numbers(i) \cup {k}, {}, DataIn(w), Numbers(q), {n + 1})
  BY Zenon DEF Flow, Ordered, Precedes
<1>5. Ordered({g}, Numbers(i), {}, DataIn(w), Numbers(q), {n + 1})
  BY Zenon DEF Flow, Ordered, Precedes
<1>6. Full(g, i, {k}, w, q, n) => Full(g, Append(i, k), {}, w, q, n)
  BY <1>1, Zenon DEF Full
<1> QED
  BY <1>1, <1>3, <1>4, <1>5, <1>6, Zenon DEF Flow

\* readPacket returns a packet to the user.
LEMMA FlowRead ==
    ASSUME NEW g, NEW i, NEW h, NEW w, NEW q, NEW n, FlowType(g, i, h, w, q, n),
           Flow(g, i, h, w, q, n), i # <<>>
    PROVE  /\ Flow(Head(i), Tail(i), h, w, q, n)
           /\ Full(g, i, h, w, q, n) => Full(Head(i), Tail(i), h, w, q, n)
<1>1. i \in Seq(Nat) /\ g \in Nat /\ n \in Nat
  BY Zenon DEF FlowType
<1>2. Head(i) \in Nat /\ Numbers(i) = {Head(i)} \cup Numbers(Tail(i))
  BY <1>1, NumbersTail, Zenon
<1>3. Ascends(Tail(i)) /\ Precedes({Head(i)}, Numbers(Tail(i)))
  BY <1>1, NumbersTail, Zenon DEF Flow
<1>4. Ordered({Head(i)}, Numbers(Tail(i)), h, DataIn(w), Numbers(q), {n + 1})
  BY <1>2, <1>3, Zenon DEF Flow, Ordered, Precedes
<1>5. g < Head(i)
  BY <1>2, Zenon DEF Flow, Ordered, Precedes
<1> DEFINE k == Head(i)
<1>6. k \in Nat /\ g < k
  BY <1>2, <1>5, Zenon
<1> HIDE DEF k
<1>7. \A m \in (k + 1)..n : m \in (g + 1)..n /\ m # k
  BY <1>1, <1>6
<1>8. Full(g, i, h, w, q, n) => Full(k, Tail(i), h, w, q, n)
  BY <1>2, <1>7, Zenon DEF Full, k
<1> QED
  BY <1>3, <1>4, <1>8, Zenon DEF Flow, k

\* The queue is sent after an exchange, or dropped.
LEMMA FlowFlush ==
    ASSUME NEW g, NEW i, NEW h, NEW w \in Seq(Packet), NEW q \in Seq(Nat), NEW n,
           Flow(g, i, h, w, q, n), NEW f \in Seq(Packet),
           DOMAIN f = DOMAIN q, \A j \in DOMAIN q : f[j].type = "data" /\ f[j].n = q[j]
    PROVE  /\ Flow(g, i, h, w \o f, <<>>, n)
           /\ Full(g, i, h, w, q, n) => Full(g, i, h, w \o f, <<>>, n)
           /\ Flow(g, i, h, w, <<>>, n)
<1>1. DataIn(w \o f) = DataIn(w) \cup Numbers(q)
  BY DataFlushed, Zenon
<1>2. DataAscends(w \o f)
  <2>1. DataAscends(w) /\ Ascends(q) /\ Precedes(DataIn(w), Numbers(q))
    BY Zenon DEF Flow, Ordered, Precedes
  <2> QED
    BY <2>1, DataFlushed, Zenon
<1>3. Numbers(<<>>) = {} /\ Ascends(<<>>)
  BY NumbersEmpty
<1>4. Ordered({g}, Numbers(i), h, DataIn(w) \cup Numbers(q), {}, {n + 1})
  BY Zenon DEF Flow, Ordered, Precedes
<1>5. Ordered({g}, Numbers(i), h, DataIn(w), {}, {n + 1})
  BY Zenon DEF Flow, Ordered, Precedes
<1>6. Full(g, i, h, w, q, n) => Full(g, i, h, w \o f, <<>>, n)
  BY <1>1, <1>3, Zenon DEF Full
<1> QED
  BY <1>1, <1>2, <1>3, <1>4, <1>5, <1>6, Zenon DEF Flow

\* The packets on their way to the user of an end, and that none is missing as long as the
\* connection works and no end gives up.
FlowAt(p) == Flow(got[p], incoming[p], Held(p), wire[Other(p)], pending[Other(p)], written[Other(p)])
FullAt(p) == Full(got[p], incoming[p], Held(p), wire[Other(p)], pending[Other(p)], written[Other(p)])
Order(p) == FlowAt(p) /\ (up /\ NoneGivesUp => FullAt(p))

\* The property, one direction at a time.
LEMMA OrderIs == PacketsInOrder <=> \A p \in Peer : Order(p)
BY Zenon DEF PacketsInOrder, Order, FlowAt, FullAt, Flow, Full, NoneGivesUp

\* The packets on their way to an end are of the types the lemmas above ask for.
LEMMA FlowTyped ==
    ASSUME TypeOK, NEW p \in Peer
    PROVE  FlowType(got[p], incoming[p], Held(p), wire[Other(p)], pending[Other(p)], written[Other(p)])
<1>1. Other(p) \in Peer
  BY OtherPeer
<1>2. hand[p] \in Nat
  BY Zenon DEF TypeOK
<1>3. Held(p) \subseteq Nat
  BY <1>2, Zenon DEF Held
<1> QED
  BY <1>1, <1>3, Zenon DEF TypeOK, FlowType

\* What the packets on their way to p consist of, but for those on the wire.
Keeps(p) ==
    /\ got'[p] = got[p] /\ incoming'[p] = incoming[p] /\ Held(p)' = Held(p)
    /\ pending'[Other(p)] = pending[Other(p)] /\ written'[Other(p)] = written[Other(p)]

\* A step that touches none of them.
LEMMA OrderSame ==
    ASSUME NEW p \in Peer, Order(p), use' = use, up' => up, Keeps(p),
           wire'[Other(p)] = wire[Other(p)]
    PROVE  Order(p)'
<1>1. NoneGivesUp' = NoneGivesUp
  BY Zenon DEF NoneGivesUp
<1>2. FlowAt(p)' = FlowAt(p) /\ FullAt(p)' = FullAt(p)
  BY Zenon DEF FlowAt, FullAt, Keeps
<1> QED
  BY <1>1, <1>2, Zenon DEF Order

\* The same for both directions.
LEMMA OrderStill ==
    ASSUME \A p \in Peer : Order(p), use' = use, up' => up, wire' = wire, got' = got,
           incoming' = incoming, pending' = pending, written' = written,
           \A p \in Peer : Held(p)' = Held(p)
    PROVE  \A p \in Peer : Order(p)'
<1> TAKE p \in Peer
<1>1. Keeps(p)
  BY Zenon DEF Keeps
<1> QED
  BY <1>1, OrderSame, Zenon

\* A message of the exchange, or a kexInit, is sent.
LEMMA OrderSent ==
    ASSUME NEW p \in Peer, Order(p), use' = use, up' => up, Keeps(p),
           wire[Other(p)] \in Seq(Packet), NEW x \in Packet, x.type # "data",
           wire'[Other(p)] = wire[Other(p)] \o <<x>>
    PROVE  Order(p)'
<1>1. NoneGivesUp' = NoneGivesUp
  BY Zenon DEF NoneGivesUp
<1>2. FlowAt(p)'
  BY FlowOther, Zenon DEF FlowAt, Order, Keeps
<1>3. FullAt(p) => FullAt(p)'
  BY FlowOther, Zenon DEF FlowAt, FullAt, Order, Keeps
<1> QED
  BY <1>1, <1>2, <1>3, Zenon DEF Order

\* Two of them are sent.
LEMMA OrderSentTwo ==
    ASSUME NEW p \in Peer, Order(p), use' = use, up' => up, Keeps(p),
           wire[Other(p)] \in Seq(Packet), NEW x \in Packet, x.type # "data",
           NEW y \in Packet, y.type # "data",
           wire'[Other(p)] = (wire[Other(p)] \o <<x>>) \o <<y>>
    PROVE  Order(p)'
<1> DEFINE q == Other(p)
           w == wire[Other(p)] \o <<x>>
<1>1. NoneGivesUp' = NoneGivesUp
  BY Zenon DEF NoneGivesUp
<1>2. /\ Flow(got[p], incoming[p], Held(p), w, pending[q], written[q])
      /\ FullAt(p) => Full(got[p], incoming[p], Held(p), w, pending[q], written[q])
  BY FlowOther, Zenon DEF FlowAt, FullAt, Order
<1>3. w \in Seq(Packet) /\ wire'[q] = w \o <<y>>
  OBVIOUS
<1> HIDE DEF w
<1>4. FlowAt(p)'
  BY <1>2, <1>3, FlowOther, Zenon DEF FlowAt, Keeps
<1>5. FullAt(p) => FullAt(p)'
  BY <1>2, <1>3, FlowOther, Zenon DEF FullAt, Keeps
<1> QED
  BY <1>1, <1>4, <1>5, Zenon DEF Order

\* A packet of the wire is taken by an exchange.
LEMMA OrderTaken ==
    ASSUME NEW p \in Peer, Order(p), use' = use, up' => up, Keeps(p),
           wire[Other(p)] \in Seq(Packet), wire[Other(p)] # <<>>,
           wire'[Other(p)] = Tail(wire[Other(p)]),
           wire[Other(p)][1].type # "data" \/ ~NoneGivesUp
    PROVE  Order(p)'
<1>1. NoneGivesUp' = NoneGivesUp
  BY Zenon DEF NoneGivesUp
<1>2. FlowAt(p)'
  BY FlowDrop, Zenon DEF FlowAt, Order, Keeps
<1>3. wire[Other(p)][1].type # "data" /\ FullAt(p) => FullAt(p)'
  BY FlowDrop, Zenon DEF FlowAt, FullAt, Order, Keeps
<1> QED
  BY <1>1, <1>2, <1>3, Zenon DEF Order

\* What the two ends of a step keep has to be shown for each.
LEMMA OrderBoth ==
    ASSUME NEW p \in Peer, Order(p)', Order(Other(p))'
    PROVE  \A q \in Peer : Order(q)'
<1>1. \A q \in Peer : q = p \/ q = Other(p)
  BY DEF Peer, Other
<1> QED
  BY <1>1, Zenon

\* writePacket queues the packet while its end is exchanging keys, and sends it otherwise.
LEMMA WritePacketOrder ==
    ASSUME StreamInv, \A p \in Peer : Order(p), NEW a \in Peer, WritePacket(a)
    PROVE  \A p \in Peer : Order(p)'
<1> DEFINE p == Other(a)
           n == written[a]
<1>1. p \in Peer /\ Other(p) = a /\ p # a
  BY OtherPeer, Zenon
<1>2. TypeOK /\ Order(a) /\ Order(p) /\ Locking(a)
  BY <1>1, Zenon DEF StreamInv, Loops
<1>3. /\ pending \in [Peer -> Seq(Nat)] /\ written \in [Peer -> Nat]
      /\ wire \in [Peer -> Seq(Packet)] /\ wkey \in [Peer -> Nat]
  BY <1>2, Zenon DEF TypeOK
<1>4. use' = use /\ up' = up /\ got' = got /\ incoming' = incoming /\ rpc' = rpc /\ hand' = hand
  BY Zenon DEF WritePacket, readVars
<1>5. Held(a)' = Held(a) /\ Held(p)' = Held(p) /\ NoneGivesUp' = NoneGivesUp
  BY <1>4, Zenon DEF Held, NoneGivesUp
<1>6. n + 1 \in Nat /\ wire[a] \in Seq(Packet)
  BY <1>3
<1>7. Order(a)'
  <2>1. pending'[p] = pending[p] /\ written'[p] = written[p]
    BY <1>1, <1>3, Zenon DEF WritePacket, Push, Queue
  <2>2. wire'[p] = wire[p]
    BY <1>1, <1>3, Zenon DEF WritePacket, Push, Queue, Sent
  <2>3. Keeps(a)
    BY <1>4, <1>5, <2>1, Zenon DEF Keeps
  <2> QED
    BY <1>2, <1>4, <2>2, <2>3, OrderSame, Zenon
<1>8. FlowType(got[p], incoming[p], Held(p), wire[a], pending[a], n)
  BY <1>1, <1>2, FlowTyped, Zenon
<1>9. Flow(got[p], incoming[p], Held(p), wire[a], pending[a], n)
  BY <1>1, <1>2, Zenon DEF Order, FlowAt
<1>10. FlowAt(p)' = Flow(got[p], incoming[p], Held(p), wire'[a], pending'[a], written'[a])
  BY <1>1, <1>4, <1>5, Zenon DEF FlowAt
<1>11. /\ FullAt(p) = Full(got[p], incoming[p], Held(p), wire[a], pending[a], n)
       /\ FullAt(p)' = Full(got[p], incoming[p], Held(p), wire'[a], pending'[a], written'[a])
  BY <1>1, <1>4, <1>5, Zenon DEF FullAt
<1>12. Order(p)'
  <2>1. CASE /\ wire' = wire /\ pending' = pending /\ written' = written
    BY <1>2, <1>4, <1>5, <1>9, <1>10, <1>11, <2>1, Zenon DEF Order
  <2>2. CASE /\ written' = [written EXCEPT ![a] = @ + 1] /\ Queue(a, n + 1)
    <3>1. wire' = wire /\ pending'[a] = Append(pending[a], n + 1) /\ written'[a] = n + 1
      BY <1>3, <2>2, Zenon DEF Queue
    <3>2. FlowAt(p)' /\ (FullAt(p) => FullAt(p)')
      BY <3>1, <1>8, <1>9, <1>10, <1>11, FlowQueue, Zenon
    <3> QED
      BY <1>2, <1>4, <1>5, <3>2, Zenon DEF Order
  <2>3. CASE /\ ~sentInit[a] /\ written' = [written EXCEPT ![a] = @ + 1] /\ Push(a, n + 1)
    <3>1. pending[a] = <<>> /\ pending'[a] = <<>> /\ written'[a] = n + 1
      BY <1>2, <1>3, <2>3, Zenon DEF Push, Locking, WritePacket
    <3>2. CASE ~up
      <4>1. wire'[a] = wire[a]
        BY <2>3, <3>2, Zenon DEF Push, Sent
      <4>2. FlowAt(p)'
        BY <1>8, <1>9, <1>10, <3>1, <4>1, FlowLost, Zenon
      <4> QED
        BY <1>4, <3>2, <4>2, Zenon DEF Order
    <3>3. CASE up
      <4> DEFINE x == Encrypted(a, "data", n + 1)
      <4>1. x \in Packet
        BY <1>3, <1>6, EncryptedType, Zenon
      <4>2. x.type = "data" /\ x.n = n + 1
        BY DEF Encrypted
      <4>3. wire'[a] = wire[a] \o <<x>>
        BY <1>3, <2>3, <3>3, SentWires, Zenon DEF Push
      <4> HIDE DEF x, n
      <4>4. FlowAt(p)' /\ (FullAt(p) => FullAt(p)')
        BY <1>8, <1>9, <1>10, <1>11, <3>1, <4>1, <4>2, <4>3, FlowPush, Zenon
      <4> QED
        BY <1>2, <1>4, <1>5, <4>4, Zenon DEF Order
    <3> QED
      BY <3>2, <3>3, Zenon
  <2> QED
    BY <2>1, <2>2, <2>3, Zenon DEF WritePacket
<1> QED
  BY <1>7, <1>12, OrderBoth, Zenon

\* The queued packets go out in order, before t.mu is released.
LEMMA FlushOrder ==
    ASSUME StreamInv, \A p \in Peer : Order(p), NEW a \in Peer, Flush(a)
    PROVE  \A p \in Peer : Order(p)'
<1> DEFINE p == Other(a)
           f == [i \in DOMAIN pending[a] |-> Encrypted(a, "data", pending[a][i])]
<1>1. p \in Peer /\ Other(p) = a /\ p # a
  BY OtherPeer, Zenon
<1>2. TypeOK /\ Order(a) /\ Order(p)
  BY <1>1, Zenon DEF StreamInv
<1>3. /\ pending \in [Peer -> Seq(Nat)] /\ wire \in [Peer -> Seq(Packet)]
      /\ wkey \in [Peer -> Nat]
  BY <1>2, Zenon DEF TypeOK
<1>4. /\ use' = use /\ up' = up /\ got' = got /\ incoming' = incoming /\ rpc' = rpc
      /\ hand' = hand /\ written' = written /\ wire' = Sent(wire, a, f)
  BY Zenon DEF Flush, readVars, userVars
<1>5. Held(a)' = Held(a) /\ Held(p)' = Held(p) /\ NoneGivesUp' = NoneGivesUp
  BY <1>4, Zenon DEF Held, NoneGivesUp
<1>6. f \in Seq(Packet)
  BY <1>3, QueuedType, Zenon
<1>7. DOMAIN f = DOMAIN pending[a] /\ \A j \in DOMAIN pending[a] : f[j].type = "data" /\ f[j].n = pending[a][j]
  BY DEF Encrypted
<1>8. pending'[a] = <<>> /\ pending'[p] = pending[p]
  BY <1>1, <1>3, Zenon DEF Flush
<1> HIDE DEF f
<1>9. Order(a)'
  <2>1. wire'[p] = wire[p]
    BY <1>1, <1>3, <1>4, Zenon DEF Sent
  <2>2. Keeps(a)
    BY <1>4, <1>5, <1>8, Zenon DEF Keeps
  <2> QED
    BY <1>2, <1>4, <2>1, <2>2, OrderSame, Zenon
<1>10. /\ Flow(got[p], incoming[p], Held(p), wire[a], pending[a], written[a])
       /\ wire[a] \in Seq(Packet) /\ pending[a] \in Seq(Nat)
  BY <1>1, <1>2, <1>3, Zenon DEF Order, FlowAt
<1>11. /\ FlowAt(p)' = Flow(got[p], incoming[p], Held(p), wire'[a], <<>>, written[a])
       /\ FullAt(p)' = Full(got[p], incoming[p], Held(p), wire'[a], <<>>, written[a])
       /\ FullAt(p) = Full(got[p], incoming[p], Held(p), wire[a], pending[a], written[a])
  BY <1>1, <1>4, <1>5, <1>8, Zenon DEF FlowAt, FullAt
<1>12. /\ Flow(got[p], incoming[p], Held(p), wire[a] \o f, <<>>, written[a])
       /\ FullAt(p) => Full(got[p], incoming[p], Held(p), wire[a] \o f, <<>>, written[a])
       /\ Flow(got[p], incoming[p], Held(p), wire[a], <<>>, written[a])
  BY <1>6, <1>7, <1>10, <1>11, FlowFlush, Zenon
<1>13. wire'[a] = IF up THEN wire[a] \o f ELSE wire[a]
  BY <1>3, <1>4, Zenon DEF Sent
<1>14. Order(p)'
  <2>1. CASE up
    BY <1>2, <1>4, <1>5, <1>11, <1>12, <1>13, <2>1, Zenon DEF Order
  <2>2. CASE ~up
    BY <1>4, <1>11, <1>12, <1>13, <2>2, Zenon DEF Order
  <2> QED
    BY <2>1, <2>2, Zenon
<1> QED
  BY <1>9, <1>14, OrderBoth, Zenon

\* The users of the two ends, and the packets they have written or will read.
UsersIdle ==
    /\ use' = use /\ (up' => up) /\ got' = got /\ incoming' = incoming /\ rpc' = rpc
    /\ hand' = hand /\ pending' = pending /\ written' = written

\* A wire that a packet other than data is taken from: data is only lost when an end gives up.
Drops(p) ==
    \/ wire'[Other(p)] = wire[Other(p)]
    \/ /\ Arrived(p) /\ wire'[Other(p)] = Tail(wire[Other(p)])
       /\ Pkt(p).type # "data" \/ ~NoneGivesUp

\* A wire that at most two messages of a key exchange are sent on.
Sends(p) ==
    \/ wire'[p] = wire[p]
    \/ \E x \in Packet : x.type # "data" /\ wire'[p] = wire[p] \o <<x>>
    \/ \E x, y \in Packet : /\ x.type # "data" /\ y.type # "data"
                            /\ wire'[p] = (wire[p] \o <<x>>) \o <<y>>

\* What a key exchange sends and takes changes nothing for the users.
LEMMA OrderExchange ==
    ASSUME TypeOK, \A p \in Peer : Order(p), NEW a \in Peer, UsersIdle, Drops(a), Sends(a)
    PROVE  \A p \in Peer : Order(p)'
<1> DEFINE q == Other(a)
<1>1. q \in Peer /\ Other(q) = a
  BY OtherPeer, Zenon
<1>2. Order(a) /\ Order(q) /\ use' = use /\ (up' => up)
  BY <1>1, Zenon DEF UsersIdle
<1>3. wire[a] \in Seq(Packet) /\ wire[q] \in Seq(Packet)
  BY <1>1, Zenon DEF TypeOK
<1>4. Held(a)' = Held(a) /\ Held(q)' = Held(q)
  BY Zenon DEF UsersIdle, Held
<1>5. Keeps(a) /\ Keeps(q)
  BY <1>4, Zenon DEF UsersIdle, Keeps
<1>6. Order(a)'
  <2>1. CASE wire'[q] = wire[q]
    BY <1>2, <1>5, <2>1, OrderSame, Zenon
  <2>2. CASE /\ Arrived(a) /\ wire'[q] = Tail(wire[q]) /\ (Pkt(a).type # "data" \/ ~NoneGivesUp)
    <3>1. wire[q] # <<>> /\ Pkt(a) = wire[q][1]
      BY <1>3, <2>2 DEF Arrived, Pkt
    <3> QED
      BY <1>2, <1>3, <1>5, <2>2, <3>1, OrderTaken, Zenon
  <2> QED
    BY <2>1, <2>2, Zenon DEF Drops
<1>7. Order(q)'
  <2>1. CASE wire'[a] = wire[a]
    BY <1>1, <1>2, <1>5, <2>1, OrderSame, Zenon
  <2>2. ASSUME NEW x \in Packet, x.type # "data", wire'[a] = wire[a] \o <<x>> PROVE Order(q)'
    BY <1>1, <1>2, <1>3, <1>5, <2>2, OrderSent, Zenon
  <2>3. ASSUME NEW x \in Packet, NEW y \in Packet, x.type # "data", y.type # "data",
               wire'[a] = (wire[a] \o <<x>>) \o <<y>>
        PROVE  Order(q)'
    BY <1>1, <1>2, <1>3, <1>5, <2>3, OrderSentTwo, Zenon
  <2> QED
    BY <2>1, <2>2, <2>3, Zenon DEF Sends
<1> QED
  BY <1>6, <1>7, OrderBoth, Zenon

\* One message of a key exchange is sent, or none, and nothing is read.
LEMMA OrderMessage ==
    ASSUME TypeOK, \A p \in Peer : Order(p), NEW a \in Peer, UsersIdle,
           NEW t \in {"kexInit", "kex", "newKeys"},
           wire' = wire \/ wire' = Sent(wire, a, <<Encrypted(a, t, 0)>>)
    PROVE  \A p \in Peer : Order(p)'
<1> DEFINE x == Encrypted(a, t, 0)
<1>1. wire \in [Peer -> Seq(Packet)] /\ wkey \in [Peer -> Nat]
  BY Zenon DEF TypeOK
<1>2. x \in Packet
  BY <1>1, EncryptedType
<1>3. x.type # "data"
  BY DEF Encrypted
<1>4. \/ wire' = wire
      \/ wire'[a] = wire[a] \o <<x>> /\ wire'[Other(a)] = wire[Other(a)]
  <2>1. CASE wire' = Sent(wire, a, <<x>>) /\ up
    <3>1. /\ Sent(wire, a, <<x>>)[a] = wire[a] \o <<x>>
          /\ Sent(wire, a, <<x>>)[Other(a)] = wire[Other(a)]
      BY <1>1, <2>1, SentWires, Zenon
    <3> QED
      BY <2>1, <3>1, Zenon
  <2>2. CASE wire' = Sent(wire, a, <<x>>) /\ ~up
    BY <2>2, Zenon DEF Sent
  <2> QED
    BY <2>1, <2>2, Zenon
<1> HIDE DEF x
<1>5. Drops(a) /\ Sends(a)
  BY <1>2, <1>3, <1>4, Zenon DEF Drops, Sends
<1> QED
  BY <1>5, OrderExchange, Zenon

\* kexLoop sends its kexInit when it is asked to exchange keys.
LEMMA SelectOrder ==
    ASSUME StreamInv, \A p \in Peer : Order(p), NEW a \in Peer, Select(a)
    PROVE  \A p \in Peer : Order(p)'
<1>1. TypeOK
  BY Zenon DEF StreamInv
<1>2. up' => up
  <2>1. CASE up' = up
    BY <2>1, Zenon
  <2>2. CASE up' = FALSE
    BY <2>2, Zenon
  <2> QED
    BY <2>1, <2>2, Zenon DEF Select, LeaveLoop
<1>3. UsersIdle
  BY <1>2, Zenon DEF UsersIdle, Select, readVars, userVars
<1>4. wire' = wire \/ wire' = Sent(wire, a, <<Encrypted(a, "kexInit", 0)>>)
  BY Zenon DEF Select, SendKexInit
<1> QED
  BY <1>1, <1>3, <1>4, OrderMessage, Zenon

\* The client begins the exchange.
LEMMA ClientKexOrder ==
    ASSUME StreamInv, \A p \in Peer : Order(p), NEW a \in Peer, ClientKex(a)
    PROVE  \A p \in Peer : Order(p)'
<1>1. TypeOK
  BY Zenon DEF StreamInv
<1>2. UsersIdle
  BY Zenon DEF UsersIdle, ClientKex, readVars, userVars
<1>3. wire' = wire \/ wire' = Sent(wire, a, <<Encrypted(a, "kex", 0)>>)
  BY Zenon DEF ClientKex
<1> QED
  BY <1>1, <1>2, <1>3, OrderMessage, Zenon

\* What an end reads inside the exchange is data only when an end has given one up.
LEMMA ExchangeReads ==
    ASSUME StreamInv, NEW a \in Peer, Arrived(a), kpc[a] \in {"kex2", "kex3"}
    PROVE  Pkt(a).type # "data" \/ ~NoneGivesUp
<1>1. Asking(a)
  BY Zenon DEF StreamInv, Loops
<1>2. ReadPhase(a) \in {"kex", "newKeys"}
  BY <1>1, Zenon DEF Asking, Busy, ReadPhase
<1> QED
  BY <1>2, HeadFits, Zenon DEF Fits

\* An end reads a message of the exchange and sends none.
LEMMA OrderReads ==
    ASSUME StreamInv, \A p \in Peer : Order(p), NEW a \in Peer, UsersIdle,
           kpc[a] \in {"kex2", "kex3"}, wire' = wire \/ (Arrived(a) /\ wire' = Took(a))
    PROVE  \A p \in Peer : Order(p)'
<1>1. TypeOK /\ wire \in [Peer -> Seq(Packet)]
  BY Zenon DEF StreamInv, TypeOK
<1>2. \/ wire' = wire
      \/ Arrived(a) /\ wire'[a] = wire[a] /\ wire'[Other(a)] = Tail(wire[Other(a)])
  BY <1>1, OtherPeer, Zenon DEF Took
<1>3. Drops(a)
  BY <1>2, ExchangeReads, Zenon DEF Drops
<1>4. Sends(a)
  BY <1>2, Zenon DEF Sends
<1> QED
  BY <1>1, <1>3, <1>4, OrderExchange, Zenon

\* The other end's msgNewKeys.
LEMMA ReadNewKeysOrder ==
    ASSUME StreamInv, \A p \in Peer : Order(p), NEW a \in Peer, ReadNewKeys(a)
    PROVE  \A p \in Peer : Order(p)'
<1>1. UsersIdle
  BY Zenon DEF UsersIdle, ReadNewKeys, readVars, userVars
<1>2. kpc[a] = "kex3" /\ (wire' = wire \/ (Arrived(a) /\ wire' = Took(a)))
  BY Zenon DEF ReadNewKeys, Unexpected, KexReadFails
<1> QED
  BY <1>1, <1>2, OrderReads, Zenon

\* The other end's message, the server's answer to it and the msgNewKeys.
LEMMA AgreeKeyOrder ==
    ASSUME StreamInv, \A p \in Peer : Order(p), NEW a \in Peer, AgreeKey(a)
    PROVE  \A p \in Peer : Order(p)'
<1> DEFINE x == Encrypted(a, "kex", 0)
           y == Encrypted(a, "newKeys", 0)
           w == IF a = "client" THEN Took(a) ELSE Sent(Took(a), a, <<x>>)
<1>1. /\ TypeOK /\ wire \in [Peer -> Seq(Packet)] /\ wkey \in [Peer -> Nat]
      /\ Other(a) \in Peer /\ Other(a) # a
  BY OtherPeer, Zenon DEF StreamInv, TypeOK
<1>2. UsersIdle /\ kpc[a] = "kex2"
  BY Zenon DEF UsersIdle, AgreeKey, readVars, userVars
<1>3. CASE wire' = wire \/ (Arrived(a) /\ wire' = Took(a))
  BY <1>2, <1>3, OrderReads, Zenon
<1>4. CASE Arrived(a) /\ up /\ (wire' = w \/ wire' = Sent(w, a, <<y>>))
  <2>1. x \in Packet /\ y \in Packet /\ <<x>> \in Seq(Packet)
    BY <1>1, EncryptedType, Zenon
  <2>2. x.type # "data" /\ y.type # "data"
    BY DEF Encrypted
  <2>3. /\ Took(a) \in [Peer -> Seq(Packet)] /\ Took(a)[a] = wire[a]
        /\ Took(a)[Other(a)] = Tail(wire[Other(a)])
    <3>1. Took(a) \in [Peer -> Seq(Packet)]
      BY <1>1, <1>4, TookType, Zenon
    <3> QED
      BY <1>1, <3>1, Zenon DEF Took
  <2> HIDE DEF x, y
  <2>4. /\ Sent(Took(a), a, <<x>>) \in [Peer -> Seq(Packet)]
        /\ Sent(Took(a), a, <<x>>)[a] = wire[a] \o <<x>>
        /\ Sent(Took(a), a, <<x>>)[Other(a)] = Tail(wire[Other(a)])
    <3>1. Sent(Took(a), a, <<x>>) \in [Peer -> Seq(Packet)]
      BY <2>1, <2>3, SentType, Zenon
    <3>2. /\ Sent(Took(a), a, <<x>>)[a] = Took(a)[a] \o <<x>>
          /\ Sent(Took(a), a, <<x>>)[Other(a)] = Took(a)[Other(a)]
      BY <1>4, <2>3, SentWires, Zenon
    <3> QED
      BY <2>3, <3>1, <3>2, Zenon
  <2>5. /\ w \in [Peer -> Seq(Packet)] /\ w[Other(a)] = Tail(wire[Other(a)])
        /\ w[a] = wire[a] \/ w[a] = wire[a] \o <<x>>
    BY <2>3, <2>4, Zenon
  <2> HIDE DEF w
  <2>6. /\ wire'[a] = w[a] \/ wire'[a] = w[a] \o <<y>>
        /\ wire'[Other(a)] = w[Other(a)]
    <3>1. /\ Sent(w, a, <<y>>)[a] = w[a] \o <<y>>
          /\ Sent(w, a, <<y>>)[Other(a)] = w[Other(a)]
      BY <1>4, <2>5, SentWires, Zenon
    <3> QED
      BY <1>4, <3>1, Zenon
  <2>7. Drops(a)
    BY <1>2, <1>4, <2>5, <2>6, ExchangeReads, Zenon DEF Drops
  <2>8. Sends(a)
    BY <2>1, <2>2, <2>5, <2>6, Zenon DEF Sends
  <2> QED
    BY <1>1, <1>2, <2>7, <2>8, OrderExchange, Zenon
<1>5. CASE Arrived(a) /\ ~up /\ (wire' = w \/ wire' = Sent(w, a, <<y>>))
  <2>1. wire' = Took(a)
    BY <1>5, Zenon DEF Sent
  <2> QED
    BY <1>3, <1>5, <2>1, Zenon
<1> QED
  BY <1>3, <1>4, <1>5, Zenon DEF AgreeKey, KexAnswer, SendNewKeys, Unexpected, KexReadFails

\* readLoop takes a packet: data is in its hands until it goes to incoming.
LEMMA ReadOnePacketOrder ==
    ASSUME StreamInv, \A p \in Peer : Order(p), NEW a \in Peer, ReadOnePacket(a)
    PROVE  \A p \in Peer : Order(p)'
<1> DEFINE q == Other(a)
           w == wire[q]
<1>1. q \in Peer /\ Other(q) = a /\ q # a
  BY OtherPeer, Zenon
<1>2. TypeOK /\ Order(a) /\ Order(q) /\ Asking(a)
  BY <1>1, Zenon DEF StreamInv, Loops
<1>3. /\ wire \in [Peer -> Seq(Packet)] /\ hand \in [Peer -> Nat]
      /\ rpc \in [Peer -> {"read", "deliver", "offer", "kexWait", "fail", "record", "end"}]
  BY <1>2, Zenon DEF TypeOK
<1>4. /\ rpc[a] = "read" /\ use' = use /\ up' = up /\ (up' => up) /\ got' = got
      /\ incoming' = incoming /\ pending' = pending /\ written' = written
  BY Zenon DEF ReadOnePacket
<1>5. rpc'[q] = rpc[q] /\ (rpc[q] = "deliver" => hand'[q] = hand[q])
  BY <1>1, <1>3, Zenon DEF ReadOnePacket, ReadFails
<1>6. Held(a) = {} /\ Held(q)' = Held(q) /\ NoneGivesUp' = NoneGivesUp
  BY <1>4, <1>5, Zenon DEF Held, NoneGivesUp
<1>7. Keeps(q)
  BY <1>4, <1>6, Zenon DEF Keeps
<1>8. wire'[a] = wire[a]
  BY <1>1, <1>3, Zenon DEF ReadOnePacket, Took
<1>9. Order(q)'
  BY <1>1, <1>2, <1>4, <1>7, <1>8, OrderSame, Zenon
<1>10. ReadPhase(a) = "open"
  BY <1>2, <1>4, Zenon DEF ReadPhase
<1>11. Arrived(a) => Readable(a) /\ Pkt(a).type \in {"kexInit", "data"} /\ Pkt(a) = w[1]
  BY <1>10, HeadFits, Zenon DEF Fits
<1>12. CASE ~up /\ ReadFails(a) /\ wire' = wire
  <2>1. Held(a)' = {}
    BY <1>3, <1>12, Zenon DEF Held, ReadFails
  <2>2. Keeps(a)
    BY <1>4, <1>6, <2>1, Zenon DEF Keeps
  <2>3. Order(a)'
    BY <1>2, <1>4, <1>12, <2>2, OrderSame, Zenon
  <2> QED
    BY <1>9, <2>3, OrderBoth, Zenon
<1>13. CASE /\ Arrived(a) /\ Pkt(a).type = "kexInit" /\ wire' = Took(a)
             /\ hand' = [hand EXCEPT ![a] = Pkt(a).n]
             /\ rpc' = [rpc EXCEPT ![a] = IF Pkt(a).type = "kexInit" THEN "offer" ELSE "deliver"]
  <2>1. rpc'[a] = "offer"
    BY <1>3, <1>13, Zenon
  <2>2. Held(a)' = {}
    BY <2>1, Zenon DEF Held
  <2>3. Keeps(a)
    BY <1>4, <1>6, <2>2, Zenon DEF Keeps
  <2>4. wire'[q] = Tail(w) /\ w \in Seq(Packet) /\ w # <<>> /\ w[1].type # "data"
    BY <1>1, <1>3, <1>11, <1>13, Zenon DEF Took, Arrived
  <2>5. Order(a)'
    BY <1>2, <1>4, <2>3, <2>4, OrderTaken, Zenon
  <2> QED
    BY <1>9, <2>5, OrderBoth, Zenon
<1>14. CASE /\ Arrived(a) /\ Pkt(a).type = "data" /\ wire' = Took(a)
             /\ hand' = [hand EXCEPT ![a] = Pkt(a).n]
             /\ rpc' = [rpc EXCEPT ![a] = IF Pkt(a).type = "kexInit" THEN "offer" ELSE "deliver"]
  <2>1. rpc'[a] = "deliver" /\ hand'[a] = w[1].n
    BY <1>3, <1>11, <1>14, Zenon
  <2>2. Held(a)' = {w[1].n}
    BY <2>1, Zenon DEF Held
  <2>3. wire'[q] = Tail(w) /\ w \in Seq(Packet) /\ w # <<>> /\ w[1].type = "data"
    BY <1>1, <1>3, <1>11, <1>14, Zenon DEF Took, Arrived
  <2>4. /\ Flow(got[a], incoming[a], {}, w, pending[q], written[q])
        /\ FullAt(a) = Full(got[a], incoming[a], {}, w, pending[q], written[q])
    BY <1>2, <1>6, Zenon DEF Order, FlowAt, FullAt
  <2>5. /\ FlowAt(a)' = Flow(got[a], incoming[a], {w[1].n}, Tail(w), pending[q], written[q])
        /\ FullAt(a)' = Full(got[a], incoming[a], {w[1].n}, Tail(w), pending[q], written[q])
    BY <1>4, <2>2, <2>3, Zenon DEF FlowAt, FullAt
  <2>6. FlowAt(a)' /\ (FullAt(a) => FullAt(a)')
    BY <2>3, <2>4, <2>5, FlowHand, Zenon
  <2>7. Order(a)'
    BY <1>2, <1>4, <1>6, <2>6, Zenon DEF Order
  <2> QED
    BY <1>9, <2>7, OrderBoth, Zenon
<1> QED
  BY <1>11, <1>12, <1>13, <1>14, Zenon DEF ReadOnePacket

\* The packet goes to incoming, or is dropped because the end is halted.
LEMMA DeliverOrder ==
    ASSUME StreamInv, \A p \in Peer : Order(p), NEW a \in Peer, Deliver(a)
    PROVE  \A p \in Peer : Order(p)'
<1> DEFINE q == Other(a)
           k == hand[a]
<1>1. q \in Peer /\ Other(q) = a /\ q # a
  BY OtherPeer, Zenon
<1>2. TypeOK /\ Order(a) /\ Order(q) /\ Sound(a)
  BY <1>1, Zenon DEF StreamInv
<1>3. /\ incoming \in [Peer -> Seq(Nat)] /\ hand \in [Peer -> Nat]
      /\ rpc \in [Peer -> {"read", "deliver", "offer", "kexWait", "fail", "record", "end"}]
  BY <1>2, Zenon DEF TypeOK
<1>4. /\ rpc[a] = "deliver" /\ use' = use /\ up' = up /\ (up' => up) /\ got' = got
      /\ wire' = wire /\ pending' = pending /\ written' = written
  BY Zenon DEF Deliver, userVars
<1>5. rpc'[q] = rpc[q] /\ hand'[q] = hand[q] /\ incoming'[q] = incoming[q]
  BY <1>1, <1>3, Zenon DEF Deliver
<1>6. Held(a) = {k} /\ Held(q)' = Held(q) /\ NoneGivesUp' = NoneGivesUp
  BY <1>4, <1>5, Zenon DEF Held, NoneGivesUp
<1>7. Keeps(q)
  BY <1>4, <1>5, <1>6, Zenon DEF Keeps
<1>8. Order(q)'
  BY <1>1, <1>2, <1>4, <1>7, OrderSame, Zenon
<1>9. rpc'[a] \in {"read", "end"}
  BY <1>3, Zenon DEF Deliver
<1>10. Held(a)' = {}
  BY <1>9, Zenon DEF Held
<1>11. /\ Flow(got[a], incoming[a], {k}, wire[q], pending[q], written[q])
       /\ FullAt(a) = Full(got[a], incoming[a], {k}, wire[q], pending[q], written[q])
  BY <1>2, <1>6, Zenon DEF Order, FlowAt, FullAt
<1>12. /\ FlowAt(a)' = Flow(got[a], incoming'[a], {}, wire[q], pending[q], written[q])
       /\ FullAt(a)' = Full(got[a], incoming'[a], {}, wire[q], pending[q], written[q])
  BY <1>4, <1>10, Zenon DEF FlowAt, FullAt
<1>13. k \in Nat /\ incoming[a] \in Seq(Nat)
  BY <1>3, Zenon
<1>14. CASE incoming' = [incoming EXCEPT ![a] = Append(@, hand[a])]
  <2>1. incoming'[a] = Append(incoming[a], k)
    BY <1>3, <1>14, Zenon
  <2>2. FlowAt(a)' /\ (FullAt(a) => FullAt(a)')
    BY <1>11, <1>12, <1>13, <2>1, FlowDeliver, Zenon
  <2>3. Order(a)'
    BY <1>2, <1>4, <1>6, <2>2, Zenon DEF Order
  <2> QED
    BY <1>8, <2>3, OrderBoth, Zenon
<1>15. CASE halted[a] /\ incoming' = incoming
  <2>1. ~NoneGivesUp
    BY <1>2, <1>15, Zenon DEF Sound, NoneGivesUp
  <2>2. FlowAt(a)'
    BY <1>11, <1>12, <1>13, <1>15, FlowDeliver, Zenon
  <2>3. Order(a)'
    BY <1>6, <2>1, <2>2, Zenon DEF Order
  <2> QED
    BY <1>8, <2>3, OrderBoth, Zenon
<1> QED
  BY <1>14, <1>15, Zenon DEF Deliver

\* The user reads a packet.
LEMMA ReadPacketOrder ==
    ASSUME StreamInv, \A p \in Peer : Order(p), NEW a \in Peer, ReadPacket(a)
    PROVE  \A p \in Peer : Order(p)'
<1> DEFINE q == Other(a)
<1>1. q \in Peer /\ Other(q) = a /\ q # a
  BY OtherPeer, Zenon
<1>2. TypeOK /\ Order(a) /\ Order(q)
  BY <1>1, Zenon DEF StreamInv
<1>3. incoming \in [Peer -> Seq(Nat)] /\ got \in [Peer -> Nat]
  BY <1>2, Zenon DEF TypeOK
<1>4. /\ use' = use /\ up' = up /\ (up' => up) /\ rpc' = rpc /\ hand' = hand
      /\ wire' = wire /\ pending' = pending /\ written' = written /\ incoming[a] # <<>>
  BY Zenon DEF ReadPacket
<1>5. /\ got'[q] = got[q] /\ incoming'[q] = incoming[q]
      /\ got'[a] = Head(incoming[a]) /\ incoming'[a] = Tail(incoming[a])
  BY <1>1, <1>3, Zenon DEF ReadPacket
<1>6. Held(a)' = Held(a) /\ Held(q)' = Held(q) /\ NoneGivesUp' = NoneGivesUp
  BY <1>4, Zenon DEF Held, NoneGivesUp
<1>7. Keeps(q)
  BY <1>4, <1>5, <1>6, Zenon DEF Keeps
<1>8. Order(q)'
  BY <1>1, <1>2, <1>4, <1>7, OrderSame, Zenon
<1>9. /\ FlowType(got[a], incoming[a], Held(a), wire[q], pending[q], written[q])
      /\ Flow(got[a], incoming[a], Held(a), wire[q], pending[q], written[q])
      /\ FullAt(a) = Full(got[a], incoming[a], Held(a), wire[q], pending[q], written[q])
  <2>1. FlowType(got[a], incoming[a], Held(a), wire[q], pending[q], written[q])
    BY <1>2, FlowTyped, Zenon
  <2> QED
    BY <1>2, <2>1, Zenon DEF Order, FlowAt, FullAt
<1>10. /\ FlowAt(a)' = Flow(Head(incoming[a]), Tail(incoming[a]), Held(a), wire[q], pending[q],
                            written[q])
       /\ FullAt(a)' = Full(Head(incoming[a]), Tail(incoming[a]), Held(a), wire[q], pending[q],
                            written[q])
  BY <1>4, <1>5, <1>6, Zenon DEF FlowAt, FullAt
<1>11. FlowAt(a)' /\ (FullAt(a) => FullAt(a)')
  BY <1>4, <1>9, <1>10, FlowRead, Zenon
<1>12. Order(a)'
  BY <1>2, <1>4, <1>6, <1>11, Zenon DEF Order
<1> QED
  BY <1>8, <1>12, OrderBoth, Zenon

\* At first nothing is on its way.
LEMMA OrderInit == Init => \A p \in Peer : Order(p)
<1> SUFFICES ASSUME Init, NEW p \in Peer PROVE Order(p)
  OBVIOUS
<1> DEFINE q == Other(p)
<1>1. q \in Peer
  BY OtherPeer, Zenon
<1>2. /\ got[p] = 0 /\ incoming[p] = <<>> /\ rpc[p] = "read" /\ wire[q] = <<>>
      /\ pending[q] = <<>> /\ written[q] = 0
  BY <1>1, Zenon DEF Init
<1>3. Held(p) = {}
  BY <1>2, Zenon DEF Held
<1>4. DataAscends(<<>>) /\ DataIn(<<>>) = {} /\ Ascends(<<>>) /\ Numbers(<<>>) = {}
  <2>1. DOMAIN <<>> = {}
    OBVIOUS
  <2> QED
    BY <2>1, NumbersEmpty, Zenon DEF DataAscends, DataIn
<1>5. Ordered({0}, {}, {}, {}, {}, {0 + 1})
  <2>1. Precedes({0}, {0 + 1})
    BY DEF Precedes
  <2> QED
    BY <2>1, Zenon DEF Ordered, Precedes
<1>6. (0 + 1)..0 = {}
  OBVIOUS
<1>7. FlowAt(p)
  BY <1>2, <1>3, <1>4, <1>5, Zenon DEF FlowAt, Flow
<1>8. FullAt(p)
  BY <1>2, <1>3, <1>6, Zenon DEF FullAt, Full
<1> QED
  BY <1>7, <1>8, Zenon DEF Order

\* The steps that read, write and send nothing.
Still ==
    /\ use' = use /\ (up' => up) /\ wire' = wire /\ got' = got /\ incoming' = incoming
    /\ pending' = pending /\ written' = written /\ hand' = hand
    /\ \A p \in Peer : rpc'[p] = "deliver" <=> rpc[p] = "deliver"

\* Such a step keeps the packets in order.
LEMMA StillOrder ==
    ASSUME \A p \in Peer : Order(p), Still
    PROVE  \A p \in Peer : Order(p)'
<1>1. \A p \in Peer : Held(p)' = Held(p)
  BY Zenon DEF Still, Held
<1> QED
  BY <1>1, OrderStill, Zenon DEF Still

\* Every step keeps the packets in order.
LEMMA OrderNext ==
    ASSUME StreamInv, \A p \in Peer : Order(p), [Next]_vars
    PROVE  \A p \in Peer : Order(p)'
<1>1. rpc \in [Peer -> {"read", "deliver", "offer", "kexWait", "fail", "record", "end"}]
  BY Zenon DEF StreamInv, TypeOK
<1>2. ASSUME NEW a \in Peer, CallWrite(a) PROVE \A p \in Peer : Order(p)'
  <2>1. Still
    BY <1>2, Zenon DEF Still, CallWrite, readVars
  <2> QED
    BY <2>1, StillOrder, Zenon
<1>3. ASSUME NEW a \in Peer, Offer(a) PROVE \A p \in Peer : Order(p)'
  <2>1. \A p \in Peer : rpc'[p] = "deliver" <=> rpc[p] = "deliver"
    BY <1>1, <1>3, Zenon DEF Offer
  <2>2. Still
    BY <1>3, <2>1, Zenon DEF Still, Offer, userVars
  <2> QED
    BY <2>2, StillOrder, Zenon
<1>4. ASSUME NEW a \in Peer, KexDone(a) PROVE \A p \in Peer : Order(p)'
  <2>1. \A p \in Peer : rpc'[p] = "deliver" <=> rpc[p] = "deliver"
    BY <1>1, <1>4, Zenon DEF KexDone
  <2>2. Still
    BY <1>4, <2>1, Zenon DEF Still, KexDone, userVars
  <2> QED
    BY <2>2, StillOrder, Zenon
<1>5. ASSUME NEW a \in Peer, CloseIncoming(a) PROVE \A p \in Peer : Order(p)'
  <2>1. \A p \in Peer : rpc'[p] = "deliver" <=> rpc[p] = "deliver"
    BY <1>1, <1>5, Zenon DEF CloseIncoming
  <2>2. Still
    BY <1>5, <2>1, Zenon DEF Still, CloseIncoming, userVars
  <2> QED
    BY <2>2, StillOrder, Zenon
<1>6. ASSUME NEW a \in Peer, StopWriters(a) PROVE \A p \in Peer : Order(p)'
  <2>1. \A p \in Peer : rpc'[p] = "deliver" <=> rpc[p] = "deliver"
    BY <1>1, <1>6, Zenon DEF StopWriters
  <2>2. Still
    BY <1>6, <2>1, Zenon DEF Still, StopWriters, userVars
  <2> QED
    BY <2>2, StillOrder, Zenon
<1>7. ASSUME NEW a \in Peer, Top(a) PROVE \A p \in Peer : Order(p)'
  <2>1. up' => up
    <3>1. CASE up' = up
      BY <3>1, Zenon
    <3>2. CASE up' = FALSE
      BY <3>2, Zenon
    <3> QED
      BY <1>7, <3>1, <3>2, Zenon DEF Top, LeaveLoop
  <2>2. Still
    BY <1>7, <2>1, Zenon DEF Still, Top, readVars, userVars
  <2> QED
    BY <2>2, StillOrder, Zenon
<1>8. ASSUME NEW a \in Peer, Check(a) PROVE \A p \in Peer : Order(p)'
  <2>1. up' => up
    <3>1. CASE up' = up
      BY <3>1, Zenon
    <3>2. CASE up' = FALSE
      BY <3>2, Zenon
    <3> QED
      BY <1>8, <3>1, <3>2, Zenon DEF Check, LeaveLoop
  <2>2. Still
    BY <1>8, <2>1, Zenon DEF Still, Check, readVars, userVars
  <2> QED
    BY <2>2, StillOrder, Zenon
<1>9. ASSUME NEW a \in Peer, TellReader(a) PROVE \A p \in Peer : Order(p)'
  <2>1. Still
    BY <1>9, Zenon DEF Still, TellReader, readVars, userVars
  <2> QED
    BY <2>1, StillOrder, Zenon
<1>10. ASSUME NEW a \in Peer, Drain(a) PROVE \A p \in Peer : Order(p)'
  <2>1. Still
    BY <1>10, Zenon DEF Still, Drain, readVars, userVars
  <2> QED
    BY <2>1, StillOrder, Zenon
<1>11. ASSUME NEW a \in Peer, Halt(a) PROVE \A p \in Peer : Order(p)'
  <2>1. Still
    BY <1>11, Zenon DEF Still, Halt, readVars
  <2> QED
    BY <2>1, StillOrder, Zenon
<1>12. ASSUME NEW a \in Peer, WritePacket(a) PROVE \A p \in Peer : Order(p)'
  BY <1>12, WritePacketOrder, Zenon
<1>13. ASSUME NEW a \in Peer, ReadPacket(a) PROVE \A p \in Peer : Order(p)'
  BY <1>13, ReadPacketOrder, Zenon
<1>14. ASSUME NEW a \in Peer, ReadOnePacket(a) PROVE \A p \in Peer : Order(p)'
  BY <1>14, ReadOnePacketOrder, Zenon
<1>15. ASSUME NEW a \in Peer, Deliver(a) PROVE \A p \in Peer : Order(p)'
  BY <1>15, DeliverOrder, Zenon
<1>16. ASSUME NEW a \in Peer, Select(a) PROVE \A p \in Peer : Order(p)'
  BY <1>16, SelectOrder, Zenon
<1>17. ASSUME NEW a \in Peer, ClientKex(a) PROVE \A p \in Peer : Order(p)'
  BY <1>17, ClientKexOrder, Zenon
<1>18. ASSUME NEW a \in Peer, AgreeKey(a) PROVE \A p \in Peer : Order(p)'
  BY <1>18, AgreeKeyOrder, Zenon
<1>19. ASSUME NEW a \in Peer, ReadNewKeys(a) PROVE \A p \in Peer : Order(p)'
  BY <1>19, ReadNewKeysOrder, Zenon
<1>20. ASSUME NEW a \in Peer, Flush(a) PROVE \A p \in Peer : Order(p)'
  BY <1>20, FlushOrder, Zenon
<1>21. CASE Lose
  <2>1. Still
    BY <1>21, Zenon DEF Still, Lose, readVars, userVars
  <2> QED
    BY <2>1, StillOrder, Zenon
<1>22. CASE UNCHANGED vars
  <2>1. Still
    BY <1>22, Zenon DEF Still, vars, kexVars, readVars, userVars
  <2> QED
    BY <2>1, StillOrder, Zenon
<1> QED
  BY <1>2, <1>3, <1>4, <1>5, <1>6, <1>7, <1>8, <1>9, <1>10, <1>11, <1>12, <1>13,
     <1>14, <1>15, <1>16, <1>17, <1>18, <1>19, <1>20, <1>21, <1>22, Zenon
  DEF Next, ReadLoop, KexLoop

\* Whatever rekeys either end begins and however its packets wait for them, what writePacket
\* accepted is read in that order, and while the connection works and nobody gives up none of
\* it is lost or read twice: for any number of packets, of rekeys and any size of incoming.
THEOREM PacketsAlwaysInOrder == Spec => []PacketsInOrder
<1>1. Init => StreamInv /\ PacketsInOrder
  BY StreamInit, OrderInit, OrderIs, Zenon
<1>2. StreamInv /\ PacketsInOrder /\ [Next]_vars => (StreamInv /\ PacketsInOrder)'
  <2> SUFFICES ASSUME StreamInv, PacketsInOrder, [Next]_vars
               PROVE  StreamInv' /\ PacketsInOrder'
    OBVIOUS
  <2>1. StreamInv'
    BY StreamNext, Zenon
  <2>2. \A p \in Peer : Order(p)
    BY OrderIs, Zenon
  <2>3. \A p \in Peer : Order(p)'
    BY <2>2, OrderNext, Zenon
  <2>4. PacketsInOrder' <=> \A p \in Peer : Order(p)'
    BY Zenon DEF PacketsInOrder, Order, FlowAt, FullAt, Flow, Full, NoneGivesUp
  <2> QED
    BY <2>1, <2>3, <2>4, Zenon
<1> QED
  BY <1>1, <1>2, PTL DEF Spec
=============================================================================

------------------------- MODULE SSHChannel_proofs --------------------------
(***************************************************************************)
(* What is proved of an SSH channel.                                       *)
(*                                                                         *)
(* Flow control.  The invariant is a ledger: each byte of the window is    *)
(* accounted for from the writer that reserves it, over the wire and the   *)
(* buffer, to the reader whose adjust gives it back.  Every step preserves *)
(* it, so flow control is respected and the windows are bounded.           *)
(*                                                                         *)
(* The streams and the end of the channel: nothing is lost, duplicated or  *)
(* overtaken, io.EOF comes after all of the main stream, the crossing      *)
(* closes of two ends are clean, and the channel so implements ByteStream. *)
(* The ledger bounds what is on the wire; here its packets are followed    *)
(* one by one.  The data of a stream is without gaps from what the         *)
(* receiver has to what the sender has sent, a close is the last packet of *)
(* its sender, and no data of the main stream comes behind an eof.         *)
(*                                                                         *)
(* The window: until a close, the inequalities of the ledger are equations *)
(* and the credit on the wire is without gaps as well.                     *)
(***************************************************************************)
EXTENDS SSHChannel, TLAPS

Total(f) == f[0] + f[1]

\* Bytes taken from the buffers of p whose adjustWindow has not yet run.
Unadjusted(p) ==
    (IF rpc[p][0] = "adjust" THEN rgot[p][0] ELSE 0)
    + (IF rpc[p][1] = "adjust" THEN rgot[p][1] ELSE 0)

\* What a writer has reserved, sent and been credited.
WriterLedger(p) ==
    remoteWin[p] + Total(wgot[p]) + Total(sent[p]) <= WindowSize + credited[p]

\* What a reader has announced, and how its myWindow follows from what it has
\* received and read.
ReaderLedger(p) ==
    /\ granted[p] + Total(rgot[p]) <= Total(rd[p])
    /\ myWindow[p] + Total(rcvd[p]) + Unadjusted(p) = WindowSize + Total(rd[p])
    /\ \A e \in Ext : rd[p][e] <= rcvd[p][e]

\* The data packets of w, stream by stream, lie after the bytes "from" the
\* receiver has, in order, up to the bytes "to" the sender has sent.
DataChain(w, from, to) ==
    /\ \A e \in Ext : from[e] <= to[e]
    /\ \A i \in 1..Len(w) : w[i].type = "data" =>
          /\ from[w[i].ext] <= w[i].lo
          /\ w[i].lo <= w[i].hi
          /\ w[i].hi <= to[w[i].ext]
          /\ w[i].hi - w[i].lo <= MaxPacket
    /\ \A i, j \in 1..Len(w) :
          /\ i < j
          /\ w[i].type = "data" /\ w[j].type = "data" /\ w[i].ext = w[j].ext
          => w[i].hi <= w[j].lo

\* The credit carried by the adjust packets of w, likewise.
CreditChain(w, from, to) ==
    /\ from <= to
    /\ \A i \in 1..Len(w) : w[i].type = "adjust" =>
          from <= w[i].lo /\ w[i].lo <= w[i].hi /\ w[i].hi <= to
    /\ \A i, j \in 1..Len(w) :
          i < j /\ w[i].type = "adjust" /\ w[j].type = "adjust"
          => w[i].hi <= w[j].lo

DataOnWire(p)   == DataChain(wire[p], rcvd[Other(p)], sent[p])
CreditOnWire(p) == CreditChain(wire[p], credited[Other(p)], granted[p])

\* What the goroutines hold between two steps.
InHand(p) ==
    \A e \in Ext :
        /\ wgot[p][e] <= MaxPacket
        /\ wgot[p][e] <= wtodo[p][e]
        /\ wpc[p][e] # "send" => wgot[p][e] = 0
        /\ rpc[p][e] \notin {"adjust", "announce"} => rgot[p][e] = 0

Ledger ==
    \A p \in Peer : /\ WriterLedger(p)
                    /\ ReaderLedger(p)
                    /\ DataOnWire(p)
                    /\ CreditOnWire(p)
                    /\ InHand(p)

FlowInv == TypeOK /\ Ledger /\ FlowControlRespected

-----------------------------------------------------------------------------
\* Both ends, and the definitions every leaf needs.
LEMMA PeerFacts ==
    \A p \in Peer : /\ Other(p) \in Peer
                    /\ Other(p) # p
                    /\ Other(Other(p)) = p
                    /\ \A r \in Peer : r = p \/ r = Other(p)
BY Zenon DEF Peer, Other

\* Bytes moved from one account of a stream to another leave the totals alone.
LEMMA TotalsMoved ==
    ASSUME NEW f, NEW g, NEW f2, NEW g2,
           f[0] \in Nat /\ f[1] \in Nat /\ g[0] \in Nat /\ g[1] \in Nat,
           f2[0] \in Nat /\ f2[1] \in Nat /\ g2[0] \in Nat /\ g2[1] \in Nat,
           f2[0] + g2[0] = f[0] + g[0],
           f2[1] + g2[1] = f[1] + g[1]
    PROVE  Total(f2) + Total(g2) = Total(f) + Total(g)
BY DEF Total

-----------------------------------------------------------------------------
(* The wire: appending a packet at the sender, handling one at the receiver *)

\* A packet added behind the others keeps the data in order.
LEMMA DataChainAppend ==
    ASSUME NEW w \in Seq(Packet), NEW pkt \in Packet,
           NEW from \in [Ext -> Nat], NEW to \in [Ext -> Nat],
           NEW to2 \in [Ext -> Nat],
           DataChain(w, from, to),
           \A e \in Ext : to[e] <= to2[e],
           pkt.type = "data" => /\ pkt.lo = to[pkt.ext]
                                /\ pkt.hi = to2[pkt.ext]
                                /\ pkt.hi - pkt.lo <= MaxPacket
    PROVE  DataChain(Append(w, pkt), from, to2)
<1> DEFINE v == Append(w, pkt)
<1>1. /\ v \in Seq(Packet)
      /\ Len(w) \in Nat
      /\ Len(v) = Len(w) + 1
      /\ \A i \in 1..Len(w) : v[i] = w[i] /\ w[i] \in Packet
      /\ v[Len(w) + 1] = pkt
    OBVIOUS
<1>2. \A e \in Ext : from[e] <= to2[e]
    BY DEF DataChain
<1>3. ASSUME NEW i \in 1..Len(v), v[i].type = "data"
      PROVE  /\ from[v[i].ext] <= v[i].lo
             /\ v[i].lo <= v[i].hi
             /\ v[i].hi <= to2[v[i].ext]
             /\ v[i].hi - v[i].lo <= MaxPacket
  <2>1. CASE i \in 1..Len(w)
    <3>1. v[i] = w[i] /\ w[i].ext \in Ext /\ w[i].hi \in Nat
        BY <1>1, <2>1, Zenon DEF Packet
    <3> QED
        BY <1>3, <2>1, <3>1 DEF DataChain
  <2>2. CASE i = Len(w) + 1
    <3>1. v[i] = pkt /\ pkt.ext \in Ext
        BY <1>1, <2>2, Zenon DEF Packet
    <3> QED
        BY <1>3, <3>1 DEF DataChain
  <2> QED
    BY <1>1, <2>1, <2>2
<1>4. ASSUME NEW i \in 1..Len(v), NEW j \in 1..Len(v), i < j,
             v[i].type = "data", v[j].type = "data", v[i].ext = v[j].ext
      PROVE  v[i].hi <= v[j].lo
  <2>1. i \in 1..Len(w) /\ v[i] = w[i]
    BY <1>1, <1>4
  <2>2. CASE j \in 1..Len(w)
    BY <1>1, <1>4, <2>1, <2>2, Zenon DEF DataChain
  <2>3. CASE j = Len(w) + 1
    BY <1>1, <1>4, <2>1, <2>3 DEF DataChain
  <2> QED
    BY <1>1, <2>2, <2>3
<1> HIDE DEF v
<1>5. DataChain(v, from, to2)
    BY <1>2, <1>3, <1>4, Zenon DEF DataChain
<1> QED
    BY <1>5, Zenon DEF v

\* Taking the first packet into the buffer keeps the rest in order.
LEMMA DataChainTail ==
    ASSUME NEW w \in Seq(Packet), w # <<>>,
           NEW from \in [Ext -> Nat], NEW to \in [Ext -> Nat],
           NEW from2 \in [Ext -> Nat],
           DataChain(w, from, to),
           \A e \in Ext :
              \/ from2[e] = from[e]
              \/ /\ IsData(Head(w), e)
                 /\ from2[e] = from[e] + (Head(w).hi - Head(w).lo)
    PROVE  DataChain(Tail(w), from2, to)
<1> DEFINE v == Tail(w)
<1>1. /\ v \in Seq(Packet)
      /\ Len(w) \in Nat \ {0} /\ Len(v) \in Nat
      /\ Len(v) = Len(w) - 1
      /\ \A i \in 1..Len(v) : v[i] = w[i + 1] /\ (i + 1) \in 1..Len(w)
      /\ \A i \in 1..Len(w) : w[i] \in Packet
      /\ Head(w) = w[1] /\ 1 \in 1..Len(w)
    OBVIOUS
<1>h. /\ Head(w).lo \in Nat /\ Head(w).hi \in Nat
      /\ \A e \in Ext : IsData(Head(w), e) =>
             /\ from[e] <= Head(w).lo
             /\ Head(w).lo <= Head(w).hi
             /\ Head(w).hi <= to[e]
  <2>1. Head(w).lo \in Nat /\ Head(w).hi \in Nat
    BY <1>1, Zenon DEF Packet
  <2> QED
    BY <1>1, <2>1 DEF DataChain, IsData
<1>2. ASSUME NEW e \in Ext PROVE from2[e] <= to[e]
  <2>0. from[e] <= to[e] /\ from[e] \in Nat /\ to[e] \in Nat
    BY Zenon DEF DataChain
  <2>1. CASE IsData(Head(w), e)
    <3>1. from[e] <= Head(w).lo /\ Head(w).lo <= Head(w).hi /\ Head(w).hi <= to[e]
        BY <1>h, <2>1, Zenon
    <3>2. from2[e] = from[e] \/ from2[e] = from[e] + (Head(w).hi - Head(w).lo)
        BY Zenon
    <3> QED
        BY <1>h, <2>0, <3>1, <3>2
  <2>2. CASE ~IsData(Head(w), e)
    <3>1. from2[e] = from[e]
        BY <2>2, Zenon
    <3> QED
        BY <2>0, <3>1, Zenon
  <2> QED
    BY <2>1, <2>2, Zenon
<1>3. ASSUME NEW i \in 1..Len(v), v[i].type = "data"
      PROVE  /\ from2[v[i].ext] <= v[i].lo
             /\ v[i].lo <= v[i].hi
             /\ v[i].hi <= to[v[i].ext]
             /\ v[i].hi - v[i].lo <= MaxPacket
  <2>1. v[i] = w[i + 1] /\ (i + 1) \in 1..Len(w) /\ 1 < i + 1 /\ w[i + 1] \in Packet
    BY <1>1
  <2>2. CASE IsData(Head(w), v[i].ext)
    <3>1. Head(w).hi <= w[i + 1].lo
        BY <1>1, <1>3, <2>1, <2>2 DEF DataChain, IsData
    <3>2. v[i].ext \in Ext /\ v[i].lo \in Nat
        BY <2>1, Zenon DEF Packet
    <3>3. from2[v[i].ext] <= v[i].lo
      <4> DEFINE x == v[i].ext
      <4>1. /\ x \in Ext /\ from[x] \in Nat /\ from[x] <= Head(w).lo
            /\ Head(w).lo <= Head(w).hi /\ Head(w).hi <= v[i].lo
            /\ Head(w).lo \in Nat /\ Head(w).hi \in Nat
        BY <1>h, <2>1, <2>2, <3>1, <3>2, Zenon
      <4>2. \/ from2[x] = from[x]
            \/ from2[x] = from[x] + (Head(w).hi - Head(w).lo)
        BY <3>2, Zenon
      <4> HIDE DEF x
      <4>3. from2[x] <= v[i].lo
        BY <3>2, <4>1, <4>2, SMTT(30)
      <4> QED
        BY <4>3, Zenon DEF x
    <3> QED
        BY <1>3, <2>1, <3>3, Zenon DEF DataChain
  <2>3. CASE ~IsData(Head(w), v[i].ext)
    BY <1>1, <1>3, <2>1, <2>3, Zenon DEF DataChain, Packet
  <2> QED
    BY <2>2, <2>3, Zenon
<1>4. ASSUME NEW i \in 1..Len(v), NEW j \in 1..Len(v), i < j,
             v[i].type = "data", v[j].type = "data", v[i].ext = v[j].ext
      PROVE  v[i].hi <= v[j].lo
    BY <1>1, <1>4 DEF DataChain
<1> HIDE DEF v
<1>5. DataChain(v, from2, to)
    BY <1>2, <1>3, <1>4, Zenon DEF DataChain
<1> QED
    BY <1>5, Zenon DEF v

\* A packet added behind the others keeps the credit in order.
LEMMA CreditChainAppend ==
    ASSUME NEW w \in Seq(Packet), NEW pkt \in Packet,
           NEW from \in Nat, NEW to \in Nat, NEW to2 \in Nat,
           CreditChain(w, from, to), to <= to2,
           pkt.type = "adjust" => pkt.lo = to /\ pkt.hi = to2
    PROVE  CreditChain(Append(w, pkt), from, to2)
<1> DEFINE v == Append(w, pkt)
<1>1. /\ v \in Seq(Packet)
      /\ Len(w) \in Nat
      /\ Len(v) = Len(w) + 1
      /\ \A i \in 1..Len(w) : v[i] = w[i] /\ w[i] \in Packet
      /\ v[Len(w) + 1] = pkt
    OBVIOUS
<1>2. ASSUME NEW i \in 1..Len(v), v[i].type = "adjust"
      PROVE  from <= v[i].lo /\ v[i].lo <= v[i].hi /\ v[i].hi <= to2
  <2>1. CASE i \in 1..Len(w)
    <3>1. v[i] = w[i] /\ w[i].hi \in Nat
        BY <1>1, <2>1, Zenon DEF Packet
    <3> QED
        BY <1>2, <2>1, <3>1 DEF CreditChain
  <2>2. CASE i = Len(w) + 1
    BY <1>1, <1>2, <2>2 DEF CreditChain
  <2> QED
    BY <1>1, <2>1, <2>2
<1>3. ASSUME NEW i \in 1..Len(v), NEW j \in 1..Len(v), i < j,
             v[i].type = "adjust", v[j].type = "adjust"
      PROVE  v[i].hi <= v[j].lo
  <2>1. i \in 1..Len(w) /\ v[i] = w[i]
    BY <1>1, <1>3
  <2>2. CASE j \in 1..Len(w)
    BY <1>1, <1>3, <2>1, <2>2, Zenon DEF CreditChain
  <2>3. CASE j = Len(w) + 1
    BY <1>1, <1>3, <2>1, <2>3, Zenon DEF CreditChain
  <2> QED
    BY <1>1, <2>2, <2>3
<1> HIDE DEF v
<1>4. CreditChain(v, from, to2)
    BY <1>2, <1>3 DEF CreditChain
<1> QED
    BY <1>4, Zenon DEF v

\* Adding the first packet's credit to the window keeps the rest in order.
LEMMA CreditChainTail ==
    ASSUME NEW w \in Seq(Packet), w # <<>>,
           NEW from \in Nat, NEW to \in Nat, NEW from2 \in Nat,
           CreditChain(w, from, to),
           \/ from2 = from
           \/ /\ Head(w).type = "adjust"
              /\ from2 = from + (Head(w).hi - Head(w).lo)
    PROVE  CreditChain(Tail(w), from2, to)
<1> DEFINE v == Tail(w)
<1>1. /\ v \in Seq(Packet)
      /\ Len(w) \in Nat \ {0} /\ Len(v) \in Nat
      /\ Len(v) = Len(w) - 1
      /\ \A i \in 1..Len(v) : v[i] = w[i + 1] /\ (i + 1) \in 1..Len(w)
      /\ \A i \in 1..Len(w) : w[i] \in Packet
      /\ Head(w) = w[1] /\ 1 \in 1..Len(w)
    OBVIOUS
<1>h. /\ Head(w).lo \in Nat /\ Head(w).hi \in Nat
      /\ Head(w).type = "adjust" =>
             /\ from <= Head(w).lo
             /\ Head(w).lo <= Head(w).hi
             /\ Head(w).hi <= to
  <2>1. Head(w).lo \in Nat /\ Head(w).hi \in Nat
    BY <1>1, Zenon DEF Packet
  <2> QED
    BY <1>1, <2>1, Zenon DEF CreditChain
<1>2. from2 <= to
    BY <1>h DEF CreditChain
<1>3. ASSUME NEW i \in 1..Len(v), v[i].type = "adjust"
      PROVE  from2 <= v[i].lo /\ v[i].lo <= v[i].hi /\ v[i].hi <= to
  <2>1. v[i] = w[i + 1] /\ (i + 1) \in 1..Len(w) /\ 1 < i + 1 /\ w[i + 1] \in Packet
    BY <1>1
  <2>2. v[i].lo \in Nat
    BY <2>1, Zenon DEF Packet
  <2>3. from2 <= v[i].lo
    <3>1. CASE Head(w).type = "adjust"
      <4>1. Head(w).hi <= w[i + 1].lo
        BY <1>1, <1>3, <2>1, <3>1, Zenon DEF CreditChain
      <4>2. Head(w).hi <= v[i].lo
        BY <2>1, <4>1, Zenon
      <4> QED
        BY <1>h, <2>2, <3>1, <4>2, SMTT(30)
    <3>2. CASE Head(w).type # "adjust"
        BY <1>1, <1>3, <2>1, <3>2, Zenon DEF CreditChain
    <3> QED
        BY <3>1, <3>2, Zenon
  <2> QED
    BY <1>3, <2>1, <2>3, Zenon DEF CreditChain
<1>4. ASSUME NEW i \in 1..Len(v), NEW j \in 1..Len(v), i < j,
             v[i].type = "adjust", v[j].type = "adjust"
      PROVE  v[i].hi <= v[j].lo
    BY <1>1, <1>4 DEF CreditChain
<1> HIDE DEF v
<1>5. CreditChain(v, from2, to)
    BY <1>2, <1>3, <1>4, Zenon DEF CreditChain
<1> QED
    BY <1>5, Zenon DEF v

-----------------------------------------------------------------------------
(* What a step leaves alone *)

\* A conjunct of the ledger survives a step that leaves its variables alone,
\* and moves no goroutine into or out of the points it mentions.
LEMMA LedgerFrame ==
    ASSUME Ledger, NEW r \in Peer
    PROVE  /\ UNCHANGED <<remoteWin, wgot, sent, credited>> => WriterLedger(r)'
           /\ /\ UNCHANGED <<granted, rgot, rd, myWindow, rcvd>>
              /\ \A d \in Ext : rpc'[r][d] = "adjust" <=> rpc[r][d] = "adjust"
              => ReaderLedger(r)'
           /\ UNCHANGED <<wire, rcvd, sent>> => DataOnWire(r)'
           /\ UNCHANGED <<wire, credited, granted>> => CreditOnWire(r)'
           /\ /\ UNCHANGED <<wgot, wtodo, rgot>>
              /\ \A d \in Ext :
                    /\ wpc'[r][d] = "send" <=> wpc[r][d] = "send"
                    /\ rpc'[r][d] \in {"adjust", "announce"}
                          <=> rpc[r][d] \in {"adjust", "announce"}
              => InHand(r)'
<1>1. UNCHANGED <<remoteWin, wgot, sent, credited>> => WriterLedger(r)'
    BY Zenon DEF Ledger, WriterLedger, Total
<1>2. /\ UNCHANGED <<granted, rgot, rd, myWindow, rcvd>>
      /\ \A d \in Ext : rpc'[r][d] = "adjust" <=> rpc[r][d] = "adjust"
      => ReaderLedger(r)'
    BY Zenon DEF Ledger, ReaderLedger, Total, Unadjusted, Ext
<1>3. UNCHANGED <<wire, rcvd, sent>> => DataOnWire(r)'
    BY Zenon DEF Ledger, DataOnWire
<1>4. UNCHANGED <<wire, credited, granted>> => CreditOnWire(r)'
    BY Zenon DEF Ledger, CreditOnWire
<1>5. /\ UNCHANGED <<wgot, wtodo, rgot>>
      /\ \A d \in Ext :
            /\ wpc'[r][d] = "send" <=> wpc[r][d] = "send"
            /\ rpc'[r][d] \in {"adjust", "announce"}
                  <=> rpc[r][d] \in {"adjust", "announce"}
      => InHand(r)'
    BY Zenon DEF Ledger, InHand
<1> QED
    BY <1>1, <1>2, <1>3, <1>4, <1>5, Zenon

\* Waking goroutines moves none into or out of the points the ledger mentions.
LEMMA WakeReadersKeeps ==
    ASSUME TypeOK, NEW p \in Peer, NEW on,
           rpc' = [rpc EXCEPT ![p] = WakeReaders(p, on)]
    PROVE  /\ rpc' \in [Peer -> [Ext -> {"idle", "read", "wait", "adjust", "announce"}]]
           /\ \A r \in Peer, d \in Ext :
                 /\ rpc'[r][d] = "adjust" <=> rpc[r][d] = "adjust"
                 /\ rpc'[r][d] \in {"adjust", "announce"}
                       <=> rpc[r][d] \in {"adjust", "announce"}
<1>1. WakeReaders(p, on) \in [Ext -> {"idle", "read", "wait", "adjust", "announce"}]
  <2>0. rpc \in [Peer -> [Ext -> {"idle", "read", "wait", "adjust", "announce"}]]
    BY Zenon DEF TypeOK
  <2>1. \A d \in Ext : rpc[p][d] \in {"idle", "read", "wait", "adjust", "announce"}
    BY <2>0, Zenon
  <2>2. ASSUME NEW d \in Ext
        PROVE  (IF rpc[p][d] = "wait" /\ d \in on THEN "read" ELSE rpc[p][d])
                   \in {"idle", "read", "wait", "adjust", "announce"}
    BY <2>1, Zenon
  <2> QED
    BY <2>2, Zenon DEF WakeReaders
<1>2. \A d \in Ext : /\ WakeReaders(p, on)[d] = "adjust" <=> rpc[p][d] = "adjust"
                     /\ WakeReaders(p, on)[d] \in {"adjust", "announce"}
                           <=> rpc[p][d] \in {"adjust", "announce"}
  <2> SUFFICES ASSUME NEW d \in Ext
               PROVE  /\ WakeReaders(p, on)[d] = "adjust" <=> rpc[p][d] = "adjust"
                      /\ WakeReaders(p, on)[d] \in {"adjust", "announce"}
                            <=> rpc[p][d] \in {"adjust", "announce"}
    BY Zenon
  <2>1. \/ WakeReaders(p, on)[d] = rpc[p][d]
        \/ rpc[p][d] = "wait" /\ WakeReaders(p, on)[d] = "read"
    BY Zenon DEF WakeReaders
  <2> QED
    BY <2>1, Zenon
<1>3. rpc \in [Peer -> [Ext -> {"idle", "read", "wait", "adjust", "announce"}]]
    BY Zenon DEF TypeOK
<1> DEFINE woken == WakeReaders(p, on)
<1> HIDE DEF woken
<1>4. /\ rpc' \in [Peer -> [Ext -> {"idle", "read", "wait", "adjust", "announce"}]]
      /\ \A r \in Peer : rpc'[r] = IF r = p THEN woken ELSE rpc[r]
    BY <1>1, <1>3, Zenon DEF woken
<1> QED
    BY <1>2, <1>4, Zenon DEF woken

\* Waking writers moves none into or out of SendData.
LEMMA WakeWritersKeeps ==
    ASSUME TypeOK, NEW p \in Peer, NEW except
    PROVE  /\ WakeWriters(p, except)
                 \in [Ext -> {"idle", "reserve", "wait", "recheck", "send"}]
           /\ \A d \in Ext : WakeWriters(p, except)[d] = "send" <=> wpc[p][d] = "send"
<1>0. wpc \in [Peer -> [Ext -> {"idle", "reserve", "wait", "recheck", "send"}]]
    BY Zenon DEF TypeOK
<1>1. \A d \in Ext : wpc[p][d] \in {"idle", "reserve", "wait", "recheck", "send"}
    BY <1>0, Zenon
<1>2. ASSUME NEW d \in Ext
      PROVE  LET to == IF wpc[p][d] = "wait" /\ d \notin except THEN "recheck" ELSE wpc[p][d]
             IN  /\ to \in {"idle", "reserve", "wait", "recheck", "send"}
                 /\ to = "send" <=> wpc[p][d] = "send"
    BY <1>1, Zenon
<1> QED
    BY <1>2, Zenon DEF WakeWriters

\* An eof or close packet on the wire touches neither data nor credit.
LEMMA AppendControl ==
    ASSUME TypeOK, Ledger, NEW p \in Peer, NEW pkt \in {EofPkt, ClosePkt},
           wire' = [wire EXCEPT ![p] = Append(@, pkt)],
           UNCHANGED <<sent, rcvd, granted, credited>>
    PROVE  /\ wire' \in [Peer -> Seq(Packet)]
           /\ \A r \in Peer : DataOnWire(r)' /\ CreditOnWire(r)'
<1>1. pkt \in Packet /\ pkt.type \notin {"data", "adjust"}
    BY DEF EofPkt, ClosePkt, Packet, Ext
<1>2. wire' \in [Peer -> Seq(Packet)]
  <2>1. wire \in [Peer -> Seq(Packet)] /\ wire[p] \in Seq(Packet)
    BY Zenon DEF TypeOK
  <2>2. Append(wire[p], pkt) \in Seq(Packet)
    BY <1>1, <2>1
  <2> QED
    BY <2>1, <2>2, Zenon
<1>3. ASSUME NEW r \in Peer PROVE DataOnWire(r)' /\ CreditOnWire(r)'
  <2>1. /\ wire[r] \in Seq(Packet) /\ Other(r) \in Peer
        /\ rcvd[Other(r)] \in [Ext -> Nat] /\ sent[r] \in [Ext -> Nat]
        /\ credited[Other(r)] \in Nat /\ granted[r] \in Nat
    BY PeerFacts, Zenon DEF TypeOK
  <2>2. DataOnWire(r) /\ CreditOnWire(r)
    BY Zenon DEF Ledger
  <2>3. CASE r = p
    <3>1. wire'[r] = Append(wire[r], pkt)
        BY <2>3, Zenon DEF TypeOK
    <3>2. \A e \in Ext : sent[r][e] <= sent[r][e]
        BY <2>1
    <3>3. DataChain(Append(wire[r], pkt), rcvd[Other(r)], sent[r])
        BY <1>1, <2>1, <2>2, <3>2, DataChainAppend, Zenon DEF DataOnWire
    <3>4. CreditChain(Append(wire[r], pkt), credited[Other(r)], granted[r])
        BY <1>1, <2>1, <2>2, CreditChainAppend DEF CreditOnWire
    <3> QED
        BY <3>1, <3>3, <3>4, Zenon DEF DataOnWire, CreditOnWire
  <2>4. CASE r # p
    <3>1. wire'[r] = wire[r]
        BY <2>4, Zenon DEF TypeOK
    <3> QED
        BY <2>2, <3>1, Zenon DEF DataOnWire, CreditOnWire
  <2> QED
    BY <2>3, <2>4, Zenon
<1> QED
    BY <1>2, <1>3, Zenon

-----------------------------------------------------------------------------
\* Updating one stream of one peer.
LEMMA Except2 ==
    ASSUME NEW S, NEW f \in [Peer -> [Ext -> S]], NEW p \in Peer, NEW e \in Ext,
           NEW v \in S
    PROVE  /\ [f EXCEPT ![p][e] = v] \in [Peer -> [Ext -> S]]
           /\ \A r \in Peer, d \in Ext :
                 [f EXCEPT ![p][e] = v][r][d] = IF r = p /\ d = e THEN v ELSE f[r][d]
BY Zenon

\* The counters are natural numbers.
LEMMA Counters ==
    ASSUME TypeOK, NEW r \in Peer
    PROVE  /\ \A d \in Ext : /\ sent[r][d] \in Nat /\ rcvd[r][d] \in Nat
                             /\ rd[r][d] \in Nat /\ wtodo[r][d] \in Nat
                             /\ wgot[r][d] \in Nat /\ rgot[r][d] \in Nat
           /\ granted[r] \in Nat /\ credited[r] \in Nat
           /\ remoteWin[r] \in Nat /\ myWindow[r] \in Nat
           /\ remoteWin[r] < UintMod /\ myWindow[r] < UintMod
           /\ WindowSize \in Nat /\ MaxPacket \in Nat /\ UintMod \in Nat
<1>1. WindowSize \in Nat /\ MaxPacket \in Nat /\ UintMod \in Nat
    BY SizeAssumption
<1>2. remoteWin[r] \in 0..(UintMod - 1) /\ myWindow[r] \in 0..(UintMod - 1)
    BY Zenon DEF TypeOK
<1>3. granted[r] \in Nat /\ credited[r] \in Nat
    BY Zenon DEF TypeOK
<1>4. ASSUME NEW d \in Ext
      PROVE  /\ sent[r][d] \in Nat /\ rcvd[r][d] \in Nat
             /\ rd[r][d] \in Nat /\ wtodo[r][d] \in Nat
             /\ wgot[r][d] \in Nat /\ rgot[r][d] \in Nat
  <2>1. /\ sent[r] \in [Ext -> Nat] /\ rcvd[r] \in [Ext -> Nat]
        /\ rd[r] \in [Ext -> Nat] /\ wtodo[r] \in [Ext -> Nat]
        /\ wgot[r] \in [Ext -> Nat] /\ rgot[r] \in [Ext -> Nat]
    BY Zenon DEF TypeOK
  <2> QED
    BY <2>1, Zenon
<1> QED
    BY <1>1, <1>2, <1>3, <1>4

\* A channel just opened on both sides starts with balanced ledgers.
LEMMA InitFlow == Init => FlowInv
<1> SUFFICES ASSUME Init PROVE FlowInv
    BY Zenon
<1> USE SizeAssumption DEF Init, Ext
<1>1. TypeOK
    BY DEF TypeOK
<1>2. ASSUME NEW p \in Peer
      PROVE  WriterLedger(p) /\ ReaderLedger(p) /\ InHand(p)
    BY DEF WriterLedger, ReaderLedger, InHand, Total, Unadjusted
<1>3. ASSUME NEW p \in Peer
      PROVE  DataOnWire(p) /\ CreditOnWire(p)
  <2>1. wire[p] = <<>> /\ Len(wire[p]) = 0 /\ 1..Len(wire[p]) = {}
    OBVIOUS
  <2> QED
    BY <2>1, PeerFacts DEF DataOnWire, CreditOnWire, DataChain, CreditChain
<1>4. FlowControlRespected
    BY Zenon DEF FlowControlRespected
<1> QED
    BY <1>1, <1>2, <1>3, <1>4, Zenon DEF FlowInv, Ledger

-----------------------------------------------------------------------------
(* The steps of the writers. *)

\* A call of WriteExtended takes nothing from the window yet.
LEMMA WriteExtendedFlow ==
    ASSUME FlowInv, NEW p \in Peer, NEW e \in Ext,
           NEW n \in 1..MaxBytes[p][e], WriteExtended(p, e, n)
    PROVE  FlowInv'
<1> USE DEF FlowInv
<1>1. n \in Nat
    BY BytesAssumption
<1>2. TypeOK'
  <2>1. wpc' \in [Peer -> [Ext -> {"idle", "reserve", "wait", "recheck", "send"}]]
    BY Zenon DEF TypeOK, WriteExtended
  <2>2. wtodo' \in [Peer -> [Ext -> Nat]]
    BY <1>1, Zenon DEF TypeOK, WriteExtended
  <2> QED
    BY <2>1, <2>2, Zenon
    DEF TypeOK, WriteExtended, winVars, byteVars, rVars, lifeVars, muxVars
<1>3. ASSUME NEW r \in Peer
      PROVE  WriterLedger(r)' /\ ReaderLedger(r)' /\ DataOnWire(r)' /\ CreditOnWire(r)'
    BY LedgerFrame, Zenon DEF WriteExtended, winVars, byteVars, rVars
<1>4. ASSUME NEW r \in Peer, NEW d \in Ext
      PROVE  /\ wgot'[r][d] <= MaxPacket
             /\ wgot'[r][d] <= wtodo'[r][d]
             /\ wpc'[r][d] # "send" => wgot'[r][d] = 0
             /\ rpc'[r][d] \notin {"adjust", "announce"} => rgot'[r][d] = 0
  <2>1. InHand(r) /\ wgot' = wgot /\ rpc' = rpc /\ rgot' = rgot
    BY Zenon DEF Ledger, WriteExtended, rVars
  <2>2. CASE r = p /\ d = e
    <3>1. wtodo'[r][d] = n /\ wpc[r][d] = "idle" /\ wpc'[r][d] = "reserve"
        BY <2>2, Zenon DEF WriteExtended, TypeOK
    <3> QED
        BY <1>1, <2>1, <3>1 DEF InHand
  <2>3. CASE ~(r = p /\ d = e)
    <3>1. wtodo'[r][d] = wtodo[r][d] /\ wpc'[r][d] = wpc[r][d]
        BY <2>3, Zenon DEF WriteExtended, TypeOK
    <3> QED
        BY <2>1, <3>1, Zenon DEF InHand
  <2> QED
    BY <2>2, <2>3, Zenon
<1>5. FlowControlRespected'
    BY Zenon DEF FlowControlRespected, WriteExtended, muxVars
<1> QED
    BY <1>2, <1>3, <1>4, <1>5, Zenon DEF Ledger, InHand

\* window.reserve moves bytes from remoteWin to the writer, or, once the
\* window is closed, spends them.
LEMMA ReserveFlow ==
    ASSUME FlowInv, NEW p \in Peer, NEW e \in Ext, Reserve(p, e)
    PROVE  FlowInv'
<1> USE DEF FlowInv
<1> DEFINE others == IF wpc[p][e] = "reserve" THEN WakeWriters(p, {e}) ELSE wpc[p]
           space  == MinOf(MinOf(MaxPacket, wtodo[p][e]), remoteWin[p])
           PC == {"idle", "reserve", "wait", "recheck", "send"}
<1>t. /\ remoteWin \in [Peer -> 0..(UintMod - 1)]
      /\ sent \in [Peer -> [Ext -> Nat]]
      /\ credited \in [Peer -> Nat]
      /\ wpc \in [Peer -> [Ext -> PC]]
      /\ wtodo \in [Peer -> [Ext -> Nat]]
      /\ wgot \in [Peer -> [Ext -> Nat]]
    BY Zenon DEF TypeOK
<1>s. WindowSize \in Nat /\ MaxPacket \in Nat /\ UintMod \in Nat
    BY SizeAssumption
<1>1. /\ space \in Nat
      /\ space <= remoteWin[p] /\ space <= MaxPacket /\ space <= wtodo[p][e]
  <2>1. remoteWin[p] \in Nat /\ wtodo[p][e] \in Nat /\ MaxPacket \in Nat
    BY <1>t, <1>s
  <2> QED
    BY <2>1 DEF MinOf
<1>2. /\ others \in [Ext -> PC]
      /\ \A d \in Ext : others[d] = "send" <=> wpc[p][d] = "send"
    BY <1>t, WakeWritersKeeps, Zenon
<1>3. wpc[p][e] # "send" /\ wgot[p][e] = 0
    BY Zenon DEF Reserve, Ledger, InHand
<1> HIDE DEF others, space
<1>4. /\ wpc' \in [Peer -> [Ext -> PC]]
      /\ \A r \in Peer, d \in Ext :
            ~(r = p /\ d = e) => (wpc'[r][d] = "send" <=> wpc[r][d] = "send")
  <2>2. ASSUME NEW c \in PC, wpc' = [wpc EXCEPT ![p] = [others EXCEPT ![e] = c]]
        PROVE  /\ wpc' \in [Peer -> [Ext -> PC]]
               /\ \A r \in Peer, d \in Ext :
                    ~(r = p /\ d = e) => (wpc'[r][d] = "send" <=> wpc[r][d] = "send")
    <3>1. [others EXCEPT ![e] = c] \in [Ext -> PC]
        BY <1>2, Zenon
    <3> QED
        BY <1>t, <1>2, <2>2, <3>1, Zenon
  <2>3. ASSUME wpc' = [wpc EXCEPT ![p][e] = "idle"]
        PROVE  /\ wpc' \in [Peer -> [Ext -> PC]]
               /\ \A r \in Peer, d \in Ext :
                    ~(r = p /\ d = e) => (wpc'[r][d] = "send" <=> wpc[r][d] = "send")
    BY <1>t, <2>3, Zenon
  <2> QED
    BY <2>2, <2>3, Zenon DEF Reserve, others
<1>5. CASE UNCHANGED <<remoteWin, wgot>> /\ wpc'[p][e] # "send"
  <2>1. \A r \in Peer, d \in Ext :
           ~(r = p /\ d = e) => wtodo'[r][d] = wtodo[r][d]
    BY <1>t, <1>5 DEF Reserve
  <2>2. TypeOK'
    <3>1. wtodo' = wtodo \/ wtodo' = [wtodo EXCEPT ![p][e] = 0]
        BY <1>5, Zenon DEF Reserve
    <3>2. wtodo' \in [Peer -> [Ext -> Nat]]
        BY <1>t, <3>1, Except2
    <3> QED
        BY <1>4, <1>5, <3>2, Zenon
        DEF TypeOK, Reserve, byteVars, rVars, lifeVars, muxVars
  <2>3. ASSUME NEW r \in Peer
        PROVE  WriterLedger(r)' /\ ReaderLedger(r)' /\ DataOnWire(r)' /\ CreditOnWire(r)'
    BY <1>5, LedgerFrame, Zenon DEF Reserve, byteVars, rVars
  <2>4. ASSUME NEW r \in Peer PROVE InHand(r)'
    <3>1. InHand(r) /\ wgot' = wgot /\ rpc' = rpc /\ rgot' = rgot
        BY <1>5, Zenon DEF Ledger, Reserve, rVars
    <3>2. wtodo'[p][e] \in Nat /\ MaxPacket \in Nat
        BY <1>s, <2>1, <1>t, SMTT(30) DEF Reserve
    <3> QED
        BY <1>3, <1>4, <2>1, <3>1, <3>2 DEF InHand
  <2>5. FlowControlRespected'
    BY Zenon DEF FlowControlRespected, Reserve, muxVars
  <2> QED
    BY <2>2, <2>3, <2>4, <2>5, Zenon DEF Ledger
<1>6. CASE /\ remoteWin' = [remoteWin EXCEPT ![p] = @ - space]
           /\ \/ /\ wgot' = [wgot EXCEPT ![p][e] = space]
                 /\ wpc'[p][e] = "send"
                 /\ UNCHANGED wtodo
              \/ /\ UNCHANGED wgot
                 /\ wtodo' = [wtodo EXCEPT ![p][e] = 0]
                 /\ wpc'[p][e] # "send"
  <2>1. TypeOK'
    <3>1. remoteWin' \in [Peer -> 0..(UintMod - 1)]
        BY <1>t, <1>s, <1>1, <1>6
    <3>2. wgot' \in [Peer -> [Ext -> Nat]] /\ wtodo' \in [Peer -> [Ext -> Nat]]
      <4>1. /\ [wgot EXCEPT ![p][e] = space] \in [Peer -> [Ext -> Nat]]
            /\ [wtodo EXCEPT ![p][e] = 0] \in [Peer -> [Ext -> Nat]]
        BY <1>t, <1>1, Except2, Zenon
      <4> QED
        BY <1>t, <1>6, <4>1, Zenon
    <3> QED
        BY <1>4, <3>1, <3>2, Zenon
        DEF TypeOK, Reserve, byteVars, rVars, lifeVars, muxVars
  <2>2. ASSUME NEW r \in Peer
        PROVE  ReaderLedger(r)' /\ DataOnWire(r)' /\ CreditOnWire(r)'
    BY LedgerFrame, Zenon DEF Reserve, byteVars, rVars
  <2>3. ASSUME NEW r \in Peer PROVE WriterLedger(r)'
    <3>1. WriterLedger(r) /\ sent' = sent /\ credited' = credited
        BY Zenon DEF Ledger, Reserve, byteVars
    <3>2. /\ remoteWin[r] \in Nat /\ wgot[r][0] \in Nat /\ wgot[r][1] \in Nat
          /\ sent[r][0] \in Nat /\ sent[r][1] \in Nat /\ credited[r] \in Nat
          /\ WindowSize \in Nat
        BY <1>t, <1>s DEF Ext
    <3>3. CASE r # p
      <4>1. remoteWin'[r] = remoteWin[r] /\ wgot'[r] = wgot[r]
        BY <1>t, <1>6, <3>3, Zenon
      <4> QED
        BY <3>1, <4>1, Zenon DEF WriterLedger, Total
    <3>4. CASE r = p
      <4>1. remoteWin'[r] = remoteWin[r] - space
        BY <1>t, <1>6, <3>4, Zenon
      <4>2. \A d \in Ext : wgot'[r][d] = wgot[r][d] \/ (d = e /\ wgot'[r][d] = space)
        BY <1>t, <1>1, <1>6, <3>4, Except2
      <4>3. Total(wgot'[r]) <= Total(wgot[r]) + space /\ Total(wgot'[r]) \in Nat
        BY <1>1, <1>3, <3>2, <3>4, <4>2 DEF Total, Ext
      <4> QED
        BY <1>1, <3>1, <3>2, <4>1, <4>2, <4>3 DEF WriterLedger, Total
    <3> QED
        BY <3>3, <3>4, Zenon
  <2>4. ASSUME NEW r \in Peer, NEW d \in Ext
        PROVE  /\ wgot'[r][d] <= MaxPacket
               /\ wgot'[r][d] <= wtodo'[r][d]
               /\ wpc'[r][d] # "send" => wgot'[r][d] = 0
               /\ rpc'[r][d] \notin {"adjust", "announce"} => rgot'[r][d] = 0
    <3>1. InHand(r) /\ rpc' = rpc /\ rgot' = rgot /\ MaxPacket \in Nat
        BY SizeAssumption DEF Ledger, Reserve, rVars
    <3>2. CASE r = p /\ d = e
      <4>1. \/ wgot'[r][d] = space /\ wtodo'[r][d] = wtodo[r][d] /\ wpc'[r][d] = "send"
            \/ wgot'[r][d] = 0 /\ wtodo'[r][d] = 0 /\ wpc'[r][d] # "send"
        BY <1>t, <1>3, <1>6, <3>2
      <4> QED
        BY <1>1, <3>1, <3>2, <4>1 DEF InHand
    <3>3. CASE ~(r = p /\ d = e)
      <4>1. wgot'[r][d] = wgot[r][d] /\ wtodo'[r][d] = wtodo[r][d]
        BY <1>t, <1>6, <3>3
      <4> QED
        BY <1>4, <3>1, <3>3, <4>1, Zenon DEF InHand
    <3> QED
        BY <3>2, <3>3, Zenon
  <2>5. FlowControlRespected'
    BY Zenon DEF FlowControlRespected, Reserve, muxVars
  <2> QED
    BY <2>1, <2>2, <2>3, <2>4, <2>5, Zenon DEF Ledger, InHand
<1> QED
  <2>1. /\ \A c \in PC : wpc' = [wpc EXCEPT ![p] = [others EXCEPT ![e] = c]]
                              => wpc'[p][e] = c
        /\ wpc' = [wpc EXCEPT ![p][e] = "idle"] => wpc'[p][e] = "idle"
    BY <1>t, <1>2
  <2> QED
    BY <1>5, <1>6, <2>1, Zenon DEF Reserve, others, space

\* writePacket moves the reserved bytes from the writer to the wire.
LEMMA SendDataFlow ==
    ASSUME FlowInv, NEW p \in Peer, NEW e \in Ext, SendData(p, e)
    PROVE  FlowInv'
<1> USE DEF FlowInv
<1> DEFINE hi == sent[p][e] + wgot[p][e]
           PC == {"idle", "reserve", "wait", "recheck", "send"}
<1>t. /\ wire \in [Peer -> Seq(Packet)]
      /\ sent \in [Peer -> [Ext -> Nat]]
      /\ rcvd \in [Peer -> [Ext -> Nat]]
      /\ granted \in [Peer -> Nat] /\ credited \in [Peer -> Nat]
      /\ wpc \in [Peer -> [Ext -> PC]]
      /\ wtodo \in [Peer -> [Ext -> Nat]]
      /\ wgot \in [Peer -> [Ext -> Nat]]
    BY Zenon DEF TypeOK
<1>s. WindowSize \in Nat /\ MaxPacket \in Nat /\ UintMod \in Nat
    BY SizeAssumption
<1>0. 0 \in Ext /\ 1 \in Ext
    BY Zenon DEF Ext
<1>n. \A r \in Peer, d \in Ext : wgot[r][d] \in Nat /\ sent[r][d] \in Nat
    BY <1>t, Zenon
<1>1. /\ wgot[p][e] \in Nat /\ sent[p][e] \in Nat /\ wtodo[p][e] \in Nat
      /\ hi \in Nat /\ wgot[p][e] <= wtodo[p][e] /\ wgot[p][e] <= MaxPacket
      /\ wtodo[p][e] - wgot[p][e] \in Nat
  <2>1. wgot[p][e] \in Nat /\ sent[p][e] \in Nat /\ wtodo[p][e] \in Nat
    BY <1>t, Zenon
  <2>2. wgot[p][e] <= wtodo[p][e] /\ wgot[p][e] <= MaxPacket
    BY Zenon DEF Ledger, InHand
  <2> QED
    BY <2>1, <2>2, SMTT(30)
<1>2. /\ wgot' \in [Peer -> [Ext -> Nat]]
      /\ \A r \in Peer, d \in Ext :
            wgot'[r][d] = IF r = p /\ d = e THEN 0 ELSE wgot[r][d]
  <2>1. wgot' = [wgot EXCEPT ![p][e] = 0] /\ wgot \in [Peer -> [Ext -> Nat]]
    BY <1>t, Zenon DEF SendData
  <2> QED
    BY <2>1, Except2
<1>3. /\ wpc' \in [Peer -> [Ext -> PC]]
      /\ \A r \in Peer, d \in Ext : ~(r = p /\ d = e) => wpc'[r][d] = wpc[r][d]
      /\ wpc'[p][e] # "send"
  <2>1. \E c \in {"idle", "reserve"} : wpc' = [wpc EXCEPT ![p][e] = c]
    BY Zenon DEF SendData
  <2> QED
    BY <1>t, <2>1, Except2
<1>4. /\ wtodo' \in [Peer -> [Ext -> Nat]]
      /\ \A r \in Peer, d \in Ext : ~(r = p /\ d = e) => wtodo'[r][d] = wtodo[r][d]
  <2>1. \E n \in Nat : wtodo' = [wtodo EXCEPT ![p][e] = n]
    BY <1>1, Zenon DEF SendData
  <2>2. wtodo \in [Peer -> [Ext -> Nat]]
    BY <1>t, Zenon
  <2> QED
    BY <2>1, <2>2, Except2
<1>5. ASSUME NEW r \in Peer PROVE InHand(r)'
  <2>1. InHand(r) /\ rpc' = rpc /\ rgot' = rgot /\ wtodo'[p][e] \in Nat
    BY <1>4, Zenon DEF Ledger, SendData, rVars
  <2> SUFFICES ASSUME NEW d \in Ext
               PROVE  /\ wgot'[r][d] <= MaxPacket
                      /\ wgot'[r][d] <= wtodo'[r][d]
                      /\ wpc'[r][d] # "send" => wgot'[r][d] = 0
                      /\ rpc'[r][d] \notin {"adjust", "announce"} => rgot'[r][d] = 0
    BY Zenon DEF InHand
  <2>2. CASE r = p /\ d = e
    <3>1. wgot'[r][d] = 0
        BY <1>2, <2>2, Zenon
    <3>2. wtodo'[r][d] \in Nat
        BY <2>1, <2>2, Zenon
    <3>3. wgot'[r][d] <= MaxPacket /\ wgot'[r][d] <= wtodo'[r][d]
        BY <1>s, <3>1, <3>2
    <3> QED
        BY <2>1, <3>1, <3>3, Zenon DEF InHand
  <2>3. CASE ~(r = p /\ d = e)
    <3>1. /\ wgot'[r][d] = wgot[r][d] /\ wtodo'[r][d] = wtodo[r][d]
          /\ wpc'[r][d] = wpc[r][d]
        BY <1>2, <1>3, <1>4, <2>3, Zenon
    <3> QED
        BY <2>1, <3>1, Zenon DEF InHand
  <2> QED
    BY <2>2, <2>3, Zenon
<1>6. ASSUME NEW r \in Peer PROVE ReaderLedger(r)'
    BY LedgerFrame, Zenon DEF SendData, winVars, rVars
<1>7. FlowControlRespected'
    BY Zenon DEF FlowControlRespected, SendData, muxVars
<1>8. CASE /\ wire' = [wire EXCEPT ![p] = Append(@, DataPkt(e, sent[p][e], hi))]
           /\ sent' = [sent EXCEPT ![p][e] = hi]
  <2>1. DataPkt(e, sent[p][e], hi) \in Packet
    BY <1>1, Zenon DEF DataPkt, Packet
  <2>2. /\ sent' \in [Peer -> [Ext -> Nat]]
        /\ \A r \in Peer, d \in Ext :
              sent'[r][d] = IF r = p /\ d = e THEN hi ELSE sent[r][d]
    <3>1. sent \in [Peer -> [Ext -> Nat]] /\ hi \in Nat
        BY <1>t, <1>1, Zenon
    <3> HIDE DEF hi
    <3> QED
        BY <1>8, <3>1, Except2
  <2>3. /\ wire' \in [Peer -> Seq(Packet)]
        /\ wire'[p] = Append(wire[p], DataPkt(e, sent[p][e], hi))
        /\ wire[p] \in Seq(Packet)
        /\ \A r \in Peer : r # p => wire'[r] = wire[r]
    <3>1. wire[p] \in Seq(Packet) /\ Append(wire[p], DataPkt(e, sent[p][e], hi)) \in Seq(Packet)
      <4>1. wire[p] \in Seq(Packet)
        BY <1>t, Zenon
      <4> QED
        BY <2>1, <4>1
    <3> QED
        BY <1>t, <1>8, <3>1, Zenon
  <2>4. TypeOK'
    BY <1>2, <1>3, <1>4, <2>2, <2>3, Zenon
    DEF TypeOK, SendData, winVars, rVars, lifeVars, muxVars
  <2>5. ASSUME NEW r \in Peer PROVE WriterLedger(r)'
    <3>1. WriterLedger(r) /\ remoteWin' = remoteWin /\ credited' = credited
        BY Zenon DEF Ledger, SendData, winVars
    <3>2. Total(wgot'[r]) + Total(sent'[r]) = Total(wgot[r]) + Total(sent[r])
      <4>1. /\ wgot[r][0] \in Nat /\ wgot[r][1] \in Nat
            /\ sent[r][0] \in Nat /\ sent[r][1] \in Nat
        BY <1>t, <1>0, Zenon
      <4>2. CASE r # p
        BY <1>2, <2>2, <4>2, <1>0, Zenon DEF Total
      <4>3. CASE r = p
        <5>1. wgot[p][0] \in Nat /\ wgot[p][1] \in Nat
          BY <4>1, <4>3, Zenon
        <5>2. ASSUME NEW d \in Ext
              PROVE  wgot'[p][d] + sent'[p][d] = wgot[p][d] + sent[p][d]
          <6>1. CASE d = e
            <7>1. wgot'[p][d] = 0 /\ sent'[p][d] = sent[p][d] + wgot[p][d]
              BY <1>2, <2>2, <6>1, Zenon
            <7>2. wgot[p][d] \in Nat /\ sent[p][d] \in Nat
              BY <1>n, Zenon
            <7> HIDE DEF hi
            <7> QED
              BY <7>1, <7>2, SMTT(30)
          <6>2. CASE d # e
            BY <1>2, <2>2, <6>2, Zenon
          <6> QED
            BY <6>1, <6>2, Zenon
        <5>3. /\ wgot'[p][0] \in Nat /\ sent'[p][0] \in Nat
              /\ wgot'[p][1] \in Nat /\ sent'[p][1] \in Nat
          BY <1>2, <2>2, <1>0, Zenon
        <5>4. /\ wgot'[p][0] + sent'[p][0] = wgot[p][0] + sent[p][0]
              /\ wgot'[p][1] + sent'[p][1] = wgot[p][1] + sent[p][1]
          BY <5>2, <1>0, Zenon
        <5>5. Total(wgot'[p]) + Total(sent'[p]) = Total(wgot[p]) + Total(sent[p])
          <6>1. sent[p][0] \in Nat /\ sent[p][1] \in Nat
            BY <4>1, <4>3, Zenon
          <6> QED
            BY <5>1, <6>1, <5>3, <5>4, TotalsMoved, SMTT(30)
        <5> QED
          BY <4>3, <5>5, Zenon
      <4> QED
        BY <4>2, <4>3, Zenon
    <3>3. /\ remoteWin[r] \in Int /\ credited[r] \in Int
          /\ Total(wgot[r]) \in Int /\ Total(sent[r]) \in Int
          /\ Total(wgot'[r]) \in Int /\ Total(sent'[r]) \in Int
      <4>1. remoteWin[r] \in 0..(UintMod - 1) /\ credited[r] \in Nat
        BY Zenon DEF TypeOK
      <4> QED
        <5>1. /\ wgot'[r][0] \in Nat /\ sent'[r][0] \in Nat
              /\ wgot'[r][1] \in Nat /\ sent'[r][1] \in Nat
          BY <1>2, <2>2, <1>0
        <5> QED
          BY <1>n, <1>s, <1>0, <4>1, <5>1 DEF Total
    <3>4. /\ remoteWin[r] + Total(wgot[r]) + Total(sent[r]) <= WindowSize + credited[r]
          /\ remoteWin'[r] = remoteWin[r] /\ credited'[r] = credited[r]
        BY <3>1, Zenon DEF WriterLedger
    <3>5. remoteWin'[r] + Total(wgot'[r]) + Total(sent'[r]) <= WindowSize + credited'[r]
        BY <1>s, <3>2, <3>3, <3>4
    <3> QED
        BY <3>5, Zenon DEF WriterLedger
  <2>6. ASSUME NEW r \in Peer PROVE DataOnWire(r)' /\ CreditOnWire(r)'
    <3>1. /\ DataOnWire(r) /\ CreditOnWire(r) /\ Other(r) \in Peer
          /\ rcvd' = rcvd /\ credited' = credited /\ granted' = granted
        BY PeerFacts, Zenon DEF Ledger, SendData
    <3>2. /\ rcvd[Other(r)] \in [Ext -> Nat] /\ sent[r] \in [Ext -> Nat]
          /\ sent'[r] \in [Ext -> Nat]
          /\ credited[Other(r)] \in Nat /\ granted[r] \in Nat
        BY <1>t, <2>2, <3>1, Zenon
    <3>3. CASE r # p
      <4>1. wire'[r] = wire[r] /\ sent'[r] = sent[r]
        BY <1>t, <1>8, <2>3, <3>3, Zenon
      <4> QED
        BY <3>1, <4>1, Zenon DEF DataOnWire, CreditOnWire
    <3>4. CASE r = p
      <4> DEFINE pkt == DataPkt(e, sent[p][e], hi)
      <4>1. /\ pkt.type = "data" /\ pkt.ext = e /\ pkt.lo = sent[p][e] /\ pkt.hi = hi
            /\ pkt.hi - pkt.lo <= MaxPacket
        BY <1>1, SMTT(30) DEF DataPkt
      <4>2. /\ \A d \in Ext : sent[r][d] <= sent'[r][d]
            /\ pkt.hi = sent'[r][pkt.ext] /\ pkt.lo = sent[r][pkt.ext]
        <5>1. sent[p][e] <= hi
          BY <1>1
        <5> HIDE DEF hi, pkt
        <5>2. \A d \in Ext : sent'[p][d] = (IF d = e THEN hi ELSE sent[p][d]) /\ sent[p][d] \in Nat
          BY <1>n, <2>2, Zenon
        <5>3. \A d \in Ext : sent[p][d] <= sent'[p][d]
          BY <5>1, <5>2
        <5>4. pkt.hi = sent'[p][pkt.ext] /\ pkt.lo = sent[p][pkt.ext]
          BY <4>1, <5>2, Zenon
        <5> QED
          BY <3>4, <5>3, <5>4, Zenon
      <4>3. DataChain(wire[r], rcvd[Other(r)], sent[r])
        BY <3>1, Zenon DEF DataOnWire
      <4>4. CreditChain(wire[r], credited[Other(r)], granted[r])
        BY <3>1, Zenon DEF CreditOnWire
      <4> HIDE DEF pkt
      <4>5. wire'[r] = Append(wire[r], pkt) /\ pkt \in Packet /\ wire[r] \in Seq(Packet)
        BY <2>1, <2>3, <3>4, Zenon DEF pkt
      <4>6. DataChain(Append(wire[r], pkt), rcvd[Other(r)], sent'[r])
        <5>1. pkt.type = "data" => /\ pkt.lo = sent[r][pkt.ext] /\ pkt.hi = sent'[r][pkt.ext]
                                   /\ pkt.hi - pkt.lo <= MaxPacket
          BY <4>1, <4>2, Zenon
        <5>2. wire[r] \in Seq(Packet) /\ pkt \in Packet /\ \A d \in Ext : sent[r][d] <= sent'[r][d]
          BY <4>2, <4>5, Zenon
        <5> QED
          BY <3>2, <4>3, <5>1, <5>2, DataChainAppend, Zenon
      <4>7. CreditChain(Append(wire[r], pkt), credited[Other(r)], granted[r])
        BY <3>2, <4>1, <4>4, <4>5, CreditChainAppend
      <4> QED
        BY <3>1, <4>5, <4>6, <4>7, Zenon DEF DataOnWire, CreditOnWire
    <3> QED
        BY <3>3, <3>4, Zenon
  <2> QED
    BY <1>5, <1>6, <1>7, <2>4, <2>5, <2>6, Zenon DEF Ledger
<1>9. CASE UNCHANGED <<wire, sent>>
  <2>1. TypeOK'
    BY <1>2, <1>3, <1>4, <1>9, Zenon
    DEF TypeOK, SendData, winVars, rVars, lifeVars, muxVars
  <2>2. ASSUME NEW r \in Peer PROVE WriterLedger(r)'
    <3>1. WriterLedger(r) /\ remoteWin' = remoteWin /\ credited' = credited
        BY Zenon DEF Ledger, SendData, winVars
    <3>2. /\ remoteWin[r] \in Int /\ credited[r] \in Int
          /\ Total(wgot[r]) \in Int /\ Total(sent[r]) \in Int
          /\ Total(wgot'[r]) \in Int /\ Total(wgot'[r]) <= Total(wgot[r])
      <4>1. remoteWin[r] \in 0..(UintMod - 1) /\ credited[r] \in Nat
        BY Zenon DEF TypeOK
      <4>2. /\ wgot[r][0] \in Nat /\ wgot[r][1] \in Nat
            /\ sent[r][0] \in Nat /\ sent[r][1] \in Nat
        BY <1>t, <1>0
      <4>3. \A d \in Ext : wgot'[r][d] \in Nat /\ wgot'[r][d] <= wgot[r][d]
        BY <1>n, <1>2
      <4>4. /\ wgot'[r][0] \in Nat /\ wgot'[r][0] <= wgot[r][0]
            /\ wgot'[r][1] \in Nat /\ wgot'[r][1] <= wgot[r][1]
        BY <1>0, <4>3, Zenon
      <4>5. remoteWin[r] \in Int /\ credited[r] \in Int
        BY <1>s, <4>1
      <4>6. Total(wgot[r]) \in Int /\ Total(sent[r]) \in Int
        BY <4>2 DEF Total
      <4>7. Total(wgot'[r]) \in Int
        BY <4>4 DEF Total
      <4>8. Total(wgot'[r]) <= Total(wgot[r])
        BY <4>2, <4>4 DEF Total
      <4> QED
        BY <4>5, <4>6, <4>7, <4>8, Zenon
    <3>3. /\ remoteWin[r] + Total(wgot[r]) + Total(sent[r]) <= WindowSize + credited[r]
          /\ remoteWin'[r] = remoteWin[r] /\ credited'[r] = credited[r] /\ sent'[r] = sent[r]
        BY <1>9, <3>1, Zenon DEF WriterLedger
    <3>4. remoteWin'[r] + Total(wgot'[r]) + Total(sent'[r]) <= WindowSize + credited'[r]
        BY <1>s, <3>2, <3>3
    <3> QED
        BY <3>4, Zenon DEF WriterLedger
  <2>3. ASSUME NEW r \in Peer PROVE DataOnWire(r)' /\ CreditOnWire(r)'
    BY <1>9, LedgerFrame, Zenon DEF SendData
  <2> QED
    BY <1>5, <1>6, <1>7, <2>1, <2>2, <2>3, Zenon DEF Ledger
<1> QED
    BY <1>8, <1>9, Zenon DEF SendData, WritePacket

-----------------------------------------------------------------------------
(* The steps of the readers. *)

\* A call of ReadExtended moves no bytes.
LEMMA ReadExtendedFlow ==
    ASSUME FlowInv, NEW p \in Peer, NEW e \in Ext, ReadExtended(p, e)
    PROVE  FlowInv'
<1> USE DEF FlowInv
<1> DEFINE PC == {"idle", "read", "wait", "adjust", "announce"}
<1>1. /\ rpc' \in [Peer -> [Ext -> PC]]
      /\ \A r \in Peer, d \in Ext :
            rpc'[r][d] = IF r = p /\ d = e THEN "read" ELSE rpc[r][d]
  <2>1. rpc \in [Peer -> [Ext -> PC]] /\ rpc' = [rpc EXCEPT ![p][e] = "read"]
    BY Zenon DEF TypeOK, ReadExtended
  <2> QED
    BY <2>1, Except2
<1>2. TypeOK'
    BY <1>1, Zenon DEF TypeOK, ReadExtended, winVars, byteVars, wVars, lifeVars, muxVars
<1>3. \A r \in Peer, d \in Ext :
         /\ rpc'[r][d] = "adjust" <=> rpc[r][d] = "adjust"
         /\ rpc'[r][d] \in {"adjust", "announce"} <=> rpc[r][d] \in {"adjust", "announce"}
    BY <1>1, Zenon DEF ReadExtended
<1>4. Ledger'
  <2> SUFFICES ASSUME NEW r \in Peer
               PROVE  (/\ WriterLedger(r) /\ ReaderLedger(r) /\ DataOnWire(r)
                       /\ CreditOnWire(r) /\ InHand(r))'
    BY Zenon DEF Ledger
  <2> QED
    BY <1>3, LedgerFrame, Zenon DEF ReadExtended, winVars, byteVars, wVars
<1>5. FlowControlRespected'
    BY Zenon DEF FlowControlRespected, ReadExtended, muxVars
<1> QED
    BY <1>2, <1>4, <1>5, Zenon

\* buffer.Read moves bytes from the buffer to the reader, still unadjusted.
LEMMA BufferReadFlow ==
    ASSUME FlowInv, NEW p \in Peer, NEW e \in Ext, BufferRead(p, e)
    PROVE  FlowInv'
<1> USE DEF FlowInv
<1> DEFINE PC == {"idle", "read", "wait", "adjust", "announce"}
<1>t. /\ rpc \in [Peer -> [Ext -> PC]]
      /\ rd \in [Peer -> [Ext -> Nat]]
      /\ rgot \in [Peer -> [Ext -> Nat]]
      /\ eofSeen \in [Peer -> [Ext -> BOOLEAN]]
    BY Zenon DEF TypeOK
<1>n. \A r \in Peer, d \in Ext :
         rd[r][d] \in Nat /\ rgot[r][d] \in Nat /\ rcvd[r][d] \in Nat
    BY Counters, Zenon
<1>m. \A r \in Peer : myWindow[r] \in Int /\ granted[r] \in Nat /\ WindowSize \in Nat
    BY Counters
<1>0. 0 \in Ext /\ 1 \in Ext
    BY Zenon DEF Ext
<1>1. FlowControlRespected'
    BY Zenon DEF FlowControlRespected, BufferRead, muxVars
<1>2. ASSUME NEW r \in Peer
      PROVE  WriterLedger(r)' /\ DataOnWire(r)' /\ CreditOnWire(r)'
    BY LedgerFrame, Zenon DEF BufferRead, winVars, wVars
<1>3. CASE UNCHANGED <<rd, rgot>> /\ \E c \in {"idle", "wait"} :
              rpc' = [rpc EXCEPT ![p][e] = c]
  <2>1. /\ rpc' \in [Peer -> [Ext -> PC]]
        /\ \A r \in Peer, d \in Ext :
              /\ rpc'[r][d] = "adjust" <=> rpc[r][d] = "adjust"
              /\ rpc'[r][d] \in {"adjust", "announce"}
                    <=> rpc[r][d] \in {"adjust", "announce"}
    <3>1. PICK c \in {"idle", "wait"} : rpc' = [rpc EXCEPT ![p][e] = c]
        BY <1>3, Zenon
    <3>2. c \in PC
        BY Zenon
    <3>3. /\ rpc' \in [Peer -> [Ext -> PC]]
          /\ \A r \in Peer, d \in Ext :
                rpc'[r][d] = IF r = p /\ d = e THEN c ELSE rpc[r][d]
        BY <1>t, <3>1, <3>2, Except2
    <3> QED
        BY <3>3 DEF BufferRead
  <2>2. eofSeen' \in [Peer -> [Ext -> BOOLEAN]]
    <3>1. eofSeen' = eofSeen \/ eofSeen' = [eofSeen EXCEPT ![p][e] = TRUE]
        BY Zenon DEF BufferRead
    <3>2. [eofSeen EXCEPT ![p][e] = TRUE] \in [Peer -> [Ext -> BOOLEAN]]
        BY <1>t, Zenon
    <3> QED
        BY <1>t, <3>1, <3>2, Zenon
  <2>3. TypeOK'
    BY <1>3, <2>1, <2>2, Zenon DEF TypeOK, BufferRead, winVars, wVars, lifeVars, muxVars
  <2>4. ASSUME NEW r \in Peer PROVE ReaderLedger(r)' /\ InHand(r)'
    BY <1>3, <2>1, LedgerFrame, Zenon DEF BufferRead, winVars, wVars
  <2> QED
    BY <1>1, <1>2, <2>3, <2>4, Zenon DEF Ledger
<1>4. CASE \E n \in 1..(rcvd[p][e] - rd[p][e]) :
              /\ rd' = [rd EXCEPT ![p][e] = @ + n]
              /\ rgot' = [rgot EXCEPT ![p][e] = n]
              /\ rpc' = [rpc EXCEPT ![p][e] = "adjust"]
              /\ UNCHANGED eofSeen
  <2>1. PICK n \in 1..(rcvd[p][e] - rd[p][e]) :
              /\ rd' = [rd EXCEPT ![p][e] = rd[p][e] + n]
              /\ rgot' = [rgot EXCEPT ![p][e] = n]
              /\ rpc' = [rpc EXCEPT ![p][e] = "adjust"]
              /\ UNCHANGED eofSeen
    BY <1>4, Zenon
  <2>2. n \in Nat /\ rd[p][e] + n \in Nat /\ rd[p][e] + n <= rcvd[p][e]
    BY <1>n
  <2>3. /\ rd' \in [Peer -> [Ext -> Nat]]
        /\ \A r \in Peer, d \in Ext :
              rd'[r][d] = IF r = p /\ d = e THEN rd[p][e] + n ELSE rd[r][d]
    BY <1>t, <2>1, <2>2, Except2
  <2>4. /\ rgot' \in [Peer -> [Ext -> Nat]]
        /\ \A r \in Peer, d \in Ext :
              rgot'[r][d] = IF r = p /\ d = e THEN n ELSE rgot[r][d]
    BY <1>t, <2>1, <2>2, Except2
  <2>5. /\ rpc' \in [Peer -> [Ext -> PC]]
        /\ \A r \in Peer, d \in Ext :
              rpc'[r][d] = IF r = p /\ d = e THEN "adjust" ELSE rpc[r][d]
    <3>1. "adjust" \in PC
        BY Zenon
    <3> QED
        BY <1>t, <2>1, <3>1, Except2
  <2>6. TypeOK'
    BY <2>1, <2>3, <2>4, <2>5, Zenon DEF TypeOK, BufferRead, winVars, wVars, lifeVars, muxVars
  <2>7. rpc[p][e] = "read" /\ rgot[p][e] = 0
    BY Zenon DEF BufferRead, Ledger, InHand
  <2>8. ASSUME NEW r \in Peer PROVE ReaderLedger(r)'
    <3>1. /\ ReaderLedger(r) /\ granted' = granted /\ myWindow' = myWindow
          /\ rcvd' = rcvd
        BY Zenon DEF Ledger, BufferRead, winVars
    <3>2. \A d \in Ext : rd'[r][d] <= rcvd[r][d]
        BY <2>2, <2>3, <3>1, Zenon DEF ReaderLedger
    <3>3. CASE r # p
      <4>1. \A d \in Ext : /\ rd'[r][d] = rd[r][d] /\ rgot'[r][d] = rgot[r][d]
                           /\ rpc'[r][d] = rpc[r][d]
        BY <2>3, <2>4, <2>5, <3>3, Zenon
      <4> QED
        BY <1>0, <3>1, <3>2, <4>1, Zenon DEF ReaderLedger, Total, Unadjusted
    <3>4. CASE r = p
      <4>1. /\ granted[p] + Total(rgot[p]) <= Total(rd[p])
            /\ myWindow[p] + Total(rcvd[p]) + Unadjusted(p) = WindowSize + Total(rd[p])
        BY <3>1, <3>4, Zenon DEF ReaderLedger
      <4>2. /\ Total(rgot'[p]) = Total(rgot[p]) + n
            /\ Total(rd'[p]) = Total(rd[p]) + n
            /\ Unadjusted(p)' = Unadjusted(p) + n
        <5>1. CASE e = 0
          BY <1>0, <1>n, <2>2, <2>3, <2>4, <2>5, <2>7, <5>1 DEF Total, Unadjusted
        <5>2. CASE e = 1
          BY <1>0, <1>n, <2>2, <2>3, <2>4, <2>5, <2>7, <5>2 DEF Total, Unadjusted
        <5> QED
          BY <5>1, <5>2, Zenon DEF Ext
      <4>3. /\ Total(rgot[p]) \in Int /\ Total(rd[p]) \in Int /\ Total(rcvd[p]) \in Int
            /\ Unadjusted(p) \in Int
        BY <1>0, <1>n DEF Total, Unadjusted
      <4>4. /\ granted[p] + Total(rgot'[p]) <= Total(rd'[p])
            /\ myWindow[p] + Total(rcvd[p]) + Unadjusted(p)' = WindowSize + Total(rd'[p])
        BY <1>m, <2>2, <4>1, <4>2, <4>3
      <4> QED
        BY <3>1, <3>2, <3>4, <4>4, Zenon DEF ReaderLedger
    <3> QED
        BY <3>3, <3>4, Zenon
  <2>9. ASSUME NEW r \in Peer PROVE InHand(r)'
    <3>1. InHand(r) /\ wgot' = wgot /\ wtodo' = wtodo /\ wpc' = wpc
        BY Zenon DEF Ledger, BufferRead, wVars
    <3>2. \A d \in Ext : rpc'[r][d] \notin {"adjust", "announce"} => rgot'[r][d] = 0
        BY <2>4, <2>5, <3>1, Zenon DEF InHand
    <3> QED
        BY <3>1, <3>2, Zenon DEF InHand
  <2> QED
    BY <1>1, <1>2, <2>6, <2>8, <2>9, Zenon DEF Ledger
<1> QED
    BY <1>3, <1>4, Zenon DEF BufferRead

\* adjustWindow cannot overflow: what it adds was taken out before.
LEMMA AdjustWindowFlow ==
    ASSUME FlowInv, NEW p \in Peer, NEW e \in Ext, AdjustWindow(p, e)
    PROVE  FlowInv'
<1> USE DEF FlowInv
<1> DEFINE PC == {"idle", "read", "wait", "adjust", "announce"}
           sum == myWindow[p] + rgot[p][e]
<1>0. 0 \in Ext /\ 1 \in Ext
    BY Zenon DEF Ext
<1>n. \A r \in Peer, d \in Ext :
         rd[r][d] \in Nat /\ rgot[r][d] \in Nat /\ rcvd[r][d] \in Nat
    BY Counters, Zenon
<1>m. \A r \in Peer : /\ myWindow[r] \in Nat /\ granted[r] \in Nat
                      /\ WindowSize \in Nat /\ UintMod \in Nat /\ WindowSize < UintMod
    BY Counters, SizeAssumption, Zenon
<1>1. /\ rpc' \in [Peer -> [Ext -> PC]]
      /\ \A r \in Peer, d \in Ext :
            rpc'[r][d] = IF r = p /\ d = e THEN "announce" ELSE rpc[r][d]
  <2>1. /\ rpc \in [Peer -> [Ext -> PC]] /\ "announce" \in PC
        /\ rpc' = [rpc EXCEPT ![p][e] = "announce"]
    BY Zenon DEF TypeOK, AdjustWindow
  <2> QED
    BY <2>1, Except2
<1>2. rpc[p][e] = "adjust"
    BY Zenon DEF AdjustWindow
<1>3. /\ myWindow[p] + Total(rcvd[p]) + Unadjusted(p) = WindowSize + Total(rd[p])
      /\ Total(rd[p]) <= Total(rcvd[p])
      /\ Unadjusted(p) >= rgot[p][e]
      /\ Unadjusted(p)' = Unadjusted(p) - rgot[p][e]
      /\ Total(rd[p]) \in Nat /\ Total(rcvd[p]) \in Nat /\ Unadjusted(p) \in Nat
  <2>1. ReaderLedger(p)
    BY Zenon DEF Ledger
  <2>2. rgot' = rgot
    BY Zenon DEF AdjustWindow
  <2>3. Total(rd[p]) \in Nat /\ Total(rcvd[p]) \in Nat /\ Unadjusted(p) \in Nat
    BY <1>0, <1>n DEF Total, Unadjusted
  <2>4. Total(rd[p]) <= Total(rcvd[p])
    BY <1>0, <1>n, <2>1 DEF Total, ReaderLedger
  <2>5. CASE e = 0
    <3> DEFINE rest == IF rpc[p][1] = "adjust" THEN rgot[p][1] ELSE 0
    <3>1. rpc[p][0] = "adjust" /\ rpc'[p][0] = "announce" /\ rpc'[p][1] = rpc[p][1]
        BY <1>0, <1>1, <1>2, <2>5
    <3>2. rest \in Nat /\ rgot[p][0] \in Nat
        BY <1>0, <1>n
    <3>3. Unadjusted(p) = rgot[p][0] + rest /\ Unadjusted(p)' = 0 + rest
        BY <2>2, <3>1, Zenon DEF Unadjusted
    <3> HIDE DEF rest
    <3>4. Unadjusted(p) >= rgot[p][e] /\ Unadjusted(p)' = Unadjusted(p) - rgot[p][e]
        BY <2>5, <3>2, <3>3
    <3> QED
        BY <2>1, <2>3, <2>4, <3>4, Zenon DEF ReaderLedger
  <2>6. CASE e = 1
    <3> DEFINE rest == IF rpc[p][0] = "adjust" THEN rgot[p][0] ELSE 0
    <3>1. rpc[p][1] = "adjust" /\ rpc'[p][1] = "announce" /\ rpc'[p][0] = rpc[p][0]
        BY <1>0, <1>1, <1>2, <2>6
    <3>2. rest \in Nat /\ rgot[p][1] \in Nat
        BY <1>0, <1>n
    <3>3. Unadjusted(p) = rest + rgot[p][1] /\ Unadjusted(p)' = rest + 0
        BY <2>2, <3>1, Zenon DEF Unadjusted
    <3> HIDE DEF rest
    <3>4. Unadjusted(p) >= rgot[p][e] /\ Unadjusted(p)' = Unadjusted(p) - rgot[p][e]
        BY <2>6, <3>2, <3>3
    <3> QED
        BY <2>1, <2>3, <2>4, <3>4, Zenon DEF ReaderLedger
  <2> QED
    BY <2>5, <2>6, Zenon DEF Ext
<1>4. sum \in Nat /\ sum <= WindowSize
    BY <1>m, <1>n, <1>3
<1>5. /\ myWindow' \in [Peer -> 0..(UintMod - 1)]
      /\ \A r \in Peer : myWindow'[r] = IF r = p THEN sum ELSE myWindow[r]
  <2>1. Wrap(sum) = sum /\ sum \in 0..(UintMod - 1)
    BY <1>4, <1>m DEF Wrap
  <2>2. /\ myWindow \in [Peer -> 0..(UintMod - 1)]
        /\ myWindow' = [myWindow EXCEPT ![p] = Wrap(sum)]
    BY Zenon DEF TypeOK, AdjustWindow
  <2> HIDE DEF sum
  <2> QED
    BY <2>1, <2>2, Zenon
<1>6. TypeOK'
    BY <1>1, <1>5, Zenon DEF TypeOK, AdjustWindow, byteVars, wVars, lifeVars, muxVars
<1>7. ASSUME NEW r \in Peer PROVE ReaderLedger(r)'
  <2>1. /\ ReaderLedger(r) /\ granted' = granted /\ rcvd' = rcvd /\ rd' = rd
        /\ rgot' = rgot
    BY Zenon DEF Ledger, AdjustWindow, byteVars
  <2>2. CASE r # p
    <3>1. /\ myWindow'[r] = myWindow[r]
          /\ rpc'[r][0] = rpc[r][0] /\ rpc'[r][1] = rpc[r][1]
        BY <1>0, <1>1, <1>5, <2>2, Zenon
    <3> QED
        BY <2>1, <3>1, Zenon DEF ReaderLedger, Total, Unadjusted
  <2>3. CASE r = p
    <3>1. myWindow'[p] + Total(rcvd[p]) + Unadjusted(p)' = WindowSize + Total(rd[p])
        BY <1>m, <1>n, <1>3, <1>5
    <3> QED
        BY <2>1, <2>3, <3>1, Zenon DEF ReaderLedger
  <2> QED
    BY <2>2, <2>3, Zenon
<1>8. ASSUME NEW r \in Peer
      PROVE  WriterLedger(r)' /\ DataOnWire(r)' /\ CreditOnWire(r)' /\ InHand(r)'
  <2>1. \A d \in Ext : rpc'[r][d] \in {"adjust", "announce"}
                          <=> rpc[r][d] \in {"adjust", "announce"}
    BY <1>1, <1>2, Zenon
  <2> QED
    BY <2>1, LedgerFrame, Zenon DEF AdjustWindow, byteVars, wVars
<1>9. FlowControlRespected'
    BY Zenon DEF FlowControlRespected, AdjustWindow, muxVars
<1> QED
    BY <1>6, <1>7, <1>8, <1>9, Zenon DEF Ledger

\* The message of adjustWindow moves the credit from the reader to the wire.
LEMMA AnnounceWindowFlow ==
    ASSUME FlowInv, NEW p \in Peer, NEW e \in Ext, AnnounceWindow(p, e)
    PROVE  FlowInv'
<1> USE DEF FlowInv
<1> DEFINE PC == {"idle", "read", "wait", "adjust", "announce"}
           hi == granted[p] + rgot[p][e]
           pkt == AdjustPkt(granted[p], hi)
<1>0. 0 \in Ext /\ 1 \in Ext
    BY Zenon DEF Ext
<1>n. \A r \in Peer, d \in Ext : rd[r][d] \in Nat /\ rgot[r][d] \in Nat
    BY Counters, Zenon
<1>m. \A r \in Peer : granted[r] \in Nat
    BY Counters, Zenon
<1>1. /\ rpc' \in [Peer -> [Ext -> PC]]
      /\ \A r \in Peer, d \in Ext :
            rpc'[r][d] = IF r = p /\ d = e THEN "idle" ELSE rpc[r][d]
  <2>1. /\ rpc \in [Peer -> [Ext -> PC]] /\ "idle" \in PC
        /\ rpc' = [rpc EXCEPT ![p][e] = "idle"]
    BY Zenon DEF TypeOK, AnnounceWindow
  <2> QED
    BY <2>1, Except2
<1>2. /\ rgot' \in [Peer -> [Ext -> Nat]]
      /\ \A r \in Peer, d \in Ext :
            rgot'[r][d] = IF r = p /\ d = e THEN 0 ELSE rgot[r][d]
  <2>1. rgot \in [Peer -> [Ext -> Nat]] /\ rgot' = [rgot EXCEPT ![p][e] = 0]
    BY Zenon DEF TypeOK, AnnounceWindow
  <2> QED
    BY <2>1, Except2
<1>3. rpc[p][e] = "announce" /\ hi \in Nat /\ granted[p] <= hi
    BY <1>m, <1>n DEF AnnounceWindow
<1>4. /\ granted' \in [Peer -> Nat]
      /\ \A r \in Peer : r # p => granted'[r] = granted[r]
      /\ granted'[p] \in {granted[p], hi}
  <2>1. granted \in [Peer -> Nat]
    BY Zenon DEF TypeOK
  <2>2. granted' = granted \/ granted' = [granted EXCEPT ![p] = hi]
    BY Zenon DEF AnnounceWindow
  <2> QED
    BY <1>3, <2>1, <2>2, Zenon
<1>5. ASSUME NEW r \in Peer PROVE ReaderLedger(r)'
  <2>1. /\ ReaderLedger(r) /\ rcvd' = rcvd /\ rd' = rd /\ myWindow' = myWindow
    BY Zenon DEF Ledger, AnnounceWindow, winVars
  <2>2. Unadjusted(r)' = Unadjusted(r)
    BY <1>0, <1>1, <1>2, <1>3 DEF Unadjusted
  <2>3. granted'[r] + Total(rgot'[r]) <= granted[r] + Total(rgot[r])
    <3>1. CASE r # p
      <4>1. granted'[r] = granted[r] /\ rgot'[r][0] = rgot[r][0] /\ rgot'[r][1] = rgot[r][1]
        BY <1>0, <1>2, <1>4, <3>1, Zenon
      <4> QED
        BY <1>0, <1>m, <1>n, <4>1 DEF Total
    <3>2. CASE r = p /\ e = 0
        BY <1>0, <1>m, <1>n, <1>2, <1>4, <3>2 DEF Total
    <3>3. CASE r = p /\ e = 1
        BY <1>0, <1>m, <1>n, <1>2, <1>4, <3>3 DEF Total
    <3> QED
        BY <3>1, <3>2, <3>3, Zenon DEF Ext
  <2>4. /\ granted[r] \in Nat /\ granted'[r] \in Nat /\ Total(rgot[r]) \in Nat
        /\ Total(rgot'[r]) \in Nat /\ Total(rd[r]) \in Nat
    <3>1. rgot'[r][0] \in Nat /\ rgot'[r][1] \in Nat
        BY <1>0, <1>2, Zenon
    <3> QED
        BY <1>0, <1>m, <1>n, <1>4, <3>1 DEF Total
  <2>5. granted'[r] + Total(rgot'[r]) <= Total(rd[r])
    <3>1. granted[r] + Total(rgot[r]) <= Total(rd[r])
        BY <2>1, Zenon DEF ReaderLedger
    <3> HIDE DEF hi
    <3> QED
        BY <2>3, <2>4, <3>1
  <2> QED
    BY <2>1, <2>2, <2>5, Zenon DEF ReaderLedger
<1>6. ASSUME NEW r \in Peer PROVE InHand(r)'
  <2>1. InHand(r) /\ wgot' = wgot /\ wtodo' = wtodo /\ wpc' = wpc
    BY Zenon DEF Ledger, AnnounceWindow, wVars
  <2>2. ASSUME NEW d \in Ext
        PROVE  rpc'[r][d] \notin {"adjust", "announce"} => rgot'[r][d] = 0
    <3>1. CASE r = p /\ d = e
        BY <1>2, <3>1, Zenon
    <3>2. CASE ~(r = p /\ d = e)
      <4>1. rpc'[r][d] = rpc[r][d] /\ rgot'[r][d] = rgot[r][d]
        BY <1>1, <1>2, <3>2, Zenon
      <4> QED
        BY <2>1, <4>1, Zenon DEF InHand
    <3> QED
        BY <3>1, <3>2, Zenon
  <2> QED
    BY <2>1, <2>2, Zenon DEF InHand
<1>7. ASSUME NEW r \in Peer PROVE WriterLedger(r)'
    BY LedgerFrame, Zenon DEF AnnounceWindow, winVars, wVars
<1>8. FlowControlRespected'
    BY Zenon DEF FlowControlRespected, AnnounceWindow, muxVars
<1>9. /\ wire' \in [Peer -> Seq(Packet)]
      /\ \A r \in Peer : DataOnWire(r)' /\ CreditOnWire(r)'
  <2>1. CASE UNCHANGED <<wire, granted>>
    <3>1. wire' \in [Peer -> Seq(Packet)]
        BY <2>1, Zenon DEF TypeOK
    <3> QED
        BY <2>1, <3>1, LedgerFrame, Zenon DEF AnnounceWindow
  <2>2. CASE /\ wire' = [wire EXCEPT ![p] = Append(@, pkt)]
             /\ granted' = [granted EXCEPT ![p] = hi]
    <3>1. pkt \in Packet /\ pkt.type = "adjust" /\ pkt.lo = granted[p] /\ pkt.hi = hi
        BY <1>0, <1>3, <1>m, Zenon DEF AdjustPkt, Packet
    <3> HIDE DEF pkt, hi
    <3>2. wire \in [Peer -> Seq(Packet)] /\ granted \in [Peer -> Nat]
        BY Zenon DEF TypeOK
    <3>3. wire[p] \in Seq(Packet) /\ Append(wire[p], pkt) \in Seq(Packet)
      <4>1. wire[p] \in Seq(Packet)
        BY <3>2, Zenon
      <4> QED
        BY <3>1, <4>1, SMTT(30)
    <3>4. /\ wire' \in [Peer -> Seq(Packet)]
          /\ wire'[p] = Append(wire[p], pkt)
          /\ \A r \in Peer : r # p => wire'[r] = wire[r]
      <4> DEFINE longer == Append(wire[p], pkt)
      <4>1. longer \in Seq(Packet) /\ wire' = [wire EXCEPT ![p] = longer]
        BY <2>2, <3>3, Zenon
      <4> HIDE DEF longer
      <4>2. /\ wire' \in [Peer -> Seq(Packet)] /\ wire'[p] = longer
            /\ \A r \in Peer : r # p => wire'[r] = wire[r]
        BY <3>2, <4>1, Zenon
      <4> QED
        BY <4>2, Zenon DEF longer
    <3>5. granted'[p] = hi /\ \A r \in Peer : r # p => granted'[r] = granted[r]
        BY <2>2, <3>2, Zenon
    <3>6. ASSUME NEW r \in Peer PROVE DataOnWire(r)' /\ CreditOnWire(r)'
      <4>1. /\ DataOnWire(r) /\ CreditOnWire(r) /\ Other(r) \in Peer
            /\ rcvd' = rcvd /\ credited' = credited /\ sent' = sent
        BY PeerFacts, Zenon DEF Ledger, AnnounceWindow
      <4>2. CASE r # p
        BY <3>4, <3>5, <4>1, <4>2, Zenon DEF DataOnWire, CreditOnWire
      <4>3. CASE r = p
        <5>1. /\ rcvd[Other(r)] \in [Ext -> Nat] /\ sent[r] \in [Ext -> Nat]
              /\ credited[Other(r)] \in Nat
          BY <4>1, Zenon DEF TypeOK
        <5>2. \A d \in Ext : sent[r][d] <= sent[r][d]
          BY <5>1
        <5>3. DataChain(wire[p], rcvd[Other(p)], sent[p])
          BY <4>1, <4>3, Zenon DEF DataOnWire
        <5>4. CreditChain(wire[p], credited[Other(p)], granted[p])
          BY <4>1, <4>3, Zenon DEF CreditOnWire
        <5>5. DataChain(Append(wire[p], pkt), rcvd[Other(p)], sent[p])
          BY <3>1, <3>3, <4>3, <5>1, <5>2, <5>3, DataChainAppend, Zenon
        <5>6. CreditChain(Append(wire[p], pkt), credited[Other(p)], hi)
          BY <1>3, <1>m, <3>1, <3>3, <4>3, <5>1, <5>4, CreditChainAppend, Zenon
        <5> QED
          BY <3>4, <3>5, <4>1, <4>3, <5>5, <5>6, Zenon DEF DataOnWire, CreditOnWire
      <4> QED
        BY <4>2, <4>3, Zenon
    <3> QED
        BY <3>4, <3>6, Zenon
  <2> QED
    BY <2>1, <2>2, Zenon DEF AnnounceWindow, WritePacket
<1>10. TypeOK'
    BY <1>1, <1>2, <1>4, <1>9, Zenon
    DEF TypeOK, AnnounceWindow, winVars, wVars, lifeVars, muxVars
<1> QED
    BY <1>5, <1>6, <1>7, <1>8, <1>9, <1>10, Zenon DEF Ledger

-----------------------------------------------------------------------------
(* Ending the channel *)

\* channel.close(), or nothing: the types, and the points of the goroutines.
LEMMA ForceCloseTypes ==
    ASSUME TypeOK, NEW p \in Peer,
           ForceClose(p) \/ UNCHANGED <<wpc, rpc, winClosed, lifeVars>>
    PROVE  /\ wpc' \in [Peer -> [Ext -> {"idle", "reserve", "wait", "recheck", "send"}]]
           /\ rpc' \in [Peer -> [Ext -> {"idle", "read", "wait", "adjust", "announce"}]]
           /\ winClosed' \in [Peer -> BOOLEAN]
           /\ sentEOF' \in [Peer -> BOOLEAN] /\ sentClose' \in [Peer -> BOOLEAN]
           /\ hasClosed' \in [Peer -> BOOLEAN] /\ bufClosed' \in [Peer -> BOOLEAN]
           /\ halted' \in [Peer -> BOOLEAN] /\ inList' \in [Peer -> BOOLEAN]
           /\ closes' \in [Peer -> Nat]
           /\ \A r \in Peer, d \in Ext :
                 /\ wpc'[r][d] = "send" <=> wpc[r][d] = "send"
                 /\ rpc'[r][d] = "adjust" <=> rpc[r][d] = "adjust"
                 /\ rpc'[r][d] \in {"adjust", "announce"}
                       <=> rpc[r][d] \in {"adjust", "announce"}
<1>1. CASE UNCHANGED <<wpc, rpc, winClosed, lifeVars>>
    BY <1>1, Zenon DEF TypeOK, lifeVars
<1>2. CASE ForceClose(p)
  <2>1. /\ wpc' \in [Peer -> [Ext -> {"idle", "reserve", "wait", "recheck", "send"}]]
        /\ \A r \in Peer, d \in Ext : wpc'[r][d] = "send" <=> wpc[r][d] = "send"
    <3>1. /\ WakeWriters(p, {}) \in [Ext -> {"idle", "reserve", "wait", "recheck", "send"}]
          /\ \A d \in Ext : WakeWriters(p, {})[d] = "send" <=> wpc[p][d] = "send"
        BY WakeWritersKeeps, Zenon
    <3>2. /\ wpc \in [Peer -> [Ext -> {"idle", "reserve", "wait", "recheck", "send"}]]
          /\ wpc' = [wpc EXCEPT ![p] = WakeWriters(p, {})]
        BY <1>2, Zenon DEF TypeOK, ForceClose
    <3> QED
        BY <3>1, <3>2, Zenon
  <2>2. rpc' = [rpc EXCEPT ![p] = WakeReaders(p, Ext)]
    BY <1>2, Zenon DEF ForceClose
  <2>3. closes' \in [Peer -> Nat]
    <3>1. closes \in [Peer -> Nat] /\ closes' = [closes EXCEPT ![p] = @ + 1]
        BY <1>2, Zenon DEF TypeOK, ForceClose
    <3> QED
        BY <3>1
  <2>4. /\ winClosed' \in [Peer -> BOOLEAN]
        /\ sentEOF' \in [Peer -> BOOLEAN] /\ sentClose' \in [Peer -> BOOLEAN]
        /\ hasClosed' \in [Peer -> BOOLEAN] /\ bufClosed' \in [Peer -> BOOLEAN]
        /\ halted' \in [Peer -> BOOLEAN] /\ inList' \in [Peer -> BOOLEAN]
    BY <1>2, Zenon DEF TypeOK, ForceClose
  <2> QED
    BY <2>1, <2>2, <2>3, <2>4, WakeReadersKeeps, Zenon
<1> QED
    BY <1>1, <1>2, Zenon

\* CloseWrite puts an eof on the wire and nothing else.
LEMMA CloseWriteFlow ==
    ASSUME FlowInv, NEW p \in Peer, CloseWrite(p)
    PROVE  FlowInv'
<1> USE DEF FlowInv
<1>1. /\ wire' \in [Peer -> Seq(Packet)]
      /\ \A r \in Peer : DataOnWire(r)' /\ CreditOnWire(r)'
  <2>1. CASE wire' = wire
    BY <2>1, LedgerFrame, Zenon DEF TypeOK, CloseWrite, byteVars
  <2>2. CASE wire' = [wire EXCEPT ![p] = Append(@, EofPkt)]
    BY <2>2, AppendControl, Zenon DEF CloseWrite, byteVars
  <2> QED
    BY <2>1, <2>2, Zenon DEF CloseWrite, WritePacket
<1>2. TypeOK'
  <2>1. sentEOF' \in [Peer -> BOOLEAN]
    BY Zenon DEF TypeOK, CloseWrite
  <2> QED
    BY <1>1, <2>1, Zenon DEF TypeOK, CloseWrite, winVars, byteVars, wVars, rVars, muxVars
<1>3. ASSUME NEW r \in Peer PROVE WriterLedger(r)' /\ ReaderLedger(r)' /\ InHand(r)'
    BY LedgerFrame, Zenon DEF CloseWrite, winVars, byteVars, wVars, rVars
<1>4. FlowControlRespected'
    BY Zenon DEF FlowControlRespected, CloseWrite, muxVars
<1> QED
    BY <1>1, <1>2, <1>3, <1>4, Zenon DEF Ledger

\* Close puts a close on the wire and nothing else.
LEMMA SendCloseFlow ==
    ASSUME FlowInv, NEW p \in Peer, SendClose(p)
    PROVE  FlowInv'
<1> USE DEF FlowInv
<1>1. /\ wire' \in [Peer -> Seq(Packet)]
      /\ \A r \in Peer : DataOnWire(r)' /\ CreditOnWire(r)'
  <2>1. CASE wire' = wire
    BY <2>1, LedgerFrame, Zenon DEF TypeOK, SendClose, byteVars
  <2>2. CASE wire' = [wire EXCEPT ![p] = Append(@, ClosePkt)]
    BY <2>2, AppendControl, Zenon DEF SendClose, byteVars
  <2> QED
    BY <2>1, <2>2, Zenon DEF SendClose, WritePacket
<1>2. TypeOK'
  <2>1. sentClose' \in [Peer -> BOOLEAN]
    BY Zenon DEF TypeOK, SendClose
  <2> QED
    BY <1>1, <2>1, Zenon DEF TypeOK, SendClose, winVars, byteVars, wVars, rVars, muxVars
<1>3. ASSUME NEW r \in Peer PROVE WriterLedger(r)' /\ ReaderLedger(r)' /\ InHand(r)'
    BY LedgerFrame, Zenon DEF SendClose, winVars, byteVars, wVars, rVars
<1>4. FlowControlRespected'
    BY Zenon DEF FlowControlRespected, SendClose, muxVars
<1> QED
    BY <1>1, <1>2, <1>3, <1>4, Zenon DEF Ledger

\* The steps that change only hasClosed and halted, only connUp, or nothing.
LEMMA QuietFlow ==
    ASSUME FlowInv,
           \/ \E p \in Peer : CloseChannel(p) \/ StopIdle(p)
           \/ ConnLost
           \/ UNCHANGED vars
    PROVE  FlowInv'
<1> USE DEF FlowInv
<1>1. UNCHANGED <<winVars, wire, byteVars, wVars, rVars, err>>
    BY Zenon DEF CloseChannel, StopIdle, ConnLost, vars, muxVars
<1>2. TypeOK'
  <2>1. /\ halted' \in [Peer -> BOOLEAN] /\ hasClosed' \in [Peer -> BOOLEAN]
        /\ connUp' \in BOOLEAN
        /\ UNCHANGED <<sentEOF, sentClose, bufClosed, inList, closes>>
    BY Zenon DEF TypeOK, CloseChannel, StopIdle, ConnLost, vars, lifeVars, muxVars
  <2> QED
    BY <1>1, <2>1, Zenon DEF TypeOK, winVars, byteVars, wVars, rVars
<1>3. Ledger'
  <2> SUFFICES ASSUME NEW r \in Peer
               PROVE  (/\ WriterLedger(r) /\ ReaderLedger(r) /\ DataOnWire(r)
                       /\ CreditOnWire(r) /\ InHand(r))'
    BY Zenon DEF Ledger
  <2> QED
    BY <1>1, LedgerFrame, Zenon DEF winVars, byteVars, wVars, rVars
<1>4. FlowControlRespected'
    BY <1>1, Zenon DEF FlowControlRespected
<1> QED
    BY <1>2, <1>3, <1>4, Zenon

-----------------------------------------------------------------------------
(* The mux goroutine *)

\* Taking the packet at the head of the wire, with or without applying it, and
\* perhaps answering with a close.
LEMMA WireHandled ==
    ASSUME TypeOK, Ledger, NEW p \in Peer, NEW q \in Peer, q = Other(p),
           NEW answer \in BOOLEAN, wire[q] # <<>>,
           wire' = [wire EXCEPT ![q] = Tail(@),
                                ![p] = IF answer THEN Append(@, ClosePkt) ELSE @],
           UNCHANGED <<sent, granted>>,
           rcvd' \in [Peer -> [Ext -> Nat]], credited' \in [Peer -> Nat],
           rcvd'[q] = rcvd[q], credited'[q] = credited[q],
           \A e \in Ext :
              \/ rcvd'[p][e] = rcvd[p][e]
              \/ /\ IsData(Head(wire[q]), e)
                 /\ rcvd'[p][e] = rcvd[p][e] + (Head(wire[q]).hi - Head(wire[q]).lo),
           \/ credited'[p] = credited[p]
           \/ /\ Head(wire[q]).type = "adjust"
              /\ credited'[p] = credited[p] + (Head(wire[q]).hi - Head(wire[q]).lo)
    PROVE  /\ wire' \in [Peer -> Seq(Packet)]
           /\ \A r \in Peer : DataOnWire(r)' /\ CreditOnWire(r)'
<1>1. p # q /\ Other(q) = p /\ \A r \in Peer : r = p \/ r = q
    BY PeerFacts, Zenon
<1>2. /\ wire \in [Peer -> Seq(Packet)]
      /\ wire[p] \in Seq(Packet) /\ wire[q] \in Seq(Packet)
    BY Zenon DEF TypeOK
<1>3. ClosePkt \in Packet /\ ClosePkt.type = "close"
    BY Zenon DEF ClosePkt, Packet, Ext
<1>4. Append(wire[p], ClosePkt) \in Seq(Packet) /\ Tail(wire[q]) \in Seq(Packet)
    BY <1>2, <1>3
<1>5. /\ wire'[q] = Tail(wire[q])
      /\ wire'[p] = wire[p] \/ wire'[p] = Append(wire[p], ClosePkt)
    BY <1>1, <1>2, Zenon
<1>6. wire' \in [Peer -> Seq(Packet)]
    BY <1>1, <1>2, <1>4, Zenon
<1>7. /\ rcvd[p] \in [Ext -> Nat] /\ sent[p] \in [Ext -> Nat] /\ credited[p] \in Nat
      /\ rcvd[q] \in [Ext -> Nat] /\ sent[q] \in [Ext -> Nat] /\ credited[q] \in Nat
      /\ granted[p] \in Nat /\ granted[q] \in Nat
      /\ rcvd'[p] \in [Ext -> Nat] /\ credited'[p] \in Nat
    BY Zenon DEF TypeOK
<1>8. /\ DataChain(wire[p], rcvd[q], sent[p])
      /\ CreditChain(wire[p], credited[q], granted[p])
      /\ DataChain(wire[q], rcvd[p], sent[q])
      /\ CreditChain(wire[q], credited[p], granted[q])
    BY <1>1, Zenon DEF Ledger, DataOnWire, CreditOnWire
<1>9. DataChain(Tail(wire[q]), rcvd'[p], sent[q])
  <2>1. \A e \in Ext :
           \/ rcvd'[p][e] = rcvd[p][e]
           \/ /\ IsData(Head(wire[q]), e)
              /\ rcvd'[p][e] = rcvd[p][e] + (Head(wire[q]).hi - Head(wire[q]).lo)
    OBVIOUS
  <2> QED
    BY <1>2, <1>7, <1>8, <2>1, DataChainTail, Zenon
<1>10. CreditChain(Tail(wire[q]), credited'[p], granted[q])
    BY <1>2, <1>7, <1>8, CreditChainTail, Zenon
<1>11. \A e \in Ext : sent[p][e] <= sent[p][e]
    BY <1>7
<1>12. DataChain(Append(wire[p], ClosePkt), rcvd[q], sent[p])
    BY <1>2, <1>3, <1>7, <1>8, <1>11, DataChainAppend, Zenon
<1>13. CreditChain(Append(wire[p], ClosePkt), credited[q], granted[p])
  <2>1. granted[p] <= granted[p] /\ ClosePkt.type # "adjust"
    BY <1>3, <1>7
  <2> QED
    BY <1>2, <1>3, <1>7, <1>8, <2>1, CreditChainAppend, Zenon
<1>14. DataOnWire(q)' /\ CreditOnWire(q)'
    BY <1>1, <1>5, <1>9, <1>10, Zenon DEF DataOnWire, CreditOnWire
<1>15. DataOnWire(p)' /\ CreditOnWire(p)'
    BY <1>5, <1>8, <1>12, <1>13, Zenon DEF DataOnWire, CreditOnWire
<1> QED
    BY <1>1, <1>6, <1>14, <1>15, Zenon

\* What is left to show of a step in which the mux loop ends or close() runs.
LEMMA ClosingFlow ==
    ASSUME FlowInv, NEW p \in Peer,
           ForceClose(p) \/ UNCHANGED <<wpc, rpc, winClosed, lifeVars>>,
           UNCHANGED <<remoteWin, myWindow, byteVars, wtodo, wgot, rgot, eofSeen>>,
           wire' \in [Peer -> Seq(Packet)],
           \A r \in Peer : DataOnWire(r)' /\ CreditOnWire(r)',
           connUp' \in BOOLEAN,
           \/ err' = err
           \/ \E e \in {"invalid channel", "lost", "timed out"} :
                 err' = [err EXCEPT ![p] = e]
    PROVE  FlowInv'
<1> USE DEF FlowInv
<1>1. /\ err' \in [Peer -> {"none", "payload", "too much", "bad window",
                            "invalid channel", "lost", "timed out"}]
      /\ FlowControlRespected'
    BY Zenon DEF TypeOK, FlowControlRespected
<1>2. TypeOK'
    BY <1>1, ForceCloseTypes, Zenon DEF TypeOK, byteVars
<1>3. \A r \in Peer, d \in Ext :
         /\ wpc'[r][d] = "send" <=> wpc[r][d] = "send"
         /\ rpc'[r][d] = "adjust" <=> rpc[r][d] = "adjust"
         /\ rpc'[r][d] \in {"adjust", "announce"} <=> rpc[r][d] \in {"adjust", "announce"}
    BY ForceCloseTypes, Zenon
<1>4. ASSUME NEW r \in Peer PROVE WriterLedger(r)' /\ ReaderLedger(r)' /\ InHand(r)'
    BY <1>3, LedgerFrame, Zenon DEF byteVars
<1> QED
    BY <1>1, <1>2, <1>4, Zenon DEF Ledger
-----------------------------------------------------------------------------
(* What the mux goroutine handles *)

\* The two ledgers together: what is on the way to p fits in its myWindow, and
\* the credit on the way to p fits in the window it was first given.
LEMMA InFlightFits ==
    ASSUME TypeOK, Ledger, NEW p \in Peer, NEW q \in Peer, q = Other(p)
    PROVE  /\ Total(sent[q]) - Total(rcvd[p]) <= myWindow[p]
           /\ remoteWin[p] + (granted[q] - credited[p]) <= WindowSize
           /\ myWindow[p] <= WindowSize
           /\ credited[p] <= granted[q]
           /\ \A d \in Ext : rcvd[p][d] <= sent[q][d]
<1>0. 0 \in Ext /\ 1 \in Ext /\ Other(q) = p
    BY PeerFacts, Zenon DEF Ext
<1>1. ASSUME NEW r \in Peer
      PROVE  /\ Total(sent[r]) \in Nat /\ Total(rcvd[r]) \in Nat /\ Total(rd[r]) \in Nat
             /\ Total(wgot[r]) \in Nat /\ Total(rgot[r]) \in Nat
             /\ Unadjusted(r) \in Nat /\ Unadjusted(r) <= Total(rgot[r])
  <2>1. \A d \in Ext : /\ sent[r][d] \in Nat /\ rcvd[r][d] \in Nat /\ rd[r][d] \in Nat
                       /\ wgot[r][d] \in Nat /\ rgot[r][d] \in Nat
    BY Counters, Zenon
  <2> QED
    BY <1>0, <2>1 DEF Total, Unadjusted
<1>2. /\ granted[p] \in Nat /\ granted[q] \in Nat /\ credited[p] \in Nat
      /\ credited[q] \in Nat /\ remoteWin[p] \in Nat /\ myWindow[p] \in Nat
      /\ remoteWin[q] \in Nat /\ WindowSize \in Nat
    BY Counters, Zenon
<1>3. /\ remoteWin[p] + Total(wgot[p]) + Total(sent[p]) <= WindowSize + credited[p]
      /\ remoteWin[q] + Total(wgot[q]) + Total(sent[q]) <= WindowSize + credited[q]
    BY Zenon DEF Ledger, WriterLedger
<1>4. ASSUME NEW r \in Peer
      PROVE  /\ granted[r] + Total(rgot[r]) <= Total(rd[r])
             /\ myWindow[r] + Total(rcvd[r]) + Unadjusted(r) = WindowSize + Total(rd[r])
             /\ Total(rd[r]) <= Total(rcvd[r])
  <2>1. ReaderLedger(r)
    BY Zenon DEF Ledger
  <2>2. \A d \in Ext : rd[r][d] <= rcvd[r][d] /\ rd[r][d] \in Nat /\ rcvd[r][d] \in Nat
    BY <2>1, Counters, Zenon DEF ReaderLedger
  <2>3. Total(rd[r]) <= Total(rcvd[r])
    BY <1>0, <2>2 DEF Total
  <2> QED
    BY <2>1, <2>3, Zenon DEF ReaderLedger
<1>5. credited[p] <= granted[q] /\ credited[q] <= granted[p]
    BY <1>0, Zenon DEF Ledger, CreditOnWire, CreditChain
<1>6. \A d \in Ext : rcvd[p][d] <= sent[q][d] /\ rcvd[q][d] <= sent[p][d]
    BY <1>0, Zenon DEF Ledger, DataOnWire, DataChain
<1>7. Total(rcvd[q]) <= Total(sent[p])
  <2>1. \A d \in Ext : rcvd[q][d] \in Nat /\ sent[p][d] \in Nat
    BY Counters, Zenon
  <2> QED
    BY <1>0, <1>6, <2>1 DEF Total
<1>8. Total(sent[q]) - Total(rcvd[p]) <= myWindow[p]
    BY <1>1, <1>2, <1>3, <1>4, <1>5
<1>9. remoteWin[p] + (granted[q] - credited[p]) <= WindowSize
    BY <1>1, <1>2, <1>3, <1>4, <1>5, <1>7
<1>10. myWindow[p] <= WindowSize
    BY <1>1, <1>2, <1>4
<1> QED
    BY <1>5, <1>6, <1>8, <1>9, <1>10, Zenon

\* handleData accepts every data packet of the other side.
LEMMA HandleDataFlow ==
    ASSUME FlowInv, NEW p \in Peer, OnePacket(p), inList[p],
           HandleData(p, Head(wire[Other(p)]))
    PROVE  FlowInv'
<1> USE DEF FlowInv
<1> DEFINE q == Other(p)
           pkt == Head(wire[q])
           n == pkt.hi - pkt.lo
<1>0. 0 \in Ext /\ 1 \in Ext /\ q \in Peer /\ Other(q) = p /\ p # q
    BY PeerFacts, Zenon DEF Ext
<1>1. wire[q] \in Seq(Packet) /\ wire[q] # <<>>
    BY <1>0, Zenon DEF TypeOK, OnePacket
<1>2. pkt \in Packet /\ 1 \in 1..Len(wire[q]) /\ wire[q][1] = pkt
    BY <1>1
<1>3. pkt.type = "data" /\ pkt.ext \in Ext /\ pkt.lo \in Nat /\ pkt.hi \in Nat
    BY <1>2, Zenon DEF HandleData, Packet
<1>4. DataChain(wire[q], rcvd[p], sent[q])
    BY <1>0, Zenon DEF Ledger, DataOnWire
<1> HIDE DEF pkt
<1>5. /\ rcvd[p][pkt.ext] <= pkt.lo /\ pkt.lo <= pkt.hi
      /\ pkt.hi <= sent[q][pkt.ext] /\ pkt.hi - pkt.lo <= MaxPacket
    BY <1>2, <1>3, <1>4, Zenon DEF DataChain
<1>n. /\ \A r \in Peer, d \in Ext : /\ rcvd[r][d] \in Nat /\ sent[r][d] \in Nat
                                    /\ rd[r][d] \in Nat
      /\ \A r \in Peer : myWindow[r] \in Nat /\ myWindow[r] < UintMod
      /\ WindowSize \in Nat /\ UintMod \in Nat
    BY Counters, SizeAssumption, Zenon
<1>6. n \in Nat /\ rcvd[p][pkt.ext] + n \in Nat /\ rcvd[p][pkt.ext] + n <= sent[q][pkt.ext]
    BY <1>0, <1>3, <1>5, <1>n
<1>7. /\ Total(sent[q]) - Total(rcvd[p]) <= myWindow[p]
      /\ \A d \in Ext : rcvd[p][d] <= sent[q][d]
    BY <1>0, InFlightFits, Zenon
<1> HIDE DEF n
<1>8. n <= myWindow[p]
  <2>1. /\ rcvd[p][0] \in Nat /\ rcvd[p][1] \in Nat /\ sent[q][0] \in Nat
        /\ sent[q][1] \in Nat /\ rcvd[p][0] <= sent[q][0] /\ rcvd[p][1] <= sent[q][1]
        /\ myWindow[p] \in Nat
    BY <1>0, <1>7, <1>n, Zenon
  <2>2. rcvd[p][0] + rcvd[p][1] + n <= sent[q][0] + sent[q][1]
    <3>1. CASE pkt.ext = 0
        BY <1>6, <2>1, <3>1
    <3>2. CASE pkt.ext = 1
        BY <1>6, <2>1, <3>2
    <3> QED
        BY <1>3, <3>1, <3>2, Zenon DEF Ext
  <2> QED
    BY <1>6, <1>7, <2>1, <2>2, SMTT(30) DEF Total
<1>9. /\ myWindow' = [myWindow EXCEPT ![p] = @ - n]
      /\ rcvd' = [rcvd EXCEPT ![p][pkt.ext] = rcvd[p][pkt.ext] + n]
      /\ rpc' = [rpc EXCEPT ![p] = WakeReaders(p, {pkt.ext})]
      /\ UNCHANGED <<remoteWin, winClosed, sent, rd, granted, credited, wVars,
                     rgot, eofSeen, lifeVars, muxVars>>
  <2>1. n <= MaxPacket /\ ~(n > MaxPacket) /\ ~(myWindow[p] < n)
    <3>1. MaxPacket \in Nat /\ myWindow[p] \in Nat
        BY SizeAssumption, <1>n
    <3>2. n <= MaxPacket
        BY <1>5, Zenon DEF n
    <3> QED
        BY <1>6, <1>8, <3>1, <3>2
  <2> QED
    BY <2>1, Zenon DEF HandleData, pkt, n
<1>10. /\ myWindow' \in [Peer -> 0..(UintMod - 1)]
       /\ \A r \in Peer : myWindow'[r] = IF r = p THEN myWindow[p] - n ELSE myWindow[r]
  <2>1. myWindow \in [Peer -> 0..(UintMod - 1)]
    BY Zenon DEF TypeOK
  <2>2. myWindow[p] - n \in 0..(UintMod - 1)
    BY <1>6, <1>8, <1>n
  <2>3. myWindow' = [myWindow EXCEPT ![p] = myWindow[p] - n]
    BY <1>9, Zenon
  <2> DEFINE left == myWindow[p] - n
  <2> HIDE DEF left
  <2>4. /\ myWindow' \in [Peer -> 0..(UintMod - 1)]
        /\ \A r \in Peer : myWindow'[r] = IF r = p THEN left ELSE myWindow[r]
    BY <2>1, <2>2, <2>3 DEF left
  <2> QED
    BY <2>4, Zenon DEF left
<1>11. /\ rcvd' \in [Peer -> [Ext -> Nat]]
       /\ \A r \in Peer, d \in Ext :
            rcvd'[r][d] = IF r = p /\ d = pkt.ext THEN rcvd[p][pkt.ext] + n ELSE rcvd[r][d]
  <2>1. rcvd \in [Peer -> [Ext -> Nat]]
    BY Zenon DEF TypeOK
  <2> QED
    BY <1>3, <1>6, <1>9, <2>1, Except2, SMTT(30)
<1>12. /\ rpc' \in [Peer -> [Ext -> {"idle", "read", "wait", "adjust", "announce"}]]
       /\ \A r \in Peer, d \in Ext :
             /\ rpc'[r][d] = "adjust" <=> rpc[r][d] = "adjust"
             /\ rpc'[r][d] \in {"adjust", "announce"}
                   <=> rpc[r][d] \in {"adjust", "announce"}
    BY <1>9, WakeReadersKeeps, Zenon
<1>13. /\ wire' \in [Peer -> Seq(Packet)]
       /\ \A r \in Peer : DataOnWire(r)' /\ CreditOnWire(r)'
  <2>1. rcvd'[q] = rcvd[q]
    <3>1. rcvd \in [Peer -> [Ext -> Nat]]
        BY Zenon DEF TypeOK
    <3> QED
        BY <1>0, <1>9, <3>1, Zenon
  <2>2. \A d \in Ext : \/ rcvd'[p][d] = rcvd[p][d]
                       \/ IsData(pkt, d) /\ rcvd'[p][d] = rcvd[p][d] + n
    BY <1>3, <1>11, Zenon DEF IsData
  <2>3. wire' = [wire EXCEPT ![q] = Tail(@), ![p] = IF FALSE THEN Append(@, ClosePkt) ELSE @]
    BY <1>3, Zenon DEF OnePacket, pkt
  <2>4. credited' = credited /\ credited \in [Peer -> Nat] /\ UNCHANGED <<sent, granted>>
    BY <1>9, Zenon DEF TypeOK
  <2>5. FALSE \in BOOLEAN
    BY Zenon
  <2>6. \A d \in Ext :
           \/ rcvd'[p][d] = rcvd[p][d]
           \/ /\ IsData(Head(wire[q]), d)
              /\ rcvd'[p][d] = rcvd[p][d] + (Head(wire[q]).hi - Head(wire[q]).lo)
    BY <2>2, Zenon DEF pkt, n
  <2>7. /\ wire[q] # <<>> /\ rcvd' \in [Peer -> [Ext -> Nat]] /\ credited' \in [Peer -> Nat]
        /\ credited'[q] = credited[q] /\ credited'[p] = credited[p] /\ q = Other(p) /\ q \in Peer
    BY <1>0, <1>1, <1>11, <2>4, Zenon
  <2> QED
    BY <2>1, <2>3, <2>4, <2>5, <2>6, <2>7, WireHandled, ZenonT(30)
<1>14. TypeOK'
    BY <1>9, <1>10, <1>11, <1>12, <1>13, Zenon DEF TypeOK, wVars, lifeVars, muxVars
<1>15. ASSUME NEW r \in Peer PROVE ReaderLedger(r)'
  <2>1. ReaderLedger(r) /\ UNCHANGED <<granted, rd, rgot>>
    BY <1>9, Zenon DEF Ledger
  <2>2. Unadjusted(r)' = Unadjusted(r)
    BY <1>0, <1>12, <2>1, Zenon DEF Unadjusted
  <2>3. \A d \in Ext : rd[r][d] <= rcvd'[r][d]
    BY <1>6, <1>11, <1>n, <2>1, SMTT(30) DEF ReaderLedger
  <2>4. myWindow'[r] + Total(rcvd'[r]) = myWindow[r] + Total(rcvd[r])
    <3>1. /\ rcvd[r][0] \in Nat /\ rcvd[r][1] \in Nat /\ myWindow[r] \in Nat
        BY <1>0, <1>n, Zenon
    <3>2. CASE r # p
        BY <1>0, <1>10, <1>11, <3>2, Zenon DEF Total
    <3>3. CASE r = p /\ pkt.ext = 0
        BY <1>0, <1>6, <1>10, <1>11, <3>1, <3>3 DEF Total
    <3>4. CASE r = p /\ pkt.ext = 1
        BY <1>0, <1>6, <1>10, <1>11, <3>1, <3>4, SMTT(30) DEF Total
    <3> QED
        BY <1>3, <3>2, <3>3, <3>4, Zenon DEF Ext
  <2> QED
    BY <2>1, <2>2, <2>3, <2>4, Zenon DEF ReaderLedger
<1>16. ASSUME NEW r \in Peer PROVE WriterLedger(r)' /\ InHand(r)'
    BY <1>9, <1>12, LedgerFrame, Zenon DEF wVars
<1>17. FlowControlRespected'
    BY <1>9, Zenon DEF FlowControlRespected, muxVars
<1> QED
    BY <1>13, <1>14, <1>15, <1>16, <1>17, Zenon DEF Ledger

\* window.add never overflows on an adjust of the other side.
LEMMA AdjustAdds ==
    ASSUME FlowInv, NEW p \in Peer, OnePacket(p),
           HandleAdjust(p, Head(wire[Other(p)]))
    PROVE  LET pkt == Head(wire[Other(p)])
               n   == pkt.hi - pkt.lo
           IN
           /\ n \in Nat /\ remoteWin[p] + n <= WindowSize
           /\ remoteWin' = [remoteWin EXCEPT ![p] = remoteWin[p] + n]
           /\ credited' = [credited EXCEPT ![p] = credited[p] + n]
           /\ wpc' = [wpc EXCEPT ![p] = WakeWriters(p, {})]
           /\ UNCHANGED <<winClosed, myWindow, sent, rcvd, rd, granted, wtodo, wgot,
                          rVars, lifeVars, muxVars>>
<1> USE DEF FlowInv
<1> DEFINE q == Other(p)
           pkt == Head(wire[q])
           n == pkt.hi - pkt.lo
           sum == remoteWin[p] + n
<1>0. q \in Peer /\ Other(q) = p /\ p # q
    BY PeerFacts, Zenon
<1>1. wire[q] \in Seq(Packet) /\ wire[q] # <<>>
    BY <1>0, Zenon DEF TypeOK, OnePacket
<1>2. pkt \in Packet /\ 1 \in 1..Len(wire[q]) /\ wire[q][1] = pkt
    BY <1>1
<1>3. pkt.type = "adjust" /\ pkt.lo \in Nat /\ pkt.hi \in Nat
    BY <1>2, Zenon DEF HandleAdjust, Packet
<1>4. CreditChain(wire[q], credited[p], granted[q])
    BY <1>0, Zenon DEF Ledger, CreditOnWire
<1> HIDE DEF pkt
<1>5. credited[p] <= pkt.lo /\ pkt.lo <= pkt.hi /\ pkt.hi <= granted[q]
    BY <1>2, <1>3, <1>4, Zenon DEF CreditChain
<1>n. /\ \A r \in Peer : remoteWin[r] \in Nat /\ credited[r] \in Nat /\ granted[r] \in Nat
      /\ WindowSize \in Nat /\ UintMod \in Nat /\ WindowSize < UintMod
    BY Counters, SizeAssumption, Zenon
<1>6. n \in Nat /\ sum \in Nat /\ sum <= WindowSize /\ credited[p] + n \in Nat
  <2>1. remoteWin[p] + (granted[q] - credited[p]) <= WindowSize
    BY <1>0, InFlightFits, Zenon
  <2> QED
    BY <1>0, <1>3, <1>5, <1>n, <2>1
<1>7. /\ remoteWin' = [remoteWin EXCEPT ![p] = sum]
      /\ credited' = [credited EXCEPT ![p] = credited[p] + n]
      /\ wpc' = [wpc EXCEPT ![p] = WakeWriters(p, {})]
      /\ UNCHANGED <<winClosed, myWindow, sent, rcvd, rd, granted, wtodo, wgot,
                     rVars, lifeVars, muxVars>>
  <2>1. Wrap(sum) = sum /\ ~(sum < n)
    BY <1>6, <1>n, SMTT(30) DEF Wrap
  <2> QED
    BY <2>1, Zenon DEF HandleAdjust, pkt, n, sum
<1> QED
    BY <1>6, <1>7, Zenon DEF pkt

\* An adjust of the other side: the credit leaves the wire for the window.
LEMMA HandleAdjustFlow ==
    ASSUME FlowInv, NEW p \in Peer, OnePacket(p), inList[p],
           HandleAdjust(p, Head(wire[Other(p)]))
    PROVE  FlowInv'
<1> USE DEF FlowInv
<1> DEFINE q == Other(p)
           pkt == Head(wire[q])
           n == pkt.hi - pkt.lo
           sum == remoteWin[p] + n
<1>0. q \in Peer /\ Other(q) = p /\ p # q
    BY PeerFacts, Zenon
<1>1. wire[q] \in Seq(Packet) /\ wire[q] # <<>>
    BY <1>0, Zenon DEF TypeOK, OnePacket
<1>3. pkt.type = "adjust"
    BY Zenon DEF HandleAdjust
<1>n. /\ \A r \in Peer : remoteWin[r] \in Nat /\ credited[r] \in Nat
      /\ WindowSize \in Nat /\ UintMod \in Nat /\ WindowSize < UintMod
    BY Counters, SizeAssumption, Zenon
<1>7. /\ n \in Nat /\ sum <= WindowSize
      /\ remoteWin' = [remoteWin EXCEPT ![p] = sum]
      /\ credited' = [credited EXCEPT ![p] = credited[p] + n]
      /\ wpc' = [wpc EXCEPT ![p] = WakeWriters(p, {})]
      /\ UNCHANGED <<winClosed, myWindow, sent, rcvd, rd, granted, wtodo, wgot,
                     rVars, lifeVars, muxVars>>
    BY AdjustAdds, Zenon
<1> HIDE DEF pkt
<1>6. n \in Nat /\ sum \in Nat /\ sum <= WindowSize /\ credited[p] + n \in Nat
    BY <1>7, <1>n
<1> HIDE DEF n, sum
<1>8. /\ remoteWin' \in [Peer -> 0..(UintMod - 1)]
      /\ \A r \in Peer : remoteWin'[r] = IF r = p THEN sum ELSE remoteWin[r]
  <2>1. remoteWin \in [Peer -> 0..(UintMod - 1)]
    BY Zenon DEF TypeOK
  <2>2. sum \in 0..(UintMod - 1)
    BY <1>6, <1>n, SMTT(30)
  <2> QED
    BY <1>7, <2>1, <2>2, Zenon
<1>9. /\ credited' \in [Peer -> Nat]
      /\ \A r \in Peer : credited'[r] = IF r = p THEN credited[p] + n ELSE credited[r]
  <2>1. credited \in [Peer -> Nat]
    BY Zenon DEF TypeOK
  <2> QED
    BY <1>6, <1>7, <2>1, Zenon
<1>10. /\ wpc' \in [Peer -> [Ext -> {"idle", "reserve", "wait", "recheck", "send"}]]
       /\ \A r \in Peer, d \in Ext : wpc'[r][d] = "send" <=> wpc[r][d] = "send"
  <2>1. /\ WakeWriters(p, {}) \in [Ext -> {"idle", "reserve", "wait", "recheck", "send"}]
        /\ \A d \in Ext : WakeWriters(p, {})[d] = "send" <=> wpc[p][d] = "send"
    BY WakeWritersKeeps, Zenon
  <2>2. wpc \in [Peer -> [Ext -> {"idle", "reserve", "wait", "recheck", "send"}]]
    BY Zenon DEF TypeOK
  <2> QED
    BY <1>7, <2>1, <2>2, Zenon
<1>11. /\ wire' \in [Peer -> Seq(Packet)]
       /\ \A r \in Peer : DataOnWire(r)' /\ CreditOnWire(r)'
  <2>1. /\ rcvd' = rcvd /\ rcvd \in [Peer -> [Ext -> Nat]]
        /\ UNCHANGED <<sent, granted>>
    BY <1>7, Zenon DEF TypeOK
  <2>2. credited'[q] = credited[q] /\ credited'[p] = credited[p] + n
    BY <1>0, <1>9, Zenon
  <2>3. wire' = [wire EXCEPT ![q] = Tail(@), ![p] = IF FALSE THEN Append(@, ClosePkt) ELSE @]
    BY <1>3, Zenon DEF OnePacket, pkt
  <2>4. FALSE \in BOOLEAN
    BY Zenon
  <2> QED
    BY <1>0, <1>1, <1>3, <1>9, <2>1, <2>2, <2>3, <2>4, WireHandled, Zenon DEF pkt, n
<1>12. TypeOK'
    BY <1>7, <1>8, <1>9, <1>10, <1>11, Zenon DEF TypeOK, rVars, lifeVars, muxVars
<1>13. ASSUME NEW r \in Peer PROVE WriterLedger(r)'
  <2>1. WriterLedger(r) /\ UNCHANGED <<wgot, sent>>
    BY <1>7, Zenon DEF Ledger
  <2>2. remoteWin'[r] - credited'[r] = remoteWin[r] - credited[r]
    <3>1. CASE r = p
      <4>1. remoteWin'[r] = remoteWin[r] + n /\ credited'[r] = credited[r] + n
        BY <1>8, <1>9, <3>1, Zenon DEF sum
      <4> QED
        BY <1>6, <1>n, <4>1
    <3>2. CASE r # p
        BY <1>8, <1>9, <3>2, Zenon
    <3> QED
        BY <3>1, <3>2, Zenon
  <2>3. Total(wgot[r]) \in Nat /\ Total(sent[r]) \in Nat
    <3>1. \A d \in Ext : wgot[r][d] \in Nat /\ sent[r][d] \in Nat
        BY Counters, Zenon
    <3> QED
        BY <3>1 DEF Total, Ext
  <2>4. /\ remoteWin'[r] \in Nat /\ credited'[r] \in Nat
        /\ remoteWin[r] \in Nat /\ credited[r] \in Nat
    BY <1>6, <1>8, <1>9, <1>n, Zenon
  <2>5. remoteWin[r] + Total(wgot[r]) + Total(sent[r]) <= WindowSize + credited[r]
    BY <2>1, Zenon DEF WriterLedger
  <2>6. remoteWin'[r] + Total(wgot[r]) + Total(sent[r]) <= WindowSize + credited'[r]
    BY <1>n, <2>2, <2>3, <2>4, <2>5, SMTT(30)
  <2> QED
    BY <2>1, <2>6, Zenon DEF WriterLedger
<1>14. ASSUME NEW r \in Peer PROVE ReaderLedger(r)' /\ InHand(r)'
  <2>1. UNCHANGED <<granted, rgot, rd, myWindow, rcvd, wgot, wtodo, rpc>>
    BY <1>7, Zenon DEF rVars
  <2> QED
    BY <1>10, <2>1, LedgerFrame, Zenon
<1>15. FlowControlRespected'
    BY <1>7, Zenon DEF FlowControlRespected, muxVars
<1> QED
    BY <1>11, <1>12, <1>13, <1>14, <1>15, Zenon DEF Ledger

\* An eof closes the buffers; the ledgers do not see it.
LEMMA HandleEOFFlow ==
    ASSUME FlowInv, NEW p \in Peer, HandleEOF(p, Head(wire[Other(p)])),
           wire' \in [Peer -> Seq(Packet)],
           \A r \in Peer : DataOnWire(r)' /\ CreditOnWire(r)'
    PROVE  FlowInv'
<1> USE DEF FlowInv
<1>1. /\ rpc' \in [Peer -> [Ext -> {"idle", "read", "wait", "adjust", "announce"}]]
      /\ \A r \in Peer, d \in Ext :
            /\ rpc'[r][d] = "adjust" <=> rpc[r][d] = "adjust"
            /\ rpc'[r][d] \in {"adjust", "announce"}
                  <=> rpc[r][d] \in {"adjust", "announce"}
    BY WakeReadersKeeps, Zenon DEF HandleEOF
<1>2. bufClosed' \in [Peer -> BOOLEAN]
    BY Zenon DEF TypeOK, HandleEOF
<1>3. TypeOK'
    BY <1>1, <1>2, Zenon DEF TypeOK, HandleEOF, winVars, byteVars, wVars, muxVars
<1>4. ASSUME NEW r \in Peer PROVE WriterLedger(r)' /\ ReaderLedger(r)' /\ InHand(r)'
    BY <1>1, LedgerFrame, Zenon DEF HandleEOF, winVars, byteVars, wVars
<1>5. FlowControlRespected'
    BY Zenon DEF FlowControlRespected, HandleEOF, muxVars
<1> QED
    BY <1>3, <1>4, <1>5, Zenon DEF Ledger

\* onePacket, whatever the packet and whether or not the channel is listed.
LEMMA OnePacketFlow ==
    ASSUME FlowInv, NEW p \in Peer, OnePacket(p)
    PROVE  FlowInv'
<1> USE DEF FlowInv
<1> DEFINE q == Other(p)
           pkt == Head(wire[q])
<1>1. ASSUME byteVars' = byteVars
      PROVE  /\ wire' \in [Peer -> Seq(Packet)]
             /\ \A r \in Peer : DataOnWire(r)' /\ CreditOnWire(r)'
  <2>1. q \in Peer /\ wire[q] # <<>>
    BY PeerFacts, Zenon DEF OnePacket
  <2>2. /\ UNCHANGED <<sent, granted, rcvd, credited>>
        /\ rcvd \in [Peer -> [Ext -> Nat]] /\ credited \in [Peer -> Nat]
    BY <1>1, Zenon DEF TypeOK, byteVars
  <2>3. \E answer \in BOOLEAN :
            wire' = [wire EXCEPT ![q] = Tail(@),
                                 ![p] = IF answer THEN Append(@, ClosePkt) ELSE @]
    <3> DEFINE answer == pkt.type = "close" /\ inList[p] /\ ~sentClose[p] /\ connUp
    <3>1. wire' = [wire EXCEPT ![q] = Tail(@),
                               ![p] = IF answer THEN Append(@, ClosePkt) ELSE @]
        BY Zenon DEF OnePacket
    <3>2. answer \in BOOLEAN
        BY Zenon
    <3> HIDE DEF answer
    <3> QED
        BY <3>1, <3>2, Zenon
  <2> QED
    BY <2>1, <2>2, <2>3, WireHandled, Zenon
<1>2. CASE inList[p] /\ HandleData(p, pkt)
    BY <1>2, HandleDataFlow, Zenon
<1>3. CASE inList[p] /\ HandleAdjust(p, pkt)
    BY <1>3, HandleAdjustFlow, Zenon
<1>4. CASE inList[p] /\ HandleEOF(p, pkt)
    BY <1>1, <1>4, HandleEOFFlow, Zenon DEF HandleEOF
<1>5. CASE inList[p] /\ HandleClose(p, pkt)
  <2>1. err' = err /\ connUp' \in BOOLEAN
    BY <1>5, Zenon DEF HandleClose, muxVars, TypeOK
  <2> QED
    BY <1>1, <1>5, <2>1, ClosingFlow, Zenon DEF HandleClose
<1>6. CASE ~inList[p] /\ LoopExit(p, "invalid channel")
  <2>1. connUp' \in BOOLEAN
    BY <1>6, Zenon DEF LoopExit
  <2> QED
    BY <1>1, <1>6, <2>1, ClosingFlow, Zenon DEF LoopExit
<1> QED
    BY <1>2, <1>3, <1>4, <1>5, <1>6, Zenon DEF OnePacket

\* The end of mux.loop on a broken transport leaves the ledgers as they are.
LEMMA LoopFailsFlow ==
    ASSUME FlowInv, NEW p \in Peer, LoopFails(p)
    PROVE  FlowInv'
<1> USE DEF FlowInv
<1>1. /\ wire' \in [Peer -> Seq(Packet)]
      /\ \A r \in Peer : DataOnWire(r)' /\ CreditOnWire(r)'
    BY LedgerFrame, Zenon DEF LoopFails, LoopExit, byteVars, TypeOK
<1>2. connUp' \in BOOLEAN
    BY Zenon DEF LoopFails, LoopExit
<1> QED
    BY <1>1, <1>2, ClosingFlow, Zenon DEF LoopFails, LoopExit

\* A mux.loop that spins changes nothing but err.
LEMMA LoopSpinsFlow ==
    ASSUME FlowInv, NEW p \in Peer, LoopSpins(p)
    PROVE  FlowInv'
<1> USE DEF FlowInv
<1>1. /\ UNCHANGED <<winVars, wire, byteVars, wVars, rVars, lifeVars, connUp>>
      /\ err' = [err EXCEPT ![p] = "timed out"]
    BY Zenon DEF LoopSpins
<1>2. /\ wire' \in [Peer -> Seq(Packet)]
      /\ \A r \in Peer : DataOnWire(r)' /\ CreditOnWire(r)'
    BY <1>1, LedgerFrame, Zenon DEF byteVars, TypeOK
<1>3. connUp' \in BOOLEAN
    BY <1>1, Zenon DEF TypeOK
<1>4. /\ UNCHANGED <<wpc, rpc, winClosed, lifeVars>>
      /\ UNCHANGED <<remoteWin, myWindow, byteVars, wtodo, wgot, rgot, eofSeen>>
    BY <1>1, Zenon DEF winVars, wVars, rVars
<1> QED
    BY <1>1, <1>2, <1>3, <1>4, ClosingFlow, Zenon

-----------------------------------------------------------------------------
\* Every step of the channel keeps the ledger.
LEMMA StepFlow == FlowInv /\ [Next]_vars => FlowInv'
<1> SUFFICES ASSUME FlowInv, [Next]_vars PROVE FlowInv'
    BY Zenon
<1>1. ASSUME NEW p \in Peer, NEW e \in Ext, NEW n \in 1..MaxBytes[p][e],
             WriteExtended(p, e, n)
      PROVE  FlowInv'
    BY <1>1, WriteExtendedFlow, Zenon
<1>2. ASSUME NEW p \in Peer, NEW e \in Ext, Writer(p, e)
      PROVE  FlowInv'
    BY <1>2, ReserveFlow, SendDataFlow, Zenon DEF Writer
<1>3. ASSUME NEW p \in Peer, NEW e \in Ext, ReadExtended(p, e)
      PROVE  FlowInv'
    BY <1>3, ReadExtendedFlow, Zenon
<1>4. ASSUME NEW p \in Peer, NEW e \in Ext, Reader(p, e)
      PROVE  FlowInv'
    BY <1>4, BufferReadFlow, AdjustWindowFlow, AnnounceWindowFlow, Zenon DEF Reader
<1>5. ASSUME NEW p \in Peer, CloseWrite(p) \/ CloseChannel(p) \/ SendClose(p)
      PROVE  FlowInv'
    BY <1>5, CloseWriteFlow, SendCloseFlow, QuietFlow, Zenon
<1>6. ASSUME NEW p \in Peer, MuxLoop(p)
      PROVE  FlowInv'
    BY <1>6, OnePacketFlow, QuietFlow, LoopSpinsFlow, LoopFailsFlow, Zenon DEF MuxLoop
<1>7. ASSUME ConnLost \/ UNCHANGED vars
      PROVE  FlowInv'
    BY <1>7, QuietFlow, Zenon
<1> QED
    BY <1>1, <1>2, <1>3, <1>4, <1>5, <1>6, <1>7, Zenon DEF Next

\* The ledger holds in every reachable state of the channel: window.reserve,
\* handleData, adjustWindow and window.add keep each byte of the window
\* accounted for.
THEOREM LedgerHolds == Spec => []FlowInv
<1>1. Init => FlowInv
    BY InitFlow, Zenon
<1>2. FlowInv /\ [Next]_vars => FlowInv'
    BY StepFlow, Zenon
<1> QED
    BY <1>1, <1>2, PTL DEF Spec

\* Every field of the channel keeps its type; in particular the uint32
\* subtractions in window.reserve and handleData never go below zero.
THEOREM TypeCorrect == Spec => []TypeOK
<1>1. FlowInv => TypeOK
    BY Zenon DEF FlowInv
<1> QED
    BY <1>1, LedgerHolds, PTL

\* For every window, packet size and amount of data: handleData never reports
\* "remote side wrote too much" or an oversized payload, and window.add never
\* overflows, between two endpoints that run this code.
THEOREM FlowControl == Spec => []FlowControlRespected
<1>1. FlowInv => FlowControlRespected
    BY Zenon DEF FlowInv
<1> QED
    BY <1>1, LedgerHolds, PTL

\* What the comment in adjustWindow claims, for every window size: neither
\* myWindow nor the other side's remoteWin exceeds the initial window.
THEOREM WindowsBounded == Spec => []WindowBounded
<1>1. FlowInv => WindowBounded
  <2> SUFFICES ASSUME FlowInv, NEW p \in Peer
               PROVE  myWindow[p] <= WindowSize /\ remoteWin[p] <= WindowSize
    BY Zenon DEF WindowBounded
  <2>1. /\ myWindow[p] <= WindowSize
        /\ remoteWin[p] + (granted[Other(p)] - credited[p]) <= WindowSize
        /\ credited[p] <= granted[Other(p)]
    BY PeerFacts, InFlightFits, Zenon DEF FlowInv
  <2>2. /\ remoteWin[p] \in Nat /\ credited[p] \in Nat /\ granted[Other(p)] \in Nat
        /\ WindowSize \in Nat
    BY PeerFacts, Counters, Zenon DEF FlowInv
  <2> QED
    BY <2>1, <2>2
<1> QED
    BY <1>1, LedgerHolds, PTL

-----------------------------------------------------------------------------
\* What p has sent on stream e reaches the other side without gaps.
Unbroken(p, e) == Contiguous(wire[p], "data", e, rcvd[Other(p)][e], sent[p][e])

\* A close is the last packet of its sender, which has then set sentClose.
CloseLast(w, closed) ==
    \A i \in 1..Len(w) : w[i].type = "close" => i = Len(w) /\ closed

NoMain(w) == \A i \in 1..Len(w) : ~IsData(w[i], 0)

\* No data of the main stream comes behind an eof.
EofLast(w, done) ==
    \A i \in 1..Len(w) :
        w[i].type = "eof" => done /\ \A k \in (i + 1)..Len(w) : ~IsData(w[k], 0)

\* A channel leaves the list with its one close(), and then nothing more comes
\* for it: its mux loop has ended, or it was the other side that closed.
Left(p) ==
    /\ closes[p] = IF inList[p] THEN 0 ELSE 1
    /\ \/ inList[p]
       \/ err[p] # "none"
       \/ sentClose[Other(p)] /\ wire[Other(p)] = <<>>
    /\ err[p] # "invalid channel"

\* Unless the connection broke, the buffer of p is closed when the other side is done
\* with the main stream and all of it has arrived.
AllArrived(p) ==
    bufClosed[p] /\ connUp =>
        (sentEOF[Other(p)] \/ sentClose[Other(p)]) /\ NoMain(wire[Other(p)])

\* What the packets on their way from p say.
Outgoing(p) ==
    /\ \A e \in Ext : Unbroken(p, e)
    /\ CloseLast(wire[p], sentClose[p])
    /\ EofLast(wire[p], sentEOF[p])

\* The writer of the main stream of p is done before its eof.
WriterDone(p) == sentEOF[p] => wpc[p][0] = "idle"

\* A reader of p that was told the end of the main stream has read all there was.
AllRead(p) ==
    eofSeen[p][0] => bufClosed[p] /\ (connUp => rd[p][0] = rcvd[p][0])

WireInv == \A p \in Peer : Outgoing(p) /\ Left(p) /\ AllArrived(p)
EndInv  == \A p \in Peer : WriterDone(p) /\ AllRead(p)
StreamInv == WireInv /\ EndInv

-----------------------------------------------------------------------------
(* The wire *)

\* A data packet carries bytes of its stream.
LEMMA DataCarries == \A pkt, e : IsData(pkt, e) <=> Carries(pkt, "data", e)
BY Zenon DEF IsData, Carries

\* A packet added behind the others continues its stream.
LEMMA ContiguousAppend ==
    ASSUME NEW w \in Seq(Packet), NEW pkt \in Packet, NEW type, NEW e \in Ext,
           NEW from \in Nat, NEW to \in Nat, NEW to2 \in Nat,
           Contiguous(w, type, e, from, to),
           IF Carries(pkt, type, e) THEN pkt.lo = to /\ pkt.hi = to2 ELSE to2 = to
    PROVE  Contiguous(Append(w, pkt), type, e, from, to2)
<1> DEFINE v == Append(w, pkt)
           D(i) == Carries(v[i], type, e)
           n == Len(w)
<1>1. n \in Nat /\ Len(v) = n + 1 /\ v[n + 1] = pkt /\ \A i \in 1..n : v[i] = w[i]
    OBVIOUS
<1>2. /\ (\A i \in 1..n : ~D(i)) => from = to
      /\ \A i \in 1..n : D(i) /\ (\A k \in 1..(i - 1) : ~D(k)) => v[i].lo = from
      /\ \A i \in 1..n : D(i) /\ (\A k \in (i + 1)..n : ~D(k)) => v[i].hi = to
      /\ \A i, j \in 1..n :
            i < j /\ D(i) /\ D(j) /\ (\A k \in (i + 1)..(j - 1) : ~D(k))
            => v[i].hi = v[j].lo
  <2>1. \A i \in 1..n : \A k \in 1..(i - 1) : k \in 1..n
    BY <1>1
  <2>2. \A i \in 1..n : \A k \in (i + 1)..n : k \in 1..n
    BY <1>1
  <2>3. \A i, j \in 1..n : \A k \in (i + 1)..(j - 1) : k \in 1..n
    BY <1>1
  <2> HIDE DEF v, n
  <2>4. \A i \in 1..n : D(i) <=> Carries(w[i], type, e)
    BY <1>1, Zenon
  <2>5. (\A i \in 1..n : ~D(i)) => from = to
    BY <2>4, Zenon DEF Contiguous, n
  <2>6. \A i \in 1..n : D(i) /\ (\A k \in 1..(i - 1) : ~D(k)) => v[i].lo = from
    BY <1>1, <2>1, <2>4, Zenon DEF Contiguous, n
  <2>7. \A i \in 1..n : D(i) /\ (\A k \in (i + 1)..n : ~D(k)) => v[i].hi = to
    BY <1>1, <2>2, <2>4, Zenon DEF Contiguous, n
  <2>8. \A i, j \in 1..n :
            i < j /\ D(i) /\ D(j) /\ (\A k \in (i + 1)..(j - 1) : ~D(k))
            => v[i].hi = v[j].lo
    <3> SUFFICES ASSUME NEW i \in 1..n, NEW j \in 1..n, i < j, D(i), D(j),
                        \A k \in (i + 1)..(j - 1) : ~D(k)
                 PROVE  v[i].hi = v[j].lo
        BY Zenon
    <3>1. Carries(w[i], type, e) /\ Carries(w[j], type, e) /\ v[i] = w[i] /\ v[j] = w[j]
        BY <1>1, Zenon
    <3>2. \A k \in (i + 1)..(j - 1) : ~Carries(w[k], type, e)
        BY <2>3, <2>4, Zenon
    <3>3. w[i].hi = w[j].lo
        BY <3>1, <3>2, Zenon DEF Contiguous, n
    <3> QED
        BY <3>1, <3>3, Zenon
  <2> QED
    BY <2>5, <2>6, <2>7, <2>8, Zenon
<1>3. IF D(n + 1) THEN v[n + 1].lo = to /\ v[n + 1].hi = to2 ELSE to2 = to
    BY <1>1, Zenon
<1> HIDE DEF v, D, n
<1>4. (\A i \in 1..(n + 1) : ~D(i)) => from = to2
    BY <1>1, <1>2, <1>3
<1>5. ASSUME NEW i \in 1..(n + 1), D(i), \A k \in 1..(i - 1) : ~D(k)
      PROVE  v[i].lo = from
  <2>1. CASE i \in 1..n
    BY <1>2, <1>5, <2>1, Zenon
  <2>2. CASE i = n + 1
    <3>1. \A k \in 1..n : ~D(k)
        BY <1>1, <1>5, <2>2
    <3> QED
        BY <1>2, <1>3, <1>5, <2>2, <3>1, Zenon
  <2> QED
    BY <1>1, <2>1, <2>2
<1>6. ASSUME NEW i \in 1..(n + 1), D(i), \A k \in (i + 1)..(n + 1) : ~D(k)
      PROVE  v[i].hi = to2
  <2>1. CASE i \in 1..n
    <3>1. ~D(n + 1) /\ \A k \in (i + 1)..n : ~D(k)
        BY <1>1, <1>6, <2>1
    <3> QED
        BY <1>2, <1>3, <1>6, <2>1, <3>1, Zenon
  <2>2. CASE i = n + 1
    BY <1>3, <1>6, <2>2, Zenon
  <2> QED
    BY <1>1, <2>1, <2>2
<1>7. ASSUME NEW i \in 1..(n + 1), NEW j \in 1..(n + 1), i < j, D(i), D(j),
             \A k \in (i + 1)..(j - 1) : ~D(k)
      PROVE  v[i].hi = v[j].lo
  <2>0. i \in 1..n
    BY <1>1, <1>7
  <2>1. CASE j \in 1..n
    BY <1>2, <1>7, <2>0, <2>1, Zenon
  <2>2. CASE j = n + 1
    <3>1. \A k \in (i + 1)..n : ~D(k)
        BY <1>1, <1>7, <2>2
    <3> QED
        BY <1>2, <1>3, <1>7, <2>0, <2>2, <3>1, Zenon
  <2> QED
    BY <1>1, <2>1, <2>2
<1>8. Contiguous(v, type, e, from, to2)
    BY <1>1, <1>4, <1>5, <1>6, <1>7, Zenon DEF Contiguous, D
<1> QED
    BY <1>8, Zenon DEF v

\* Taking the first packet into the buffer keeps the rest without gaps.
LEMMA ContiguousTail ==
    ASSUME NEW w \in Seq(Packet), w # <<>>, NEW type, NEW e \in Ext,
           NEW from \in Nat, NEW to \in Nat, NEW from2 \in Nat,
           Contiguous(w, type, e, from, to),
           IF Carries(Head(w), type, e) THEN from2 = from + (Head(w).hi - Head(w).lo)
                                 ELSE from2 = from
    PROVE  Contiguous(Tail(w), type, e, from2, to)
<1> DEFINE v == Tail(w)
           D(i) == Carries(w[i], type, e)
           n == Len(v)
<1>1. /\ n \in Nat /\ Len(w) = n + 1 /\ w[1] = Head(w) /\ w[1] \in Packet
      /\ \A i \in 1..n : v[i] = w[i + 1]
    OBVIOUS
<1>2. w[1].lo \in Nat /\ w[1].hi \in Nat
    BY <1>1, Zenon DEF Packet
<1>3. /\ (\A i \in 1..(n + 1) : ~D(i)) => from = to
      /\ \A i \in 1..(n + 1) : D(i) /\ (\A k \in 1..(i - 1) : ~D(k)) => w[i].lo = from
      /\ \A i \in 1..(n + 1) : D(i) /\ (\A k \in (i + 1)..(n + 1) : ~D(k)) => w[i].hi = to
      /\ \A i, j \in 1..(n + 1) :
            i < j /\ D(i) /\ D(j) /\ (\A k \in (i + 1)..(j - 1) : ~D(k))
            => w[i].hi = w[j].lo
  <2> HIDE DEF n
  <2> QED
    BY <1>1, Zenon DEF Contiguous
<1>4. IF D(1) THEN from2 = from + (w[1].hi - w[1].lo) ELSE from2 = from
    BY <1>1, Zenon
<1> HIDE DEF v, D, n
<1>5. IF D(1) THEN from2 = w[1].hi ELSE from2 = from
  <2>1. D(1) => w[1].lo = from
    <3>1. 1 \in 1..(n + 1) /\ \A k \in 1..(1 - 1) : ~D(k)
        BY <1>1
    <3> QED
        BY <1>3, <3>1, Zenon
  <2> QED
    BY <1>2, <1>4, <2>1
<1>6. ASSUME \A i \in 1..n : ~D(i + 1) PROVE from2 = to
  <2>1. \A i \in 2..(n + 1) : ~D(i)
    <3> SUFFICES ASSUME NEW i \in 2..(n + 1) PROVE ~D(i)
        BY Zenon
    <3>1. i - 1 \in 1..n /\ (i - 1) + 1 = i
        BY <1>1
    <3> QED
        BY <1>6, <3>1, Zenon
  <2>2. CASE D(1)
    <3>1. 1 \in 1..(n + 1) /\ \A k \in (1 + 1)..(n + 1) : ~D(k)
        BY <1>1, <2>1
    <3>2. w[1].hi = to
        BY <1>3, <2>2, <3>1, Zenon
    <3> QED
        BY <1>5, <2>2, <3>2, Zenon
  <2>3. CASE ~D(1)
    <3>1. \A i \in 1..(n + 1) : ~D(i)
        BY <1>1, <2>1, <2>3
    <3> QED
        BY <1>3, <1>5, <2>3, <3>1, Zenon
  <2> QED
    BY <2>2, <2>3, Zenon
<1>7. ASSUME NEW i \in 1..n, D(i + 1), \A k \in 1..(i - 1) : ~D(k + 1)
      PROVE  w[i + 1].lo = from2
  <2>0. i + 1 \in 1..(n + 1) /\ 1 \in 1..(n + 1) /\ 1 < i + 1
    BY <1>1
  <2>1. \A k \in 2..i : ~D(k)
    <3> SUFFICES ASSUME NEW k \in 2..i PROVE ~D(k)
        BY Zenon
    <3>1. k - 1 \in 1..(i - 1) /\ (k - 1) + 1 = k
        BY <1>1
    <3> QED
        BY <1>7, <3>1, Zenon
  <2>2. CASE D(1)
    <3>1. \A k \in (1 + 1)..((i + 1) - 1) : ~D(k)
        BY <1>1, <2>1
    <3> QED
        BY <1>3, <1>5, <1>7, <2>0, <2>2, <3>1, Zenon
  <2>3. CASE ~D(1)
    <3>1. \A k \in 1..((i + 1) - 1) : ~D(k)
        BY <1>1, <2>1, <2>3
    <3> QED
        BY <1>3, <1>5, <1>7, <2>0, <2>3, <3>1, Zenon
  <2> QED
    BY <2>2, <2>3, Zenon
<1>8. ASSUME NEW i \in 1..n, D(i + 1), \A k \in (i + 1)..n : ~D(k + 1)
      PROVE  w[i + 1].hi = to
  <2>0. i + 1 \in 1..(n + 1)
    BY <1>1
  <2>1. \A k \in ((i + 1) + 1)..(n + 1) : ~D(k)
    <3> SUFFICES ASSUME NEW k \in ((i + 1) + 1)..(n + 1) PROVE ~D(k)
        BY Zenon
    <3>1. k - 1 \in (i + 1)..n /\ (k - 1) + 1 = k
        BY <1>1
    <3> QED
        BY <1>8, <3>1, Zenon
  <2> QED
    BY <1>3, <1>8, <2>0, <2>1, Zenon
<1>9. ASSUME NEW i \in 1..n, NEW j \in 1..n, i < j, D(i + 1), D(j + 1),
             \A k \in (i + 1)..(j - 1) : ~D(k + 1)
      PROVE  w[i + 1].hi = w[j + 1].lo
  <2>0. i + 1 \in 1..(n + 1) /\ j + 1 \in 1..(n + 1) /\ i + 1 < j + 1
    BY <1>1, <1>9
  <2>1. \A k \in ((i + 1) + 1)..((j + 1) - 1) : ~D(k)
    <3> SUFFICES ASSUME NEW k \in ((i + 1) + 1)..((j + 1) - 1) PROVE ~D(k)
        BY Zenon
    <3>1. k - 1 \in (i + 1)..(j - 1) /\ (k - 1) + 1 = k
        BY <1>1
    <3> QED
        BY <1>9, <3>1, Zenon
  <2> QED
    BY <1>3, <1>9, <2>0, <2>1, Zenon
<1>10. Contiguous(v, type, e, from2, to)
  <2>1. \A i \in 1..n : Carries(v[i], type, e) <=> D(i + 1)
    BY <1>1, Zenon DEF D
  <2>2. \A i \in 1..n : \A k \in 1..(i - 1) : k \in 1..n
    BY <1>1
  <2>3. \A i \in 1..n : \A k \in (i + 1)..n : k \in 1..n
    BY <1>1
  <2>4. \A i, j \in 1..n : \A k \in (i + 1)..(j - 1) : k \in 1..n
    BY <1>1
  <2>5. (\A i \in 1..n : ~Carries(v[i], type, e)) => from2 = to
    BY <1>6, <2>1, Zenon
  <2>6. \A i \in 1..n :
           Carries(v[i], type, e) /\ (\A k \in 1..(i - 1) : ~Carries(v[k], type, e)) => v[i].lo = from2
    <3> SUFFICES ASSUME NEW i \in 1..n, Carries(v[i], type, e),
                        \A k \in 1..(i - 1) : ~Carries(v[k], type, e)
                 PROVE  v[i].lo = from2
        BY Zenon
    <3>1. D(i + 1) /\ \A k \in 1..(i - 1) : ~D(k + 1)
        BY <2>1, <2>2, Zenon
    <3> QED
        BY <1>1, <1>7, <3>1, Zenon
  <2>7. \A i \in 1..n :
           Carries(v[i], type, e) /\ (\A k \in (i + 1)..n : ~Carries(v[k], type, e)) => v[i].hi = to
    <3> SUFFICES ASSUME NEW i \in 1..n, Carries(v[i], type, e),
                        \A k \in (i + 1)..n : ~Carries(v[k], type, e)
                 PROVE  v[i].hi = to
        BY Zenon
    <3>1. D(i + 1) /\ \A k \in (i + 1)..n : ~D(k + 1)
        BY <2>1, <2>3, Zenon
    <3> QED
        BY <1>1, <1>8, <3>1, Zenon
  <2>8. \A i, j \in 1..n :
           /\ i < j /\ Carries(v[i], type, e) /\ Carries(v[j], type, e)
           /\ \A k \in (i + 1)..(j - 1) : ~Carries(v[k], type, e)
           => v[i].hi = v[j].lo
    <3> SUFFICES ASSUME NEW i \in 1..n, NEW j \in 1..n, i < j,
                        Carries(v[i], type, e), Carries(v[j], type, e),
                        \A k \in (i + 1)..(j - 1) : ~Carries(v[k], type, e)
                 PROVE  v[i].hi = v[j].lo
        BY Zenon
    <3>1. D(i + 1) /\ D(j + 1) /\ v[i] = w[i + 1] /\ v[j] = w[j + 1]
        BY <1>1, <2>1, Zenon
    <3>2. \A k \in (i + 1)..(j - 1) : ~D(k + 1)
        BY <2>1, <2>4, Zenon
    <3>3. w[i + 1].hi = w[j + 1].lo
        BY <1>9, <3>1, <3>2, Zenon
    <3> QED
        BY <3>1, <3>3, Zenon
  <2> QED
    BY <2>5, <2>6, <2>7, <2>8, Zenon DEF Contiguous, n
<1> QED
    BY <1>10, Zenon DEF v

\* A packet added behind the others, before the close ...
LEMMA AppendClose ==
    ASSUME NEW w \in Seq(Packet), NEW pkt \in Packet, CloseLast(w, FALSE), NEW closed,
           pkt.type = "close" => closed
    PROVE  CloseLast(Append(w, pkt), closed)
<1> DEFINE v == Append(w, pkt)
           n == Len(w)
<1>1. n \in Nat /\ Len(v) = n + 1 /\ v[n + 1] = pkt /\ \A i \in 1..n : v[i] = w[i]
    OBVIOUS
<1> HIDE DEF v, n
<1>2. \A i \in 1..(n + 1) : i \in 1..n \/ i = n + 1
    BY <1>1
<1>3. \A i \in 1..n : w[i].type # "close"
    BY Zenon DEF CloseLast, n
<1> QED
    BY <1>1, <1>2, <1>3, Zenon DEF CloseLast, v

\* ... and, if it is data of the main stream, before the eof.
LEMMA AppendEof ==
    ASSUME NEW w \in Seq(Packet), NEW pkt \in Packet, NEW done, EofLast(w, done),
           pkt.type = "eof" => done, IsData(pkt, 0) => ~done
    PROVE  EofLast(Append(w, pkt), done)
<1> DEFINE v == Append(w, pkt)
           n == Len(w)
<1>1. n \in Nat /\ Len(v) = n + 1 /\ v[n + 1] = pkt /\ \A i \in 1..n : v[i] = w[i]
    OBVIOUS
<1> HIDE DEF v, n
<1>2. \A i \in 1..(n + 1) : i \in 1..n \/ i = n + 1
    BY <1>1
<1>3. EofLast(v, done)
  <2> SUFFICES ASSUME NEW i \in 1..(n + 1), v[i].type = "eof"
               PROVE  done /\ \A k \in (i + 1)..(n + 1) : ~IsData(v[k], 0)
    BY <1>1, Zenon DEF EofLast
  <2>1. CASE i \in 1..n
    <3>1. done /\ \A k \in (i + 1)..n : ~IsData(w[k], 0)
        BY <1>1, <2>1, Zenon DEF EofLast, n
    <3>2. \A k \in (i + 1)..(n + 1) : (k \in 1..n /\ k \in (i + 1)..n) \/ k = n + 1
        BY <1>1, <2>1
    <3> QED
        BY <1>1, <3>1, <3>2, Zenon
  <2>2. CASE i = n + 1
    <3>1. (i + 1)..(n + 1) = {}
        BY <1>1, <2>2
    <3> QED
        BY <1>1, <2>2, <3>1, Zenon
  <2> QED
    BY <1>2, <2>1, <2>2, Zenon
<1> QED
    BY <1>3, Zenon DEF v

\* A packet that is not data of the main stream adds none.
LEMMA AppendMain ==
    ASSUME NEW w \in Seq(Packet), NEW pkt \in Packet, NoMain(w), ~IsData(pkt, 0)
    PROVE  NoMain(Append(w, pkt))
<1> DEFINE v == Append(w, pkt)
           n == Len(w)
<1>1. n \in Nat /\ Len(v) = n + 1 /\ v[n + 1] = pkt /\ \A i \in 1..n : v[i] = w[i]
    OBVIOUS
<1> HIDE DEF v, n
<1>2. \A i \in 1..(n + 1) : i \in 1..n \/ i = n + 1
    BY <1>1
<1> QED
    BY <1>1, <1>2, Zenon DEF NoMain, n, v

\* Taking the first packet: behind a close there is nothing, behind an eof no data of the
\* main stream.
LEMMA TailOrder ==
    ASSUME NEW w \in Seq(Packet), w # <<>>, NEW closed, NEW done,
           CloseLast(w, closed), EofLast(w, done)
    PROVE  /\ CloseLast(Tail(w), closed)
           /\ EofLast(Tail(w), done)
           /\ NoMain(w) => NoMain(Tail(w)) /\ ~IsData(Head(w), 0)
           /\ Head(w).type = "close" => closed /\ Tail(w) = <<>>
           /\ Head(w).type = "eof" => done /\ NoMain(Tail(w))
<1> DEFINE v == Tail(w)
           n == Len(v)
<1>1. /\ n \in Nat /\ Len(w) = n + 1 /\ w[1] = Head(w)
      /\ \A i \in 1..n : v[i] = w[i + 1]
    OBVIOUS
<1>2. v \in Seq(Packet)
    OBVIOUS
<1> HIDE DEF v, n
<1>3. n = 0 => v = <<>>
    BY <1>2 DEF n
<1>4. /\ 1 \in 1..(n + 1) /\ (1 = n + 1 => n = 0)
      /\ \A i \in 1..n : /\ i + 1 \in 1..(n + 1) /\ i + 1 \in (1 + 1)..(n + 1)
                         /\ i + 1 = n + 1 => i = n
    BY <1>1
<1>5. \A i \in 1..n : \A k \in (i + 1)..n : k \in 1..n /\ k + 1 \in ((i + 1) + 1)..(n + 1)
    BY <1>1
<1>6. CloseLast(v, closed)
  <2> SUFFICES ASSUME NEW i \in 1..n, v[i].type = "close" PROVE i = n /\ closed
    BY Zenon DEF CloseLast, n
  <2>1. i + 1 \in 1..(n + 1) /\ w[i + 1].type = "close"
    BY <1>1, <1>4, Zenon
  <2>2. i + 1 = n + 1 /\ closed
    BY <1>1, <2>1, Zenon DEF CloseLast
  <2> QED
    BY <1>4, <2>2, Zenon
<1>7. EofLast(v, done)
  <2> SUFFICES ASSUME NEW i \in 1..n, v[i].type = "eof"
               PROVE  done /\ \A k \in (i + 1)..n : ~IsData(v[k], 0)
    BY Zenon DEF EofLast, n
  <2>1. i + 1 \in 1..(n + 1) /\ w[i + 1].type = "eof"
    BY <1>1, <1>4, Zenon
  <2>2. done /\ \A k \in ((i + 1) + 1)..(n + 1) : ~IsData(w[k], 0)
    BY <1>1, <2>1, Zenon DEF EofLast
  <2> QED
    BY <1>1, <1>5, <2>2, Zenon
<1>8. NoMain(w) => NoMain(v) /\ ~IsData(Head(w), 0)
    BY <1>1, <1>4, Zenon DEF NoMain, n
<1>9. Head(w).type = "close" => closed /\ v = <<>>
    BY <1>1, <1>3, <1>4, Zenon DEF CloseLast
<1>10. Head(w).type = "eof" => done /\ NoMain(v)
  <2> SUFFICES ASSUME w[1].type = "eof" PROVE done /\ NoMain(v)
    BY <1>1, Zenon
  <2>1. done /\ \A k \in (1 + 1)..(n + 1) : ~IsData(w[k], 0)
    BY <1>1, <1>4, Zenon DEF EofLast
  <2>2. \A i \in 1..n : ~IsData(v[i], 0)
    BY <1>1, <1>4, <2>1, Zenon
  <2> QED
    BY <2>1, <2>2, Zenon DEF NoMain, n
<1> QED
    BY <1>6, <1>7, <1>8, <1>9, <1>10, Zenon DEF v

-----------------------------------------------------------------------------
(* What a step does to the wire *)

\* A step that leaves the wire and the counters of the bytes alone.
LEMMA WireKept ==
    ASSUME WireInv,
           UNCHANGED <<wire, sent, rcvd, inList, closes, err, bufClosed>>,
           connUp' => connUp,
           \A r \in Peer : (sentClose[r] => sentClose'[r]) /\ (sentEOF[r] => sentEOF'[r])
    PROVE  WireInv'
<1> SUFFICES ASSUME NEW p \in Peer PROVE (Outgoing(p) /\ Left(p) /\ AllArrived(p))'
    BY Zenon DEF WireInv
<1>1. Outgoing(p) /\ Left(p) /\ AllArrived(p) /\ Other(p) \in Peer
    BY PeerFacts, Zenon DEF WireInv
<1>2. Outgoing(p)'
    BY <1>1, Zenon DEF Outgoing, Unbroken, CloseLast, EofLast
<1>3. Left(p)'
    BY <1>1, Zenon DEF Left
<1>4. AllArrived(p)'
    BY <1>1, Zenon DEF AllArrived
<1> QED
    BY <1>2, <1>3, <1>4, Zenon

\* A step in which p writes a packet.
LEMMA WireAppended ==
    ASSUME TypeOK, WireInv, NEW p \in Peer, NEW pkt \in Packet, ~sentClose[p],
           wire' = [wire EXCEPT ![p] = Append(@, pkt)],
           UNCHANGED <<rcvd, inList, closes, err, bufClosed, connUp>>,
           sent' \in [Peer -> [Ext -> Nat]],
           \A r \in Peer : r # p => sent'[r] = sent[r],
           \A e \in Ext : IF IsData(pkt, e)
                          THEN pkt.lo = sent[p][e] /\ pkt.hi = sent'[p][e]
                          ELSE sent'[p][e] = sent[p][e],
           \A r \in Peer : (sentClose[r] => sentClose'[r]) /\ (sentEOF[r] => sentEOF'[r]),
           pkt.type = "close" => sentClose'[p],
           pkt.type = "eof" => sentEOF'[p],
           IsData(pkt, 0) => ~sentEOF'[p]
    PROVE  WireInv'
<1> DEFINE q == Other(p)
<1>1. q \in Peer /\ q # p /\ Other(q) = p /\ \A r \in Peer : r = p \/ r = q
    BY PeerFacts, Zenon
<1> HIDE DEF q
<1>2. /\ wire[p] \in Seq(Packet) /\ wire[q] \in Seq(Packet)
      /\ wire'[p] = Append(wire[p], pkt) /\ wire'[q] = wire[q]
      /\ Other(p) = q /\ sent'[q] = sent[q]
    BY <1>1, Zenon DEF TypeOK, q
<1>3. /\ Outgoing(p) /\ Left(p) /\ AllArrived(p)
      /\ Outgoing(q) /\ Left(q) /\ AllArrived(q)
    BY <1>1, Zenon DEF WireInv
<1>4. /\ CloseLast(wire'[p], sentClose'[p])
      /\ EofLast(wire'[p], sentEOF'[p])
      /\ NoMain(wire[p]) /\ ~IsData(pkt, 0) => NoMain(wire'[p])
  <2>1. CloseLast(wire[p], FALSE)
    BY <1>3, Zenon DEF Outgoing, CloseLast
  <2>2. CloseLast(Append(wire[p], pkt), sentClose'[p])
    BY <1>2, <2>1, AppendClose, Zenon
  <2>3. EofLast(Append(wire[p], pkt), sentEOF'[p])
    <3>1. EofLast(wire[p], sentEOF[p])
        BY <1>3, Zenon DEF Outgoing
    <3>2. EofLast(wire[p], sentEOF'[p])
        BY <3>1, Zenon DEF EofLast
    <3> QED
        BY <1>2, <3>2, AppendEof, Zenon
  <2>4. NoMain(wire[p]) /\ ~IsData(pkt, 0) => NoMain(Append(wire[p], pkt))
    BY <1>2, AppendMain, Zenon
  <2> QED
    BY <1>2, <2>2, <2>3, <2>4, Zenon
<1>5. Outgoing(p)'
  <2>1. ASSUME NEW e \in Ext PROVE Unbroken(p, e)'
    <3>1. rcvd[q][e] \in Nat /\ sent[p][e] \in Nat /\ sent'[p][e] \in Nat
      <4>1. /\ rcvd \in [Peer -> [Ext -> Nat]] /\ sent \in [Peer -> [Ext -> Nat]]
            /\ sent' \in [Peer -> [Ext -> Nat]]
        BY Zenon DEF TypeOK
      <4>2. rcvd[q] \in [Ext -> Nat] /\ sent[p] \in [Ext -> Nat] /\ sent'[p] \in [Ext -> Nat]
        BY <1>1, <4>1, Zenon
      <4> QED
        BY <4>2, Zenon
    <3>2. Contiguous(wire[p], "data", e, rcvd[q][e], sent[p][e])
        BY <1>2, <1>3, Zenon DEF Outgoing, Unbroken
    <3>3. IF IsData(pkt, e) THEN pkt.lo = sent[p][e] /\ pkt.hi = sent'[p][e]
                            ELSE sent'[p][e] = sent[p][e]
        BY Zenon
    <3>4. Contiguous(Append(wire[p], pkt), "data", e, rcvd[q][e], sent'[p][e])
        BY <1>2, <3>1, <3>2, <3>3, ContiguousAppend, DataCarries, Zenon
    <3> QED
        BY <1>2, <3>4, Zenon DEF Unbroken
  <2> QED
    BY <1>4, <2>1, Zenon DEF Outgoing
<1>6. Outgoing(q)'
  <2>1. \A e \in Ext : Unbroken(q, e)'
    BY <1>1, <1>2, <1>3, Zenon DEF Outgoing, Unbroken
  <2>2. CloseLast(wire[q], sentClose[q]) /\ EofLast(wire[q], sentEOF[q])
    BY <1>3, Zenon DEF Outgoing
  <2>3. CloseLast(wire[q], sentClose'[q])
    BY <1>1, <2>2, Zenon DEF CloseLast
  <2>4. EofLast(wire[q], sentEOF'[q])
    BY <1>1, <2>2, Zenon DEF EofLast
  <2> QED
    BY <1>2, <2>1, <2>3, <2>4, Zenon DEF Outgoing
<1>7. Left(p)' /\ Left(q)'
  <2>1. Left(p)'
    BY <1>1, <1>2, <1>3, Zenon DEF Left
  <2>2. inList[q] \/ err[q] # "none"
    BY <1>1, <1>3, Zenon DEF Left
  <2>3. Left(q)'
    BY <1>3, <2>2, Zenon DEF Left
  <2> QED
    BY <2>1, <2>3, Zenon
<1>8. AllArrived(p)'
    BY <1>1, <1>2, <1>3, Zenon DEF AllArrived
<1>9. AllArrived(q)'
    BY <1>1, <1>2, <1>3, <1>4, Zenon DEF AllArrived
<1> QED
    BY <1>1, <1>5, <1>6, <1>7, <1>8, <1>9, Zenon DEF WireInv

\* A step in which the mux of p takes the first packet of the other side, and perhaps
\* answers a close.
Takes(p, answer) ==
    LET q   == Other(p)
        pkt == Head(wire[q])
    IN
    /\ wire[q] # <<>>
    /\ answer => pkt.type = "close" /\ ~sentClose[p]
    /\ wire' = [wire EXCEPT ![q] = Tail(@),
                            ![p] = IF answer THEN Append(@, ClosePkt) ELSE @]
    /\ UNCHANGED <<sent, err, connUp, sentEOF>>
    /\ rcvd' \in [Peer -> [Ext -> Nat]] /\ rcvd'[q] = rcvd[q]
    /\ \A e \in Ext : IF IsData(pkt, e) THEN rcvd'[p][e] = rcvd[p][e] + (pkt.hi - pkt.lo)
                                        ELSE rcvd'[p][e] = rcvd[p][e]
    /\ IF pkt.type = "close"
       THEN /\ inList[p] /\ sentClose'[p] /\ sentClose'[q] = sentClose[q]
            /\ inList'[p] = FALSE /\ closes'[p] = closes[p] + 1
            /\ inList'[q] = inList[q] /\ closes'[q] = closes[q]
       ELSE UNCHANGED <<sentClose, inList, closes>>
    /\ bufClosed'[q] = bufClosed[q]
    /\ bufClosed'[p] => bufClosed[p] \/ pkt.type \in {"eof", "close"}

\* Such a step keeps what the packets say, at both ends.
LEMMA WireTaken ==
    ASSUME TypeOK, WireInv, NEW p \in Peer, NEW answer \in BOOLEAN, Takes(p, answer)
    PROVE  WireInv'
<1> DEFINE q   == Other(p)
           pkt == Head(wire[q])
<1>0. /\ q \in Peer /\ wire[q] # <<>>
      /\ answer => pkt.type = "close" /\ ~sentClose[p]
      /\ wire' = [wire EXCEPT ![q] = Tail(@),
                              ![p] = IF answer THEN Append(@, ClosePkt) ELSE @]
      /\ UNCHANGED <<sent, err, connUp, sentEOF>>
      /\ rcvd' \in [Peer -> [Ext -> Nat]] /\ rcvd'[q] = rcvd[q]
      /\ \A e \in Ext : IF IsData(pkt, e) THEN rcvd'[p][e] = rcvd[p][e] + (pkt.hi - pkt.lo)
                                          ELSE rcvd'[p][e] = rcvd[p][e]
      /\ IF pkt.type = "close"
         THEN /\ inList[p] /\ sentClose'[p] /\ sentClose'[q] = sentClose[q]
              /\ inList'[p] = FALSE /\ closes'[p] = closes[p] + 1
              /\ inList'[q] = inList[q] /\ closes'[q] = closes[q]
         ELSE UNCHANGED <<sentClose, inList, closes>>
      /\ bufClosed'[q] = bufClosed[q]
      /\ bufClosed'[p] => bufClosed[p] \/ pkt.type \in {"eof", "close"}
    BY PeerFacts, Zenon DEF Takes
<1>a. q = Other(p) /\ pkt = Head(wire[q])
    BY Zenon
<1> HIDE DEF q, pkt
<1> USE <1>0, <1>a
<1>1. q # p /\ Other(q) = p /\ \A r \in Peer : r = p \/ r = q
    BY PeerFacts, Zenon
<1>2. /\ wire[p] \in Seq(Packet) /\ wire[q] \in Seq(Packet)
      /\ wire'[q] = Tail(wire[q])
      /\ wire'[p] = IF answer THEN Append(wire[p], ClosePkt) ELSE wire[p]
    BY <1>1, Zenon DEF TypeOK
<1>3. /\ Outgoing(p) /\ Left(p) /\ AllArrived(p)
      /\ Outgoing(q) /\ Left(q) /\ AllArrived(q)
    BY <1>1, Zenon DEF WireInv
<1>4. ClosePkt \in Packet /\ ClosePkt.type = "close" /\ \A e \in Ext : ~IsData(ClosePkt, e)
    BY Zenon DEF ClosePkt, Packet, Ext, IsData
<1>5. 0 \in Ext
    BY Zenon DEF Ext
<1>6. (sentClose[p] => sentClose'[p]) /\ sentClose'[q] = sentClose[q]
    BY <1>1, Zenon
<1>7. /\ CloseLast(wire'[q], sentClose[q])
      /\ EofLast(wire'[q], sentEOF[q])
      /\ NoMain(wire[q]) => NoMain(wire'[q])
      /\ pkt.type = "close" => sentClose[q] /\ wire'[q] = <<>>
      /\ pkt.type = "eof" => sentEOF[q] /\ NoMain(wire'[q])
  <2>1. CloseLast(wire[q], sentClose[q]) /\ EofLast(wire[q], sentEOF[q])
    BY <1>3, Zenon DEF Outgoing
  <2>2. /\ CloseLast(Tail(wire[q]), sentClose[q])
        /\ EofLast(Tail(wire[q]), sentEOF[q])
        /\ NoMain(wire[q]) => NoMain(Tail(wire[q])) /\ ~IsData(Head(wire[q]), 0)
        /\ Head(wire[q]).type = "close" => sentClose[q] /\ Tail(wire[q]) = <<>>
        /\ Head(wire[q]).type = "eof" => sentEOF[q] /\ NoMain(Tail(wire[q]))
    BY <1>2, <2>1, TailOrder, Zenon
  <2> QED
    BY <1>2, <2>2, Zenon
<1>8. /\ CloseLast(wire'[p], sentClose'[p])
      /\ EofLast(wire'[p], sentEOF[p])
      /\ NoMain(wire[p]) => NoMain(wire'[p])
  <2>1. CloseLast(wire[p], sentClose[p]) /\ EofLast(wire[p], sentEOF[p])
    BY <1>3, Zenon DEF Outgoing
  <2>2. CASE ~answer
    <3>1. CloseLast(wire[p], sentClose'[p])
        BY <1>6, <2>1, Zenon DEF CloseLast
    <3> QED
        BY <1>2, <2>1, <2>2, <3>1, Zenon
  <2>3. CASE answer
    <3>1. CloseLast(wire[p], FALSE)
        BY <2>1, <2>3, Zenon DEF CloseLast
    <3>2. ClosePkt.type = "close" => sentClose'[p]
        BY <2>3, Zenon
    <3>3. CloseLast(Append(wire[p], ClosePkt), sentClose'[p])
        BY <1>2, <1>4, <3>1, <3>2, AppendClose, Zenon
    <3>4. EofLast(Append(wire[p], ClosePkt), sentEOF[p])
        BY <1>2, <1>4, <1>5, <2>1, AppendEof, Zenon
    <3>5. NoMain(wire[p]) => NoMain(Append(wire[p], ClosePkt))
        BY <1>2, <1>4, <1>5, AppendMain, Zenon
    <3> QED
        BY <1>2, <2>3, <3>3, <3>4, <3>5, Zenon
  <2> QED
    BY <2>2, <2>3, Zenon
<1>9. \A e \in Ext : /\ rcvd[q][e] \in Nat /\ sent[p][e] \in Nat /\ rcvd[p][e] \in Nat
                     /\ sent[q][e] \in Nat /\ rcvd'[p][e] \in Nat
  <2>1. rcvd \in [Peer -> [Ext -> Nat]] /\ sent \in [Peer -> [Ext -> Nat]]
    BY Zenon DEF TypeOK
  <2>2. /\ rcvd[q] \in [Ext -> Nat] /\ sent[p] \in [Ext -> Nat] /\ rcvd[p] \in [Ext -> Nat]
        /\ sent[q] \in [Ext -> Nat] /\ rcvd'[p] \in [Ext -> Nat]
    BY <2>1, Zenon
  <2> QED
    BY <2>2, Zenon
<1>10. Outgoing(p)'
  <2>1. ASSUME NEW e \in Ext PROVE Contiguous(wire'[p], "data", e, rcvd[q][e], sent[p][e])
    <3>1. Contiguous(wire[p], "data", e, rcvd[q][e], sent[p][e])
        BY <1>3, Zenon DEF Outgoing, Unbroken
    <3>2. Contiguous(Append(wire[p], ClosePkt), "data", e, rcvd[q][e], sent[p][e])
        BY <1>2, <1>4, <1>9, <3>1, ContiguousAppend, DataCarries, Zenon
    <3> QED
        BY <1>2, <3>1, <3>2, Zenon
  <2>2. ASSUME NEW e \in Ext PROVE Unbroken(p, e)'
    BY <2>1, Zenon DEF Unbroken
  <2> QED
    BY <1>8, <2>2, Zenon DEF Outgoing
<1>11. Outgoing(q)'
  <2>1. ASSUME NEW e \in Ext PROVE Contiguous(wire'[q], "data", e, rcvd'[p][e], sent[q][e])
    <3>1. Contiguous(wire[q], "data", e, rcvd[p][e], sent[q][e])
        BY <1>1, <1>3, Zenon DEF Outgoing, Unbroken
    <3>2. IF IsData(Head(wire[q]), e)
          THEN rcvd'[p][e] = rcvd[p][e] + (Head(wire[q]).hi - Head(wire[q]).lo)
          ELSE rcvd'[p][e] = rcvd[p][e]
        BY Zenon
    <3>3. Contiguous(Tail(wire[q]), "data", e, rcvd'[p][e], sent[q][e])
        BY <1>2, <1>9, <3>1, <3>2, ContiguousTail, DataCarries, Zenon
    <3> QED
        BY <1>2, <3>3, Zenon
  <2>2. ASSUME NEW e \in Ext PROVE Unbroken(q, e)'
    BY <1>1, <2>1, Zenon DEF Unbroken
  <2> QED
    BY <1>6, <1>7, <2>2, Zenon DEF Outgoing
<1>12. Left(p)'
  <2>1. CASE pkt.type = "close"
    <3>1. closes'[p] = 1
      <4>1. closes[p] = 0
        BY <1>3, <2>1, Zenon DEF Left
      <4>2. closes'[p] = closes[p] + 1
        BY <2>1, Zenon
      <4> QED
        BY <4>1, <4>2
    <3> QED
        BY <1>3, <1>6, <1>7, <2>1, <3>1, Zenon DEF Left
  <2>2. CASE pkt.type # "close"
    <3>1. inList[p] \/ err[p] # "none"
        BY <1>3, Zenon DEF Left
    <3> QED
        BY <1>3, <2>2, <3>1, Zenon DEF Left
  <2> QED
    BY <2>1, <2>2, Zenon
<1>13. Left(q)'
  <2>1. inList'[q] = inList[q] /\ closes'[q] = closes[q]
    BY Zenon
  <2>2. sentClose[p] => wire'[p] = wire[p]
    BY <1>2, Zenon
  <2>3. inList[q] \/ err[q] # "none" \/ (sentClose[p] /\ wire[p] = <<>>)
    BY <1>1, <1>3, Zenon DEF Left
  <2>4. inList'[q] \/ err'[q] # "none" \/ (sentClose'[p] /\ wire'[p] = <<>>)
    BY <1>6, <2>1, <2>2, <2>3, Zenon
  <2> QED
    BY <1>1, <1>3, <2>1, <2>4, Zenon DEF Left
<1>14. AllArrived(p)'
  <2>1. /\ bufClosed[p] /\ connUp => (sentEOF[q] \/ sentClose[q]) /\ NoMain(wire[q])
    BY <1>3, Zenon DEF AllArrived
  <2>2. wire'[q] = <<>> => NoMain(wire'[q])
    BY DEF NoMain
  <2>3. bufClosed'[p] /\ connUp => (sentEOF[q] \/ sentClose[q]) /\ NoMain(wire'[q])
    BY <1>7, <2>1, <2>2, Zenon
  <2> QED
    BY <1>6, <2>3, Zenon DEF AllArrived
<1>15. AllArrived(q)'
    BY <1>1, <1>3, <1>6, <1>8, Zenon DEF AllArrived
<1> QED
    BY <1>1, <1>10, <1>11, <1>12, <1>13, <1>14, <1>15, Zenon DEF WireInv

-----------------------------------------------------------------------------
(* The steps *)

\* EndInv where the reader of the main stream and what it has are left alone.
LEMMA EndKept ==
    ASSUME EndInv, UNCHANGED <<eofSeen, rd, rcvd>>, connUp' => connUp,
           \A r \in Peer : /\ bufClosed[r] => bufClosed'[r]
                           /\ sentEOF'[r] => wpc'[r][0] = "idle"
    PROVE  EndInv'
<1> SUFFICES ASSUME NEW r \in Peer PROVE (WriterDone(r) /\ AllRead(r))'
    BY Zenon DEF EndInv
<1>1. AllRead(r)
    BY Zenon DEF EndInv
<1>2. AllRead(r)'
    BY <1>1, Zenon DEF AllRead
<1> QED
    BY <1>2, Zenon DEF WriterDone

\* A goroutine that writes nothing: nothing changes but where a writer or a reader is,
\* the windows, or that the connection is gone.
LEMMA QuietStreams ==
    ASSUME StreamInv, connUp' => connUp,
           UNCHANGED <<wire, sent, rcvd, rd, eofSeen, sentEOF, sentClose, bufClosed,
                       inList, closes, err>>,
           \A r \in Peer : sentEOF[r] => wpc'[r][0] = "idle"
    PROVE  StreamInv'
<1>1. WireInv'
    BY WireKept, Zenon DEF StreamInv
<1>2. EndInv'
    BY EndKept, Zenon DEF StreamInv
<1> QED
    BY <1>1, <1>2, Zenon DEF StreamInv

\* Waking the writers leaves one that is idle idle.
LEMMA IdleStaysIdle ==
    ASSUME NEW p \in Peer, NEW except, wpc[p][0] = "idle"
    PROVE  WakeWriters(p, except)[0] = "idle"
<1>1. 0 \in Ext
    BY Zenon DEF Ext
<1> QED
    BY <1>1, Zenon DEF WakeWriters

\* ... whichever writers a step wakes.
LEMMA WokenIdle ==
    ASSUME TypeOK, NEW p \in Peer, NEW r \in Peer, wpc[r][0] = "idle",
           wpc' = wpc \/ wpc' = [wpc EXCEPT ![p] = WakeWriters(p, {})]
    PROVE  wpc'[r][0] = "idle"
<1>1. wpc \in [Peer -> [Ext -> {"idle", "reserve", "wait", "recheck", "send"}]]
    BY Zenon DEF TypeOK
<1>2. CASE wpc'[r] = wpc[r]
    BY <1>2, Zenon
<1>3. CASE wpc'[r] # wpc[r]
  <2> DEFINE woken == WakeWriters(p, {})
  <2>1. wpc' = [wpc EXCEPT ![p] = woken]
    BY <1>3, Zenon
  <2> HIDE DEF woken
  <2>2. r = p /\ wpc'[r] = woken
    BY <1>1, <1>3, <2>1, Zenon
  <2> QED
    BY <2>2, IdleStaysIdle, Zenon DEF woken
<1> QED
    BY <1>2, <1>3, Zenon

\* The writers up to writePacket: none is at work on the main stream behind an eof.
LEMMA WriterQuiet ==
    ASSUME TypeOK, StreamInv, NEW p \in Peer, NEW e \in Ext,
           (\E n \in 1..MaxBytes[p][e] : WriteExtended(p, e, n)) \/ Reserve(p, e)
    PROVE  StreamInv'
<1>0. 0 \in Ext
    BY Zenon DEF Ext
<1>1. wpc \in [Peer -> [Ext -> {"idle", "reserve", "wait", "recheck", "send"}]]
    BY Zenon DEF TypeOK
<1>2. ASSUME NEW r \in Peer, sentEOF[r] PROVE wpc[r][0] = "idle"
    BY <1>2, Zenon DEF StreamInv, EndInv, WriterDone
<1>3. ASSUME NEW r \in Peer, sentEOF[r] PROVE wpc'[r][0] = "idle"
  <2>1. wpc[r][0] = "idle"
    BY <1>2, <1>3, Zenon
  <2>2. CASE \E n \in 1..MaxBytes[p][e] : WriteExtended(p, e, n)
    <3>1. wpc' = [wpc EXCEPT ![p][e] = "reserve"] /\ ~sentEOF[p]
        BY <2>2, Zenon DEF WriteExtended
    <3>2. r # p
        BY <1>3, <3>1, Zenon
    <3> QED
        BY <1>1, <2>1, <3>1, <3>2, Zenon
  <2>3. CASE Reserve(p, e)
    <3>1. CASE r # p
      <4>1. wpc'[r] = wpc[r]
        BY <1>1, <2>3, <3>1, Zenon DEF Reserve
      <4> QED
        BY <2>1, <4>1, Zenon
    <3>2. CASE r = p
      <4>1. e # 0
        BY <2>1, <2>3, <3>2, Zenon DEF Reserve
      <4> DEFINE others == IF wpc[p][e] = "reserve" THEN WakeWriters(p, {e}) ELSE wpc[p]
      <4>2. others \in [Ext -> {"idle", "reserve", "wait", "recheck", "send"}]
        BY <1>1, WakeWritersKeeps, Zenon
      <4>3. others[0] = "idle"
        BY <2>1, <3>2, IdleStaysIdle, Zenon
      <4>4. \/ wpc' = [wpc EXCEPT ![p][e] = "idle"]
            \/ wpc' = [wpc EXCEPT ![p] = [others EXCEPT ![e] = "wait"]]
            \/ wpc' = [wpc EXCEPT ![p] = [others EXCEPT ![e] = "send"]]
            \/ wpc' = [wpc EXCEPT ![p] = [others EXCEPT ![e] = "idle"]]
        BY <2>3, Zenon DEF Reserve
      <4> HIDE DEF others
      <4>5. \/ wpc'[p] = [wpc[p] EXCEPT ![e] = "idle"]
            \/ \E to \in {"wait", "send", "idle"} : wpc'[p] = [others EXCEPT ![e] = to]
        BY <1>1, <4>4, Zenon
      <4> QED
        BY <1>0, <1>1, <2>1, <3>2, <4>1, <4>2, <4>3, <4>5, Zenon
    <3> QED
        BY <3>1, <3>2, Zenon
  <2> QED
    BY <2>2, <2>3, Zenon
<1>4. UNCHANGED <<wire, sent, rcvd, rd, eofSeen, sentEOF, sentClose, bufClosed,
                  inList, closes, err, connUp>>
    BY Zenon DEF WriteExtended, Reserve, byteVars, rVars, lifeVars, muxVars
<1> QED
    BY <1>3, <1>4, QuietStreams, Zenon

\* WriteExtended's writePacket continues its stream.
LEMMA SendDataStreams ==
    ASSUME FlowInv, FlowInv', StreamInv, NEW p \in Peer, NEW e \in Ext, SendData(p, e)
    PROVE  StreamInv'
<1>0. 0 \in Ext /\ TypeOK /\ TypeOK'
    BY Zenon DEF Ext, FlowInv
<1>1. wpc \in [Peer -> [Ext -> {"idle", "reserve", "wait", "recheck", "send"}]]
    BY <1>0, Zenon DEF TypeOK
<1>2. UNCHANGED <<rcvd, rd, eofSeen, sentEOF, sentClose, bufClosed, inList, closes, err,
                  connUp>>
    BY Zenon DEF SendData, rVars, lifeVars, muxVars
<1>3. \A r \in Peer : sentEOF[r] => wpc[r][0] = "idle"
    BY Zenon DEF StreamInv, EndInv, WriterDone
<1>4. e = 0 => ~sentEOF[p]
    BY <1>3, Zenon DEF SendData
<1>5. ASSUME NEW r \in Peer, sentEOF[r] PROVE wpc'[r][0] = "idle"
  <2>1. wpc[r][0] = "idle" /\ ~(r = p /\ e = 0)
    BY <1>3, <1>4, <1>5, Zenon
  <2>2. \E to \in {"idle", "reserve"} : wpc' = [wpc EXCEPT ![p][e] = to]
    BY Zenon DEF SendData
  <2> QED
    BY <1>0, <1>1, <2>1, <2>2
<1>6. EndInv'
    BY <1>2, <1>5, EndKept, Zenon DEF StreamInv
<1>7. CASE wire' = wire /\ sent' = sent
    BY <1>2, <1>6, <1>7, WireKept, Zenon DEF StreamInv
<1>8. CASE ~sentClose[p] /\ connUp /\ ~(wire' = wire /\ sent' = sent)
  <2> DEFINE hi == sent[p][e] + wgot[p][e]
             pkt == DataPkt(e, sent[p][e], hi)
  <2>1. /\ wire' = [wire EXCEPT ![p] = Append(@, pkt)]
        /\ sent' = [sent EXCEPT ![p][e] = hi]
    BY <1>8, Zenon DEF SendData, WritePacket
  <2>2. sent[p][e] \in Nat /\ hi \in Nat
    BY <1>0, Counters
  <2> HIDE DEF hi
  <2>3. /\ pkt \in Packet /\ pkt.type = "data" /\ pkt.ext = e
        /\ pkt.lo = sent[p][e] /\ pkt.hi = hi
    BY <2>2, Zenon DEF DataPkt, Packet
  <2> HIDE DEF pkt
  <2>4. sent \in [Peer -> [Ext -> Nat]] /\ sent' \in [Peer -> [Ext -> Nat]]
    BY <1>0, Zenon DEF TypeOK
  <2>5. \A r \in Peer : r # p => sent'[r] = sent[r]
    BY <2>1, <2>4, Zenon
  <2>6. sent'[p][e] = hi /\ \A d \in Ext : d # e => sent'[p][d] = sent[p][d]
    BY <2>1, <2>4, Zenon
  <2>7. ASSUME NEW d \in Ext
        PROVE  IF IsData(pkt, d) THEN pkt.lo = sent[p][d] /\ pkt.hi = sent'[p][d]
                                 ELSE sent'[p][d] = sent[p][d]
    BY <2>3, <2>6, Zenon DEF IsData
  <2>8. IsData(pkt, 0) => ~sentEOF'[p]
    BY <1>2, <1>4, <2>3, Zenon DEF IsData
  <2>9. WireInv'
    BY <1>0, <1>2, <1>8, <2>1, <2>3, <2>4, <2>5, <2>7, <2>8, WireAppended, Zenon
       DEF StreamInv
  <2> QED
    BY <1>6, <2>9, Zenon DEF StreamInv
<1> QED
    BY <1>7, <1>8, Zenon DEF SendData, WritePacket

\* buffer.Read reports the end when it has nothing left, and after that gives nothing.
LEMMA BufferReadStreams ==
    ASSUME FlowInv, StreamInv, NEW p \in Peer, NEW e \in Ext, BufferRead(p, e)
    PROVE  StreamInv'
<1>0. 0 \in Ext /\ TypeOK
    BY Zenon DEF Ext, FlowInv
<1>1. UNCHANGED <<wire, sent, rcvd, wpc, sentEOF, sentClose, bufClosed, inList, closes,
                  err, connUp>>
    BY Zenon DEF BufferRead, wVars, lifeVars, muxVars
<1>2. WireInv'
    BY <1>1, WireKept, Zenon DEF StreamInv
<1>3. \A r \in Peer : WriterDone(r)'
    BY <1>1, Zenon DEF StreamInv, EndInv, WriterDone
<1>4. ASSUME NEW r \in Peer PROVE AllRead(r)'
  <2>0. AllRead(r)
    BY Zenon DEF StreamInv, EndInv
  <2>1. rd \in [Peer -> [Ext -> Nat]] /\ eofSeen \in [Peer -> [Ext -> BOOLEAN]]
    BY <1>0, Zenon DEF TypeOK
  <2>2. CASE ~(r = p /\ e = 0)
    <3>1. rd'[r][0] = rd[r][0]
      <4>1. rd' = rd \/ \E n : rd' = [rd EXCEPT ![p][e] = n]
        BY Zenon DEF BufferRead
      <4> QED
        BY <1>0, <2>1, <2>2, <4>1
    <3>2. eofSeen'[r][0] = eofSeen[r][0]
      <4>1. eofSeen' = eofSeen \/ eofSeen' = [eofSeen EXCEPT ![p][e] = TRUE]
        BY Zenon DEF BufferRead
      <4> QED
        BY <1>0, <2>1, <2>2, <4>1
    <3> QED
        BY <1>1, <2>0, <3>1, <3>2, Zenon DEF AllRead
  <2>3. CASE r = p /\ e = 0
    <3>1. CASE \E n \in 1..(rcvd[p][e] - rd[p][e]) : TRUE
      <4>1. rcvd[p][e] # rd[p][e]
        <5>1. rcvd[p][e] \in Nat /\ rd[p][e] \in Nat
            BY <1>0, Counters, Zenon
        <5> QED
            BY <3>1, <5>1
      <4>2. eofSeen' = eofSeen
        BY <4>1, Zenon DEF BufferRead
      <4>3. eofSeen[r][0] => bufClosed[r] /\ ~connUp
        BY <2>0, <2>3, <4>1, Zenon DEF AllRead
      <4> QED
        BY <1>1, <4>2, <4>3, Zenon DEF AllRead
    <3>2. CASE ~\E n \in 1..(rcvd[p][e] - rd[p][e]) : TRUE
      <4>1. \/ eofSeen' = eofSeen /\ rd' = rd
            \/ rcvd[p][e] = rd[p][e] /\ bufClosed[p] /\ rd' = rd
        BY <3>2, Zenon DEF BufferRead
      <4> QED
        BY <1>1, <2>0, <2>3, <4>1, Zenon DEF AllRead
    <3> QED
        BY <3>1, <3>2, Zenon
  <2> QED
    BY <2>2, <2>3, Zenon
<1> QED
    BY <1>2, <1>3, <1>4, Zenon DEF StreamInv, EndInv

\* The other steps of a reader, up to the window it announces.
LEMMA ReaderStreams ==
    ASSUME FlowInv, StreamInv, NEW p \in Peer, NEW e \in Ext,
           \/ ReadExtended(p, e) \/ AdjustWindow(p, e) \/ AnnounceWindow(p, e)
    PROVE  StreamInv'
<1>0. TypeOK
    BY Zenon DEF FlowInv
<1>1. UNCHANGED <<sent, rcvd, rd, wpc, eofSeen, sentEOF, sentClose, bufClosed, inList,
                  closes, err, connUp>>
    BY Zenon DEF ReadExtended, AdjustWindow, AnnounceWindow, byteVars, wVars, lifeVars,
       muxVars
<1>2. EndInv'
    BY <1>1, EndKept, Zenon DEF StreamInv, EndInv, WriterDone
<1>3. CASE wire' = wire
    BY <1>1, <1>2, <1>3, WireKept, Zenon DEF StreamInv
<1>4. CASE ~sentClose[p] /\ connUp /\ AnnounceWindow(p, e)
  <2> DEFINE hi == granted[p] + rgot[p][e]
             pkt == AdjustPkt(granted[p], hi)
  <2>1. wire' = [wire EXCEPT ![p] = Append(@, pkt)]
    BY <1>4, Zenon DEF AnnounceWindow, WritePacket
  <2>2. granted[p] \in Nat /\ hi \in Nat
    BY <1>0, Counters
  <2> HIDE DEF hi
  <2>3. pkt \in Packet /\ pkt.type = "adjust" /\ \A d \in Ext : ~IsData(pkt, d)
    BY <2>2, Zenon DEF AdjustPkt, Packet, Ext, IsData
  <2>4. 0 \in Ext /\ sent' \in [Peer -> [Ext -> Nat]]
    BY <1>0, <1>1, Zenon DEF TypeOK, Ext
  <2> HIDE DEF pkt
  <2>5. WireInv'
    BY <1>0, <1>1, <1>4, <2>1, <2>3, <2>4, WireAppended, Zenon DEF StreamInv
  <2> QED
    BY <1>2, <2>5, Zenon DEF StreamInv
<1> QED
    BY <1>3, <1>4, Zenon DEF ReadExtended, AdjustWindow, AnnounceWindow

\* CloseWrite comes after the last data of the main stream, the close of Close after
\* everything.
LEMMA CloseStreams ==
    ASSUME FlowInv, StreamInv, NEW p \in Peer, CloseWrite(p) \/ SendClose(p)
    PROVE  StreamInv'
<1>0. TypeOK /\ 0 \in Ext
    BY Zenon DEF FlowInv, Ext
<1>1. UNCHANGED <<sent, rcvd, rd, wpc, eofSeen, bufClosed, inList, closes, err, connUp>>
    BY Zenon DEF CloseWrite, SendClose, byteVars, wVars, rVars, muxVars
<1>2. /\ sentEOF \in [Peer -> BOOLEAN] /\ sentClose \in [Peer -> BOOLEAN]
      /\ \A r \in Peer : sentEOF[r] => wpc[r][0] = "idle"
    BY <1>0, Zenon DEF TypeOK, StreamInv, EndInv, WriterDone
<1>3. \A r \in Peer : (sentClose[r] => sentClose'[r]) /\ (sentEOF[r] => sentEOF'[r])
    BY <1>2, Zenon DEF CloseWrite, SendClose
<1>4. \A r \in Peer : sentEOF'[r] => wpc'[r][0] = "idle"
  <2> SUFFICES ASSUME NEW r \in Peer, sentEOF'[r] PROVE wpc[r][0] = "idle"
    BY <1>1, Zenon
  <2>1. CASE sentEOF[r]
    BY <1>2, <2>1, Zenon
  <2>2. CASE ~sentEOF[r]
    <3>1. r = p /\ CloseWrite(p)
        BY <1>2, <2>2, Zenon DEF CloseWrite, SendClose
    <3> QED
        BY <3>1, Zenon DEF CloseWrite
  <2> QED
    BY <2>1, <2>2, Zenon
<1>5. EndInv'
    BY <1>1, <1>4, EndKept, Zenon DEF StreamInv
<1>6. CASE wire' = wire
    BY <1>1, <1>3, <1>5, <1>6, WireKept, Zenon DEF StreamInv
<1>7. ASSUME NEW pkt \in {EofPkt, ClosePkt}, wire' = [wire EXCEPT ![p] = Append(@, pkt)],
             ~sentClose[p], pkt.type = "close" => sentClose'[p],
             pkt.type = "eof" => sentEOF'[p]
      PROVE  StreamInv'
  <2>1. pkt \in Packet /\ \A d \in Ext : ~IsData(pkt, d)
    <3>1. CASE pkt = EofPkt
        BY <3>1, Zenon DEF EofPkt, Packet, Ext, IsData
    <3>2. CASE pkt = ClosePkt
        BY <3>2, Zenon DEF ClosePkt, Packet, Ext, IsData
    <3> QED
        BY <1>7, <3>1, <3>2, Zenon
  <2>2. sent' \in [Peer -> [Ext -> Nat]]
    BY <1>0, <1>1, Zenon DEF TypeOK
  <2>3. WireInv'
    BY <1>0, <1>1, <1>3, <1>7, <2>1, <2>2, WireAppended, Zenon DEF StreamInv
  <2> QED
    BY <1>5, <2>3, Zenon DEF StreamInv
<1>8. EofPkt.type = "eof" /\ ClosePkt.type = "close"
    BY Zenon DEF EofPkt, ClosePkt
<1>9. CASE CloseWrite(p) /\ wire' # wire
  <2>1. sentEOF'[p]
    BY <1>2, <1>9, Zenon DEF CloseWrite
  <2>2. ~sentClose[p] /\ wire' = [wire EXCEPT ![p] = Append(@, EofPkt)]
    BY <1>9, Zenon DEF CloseWrite, WritePacket
  <2> QED
    BY <1>7, <1>8, <2>1, <2>2, Zenon
<1>10. CASE SendClose(p) /\ wire' # wire
  <2>1. sentClose'[p]
    BY <1>2, <1>10, Zenon DEF SendClose
  <2>2. ~sentClose[p] /\ wire' = [wire EXCEPT ![p] = Append(@, ClosePkt)]
    BY <1>10, Zenon DEF SendClose, WritePacket
  <2> QED
    BY <1>7, <1>8, <2>1, <2>2, Zenon
<1> QED
    BY <1>6, <1>9, <1>10, Zenon

\* onePacket: the channel is still listed, and each packet is handled as its sender meant.
LEMMA OnePacketStreams ==
    ASSUME FlowInv, FlowInv', StreamInv, NEW p \in Peer, OnePacket(p)
    PROVE  StreamInv'
<1> DEFINE q == Other(p)
           pkt == Head(wire[q])
           answer == pkt.type = "close" /\ inList[p] /\ ~sentClose[p] /\ connUp
<1>0. TypeOK /\ TypeOK' /\ 0 \in Ext /\ q \in Peer /\ q # p /\ wire[q] # <<>>
    BY PeerFacts, Zenon DEF FlowInv, Ext, OnePacket
<1>1. /\ wire' = [wire EXCEPT ![q] = Tail(@),
                              ![p] = IF answer THEN Append(@, ClosePkt) ELSE @]
      /\ answer \in BOOLEAN /\ (answer => pkt.type = "close" /\ ~sentClose[p])
    BY Zenon DEF OnePacket
<1>2. inList[p]
  <2>1. err[p] = "none"
    BY Zenon DEF OnePacket
  <2> QED
    BY <1>0, <2>1, Zenon DEF StreamInv, WireInv, Left
<1>3. pkt \in Packet
  <2>1. wire[q] \in Seq(Packet)
    BY <1>0, Zenon DEF TypeOK
  <2> QED
    BY <1>0, <2>1
<1>4. ASSUME NEW e \in {"payload", "too much", "bad window"} PROVE ~LoopExit(p, e)
  <2>1. err \in [Peer -> {"none", "payload", "too much", "bad window",
                          "invalid channel", "lost", "timed out"}]
    BY <1>0, Zenon DEF TypeOK
  <2>2. err'[p] # e
    BY <1>4, Zenon DEF FlowInv, FlowControlRespected
  <2> QED
    BY <2>1, <2>2, Zenon DEF LoopExit
<1>5. \/ /\ pkt.type = "data"
         /\ rcvd' = [rcvd EXCEPT ![p][pkt.ext] = @ + (pkt.hi - pkt.lo)]
         /\ UNCHANGED <<sent, rd, wpc, eofSeen, lifeVars, muxVars>>
      \/ /\ pkt.type = "adjust"
         /\ wpc' = [wpc EXCEPT ![p] = WakeWriters(p, {})]
         /\ UNCHANGED <<sent, rcvd, rd, eofSeen, lifeVars, muxVars>>
      \/ HandleEOF(p, pkt)
      \/ HandleClose(p, pkt)
  <2>1. HandleData(p, pkt) \/ HandleAdjust(p, pkt) \/ HandleEOF(p, pkt) \/ HandleClose(p, pkt)
    BY <1>2, Zenon DEF OnePacket
  <2> HIDE DEF pkt
  <2>2. CASE HandleData(p, pkt)
    BY <1>4, <2>2, Zenon DEF HandleData, wVars
  <2>3. CASE HandleAdjust(p, pkt)
    BY <1>4, <2>3, Zenon DEF HandleAdjust, rVars
  <2> QED
    BY <2>1, <2>2, <2>3, Zenon
<1> HIDE DEF answer, pkt, q
<1>6. UNCHANGED <<sent, rd, eofSeen, err, connUp, sentEOF>>
    BY <1>5, Zenon DEF HandleEOF, HandleClose, ForceClose, byteVars, lifeVars, muxVars
<1>7. rcvd' \in [Peer -> [Ext -> Nat]] /\ rcvd \in [Peer -> [Ext -> Nat]]
    BY <1>0, Zenon DEF TypeOK
<1>8. /\ rcvd'[q] = rcvd[q]
      /\ \A e \in Ext : IF IsData(pkt, e) THEN rcvd'[p][e] = rcvd[p][e] + (pkt.hi - pkt.lo)
                                          ELSE rcvd'[p][e] = rcvd[p][e]
  <2>1. CASE rcvd' = rcvd /\ pkt.type # "data"
    BY <2>1, Zenon DEF IsData
  <2>2. CASE /\ pkt.type = "data"
             /\ rcvd' = [rcvd EXCEPT ![p][pkt.ext] = @ + (pkt.hi - pkt.lo)]
    <3>1. pkt.ext \in Ext
        BY <1>3, Zenon DEF Packet
    <3>2. rcvd'[p] = [rcvd[p] EXCEPT ![pkt.ext] = rcvd[p][pkt.ext] + (pkt.hi - pkt.lo)]
        BY <1>7, <2>2, Zenon
    <3>3. rcvd'[q] = rcvd[q]
        BY <1>0, <1>7, <2>2, Zenon
    <3>4. rcvd[p] \in [Ext -> Nat]
        BY <1>7, Zenon
    <3>5. \A e \in Ext : IsData(pkt, e) <=> e = pkt.ext
        BY <2>2, Zenon DEF IsData
    <3>6. /\ rcvd'[p][pkt.ext] = rcvd[p][pkt.ext] + (pkt.hi - pkt.lo)
          /\ \A e \in Ext : e # pkt.ext => rcvd'[p][e] = rcvd[p][e]
        BY <3>1, <3>2, <3>4, Zenon
    <3> QED
        BY <3>3, <3>5, <3>6, Zenon
  <2> QED
    BY <1>5, <2>1, <2>2, Zenon DEF HandleEOF, HandleClose, byteVars
<1>9. /\ sentClose \in [Peer -> BOOLEAN] /\ bufClosed \in [Peer -> BOOLEAN]
      /\ inList \in [Peer -> BOOLEAN] /\ closes \in [Peer -> Nat]
    BY <1>0, Zenon DEF TypeOK
<1>10. IF pkt.type = "close"
       THEN /\ inList[p] /\ sentClose'[p] /\ sentClose'[q] = sentClose[q]
            /\ inList'[p] = FALSE /\ closes'[p] = closes[p] + 1
            /\ inList'[q] = inList[q] /\ closes'[q] = closes[q]
       ELSE UNCHANGED <<sentClose, inList, closes>>
  <2>1. CASE pkt.type = "close"
    <3>1. ForceClose(p)
        BY <1>5, <2>1, Zenon DEF HandleEOF, HandleClose
    <3>2. sentClose'[p] /\ sentClose'[q] = sentClose[q]
        BY <1>0, <1>9, <3>1, Zenon DEF ForceClose
    <3>3. inList'[p] = FALSE /\ inList'[q] = inList[q]
        BY <1>0, <1>9, <3>1, Zenon DEF ForceClose
    <3>4. closes'[p] = closes[p] + 1 /\ closes'[q] = closes[q]
        BY <1>0, <1>9, <3>1, Zenon DEF ForceClose
    <3> QED
        BY <1>2, <2>1, <3>2, <3>3, <3>4, Zenon
  <2>2. CASE pkt.type # "close"
    BY <1>5, <2>2, Zenon DEF HandleEOF, HandleClose, lifeVars
  <2> QED
    BY <2>1, <2>2, Zenon
<1>11. /\ bufClosed'[q] = bufClosed[q]
       /\ bufClosed'[p] => bufClosed[p] \/ pkt.type \in {"eof", "close"}
       /\ \A r \in Peer : bufClosed[r] => bufClosed'[r]
    BY <1>0, <1>5, <1>9, Zenon DEF HandleEOF, HandleClose, ForceClose, lifeVars
<1>12. WireInv'
  <2>1. UNCHANGED <<sent, err, connUp, sentEOF>>
    BY <1>6, Zenon
  <2>2. Takes(p, answer)
    BY <1>0, <1>1, <1>7, <1>8, <1>10, <1>11, <2>1, Zenon DEF Takes, q, pkt
  <2> QED
    BY <1>0, <1>1, <2>2, WireTaken, Zenon DEF StreamInv
<1>13. ASSUME NEW r \in Peer PROVE WriterDone(r)'
  <2>1. sentEOF[r] => wpc[r][0] = "idle"
    BY Zenon DEF StreamInv, EndInv, WriterDone
  <2>2. wpc' = wpc \/ wpc' = [wpc EXCEPT ![p] = WakeWriters(p, {})]
    BY <1>5, Zenon DEF HandleEOF, HandleClose, ForceClose, wVars
  <2>3. wpc[r][0] = "idle" => wpc'[r][0] = "idle"
    BY <1>0, <2>2, WokenIdle, Zenon
  <2> QED
    BY <1>6, <2>1, <2>3, Zenon DEF WriterDone
<1>14. ASSUME NEW r \in Peer PROVE AllRead(r)'
  <2>1. AllRead(r)
    BY Zenon DEF StreamInv, EndInv
  <2>2. CASE r = q
    BY <1>6, <1>8, <1>11, <2>1, <2>2, Zenon DEF AllRead
  <2>3. CASE r = p
    <3>1. bufClosed[p] /\ connUp => NoMain(wire[q])
        BY Zenon DEF StreamInv, WireInv, AllArrived, q
    <3>2. NoMain(wire[q]) => ~IsData(pkt, 0)
      <4>1. CloseLast(wire[q], sentClose[q]) /\ EofLast(wire[q], sentEOF[q])
        BY <1>0, Zenon DEF StreamInv, WireInv, Outgoing
      <4>2. wire[q] \in Seq(Packet)
        BY <1>0, Zenon DEF TypeOK
      <4> QED
        BY <1>0, <4>1, <4>2, TailOrder, Zenon DEF pkt
    <3>3. bufClosed[p] /\ connUp => rcvd'[p][0] = rcvd[p][0]
        BY <1>0, <1>8, <3>1, <3>2, Zenon
    <3> QED
        BY <1>6, <1>11, <2>1, <2>3, <3>3, Zenon DEF AllRead
  <2> QED
    BY <2>2, <2>3, PeerFacts, Zenon DEF q
<1> QED
    BY <1>12, <1>13, <1>14, Zenon DEF StreamInv, EndInv

\* The end of mux.loop: the connection is gone, and close() runs if it has not yet.
LEMMA LoopFailsStreams ==
    ASSUME FlowInv, StreamInv, NEW p \in Peer, LoopFails(p)
    PROVE  StreamInv'
<1> DEFINE q == Other(p)
<1>0. TypeOK /\ 0 \in Ext /\ q \in Peer /\ q # p /\ \A r \in Peer : r = p \/ r = q
    BY PeerFacts, Zenon DEF FlowInv, Ext
<1>1. /\ UNCHANGED <<wire, sent, rcvd, rd, eofSeen>> /\ ~connUp'
      /\ err' = [err EXCEPT ![p] = "lost"]
    BY Zenon DEF LoopFails, LoopExit, byteVars
<1>2. /\ sentClose \in [Peer -> BOOLEAN] /\ bufClosed \in [Peer -> BOOLEAN]
      /\ inList \in [Peer -> BOOLEAN] /\ closes \in [Peer -> Nat]
    BY <1>0, Zenon DEF TypeOK
<1> HIDE DEF q
<1>3. err'[q] = err[q] /\ err'[p] = "lost"
  <2>1. err \in [Peer -> {"none", "payload", "too much", "bad window",
                          "invalid channel", "lost", "timed out"}]
    BY <1>0, Zenon DEF TypeOK
  <2> QED
    BY <1>0, <1>1, <2>1, Zenon
<1>4. /\ UNCHANGED sentEOF
      /\ \A r \in Peer : /\ sentClose[r] => sentClose'[r]
                         /\ bufClosed[r] => bufClosed'[r]
      /\ inList'[q] = inList[q] /\ closes'[q] = closes[q]
      /\ closes'[p] = 1 /\ inList'[p] = FALSE
  <2>1. closes[p] = IF inList[p] THEN 0 ELSE 1
    BY Zenon DEF StreamInv, WireInv, Left
  <2>2. CASE inList[p]
    <3>1. ForceClose(p)
        BY <2>2, Zenon DEF LoopFails, LoopExit
    <3>2. /\ UNCHANGED sentEOF
          /\ \A r \in Peer : /\ sentClose[r] => sentClose'[r]
                             /\ bufClosed[r] => bufClosed'[r]
        BY <1>2, <3>1, Zenon DEF ForceClose
    <3>3. inList'[q] = inList[q] /\ inList'[p] = FALSE
        BY <1>0, <1>2, <3>1, Zenon DEF ForceClose
    <3>4. closes'[q] = closes[q] /\ closes'[p] = closes[p] + 1
        BY <1>0, <1>2, <3>1, Zenon DEF ForceClose
    <3>5. closes'[p] = 1
        BY <2>1, <2>2, <3>4
    <3> QED
        BY <3>2, <3>3, <3>4, <3>5, Zenon
  <2>3. CASE ~inList[p]
    <3>1. UNCHANGED <<sentEOF, sentClose, bufClosed, inList, closes>>
        BY <2>3, Zenon DEF LoopFails, LoopExit, lifeVars
    <3> QED
        BY <1>2, <2>1, <2>3, <3>1, Zenon
  <2> QED
    BY <2>2, <2>3, Zenon
<1>5. ASSUME NEW r \in Peer PROVE (Outgoing(r) /\ AllArrived(r))'
  <2>1. Outgoing(r)
    BY Zenon DEF StreamInv, WireInv
  <2>2. CloseLast(wire[r], sentClose'[r])
    BY <1>4, <2>1, Zenon DEF Outgoing, CloseLast
  <2>3. \A e \in Ext : Unbroken(r, e)'
    BY <1>1, <2>1, Zenon DEF Outgoing, Unbroken
  <2> QED
    BY <1>1, <1>4, <2>1, <2>2, <2>3, Zenon DEF Outgoing, AllArrived
<1>6. Left(p)'
    BY <1>3, <1>4, Zenon DEF Left
<1>7. Left(q)'
  <2>1. Left(q) /\ Other(q) \in Peer
    BY <1>0, PeerFacts, Zenon DEF StreamInv, WireInv
  <2> QED
    BY <1>1, <1>3, <1>4, <2>1, Zenon DEF Left
<1>8. WireInv'
    BY <1>0, <1>5, <1>6, <1>7, Zenon DEF WireInv
<1>9. ASSUME NEW r \in Peer PROVE WriterDone(r)'
  <2>1. sentEOF[r] => wpc[r][0] = "idle"
    BY Zenon DEF StreamInv, EndInv, WriterDone
  <2>2. wpc' = wpc \/ wpc' = [wpc EXCEPT ![p] = WakeWriters(p, {})]
    BY Zenon DEF LoopFails, LoopExit, ForceClose
  <2>3. wpc[r][0] = "idle" => wpc'[r][0] = "idle"
    BY <1>0, <2>2, WokenIdle, Zenon
  <2> QED
    BY <1>4, <2>1, <2>3, Zenon DEF WriterDone
<1>10. ASSUME NEW r \in Peer PROVE AllRead(r)'
    BY <1>1, <1>4, Zenon DEF AllRead, StreamInv, EndInv
<1> QED
    BY <1>8, <1>9, <1>10, Zenon DEF StreamInv, EndInv

\* A mux.loop that spins has handled its last packet, and has closed nothing.
LEMMA LoopSpinsStreams ==
    ASSUME FlowInv, StreamInv, NEW p \in Peer, LoopSpins(p)
    PROVE  StreamInv'
<1>0. TypeOK /\ 0 \in Ext
    BY Zenon DEF FlowInv, Ext
<1>1. /\ UNCHANGED <<wire, sent, rcvd, rd, wpc, eofSeen, sentEOF, sentClose, bufClosed,
                     inList, closes, connUp>>
      /\ err' = [err EXCEPT ![p] = "timed out"]
    BY Zenon DEF LoopSpins, byteVars, wVars, rVars, lifeVars
<1>2. \A r \in Peer : /\ err[r] # "none" => err'[r] # "none"
                      /\ err[r] # "invalid channel" => err'[r] # "invalid channel"
  <2>1. err \in [Peer -> {"none", "payload", "too much", "bad window",
                          "invalid channel", "lost", "timed out"}]
    BY <1>0, Zenon DEF TypeOK
  <2> QED
    BY <1>1, <2>1, Zenon
<1>3. ASSUME NEW r \in Peer PROVE (Outgoing(r) /\ AllArrived(r))'
  <2>1. Outgoing(r) /\ AllArrived(r)
    BY Zenon DEF StreamInv, WireInv
  <2>2. \A e \in Ext : Unbroken(r, e)'
    BY <1>1, <2>1, Zenon DEF Outgoing, Unbroken
  <2> QED
    BY <1>1, <2>1, <2>2, Zenon DEF Outgoing, AllArrived
<1>4. ASSUME NEW r \in Peer PROVE Left(r)'
  <2>1. Left(r)
    BY Zenon DEF StreamInv, WireInv
  <2> QED
    BY <1>1, <1>2, <2>1, Zenon DEF Left
<1>5. ASSUME NEW r \in Peer PROVE (WriterDone(r) /\ AllRead(r))'
  <2>1. WriterDone(r) /\ AllRead(r)
    BY Zenon DEF StreamInv, EndInv
  <2> QED
    BY <1>1, <2>1, Zenon DEF WriterDone, AllRead
<1> QED
    BY <1>3, <1>4, <1>5, Zenon DEF StreamInv, WireInv, EndInv

-----------------------------------------------------------------------------
(* The theorems *)

\* A channel just opened has nothing on the wire.
LEMMA InitStreams == Init => StreamInv
<1> SUFFICES ASSUME Init PROVE StreamInv
    BY Zenon
<1> SUFFICES ASSUME NEW p \in Peer
             PROVE  Outgoing(p) /\ Left(p) /\ AllArrived(p) /\ WriterDone(p) /\ AllRead(p)
    BY Zenon DEF StreamInv, WireInv, EndInv
<1>0. 0 \in Ext /\ Other(p) \in Peer
    BY PeerFacts, Zenon DEF Ext
<1>1. wire[p] = <<>> /\ 1..Len(wire[p]) = {}
    BY DEF Init
<1>2. \A e \in Ext : rcvd[Other(p)][e] = sent[p][e]
    BY <1>0, Zenon DEF Init
<1>3. Outgoing(p)
    BY <1>1, <1>2, Zenon DEF Outgoing, Unbroken, Contiguous, CloseLast, EofLast
<1>4. Left(p) /\ AllArrived(p) /\ WriterDone(p) /\ AllRead(p)
    BY <1>0, Zenon DEF Init, Left, AllArrived, WriterDone, AllRead
<1> QED
    BY <1>3, <1>4, Zenon

\* Every step of the channel keeps its streams in order.
LEMMA StepStreams == FlowInv /\ FlowInv' /\ StreamInv /\ [Next]_vars => StreamInv'
<1> SUFFICES ASSUME FlowInv, FlowInv', StreamInv, [Next]_vars PROVE StreamInv'
    BY Zenon
<1>0. TypeOK
    BY Zenon DEF FlowInv
<1>1. ASSUME NEW p \in Peer, NEW e \in Ext,
             (\E n \in 1..MaxBytes[p][e] : WriteExtended(p, e, n)) \/ Writer(p, e)
      PROVE  StreamInv'
    BY <1>0, <1>1, WriterQuiet, SendDataStreams, Zenon DEF Writer
<1>2. ASSUME NEW p \in Peer, NEW e \in Ext, ReadExtended(p, e) \/ Reader(p, e)
      PROVE  StreamInv'
    BY <1>2, ReaderStreams, BufferReadStreams, Zenon DEF Reader
<1>3. \A r \in Peer : sentEOF[r] => wpc[r][0] = "idle"
    BY Zenon DEF StreamInv, EndInv, WriterDone
<1>4. ASSUME NEW p \in Peer, CloseChannel(p) \/ StopIdle(p)
      PROVE  StreamInv'
  <2>1. UNCHANGED <<wire, sent, rcvd, rd, wpc, eofSeen, sentEOF, sentClose, bufClosed,
                    inList, closes, err, connUp>>
    BY <1>4, Zenon DEF CloseChannel, StopIdle, byteVars, wVars, rVars, muxVars
  <2> QED
    BY <1>3, <2>1, QuietStreams, Zenon
<1>5. ASSUME NEW p \in Peer, CloseWrite(p) \/ CloseChannel(p) \/ SendClose(p) \/ MuxLoop(p)
      PROVE  StreamInv'
    BY <1>4, <1>5, CloseStreams, OnePacketStreams, LoopSpinsStreams, LoopFailsStreams, Zenon
       DEF MuxLoop
<1>6. ASSUME ConnLost \/ UNCHANGED vars
      PROVE  StreamInv'
  <2>1. /\ UNCHANGED <<wire, sent, rcvd, rd, wpc, eofSeen, sentEOF, sentClose, bufClosed,
                       inList, closes, err>>
        /\ connUp' => connUp
    <3>1. CASE ConnLost
        BY <3>1, Zenon DEF ConnLost, byteVars, wVars, rVars, lifeVars
    <3>2. CASE UNCHANGED vars
        BY <3>2, Zenon DEF vars, byteVars, wVars, rVars, lifeVars, muxVars
    <3> QED
        BY <1>6, <3>1, <3>2, Zenon
  <2> QED
    BY <1>3, <2>1, QuietStreams, Zenon
<1> QED
    BY <1>1, <1>2, <1>5, <1>6, Zenon DEF Next

\* The inductive invariant of the streams, on top of the ledger.
LEMMA StreamsHold == Spec => []StreamInv
<1>1. Init => StreamInv
    BY InitStreams, Zenon
<1>2. FlowInv /\ FlowInv' /\ StreamInv /\ [Next]_vars => StreamInv'
    BY StepStreams, Zenon
<1> QED
    BY <1>1, <1>2, LedgerHolds, PTL DEF Spec

\* Where the buffer of p is closed and the connection stands, p has all the bytes of the
\* main stream.
LEMMA EndIsAll ==
    ASSUME StreamInv, NEW p \in Peer, bufClosed[p], connUp
    PROVE  rcvd[p][0] = sent[Other(p)][0]
<1>0. 0 \in Ext /\ Other(p) \in Peer /\ Other(Other(p)) = p
    BY PeerFacts, Zenon DEF Ext
<1>1. NoMain(wire[Other(p)])
    BY Zenon DEF StreamInv, WireInv, AllArrived
<1>2. Contiguous(wire[Other(p)], "data", 0, rcvd[p][0], sent[Other(p)][0])
    BY <1>0, Zenon DEF StreamInv, WireInv, Outgoing, Unbroken
<1> QED
    BY <1>1, <1>2, DataCarries, Zenon DEF Contiguous, NoMain

\* For every window, packet size and amount of data: the bytes of either stream arrive in
\* order and without gaps, and io.EOF on the main stream comes after all of them.
THEOREM StreamsAreIntact == Spec => []StreamsIntact
<1>1. StreamInv => StreamsIntact
  <2> SUFFICES ASSUME StreamInv PROVE StreamsIntact
    BY Zenon
  <2>1. InOrder
    BY DataCarries, Zenon DEF StreamInv, WireInv, Outgoing, Unbroken, Contiguous, InOrder
  <2>2. EofMeansAll
    BY EndIsAll, Zenon DEF StreamInv, EndInv, AllRead, EofMeansAll
  <2> QED
    BY <2>1, <2>2, Zenon DEF StreamsIntact
<1> QED
    BY <1>1, StreamsHold, PTL

\* However the closes of both ends cross, no packet comes for a channel that has left the
\* list, and channel.close() runs at most once.
THEOREM ClosesAreClean == Spec => []ClosesClean
<1>1. StreamInv => ClosesClean
  <2> SUFFICES ASSUME StreamInv, NEW p \in Peer
               PROVE  err[p] # "invalid channel" /\ closes[p] <= 1
    BY Zenon DEF ClosesClean, NeverInvalidChannel, ClosedOnce
  <2>1. err[p] # "invalid channel" /\ (closes[p] = 0 \/ closes[p] = 1)
    BY Zenon DEF StreamInv, WireInv, Left
  <2>2. \A n : n = 0 \/ n = 1 => n <= 1
    OBVIOUS
  <2> QED
    BY <2>1, <2>2, Zenon
<1> QED
    BY <1>1, StreamsHold, PTL

-----------------------------------------------------------------------------
(* The window is conserved *)

\* While the connection stands and p has sent no close, what p may send, has reserved and
\* has sent is the window and the credit p was given, and p has announced all it has read,
\* but for what its readers have in hand.
Books(p) ==
    connUp /\ ~sentClose[p] =>
        /\ ~winClosed[p]
        /\ remoteWin[p] + Total(wgot[p]) + Total(sent[p]) = WindowSize + credited[p]
        /\ granted[p] + Total(rgot[p]) = Total(rd[p])

\* The credit p announces reaches the other side without gaps.
CreditRuns(p) == Contiguous(wire[p], "adjust", 0, credited[Other(p)], granted[p])

WindowInv == \A p \in Peer : Books(p) /\ CreditRuns(p)

\* A channel or a connection that is closed stays closed.
OnlyCloses(r) ==
    /\ connUp' => connUp
    /\ sentClose[r] => sentClose'[r]
    /\ winClosed'[r] => winClosed[r] \/ sentClose'[r]

\* What the books are about.
SameAccounts(r) ==
    /\ remoteWin'[r] = remoteWin[r] /\ wgot'[r] = wgot[r] /\ sent'[r] = sent[r]
    /\ credited'[r] = credited[r] /\ granted'[r] = granted[r] /\ rgot'[r] = rgot[r]
    /\ rd'[r] = rd[r]

\* Bytes move from one account to another.
Moved(r) ==
    /\ remoteWin'[r] + Total(wgot'[r]) + Total(sent'[r]) + credited[r]
          = remoteWin[r] + Total(wgot[r]) + Total(sent[r]) + credited'[r]
    /\ granted'[r] + Total(rgot'[r]) + Total(rd[r])
          = granted[r] + Total(rgot[r]) + Total(rd'[r])

\* The books of a peer a step leaves alone.
LEMMA BooksKept ==
    ASSUME NEW r \in Peer, Books(r), OnlyCloses(r), SameAccounts(r)
    PROVE  Books(r)'
BY Zenon DEF Books, OnlyCloses, SameAccounts

\* The sum over both streams is a number.
LEMMA TotalNat == ASSUME NEW f \in [Ext -> Nat] PROVE Total(f) \in Nat
<1>1. f[0] \in Nat /\ f[1] \in Nat
    BY Zenon DEF Ext
<1> QED
    BY <1>1 DEF Total

\* The books of a peer that moves bytes.
LEMMA BooksMoved ==
    ASSUME TypeOK, TypeOK', NEW r \in Peer, Books(r), OnlyCloses(r),
           connUp' /\ ~sentClose'[r] => Moved(r)
    PROVE  Books(r)'
<1> SUFFICES ASSUME connUp', ~sentClose'[r]
             PROVE  /\ ~winClosed'[r]
                    /\ remoteWin'[r] + Total(wgot'[r]) + Total(sent'[r])
                          = WindowSize + credited'[r]
                    /\ granted'[r] + Total(rgot'[r]) = Total(rd'[r])
    BY Zenon DEF Books
<1>1. /\ Moved(r) /\ ~winClosed'[r]
      /\ remoteWin[r] + Total(wgot[r]) + Total(sent[r]) = WindowSize + credited[r]
      /\ granted[r] + Total(rgot[r]) = Total(rd[r])
    BY Zenon DEF Books, OnlyCloses
<1>2. /\ remoteWin[r] \in Nat /\ credited[r] \in Nat /\ granted[r] \in Nat
      /\ WindowSize \in Nat
    BY Counters, Zenon
<1>3. remoteWin'[r] \in Nat /\ credited'[r] \in Nat /\ granted'[r] \in Nat
  <2>1. /\ remoteWin'[r] \in 0..(UintMod - 1) /\ credited'[r] \in Nat
        /\ granted'[r] \in Nat
    BY Zenon DEF TypeOK
  <2> QED
    BY <2>1, SizeAssumption
<1>4. /\ Total(wgot[r]) \in Nat /\ Total(sent[r]) \in Nat /\ Total(rgot[r]) \in Nat
      /\ Total(rd[r]) \in Nat
  <2>1. /\ wgot[r] \in [Ext -> Nat] /\ sent[r] \in [Ext -> Nat]
        /\ rgot[r] \in [Ext -> Nat] /\ rd[r] \in [Ext -> Nat]
    BY Zenon DEF TypeOK
  <2> QED
    BY <2>1, TotalNat, Zenon
<1>5. /\ Total(wgot'[r]) \in Nat /\ Total(sent'[r]) \in Nat /\ Total(rgot'[r]) \in Nat
      /\ Total(rd'[r]) \in Nat
  <2>1. /\ wgot'[r] \in [Ext -> Nat] /\ sent'[r] \in [Ext -> Nat]
        /\ rgot'[r] \in [Ext -> Nat] /\ rd'[r] \in [Ext -> Nat]
    BY Zenon DEF TypeOK
  <2> QED
    BY <2>1, TotalNat, Zenon
<1>6. remoteWin'[r] + Total(wgot'[r]) + Total(sent'[r]) = WindowSize + credited'[r]
  <2>1. remoteWin'[r] + Total(wgot'[r]) + Total(sent'[r]) + credited[r]
           = remoteWin[r] + Total(wgot[r]) + Total(sent[r]) + credited'[r]
    BY <1>1, Zenon DEF Moved
  <2> DEFINE a == remoteWin[r] + Total(wgot[r]) + Total(sent[r])
             b == remoteWin'[r] + Total(wgot'[r]) + Total(sent'[r])
  <2>4. a = WindowSize + credited[r]
    BY <1>1, Zenon
  <2>5. b + credited[r] = a + credited'[r]
    BY <2>1, Zenon
  <2>6. a \in Nat
    BY <1>2, <1>4
  <2>7. b \in Nat
    BY <1>3, <1>5
  <2> HIDE DEF a, b
  <2>2. /\ a \in Nat /\ b \in Nat /\ a = WindowSize + credited[r]
        /\ b + credited[r] = a + credited'[r]
    BY <2>4, <2>5, <2>6, <2>7, Zenon
  <2>3. b = WindowSize + credited'[r]
    BY <1>2, <1>3, <2>2
  <2> QED
    BY <2>3, Zenon DEF b
<1>7. granted'[r] + Total(rgot'[r]) = Total(rd'[r])
  <2>1. granted'[r] + Total(rgot'[r]) + Total(rd[r])
           = granted[r] + Total(rgot[r]) + Total(rd'[r])
    BY <1>1, Zenon DEF Moved
  <2> DEFINE a == granted[r] + Total(rgot[r])
             b == granted'[r] + Total(rgot'[r])
  <2>4. a = Total(rd[r])
    BY <1>1, Zenon
  <2>5. b + Total(rd[r]) = a + Total(rd'[r])
    BY <2>1, Zenon
  <2>6. b \in Nat
    BY <1>3, <1>5
  <2> HIDE DEF a, b
  <2>2. a = Total(rd[r]) /\ a \in Nat /\ b \in Nat /\ b + Total(rd[r]) = a + Total(rd'[r])
    BY <1>4, <2>4, <2>5, <2>6, Zenon
  <2>3. b = Total(rd'[r])
    BY <1>4, <1>5, <2>2
  <2> QED
    BY <2>3, Zenon DEF b
<1> QED
    BY <1>1, <1>6, <1>7, Zenon

\* One stream of one account changes.
LEMMA TotalChanged ==
    ASSUME NEW f \in [Ext -> Nat], NEW g \in [Ext -> Nat], NEW e \in Ext,
           \A d \in Ext : d # e => g[d] = f[d]
    PROVE  Total(g) + f[e] = Total(f) + g[e]
<1>1. /\ f[0] \in Nat /\ f[1] \in Nat /\ g[0] \in Nat /\ g[1] \in Nat
      /\ e = 0 => g[1] = f[1]
      /\ e = 1 => g[0] = f[0]
    BY DEF Ext
<1>2. CASE e = 0
    BY <1>1, <1>2 DEF Total
<1>3. CASE e = 1
    BY <1>1, <1>3 DEF Total
<1> QED
    BY <1>2, <1>3, Zenon DEF Ext

\* A step that leaves the wire and the accounts alone.
LEMMA WindowKept ==
    ASSUME WindowInv, UNCHANGED <<wire, remoteWin, wgot, sent, credited, granted, rgot, rd>>,
           \A r \in Peer : OnlyCloses(r)
    PROVE  WindowInv'
<1> SUFFICES ASSUME NEW r \in Peer PROVE (Books(r) /\ CreditRuns(r))'
    BY Zenon DEF WindowInv
<1>1. Books(r) /\ CreditRuns(r) /\ OnlyCloses(r) /\ SameAccounts(r)
    BY Zenon DEF WindowInv, SameAccounts
<1>2. CreditRuns(r)'
    BY <1>1, Zenon DEF CreditRuns
<1> QED
    BY <1>1, <1>2, BooksKept, Zenon

\* A packet is written that announces no window.
LEMMA CreditBehind ==
    ASSUME TypeOK, WindowInv, NEW p \in Peer, NEW pkt \in Packet, pkt.type # "adjust",
           wire' = [wire EXCEPT ![p] = Append(@, pkt)], UNCHANGED <<credited, granted>>
    PROVE  \A r \in Peer : CreditRuns(r)'
<1> SUFFICES ASSUME NEW r \in Peer PROVE CreditRuns(r)'
    BY Zenon
<1>1. /\ CreditRuns(r) /\ wire \in [Peer -> Seq(Packet)] /\ Other(r) \in Peer
      /\ credited \in [Peer -> Nat] /\ granted \in [Peer -> Nat]
    BY PeerFacts, Zenon DEF WindowInv, TypeOK
<1>2. CASE r # p
  <2>1. wire'[r] = wire[r]
    BY <1>1, <1>2, Zenon
  <2> QED
    BY <1>1, <2>1, Zenon DEF CreditRuns
<1>3. CASE r = p
  <2>1. wire'[r] = Append(wire[r], pkt) /\ wire[r] \in Seq(Packet)
    BY <1>1, <1>3, Zenon
  <2>2. /\ credited[Other(r)] \in Nat /\ granted[r] \in Nat /\ 0 \in Ext
        /\ ~Carries(pkt, "adjust", 0)
    BY <1>1, Zenon DEF Carries, Ext
  <2>3. Contiguous(Append(wire[r], pkt), "adjust", 0, credited[Other(r)], granted[r])
    BY <1>1, <2>1, <2>2, ContiguousAppend, Zenon DEF CreditRuns
  <2> QED
    BY <2>1, <2>3, Zenon DEF CreditRuns
<1> QED
    BY <1>2, <1>3, Zenon

\* window.reserve moves what it takes from the window to the writer.
LEMMA ReserveWindow ==
    ASSUME FlowInv, FlowInv', WindowInv, NEW p \in Peer, NEW e \in Ext, Reserve(p, e)
    PROVE  WindowInv'
<1> DEFINE space == MinOf(MinOf(MaxPacket, wtodo[p][e]), remoteWin[p])
<1>0. TypeOK /\ TypeOK' /\ wgot[p][e] = 0
    BY Zenon DEF FlowInv, Reserve, Ledger, InHand
<1>1. UNCHANGED <<wire, sent, credited, granted, rgot, rd, winClosed, sentClose, connUp>>
    BY Zenon DEF Reserve, byteVars, rVars, lifeVars, muxVars
<1>2. \A r \in Peer : OnlyCloses(r)
    BY <1>1, Zenon DEF OnlyCloses
<1>3. CASE UNCHANGED <<remoteWin, wgot>>
    BY <1>1, <1>2, <1>3, WindowKept, Zenon
<1>4. CASE /\ remoteWin' = [remoteWin EXCEPT ![p] = @ - space]
           /\ winClosed[p] \/ wgot' = [wgot EXCEPT ![p][e] = space]
           /\ wgot' = wgot \/ wgot' = [wgot EXCEPT ![p][e] = space]
  <2>0. /\ remoteWin \in [Peer -> 0..(UintMod - 1)] /\ wgot \in [Peer -> [Ext -> Nat]]
        /\ wgot' \in [Peer -> [Ext -> Nat]]
    BY <1>0, Zenon DEF TypeOK
  <2>1. space \in Nat /\ remoteWin[p] \in Nat
    <3>1. wtodo[p][e] \in Nat /\ remoteWin[p] \in Nat /\ MaxPacket \in Nat
        BY <1>0, Counters, Zenon
    <3> QED
        BY <3>1 DEF MinOf
  <2> HIDE DEF space
  <2>2. remoteWin'[p] = remoteWin[p] - space
    BY <1>4, <2>0, Zenon
  <2> SUFFICES ASSUME NEW r \in Peer PROVE (Books(r) /\ CreditRuns(r))'
    BY Zenon DEF WindowInv
  <2>3. Books(r) /\ CreditRuns(r) /\ OnlyCloses(r)
    BY <1>2, Zenon DEF WindowInv
  <2>4. CreditRuns(r)'
    BY <1>1, <2>3, Zenon DEF CreditRuns
  <2>5. CASE r # p
    <3>1. remoteWin'[r] = remoteWin[r]
        BY <1>4, <2>0, <2>5, Zenon
    <3>2. wgot'[r] = wgot[r]
        BY <1>4, <2>0, <2>5, Zenon
    <3>3. SameAccounts(r)
        BY <1>1, <3>1, <3>2, Zenon DEF SameAccounts
    <3> QED
        BY <2>3, <2>4, <3>3, BooksKept, Zenon
  <2>6. CASE r = p /\ winClosed[p]
    <3>1. connUp' /\ ~sentClose'[r] => Moved(r)
        BY <1>1, <2>3, <2>6, Zenon DEF Books
    <3> QED
        BY <1>0, <2>3, <2>4, <3>1, BooksMoved, Zenon
  <2>7. CASE r = p /\ wgot' = [wgot EXCEPT ![p][e] = space]
    <3>1. /\ wgot'[p] = [wgot[p] EXCEPT ![e] = space]
          /\ wgot[p] \in [Ext -> Nat] /\ wgot'[p] \in [Ext -> Nat]
        BY <2>0, <2>7, Zenon
    <3>2. wgot'[p][e] = space /\ \A d \in Ext : d # e => wgot'[p][d] = wgot[p][d]
        BY <3>1, Zenon
    <3>3. Total(wgot'[p]) + wgot[p][e] = Total(wgot[p]) + wgot'[p][e]
      <4>1. wgot[p] \in [Ext -> Nat] /\ wgot'[p] \in [Ext -> Nat]
        BY <3>1, Zenon
      <4>2. \A d \in Ext : d # e => wgot'[p][d] = wgot[p][d]
        BY <3>2, Zenon
      <4> QED
        BY <4>1, <4>2, TotalChanged, Zenon
    <3>4. Total(wgot'[p]) \in Nat /\ Total(wgot[p]) \in Nat
        BY <3>1, TotalNat, Zenon
    <3>5. Total(sent[p]) \in Nat /\ Total(rgot[p]) \in Nat /\ Total(rd[p]) \in Nat
      <4>1. sent[p] \in [Ext -> Nat] /\ rgot[p] \in [Ext -> Nat] /\ rd[p] \in [Ext -> Nat]
        BY <1>0, Zenon DEF TypeOK
      <4> QED
        BY <4>1, TotalNat, Zenon
    <3>6. Total(wgot'[p]) = Total(wgot[p]) + space
        BY <1>0, <2>1, <3>2, <3>3, <3>4
    <3>7. credited[p] \in Nat /\ granted[p] \in Nat
        BY <1>0, Counters, Zenon
    <3>8. remoteWin'[p] + Total(wgot'[p]) = remoteWin[p] + Total(wgot[p])
        BY <2>1, <2>2, <3>4, <3>6
    <3>9. Moved(p)
        BY <1>1, <3>8, Zenon DEF Moved
    <3> QED
        BY <1>0, <2>3, <2>4, <2>7, <3>9, BooksMoved, Zenon
  <2> QED
    BY <1>4, <2>5, <2>6, <2>7, Zenon
<1> QED
    BY <1>3, <1>4, Zenon DEF Reserve

\* writePacket moves them from the writer to the wire.
LEMMA SendDataWindow ==
    ASSUME FlowInv, FlowInv', WindowInv, NEW p \in Peer, NEW e \in Ext, SendData(p, e)
    PROVE  WindowInv'
<1> DEFINE hi == sent[p][e] + wgot[p][e]
<1>0. TypeOK /\ TypeOK'
    BY Zenon DEF FlowInv
<1>1. UNCHANGED <<remoteWin, credited, granted, rgot, rd, winClosed, sentClose, connUp>>
    BY Zenon DEF SendData, winVars, rVars, lifeVars, muxVars
<1>2. /\ sent \in [Peer -> [Ext -> Nat]] /\ wgot \in [Peer -> [Ext -> Nat]]
      /\ sent' \in [Peer -> [Ext -> Nat]] /\ wgot' \in [Peer -> [Ext -> Nat]]
    BY <1>0, Zenon DEF TypeOK
<1>3. wgot' = [wgot EXCEPT ![p][e] = 0]
    BY Zenon DEF SendData
<1>4. \/ UNCHANGED <<wire, sent>> /\ (sentClose[p] \/ ~connUp)
      \/ /\ wire' = [wire EXCEPT ![p] = Append(@, DataPkt(e, sent[p][e], hi))]
         /\ sent' = [sent EXCEPT ![p][e] = hi]
    BY Zenon DEF SendData, WritePacket
<1>5. sent[p][e] \in Nat /\ wgot[p][e] \in Nat /\ hi \in Nat
  <2>1. sent[p][e] \in Nat /\ wgot[p][e] \in Nat
    BY <1>0, Counters, Zenon
  <2> QED
    BY <2>1
<1>6. \A r \in Peer : CreditRuns(r)'
  <2>1. CASE UNCHANGED <<wire, sent>>
    BY <1>1, <2>1, Zenon DEF WindowInv, CreditRuns
  <2>2. CASE wire' = [wire EXCEPT ![p] = Append(@, DataPkt(e, sent[p][e], hi))]
    <3>1. /\ DataPkt(e, sent[p][e], hi) \in Packet
          /\ DataPkt(e, sent[p][e], hi).type # "adjust"
        BY <1>5, Zenon DEF DataPkt, Packet
    <3> QED
        BY <1>0, <1>1, <2>2, <3>1, CreditBehind, Zenon
  <2> QED
    BY <1>4, <2>1, <2>2, Zenon
<1> HIDE DEF hi
<1> SUFFICES ASSUME NEW r \in Peer PROVE Books(r)'
    BY <1>6, Zenon DEF WindowInv
<1>7. Books(r) /\ OnlyCloses(r)
    BY <1>1, Zenon DEF WindowInv, OnlyCloses
<1>8. CASE r # p
  <2>1. wgot'[r] = wgot[r]
    BY <1>2, <1>3, <1>8, Zenon
  <2>2. sent'[r] = sent[r]
    BY <1>2, <1>4, <1>8, Zenon
  <2>3. SameAccounts(r)
    BY <1>1, <2>1, <2>2, Zenon DEF SameAccounts
  <2> QED
    BY <1>7, <2>3, BooksKept, Zenon
<1>9. CASE r = p /\ (sentClose[p] \/ ~connUp)
    BY <1>1, <1>9, Zenon DEF Books
<1>10. CASE r = p /\ sent' = [sent EXCEPT ![p][e] = hi]
  <2>1. /\ wgot'[p] = [wgot[p] EXCEPT ![e] = 0]
        /\ wgot[p] \in [Ext -> Nat] /\ wgot'[p] \in [Ext -> Nat]
    BY <1>2, <1>3, Zenon
  <2>2. /\ sent'[p] = [sent[p] EXCEPT ![e] = hi]
        /\ sent[p] \in [Ext -> Nat] /\ sent'[p] \in [Ext -> Nat]
    BY <1>2, <1>10, Zenon
  <2>3. wgot'[p][e] = 0 /\ \A d \in Ext : d # e => wgot'[p][d] = wgot[p][d]
    BY <2>1, Zenon
  <2>4. sent'[p][e] = hi /\ \A d \in Ext : d # e => sent'[p][d] = sent[p][d]
    BY <2>2, Zenon
  <2>5. Total(wgot'[p]) + wgot[p][e] = Total(wgot[p]) + wgot'[p][e]
    <3>1. wgot[p] \in [Ext -> Nat] /\ wgot'[p] \in [Ext -> Nat]
      BY <2>1, Zenon
    <3>2. \A d \in Ext : d # e => wgot'[p][d] = wgot[p][d]
      BY <2>3, Zenon
    <3> QED
      BY <3>1, <3>2, TotalChanged, Zenon
  <2>6. Total(sent'[p]) + sent[p][e] = Total(sent[p]) + sent'[p][e]
    <3>1. sent[p] \in [Ext -> Nat] /\ sent'[p] \in [Ext -> Nat]
      BY <2>2, Zenon
    <3>2. \A d \in Ext : d # e => sent'[p][d] = sent[p][d]
      BY <2>4, Zenon
    <3> QED
      BY <3>1, <3>2, TotalChanged, Zenon
  <2>7. /\ Total(wgot'[p]) \in Nat /\ Total(wgot[p]) \in Nat
        /\ Total(sent'[p]) \in Nat /\ Total(sent[p]) \in Nat
    BY <2>1, <2>2, TotalNat, Zenon
  <2>8. Total(wgot'[p]) + Total(sent'[p]) = Total(wgot[p]) + Total(sent[p])
    BY <1>5, <2>3, <2>4, <2>5, <2>6, <2>7 DEF hi
  <2>9. remoteWin[p] \in Nat
    BY <1>0, Counters, Zenon
  <2>10. remoteWin[p] + Total(wgot'[p]) + Total(sent'[p])
            = remoteWin[p] + Total(wgot[p]) + Total(sent[p])
    BY <2>7, <2>8, <2>9
  <2>11. Moved(p)
    BY <1>1, <2>10, Zenon DEF Moved
  <2> QED
    BY <1>0, <1>7, <1>10, <2>11, BooksMoved, Zenon
<1> QED
    BY <1>4, <1>8, <1>9, <1>10, Zenon

\* buffer.Read moves bytes to the reader's hands.
LEMMA BufferReadWindow ==
    ASSUME FlowInv, FlowInv', WindowInv, NEW p \in Peer, NEW e \in Ext, BufferRead(p, e)
    PROVE  WindowInv'
<1>0. TypeOK /\ TypeOK' /\ rgot[p][e] = 0
    BY Zenon DEF FlowInv, BufferRead, Ledger, InHand
<1>1. UNCHANGED <<wire, remoteWin, wgot, sent, credited, granted, winClosed, sentClose,
                  connUp>>
    BY Zenon DEF BufferRead, winVars, wVars, lifeVars, muxVars
<1>2. \A r \in Peer : OnlyCloses(r)
    BY <1>1, Zenon DEF OnlyCloses
<1>3. CASE UNCHANGED <<rd, rgot>>
    BY <1>1, <1>2, <1>3, WindowKept, Zenon
<1>4. ASSUME NEW n \in 1..(rcvd[p][e] - rd[p][e]),
             rd' = [rd EXCEPT ![p][e] = @ + n], rgot' = [rgot EXCEPT ![p][e] = n]
      PROVE  WindowInv'
  <2>0. /\ rd \in [Peer -> [Ext -> Nat]] /\ rgot \in [Peer -> [Ext -> Nat]]
        /\ rd' \in [Peer -> [Ext -> Nat]] /\ rgot' \in [Peer -> [Ext -> Nat]]
    BY <1>0, Zenon DEF TypeOK
  <2>1. n \in Nat /\ rd[p][e] \in Nat
    <3>1. rd[p][e] \in Nat /\ rcvd[p][e] \in Nat
        BY <1>0, Counters, Zenon
    <3> QED
        BY <3>1
  <2> SUFFICES ASSUME NEW r \in Peer PROVE (Books(r) /\ CreditRuns(r))'
    BY Zenon DEF WindowInv
  <2>2. Books(r) /\ CreditRuns(r) /\ OnlyCloses(r)
    BY <1>2, Zenon DEF WindowInv
  <2>3. CreditRuns(r)'
    BY <1>1, <2>2, Zenon DEF CreditRuns
  <2>4. CASE r # p
    <3>1. rd'[r] = rd[r]
        BY <1>4, <2>0, <2>4, Zenon
    <3>2. rgot'[r] = rgot[r]
        BY <1>4, <2>0, <2>4, Zenon
    <3>3. SameAccounts(r)
        BY <1>1, <3>1, <3>2, Zenon DEF SameAccounts
    <3> QED
        BY <2>2, <2>3, <3>3, BooksKept, Zenon
  <2>5. CASE r = p
    <3>1. /\ rd'[p] = [rd[p] EXCEPT ![e] = rd[p][e] + n]
          /\ rd[p] \in [Ext -> Nat] /\ rd'[p] \in [Ext -> Nat]
        BY <1>4, <2>0, Zenon
    <3>2. /\ rgot'[p] = [rgot[p] EXCEPT ![e] = n]
          /\ rgot[p] \in [Ext -> Nat] /\ rgot'[p] \in [Ext -> Nat]
        BY <1>4, <2>0, Zenon
    <3>3. rd'[p][e] = rd[p][e] + n /\ \A d \in Ext : d # e => rd'[p][d] = rd[p][d]
        BY <3>1, Zenon
    <3>4. rgot'[p][e] = n /\ \A d \in Ext : d # e => rgot'[p][d] = rgot[p][d]
        BY <3>2, Zenon
    <3>5. Total(rd'[p]) + rd[p][e] = Total(rd[p]) + rd'[p][e]
      <4>1. rd[p] \in [Ext -> Nat] /\ rd'[p] \in [Ext -> Nat]
        BY <3>1, Zenon
      <4>2. \A d \in Ext : d # e => rd'[p][d] = rd[p][d]
        BY <3>3, Zenon
      <4> QED
        BY <4>1, <4>2, TotalChanged, Zenon
    <3>6. Total(rgot'[p]) + rgot[p][e] = Total(rgot[p]) + rgot'[p][e]
      <4>1. rgot[p] \in [Ext -> Nat] /\ rgot'[p] \in [Ext -> Nat]
        BY <3>2, Zenon
      <4>2. \A d \in Ext : d # e => rgot'[p][d] = rgot[p][d]
        BY <3>4, Zenon
      <4> QED
        BY <4>1, <4>2, TotalChanged, Zenon
    <3>7. /\ Total(rd'[p]) \in Nat /\ Total(rd[p]) \in Nat
          /\ Total(rgot'[p]) \in Nat /\ Total(rgot[p]) \in Nat /\ granted[p] \in Nat
      <4>1. granted[p] \in Nat
        BY <1>0, Counters, Zenon
      <4> QED
        BY <3>1, <3>2, <4>1, TotalNat, Zenon
    <3>8. granted[p] + Total(rgot'[p]) + Total(rd[p])
             = granted[p] + Total(rgot[p]) + Total(rd'[p])
        BY <1>0, <2>1, <3>3, <3>4, <3>5, <3>6, <3>7
    <3>9. Moved(p)
        BY <1>1, <3>8, Zenon DEF Moved
    <3> QED
        BY <1>0, <2>2, <2>3, <2>5, <3>9, BooksMoved, Zenon
  <2> QED
    BY <2>4, <2>5, Zenon
<1> QED
    BY <1>3, <1>4, Zenon DEF BufferRead

\* adjustWindow announces them, unless the channel is closed.
LEMMA AnnounceWindowWindow ==
    ASSUME FlowInv, FlowInv', WindowInv, NEW p \in Peer, NEW e \in Ext,
           AnnounceWindow(p, e)
    PROVE  WindowInv'
<1> DEFINE hi == granted[p] + rgot[p][e]
<1>0. TypeOK /\ TypeOK'
    BY Zenon DEF FlowInv
<1>1. UNCHANGED <<remoteWin, wgot, sent, credited, rd, winClosed, sentClose, connUp>>
    BY Zenon DEF AnnounceWindow, winVars, wVars, lifeVars, muxVars
<1>2. /\ rgot \in [Peer -> [Ext -> Nat]] /\ rgot' \in [Peer -> [Ext -> Nat]]
      /\ granted \in [Peer -> Nat] /\ credited \in [Peer -> Nat]
      /\ wire \in [Peer -> Seq(Packet)]
    BY <1>0, Zenon DEF TypeOK
<1>3. rgot' = [rgot EXCEPT ![p][e] = 0]
    BY Zenon DEF AnnounceWindow
<1>4. \/ UNCHANGED <<wire, granted>> /\ (sentClose[p] \/ ~connUp)
      \/ /\ wire' = [wire EXCEPT ![p] = Append(@, AdjustPkt(granted[p], hi))]
         /\ granted' = [granted EXCEPT ![p] = hi]
    BY Zenon DEF AnnounceWindow, WritePacket
<1>5. granted[p] \in Nat /\ rgot[p][e] \in Nat /\ hi \in Nat
  <2>1. granted[p] \in Nat /\ rgot[p][e] \in Nat
    BY <1>0, Counters, Zenon
  <2> QED
    BY <2>1
<1> HIDE DEF hi
<1>6. ASSUME NEW r \in Peer PROVE CreditRuns(r)'
  <2>0. CreditRuns(r) /\ Other(r) \in Peer
    BY PeerFacts, Zenon DEF WindowInv
  <2>1. CASE wire'[r] = wire[r] /\ granted'[r] = granted[r]
    BY <1>1, <2>0, <2>1, Zenon DEF CreditRuns
  <2>2. CASE /\ r = p /\ granted' = [granted EXCEPT ![p] = hi]
             /\ wire' = [wire EXCEPT ![p] = Append(@, AdjustPkt(granted[p], hi))]
    <3> DEFINE pkt == AdjustPkt(granted[p], hi)
    <3>1. /\ pkt \in Packet /\ Carries(pkt, "adjust", 0) /\ 0 \in Ext
          /\ pkt.lo = granted[p] /\ pkt.hi = hi
        BY <1>5, Zenon DEF AdjustPkt, Packet, Carries, Ext
    <3>2. wire'[p] = Append(wire[p], pkt) /\ wire[p] \in Seq(Packet) /\ granted'[p] = hi
        BY <1>2, <2>2, Zenon
    <3>3. Contiguous(wire[p], "adjust", 0, credited[Other(p)], granted[p])
        BY <2>0, <2>2, Zenon DEF CreditRuns
    <3>4. credited[Other(p)] \in Nat
        BY <1>2, <2>0, <2>2, Zenon
    <3> HIDE DEF pkt
    <3>5. Contiguous(Append(wire[p], pkt), "adjust", 0, credited[Other(p)], hi)
        BY <1>5, <3>1, <3>2, <3>3, <3>4, ContiguousAppend, Zenon
    <3> QED
        BY <1>1, <2>2, <3>2, <3>5, Zenon DEF CreditRuns
  <2>3. r # p => (wire'[r] = wire[r] /\ granted'[r] = granted[r])
    BY <1>2, <1>4, Zenon
  <2> QED
    BY <1>4, <2>1, <2>2, <2>3, Zenon
<1> SUFFICES ASSUME NEW r \in Peer PROVE Books(r)'
    BY <1>6, Zenon DEF WindowInv
<1>7. Books(r) /\ OnlyCloses(r)
    BY <1>1, Zenon DEF WindowInv, OnlyCloses
<1>8. CASE r # p
  <2>1. rgot'[r] = rgot[r]
    BY <1>2, <1>3, <1>8, Zenon
  <2>2. granted'[r] = granted[r]
    BY <1>2, <1>4, <1>8, Zenon
  <2>3. SameAccounts(r)
    BY <1>1, <2>1, <2>2, Zenon DEF SameAccounts
  <2> QED
    BY <1>7, <2>3, BooksKept, Zenon
<1>9. CASE r = p /\ (sentClose[p] \/ ~connUp)
    BY <1>1, <1>9, Zenon DEF Books
<1>10. CASE r = p /\ granted' = [granted EXCEPT ![p] = hi]
  <2>1. /\ rgot'[p] = [rgot[p] EXCEPT ![e] = 0]
        /\ rgot[p] \in [Ext -> Nat] /\ rgot'[p] \in [Ext -> Nat]
    BY <1>2, <1>3, Zenon
  <2>2. granted'[p] = hi
    BY <1>2, <1>10, Zenon
  <2>3. rgot'[p][e] = 0 /\ \A d \in Ext : d # e => rgot'[p][d] = rgot[p][d]
    BY <2>1, Zenon
  <2>4. Total(rgot'[p]) + rgot[p][e] = Total(rgot[p]) + rgot'[p][e]
    <3>1. rgot[p] \in [Ext -> Nat] /\ rgot'[p] \in [Ext -> Nat]
      BY <2>1, Zenon
    <3>2. \A d \in Ext : d # e => rgot'[p][d] = rgot[p][d]
      BY <2>3, Zenon
    <3> QED
      BY <3>1, <3>2, TotalChanged, Zenon
  <2>5. Total(rgot'[p]) \in Nat /\ Total(rgot[p]) \in Nat /\ Total(rd[p]) \in Nat
    <3>1. rd[p] \in [Ext -> Nat]
        BY <1>0, Zenon DEF TypeOK
    <3> QED
        BY <2>1, <3>1, TotalNat, Zenon
  <2>6. granted'[p] + Total(rgot'[p]) = granted[p] + Total(rgot[p])
    BY <1>5, <2>2, <2>3, <2>4, <2>5 DEF hi
  <2>7. Moved(p)
    BY <1>1, <2>6, Zenon DEF Moved
  <2> QED
    BY <1>0, <1>7, <1>10, <2>7, BooksMoved, Zenon
<1> QED
    BY <1>4, <1>8, <1>9, <1>10, Zenon

\* onePacket takes a packet of the other side: an adjust moves its credit into the window.
LEMMA OnePacketWindow ==
    ASSUME FlowInv, FlowInv', StreamInv, WindowInv, NEW p \in Peer, OnePacket(p)
    PROVE  WindowInv'
<1> DEFINE q == Other(p)
           pkt == Head(wire[q])
           n == pkt.hi - pkt.lo
           answer == pkt.type = "close" /\ inList[p] /\ ~sentClose[p] /\ connUp
<1>0. /\ TypeOK /\ TypeOK' /\ 0 \in Ext /\ q \in Peer /\ q # p /\ Other(q) = p
      /\ wire[q] # <<>> /\ \A r \in Peer : r = p \/ r = q
    BY PeerFacts, Zenon DEF FlowInv, Ext, OnePacket
<1>1. wire' = [wire EXCEPT ![q] = Tail(@),
                           ![p] = IF answer THEN Append(@, ClosePkt) ELSE @]
    BY Zenon DEF OnePacket
<1>2. inList[p]
  <2>1. err[p] = "none"
    BY Zenon DEF OnePacket
  <2> QED
    BY <1>0, <2>1, Zenon DEF StreamInv, WireInv, Left
<1>3. ASSUME NEW e \in {"payload", "too much", "bad window"} PROVE ~LoopExit(p, e)
  <2>1. err \in [Peer -> {"none", "payload", "too much", "bad window",
                          "invalid channel", "lost", "timed out"}]
    BY <1>0, Zenon DEF TypeOK
  <2>2. err'[p] # e
    BY <1>3, Zenon DEF FlowInv, FlowControlRespected
  <2> QED
    BY <2>1, <2>2, Zenon DEF LoopExit
<1>4. HandleData(p, pkt) \/ HandleAdjust(p, pkt) \/ HandleEOF(p, pkt) \/ HandleClose(p, pkt)
    BY <1>2, Zenon DEF OnePacket
<1>5. /\ wire \in [Peer -> Seq(Packet)] /\ credited \in [Peer -> Nat]
      /\ credited' \in [Peer -> Nat] /\ granted \in [Peer -> Nat]
      /\ remoteWin \in [Peer -> 0..(UintMod - 1)]
      /\ sentClose \in [Peer -> BOOLEAN] /\ winClosed \in [Peer -> BOOLEAN]
    BY <1>0, Zenon DEF TypeOK
<1>6. UNCHANGED <<sent, rd, granted, wgot, rgot, connUp>>
  <2> HIDE DEF pkt
  <2>1. CASE HandleData(p, pkt)
    BY <1>3, <2>1, Zenon DEF HandleData, wVars, muxVars
  <2>2. CASE HandleAdjust(p, pkt)
    BY <1>3, <2>2, Zenon DEF HandleAdjust, rVars, muxVars
  <2>3. CASE HandleEOF(p, pkt)
    BY <2>3, Zenon DEF HandleEOF, byteVars, wVars, muxVars
  <2>4. CASE HandleClose(p, pkt)
    BY <2>4, Zenon DEF HandleClose, byteVars, muxVars
  <2> QED
    BY <1>4, <2>1, <2>2, <2>3, <2>4, Zenon
<1>7. /\ IF pkt.type = "adjust"
         THEN /\ n \in Nat
              /\ remoteWin' = [remoteWin EXCEPT ![p] = remoteWin[p] + n]
              /\ credited' = [credited EXCEPT ![p] = credited[p] + n]
         ELSE UNCHANGED <<remoteWin, credited>>
  <2>1. CASE HandleAdjust(p, pkt)
    <3>1. pkt.type = "adjust"
        BY <2>1, Zenon DEF HandleAdjust
    <3> QED
        BY <1>2, <2>1, <3>1, AdjustAdds, Zenon
  <2> HIDE DEF pkt
  <2>2. CASE HandleData(p, pkt)
    BY <1>3, <2>2, Zenon DEF HandleData
  <2>3. CASE HandleEOF(p, pkt)
    BY <2>3, Zenon DEF HandleEOF, byteVars, winVars
  <2>4. CASE HandleClose(p, pkt)
    BY <2>4, Zenon DEF HandleClose, byteVars
  <2> QED
    BY <1>4, <2>1, <2>2, <2>3, <2>4, Zenon
<1>8. ASSUME NEW r \in Peer PROVE OnlyCloses(r)
  <2> HIDE DEF pkt
  <2>1. CASE UNCHANGED <<sentClose, winClosed>>
    BY <1>6, <2>1, Zenon DEF OnlyCloses
  <2>2. CASE ForceClose(p)
    <3>1. CASE r = p
        BY <1>5, <1>6, <2>2, <3>1, Zenon DEF ForceClose, OnlyCloses
    <3>2. CASE r # p
        BY <1>5, <1>6, <2>2, <3>2, Zenon DEF ForceClose, OnlyCloses
    <3> QED
        BY <3>1, <3>2, Zenon
  <2>3. UNCHANGED <<sentClose, winClosed>> \/ ForceClose(p)
    <3>1. CASE HandleData(p, pkt)
        BY <1>3, <3>1, Zenon DEF HandleData, lifeVars
    <3>2. CASE HandleAdjust(p, pkt)
        BY <1>3, <3>2, Zenon DEF HandleAdjust, lifeVars
    <3> QED
        BY <1>4, <3>1, <3>2, Zenon DEF HandleEOF, HandleClose, winVars
  <2> QED
    BY <2>1, <2>2, <2>3, Zenon
<1>9. /\ wire'[q] = Tail(wire[q]) /\ wire[q] \in Seq(Packet) /\ wire[p] \in Seq(Packet)
      /\ wire'[p] = IF answer THEN Append(wire[p], ClosePkt) ELSE wire[p]
    BY <1>0, <1>1, <1>5, Zenon
<1>10. /\ credited'[q] = credited[q] /\ remoteWin'[q] = remoteWin[q]
       /\ IF pkt.type = "adjust"
          THEN credited'[p] = credited[p] + n /\ remoteWin'[p] = remoteWin[p] + n
          ELSE credited'[p] = credited[p] /\ remoteWin'[p] = remoteWin[p]
  <2> DEFINE c == credited[p] + n
             w == remoteWin[p] + n
  <2>1. IF pkt.type = "adjust"
        THEN remoteWin' = [remoteWin EXCEPT ![p] = w] /\ credited' = [credited EXCEPT ![p] = c]
        ELSE UNCHANGED <<remoteWin, credited>>
    BY <1>7, Zenon
  <2> HIDE DEF c, w, n, pkt, q
  <2>2. /\ credited'[q] = credited[q] /\ remoteWin'[q] = remoteWin[q]
        /\ IF pkt.type = "adjust" THEN credited'[p] = c /\ remoteWin'[p] = w
           ELSE credited'[p] = credited[p] /\ remoteWin'[p] = remoteWin[p]
    BY <1>0, <1>5, <2>1, Zenon
  <2> QED
    BY <2>2, Zenon DEF c, w
<1>11. CreditRuns(p)'
  <2>1. Contiguous(wire[p], "adjust", 0, credited[q], granted[p])
    BY Zenon DEF WindowInv, CreditRuns
  <2>2. ClosePkt \in Packet /\ ~Carries(ClosePkt, "adjust", 0)
    BY <1>0, Zenon DEF ClosePkt, Packet, Carries
  <2>3. credited[q] \in Nat /\ granted[p] \in Nat
    BY <1>0, <1>5, Zenon
  <2>4. Contiguous(Append(wire[p], ClosePkt), "adjust", 0, credited[q], granted[p])
    BY <1>0, <1>9, <2>1, <2>2, <2>3, ContiguousAppend, Zenon
  <2>5. Contiguous(wire'[p], "adjust", 0, credited'[q], granted'[p])
    BY <1>6, <1>9, <1>10, <2>1, <2>4, Zenon
  <2> QED
    BY <2>5, Zenon DEF CreditRuns
<1>12. CreditRuns(q)'
  <2>1. Contiguous(wire[q], "adjust", 0, credited[p], granted[q])
    BY <1>0, Zenon DEF WindowInv, CreditRuns
  <2>2. credited[p] \in Nat /\ credited'[p] \in Nat /\ granted[q] \in Nat
    BY <1>0, <1>5, Zenon
  <2>3. IF Carries(Head(wire[q]), "adjust", 0)
        THEN credited'[p] = credited[p] + (Head(wire[q]).hi - Head(wire[q]).lo)
        ELSE credited'[p] = credited[p]
    BY <1>10, Zenon DEF Carries
  <2>4. Contiguous(Tail(wire[q]), "adjust", 0, credited'[p], granted[q])
    BY <1>0, <1>9, <2>1, <2>2, <2>3, ContiguousTail, Zenon
  <2> QED
    BY <1>0, <1>6, <1>9, <2>4, Zenon DEF CreditRuns
<1>13. Books(q)'
  <2>1. SameAccounts(q)
    BY <1>6, <1>10, Zenon DEF SameAccounts
  <2> QED
    BY <1>0, <1>8, <2>1, BooksKept, Zenon DEF WindowInv
<1>14. Books(p)'
  <2>0. Books(p) /\ OnlyCloses(p)
    BY <1>8, Zenon DEF WindowInv
  <2>1. CASE pkt.type # "adjust"
    <3>1. SameAccounts(p)
        BY <1>6, <1>10, <2>1, Zenon DEF SameAccounts
    <3> QED
        BY <2>0, <3>1, BooksKept, Zenon
  <2>2. CASE pkt.type = "adjust"
    <3>1. /\ n \in Nat /\ credited'[p] = credited[p] + n
          /\ remoteWin'[p] = remoteWin[p] + n
        BY <1>7, <1>10, <2>2, Zenon
    <3>2. remoteWin[p] \in Nat /\ credited[p] \in Nat
        BY <1>0, Counters, Zenon
    <3>3. Total(wgot[p]) \in Nat /\ Total(sent[p]) \in Nat
      <4>1. wgot[p] \in [Ext -> Nat] /\ sent[p] \in [Ext -> Nat]
        BY <1>0, Zenon DEF TypeOK
      <4> QED
        BY <4>1, TotalNat, Zenon
    <3> HIDE DEF n
    <3>4. remoteWin'[p] + Total(wgot[p]) + Total(sent[p]) + credited[p]
             = remoteWin[p] + Total(wgot[p]) + Total(sent[p]) + credited'[p]
        BY <3>1, <3>2, <3>3
    <3>5. Moved(p)
        BY <1>6, <3>4, Zenon DEF Moved
    <3> QED
        BY <1>0, <2>0, <3>5, BooksMoved, Zenon
  <2> QED
    BY <2>1, <2>2, Zenon
<1> QED
    BY <1>0, <1>11, <1>12, <1>13, <1>14, Zenon DEF WindowInv

\* CloseWrite and the close of Close move no bytes.
LEMMA CloseWindow ==
    ASSUME FlowInv, WindowInv, NEW p \in Peer, CloseWrite(p) \/ SendClose(p)
    PROVE  WindowInv'
<1>0. TypeOK /\ sentClose \in [Peer -> BOOLEAN]
    BY Zenon DEF FlowInv, TypeOK
<1>1. UNCHANGED <<remoteWin, winClosed, wgot, sent, credited, granted, rgot, rd, connUp>>
    BY Zenon DEF CloseWrite, SendClose, winVars, byteVars, wVars, rVars, muxVars
<1>2. ASSUME NEW r \in Peer PROVE OnlyCloses(r)
  <2>1. sentClose' = sentClose \/ sentClose' = [sentClose EXCEPT ![p] = TRUE]
    BY Zenon DEF CloseWrite, SendClose
  <2>2. sentClose[r] => sentClose'[r]
    BY <1>0, <2>1, Zenon
  <2> QED
    BY <1>1, <2>2, Zenon DEF OnlyCloses
<1>3. CASE wire' = wire
    BY <1>1, <1>2, <1>3, WindowKept, Zenon
<1>4. CASE \E pkt \in {EofPkt, ClosePkt} : wire' = [wire EXCEPT ![p] = Append(@, pkt)]
  <2>1. PICK pkt \in {EofPkt, ClosePkt} : wire' = [wire EXCEPT ![p] = Append(@, pkt)]
    BY <1>4, Zenon
  <2>2. pkt \in Packet /\ pkt.type # "adjust"
    <3>1. CASE pkt = EofPkt
        BY <3>1, Zenon DEF EofPkt, Packet, Ext
    <3>2. CASE pkt = ClosePkt
        BY <3>2, Zenon DEF ClosePkt, Packet, Ext
    <3> QED
        BY <3>1, <3>2, Zenon
  <2>3. \A r \in Peer : CreditRuns(r)'
    BY <1>0, <1>1, <2>1, <2>2, CreditBehind, Zenon
  <2>4. ASSUME NEW r \in Peer PROVE Books(r)'
    <3>1. Books(r) /\ OnlyCloses(r) /\ SameAccounts(r)
        BY <1>1, <1>2, Zenon DEF WindowInv, SameAccounts
    <3> QED
        BY <3>1, BooksKept, Zenon
  <2> QED
    BY <2>3, <2>4, Zenon DEF WindowInv
<1> QED
    BY <1>3, <1>4, Zenon DEF CloseWrite, SendClose, WritePacket

\* A step of a goroutine, or of the transport, that touches no account.
LEMMA IdleWindow ==
    ASSUME FlowInv, WindowInv,
           \/ \E p \in Peer, e \in Ext :
                 \/ \E n \in 1..MaxBytes[p][e] : WriteExtended(p, e, n)
                 \/ ReadExtended(p, e) \/ AdjustWindow(p, e)
           \/ \E p \in Peer : CloseChannel(p) \/ StopIdle(p) \/ LoopSpins(p) \/ LoopFails(p)
           \/ ConnLost
           \/ UNCHANGED vars
    PROVE  WindowInv'
<1> DEFINE Same == UNCHANGED <<wire, remoteWin, wgot, sent, credited, granted, rgot, rd>>
<1>1. ASSUME NEW p \in Peer, NEW e \in Ext,
             \/ \E n \in 1..MaxBytes[p][e] : WriteExtended(p, e, n)
             \/ ReadExtended(p, e) \/ AdjustWindow(p, e)
      PROVE  Same /\ UNCHANGED <<sentClose, winClosed, connUp>>
    BY <1>1, Zenon DEF WriteExtended, ReadExtended, AdjustWindow, winVars, byteVars, wVars,
       rVars, lifeVars, muxVars
<1>2. ASSUME NEW p \in Peer, CloseChannel(p) \/ StopIdle(p) \/ LoopSpins(p)
      PROVE  Same /\ UNCHANGED <<sentClose, winClosed, connUp>>
    BY <1>2, Zenon DEF CloseChannel, StopIdle, LoopSpins, winVars, byteVars, wVars, rVars,
       lifeVars, muxVars
<1>3. ASSUME ConnLost
      PROVE  Same /\ UNCHANGED <<sentClose, winClosed>> /\ ~connUp'
    BY <1>3, Zenon DEF ConnLost, winVars, byteVars, wVars, rVars, lifeVars
<1>4. ASSUME UNCHANGED vars
      PROVE  Same /\ UNCHANGED <<sentClose, winClosed, connUp>>
    BY <1>4, Zenon DEF vars, winVars, byteVars, wVars, rVars, lifeVars, muxVars
<1>5. ASSUME NEW p \in Peer, LoopFails(p)
      PROVE  Same /\ ~connUp'
    BY <1>5, Zenon DEF LoopFails, LoopExit, byteVars
<1>6. ASSUME Same, UNCHANGED <<sentClose, winClosed>>, connUp' => connUp
      PROVE  WindowInv'
  <2>1. \A r \in Peer : OnlyCloses(r)
    BY <1>6, Zenon DEF OnlyCloses
  <2> QED
    BY <1>6, <2>1, WindowKept, Zenon
<1>7. ASSUME NEW p \in Peer, LoopFails(p) PROVE WindowInv'
  <2>1. Same /\ ~connUp'
    BY <1>5, <1>7, Zenon
  <2> SUFFICES ASSUME NEW r \in Peer PROVE (Books(r) /\ CreditRuns(r))'
    BY Zenon DEF WindowInv
  <2>2. Books(r)'
    BY <2>1, Zenon DEF Books
  <2>3. CreditRuns(r)'
    BY <2>1, Zenon DEF WindowInv, CreditRuns
  <2> QED
    BY <2>2, <2>3, Zenon
<1> HIDE DEF Same
<1>8. ASSUME NEW p \in Peer, NEW e \in Ext,
             \/ \E n \in 1..MaxBytes[p][e] : WriteExtended(p, e, n)
             \/ ReadExtended(p, e) \/ AdjustWindow(p, e)
      PROVE  WindowInv'
  <2>1. Same /\ UNCHANGED <<sentClose, winClosed>> /\ connUp' = connUp
    BY <1>1, <1>8, Zenon
  <2> QED
    BY <1>6, <2>1, Zenon
<1>9. ASSUME NEW p \in Peer, CloseChannel(p) \/ StopIdle(p) \/ LoopSpins(p) PROVE WindowInv'
  <2>1. Same /\ UNCHANGED <<sentClose, winClosed>> /\ connUp' = connUp
    BY <1>2, <1>9, Zenon
  <2> QED
    BY <1>6, <2>1, Zenon
<1>10. ASSUME UNCHANGED vars PROVE WindowInv'
  <2>1. Same /\ UNCHANGED <<sentClose, winClosed>> /\ connUp' = connUp
    BY <1>4, <1>10, Zenon
  <2> QED
    BY <1>6, <2>1, Zenon
<1>11. ASSUME ConnLost PROVE WindowInv'
    BY <1>3, <1>6, <1>11, Zenon
<1> QED
    BY <1>7, <1>8, <1>9, <1>10, <1>11, Zenon

\* At the opening all of the window is the writer's.
LEMMA InitWindow == Init => WindowInv
<1> SUFFICES ASSUME Init, NEW p \in Peer PROVE Books(p) /\ CreditRuns(p)
    BY Zenon DEF WindowInv
<1>0. 0 \in Ext /\ 1 \in Ext /\ Other(p) \in Peer
    BY PeerFacts, Zenon DEF Ext
<1>1. /\ remoteWin[p] = WindowSize /\ credited[p] = 0 /\ granted[p] = 0
      /\ winClosed[p] = FALSE
      /\ wgot[p][0] = 0 /\ wgot[p][1] = 0 /\ sent[p][0] = 0 /\ sent[p][1] = 0
      /\ rgot[p][0] = 0 /\ rgot[p][1] = 0 /\ rd[p][0] = 0 /\ rd[p][1] = 0
    BY <1>0, Zenon DEF Init
<1>2. Books(p)
  <2>1. /\ Total(wgot[p]) = 0 /\ Total(sent[p]) = 0 /\ Total(rgot[p]) = 0
        /\ Total(rd[p]) = 0 /\ WindowSize \in Nat
    BY <1>1, SizeAssumption DEF Total
  <2>2. /\ remoteWin[p] + Total(wgot[p]) + Total(sent[p]) = WindowSize + credited[p]
        /\ granted[p] + Total(rgot[p]) = Total(rd[p])
    BY <1>1, <2>1
  <2> QED
    BY <1>1, <2>2, Zenon DEF Books
<1>3. CreditRuns(p)
  <2>1. wire[p] = <<>> /\ 1..Len(wire[p]) = {}
    BY DEF Init
  <2>2. credited[Other(p)] = 0
    BY <1>0, Zenon DEF Init
  <2> QED
    BY <1>1, <2>1, <2>2, Zenon DEF CreditRuns, Contiguous
<1> QED
    BY <1>2, <1>3, Zenon

\* Every step keeps the books.
LEMMA StepWindow ==
    FlowInv /\ FlowInv' /\ StreamInv /\ WindowInv /\ [Next]_vars => WindowInv'
<1> SUFFICES ASSUME FlowInv, FlowInv', StreamInv, WindowInv, [Next]_vars PROVE WindowInv'
    BY Zenon
<1>1. ASSUME NEW p \in Peer, NEW e \in Ext,
             \/ \E n \in 1..MaxBytes[p][e] : WriteExtended(p, e, n)
             \/ Writer(p, e) \/ ReadExtended(p, e) \/ Reader(p, e)
      PROVE  WindowInv'
    BY <1>1, ReserveWindow, SendDataWindow, BufferReadWindow, AnnounceWindowWindow,
       IdleWindow, Zenon DEF Writer, Reader
<1>2. ASSUME NEW p \in Peer, CloseWrite(p) \/ CloseChannel(p) \/ SendClose(p) \/ MuxLoop(p)
      PROVE  WindowInv'
    BY <1>2, CloseWindow, OnePacketWindow, IdleWindow, Zenon DEF MuxLoop
<1>3. ASSUME ConnLost \/ UNCHANGED vars PROVE WindowInv'
    BY <1>3, IdleWindow, Zenon
<1> QED
    BY <1>1, <1>2, <1>3, Zenon DEF Next

\* The inductive invariant of the window, on top of the ledger and of the streams.
LEMMA WindowHolds == Spec => []WindowInv
<1>1. Init => WindowInv
    BY InitWindow, Zenon
<1>2. FlowInv /\ FlowInv' /\ StreamInv /\ WindowInv /\ [Next]_vars => WindowInv'
    BY StepWindow, Zenon
<1> QED
    BY <1>1, <1>2, LedgerHolds, StreamsHold, PTL DEF Spec

\* For every window, packet size and amount of data: while neither side has closed, every
\* byte of the initial window is with the writer, on the wire, in the buffers, in a
\* reader's hands or on its way back.
THEOREM WindowIsConserved == Spec => []WindowConserved
<1>1. FlowInv /\ StreamInv /\ WindowInv => WindowConserved
  <2> SUFFICES ASSUME FlowInv, StreamInv, WindowInv, NEW p \in Peer,
                      connUp, ~sentClose[p], ~sentClose[Other(p)]
               PROVE  LET q == Other(p) IN
                      /\ remoteWin[p] + wgot[p][0] + wgot[p][1]
                         + (sent[p][0] - rcvd[q][0]) + (sent[p][1] - rcvd[q][1])
                         + (rcvd[q][0] - rd[q][0]) + (rcvd[q][1] - rd[q][1])
                         + rgot[q][0] + rgot[q][1] + (granted[q] - credited[p]) = WindowSize
                      /\ \A e \in Ext :
                            Contiguous(wire[p], "data", e, rcvd[q][e], sent[p][e])
                      /\ Contiguous(wire[q], "adjust", 0, credited[p], granted[q])
    BY Zenon DEF WindowConserved
  <2> DEFINE q == Other(p)
  <2>0. q \in Peer /\ Other(q) = p /\ 0 \in Ext /\ 1 \in Ext /\ TypeOK
    BY PeerFacts, Zenon DEF Ext, FlowInv
  <2>1. /\ remoteWin[p] + Total(wgot[p]) + Total(sent[p]) = WindowSize + credited[p]
        /\ granted[q] + Total(rgot[q]) = Total(rd[q])
    BY <2>0, Zenon DEF WindowInv, Books
  <2>2. /\ \A e \in Ext : Contiguous(wire[p], "data", e, rcvd[q][e], sent[p][e])
        /\ Contiguous(wire[q], "adjust", 0, credited[p], granted[q])
    BY <2>0, Zenon DEF StreamInv, WireInv, Outgoing, Unbroken, WindowInv, CreditRuns
  <2> HIDE DEF q
  <2>3. /\ remoteWin[p] \in Nat /\ credited[p] \in Nat /\ granted[q] \in Nat
        /\ WindowSize \in Nat
        /\ wgot[p][0] \in Nat /\ wgot[p][1] \in Nat /\ sent[p][0] \in Nat
        /\ sent[p][1] \in Nat /\ rcvd[q][0] \in Nat /\ rcvd[q][1] \in Nat
        /\ rd[q][0] \in Nat /\ rd[q][1] \in Nat /\ rgot[q][0] \in Nat
        /\ rgot[q][1] \in Nat
    BY <2>0, Counters, Zenon
  <2>4. remoteWin[p] + wgot[p][0] + wgot[p][1]
        + (sent[p][0] - rcvd[q][0]) + (sent[p][1] - rcvd[q][1])
        + (rcvd[q][0] - rd[q][0]) + (rcvd[q][1] - rd[q][1])
        + rgot[q][0] + rgot[q][1] + (granted[q] - credited[p]) = WindowSize
    <3> DEFINE room == remoteWin[p]   credit == credited[p]   grant == granted[q]
               w0 == wgot[p][0]   w1 == wgot[p][1]   s0 == sent[p][0]   s1 == sent[p][1]
               c0 == rcvd[q][0]   c1 == rcvd[q][1]   d0 == rd[q][0]     d1 == rd[q][1]
               g0 == rgot[q][0]   g1 == rgot[q][1]
    <3>1. /\ room + (w0 + w1) + (s0 + s1) = WindowSize + credit
          /\ grant + (g0 + g1) = d0 + d1
        BY <2>1, Zenon DEF Total
    <3>2. /\ room \in Int /\ credit \in Int /\ grant \in Int /\ WindowSize \in Int
          /\ w0 \in Int /\ w1 \in Int /\ s0 \in Int /\ s1 \in Int /\ c0 \in Int /\ c1 \in Int
          /\ d0 \in Int /\ d1 \in Int /\ g0 \in Int /\ g1 \in Int
        BY <2>3
    <3> HIDE DEF room, credit, grant, w0, w1, s0, s1, c0, c1, d0, d1, g0, g1
    <3> DEFINE held == room + w0 + w1   total == s0 + s1   taken == d0 + d1
    <3>3. held + (s0 - c0) + (s1 - c1) + (c0 - d0) + (c1 - d1) = held + total - taken
        BY <3>2
    <3>4. held + total = WindowSize + credit /\ grant + g0 + g1 = taken
        BY <3>1, <3>2
    <3>5. held \in Int /\ total \in Int /\ taken \in Int
        BY <3>2
    <3> HIDE DEF held, total, taken
    <3>6. held + total - taken + g0 + g1 + (grant - credit) = WindowSize
        BY <3>2, <3>4, <3>5
    <3>7. held + (s0 - c0) + (s1 - c1) + (c0 - d0) + (c1 - d1) + g0 + g1
          + (grant - credit) = WindowSize
        BY <3>3, <3>6, Zenon
    <3> QED
        BY <3>7, Zenon DEF room, credit, grant, w0, w1, s0, s1, c0, c1, d0, d1, g0, g1,
           held
  <2> QED
    BY <2>2, <2>4, Zenon DEF q
<1> QED
    BY <1>1, LedgerHolds, StreamsHold, WindowHolds, PTL

-----------------------------------------------------------------------------
(* The channel is a stream *)

\* A step of a writer is a Write of the stream.
LEMMA SendDataWrites ==
    ASSUME FlowInv, StreamInv, NEW p \in Peer, NEW e \in Ext, SendData(p, e)
    PROVE  [Stream!Next]_(Stream!vars)
<1> DEFINE q == Other(p)
           n == wgot[p][e]
<1>0. 0 \in Ext /\ 1 \in Ext /\ TypeOK /\ Ledger /\ q \in Peer /\ Other(q) = p
    BY PeerFacts, Zenon DEF FlowInv, Ext
<1>1. UNCHANGED <<rd, eofSeen, connUp>>
    BY Zenon DEF SendData, rVars, muxVars
<1>2. CASE sent' = sent
    BY <1>1, <1>2, Zenon DEF Stream!vars
<1>3. CASE sent' # sent
  <2>1. ~sentClose[p] /\ connUp /\ sent' = [sent EXCEPT ![p][e] = @ + n]
    BY <1>3, Zenon DEF SendData
  <2>2. /\ n \in Nat /\ n <= MaxPacket /\ Total(wgot[p]) \in Nat /\ n <= Total(wgot[p])
        /\ Total(sent[p]) \in Nat /\ Total(rd[q]) \in Nat /\ Total(rgot[q]) \in Nat
        /\ remoteWin[p] \in Nat /\ credited[p] \in Nat /\ granted[q] \in Nat
    <3>1. /\ \A d \in Ext : /\ wgot[p][d] \in Nat /\ sent[p][d] \in Nat /\ rd[q][d] \in Nat
                            /\ rgot[q][d] \in Nat
          /\ remoteWin[p] \in Nat /\ credited[p] \in Nat /\ granted[q] \in Nat
        BY <1>0, Counters, Zenon
    <3>2. n <= MaxPacket
        BY <1>0, Zenon DEF Ledger, InHand
    <3>3. e = 0 \/ e = 1
        BY Zenon DEF Ext
    <3> QED
        BY <1>0, <3>1, <3>2, <3>3 DEF Total
  <2>3. n # 0
    <3>1. sent[p][e] \in Nat
        BY <1>0, Counters, Zenon
    <3>2. n = 0 => sent[p][e] + n = sent[p][e]
        BY <3>1
    <3>3. sent \in [Peer -> [Ext -> Nat]]
        BY <1>0, Zenon DEF TypeOK
    <3>4. [sent EXCEPT ![p][e] = sent[p][e]] = sent
        BY <3>3, Zenon
    <3> QED
        BY <1>3, <2>1, <3>2, <3>4, Zenon
  <2>4. n \in 1..WindowSize
    BY <2>2, <2>3, SizeAssumption
  <2>5. Total(sent[p]) + n - Total(rd[q]) <= WindowSize
    <3>1. remoteWin[p] + Total(wgot[p]) + Total(sent[p]) <= WindowSize + credited[p]
        BY <1>0, Zenon DEF Ledger, WriterLedger
    <3>2. granted[q] + Total(rgot[q]) <= Total(rd[q])
        BY <1>0, Zenon DEF Ledger, ReaderLedger
    <3>3. credited[p] <= granted[q]
        BY <1>0, Zenon DEF Ledger, CreditOnWire, CreditChain
    <3> QED
        BY <2>2, <3>1, <3>2, <3>3, SizeAssumption
  <2>6. ~(e = 0 /\ eofSeen[q][e])
    <3> SUFFICES ASSUME e = 0, eofSeen[q][0] PROVE FALSE
        BY Zenon
    <3>1. bufClosed[q]
        BY <1>0, Zenon DEF StreamInv, EndInv, AllRead
    <3>2. sentEOF[p]
        BY <1>0, <2>1, <3>1, Zenon DEF StreamInv, WireInv, AllArrived
    <3>3. wpc[p][0] = "idle"
        BY <3>2, Zenon DEF StreamInv, EndInv, WriterDone
    <3> QED
        BY <3>3, Zenon DEF SendData
  <2>7. Stream!Write(p, e, n)
    BY <1>1, <2>1, <2>5, <2>6, Zenon DEF Stream!Write, Stream!Total, Total
  <2> QED
    BY <2>4, <2>7, Zenon DEF Stream!Next
<1> QED
    BY <1>2, <1>3, Zenon

\* A step of a reader is a Read of the stream, or its End.
LEMMA BufferReadReads ==
    ASSUME FlowInv, StreamInv, NEW p \in Peer, NEW e \in Ext, BufferRead(p, e)
    PROVE  [Stream!Next]_(Stream!vars)
<1> DEFINE q == Other(p)
<1>0. 0 \in Ext /\ 1 \in Ext /\ TypeOK /\ Ledger /\ q \in Peer /\ Other(q) = p
    BY PeerFacts, Zenon DEF FlowInv, Ext
<1>1. UNCHANGED <<sent, connUp>>
    BY Zenon DEF BufferRead, muxVars
<1>2. CASE rd' = rd /\ eofSeen' = eofSeen
    BY <1>1, <1>2, Zenon DEF Stream!vars
<1>3. ASSUME NEW n \in 1..(rcvd[p][e] - rd[p][e]),
             rd' = [rd EXCEPT ![p][e] = @ + n], eofSeen' = eofSeen
      PROVE  Stream!Next
  <2>1. /\ \A d \in Ext : /\ rcvd[p][d] \in Nat /\ rd[p][d] \in Nat /\ rgot[p][d] \in Nat
                          /\ sent[q][d] \in Nat /\ rd[p][d] <= rcvd[p][d]
        /\ myWindow[p] \in Nat
    BY <1>0, Counters, Zenon DEF Ledger, ReaderLedger
  <2>2. Unadjusted(p) \in Nat
    BY <1>0, <2>1 DEF Unadjusted
  <2>3. myWindow[p] + Total(rcvd[p]) + Unadjusted(p) = WindowSize + Total(rd[p])
    BY <1>0, Zenon DEF Ledger, ReaderLedger
  <2>4. rcvd[p][e] - rd[p][e] <= WindowSize
    <3>1. e = 0 \/ e = 1
        BY Zenon DEF Ext
    <3> QED
        BY <1>0, <2>1, <2>2, <2>3, <3>1, SizeAssumption DEF Total
  <2>5. rcvd[p][e] <= sent[q][e]
    BY <1>0, Zenon DEF Ledger, DataOnWire, DataChain
  <2>6. n \in 1..WindowSize /\ rd[p][e] + n <= sent[q][e]
    BY <2>1, <2>4, <2>5, SizeAssumption
  <2>7. Stream!Read(p, e, n)
    BY <1>1, <1>3, <2>6, Zenon DEF Stream!Read
  <2> QED
    BY <2>6, <2>7, Zenon DEF Stream!Next
<1>4. ASSUME rcvd[p][e] = rd[p][e], bufClosed[p], rd' = rd,
             eofSeen' = [eofSeen EXCEPT ![p][e] = TRUE]
      PROVE  Stream!Next
  <2>1. e = 0 /\ connUp => rd[p][e] = sent[q][e]
    BY <1>4, EndIsAll, Zenon
  <2>2. Stream!End(p, e)
    BY <1>1, <1>4, <2>1, Zenon DEF Stream!End
  <2> QED
    BY <2>2, Zenon DEF Stream!Next
<1> QED
    BY <1>2, <1>3, <1>4, Zenon DEF BufferRead

\* Every other step leaves the streams alone, or breaks the connection.
LEMMA StepRefines == FlowInv /\ StreamInv /\ [Next]_vars => [Stream!Next]_(Stream!vars)
<1> SUFFICES ASSUME FlowInv, StreamInv, [Next]_vars PROVE [Stream!Next]_(Stream!vars)
    BY Zenon
<1>1. ASSUME UNCHANGED <<sent, rd, eofSeen>>, connUp' = connUp \/ ~connUp'
      PROVE  [Stream!Next]_(Stream!vars)
    BY <1>1, Zenon DEF Stream!Next, Stream!Break, Stream!vars
<1>2. ASSUME NEW p \in Peer, NEW e \in Ext,
             \/ \E n \in 1..MaxBytes[p][e] : WriteExtended(p, e, n)
             \/ Reserve(p, e) \/ ReadExtended(p, e) \/ AdjustWindow(p, e)
             \/ AnnounceWindow(p, e)
      PROVE  UNCHANGED <<sent, rd, eofSeen, connUp>>
    BY <1>2, Zenon DEF WriteExtended, Reserve, ReadExtended, AdjustWindow, AnnounceWindow,
       byteVars, rVars, muxVars
<1>3. ASSUME NEW p \in Peer,
             \/ CloseWrite(p) \/ CloseChannel(p) \/ SendClose(p) \/ StopIdle(p)
             \/ LoopSpins(p)
      PROVE  UNCHANGED <<sent, rd, eofSeen, connUp>>
    BY <1>3, Zenon DEF CloseWrite, CloseChannel, SendClose, StopIdle, LoopSpins, byteVars,
       rVars, muxVars
<1>4. ASSUME NEW p \in Peer, OnePacket(p) \/ LoopFails(p)
      PROVE  UNCHANGED <<sent, rd, eofSeen>> /\ (connUp' = connUp \/ ~connUp')
  <2>1. ASSUME NEW e, LoopExit(p, e) PROVE UNCHANGED <<sent, rd, eofSeen>> /\ ~connUp'
    BY <2>1, Zenon DEF LoopExit, byteVars
  <2>2. ASSUME NEW pkt,
               \/ HandleData(p, pkt) \/ HandleAdjust(p, pkt)
               \/ HandleEOF(p, pkt) \/ HandleClose(p, pkt)
        PROVE  UNCHANGED <<sent, rd, eofSeen>> /\ (connUp' = connUp \/ ~connUp')
    <3>1. CASE HandleData(p, pkt)
        BY <2>1, <3>1, Zenon DEF HandleData, muxVars
    <3>2. CASE HandleAdjust(p, pkt)
        BY <2>1, <3>2, Zenon DEF HandleAdjust, rVars, muxVars
    <3>3. CASE HandleEOF(p, pkt) \/ HandleClose(p, pkt)
        BY <3>3, Zenon DEF HandleEOF, HandleClose, byteVars, muxVars
    <3> QED
        BY <2>2, <3>1, <3>2, <3>3, Zenon
  <2> QED
    BY <1>4, <2>1, <2>2, Zenon DEF OnePacket, LoopFails
<1>5. ASSUME ConnLost \/ UNCHANGED vars
      PROVE  UNCHANGED <<sent, rd, eofSeen>> /\ (connUp' = connUp \/ ~connUp')
    BY <1>5, Zenon DEF ConnLost, vars, byteVars, rVars, muxVars
<1> QED
    BY <1>1, <1>2, <1>3, <1>4, <1>5, SendDataWrites, BufferReadReads, Zenon
       DEF Next, Writer, Reader, MuxLoop

\* For every window, packet size and amount of data the channel implements the ordered,
\* reliable, flow-controlled stream its documentation promises.
THEOREM ChannelIsAStream == Spec => ImplementsStream
<1>1. Init => Stream!Init
    BY Zenon DEF Init, Stream!Init
<1>2. FlowInv /\ StreamInv /\ [Next]_vars => [Stream!Next]_(Stream!vars)
    BY StepRefines, Zenon
<1> QED
    BY <1>1, <1>2, LedgerHolds, StreamsHold, PTL DEF Spec, ImplementsStream, Stream!Spec
=============================================================================

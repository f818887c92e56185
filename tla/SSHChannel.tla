----------------------------- MODULE SSHChannel -----------------------------
(***************************************************************************)
(* The data path of one established SSH channel between two peers:         *)
(* xcryptossh/channel.go, with the window of common.go and the buffer of   *)
(* buffer.go.  Each peer has one writer and one reader goroutine for the   *)
(* main stream (extended code 0) and for stderr (code 1), goroutines that  *)
(* call CloseWrite and Close, and the mux goroutine that handles the       *)
(* packets that arrive.                                                    *)
(*                                                                         *)
(* A byte is its position in its stream: a data packet holds the bytes     *)
(* lo+1..hi.  An adjust packet for n bytes is written lo..hi with          *)
(* hi - lo = n, the span it covers of all the credit its sender announces. *)
(* sent, rcvd, rd, granted and credited count from the opening of the      *)
(* channel; the code keeps remoteWin and myWindow only.                    *)
(***************************************************************************)
EXTENDS Integers, Sequences

CONSTANTS
    WindowSize,   \* channelWindowSize
    MaxPacket,    \* channelMaxPacket
    UintMod,      \* 2^32, the range of the uint32 window fields
    MaxBytes      \* bound: bytes the application writes, per peer and stream

Peer == {"client", "server"}
Other(p) == IF p = "client" THEN "server" ELSE "client"
Ext == {0, 1}

ASSUME SizeAssumption ==
    /\ WindowSize \in Nat \ {0}
    /\ MaxPacket \in 1..WindowSize
    /\ UintMod \in Nat
    /\ WindowSize < UintMod
ASSUME BytesAssumption == MaxBytes \in [Peer -> [Ext -> Nat]]

VARIABLES
    remoteWin,    \* c.remoteWin.win: what p may still send
    winClosed,    \* c.remoteWin.closed
    myWindow,     \* c.myWindow: what p allows the other to send
    wire,         \* wire[p]: packets p sent, not yet handled by the other
    sent, rcvd, rd,        \* bytes put on the wire, buffered, and read
    granted, credited,     \* credit announced by p, and received by p
    wpc, wtodo, wgot,      \* writers: point in WriteExtended, len(data), space
    rpc, rgot,             \* readers: point in ReadExtended, n
    eofSeen,      \* a Read of p on the stream has returned io.EOF
    sentEOF, sentClose, hasClosed,
    bufClosed,    \* buffer.closed
    halted,       \* idleR.Halt has been asked to stop
    inList,       \* the channel is in the chanList of p's mux
    closes,       \* how often channel.close() ran
    err,          \* error that ended the mux loop of p, or that it spins on
    connUp        \* the transport still carries packets

winVars  == <<remoteWin, winClosed, myWindow>>
byteVars == <<sent, rcvd, rd, granted, credited>>
wVars    == <<wpc, wtodo, wgot>>
rVars    == <<rpc, rgot, eofSeen>>
lifeVars == <<sentEOF, sentClose, hasClosed, bufClosed, halted, inList, closes>>
muxVars  == <<err, connUp>>
vars == <<winVars, wire, byteVars, wVars, rVars, lifeVars, muxVars>>

DataPkt(e, lo, hi) == [type |-> "data", ext |-> e, lo |-> lo, hi |-> hi]
AdjustPkt(lo, hi)  == [type |-> "adjust", ext |-> 0, lo |-> lo, hi |-> hi]
EofPkt             == [type |-> "eof", ext |-> 0, lo |-> 0, hi |-> 0]
ClosePkt           == [type |-> "close", ext |-> 0, lo |-> 0, hi |-> 0]
Packet == [type : {"data", "adjust", "eof", "close"}, ext : Ext,
           lo : Nat, hi : Nat]

TypeOK ==
    /\ remoteWin \in [Peer -> 0..(UintMod - 1)]
    /\ winClosed \in [Peer -> BOOLEAN]
    /\ myWindow \in [Peer -> 0..(UintMod - 1)]
    /\ wire \in [Peer -> Seq(Packet)]
    /\ sent \in [Peer -> [Ext -> Nat]]
    /\ rcvd \in [Peer -> [Ext -> Nat]]
    /\ rd \in [Peer -> [Ext -> Nat]]
    /\ granted \in [Peer -> Nat]
    /\ credited \in [Peer -> Nat]
    /\ wpc \in [Peer -> [Ext -> {"idle", "reserve", "wait", "recheck", "send"}]]
    /\ wtodo \in [Peer -> [Ext -> Nat]]
    /\ wgot \in [Peer -> [Ext -> Nat]]
    /\ rpc \in [Peer -> [Ext -> {"idle", "read", "wait", "adjust", "announce"}]]
    /\ rgot \in [Peer -> [Ext -> Nat]]
    /\ eofSeen \in [Peer -> [Ext -> BOOLEAN]]
    /\ sentEOF \in [Peer -> BOOLEAN]
    /\ sentClose \in [Peer -> BOOLEAN]
    /\ hasClosed \in [Peer -> BOOLEAN]
    /\ bufClosed \in [Peer -> BOOLEAN]
    /\ halted \in [Peer -> BOOLEAN]
    /\ inList \in [Peer -> BOOLEAN]
    /\ closes \in [Peer -> Nat]
    /\ err \in [Peer -> {"none", "payload", "too much", "bad window",
                         "invalid channel", "lost", "timed out"}]
    /\ connUp \in BOOLEAN

\* newChannel on both sides, with the window each side announced in its
\* channelOpen or channelOpenConfirm message.
Init ==
    /\ remoteWin = [p \in Peer |-> WindowSize]
    /\ winClosed = [p \in Peer |-> FALSE]
    /\ myWindow = [p \in Peer |-> WindowSize]
    /\ wire = [p \in Peer |-> <<>>]
    /\ sent = [p \in Peer |-> [e \in Ext |-> 0]]
    /\ rcvd = [p \in Peer |-> [e \in Ext |-> 0]]
    /\ rd = [p \in Peer |-> [e \in Ext |-> 0]]
    /\ granted = [p \in Peer |-> 0]
    /\ credited = [p \in Peer |-> 0]
    /\ wpc = [p \in Peer |-> [e \in Ext |-> "idle"]]
    /\ wtodo = [p \in Peer |-> [e \in Ext |-> 0]]
    /\ wgot = [p \in Peer |-> [e \in Ext |-> 0]]
    /\ rpc = [p \in Peer |-> [e \in Ext |-> "idle"]]
    /\ rgot = [p \in Peer |-> [e \in Ext |-> 0]]
    /\ eofSeen = [p \in Peer |-> [e \in Ext |-> FALSE]]
    /\ sentEOF = [p \in Peer |-> FALSE]
    /\ sentClose = [p \in Peer |-> FALSE]
    /\ hasClosed = [p \in Peer |-> FALSE]
    /\ bufClosed = [p \in Peer |-> FALSE]
    /\ halted = [p \in Peer |-> FALSE]
    /\ inList = [p \in Peer |-> TRUE]
    /\ closes = [p \in Peer |-> 0]
    /\ err = [p \in Peer |-> "none"]
    /\ connUp = TRUE

-----------------------------------------------------------------------------
MinOf(a, b) == IF a <= b THEN a ELSE b

\* The sum of two uint32 values, as a uint32.
Wrap(sum) == IF sum >= UintMod THEN sum - UintMod ELSE sum

\* Cond.Broadcast: the goroutines in Wait run on and look again.
WakeWriters(p, except) ==
    [e \in Ext |-> IF wpc[p][e] = "wait" /\ e \notin except
                   THEN "recheck" ELSE wpc[p][e]]
WakeReaders(p, on) ==
    [e \in Ext |-> IF rpc[p][e] = "wait" /\ e \in on THEN "read" ELSE rpc[p][e]]

\* channel.writePacket for a packet that is not a close, when sentClose is
\* not set.  What is written to a broken transport is lost.
WritePacket(p, pkt) ==
    wire' = IF connUp THEN [wire EXCEPT ![p] = Append(@, pkt)] ELSE wire

-----------------------------------------------------------------------------
(* Writers *)

\* Write or Stderr().Write is called with n bytes.
WriteExtended(p, e, n) ==
    /\ wpc[p][e] = "idle"
    /\ ~sentEOF[p]
    /\ n <= MaxBytes[p][e] - sent[p][e]
    /\ wpc' = [wpc EXCEPT ![p][e] = "reserve"]
    /\ wtodo' = [wtodo EXCEPT ![p][e] = n]
    /\ UNCHANGED <<winVars, wire, byteVars, wgot, rVars, lifeVars, muxVars>>

\* window.reserve: from its first line, or from the return of its Wait.  Once
\* halted, reserveShouldReturn says io.EOF, or finds the goroutine of the idle
\* timer, about to stop, still saying that there was no timeout.
Reserve(p, e) ==
    /\ wpc[p][e] \in {"reserve", "recheck"}
    /\ LET others == IF wpc[p][e] = "reserve" THEN WakeWriters(p, {e}) ELSE wpc[p]
           space  == MinOf(MinOf(MaxPacket, wtodo[p][e]), remoteWin[p])
       IN  \/ /\ halted[p]                         \* reserveShouldReturn: io.EOF
              /\ wpc' = [wpc EXCEPT ![p][e] = "idle"]
              /\ wtodo' = [wtodo EXCEPT ![p][e] = 0]
              /\ UNCHANGED <<remoteWin, wgot>>
           \/ /\ remoteWin[p] = 0 /\ ~winClosed[p]
              /\ wpc' = [wpc EXCEPT ![p] = [others EXCEPT ![e] = "wait"]]
              /\ UNCHANGED <<remoteWin, wtodo, wgot>>
           \/ /\ ~winClosed[p] /\ remoteWin[p] > 0
              /\ remoteWin' = [remoteWin EXCEPT ![p] = @ - space]
              /\ wgot' = [wgot EXCEPT ![p][e] = space]
              /\ wpc' = [wpc EXCEPT ![p] = [others EXCEPT ![e] = "send"]]
              /\ UNCHANGED wtodo
           \/ /\ winClosed[p]                      \* io.EOF, the window spent
              /\ remoteWin' = [remoteWin EXCEPT ![p] = @ - space]
              /\ wpc' = [wpc EXCEPT ![p] = [others EXCEPT ![e] = "idle"]]
              /\ wtodo' = [wtodo EXCEPT ![p][e] = 0]
              /\ UNCHANGED wgot
    /\ UNCHANGED <<winClosed, myWindow, wire, byteVars, rVars, lifeVars, muxVars>>

\* WriteExtended hands the reserved bytes to writePacket, and loops.
SendData(p, e) ==
    /\ wpc[p][e] = "send"
    /\ wgot' = [wgot EXCEPT ![p][e] = 0]
    /\ \/ /\ ~sentClose[p]
          /\ LET hi == sent[p][e] + wgot[p][e] IN
             /\ WritePacket(p, DataPkt(e, sent[p][e], hi))
             /\ sent' = IF connUp THEN [sent EXCEPT ![p][e] = hi] ELSE sent
          /\ wtodo' = [wtodo EXCEPT ![p][e] = @ - wgot[p][e]]
          /\ wpc' = [wpc EXCEPT ![p][e] =
                        IF wtodo[p][e] = wgot[p][e] THEN "idle" ELSE "reserve"]
       \/ /\ sentClose[p] \/ ~connUp               \* writePacket fails
          /\ wtodo' = [wtodo EXCEPT ![p][e] = 0]
          /\ wpc' = [wpc EXCEPT ![p][e] = "idle"]
          /\ UNCHANGED <<wire, sent>>
    /\ UNCHANGED <<winVars, rcvd, rd, granted, credited, rVars, lifeVars, muxVars>>

-----------------------------------------------------------------------------
(* Readers *)

\* Read or Stderr().Read is called.  Bound: only on the streams that the
\* other side may write.
ReadExtended(p, e) ==
    /\ rpc[p][e] = "idle"
    /\ MaxBytes[Other(p)][e] > 0
    /\ rpc' = [rpc EXCEPT ![p][e] = "read"]
    /\ UNCHANGED <<winVars, wire, byteVars, wVars, rgot, eofSeen, lifeVars, muxVars>>

\* Mutant: the end is reported before what is still buffered.
BufferReadEofFirst(p, e) ==
    /\ rpc[p][e] = "read"
    /\ \/ \E n \in 1..(rcvd[p][e] - rd[p][e]) :
              /\ ~bufClosed[p]
              /\ rd' = [rd EXCEPT ![p][e] = @ + n]
              /\ rgot' = [rgot EXCEPT ![p][e] = n]
              /\ rpc' = [rpc EXCEPT ![p][e] = "adjust"]
              /\ UNCHANGED eofSeen
       \/ /\ bufClosed[p]
          /\ eofSeen' = [eofSeen EXCEPT ![p][e] = TRUE]
          /\ rpc' = [rpc EXCEPT ![p][e] = "idle"]
          /\ UNCHANGED <<rd, rgot>>
    /\ UNCHANGED <<winVars, wire, sent, rcvd, granted, credited, wVars,
                   lifeVars, muxVars>>

\* buffer.Read, up to its return or its Wait: n of the bytes buffered, n
\* being as many as the caller's slice holds.
BufferRead(p, e) ==
    /\ rpc[p][e] = "read"
    /\ \/ \E n \in 1..(rcvd[p][e] - rd[p][e]) :
              /\ rd' = [rd EXCEPT ![p][e] = @ + n]
              /\ rgot' = [rgot EXCEPT ![p][e] = n]
              /\ rpc' = [rpc EXCEPT ![p][e] = "adjust"]
              /\ UNCHANGED eofSeen
       \/ /\ rcvd[p][e] = rd[p][e] /\ bufClosed[p]
          /\ eofSeen' = [eofSeen EXCEPT ![p][e] = TRUE]
          /\ rpc' = [rpc EXCEPT ![p][e] = "idle"]
          /\ UNCHANGED <<rd, rgot>>
       \/ /\ rcvd[p][e] = rd[p][e] /\ ~bufClosed[p]
          /\ rpc' = [rpc EXCEPT ![p][e] = "wait"]
          /\ UNCHANGED <<rd, rgot, eofSeen>>
    /\ UNCHANGED <<winVars, wire, sent, rcvd, granted, credited, wVars,
                   lifeVars, muxVars>>

\* Mutant: the window is announced, but not added to myWindow.
AdjustWindowForgotten(p, e) ==
    /\ rpc[p][e] = "adjust"
    /\ rpc' = [rpc EXCEPT ![p][e] = "announce"]
    /\ UNCHANGED <<winVars, wire, byteVars, wVars, rgot, eofSeen, lifeVars, muxVars>>

\* adjustWindow, under windowMu.
AdjustWindow(p, e) ==
    /\ rpc[p][e] = "adjust"
    /\ myWindow' = [myWindow EXCEPT ![p] = Wrap(@ + rgot[p][e])]
    /\ rpc' = [rpc EXCEPT ![p][e] = "announce"]
    /\ UNCHANGED <<remoteWin, winClosed, wire, byteVars, wVars, rgot, eofSeen,
                   lifeVars, muxVars>>

\* Mutant: the window is announced after the close as well.
AnnounceWindowAfterClose(p, e) ==
    /\ rpc[p][e] = "announce"
    /\ rpc' = [rpc EXCEPT ![p][e] = "idle"]
    /\ rgot' = [rgot EXCEPT ![p][e] = 0]
    /\ LET hi == granted[p] + rgot[p][e] IN
       /\ WritePacket(p, AdjustPkt(granted[p], hi))
       /\ granted' = [granted EXCEPT ![p] = hi]
    /\ UNCHANGED <<winVars, sent, rcvd, rd, credited, wVars, eofSeen, lifeVars,
                   muxVars>>

\* Mutant: reading stderr gives nothing back.
AnnounceWindowMainOnly(p, e) ==
    /\ rpc[p][e] = "announce"
    /\ rpc' = [rpc EXCEPT ![p][e] = "idle"]
    /\ rgot' = [rgot EXCEPT ![p][e] = 0]
    /\ LET hi == granted[p] + rgot[p][e] IN
       IF e = 1 \/ sentClose[p] \/ ~connUp
       THEN UNCHANGED <<wire, granted>>
       ELSE /\ WritePacket(p, AdjustPkt(granted[p], hi))
            /\ granted' = [granted EXCEPT ![p] = hi]
    /\ UNCHANGED <<winVars, sent, rcvd, rd, credited, wVars, eofSeen, lifeVars,
                   muxVars>>

\* adjustWindow's sendMessage; ReadExtended returns the n bytes even if the
\* message cannot be sent.
AnnounceWindow(p, e) ==
    /\ rpc[p][e] = "announce"
    /\ rpc' = [rpc EXCEPT ![p][e] = "idle"]
    /\ rgot' = [rgot EXCEPT ![p][e] = 0]
    /\ LET hi == granted[p] + rgot[p][e] IN
       IF sentClose[p] \/ ~connUp
       THEN UNCHANGED <<wire, granted>>
       ELSE /\ WritePacket(p, AdjustPkt(granted[p], hi))
            /\ granted' = [granted EXCEPT ![p] = hi]
    /\ UNCHANGED <<winVars, sent, rcvd, rd, credited, wVars, eofSeen, lifeVars,
                   muxVars>>

-----------------------------------------------------------------------------
(* Ending the channel *)

\* CloseWrite, called by the goroutine that writes the main stream.  Bound:
\* once per peer.
CloseWrite(p) ==
    /\ wpc[p][0] = "idle"
    /\ ~sentEOF[p]
    /\ sentEOF' = [sentEOF EXCEPT ![p] = TRUE]
    /\ IF sentClose[p] THEN UNCHANGED wire ELSE WritePacket(p, EofPkt)
    /\ UNCHANGED <<winVars, byteVars, wVars, rVars, sentClose, hasClosed,
                   bufClosed, halted, inList, closes, muxVars>>

\* Close, from any goroutine: only the first call has an effect.  Nobody is
\* woken here; that is left to channel.close() when the peer's close arrives.
CloseChannel(p) ==
    /\ ~hasClosed[p]
    /\ hasClosed' = [hasClosed EXCEPT ![p] = TRUE]
    /\ halted' = [halted EXCEPT ![p] = TRUE]
    /\ UNCHANGED <<winVars, wire, byteVars, wVars, rVars, sentEOF, sentClose,
                   bufClosed, inList, closes, muxVars>>

\* The sendMessage at the end of Close, unless the mux goroutine sends the
\* close first.
SendClose(p) ==
    /\ hasClosed[p] /\ ~sentClose[p]
    /\ sentClose' = [sentClose EXCEPT ![p] = TRUE]
    /\ WritePacket(p, ClosePkt)
    /\ UNCHANGED <<winVars, byteVars, wVars, rVars, sentEOF, hasClosed, halted,
                   bufClosed, inList, closes, muxVars>>

\* Mutant: remoteWin.close() without its Broadcast.
ForceCloseSilent(p) ==
    /\ inList' = [inList EXCEPT ![p] = FALSE]
    /\ closes' = [closes EXCEPT ![p] = @ + 1]
    /\ bufClosed' = [bufClosed EXCEPT ![p] = TRUE]
    /\ rpc' = [rpc EXCEPT ![p] = WakeReaders(p, Ext)]
    /\ sentClose' = [sentClose EXCEPT ![p] = TRUE]
    /\ winClosed' = [winClosed EXCEPT ![p] = TRUE]
    /\ UNCHANGED <<wpc, sentEOF, hasClosed, halted>>

\* channel.close() up to remoteWin.close(), after the channel has left the
\* chanList.  A second close() would close c.msg twice, which panics.
ForceClose(p) ==
    /\ inList' = [inList EXCEPT ![p] = FALSE]
    /\ closes' = [closes EXCEPT ![p] = @ + 1]
    /\ bufClosed' = [bufClosed EXCEPT ![p] = TRUE]
    /\ rpc' = [rpc EXCEPT ![p] = WakeReaders(p, Ext)]
    /\ sentClose' = [sentClose EXCEPT ![p] = TRUE]
    /\ winClosed' = [winClosed EXCEPT ![p] = TRUE]
    /\ wpc' = [wpc EXCEPT ![p] = WakeWriters(p, {})]
    /\ UNCHANGED <<sentEOF, hasClosed, halted>>

\* channel.close(), its last lines: idleR.Stop() and idleW.Stop().
StopIdle(p) ==
    /\ winClosed[p] /\ ~halted[p]
    /\ halted' = [halted EXCEPT ![p] = TRUE]
    /\ UNCHANGED <<winVars, wire, byteVars, wVars, rVars, sentEOF, sentClose,
                   hasClosed, bufClosed, inList, closes, muxVars>>

-----------------------------------------------------------------------------
(* The mux goroutine *)

\* mux.loop ends with error e: dropAll, close() of what was in the list, and
\* conn.Close().
LoopExit(p, e) ==
    /\ err' = [err EXCEPT ![p] = e]
    /\ connUp' = FALSE
    /\ IF inList[p]
       THEN ForceClose(p)
       ELSE UNCHANGED <<wpc, rpc, winClosed, lifeVars>>
    /\ UNCHANGED <<remoteWin, myWindow, byteVars, wtodo, wgot, rgot, eofSeen>>

\* Mutant: stderr ends up in the buffer of the main stream.
HandleDataOneBuffer(p, pkt) ==
    LET length == pkt.hi - pkt.lo IN
    /\ pkt.type = "data"
    /\ myWindow[p] >= length
    /\ myWindow' = [myWindow EXCEPT ![p] = @ - length]
    /\ rcvd' = [rcvd EXCEPT ![p][0] = @ + length]
    /\ rpc' = [rpc EXCEPT ![p] = WakeReaders(p, {0})]
    /\ UNCHANGED <<remoteWin, winClosed, sent, rd, granted, credited, wVars,
                   rgot, eofSeen, lifeVars, muxVars>>

\* handleData.  err is what onePacket returns.
HandleData(p, pkt) ==
    LET length == pkt.hi - pkt.lo IN
    /\ pkt.type = "data"
    /\ \/ /\ length > MaxPacket
          /\ LoopExit(p, "payload")
       \/ /\ length <= MaxPacket /\ myWindow[p] < length
          /\ LoopExit(p, "too much")
       \/ /\ length <= MaxPacket /\ myWindow[p] >= length
          /\ myWindow' = [myWindow EXCEPT ![p] = @ - length]
          /\ rcvd' = [rcvd EXCEPT ![p][pkt.ext] = @ + length]
          /\ rpc' = [rpc EXCEPT ![p] = WakeReaders(p, {pkt.ext})]
          /\ UNCHANGED <<remoteWin, winClosed, sent, rd, granted, credited, wVars,
                         rgot, eofSeen, lifeVars, muxVars>>

\* Mutant: window.add wakes nobody.
HandleAdjustSilent(p, pkt) ==
    LET n == pkt.hi - pkt.lo IN
    /\ pkt.type = "adjust"
    /\ remoteWin' = [remoteWin EXCEPT ![p] = Wrap(@ + n)]
    /\ credited' = [credited EXCEPT ![p] = @ + n]
    /\ UNCHANGED <<winClosed, myWindow, sent, rcvd, rd, granted, wVars,
                   rVars, lifeVars, muxVars>>

\* windowAdjustMsg: window.add, whose sum is a uint32.
HandleAdjust(p, pkt) ==
    LET n   == pkt.hi - pkt.lo
        sum == Wrap(remoteWin[p] + n)
    IN
    /\ pkt.type = "adjust"
    /\ \/ /\ sum < n
          /\ LoopExit(p, "bad window")
       \/ /\ sum >= n
          /\ remoteWin' = [remoteWin EXCEPT ![p] = sum]
          /\ credited' = [credited EXCEPT ![p] = @ + n]
          /\ wpc' = [wpc EXCEPT ![p] = WakeWriters(p, {})]
          /\ UNCHANGED <<winClosed, myWindow, sent, rcvd, rd, granted, wtodo, wgot,
                         rVars, lifeVars, muxVars>>

HandleEOF(p, pkt) ==
    /\ pkt.type = "eof"
    /\ bufClosed' = [bufClosed EXCEPT ![p] = TRUE]
    /\ rpc' = [rpc EXCEPT ![p] = WakeReaders(p, Ext)]
    /\ UNCHANGED <<winVars, byteVars, wVars, rgot, eofSeen, sentEOF, sentClose,
                   hasClosed, halted, inList, closes, muxVars>>

\* msgChannelClose: answer with a close unless one was sent, then close().
HandleClose(p, pkt) ==
    /\ pkt.type = "close"
    /\ ForceClose(p)
    /\ UNCHANGED <<remoteWin, myWindow, byteVars, wtodo, wgot, rgot, eofSeen,
                   muxVars>>

\* mux.onePacket for the packet at the head of the other side's wire.
OnePacket(p) ==
    LET q   == Other(p)
        pkt == Head(wire[q])
        answer == /\ pkt.type = "close" /\ inList[p]
                  /\ ~sentClose[p] /\ connUp
    IN
    /\ err[p] = "none"
    /\ winClosed[p] => halted[p]        \* this goroutine is not inside close()
    /\ wire[q] # <<>>
    /\ wire' = [wire EXCEPT ![q] = Tail(@),
                            ![p] = IF answer THEN Append(@, ClosePkt) ELSE @]
    /\ IF inList[p]
       THEN \/ HandleData(p, pkt)
            \/ HandleAdjust(p, pkt)
            \/ HandleEOF(p, pkt)
            \/ HandleClose(p, pkt)
       ELSE LoopExit(p, "invalid channel")

\* The transport is gone, and readPacket fails.  An error that says it is a timeout,
\* as that of a TCP connection whose peer has gone silent does, is taken for none, and
\* readPacket returns it again and again: the loop goes on, and nothing is closed.
LoopSpins(p) ==
    /\ ~connUp
    /\ err[p] = "none"
    /\ winClosed[p] => halted[p]
    /\ err' = [err EXCEPT ![p] = "timed out"]
    /\ UNCHANGED <<winVars, wire, byteVars, wVars, rVars, lifeVars, connUp>>

\* Any other error of readPacket ends the loop.
LoopFails(p) ==
    /\ ~connUp
    /\ err[p] = "none"
    /\ winClosed[p] => halted[p]
    /\ LoopExit(p, "lost")
    /\ UNCHANGED wire

\* The transport breaks.
ConnLost ==
    /\ connUp
    /\ connUp' = FALSE
    /\ UNCHANGED <<winVars, wire, byteVars, wVars, rVars, lifeVars, err>>

-----------------------------------------------------------------------------
Writer(p, e) == Reserve(p, e) \/ SendData(p, e)
Reader(p, e) == BufferRead(p, e) \/ AdjustWindow(p, e) \/ AnnounceWindow(p, e)
MuxLoop(p)   == OnePacket(p) \/ StopIdle(p) \/ LoopSpins(p) \/ LoopFails(p)

Next ==
    \/ \E p \in Peer, e \in Ext :
          \/ \E n \in 1..MaxBytes[p][e] : WriteExtended(p, e, n)
          \/ Writer(p, e)
          \/ ReadExtended(p, e)
          \/ Reader(p, e)
    \/ \E p \in Peer : \/ CloseWrite(p) \/ CloseChannel(p) \/ SendClose(p)
                       \/ MuxLoop(p)
    \/ ConnLost

Spec == Init /\ [][Next]_vars

-----------------------------------------------------------------------------
(* Properties *)

\* The streams in use: a writing peer and an extended code.
Flow == {f \in Peer \X Ext : MaxBytes[f[1]][f[2]] > 0}

\* Fairness: Go runs every goroutine that can run, and the mux goroutine reads
\* what the transport delivers.  Nothing is assumed of the application.
FairSpec ==
    /\ Spec
    /\ \A p \in Peer : WF_vars(MuxLoop(p)) /\ WF_vars(SendClose(p))
    /\ \A f \in Flow : WF_vars(Writer(f[1], f[2])) /\ WF_vars(Reader(Other(f[1]), f[2]))

\* The applications keep calling Read on these streams.
ReadersRead == \A f \in Flow : WF_vars(ReadExtended(Other(f[1]), f[2]))

IsData(pkt, e) == pkt.type = "data" /\ pkt.ext = e

\* A data packet of stream e, or an adjust: one of those belongs to no stream.
Carries(pkt, type, e) == pkt.type = type /\ (type = "adjust" \/ pkt.ext = e)

\* These packets of w go from byte "from" to byte "to", each starting where the one
\* before it ends.
Contiguous(w, type, e, from, to) ==
    /\ (\A i \in 1..Len(w) : ~Carries(w[i], type, e)) => from = to
    /\ \A i \in 1..Len(w) :
          /\ Carries(w[i], type, e)
          /\ \A k \in 1..(i - 1) : ~Carries(w[k], type, e)
          => w[i].lo = from
    /\ \A i \in 1..Len(w) :
          /\ Carries(w[i], type, e)
          /\ \A k \in (i + 1)..Len(w) : ~Carries(w[k], type, e)
          => w[i].hi = to
    /\ \A i, j \in 1..Len(w) :
          /\ i < j /\ Carries(w[i], type, e) /\ Carries(w[j], type, e)
          /\ \A k \in (i + 1)..(j - 1) : ~Carries(w[k], type, e)
          => w[i].hi = w[j].lo

\* Two endpoints of this code never accuse each other: handleData never sees
\* "remote side wrote too much" or a packet over the maximum payload, and
\* window.add never overflows its uint32, however the writers, the readers'
\* two-step adjustWindow and the mux interleave.
FlowControlRespected ==
    \A p \in Peer : err[p] \notin {"payload", "too much", "bad window"}

\* The comment in adjustWindow: myWindow "can never exceed the initial window
\* setting", so its sum needs no overflow check; nor can what the other side
\* believes it may send.
WindowBounded ==
    \A p \in Peer : myWindow[p] <= WindowSize /\ remoteWin[p] <= WindowSize

\* While neither side has closed, no part of the window leaks and none is made up: what
\* the writer may still send, has reserved or has on the wire, what the reader has
\* buffered or taken and not announced, and the credit on its way back always add up to
\* the initial window.  What is on the wire is what its packets carry.
WindowConserved ==
    \A p \in Peer :
        LET q == Other(p) IN
        connUp /\ ~sentClose[p] /\ ~sentClose[q] =>
            /\ remoteWin[p] + wgot[p][0] + wgot[p][1]
               + (sent[p][0] - rcvd[q][0]) + (sent[p][1] - rcvd[q][1])
               + (rcvd[q][0] - rd[q][0]) + (rcvd[q][1] - rd[q][1])
               + rgot[q][0] + rgot[q][1] + (granted[q] - credited[p]) = WindowSize
            /\ \A e \in Ext : Contiguous(wire[p], "data", e, rcvd[q][e], sent[p][e])
            /\ Contiguous(wire[q], "adjust", 0, credited[p], granted[q])

\* The next packet of a stream to arrive starts where the buffered bytes end:
\* nothing is lost, duplicated or overtaken between WriteExtended and the
\* buffer, although stderr and the main stream are written concurrently.
InOrder ==
    \A p \in Peer, e \in Ext : \A i \in 1..Len(wire[p]) :
        /\ IsData(wire[p][i], e)
        /\ \A j \in 1..(i - 1) : ~IsData(wire[p][j], e)
        => wire[p][i].lo = rcvd[Other(p)][e]

\* A Read of the main stream that returns io.EOF while the connection stands
\* has returned every byte the other side put on the wire, whichever of
\* CloseWrite, Close and the answer to a close ended the stream.
EofMeansAll ==
    \A p \in Peer : eofSeen[p][0] /\ connUp => rd[p][0] = sent[Other(p)][0]

\* No packet arrives for a channel that has left the chanList: onePacket would
\* answer "invalid channel" and take every other channel down with it.  Closes
\* may cross on the wire and Reads may announce windows meanwhile.
NeverInvalidChannel ==
    \A p \in Peer : err[p] # "invalid channel"

\* channel.close() runs once, from handlePacket or from mux.loop, never from
\* both: it closes c.msg and c.incomingRequests, and closing twice panics.
ClosedOnce ==
    \A p \in Peer : closes[p] <= 1

\* What is read on either stream is what was written there, in order, and io.EOF on the
\* main stream comes after all of it: data goes through a buffer and the end through a
\* flag, while two streams share the window, the wire and writeMu.
StreamsIntact == InOrder /\ EofMeansAll

\* However the closes of both ends cross, with data, adjustments and the loss of the
\* connection, no packet comes for a channel that is gone, and none is closed twice.
ClosesClean == NeverInvalidChannel /\ ClosedOnce

\* The channel implements the stream its documentation promises.
Stream == INSTANCE ByteStream WITH
    written <- sent, delivered <- rd, ended <- eofSeen, broken <- ~connUp
ImplementsStream == Stream!Spec

\* A Write returns, if the other side's application keeps reading and the mux loop does
\* not spin on a read that timed out: no wakeup of window.reserve is lost between add,
\* close and the writers of one window.
WritesReturn ==
    ReadersRead =>
        []<>(\A f \in Flow : err[f[1]] = "timed out" \/ wpc[f[1]][f[2]] = "idle")

\* Close wakes nobody by itself, yet every Read and Write of the channel that
\* is blocked when Close is called returns: by the peer's answering close, or by
\* the end of the mux loop, which a read that timed out never brings.
CloseUnblocks ==
    []<>(\A f \in Flow :
            LET p == f[1]  e == f[2]  q == Other(p) IN
            /\ hasClosed[p] /\ err[p] # "timed out" => wpc[p][e] # "wait"
            /\ hasClosed[q] /\ err[q] # "timed out" => rpc[q][e] # "wait")

=============================================================================

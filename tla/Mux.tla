-------------------------------- MODULE Mux --------------------------------
(***************************************************************************)
(* The SSH connection protocol over one connection: xcryptossh/mux.go and  *)
(* the opening, closing and requests of channels in channel.go.  Each peer *)
(* runs the goroutine of mux.loop; application goroutines open, accept,    *)
(* reject and close channels, and send and answer requests.                *)
(*                                                                         *)
(* A channel object is its number in obj[p], in the order newChannel made  *)
(* them; chans[p] is the chanList, whose slots hold objects or None.  The  *)
(* n of a request is also the n of its answer, so that an answer can be    *)
(* told from another; to names the object a packet is meant for.  Neither  *)
(* is in the packets of the code.  The data of channels is in SSHChannel.  *)
(***************************************************************************)
EXTENDS Naturals, Sequences, FiniteSets, FiniteSetsExt

CONSTANTS
    ChanSize,     \* chanSize, the capacity of the Go channels
    Uses          \* what the applications may do, one of these per behaviour

Peer == {"client", "server"}
Other(p) == IF p = "client" THEN "server" ELSE "client"
None == 0

\* Bounds on the channels each peer opens, on the requests on a channel and on the
\* global ones with wantReply, which calls, "open" or "global", have a context that
\* may be cancelled, and whether a read of a lost connection may time out.
Use == [opens : [Peer -> 0..2], requests : [Peer -> 0..2], global : [Peer -> 0..2],
        cancels : SUBSET {"open", "global"}, timeouts : BOOLEAN]

ASSUME UsesAssumption == ChanSize \in Nat \ {0} /\ Uses \subseteq Use

VARIABLES
    use,        \* the one of Uses
    obj,        \* obj[p][c]: the channel objects
    chans,      \* the slots of m.chanList
    incoming,   \* m.incomingChannels
    greqs,      \* m.incomingRequests
    gresp,      \* m.globalResponses
    gcall,      \* the global request whose reply is awaited; globalSentMu
    gnum,       \* global requests sent so far
    ganswer,    \* what the last global SendRequest asked and got
    loop,       \* where m.loop is
    halted,     \* m.halt has been asked to stop
    wire,       \* wire[p]: packets p sent
    up          \* the transport carries packets

callVars == <<gcall, gnum, ganswer>>
muxVars == <<incoming, greqs, gresp, loop, halted>>
vars == <<use, obj, chans, callVars, muxVars, wire, up>>

ChannelPkt == {"confirm", "failure", "close", "request", "reply"}
Packet == [type : ChannelPkt \cup {"open", "greq", "greply"},
           id : Nat, my : Nat, from : Nat, to : Nat, n : Nat]
Channel == [outbound : BOOLEAN, decided : BOOLEAN, localId : Nat,
            remoteId : Nat, mate : Nat, use : {"opening", "new", "open", "gone"},
            sentClose : BOOLEAN, hasClosed : BOOLEAN, halted : BOOLEAN,
            closed : BOOLEAN, msg : Seq(Packet), reqs : Seq(Nat),
            rcall : Nat, rnum : Nat, answer : Nat \X Nat]

\* The types, and: an object is in the slot of its id or in none.
TypeOK ==
    /\ use \in Uses
    /\ obj \in [Peer -> Seq(Channel)]
    /\ chans \in [Peer -> Seq(Nat)]
    /\ \A p \in Peer : \A i \in 1..Len(chans[p]) :
          chans[p][i] # None => /\ chans[p][i] \in 1..Len(obj[p])
                                /\ obj[p][chans[p][i]].localId = i
    /\ incoming \in [Peer -> Seq(Nat)]
    /\ greqs \in [Peer -> Seq(Nat)]
    /\ gresp \in [Peer -> Seq(Nat)]
    /\ gcall \in [Peer -> Nat] /\ gnum \in [Peer -> Nat]
    /\ ganswer \in [Peer -> Nat \X Nat]
    /\ loop \in [Peer -> {"run", "spin", "failed", "dropped", "exit"}]
    /\ halted \in [Peer -> BOOLEAN]
    /\ wire \in [Peer -> Seq(Packet)]
    /\ up \in BOOLEAN

Init ==
    /\ use \in Uses
    /\ obj = [p \in Peer |-> <<>>]
    /\ chans = [p \in Peer |-> <<>>]
    /\ incoming = [p \in Peer |-> <<>>]
    /\ greqs = [p \in Peer |-> <<>>]
    /\ gresp = [p \in Peer |-> <<>>]
    /\ gcall = [p \in Peer |-> 0]
    /\ gnum = [p \in Peer |-> 0]
    /\ ganswer = [p \in Peer |-> <<0, 0>>]
    /\ loop = [p \in Peer |-> "run"]
    /\ halted = [p \in Peer |-> FALSE]
    /\ wire = [p \in Peer |-> <<>>]
    /\ up = TRUE

-----------------------------------------------------------------------------
(* Packets, the chanList and channel objects *)

Pkt(type, id, my, from, to, n) ==
    [type |-> type, id |-> id, my |-> my, from |-> from, to |-> to, n |-> n]

\* A packet of object c of p for its counterpart.
ChPkt(p, c, type, n) ==
    Pkt(type, obj[p][c].remoteId, obj[p][c].localId, c, obj[p][c].mate, n)

Sent(w, p, pkt) == IF up THEN [w EXCEPT ![p] = Append(@, pkt)] ELSE w
Write(p, pkt) == wire' = Sent(wire, p, pkt)

Objects(p) == 1..Len(obj[p])

\* chanList.add: the first slot that is nil, or a new one.
FreeSlot(p) ==
    LET nil == {i \in 1..Len(chans[p]) : chans[p][i] = None}
    IN IF nil = {} THEN Len(chans[p]) + 1 ELSE Min(nil)

Added(p, c) ==
    LET i == FreeSlot(p)
    IN [j \in 1..(IF i > Len(chans[p]) THEN i ELSE Len(chans[p])) |->
           IF j = i THEN c ELSE chans[p][j]]

getChan(p, id) == IF id \in 1..Len(chans[p]) THEN chans[p][id] ELSE None
Removed(p, id) ==
    IF id \in 1..Len(chans[p]) THEN [chans EXCEPT ![p][id] = None] ELSE chans

newChannel(p, outbound, remoteId, mate) ==
    [outbound |-> outbound, decided |-> FALSE, localId |-> FreeSlot(p),
     remoteId |-> remoteId, mate |-> mate,
     use |-> IF outbound THEN "opening" ELSE "new",
     sentClose |-> FALSE, hasClosed |-> FALSE, halted |-> FALSE,
     closed |-> FALSE, msg |-> <<>>, reqs |-> <<>>,
     rcall |-> 0, rnum |-> 0, answer |-> <<0, 0>>]

\* channel.close()
Closed(ch) == [ch EXCEPT !.closed = TRUE, !.sentClose = TRUE, !.halted = TRUE]

-----------------------------------------------------------------------------
(* Opening channels *)

\* A write to a lost connection may still be reported as a success.
openChannel(p) ==
    /\ Cardinality({c \in Objects(p) : obj[p][c].outbound}) < use.opens[p]
    /\ LET c == Len(obj[p]) + 1
           ch == newChannel(p, TRUE, 0, 0)
       IN /\ chans' = [chans EXCEPT ![p] = Added(p, c)]
          /\ \E u \in {"opening"} \cup (IF up THEN {} ELSE {"gone"}) :
                obj' = [obj EXCEPT ![p] = Append(@, [ch EXCEPT !.use = u])]
          /\ Write(p, Pkt("open", 0, ch.localId, c, 0, 0))
    /\ UNCHANGED <<use, callVars, muxVars, up>>

\* The mutant waits for the answer, or for the end of the loop, only.
openReturnsUnhalted(p, c) ==
    /\ obj[p][c].use = "opening"
    /\ \/ /\ obj[p][c].msg # <<>>
          /\ obj' = [obj EXCEPT ![p][c].msg = Tail(@),
                     ![p][c].use = IF Head(obj[p][c].msg).type = "confirm"
                                   THEN "open" ELSE "gone"]
       \/ /\ obj[p][c].msg = <<>> /\ obj[p][c].closed
          /\ obj' = [obj EXCEPT ![p][c].use = "gone"]
    /\ UNCHANGED <<use, chans, callVars, muxVars, wire, up>>

\* The select of openChannel.  A closed ch.msg gives the default case.
openReturns(p, c) ==
    /\ obj[p][c].use = "opening"
    /\ \/ /\ obj[p][c].msg # <<>>
          /\ obj' = [obj EXCEPT ![p][c].msg = Tail(@),
                     ![p][c].use = IF Head(obj[p][c].msg).type = "confirm"
                                   THEN "open" ELSE "gone"]
       \/ /\ \/ obj[p][c].msg = <<>> /\ obj[p][c].closed
             \/ halted[p]
             \/ "open" \in use.cancels
          /\ obj' = [obj EXCEPT ![p][c].use = "gone"]
    /\ UNCHANGED <<use, chans, callVars, muxVars, wire, up>>

\* channel.sendMessage on a channel that is not closed yet.
SendOn(p, c, pkt) == IF obj[p][c].sentClose THEN wire' = wire ELSE Write(p, pkt)

Accept(p) ==
    /\ incoming[p] # <<>>
    /\ LET c == Head(incoming[p]) IN
       /\ obj' = [obj EXCEPT ![p][c].decided = TRUE, ![p][c].use = "open"]
       /\ SendOn(p, c, ChPkt(p, c, "confirm", 0))
    /\ incoming' = [incoming EXCEPT ![p] = Tail(@)]
    /\ UNCHANGED <<use, chans, callVars, greqs, gresp, loop, halted, up>>

\* The channel stays in the chanList.
Reject(p) ==
    /\ incoming[p] # <<>>
    /\ LET c == Head(incoming[p]) IN
       /\ obj' = [obj EXCEPT ![p][c].decided = TRUE, ![p][c].use = "gone"]
       /\ SendOn(p, c, ChPkt(p, c, "failure", 0))
    /\ incoming' = [incoming EXCEPT ![p] = Tail(@)]
    /\ UNCHANGED <<use, chans, callVars, greqs, gresp, loop, halted, up>>

-----------------------------------------------------------------------------
(* Closing channels *)

\* The mutant forgets the channel at once, without waiting for the other
\* side's close.
CloseForgets(p, c) ==
    /\ obj[p][c].use = "open" /\ ~obj[p][c].hasClosed
    /\ obj' = [obj EXCEPT ![p][c].hasClosed = TRUE, ![p][c].halted = TRUE]
    /\ chans' = Removed(p, obj[p][c].localId)
    /\ UNCHANGED <<use, callVars, muxVars, wire, up>>

Close(p, c) ==
    /\ obj[p][c].use = "open" /\ ~obj[p][c].hasClosed
    /\ obj' = [obj EXCEPT ![p][c].hasClosed = TRUE, ![p][c].halted = TRUE]
    /\ UNCHANGED <<use, chans, callVars, muxVars, wire, up>>

\* The end of Close.
SendClose(p, c) ==
    /\ obj[p][c].hasClosed /\ ~obj[p][c].sentClose
    /\ obj' = [obj EXCEPT ![p][c].sentClose = TRUE]
    /\ Write(p, ChPkt(p, c, "close", 0))
    /\ UNCHANGED <<use, chans, callVars, muxVars, up>>

-----------------------------------------------------------------------------
(* Requests on a channel *)

\* Without wantReply the call takes no lock and returns at once; its n is 0.
SendRequest(p, c, wantReply) ==
    LET n == IF wantReply THEN obj[p][c].rnum + 1 ELSE 0 IN
    /\ obj[p][c].use = "open" /\ ~obj[p][c].sentClose
    /\ wantReply => obj[p][c].rcall = 0          \* sentRequestMu
    /\ obj[p][c].rnum < use.requests[p]
    /\ obj' = [obj EXCEPT ![p][c].rnum = @ + 1, ![p][c].rcall = IF wantReply THEN n ELSE @]
    /\ Write(p, ChPkt(p, c, "request", n))
    /\ UNCHANGED <<use, chans, callVars, muxVars, up>>

\* The mutant also gives up when a context is cancelled, as the global
\* SendRequest does.
RequestReturnsAnyTime(p, c) ==
    /\ obj[p][c].rcall # 0
    /\ \/ /\ obj[p][c].msg # <<>>
          /\ obj' = [obj EXCEPT ![p][c].msg = Tail(@), ![p][c].rcall = 0,
                        ![p][c].answer = <<obj[p][c].rcall, Head(obj[p][c].msg).n>>]
       \/ obj' = [obj EXCEPT ![p][c].rcall = 0]
    /\ UNCHANGED <<use, chans, callVars, muxVars, wire, up>>

RequestReturns(p, c) ==
    /\ obj[p][c].rcall # 0
    /\ \/ /\ obj[p][c].msg # <<>>
          /\ obj' = [obj EXCEPT ![p][c].msg = Tail(@), ![p][c].rcall = 0,
                        ![p][c].answer = <<obj[p][c].rcall, Head(obj[p][c].msg).n>>]
       \/ /\ \/ obj[p][c].msg = <<>> /\ obj[p][c].closed
             \/ halted[p]
             \/ obj[p][c].halted
          /\ obj' = [obj EXCEPT ![p][c].rcall = 0]
    /\ UNCHANGED <<use, chans, callVars, muxVars, wire, up>>

\* The application services the channel's requests.
ackRequest(p, c) ==
    /\ obj[p][c].use = "open" /\ obj[p][c].reqs # <<>>
    /\ obj' = [obj EXCEPT ![p][c].reqs = Tail(@)]
    /\ IF Head(obj[p][c].reqs) = 0 THEN wire' = wire
       ELSE SendOn(p, c, ChPkt(p, c, "reply", Head(obj[p][c].reqs)))
    /\ UNCHANGED <<use, chans, callVars, muxVars, up>>

-----------------------------------------------------------------------------
(* Global requests *)

SendGlobal(p) ==
    /\ gcall[p] = 0                              \* globalSentMu
    /\ gnum[p] < use.global[p]
    /\ gnum' = [gnum EXCEPT ![p] = @ + 1]
    /\ gcall' = [gcall EXCEPT ![p] = gnum[p] + 1]
    /\ Write(p, Pkt("greq", 0, 0, 0, 0, gnum[p] + 1))
    /\ UNCHANGED <<use, obj, chans, ganswer, muxVars, up>>

\* The mutant does not wait for the reply.
GlobalReturnsUnread(p) ==
    /\ gcall[p] # 0
    /\ gcall' = [gcall EXCEPT ![p] = 0]
    /\ UNCHANGED <<use, obj, chans, gnum, ganswer, incoming, greqs, gresp, loop, halted, wire, up>>

GlobalReturns(p) ==
    /\ gcall[p] # 0
    /\ gcall' = [gcall EXCEPT ![p] = 0]
    /\ \/ /\ gresp[p] # <<>>
          /\ gresp' = [gresp EXCEPT ![p] = Tail(@)]
          /\ ganswer' = [ganswer EXCEPT ![p] = <<gcall[p], Head(gresp[p])>>]
       \/ /\ \/ gresp[p] = <<>> /\ loop[p] \in {"dropped", "exit"}
             \/ halted[p]
             \/ "global" \in use.cancels
          /\ UNCHANGED <<gresp, ganswer>>
    /\ UNCHANGED <<use, obj, chans, gnum, incoming, greqs, loop, halted, wire, up>>

\* The application services the global requests, customHandleGlobalRequests.
ackGlobal(p) ==
    /\ greqs[p] # <<>>
    /\ greqs' = [greqs EXCEPT ![p] = Tail(@)]
    /\ Write(p, Pkt("greply", 0, 0, 0, 0, Head(greqs[p])))
    /\ UNCHANGED <<use, obj, chans, callVars, incoming, gresp, loop, halted, up>>

-----------------------------------------------------------------------------
(* mux.loop *)

Fails(p) == loop' = [loop EXCEPT ![p] = "failed"]

\* A select that sends to a Go channel with room in it, or gives up because
\* the connection is asked to stop.  Without either, the loop blocks.
GiveUp(p) ==
    /\ halted[p]
    /\ Fails(p)
    /\ UNCHANGED <<greqs, gresp, incoming>>

handleGlobalPacket(p, pkt) ==
    /\ pkt.type \in {"greq", "greply"}
    /\ \/ /\ pkt.type = "greq" /\ Len(greqs[p]) < ChanSize
          /\ greqs' = [greqs EXCEPT ![p] = Append(@, pkt.n)]
          /\ UNCHANGED <<gresp, incoming, loop>>
       \/ /\ pkt.type = "greply" /\ Len(gresp[p]) < 1
          /\ gresp' = [gresp EXCEPT ![p] = Append(@, pkt.n)]
          /\ UNCHANGED <<greqs, incoming, loop>>
       \/ GiveUp(p)
    /\ UNCHANGED <<obj, chans>>

handleChannelOpen(p, pkt) ==
    /\ pkt.type = "open"
    /\ LET c == Len(obj[p]) + 1 IN
       /\ obj' = [obj EXCEPT ![p] = Append(@, newChannel(p, FALSE, pkt.my, pkt.from))]
       /\ chans' = [chans EXCEPT ![p] = Added(p, c)]
       /\ \/ /\ Len(incoming[p]) < ChanSize
             /\ incoming' = [incoming EXCEPT ![p] = Append(@, c)]
             /\ UNCHANGED <<greqs, gresp, loop>>
          \/ GiveUp(p)

\* handlePacket's selects, which also give up when the channel is halted.
Deliver(p, c, room, ch) ==
    \/ /\ room
       /\ obj' = [obj EXCEPT ![p][c] = ch]
       /\ UNCHANGED loop
    \/ /\ obj[p][c].halted \/ halted[p]
       /\ Fails(p)
       /\ obj' = [obj EXCEPT ![p][c].decided = ch.decided]

\* channelOpenConfirmMsg and channelOpenFailureMsg.
handleResponse(p, c, pkt) ==
    LET ch == [obj[p][c] EXCEPT !.decided = TRUE, !.msg = Append(@, pkt)]
    IN IF ~obj[p][c].outbound \/ obj[p][c].decided
       THEN Fails(p) /\ UNCHANGED <<obj, chans>>
       ELSE \/ /\ pkt.type = "confirm"
               /\ Deliver(p, c, TRUE, [ch EXCEPT !.remoteId = pkt.my, !.mate = pkt.from])
               /\ UNCHANGED chans
            \/ /\ pkt.type = "failure"
               /\ chans' = Removed(p, pkt.id)
               /\ Deliver(p, c, TRUE, ch)

handleRequest(p, c, pkt) ==
    /\ \/ /\ pkt.type = "request"
          /\ Deliver(p, c, Len(obj[p][c].reqs) < ChanSize,
                     [obj[p][c] EXCEPT !.reqs = Append(@, pkt.n)])
       \/ /\ pkt.type = "reply"
          /\ Deliver(p, c, Len(obj[p][c].msg) < ChanSize,
                     [obj[p][c] EXCEPT !.msg = Append(@, pkt)])
    /\ UNCHANGED chans

\* A close is answered with a close, unless one was sent, and the channel is
\* forgotten.
handleClose(p, c, rest) ==
    /\ wire' = IF obj[p][c].sentClose THEN rest
               ELSE Sent(rest, p, ChPkt(p, c, "close", 0))
    /\ chans' = Removed(p, obj[p][c].localId)
    /\ obj' = [obj EXCEPT ![p][c] = Closed(@)]
    /\ UNCHANGED loop

onePacket(p) ==
    /\ loop[p] = "run" /\ wire[Other(p)] # <<>>
    /\ LET pkt == Head(wire[Other(p)])
           rest == [wire EXCEPT ![Other(p)] = Tail(@)]
           c == getChan(p, pkt.id)
       IN \/ handleGlobalPacket(p, pkt) /\ wire' = rest
          \/ handleChannelOpen(p, pkt) /\ wire' = rest
          \/ /\ pkt.type \in ChannelPkt
             /\ \/ /\ c = None
                   /\ Fails(p)
                   /\ wire' = rest
                   /\ UNCHANGED <<obj, chans>>
                \/ /\ c # None /\ pkt.type \in {"confirm", "failure"}
                   /\ handleResponse(p, c, pkt)
                   /\ wire' = rest
                \/ /\ c # None /\ pkt.type \in {"request", "reply"}
                   /\ handleRequest(p, c, pkt)
                   /\ wire' = rest
                \/ /\ c # None /\ pkt.type = "close"
                   /\ handleClose(p, c, rest)
             /\ UNCHANGED <<greqs, gresp, incoming>>
    /\ UNCHANGED <<use, callVars, halted, up>>

\* readPacket fails, which what is still in flight does not prevent.  When the read of
\* the connection timed out, loop goes on; readPacket then returns the same error every
\* time, until the halt is what it finds.
readFails(p) ==
    /\ \/ /\ loop[p] = "run" /\ ~up
          /\ \/ Fails(p)
             \/ use.timeouts /\ loop' = [loop EXCEPT ![p] = "spin"]
       \/ loop[p] \in {"run", "spin"} /\ halted[p] /\ Fails(p)
    /\ UNCHANGED <<use, obj, chans, callVars, incoming, greqs, gresp, halted, wire, up>>

\* After the loop: close every channel in the list, and the Go channels.
dropAll(p) ==
    /\ loop[p] = "failed"
    /\ obj' = [obj EXCEPT ![p] = [c \in Objects(p) |->
                  IF \E i \in 1..Len(chans[p]) : chans[p][i] = c
                  THEN Closed(obj[p][c]) ELSE obj[p][c]]]
    /\ chans' = [chans EXCEPT ![p] = <<>>]
    /\ loop' = [loop EXCEPT ![p] = "dropped"]
    /\ UNCHANGED <<use, callVars, incoming, greqs, gresp, halted, wire, up>>

closeConn(p) ==
    /\ loop[p] = "dropped"
    /\ loop' = [loop EXCEPT ![p] = "exit"]
    /\ up' = FALSE
    /\ UNCHANGED <<use, obj, chans, callVars, incoming, greqs, gresp, halted, wire>>

-----------------------------------------------------------------------------
(* The connection *)

\* connection.Close, by the application.
CloseConnection(p) ==
    /\ ~halted[p]
    /\ halted' = [halted EXCEPT ![p] = TRUE]
    /\ up' = FALSE
    /\ UNCHANGED <<use, obj, chans, callVars, incoming, greqs, gresp, loop, wire>>

ConnLost ==
    /\ up
    /\ up' = FALSE
    /\ UNCHANGED <<use, obj, chans, callVars, muxVars, wire>>

-----------------------------------------------------------------------------

Next ==
    \/ \E p \in Peer :
          \/ openChannel(p)
          \/ Accept(p)
          \/ Reject(p)
          \/ SendGlobal(p)
          \/ GlobalReturns(p)
          \/ ackGlobal(p)
          \/ onePacket(p)
          \/ readFails(p)
          \/ dropAll(p)
          \/ closeConn(p)
          \/ CloseConnection(p)
          \/ \E c \in Objects(p) :
                \/ openReturns(p, c)
                \/ Close(p, c)
                \/ SendClose(p, c)
                \/ \E wantReply \in BOOLEAN : SendRequest(p, c, wantReply)
                \/ RequestReturns(p, c)
                \/ ackRequest(p, c)
    \/ ConnLost

Spec == Init /\ [][Next]_vars

\* The goroutine of the mux; the calls that are in progress; the applications,
\* which service the requests and accept or reject the channels, as the
\* documentation of Conn and NewChannel demands of them.
MuxLoop(p) == onePacket(p) \/ readFails(p) \/ dropAll(p) \/ closeConn(p)
CallReturns(p) ==
    \/ GlobalReturns(p)
    \/ \E c \in Objects(p) : openReturns(p, c) \/ SendClose(p, c) \/ RequestReturns(p, c)
Serve(p) ==
    Accept(p) \/ Reject(p) \/ ackGlobal(p) \/ \E c \in Objects(p) : ackRequest(p, c)

\* All of them run, and an application whose mux has ended closes the connection.  It is
\* enough to ask it of them together: what a use allows comes to an end.
Runs ==
    \E p \in Peer :
        \/ MuxLoop(p) \/ CallReturns(p) \/ Serve(p)
        \/ loop[p] = "exit" /\ CloseConnection(p)
FairSpec == Spec /\ WF_vars(Runs)

-----------------------------------------------------------------------------
(* Properties *)

\* The chanList holds every channel under its own id (TypeOK), and a packet in flight
\* finds the channel it is meant for: the id in it has been neither freed nor given to a
\* later channel, whatever opens and closes cross on the wire.
RouteRight ==
    /\ TypeOK
    /\ \A p \in Peer : loop[p] = "run" =>
          \A i \in 1..Len(wire[Other(p)]) :
              LET pkt == wire[Other(p)][i] IN
              pkt.type \in ChannelPkt =>
                  pkt.to # None /\ getChan(p, pkt.id) = pkt.to

\* Until this side closes the channel or the connection, SendRequest returns the
\* reply to its own request, not to an earlier one: sentRequestMu and the order of the
\* wire see to that.  So does the mux's, with globalSentMu, unless an earlier request was
\* abandoned, whose reply the next one then takes.
AnswersMatchWhileOpen ==
    \A p \in Peer :
        ~halted[p] =>
            /\ \A c \in Objects(p) :
                  ~obj[p][c].hasClosed => obj[p][c].answer[1] = obj[p][c].answer[2]
            /\ "global" \notin use.cancels => ganswer[p][1] = ganswer[p][2]

\* What an abandoned call leaves behind.  Its channel stays in the chanList, nobody
\* services the requests on it, and they fill incomingRequests; the reply to a global one
\* fills globalResponses.
Deserted(p, c) == "open" \in use.cancels /\ obj[p][c].outbound /\ obj[p][c].use = "gone"
Blocked(p) ==
    \/ \E c \in Objects(p) : Deserted(p, c) /\ Len(obj[p][c].reqs) = ChanSize
    \/ "global" \in use.cancels /\ gcall[p] = 0 /\ gresp[p] # <<>>

\* OpenChannel returns: the other side answers, or the end of the loop closes
\* ch.msg, or, when the channel was added behind dropAll, the halt ends it.  So does
\* SendRequest, the mux's and the channels'.  There are three exceptions: a loop that goes
\* on after a timeout of its connection ends no call; a request on a channel whose open
\* the other side abandoned has no answer; and neither has anything when the other side's
\* loop is blocked by what was abandoned.
OpensRequestsReturn ==
    []<>(\A p \in Peer :
            \/ loop[p] = "spin" /\ ~halted[p]
            \/ Blocked(Other(p))
            \/ /\ gcall[p] = 0
               /\ \A c \in Objects(p) :
                     /\ obj[p][c].use # "opening"
                     /\ obj[p][c].rcall = 0
                        \/ (obj[p][c].mate # None /\ Deserted(Other(p), obj[p][c].mate)))

\* The loop processes packets until an error is encountered: no full Go channel holds it
\* up for good, except the incomingRequests of an abandoned channel, and globalResponses,
\* which has room for the reply to one abandoned request and none for a second.
PacketsProcessed ==
    []<>(\A p \in Peer : wire[Other(p)] = <<>> \/ loop[p] # "run" \/ Blocked(p))
=============================================================================

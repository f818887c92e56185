------------------------------ MODULE Forwards ------------------------------
(***************************************************************************)
(* Connections forwarded from the sshd to listeners of the client: the     *)
(* dispatch of channel opens by type (X/client.go), the ForwardList and    *)
(* its listeners for tcp ports and unix sockets (X/tcpip.go and            *)
(* X/streamlocal.go), of one connection.                                   *)
(*                                                                         *)
(* Two handlers, one per type, look up the listener and pass the open on   *)
(* while they hold the lock of the list; a listener's channel holds one    *)
(* open.  An open is known by its identity, and names its address.         *)
(***************************************************************************)
EXTENDS Naturals, Sequences

CONSTANTS
    Addrs,          \* the addresses somebody may listen on
    Opens,          \* the opens the sshd may send
    AddrOf(_),      \* the address an open is for
    Network(_)      \* "tcp" or "unix", of an address

\* An open is none of the words for a handler that has none.
ASSUME OpensAssumption == {"run", "over"} \cap Opens = {}

VARIABLES
    work,           \* what is done with the connection, see Works
    entries,        \* the addresses in the ForwardList
    queue,          \* [Addrs -> the opens in the listener's channel]
    closed,         \* the addresses whose channel is closed
    listener,       \* [Addrs -> where the listener is]
    acceptor,       \* [Addrs -> "no", "accepting" or "over"]
    incoming,       \* the opens in incomingChannels
    dispatch,       \* "run" or "over": HandleChannelOpens
    routed,         \* [Networks -> the opens in the handler's channel]
    handler,        \* [Networks -> "run", "over", or the open it has]
    listMut,        \* the network whose handler holds the lock across steps, or "free"
    answered,       \* [Opens -> "no", "unsent", "accepted", "rejected"]
    allClosed,      \* CloseAll has run
    late,           \* the addresses that were added after it
    muxOver,        \* the mux loop has ended
    connDone        \* conn.Done() or the context: the connection was closed or halted here

forwardVars == <<work, entries, queue, closed, listener, acceptor, incoming, dispatch,
                 routed, handler, listMut, answered, allClosed, late, muxOver, connDone>>

Networks == {"tcp", "unix"}

\* The addresses that are listened on, those with somebody who accepts until the listener
\* ends, those whose listener may be closed, the opens the sshd may send, those of them that
\* are of no known type or do not parse, and the ends the connection may have.
Works ==
    [listens : SUBSET Addrs, accepts : SUBSET Addrs, closes : SUBSET Addrs,
     opens : SUBSET Opens, bad : SUBSET Opens, ends : SUBSET {"mux", "done"}]
chanCap == 1        \* make(chan forward, 1)

ForwardsInit ==
    /\ entries = {} /\ closed = {} /\ incoming = <<>>
    /\ queue = [a \in Addrs |-> <<>>]
    /\ listener = [a \in Addrs |-> "no"]
    /\ acceptor = [a \in Addrs |-> "no"]
    /\ dispatch = "run"
    /\ routed = [n \in Networks |-> <<>>]
    /\ handler = [n \in Networks |-> "run"]
    /\ listMut = "free"
    /\ answered = [o \in Opens |-> "unsent"]
    /\ allClosed = FALSE /\ late = {}
    /\ muxOver = FALSE /\ connDone = FALSE

-----------------------------------------------------------------------------
\* ListenTCP and ListenUnix: the sshd grants the request ...
Listen(a) ==
    /\ a \in work.listens /\ listener[a] = "no" /\ ~muxOver
    /\ listener' = [listener EXCEPT ![a] = "granted"]
    /\ UNCHANGED <<work, entries, queue, closed, acceptor, incoming, dispatch, routed,
                   handler, listMut, answered, allClosed, late, muxOver, connDone>>

\* ... and the forward is added to the list, by when the connection may have ended.
AddForward(a) ==
    /\ listener[a] = "granted" /\ listMut = "free"
    /\ entries' = entries \cup {a}
    /\ late' = IF allClosed THEN late \cup {a} ELSE late
    /\ listener' = [listener EXCEPT ![a] = "open"]
    /\ acceptor' = [acceptor EXCEPT ![a] = IF a \in work.accepts THEN "accepting" ELSE "no"]
    /\ UNCHANGED <<work, queue, closed, incoming, dispatch, routed, handler, listMut,
                   answered, allClosed, muxOver, connDone>>

\* An open of the sshd's, for an address it was asked to listen on once.
OpenArrives(o) ==
    /\ o \in work.opens /\ answered[o] = "unsent" /\ ~muxOver /\ listener[AddrOf(o)] # "no"
    /\ answered' = [answered EXCEPT ![o] = "no"]
    /\ incoming' = Append(incoming, o)
    /\ UNCHANGED <<work, entries, queue, closed, listener, acceptor, dispatch, routed,
                   handler, listMut, allClosed, late, muxOver, connDone>>

\* HandleChannelOpens: the handler of the type gets the open, which is rejected if there is
\* none.  The channels' capacity of 16 is more than all Opens.  Once incomingChannels is
\* closed it gets nil over and over, which changes nothing, until the connection is done.
HandleChannelOpens ==
    /\ dispatch = "run" /\ incoming # <<>>
    /\ LET o == Head(incoming)
           n == Network(AddrOf(o))
       IN  \/ routed' = [routed EXCEPT ![n] = Append(@, o)] /\ UNCHANGED answered
          \/ /\ o \in work.bad
             /\ answered' = [answered EXCEPT ![o] = "rejected"] /\ UNCHANGED routed
    /\ incoming' = Tail(incoming)
    /\ UNCHANGED <<work, entries, queue, closed, listener, acceptor, dispatch, handler,
                   listMut, allClosed, late, muxOver, connDone>>

\* HandleChannels takes an open, rejects it if its payload does not parse ...
HandleChannels(n) ==
    /\ handler[n] = "run" /\ routed[n] # <<>>
    /\ LET o == Head(routed[n]) IN
        IF o \in work.bad
        THEN answered' = [answered EXCEPT ![o] = "rejected"] /\ UNCHANGED handler
        ELSE handler' = [handler EXCEPT ![n] = o] /\ UNCHANGED answered
    /\ routed' = [routed EXCEPT ![n] = Tail(@)]
    /\ UNCHANGED <<work, entries, queue, closed, listener, acceptor, incoming, dispatch,
                   listMut, allClosed, late, muxOver, connDone>>

\* ... and in Forward looks its listener up, under the lock, which it keeps if there is
\* one; otherwise the open is rejected.
ForwardDropped(n) ==
    /\ handler[n] \in Opens /\ listMut = "free"
    /\ IF AddrOf(handler[n]) \in entries
       THEN listMut' = n /\ UNCHANGED handler
       ELSE handler' = [handler EXCEPT ![n] = "run"] /\ UNCHANGED listMut
    /\ UNCHANGED <<work, entries, queue, closed, listener, acceptor, incoming, dispatch,
                   routed, answered, allClosed, late, muxOver, connDone>>
Forward(n) ==
    /\ handler[n] \in Opens /\ listMut = "free"
    /\ LET o == handler[n] IN
        IF AddrOf(o) \in entries
        THEN listMut' = n /\ UNCHANGED <<handler, answered>>
        ELSE /\ answered' = [answered EXCEPT ![o] = "rejected"]
             /\ handler' = [handler EXCEPT ![n] = "run"]
             /\ UNCHANGED listMut
    /\ UNCHANGED <<work, entries, queue, closed, listener, acceptor, incoming, dispatch,
                   routed, allClosed, late, muxOver, connDone>>

\* The send to the listener, which waits for room with the lock held.
ForwardSend(n) ==
    /\ listMut = n
    /\ LET o == handler[n]
           a == AddrOf(o)
       IN  /\ Len(queue[a]) < chanCap
           /\ queue' = [queue EXCEPT ![a] = Append(@, o)]
    /\ handler' = [handler EXCEPT ![n] = "run"]
    /\ listMut' = "free"
    /\ UNCHANGED <<work, entries, closed, listener, acceptor, incoming, dispatch, routed,
                   answered, allClosed, late, muxOver, connDone>>

\* conn.Done() and the context end the dispatch and the handlers, in the send too.
DispatchEnds ==
    /\ dispatch = "run" /\ connDone
    /\ dispatch' = "over"
    /\ UNCHANGED <<work, entries, queue, closed, listener, acceptor, incoming, routed,
                   handler, listMut, answered, allClosed, late, muxOver, connDone>>

HandlerEndsLocked(n) ==
    /\ connDone
    /\ handler[n] = "run" \/ listMut = n
    /\ handler' = [handler EXCEPT ![n] = "over"]
    /\ UNCHANGED <<work, entries, queue, closed, listener, acceptor, incoming, dispatch,
                   routed, listMut, answered, allClosed, late, muxOver, connDone>>
HandlerEnds(n) ==
    /\ connDone
    /\ handler[n] = "run" \/ listMut = n
    /\ handler' = [handler EXCEPT ![n] = "over"]
    /\ listMut' = IF listMut = n THEN "free" ELSE listMut
    /\ UNCHANGED <<work, entries, queue, closed, listener, acceptor, incoming, dispatch,
                   routed, answered, allClosed, late, muxOver, connDone>>

\* Accept takes what is in the channel, also after it was closed; NewChannel.Accept
\* answers the open.
AcceptForward(a) ==
    /\ acceptor[a] = "accepting" /\ queue[a] # <<>>
    /\ answered' = [answered EXCEPT ![Head(queue[a])] = "accepted"]
    /\ queue' = [queue EXCEPT ![a] = Tail(@)]
    /\ UNCHANGED <<work, entries, closed, listener, acceptor, incoming, dispatch, routed,
                   handler, listMut, allClosed, late, muxOver, connDone>>

\* io.EOF: the channel is closed and empty, or the connection is done.
AcceptEOF(a) ==
    /\ acceptor[a] = "accepting"
    /\ connDone \/ (a \in closed /\ queue[a] = <<>>)
    /\ acceptor' = [acceptor EXCEPT ![a] = "over"]
    /\ UNCHANGED <<work, entries, queue, closed, listener, incoming, dispatch, routed,
                   handler, listMut, answered, allClosed, late, muxOver, connDone>>

\* Close of a listener: Remove, under the lock; then the request to cancel the forward.
CloseListener(a) ==
    /\ a \in work.closes /\ listener[a] = "open"
    /\ listener' = [listener EXCEPT ![a] = "closing"]
    /\ UNCHANGED <<work, entries, queue, closed, acceptor, incoming, dispatch, routed,
                   handler, listMut, answered, allClosed, late, muxOver, connDone>>

RemoveUnlocked(a) ==
    /\ listener[a] = "closing"
    /\ entries' = entries \ {a}
    /\ closed' = IF a \in entries THEN closed \cup {a} ELSE closed
    /\ listener' = [listener EXCEPT ![a] = "cancelling"]
    /\ UNCHANGED <<work, queue, acceptor, incoming, dispatch, routed, handler, listMut,
                   answered, allClosed, late, muxOver, connDone>>
Remove(a) ==
    /\ listener[a] = "closing" /\ listMut = "free"
    /\ entries' = entries \ {a}
    /\ closed' = IF a \in entries THEN closed \cup {a} ELSE closed
    /\ listener' = [listener EXCEPT ![a] = "cancelling"]
    /\ UNCHANGED <<work, queue, acceptor, incoming, dispatch, routed, handler, listMut,
                   answered, allClosed, late, muxOver, connDone>>

\* SendRequest returns, with the sshd's answer or with the end of the connection.
CancelAnswered(a) ==
    /\ listener[a] = "cancelling"
    /\ listener' = [listener EXCEPT ![a] = "closed"]
    /\ UNCHANGED <<work, entries, queue, closed, acceptor, incoming, dispatch, routed, handler,
                   listMut, answered, allClosed, late, muxOver, connDone>>

\* After Wait, when the mux loop has ended.
CloseAll ==
    /\ muxOver /\ ~allClosed /\ listMut = "free"
    /\ closed' = closed \cup entries
    /\ entries' = {}
    /\ allClosed' = TRUE
    /\ UNCHANGED <<work, queue, listener, acceptor, incoming, dispatch, routed, handler,
                   listMut, answered, late, muxOver, connDone>>

\* The mux loop ends with the connection; that alone does not close conn.Done().
MuxEnds ==
    /\ "mux" \in work.ends /\ ~muxOver
    /\ muxOver' = TRUE
    /\ UNCHANGED <<work, entries, queue, closed, listener, acceptor, incoming, dispatch,
                   routed, handler, listMut, answered, allClosed, late, connDone>>

\* connection.Close, a halt, or the context.
ConnClosed ==
    /\ "done" \in work.ends /\ ~connDone
    /\ connDone' = TRUE
    /\ UNCHANGED <<work, entries, queue, closed, listener, acceptor, incoming, dispatch,
                   routed, handler, listMut, answered, allClosed, late, muxOver>>

HandlerStep(n) == HandleChannels(n) \/ Forward(n) \/ ForwardSend(n) \/ HandlerEnds(n)
AcceptorStep(a) == AcceptForward(a) \/ AcceptEOF(a)
DispatchStep == HandleChannelOpens \/ DispatchEnds

ForwardsNext ==
    \/ \E a \in Addrs : \/ Listen(a) \/ AddForward(a) \/ CloseListener(a) \/ Remove(a)
                        \/ CancelAnswered(a) \/ AcceptorStep(a)
    \/ \E o \in Opens : OpenArrives(o)
    \/ \E n \in Networks : HandlerStep(n)
    \/ DispatchStep \/ CloseAll \/ MuxEnds \/ ConnClosed

\* A connection with any work.
ForwardsSpec == work \in Works /\ ForwardsInit /\ [][ForwardsNext]_forwardVars

-----------------------------------------------------------------------------
\* Nothing is ever sent to a channel that Remove or CloseAll has closed, which would
\* panic: the handler that is about to send holds the lock of the list.
NeverSendOnClosed ==
    \A n \in Networks : listMut = n /\ handler[n] \in Opens => AddrOf(handler[n]) \notin closed

\* Close of a listener returns although a handler may hold the lock while it waits for
\* room, if somebody accepts on every listener or the connection is done.
CloseReturns ==
    (/\ \E a \in Addrs : listener[a] \in {"closing", "cancelling"}
     /\ work.accepts = work.listens \/ connDone)
        ~> \A a \in Addrs : listener[a] \notin {"closing", "cancelling"}

\* Every Accept ends when the connection is done; and also when only the mux loop has
\* ended, if somebody accepts on every listener and the listener was in the list by then.
AcceptsEnd ==
    connDone \/ (muxOver /\ work.accepts = work.listens)
        ~> \A a \in Addrs : acceptor[a] = "accepting" => a \in late /\ ~connDone

\* The calls on listeners end: nobody waits for ever for the lock or for an open.
ListenersReturn == CloseReturns /\ AcceptsEnd

\* Every open is answered, if somebody accepts on every listener, or the connection ends.
OpensAnswered ==
    work.accepts = work.listens /\ (\E o \in Opens : answered[o] = "no")
        ~> (\A o \in Opens : answered[o] # "no") \/ muxOver \/ connDone
=============================================================================

------------------------------- MODULE Halter -------------------------------
(***************************************************************************)
(* xcryptossh/halter.go: the tree of Halters through which one part of a   *)
(* program asks another to stop and waits until it has.  Goroutines call   *)
(* the operations concurrently; each holds the mutex of a Halter while it  *)
(* walks over the downstream map, RequestStop recursively so.              *)
(*                                                                         *)
(* stack[p] is what goroutine p still has to do, its innermost frame       *)
(* first.  Every Halter is owned by a goroutine of the same name, which    *)
(* ends with MarkDone (or MarkDoneNoBlock).                                *)
(***************************************************************************)
EXTENDS Naturals, Sequences, FiniteSets

CONSTANTS
    Halters,    \* the Halters, and the goroutines that own them
    Callers,    \* other goroutines, each of which makes one call
    Linked,     \* the pairs <<h, d>> that are linked from the start
    Relinked,   \* the pairs that callers link and unlink at any time
    Contexts    \* the Halters that MAD ties to a context

Procs == Halters \cup Callers
Free == "free"
Edges == Linked \cup Relinked

\* AddDownstream (its comment: "to prevent infinite loops") is never used to
\* build a cycle.  A mutex that is free is held by no goroutine.
ASSUME LinksAssumption ==
    /\ Free \notin Procs
    /\ Edges \subseteq Halters \X Halters
    /\ Contexts \subseteq Halters
    /\ \E level \in [Halters -> 1..Cardinality(Halters)] :
          \A e \in Edges : level[e[1]] < level[e[2]]

VARIABLES
    stopped,    \* h.reqStop is closed
    done,       \* h.done is closed
    down, up,   \* h.downstream and h.upstream
    mut,        \* the goroutine that holds h.mut, or Free
    stack,      \* what the goroutine still has to do
    called,     \* the goroutines that have made their call
    cancelled   \* the context of h is cancelled

haltVars == <<stopped, done, down, up, mut>>
vars == <<haltVars, stack, called, cancelled>>

Points == {"stop", "tellLock", "tell", "waitLock", "wait", "waitFor", "close",
           "link", "linkUp", "unlink", "unlinkUp"}
Frame == [pc : Points, h : Halters, d : Halters, todo : SUBSET Halters]
At(pc, h) == [pc |-> pc, h |-> h, d |-> h, todo |-> {}]
OnLink(pc, h, d) == [pc |-> pc, h |-> h, d |-> d, todo |-> {}]

\* The maps only ever hold what the callers of AddDownstream linked.
TypeOK ==
    /\ stopped \in [Halters -> BOOLEAN]
    /\ done \in [Halters -> BOOLEAN]
    /\ down \in [Halters -> SUBSET Halters]
    /\ up \in [Halters -> SUBSET Halters]
    /\ \A h, d \in Halters : d \in down[h] \/ h \in up[d] => <<h, d>> \in Edges
    /\ mut \in [Halters -> Procs \cup {Free}]
    /\ stack \in [Procs -> Seq(Frame)]
    /\ called \subseteq Procs
    /\ cancelled \in [Contexts -> BOOLEAN]

Init ==
    /\ stopped = [h \in Halters |-> FALSE]
    /\ done = [h \in Halters |-> FALSE]
    /\ down = [h \in Halters |-> {d \in Halters : <<h, d>> \in Linked}]
    /\ up = [d \in Halters |-> {h \in Halters : <<h, d>> \in Linked}]
    /\ mut = [h \in Halters |-> Free]
    /\ stack = [p \in Procs |-> <<>>]
    /\ called = {}
    /\ cancelled = [h \in Contexts |-> FALSE]

-----------------------------------------------------------------------------
(* Frames *)

Running(p, pc) == stack[p] # <<>> /\ Head(stack[p]).pc = pc
Top(p) == Head(stack[p])
Goto(p, frame) == stack' = [stack EXCEPT ![p] = <<frame>> \o Tail(@)]
Push(p, frame, callee) == stack' = [stack EXCEPT ![p] = <<callee, frame>> \o Tail(@)]
Return(p) == stack' = [stack EXCEPT ![p] = Tail(@)]

\* A goroutine makes its one call: the frames are done in this order.
Call(p, frames) ==
    /\ p \notin called
    /\ called' = called \cup {p}
    /\ stack' = [stack EXCEPT ![p] = frames]
    /\ UNCHANGED <<haltVars, cancelled>>

-----------------------------------------------------------------------------
(* RequestStop: close reqStop, then tell downstream with the mutex held *)

\* The mutant returns at once when the Halter is already stopped.
CloseReqStopOnce(p) ==
    /\ Running(p, "stop")
    /\ stopped' = [stopped EXCEPT ![Top(p).h] = TRUE]
    /\ IF stopped[Top(p).h] THEN Return(p)
                            ELSE Goto(p, [Top(p) EXCEPT !.pc = "tellLock"])
    /\ UNCHANGED <<done, down, up, mut, called, cancelled>>

CloseReqStop(p) ==
    /\ Running(p, "stop")
    /\ stopped' = [stopped EXCEPT ![Top(p).h] = TRUE]
    /\ Goto(p, [Top(p) EXCEPT !.pc = "tellLock"])
    /\ UNCHANGED <<done, down, up, mut, called, cancelled>>

LockTell(p) ==
    /\ Running(p, "tellLock")
    /\ mut[Top(p).h] = Free
    /\ mut' = [mut EXCEPT ![Top(p).h] = p]
    /\ Goto(p, [Top(p) EXCEPT !.pc = "tell", !.todo = down[Top(p).h]])
    /\ UNCHANGED <<stopped, done, down, up, called, cancelled>>

TellDownstream(p) ==
    /\ Running(p, "tell")
    /\ \E d \in Top(p).todo :
          Push(p, [Top(p) EXCEPT !.todo = @ \ {d}], At("stop", d))
    /\ UNCHANGED <<haltVars, called, cancelled>>

\* The end of the loop of RequestStop, or of waitForDownstreamDone.
Unlock(p) ==
    /\ Running(p, "tell") \/ Running(p, "wait")
    /\ Top(p).todo = {}
    /\ mut' = [mut EXCEPT ![Top(p).h] = Free]
    /\ Return(p)
    /\ UNCHANGED <<stopped, done, down, up, called, cancelled>>

-----------------------------------------------------------------------------
(* MarkDone: RequestStop, waitForDownstreamDone, close done *)

LockWait(p) ==
    /\ Running(p, "waitLock")
    /\ mut[Top(p).h] = Free
    /\ mut' = [mut EXCEPT ![Top(p).h] = p]
    /\ Goto(p, [Top(p) EXCEPT !.pc = "wait", !.todo = down[Top(p).h]])
    /\ UNCHANGED <<stopped, done, down, up, called, cancelled>>

NextDownstream(p) ==
    /\ Running(p, "wait")
    /\ \E d \in Top(p).todo :
          Goto(p, [Top(p) EXCEPT !.pc = "waitFor", !.d = d, !.todo = @ \ {d}])
    /\ UNCHANGED <<haltVars, called, cancelled>>

\* d is done; d.removeUpstream(h) needs the mutex of d.
DownstreamDone(p) ==
    /\ Running(p, "waitFor")
    /\ LET d == Top(p).d IN
       /\ done[d]
       /\ mut[d] = Free
       /\ up' = [up EXCEPT ![d] = @ \ {Top(p).h}]
    /\ Goto(p, [Top(p) EXCEPT !.pc = "wait"])
    /\ UNCHANGED <<stopped, done, down, mut, called, cancelled>>

CloseDone(p) ==
    /\ Running(p, "close")
    /\ done' = [done EXCEPT ![Top(p).h] = TRUE]
    /\ Return(p)
    /\ UNCHANGED <<stopped, down, up, mut, called, cancelled>>

-----------------------------------------------------------------------------
(* AddDownstream and RemoveDownstream: two critical sections each *)

\* The mutant does not take the mutex.
LinkUnlocked(p) ==
    /\ Running(p, "link")
    /\ down' = [down EXCEPT ![Top(p).h] = @ \cup {Top(p).d}]
    /\ Return(p)
    /\ UNCHANGED <<stopped, done, up, mut, called, cancelled>>

Link(p) ==
    /\ Running(p, "link")
    /\ mut[Top(p).h] = Free
    /\ down' = [down EXCEPT ![Top(p).h] = @ \cup {Top(p).d}]
    /\ Return(p)
    /\ UNCHANGED <<stopped, done, up, mut, called, cancelled>>

Unlink(p) ==
    /\ Running(p, "unlink")
    /\ mut[Top(p).h] = Free
    /\ down' = [down EXCEPT ![Top(p).h] = @ \ {Top(p).d}]
    /\ Return(p)
    /\ UNCHANGED <<stopped, done, up, mut, called, cancelled>>

addUpstream(p) ==
    /\ Running(p, "linkUp")
    /\ mut[Top(p).d] = Free
    /\ up' = [up EXCEPT ![Top(p).d] = @ \cup {Top(p).h}]
    /\ Return(p)
    /\ UNCHANGED <<stopped, done, down, mut, called, cancelled>>

removeUpstream(p) ==
    /\ Running(p, "unlinkUp")
    /\ mut[Top(p).d] = Free
    /\ up' = [up EXCEPT ![Top(p).d] = @ \ {Top(p).h}]
    /\ Return(p)
    /\ UNCHANGED <<stopped, done, down, mut, called, cancelled>>

-----------------------------------------------------------------------------
(* The calls *)

RequestStop(p, h) == p \in Callers /\ Call(p, <<At("stop", h)>>)

\* The mutant forgets that MarkDone is also a request to stop.
MarkDoneUnasked(p, h) ==
    /\ p \in Callers \cup {h}
    /\ Call(p, <<At("waitLock", h), At("close", h)>>)

MarkDone(p, h) ==
    /\ p \in Callers \cup {h}
    /\ Call(p, <<At("stop", h), At("waitLock", h), At("close", h)>>)

MarkDoneNoBlock(p, h) ==
    /\ p = h
    /\ Call(p, <<At("stop", h), At("close", h)>>)

AddDownstream(p, h, d) ==
    /\ p \in Callers /\ <<h, d>> \in Relinked
    /\ Call(p, <<OnLink("link", h, d), OnLink("linkUp", h, d)>>)

RemoveDownstream(p, h, d) ==
    /\ p \in Callers /\ <<h, d>> \in Relinked
    /\ Call(p, <<OnLink("unlink", h, d), OnLink("unlinkUp", h, d)>>)

-----------------------------------------------------------------------------
(* MAD: the goroutine that ties a Halter to a context *)

\* Somebody cancels the context, or MAD does once the Halter is stopped or done.
CancelContext(h) ==
    /\ ~cancelled[h]
    /\ cancelled' = [cancelled EXCEPT ![h] = TRUE]
    /\ UNCHANGED <<haltVars, stack, called>>

MADHalted(h) == (stopped[h] \/ done[h]) /\ CancelContext(h)

\* case <-ctx.Done(): the channels are closed without the mutex, and without
\* RequestStop.
MADCancelled(h) ==
    /\ cancelled[h] /\ ~(stopped[h] /\ done[h])
    /\ stopped' = [stopped EXCEPT ![h] = TRUE]
    /\ done' = [done EXCEPT ![h] = TRUE]
    /\ UNCHANGED <<down, up, mut, stack, called, cancelled>>

-----------------------------------------------------------------------------

Step(p) ==
    \/ CloseReqStop(p)
    \/ LockTell(p)
    \/ TellDownstream(p)
    \/ Unlock(p)
    \/ LockWait(p)
    \/ NextDownstream(p)
    \/ DownstreamDone(p)
    \/ CloseDone(p)
    \/ Link(p)
    \/ addUpstream(p)
    \/ Unlink(p)
    \/ removeUpstream(p)

Calls(p) ==
    \/ \E h \in Halters :
          RequestStop(p, h) \/ MarkDone(p, h) \/ MarkDoneNoBlock(p, h)
    \/ \E h, d \in Halters :
          AddDownstream(p, h, d) \/ RemoveDownstream(p, h, d)

Next ==
    \/ \E p \in Procs : Step(p) \/ Calls(p)
    \/ \E h \in Contexts : CancelContext(h) \/ MADHalted(h) \/ MADCancelled(h)

Spec == Init /\ [][Next]_vars

\* The owner of a Halter selects on its ReqStopChan and then ends.
OwnerEnds(h) == stopped[h] /\ (MarkDone(h, h) \/ MarkDoneNoBlock(h, h))

\* Goroutines are scheduled, an owner that is asked to stop ends, and so does
\* the goroutine of MAD.  A mutex is not granted infinitely often to others,
\* because the calls are finitely many.
FairSpec ==
    /\ Spec
    /\ \A p \in Procs : WF_vars(Step(p))
    /\ \A h \in Halters : WF_vars(OwnerEnds(h))
    /\ \A h \in Contexts : WF_vars(MADHalted(h)) /\ WF_vars(MADCancelled(h))

-----------------------------------------------------------------------------
(* Properties *)

Frames(p) == {stack[p][i] : i \in 1..Len(stack[p])}

\* When MarkDone has gone through its downstream map, everything that is
\* downstream is done: nobody can link a Halter behind its back.
WaitComplete ==
    \A p \in Procs : \A f \in Frames(p) :
        f.pc = "wait" => \A d \in down[f.h] \ f.todo : done[d]

\* When RequestStop has gone through its downstream map, everything that is
\* downstream has been asked to stop, at every level of the recursion.
ToldComplete ==
    \A p \in Procs : \A i \in 1..Len(stack[p]) :
        LET f == stack[p][i] IN
        f.pc = "tell" =>
            \A d \in down[f.h] \ f.todo :
                stopped[d] \/ \E j \in 1..(i - 1) : stack[p][j].h = d

\* Each call that goes through a downstream map with the mutex held misses nobody, at any
\* level, although links come and go meanwhile; and the two maps of a link stay right.
VisitsComplete == TypeOK /\ WaitComplete /\ ToldComplete

\* RequestStop and MarkDone return, whatever they are called on and however
\* the calls overlap: the mutexes that they hold while they recurse and wait
\* are always taken from upstream to downstream.
CallsReturn == []<>(\A p \in Procs : stack[p] = <<>>)

\* What stays linked downstream of h, at any level.
Below == [h \in Halters |->
    {d \in Halters : \A s \in SUBSET Halters :
        h \in s /\ (\A e \in Linked \ Relinked : e[1] \in s => e[2] \in s) => d \in s}]

\* A request to stop ends everything that stays linked downstream, at every
\* level, also past Halters that were stopped before, by another goroutine or
\* by their context (which asks nobody, see MAD).
StopEndsAll ==
    []<>(\A h \in Halters \ Contexts : stopped[h] => \A d \in Below[h] : done[d])
=============================================================================

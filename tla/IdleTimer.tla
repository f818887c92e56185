----------------------------- MODULE IdleTimer -----------------------------
(***************************************************************************)
(* The idle timer of a channel: X/idle.go.                                 *)
(*                                                                         *)
(* One goroutine owns the duration, the ticker and the raised timeout, and *)
(* serves the calls through unbuffered channels; a call is served while    *)
(* the goroutine is at its select.  BeginAttempt and AttemptOK are atomic  *)
(* stores from other goroutines.                                           *)
(*                                                                         *)
(* Time is a number of ticks, and the timestamps are kept as ages:         *)
(* lastStart as startAge (None: -1, no attempt since the timeout was set), *)
(* and lastOK only as whether it is at least lastStart, which is all that  *)
(* IdleStatus asks of it.  Ages saturate above the longest duration.  A    *)
(* tick is long: a goroutine does not need one to go from reading the      *)
(* clock to storing what it read, nor to serve whoever waits for it.       *)
(***************************************************************************)
EXTENDS Integers

CONSTANTS
    MaxDur,     \* the longest duration, in ticks
    MaxCallbacks \* bound on the callbacks started and not run

ASSUME DurAssumption == MaxDur \in Nat \ {0} /\ MaxCallbacks \in Nat \ {0}

VARIABLES
    dur,        \* dur of the goroutine, and t.atomicdur
    heartch,    \* heartch is not nil
    beat,       \* a tick is in the channel of the ticker, which holds one
    timeOutRaised,
    lastOKSeen, \* the goroutine is in IdleStatus: the comparison it will make
    startAge,   \* monoNow() - lastStart, or None
    okSince,    \* lastOK >= lastStart
    isOneshot,
    halt,       \* t.Halt: "run", "asked" (ReqStop is closed), "done"
    callbacks,  \* started goroutines of the callback that have not run
    setter,     \* the duration a caller of SetIdleTimeout is sending, or None
    lull        \* history: how long nothing has succeeded since the duration was set;
                \* once it is longer than the duration, it stays so

timerVars == <<dur, heartch, beat, timeOutRaised, lastOKSeen, startAge, okSince,
               isOneshot, halt, callbacks, setter, lull>>

None == -1
Cap == MaxDur + 1
Ages == 0..Cap
Older(a) == IF a \in 0..MaxDur THEN a + 1 ELSE a

AtSelect == lastOKSeen = "select" /\ halt # "done"
Stopping == halt # "run"

\* NewIdleTimer with dur 0: lastStart and lastOK are 0, which IdleStatus takes for
\* "no Reads attempted", as it does -1.
TimerInit ==
    /\ dur = 0 /\ heartch = FALSE /\ beat = FALSE
    /\ timeOutRaised = FALSE /\ lastOKSeen = "select"
    /\ startAge = None /\ okSince = TRUE
    /\ isOneshot = FALSE /\ halt = "run" /\ callbacks = 0
    /\ setter = None /\ lull = 0

-----------------------------------------------------------------------------
(* Called by the readers, the writers and the mux.                          *)

BeginAttempt == startAge' = 0 /\ okSince' = FALSE

\* RequestStop on t.Halt, which is downstream of nothing.
RequestStop == halt' = IF halt = "run" THEN "asked" ELSE halt

\* The caller of AttemptOK on a oneshot timer then waits for DoneChan.
AttemptOKStops == RequestStop /\ UNCHANGED <<okSince, lull>>
AttemptOK ==
    IF isOneshot THEN RequestStop /\ UNCHANGED <<okSince, lull>>
                 ELSE /\ okSince' = TRUE /\ UNCHANGED halt
                      /\ lull' = IF lull > dur THEN lull ELSE 0

\* The answer to "<-idle.TimedOut or <-idle.Halt.ReqStopChan()": the goroutine
\* sends timeOutRaised, or the timer is stopping and the select may take that.
TimedOutIs(raised) == AtSelect /\ timeOutRaised = raised

-----------------------------------------------------------------------------
(* The goroutine of backgroundStart.                                        *)

\* case <-t.setIdleTimeoutCh, and close(tk.done) at the end of each branch.
TakeSetKept(d) ==
    /\ startAge' = None /\ UNCHANGED timeOutRaised
    /\ IF d = dur THEN UNCHANGED <<dur, heartch, beat>>
                  ELSE dur' = d /\ heartch' = (d > 0) /\ beat' = FALSE
TakeSet(d) ==
    /\ startAge' = None /\ timeOutRaised' = FALSE
    /\ IF d = dur THEN UNCHANGED <<dur, heartch, beat>>
                  ELSE dur' = d /\ heartch' = (d > 0) /\ beat' = FALSE

SetTaken ==
    /\ AtSelect /\ setter # None
    /\ TakeSet(setter)
    /\ setter' = None /\ lull' = 0
    /\ UNCHANGED <<lastOKSeen, okSince, isOneshot, halt, callbacks>>

\* The caller sees the timer stop instead.
SetHalted ==
    /\ Stopping /\ setter # None
    /\ setter' = None
    /\ UNCHANGED <<dur, heartch, beat, timeOutRaised, lastOKSeen, startAge, okSince,
                   isOneshot, halt, callbacks, lull>>

\* case <-heartch: IdleStatus loads lastOK ...
Heartbeat ==
    /\ AtSelect /\ heartch /\ beat /\ callbacks < MaxCallbacks
    /\ beat' = FALSE
    /\ lastOKSeen' = IF okSince THEN "ok" ELSE "notOK"
    /\ UNCHANGED <<dur, heartch, timeOutRaised, startAge, okSince, isOneshot, halt,
                   callbacks, setter, lull>>

\* ... and then lastStart.  If that is still older, the timeout is raised, the ticker
\* stopped, and the callback run on its own goroutine.
IdleStatus == lastOKSeen = "notOK" /\ startAge # None /\ startAge > dur

Raise == timeOutRaised' = TRUE /\ heartch' = FALSE /\ callbacks' = callbacks + 1

HeartbeatDone ==
    /\ lastOKSeen # "select"
    /\ lastOKSeen' = "select"
    /\ IF IdleStatus THEN Raise ELSE UNCHANGED <<timeOutRaised, heartch, callbacks>>
    /\ UNCHANGED <<dur, beat, startAge, okSince, isOneshot, halt, setter, lull>>

\* case <-t.Halt.ReqStopChan(), and MarkDone in the deferred function.
TimerStopsOnBeat ==
    /\ AtSelect /\ halt = "asked" /\ beat
    /\ halt' = "done" /\ heartch' = FALSE /\ beat' = FALSE
    /\ UNCHANGED <<dur, timeOutRaised, lastOKSeen, startAge, okSince, isOneshot,
                   callbacks, setter, lull>>
TimerStops ==
    /\ AtSelect /\ halt = "asked"
    /\ halt' = "done" /\ heartch' = FALSE /\ beat' = FALSE
    /\ UNCHANGED <<dur, timeOutRaised, lastOKSeen, startAge, okSince, isOneshot,
                   callbacks, setter, lull>>

-----------------------------------------------------------------------------
(* The owner of the channel, and time.                                      *)

\* SetReadIdleTimeout; SetReadDeadline makes the timer a oneshot first.
SetIdleTimeout(d) ==
    /\ setter = None
    /\ setter' = d
    /\ UNCHANGED <<dur, heartch, beat, timeOutRaised, lastOKSeen, startAge, okSince,
                   isOneshot, halt, callbacks, lull>>

SetOneshotIdleTimeout(d) ==
    /\ setter = None
    /\ setter' = d /\ isOneshot' = TRUE
    /\ UNCHANGED <<dur, heartch, beat, timeOutRaised, lastOKSeen, startAge, okSince,
                   halt, callbacks, lull>>

\* The ticker beats at a tenth of the duration, so in every tick.
Tick ==
    /\ lastOKSeen = "select" /\ setter = None /\ halt # "asked"
    /\ (heartch /\ ~beat) \/ startAge \in 0..MaxDur \/ lull <= MaxDur
    /\ startAge' = Older(startAge) /\ lull' = Older(lull)
    /\ beat' = heartch
    /\ UNCHANGED <<dur, heartch, timeOutRaised, lastOKSeen, okSince, isOneshot, halt,
                   callbacks, setter>>
=============================================================================

---------------------------- MODULE IdleChannel ----------------------------
(***************************************************************************)
(* A channel whose reader and writer wait under its read idle timer:       *)
(* buffer.Read, window.reserve and the parts of channel.go that touch the  *)
(* timer, composed with IdleTimer.                                         *)
(*                                                                         *)
(* Both waits ask the timer with their mutex held and then call Cond.Wait; *)
(* buffer.timeout and window.timeout broadcast without the mutex.  Both    *)
(* conditions use idleR: idleW is set and told of attempts, but nothing in *)
(* the package asks it, and it is not here.  The second BeginAttempt and   *)
(* AttemptOK of ReadExtended directly follow those of buffer.Read.  What   *)
(* the messages carry is in SSHChannel: here data and window are amounts.  *)
(***************************************************************************)
EXTENDS IdleTimer

CONSTANTS
    Uses,       \* what is done with the channel in one behaviour, each a subset of
                \* Kinds and of {"reads", "writes", "deadlines", "closes"}
    MaxWin      \* bound on the window

ASSUME WinAssumption == MaxWin \in Nat

\* The packets that come for the channel: data of the stream that is read; stderr
\* data and requests; window adjusts; the end of the data; close.
Kinds == {"data", "other", "adjust", "eof", "close"}

VARIABLES
    use,        \* one of Uses
    pending,    \* there is data in the buffer
    bufClosed,
    reader,     \* where the reader is
    win,        \* window.win
    winClosed,
    writer,     \* where the writer is
    closedHere, \* Close was called on the channel
    mux,        \* where handlePacket is
    packet      \* the packet it handles

bufVars == <<pending, bufClosed, reader>>
winVars == <<win, winClosed, writer>>
muxVars == <<mux, packet, closedHere>>
vars == <<use, timerVars, bufVars, winVars, muxVars>>

Init ==
    /\ use \in Uses
    /\ TimerInit
    /\ pending = FALSE /\ bufClosed = FALSE
    /\ reader = "idle"
    /\ win = 0 /\ winClosed = FALSE /\ writer = "idle"
    /\ mux = "loop" /\ packet = "none" /\ closedHere = FALSE

restOfTimer == <<dur, heartch, beat, timeOutRaised, lastOKSeen, isOneshot, callbacks,
                 setter>>

-----------------------------------------------------------------------------
(* ReadExtended and buffer.Read.  The mutex of the buffer is held at "asks" *)
(* and "toWait".                                                            *)

bufFree == reader \notin {"asks", "toWait"}

Read ==
    /\ reader = "idle" /\ "reads" \in use
    /\ BeginAttempt
    /\ reader' = "lock"
    /\ UNCHANGED <<use, restOfTimer, lull, halt, pending, bufClosed, winVars, muxVars>>

\* The loop of buffer.Read, from taking the mutex, first or at the end of Wait.
TakeData ==
    /\ reader = "lock"
    /\ IF pending THEN pending' = FALSE /\ reader' = "ok"
       ELSE IF bufClosed THEN reader' = "idle" /\ UNCHANGED pending
       ELSE reader' = "asks" /\ UNCHANGED pending
    /\ UNCHANGED <<use, timerVars, bufClosed, winVars, muxVars>>

\* The channel timed out: ErrTimeout.  It did not, or the timer is stopping: wait.
ReadTimesOut ==
    /\ reader = "asks" /\ TimedOutIs(TRUE)
    /\ reader' = "idle"
    /\ UNCHANGED <<use, timerVars, pending, bufClosed, winVars, muxVars>>

ReadGoesOn ==
    /\ reader = "asks" /\ (TimedOutIs(FALSE) \/ Stopping)
    /\ reader' = "toWait"
    /\ UNCHANGED <<use, timerVars, pending, bufClosed, winVars, muxVars>>

\* Cond.Wait: from here on broadcasts and signals reach the reader.
ReadWaits ==
    /\ reader = "toWait"
    /\ reader' = "waits"
    /\ UNCHANGED <<use, timerVars, pending, bufClosed, winVars, muxVars>>

\* AttemptOK after the mutex was released.
ReadOK ==
    /\ reader = "ok"
    /\ AttemptOK
    /\ reader' = IF isOneshot THEN "stopping" ELSE "idle"
    /\ UNCHANGED <<use, restOfTimer, startAge, pending, bufClosed, winVars, muxVars>>

ReadStopped ==
    /\ reader = "stopping" /\ halt = "done"
    /\ reader' = "idle"
    /\ UNCHANGED <<use, timerVars, pending, bufClosed, winVars, muxVars>>

WakeReader == reader' = IF reader = "waits" THEN "lock" ELSE reader

-----------------------------------------------------------------------------
(* WriteExtended: window.reserve, of one unit.  The mutex of the window is  *)
(* held at "asks" and "tests".                                              *)

winFree == writer \notin {"asks", "tests"}

Write ==
    /\ writer = "idle" /\ "writes" \in use
    /\ writer' = "asks"
    /\ UNCHANGED <<use, timerVars, bufVars, win, winClosed, muxVars>>

\* reserveShouldReturn: ErrTimeout, io.EOF, or go on.
ReserveTimesOut ==
    /\ writer = "asks" /\ TimedOutIs(TRUE)
    /\ writer' = "idle"
    /\ UNCHANGED <<use, timerVars, bufVars, win, winClosed, muxVars>>

ReserveStopped ==
    /\ writer = "asks" /\ Stopping
    /\ writer' = "eof"
    /\ UNCHANGED <<use, timerVars, bufVars, win, winClosed, muxVars>>

ReserveGoesOn ==
    /\ writer = "asks" /\ TimedOutIs(FALSE)
    /\ writer' = "tests"
    /\ UNCHANGED <<use, timerVars, bufVars, win, winClosed, muxVars>>

\* The loop condition: wait, or take what there is.
Reserve ==
    /\ writer = "tests"
    /\ IF win = 0 /\ ~winClosed THEN writer' = "waits" /\ UNCHANGED win
       ELSE /\ win' = IF win = 0 THEN 0 ELSE win - 1
            /\ writer' = IF winClosed THEN "eof" ELSE "idle"
    /\ UNCHANGED <<use, timerVars, bufVars, winClosed, muxVars>>

WakeWriter == writer' = IF writer = "waits" THEN "asks" ELSE writer

-----------------------------------------------------------------------------
(* The callback, channel.timeout: broadcasts without a mutex.               *)

TimeoutReader ==
    /\ callbacks > 0
    /\ callbacks' = callbacks - 1
    /\ WakeReader
    /\ UNCHANGED <<use, dur, heartch, beat, timeOutRaised, lastOKSeen, startAge, okSince,
                   isOneshot, halt, setter, lull, pending, bufClosed,
                   winVars, muxVars>>
Timeout ==
    /\ callbacks > 0
    /\ callbacks' = callbacks - 1
    /\ WakeReader /\ WakeWriter
    /\ UNCHANGED <<use, dur, heartch, beat, timeOutRaised, lastOKSeen, startAge, okSince,
                   isOneshot, halt, setter, lull, pending, bufClosed,
                   win, winClosed, muxVars>>

-----------------------------------------------------------------------------
(* handlePacket, called by the mux.                                         *)

\* AttemptOK, for every packet.
HandlePacket(k) ==
    /\ mux = "loop"
    /\ k \in {"data", "eof"} => ~bufClosed
    /\ k = "adjust" => win < MaxWin
    /\ AttemptOK
    /\ packet' = k
    /\ mux' = IF isOneshot THEN "stopping" ELSE "apply"
    /\ UNCHANGED <<use, restOfTimer, startAge, bufVars, winVars, closedHere>>

PacketStopped ==
    /\ mux = "stopping" /\ halt = "done"
    /\ mux' = "apply"
    /\ UNCHANGED <<use, timerVars, bufVars, winVars, packet, closedHere>>

\* buffer.write.
HandleData ==
    /\ mux = "apply" /\ packet = "data" /\ bufFree
    /\ pending' = TRUE /\ WakeReader
    /\ mux' = "loop" /\ packet' = "none"
    /\ UNCHANGED <<use, timerVars, bufClosed, winVars, closedHere>>

\* Nothing that this reader or writer waits for.
HandleOther ==
    /\ mux = "apply" /\ packet = "other"
    /\ mux' = "loop" /\ packet' = "none"
    /\ UNCHANGED <<use, timerVars, bufVars, winVars, closedHere>>

\* window.add.
HandleAdjust ==
    /\ mux = "apply" /\ packet = "adjust" /\ winFree
    /\ win' = win + 1 /\ WakeWriter
    /\ mux' = "loop" /\ packet' = "none"
    /\ UNCHANGED <<use, timerVars, bufVars, winClosed, closedHere>>

\* buffer.eof, for msgChannelEOF and first in close().
HandleEOF ==
    /\ mux = "apply" /\ packet \in {"eof", "close"} /\ bufFree
    /\ bufClosed' = TRUE /\ WakeReader
    /\ IF packet = "eof" THEN mux' = "loop" /\ packet' = "none"
                         ELSE mux' = "closing" /\ UNCHANGED packet
    /\ UNCHANGED <<use, timerVars, pending, winVars, closedHere>>

\* The rest of close(): window.close, then idleR.Stop, which waits for DoneChan.
CloseWindow ==
    /\ mux = "closing" /\ winFree
    /\ winClosed' = TRUE /\ WakeWriter
    /\ RequestStop
    /\ mux' = "stopIdle"
    /\ UNCHANGED <<use, restOfTimer, lull, startAge, okSince, bufVars, win, packet,
                   closedHere>>

Closed ==
    /\ mux = "stopIdle" /\ halt = "done"
    /\ mux' = "closed"
    /\ UNCHANGED <<use, timerVars, bufVars, winVars, packet, closedHere>>

\* Close, by the owner of the channel: the timer is told to stop, and the peer will
\* answer with its own close.
Close ==
    /\ "closes" \in use /\ ~closedHere
    /\ closedHere' = TRUE
    /\ RequestStop
    /\ UNCHANGED <<use, restOfTimer, lull, startAge, okSince, bufVars, winVars, mux,
                   packet>>

-----------------------------------------------------------------------------
ioVars == <<use, bufVars, winVars, muxVars>>

Beat == (Heartbeat \/ HeartbeatDone) /\ UNCHANGED ioVars

Owner ==
    \/ \E d \in 0..MaxDur : SetIdleTimeout(d) /\ UNCHANGED ioVars
    \/ \E d \in 0..MaxDur : "deadlines" \in use /\ SetOneshotIdleTimeout(d) /\ UNCHANGED ioVars
    \/ Close

Reading == TakeData \/ ReadTimesOut \/ ReadGoesOn \/ ReadWaits \/ ReadOK \/ ReadStopped
Writing == ReserveTimesOut \/ ReserveStopped \/ ReserveGoesOn \/ Reserve
Handling ==
    \/ PacketStopped \/ HandleData \/ HandleOther \/ HandleAdjust \/ HandleEOF
    \/ CloseWindow \/ Closed

Time == Tick /\ reader # "asks" /\ writer # "asks" /\ UNCHANGED ioVars

Next ==
    \/ Time
    \/ Beat
    \/ TimerStops /\ UNCHANGED ioVars
    \/ (SetTaken \/ SetHalted) /\ UNCHANGED ioVars
    \/ Owner
    \/ Timeout
    \/ Read \/ Reading
    \/ Write \/ Writing
    \/ \E k \in Kinds \cap use : HandlePacket(k)
    \/ Handling

Spec == Init /\ [][Next]_vars

\* Every goroutine that can go on does, and time passes.  Nobody has to call Read,
\* Write or SetIdleTimeout, and the peer need not send.
FairSpec ==
    /\ Spec
    /\ WF_vars(Time) /\ WF_vars(Beat) /\ WF_vars(TimerStops /\ UNCHANGED ioVars)
    /\ WF_vars((SetTaken \/ SetHalted) /\ UNCHANGED ioVars)
    /\ WF_vars(Timeout) /\ WF_vars(Reading) /\ WF_vars(Writing) /\ WF_vars(Handling)

-----------------------------------------------------------------------------
\* The variables keep their types; the window, a uint32, never goes below zero.
TypeOK ==
    /\ dur \in 0..MaxDur /\ startAge \in Ages \cup {None} /\ lull \in Ages
    /\ {heartch, beat, timeOutRaised, okSince, isOneshot} \subseteq BOOLEAN
    /\ lastOKSeen \in {"select", "ok", "notOK"} /\ halt \in {"run", "asked", "done"}
    /\ callbacks \in 0..MaxCallbacks /\ setter \in 0..MaxDur \cup {None}
    /\ {pending, bufClosed, winClosed, closedHere} \subseteq BOOLEAN
    /\ reader \in {"idle", "lock", "asks", "toWait", "waits", "ok", "stopping"}
    /\ writer \in {"idle", "asks", "tests", "waits", "eof"}
    /\ win \in 0..MaxWin /\ packet \in Kinds \cup {"none"}
    /\ mux \in {"loop", "stopping", "apply", "closing", "stopIdle", "closed"}

ReadTimedOut == reader = "asks" /\ reader' = "idle"
WriteTimedOut == writer = "asks" /\ writer' = "idle"

\* A Read that returns ErrTimeout leaves no data behind: "Reads from the buffer once all
\* the data has been consumed will receive ErrTimeout" (buffer.timeout).  The data may
\* arrive, and the timeout be raised, while the Read is on its way.
TimeoutAfterData == [][ReadTimedOut => ~pending]_vars

\* ErrTimeout is never early: a Read or a Write returns it only if, since the duration in
\* force was set, there has been a time longer than it in which no Read succeeded and no
\* packet came, whatever timeout was raised, and whichever attempts were begun, before ("A
\* successful Read will bump the idle timeout into the future"; SetReadIdleTimeout "will
\* always reset and clear any raised timeout left over from prior use").  It is the
\* channel that was idle so long, not the call: one that is made after the timeout was
\* raised gets it at once, a Write that has window too.
NeverEarly == [][ReadTimedOut \/ WriteTimedOut => lull > dur]_vars

\* A timeout is true, then: the channel has been idle for longer than the duration, and a
\* Read that gets it had nothing to return.
TimeoutsTrue == TimeoutAfterData /\ NeverEarly

\* The state is well typed.  Without deadlines, a Write gets io.EOF from window.reserve only
\* when the channel was closed, here or by the peer.  A deadline stops the timer with the
\* first successful Read, and from then on reserveShouldReturn answers io.EOF on an open
\* channel.
WriteEofMeansClosed ==
    /\ TypeOK
    /\ writer = "eof" => winClosed \/ closedHere \/ isOneshot

\* A wait that the running timer finds idle ends: from an attempt begun with the ticker
\* running and no success since, the Read or the Write that waits is woken, unless an
\* attempt succeeds, the timeout is set anew, or the timer is stopped.
Idle == startAge # None /\ ~okSince /\ ~Stopping
IdleWaitsEnd ==
    /\ (Idle /\ heartch /\ reader = "waits") ~> (~Idle \/ reader # "waits")
    /\ (Idle /\ heartch /\ writer = "waits") ~> (~Idle \/ writer # "waits")

\* Every call that waits for the timer's goroutine returns, also when it is stopping:
\* SetIdleTimeout, Stop, AttemptOK of a oneshot timer (both panic after ten seconds), and
\* the question a Read asks with the mutex of the buffer held.
TimerAnswers ==
    /\ setter # None ~> setter = None
    /\ halt = "asked" ~> halt = "done"
    /\ reader = "asks" ~> reader # "asks"

\* What the comment on SetReadIdleTimeout says: it "starts an idle timer on Reads that will
\* cause them to timeout after dur".  A Read begun under a timeout does not wait for ever.
ReadsTimeOut ==
    (reader = "waits" /\ dur > 0 /\ startAge # None /\ ~Stopping)
        ~> (reader # "waits" \/ dur = 0 \/ startAge = None \/ Stopping)
=============================================================================

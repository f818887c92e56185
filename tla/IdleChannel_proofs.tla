------------------------ MODULE IdleChannel_proofs ------------------------
(***************************************************************************)
(* What is proved of a channel with its idle timer, for any durations,     *)
(* window and use of the channel.                                          *)
(*                                                                         *)
(* TimeoutsTrue and WriteEofMeansClosed rest on IdleInv: an attempt that   *)
(* is not answered is no older than the lull, so that a timeout raised for *)
(* it is not early; a reader that asks the timer holds the mutex of an     *)
(* empty buffer; and the timer is stopped only by a close or a deadline.   *)
(***************************************************************************)
EXTENDS IdleChannel, TLAPS

TimerAmounts ==
    /\ dur \in 0..MaxDur /\ startAge \in Ages \cup {None} /\ lull \in Ages
    /\ callbacks \in 0..MaxCallbacks /\ setter \in 0..MaxDur \cup {None}

TimerFlags ==
    /\ {heartch, beat, timeOutRaised, okSince, isOneshot} \subseteq BOOLEAN
    /\ lastOKSeen \in {"select", "ok", "notOK"} /\ halt \in {"run", "asked", "done"}

\* A callback can still be started for a heartbeat in progress; nothing has succeeded since
\* an attempt that is not answered, and a timeout is raised for such an attempt, also when
\* it succeeds while IdleStatus is at work.
TimerInv ==
    /\ lastOKSeen # "select" => callbacks < MaxCallbacks
    /\ startAge # None /\ okSince = FALSE => startAge <= lull \/ lull > dur
    /\ lastOKSeen = "notOK" /\ startAge # None /\ startAge > dur => lull > dur
    /\ timeOutRaised => lull > dur

TimerPart == TimerAmounts /\ TimerFlags /\ TimerInv

IOType ==
    /\ {pending, bufClosed, winClosed, closedHere} \subseteq BOOLEAN
    /\ reader \in {"idle", "lock", "asks", "toWait", "waits", "ok", "stopping"}
    /\ writer \in {"idle", "asks", "tests", "waits", "eof"}
    /\ win \in 0..MaxWin /\ packet \in Kinds \cup {"none"}
    /\ mux \in {"loop", "stopping", "apply", "closing", "stopIdle", "closed"}

\* Nobody but the mux adds to the window, and there was room when it took the packet.
WinInv == packet = "adjust" /\ mux \in {"stopping", "apply"} => win < MaxWin

IOPart == IOType /\ WinInv

\* Why the timer stops and why a Write ends; what the mutex of the buffer protects.
EndInv ==
    /\ Stopping => winClosed \/ closedHere \/ isOneshot
    /\ writer = "eof" => winClosed \/ closedHere \/ isOneshot
    /\ reader \in {"asks", "toWait"} => ~pending

IdleInv == TimerPart /\ IOPart /\ EndInv

\* What does not touch the timer keeps its part of the invariant ...
LEMMA TimerFrame == TimerPart /\ UNCHANGED timerVars => TimerPart'
  BY DEF TimerPart, TimerAmounts, TimerFlags, TimerInv, timerVars

\* ... and the timer alone keeps the part of the reader, the writer and the mux.
LEMMA IOFrame == IOPart /\ UNCHANGED ioVars => IOPart'
  BY Zenon DEF IOPart, IOType, WinInv, ioVars, bufVars, winVars, muxVars

\* Every step keeps the invariant.
LEMMA IdleStep == IdleInv /\ [Next]_vars => IdleInv'
<1>. SUFFICES ASSUME TimerPart, IOPart, EndInv, [Next]_vars PROVE IdleInv'
  BY Zenon DEF IdleInv
<1>. USE DurAssumption, WinAssumption
<1>1. CASE Time
  <2>1. TimerPart'
    <3>1. TimerAmounts' /\ TimerInv'
      BY <1>1 DEF Time, Tick, Older, TimerPart, TimerAmounts, TimerInv, Ages, Cap,
         None
    <3>2. TimerFlags'
      BY <1>1, Zenon DEF Time, Tick, Older, TimerPart, TimerFlags
    <3>. QED
      BY <3>1, <3>2, Zenon DEF TimerPart
  <2>2. IOPart'
    BY <1>1, IOFrame, Zenon DEF Time
  <2>3. EndInv'
    BY <1>1, Zenon DEF Time, Tick, Older, ioVars, bufVars, winVars, muxVars, EndInv,
       Stopping
  <2>. QED
    BY <2>1, <2>2, <2>3, Zenon DEF IdleInv
<1>2. CASE Heartbeat /\ UNCHANGED ioVars
  <2>1. TimerPart'
    <3>1. TimerAmounts' /\ TimerInv'
      <4>1. TimerAmounts'
        BY <1>2, Zenon DEF Heartbeat, TimerPart, TimerAmounts
      <4>2. UNCHANGED <<callbacks, startAge, okSince, lull, dur, timeOutRaised>>
        BY <1>2, Zenon DEF Heartbeat
      <4>3. callbacks < MaxCallbacks /\ (lastOKSeen' = "notOK" => okSince = FALSE)
        BY <1>2, Zenon DEF Heartbeat, TimerPart, TimerFlags
      <4>4. lastOKSeen' = "notOK" /\ startAge # None /\ startAge > dur => lull > dur
        BY <4>3 DEF TimerPart, TimerInv, TimerAmounts, Ages, Cap, None
      <4>. QED
        BY <4>1, <4>2, <4>3, <4>4, Zenon DEF TimerPart, TimerInv
    <3>2. TimerFlags'
      BY <1>2, Zenon DEF Heartbeat, TimerPart, TimerFlags
    <3>. QED
      BY <3>1, <3>2, Zenon DEF TimerPart
  <2>2. IOPart'
    BY <1>2, IOFrame, Zenon DEF Heartbeat
  <2>3. EndInv'
    BY <1>2, Zenon DEF Heartbeat, ioVars, bufVars, winVars, muxVars, EndInv, Stopping
  <2>. QED
    BY <2>1, <2>2, <2>3, Zenon DEF IdleInv
<1>3. CASE HeartbeatDone /\ UNCHANGED ioVars
  <2>1. TimerPart'
    <3>1. TimerAmounts' /\ TimerInv'
      BY <1>3 DEF HeartbeatDone, IdleStatus, Raise, TimerPart, TimerAmounts, TimerInv,
         Ages, Cap, None
    <3>2. TimerFlags'
      BY <1>3, Zenon DEF HeartbeatDone, IdleStatus, Raise, TimerPart, TimerFlags
    <3>. QED
      BY <3>1, <3>2, Zenon DEF TimerPart
  <2>2. IOPart'
    BY <1>3, IOFrame, Zenon DEF HeartbeatDone
  <2>3. EndInv'
    BY <1>3, Zenon DEF HeartbeatDone, IdleStatus, Raise, ioVars, bufVars, winVars,
       muxVars, EndInv, Stopping
  <2>. QED
    BY <2>1, <2>2, <2>3, Zenon DEF IdleInv
<1>4. CASE TimerStops /\ UNCHANGED ioVars
  <2>1. TimerPart'
    <3>1. TimerAmounts' /\ TimerInv'
      BY <1>4, Zenon DEF TimerStops, TimerPart, TimerAmounts, TimerInv, Ages, Cap, None
    <3>2. TimerFlags'
      BY <1>4, Zenon DEF TimerStops, TimerPart, TimerFlags
    <3>. QED
      BY <3>1, <3>2, Zenon DEF TimerPart
  <2>2. IOPart'
    BY <1>4, IOFrame, Zenon DEF TimerStops
  <2>3. EndInv'
    BY <1>4, Zenon DEF TimerStops, ioVars, bufVars, winVars, muxVars, EndInv, Stopping
  <2>. QED
    BY <2>1, <2>2, <2>3, Zenon DEF IdleInv
<1>5. CASE SetTaken /\ UNCHANGED ioVars
  <2>1. TimerPart'
    <3>1. TimerAmounts' /\ TimerInv'
      BY <1>5 DEF SetTaken, TakeSet, TimerPart, TimerAmounts, TimerInv, Ages, Cap,
         None
    <3>2. TimerFlags'
      <4>1. heartch' \in BOOLEAN
        <5>1. heartch' = heartch \/ heartch' = (setter > 0)
          BY <1>5, Zenon DEF SetTaken, TakeSet
        <5>2. (setter > 0) \in BOOLEAN
          BY SMT
        <5>. QED
          BY <5>1, <5>2, Zenon DEF TimerPart, TimerFlags
      <4>2. UNCHANGED <<lastOKSeen, okSince, isOneshot, halt>>
        BY <1>5, Zenon DEF SetTaken
      <4>3. timeOutRaised' = FALSE /\ beat' \in {beat, FALSE}
        BY <1>5, Zenon DEF SetTaken, TakeSet
      <4>. QED
        BY <4>1, <4>2, <4>3, Zenon DEF TimerPart, TimerFlags
    <3>. QED
      BY <3>1, <3>2, Zenon DEF TimerPart
  <2>2. IOPart'
    BY <1>5, IOFrame, Zenon DEF SetTaken
  <2>3. EndInv'
    BY <1>5, Zenon DEF SetTaken, TakeSet, ioVars, bufVars, winVars, muxVars, EndInv,
       Stopping
  <2>. QED
    BY <2>1, <2>2, <2>3, Zenon DEF IdleInv
<1>6. CASE SetHalted /\ UNCHANGED ioVars
  <2>1. TimerPart'
    <3>1. TimerAmounts' /\ TimerInv'
      BY <1>6, Zenon DEF SetHalted, TimerPart, TimerAmounts, TimerInv, Ages, Cap, None
    <3>2. TimerFlags'
      BY <1>6, Zenon DEF SetHalted, TimerPart, TimerFlags
    <3>. QED
      BY <3>1, <3>2, Zenon DEF TimerPart
  <2>2. IOPart'
    BY <1>6, IOFrame, Zenon DEF SetHalted
  <2>3. EndInv'
    BY <1>6, Zenon DEF SetHalted, ioVars, bufVars, winVars, muxVars, EndInv, Stopping
  <2>. QED
    BY <2>1, <2>2, <2>3, Zenon DEF IdleInv
<1>7. CASE \E d \in 0..MaxDur : SetIdleTimeout(d) /\ UNCHANGED ioVars
  <2>1. TimerPart'
    <3>1. TimerAmounts' /\ TimerInv'
      BY <1>7 DEF SetIdleTimeout, TimerPart, TimerAmounts, TimerInv, Ages, Cap, None
    <3>2. TimerFlags'
      BY <1>7, Zenon DEF SetIdleTimeout, TimerPart, TimerFlags
    <3>. QED
      BY <3>1, <3>2, Zenon DEF TimerPart
  <2>2. IOPart'
    BY <1>7, IOFrame, Zenon DEF SetIdleTimeout
  <2>3. EndInv'
    <3>1. UNCHANGED <<halt, isOneshot, ioVars>>
      BY <1>7, Zenon DEF SetIdleTimeout
    <3>. QED
      BY <3>1, Zenon DEF ioVars, bufVars, winVars, muxVars, EndInv, Stopping
  <2>. QED
    BY <2>1, <2>2, <2>3, Zenon DEF IdleInv
<1>8. CASE \E d \in 0..MaxDur : SetOneshotIdleTimeout(d) /\ UNCHANGED ioVars
  <2>1. TimerPart'
    <3>1. TimerAmounts' /\ TimerInv'
      BY <1>8 DEF SetOneshotIdleTimeout, TimerPart, TimerAmounts, TimerInv, Ages, Cap,
         None
    <3>2. TimerFlags'
      BY <1>8, Zenon DEF SetOneshotIdleTimeout, TimerPart, TimerFlags
    <3>. QED
      BY <3>1, <3>2, Zenon DEF TimerPart
  <2>2. IOPart'
    BY <1>8, IOFrame, Zenon DEF SetOneshotIdleTimeout
  <2>3. EndInv'
    <3>1. isOneshot' /\ UNCHANGED ioVars
      BY <1>8, Zenon DEF SetOneshotIdleTimeout
    <3>. QED
      BY <3>1, Zenon DEF ioVars, bufVars, winVars, muxVars, EndInv
  <2>. QED
    BY <2>1, <2>2, <2>3, Zenon DEF IdleInv
<1>9. CASE Close
  <2>1. TimerPart'
    <3>1. TimerAmounts' /\ TimerInv'
      BY <1>9, Zenon DEF Close, RequestStop, restOfTimer, TimerPart, TimerAmounts, TimerInv,
         Ages, Cap, None
    <3>2. TimerFlags'
      BY <1>9, Zenon DEF Close, RequestStop, restOfTimer, TimerPart, TimerFlags
    <3>. QED
      BY <3>1, <3>2, Zenon DEF TimerPart
  <2>2. IOPart'
    BY <1>9 DEF Close, bufVars, winVars, IOPart, IOType, WinInv
  <2>3. EndInv'
    BY <1>9, Zenon DEF Close, RequestStop, restOfTimer, bufVars, winVars, EndInv,
       Stopping
  <2>. QED
    BY <2>1, <2>2, <2>3, Zenon DEF IdleInv
<1>10. CASE Timeout
  <2>1. TimerPart'
    <3>1. TimerAmounts' /\ TimerInv'
      BY <1>10 DEF Timeout, TimerPart, TimerAmounts, TimerInv, Ages, Cap, None
    <3>2. TimerFlags'
      BY <1>10, Zenon DEF Timeout, TimerPart, TimerFlags
    <3>. QED
      BY <3>1, <3>2, Zenon DEF TimerPart
  <2>2. IOPart'
    BY <1>10, Zenon DEF Timeout, WakeReader, WakeWriter, muxVars, IOPart, IOType, WinInv
  <2>3. EndInv'
    BY <1>10, Zenon DEF Timeout, WakeReader, WakeWriter, muxVars, EndInv, Stopping
  <2>. QED
    BY <2>1, <2>2, <2>3, Zenon DEF IdleInv
<1>11. CASE Read
  <2>1. TimerPart'
    <3>1. TimerAmounts' /\ TimerInv'
      BY <1>11 DEF Read, BeginAttempt, restOfTimer, TimerPart, TimerAmounts, TimerInv,
         Ages, Cap, None
    <3>2. TimerFlags'
      BY <1>11, Zenon DEF Read, BeginAttempt, restOfTimer, TimerPart, TimerFlags
    <3>. QED
      BY <3>1, <3>2, Zenon DEF TimerPart
  <2>2. IOPart'
    BY <1>11, Zenon DEF Read, winVars, muxVars, IOPart, IOType, WinInv
  <2>3. EndInv'
    BY <1>11, Zenon DEF Read, restOfTimer, winVars, muxVars, EndInv, Stopping
  <2>. QED
    BY <2>1, <2>2, <2>3, Zenon DEF IdleInv
<1>12. CASE ReadOK
  <2>1. TimerPart'
    <3>1. TimerAmounts' /\ TimerInv'
      BY <1>12 DEF ReadOK, AttemptOK, RequestStop, restOfTimer, TimerPart,
         TimerAmounts, TimerInv, Ages, Cap, None
    <3>2. TimerFlags'
      BY <1>12, Zenon DEF ReadOK, AttemptOK, RequestStop, restOfTimer, TimerPart,
         TimerFlags
    <3>. QED
      BY <3>1, <3>2, Zenon DEF TimerPart
  <2>2. IOPart'
    BY <1>12, Zenon DEF ReadOK, winVars, muxVars, IOPart, IOType, WinInv
  <2>3. EndInv'
    BY <1>12, Zenon DEF ReadOK, AttemptOK, RequestStop, restOfTimer, winVars, muxVars,
       EndInv, Stopping
  <2>. QED
    BY <2>1, <2>2, <2>3, Zenon DEF IdleInv
<1>13. CASE \E k \in Kinds \cap use : HandlePacket(k)
  <2>1. TimerPart'
    <3>1. TimerAmounts' /\ TimerInv'
      BY <1>13 DEF HandlePacket, AttemptOK, RequestStop, restOfTimer, TimerPart,
         TimerAmounts, TimerInv, Ages, Cap, None
    <3>2. TimerFlags'
      BY <1>13, Zenon DEF HandlePacket, AttemptOK, RequestStop, restOfTimer,
         TimerPart, TimerFlags
    <3>. QED
      BY <3>1, <3>2, Zenon DEF TimerPart
  <2>2. IOPart'
    BY <1>13 DEF HandlePacket, bufVars, winVars, IOPart, IOType, WinInv
  <2>3. EndInv'
    <3>1. /\ isOneshot \/ halt' = halt
          /\ UNCHANGED <<isOneshot, bufVars, winVars, closedHere>>
      BY <1>13, Zenon DEF HandlePacket, AttemptOK, restOfTimer
    <3>. QED
      BY <3>1, Zenon DEF bufVars, winVars, EndInv, Stopping
  <2>. QED
    BY <2>1, <2>2, <2>3, Zenon DEF IdleInv
<1>14. CASE CloseWindow
  <2>1. TimerPart'
    <3>1. TimerAmounts' /\ TimerInv'
      BY <1>14, Zenon DEF CloseWindow, RequestStop, restOfTimer, TimerPart, TimerAmounts,
         TimerInv, Ages, Cap, None
    <3>2. TimerFlags'
      BY <1>14, Zenon DEF CloseWindow, RequestStop, restOfTimer, TimerPart, TimerFlags
    <3>. QED
      BY <3>1, <3>2, Zenon DEF TimerPart
  <2>2. IOPart'
    BY <1>14, Zenon DEF CloseWindow, WakeWriter, bufVars, IOPart, IOType, WinInv
  <2>3. EndInv'
    BY <1>14, Zenon DEF CloseWindow, WakeWriter, RequestStop, restOfTimer, bufVars,
       EndInv, Stopping
  <2>. QED
    BY <2>1, <2>2, <2>3, Zenon DEF IdleInv
<1>15. CASE TakeData
  <2>1. TimerPart'
    BY <1>15, TimerFrame, Zenon DEF TakeData
  <2>2. IOPart'
    BY <1>15, Zenon DEF TakeData, winVars, muxVars, IOPart, IOType, WinInv
  <2>3. EndInv'
    BY <1>15, Zenon DEF TakeData, winVars, muxVars, timerVars, EndInv, Stopping
  <2>. QED
    BY <2>1, <2>2, <2>3, Zenon DEF IdleInv
<1>16. CASE ReadTimesOut
  <2>1. TimerPart'
    BY <1>16, TimerFrame, Zenon DEF ReadTimesOut
  <2>2. IOPart'
    BY <1>16, Zenon DEF ReadTimesOut, winVars, muxVars, IOPart, IOType, WinInv
  <2>3. EndInv'
    BY <1>16, Zenon DEF ReadTimesOut, winVars, muxVars, timerVars, EndInv, Stopping
  <2>. QED
    BY <2>1, <2>2, <2>3, Zenon DEF IdleInv
<1>17. CASE ReadGoesOn
  <2>1. TimerPart'
    BY <1>17, TimerFrame, Zenon DEF ReadGoesOn
  <2>2. IOPart'
    BY <1>17, Zenon DEF ReadGoesOn, winVars, muxVars, IOPart, IOType, WinInv
  <2>3. EndInv'
    BY <1>17, Zenon DEF ReadGoesOn, winVars, muxVars, timerVars, EndInv, Stopping
  <2>. QED
    BY <2>1, <2>2, <2>3, Zenon DEF IdleInv
<1>18. CASE ReadWaits
  <2>1. TimerPart'
    BY <1>18, TimerFrame, Zenon DEF ReadWaits
  <2>2. IOPart'
    BY <1>18, Zenon DEF ReadWaits, winVars, muxVars, IOPart, IOType, WinInv
  <2>3. EndInv'
    BY <1>18, Zenon DEF ReadWaits, winVars, muxVars, timerVars, EndInv, Stopping
  <2>. QED
    BY <2>1, <2>2, <2>3, Zenon DEF IdleInv
<1>19. CASE ReadStopped
  <2>1. TimerPart'
    BY <1>19, TimerFrame, Zenon DEF ReadStopped
  <2>2. IOPart'
    BY <1>19, Zenon DEF ReadStopped, winVars, muxVars, IOPart, IOType, WinInv
  <2>3. EndInv'
    BY <1>19, Zenon DEF ReadStopped, winVars, muxVars, timerVars, EndInv, Stopping
  <2>. QED
    BY <2>1, <2>2, <2>3, Zenon DEF IdleInv
<1>20. CASE Write
  <2>1. TimerPart'
    BY <1>20, TimerFrame, Zenon DEF Write
  <2>2. IOPart'
    BY <1>20, Zenon DEF Write, bufVars, muxVars, IOPart, IOType, WinInv
  <2>3. EndInv'
    BY <1>20, Zenon DEF Write, bufVars, muxVars, timerVars, EndInv, Stopping
  <2>. QED
    BY <2>1, <2>2, <2>3, Zenon DEF IdleInv
<1>21. CASE ReserveTimesOut
  <2>1. TimerPart'
    BY <1>21, TimerFrame, Zenon DEF ReserveTimesOut
  <2>2. IOPart'
    BY <1>21, Zenon DEF ReserveTimesOut, bufVars, muxVars, IOPart, IOType, WinInv
  <2>3. EndInv'
    BY <1>21, Zenon DEF ReserveTimesOut, bufVars, muxVars, timerVars, EndInv, Stopping
  <2>. QED
    BY <2>1, <2>2, <2>3, Zenon DEF IdleInv
<1>22. CASE ReserveStopped
  <2>1. TimerPart'
    BY <1>22, TimerFrame, Zenon DEF ReserveStopped
  <2>2. IOPart'
    BY <1>22, Zenon DEF ReserveStopped, bufVars, muxVars, IOPart, IOType, WinInv
  <2>3. EndInv'
    BY <1>22, Zenon DEF ReserveStopped, bufVars, muxVars, timerVars, EndInv, Stopping
  <2>. QED
    BY <2>1, <2>2, <2>3, Zenon DEF IdleInv
<1>23. CASE ReserveGoesOn
  <2>1. TimerPart'
    BY <1>23, TimerFrame, Zenon DEF ReserveGoesOn
  <2>2. IOPart'
    BY <1>23, Zenon DEF ReserveGoesOn, bufVars, muxVars, IOPart, IOType, WinInv
  <2>3. EndInv'
    BY <1>23, Zenon DEF ReserveGoesOn, bufVars, muxVars, timerVars, EndInv, Stopping
  <2>. QED
    BY <2>1, <2>2, <2>3, Zenon DEF IdleInv
<1>24. CASE Reserve
  <2>1. TimerPart'
    BY <1>24, TimerFrame, Zenon DEF Reserve
  <2>2. IOPart'
    BY <1>24 DEF Reserve, bufVars, muxVars, IOPart, IOType, WinInv
  <2>3. EndInv'
    BY <1>24, Zenon DEF Reserve, bufVars, muxVars, timerVars, EndInv, Stopping
  <2>. QED
    BY <2>1, <2>2, <2>3, Zenon DEF IdleInv
<1>25. CASE PacketStopped
  <2>1. TimerPart'
    BY <1>25, TimerFrame, Zenon DEF PacketStopped
  <2>2. IOPart'
    BY <1>25, Zenon DEF PacketStopped, bufVars, winVars, IOPart, IOType, WinInv
  <2>3. EndInv'
    BY <1>25, Zenon DEF PacketStopped, bufVars, winVars, timerVars, EndInv, Stopping
  <2>. QED
    BY <2>1, <2>2, <2>3, Zenon DEF IdleInv
<1>26. CASE HandleData
  <2>1. TimerPart'
    BY <1>26, TimerFrame, Zenon DEF HandleData
  <2>2. IOPart'
    BY <1>26, Zenon DEF HandleData, WakeReader, bufFree, winVars, IOPart, IOType, WinInv
  <2>3. EndInv'
    BY <1>26, Zenon DEF HandleData, WakeReader, bufFree, winVars, timerVars, EndInv,
       Stopping
  <2>. QED
    BY <2>1, <2>2, <2>3, Zenon DEF IdleInv
<1>27. CASE HandleOther
  <2>1. TimerPart'
    BY <1>27, TimerFrame, Zenon DEF HandleOther
  <2>2. IOPart'
    BY <1>27, Zenon DEF HandleOther, bufVars, winVars, IOPart, IOType, WinInv
  <2>3. EndInv'
    BY <1>27, Zenon DEF HandleOther, bufVars, winVars, timerVars, EndInv, Stopping
  <2>. QED
    BY <2>1, <2>2, <2>3, Zenon DEF IdleInv
<1>28. CASE HandleAdjust
  <2>1. TimerPart'
    BY <1>28, TimerFrame, Zenon DEF HandleAdjust
  <2>2. IOPart'
    BY <1>28 DEF HandleAdjust, WakeWriter, bufVars, IOPart, IOType, WinInv
  <2>3. EndInv'
    BY <1>28, Zenon DEF HandleAdjust, WakeWriter, bufVars, timerVars, EndInv, Stopping
  <2>. QED
    BY <2>1, <2>2, <2>3, Zenon DEF IdleInv
<1>29. CASE HandleEOF
  <2>1. TimerPart'
    BY <1>29, TimerFrame, Zenon DEF HandleEOF
  <2>2. IOPart'
    BY <1>29, Zenon DEF HandleEOF, WakeReader, winVars, IOPart, IOType, WinInv
  <2>3. EndInv'
    BY <1>29, Zenon DEF HandleEOF, WakeReader, winVars, timerVars, EndInv, Stopping
  <2>. QED
    BY <2>1, <2>2, <2>3, Zenon DEF IdleInv
<1>30. CASE Closed
  <2>1. TimerPart'
    BY <1>30, TimerFrame, Zenon DEF Closed
  <2>2. IOPart'
    BY <1>30, Zenon DEF Closed, bufVars, winVars, IOPart, IOType, WinInv
  <2>3. EndInv'
    BY <1>30, Zenon DEF Closed, bufVars, winVars, timerVars, EndInv, Stopping
  <2>. QED
    BY <2>1, <2>2, <2>3, Zenon DEF IdleInv
<1>31. CASE UNCHANGED vars
  <2>1. TimerPart'
    BY <1>31, TimerFrame, Zenon DEF vars
  <2>2. IOPart'
    BY <1>31, IOFrame, Zenon DEF vars, ioVars
  <2>3. EndInv'
    BY <1>31, Zenon DEF vars, timerVars, bufVars, winVars, muxVars, EndInv, Stopping
  <2>. QED
    BY <2>1, <2>2, <2>3, Zenon DEF IdleInv
<1>. QED
  BY <1>1, <1>2, <1>3, <1>4, <1>5, <1>6, <1>7, <1>8, <1>9, <1>10, <1>11, <1>12, <1>13,
     <1>14, <1>15, <1>16, <1>17, <1>18, <1>19, <1>20, <1>21, <1>22, <1>23, <1>24,
     <1>25, <1>26, <1>27, <1>28, <1>29, <1>30, <1>31, Zenon DEF Next, Beat, Owner,
     Reading, Writing, Handling

\* A channel starts with its timer idle, an empty buffer and no window.
LEMMA IdleInit == Init => IdleInv
<1>. SUFFICES ASSUME Init PROVE IdleInv
  OBVIOUS
<1>1. TimerPart
  <2>1. TimerAmounts
    BY DurAssumption DEF Init, TimerInit, TimerAmounts, Ages, Cap, None
  <2>2. TimerFlags
    BY Zenon DEF Init, TimerInit, TimerFlags
  <2>3. TimerInv
    BY Zenon DEF Init, TimerInit, TimerInv
  <2>. QED
    BY <2>1, <2>2, <2>3, Zenon DEF TimerPart
<1>2. IOPart
  <2>1. win \in 0..MaxWin
    BY WinAssumption DEF Init
  <2>. QED
    BY <2>1, Zenon DEF Init, IOPart, IOType, WinInv
<1>3. EndInv
  BY Zenon DEF Init, TimerInit, EndInv, Stopping
<1>. QED
  BY <1>1, <1>2, <1>3, Zenon DEF IdleInv

\* The inductive invariant.
LEMMA IdleAlways == Spec => []IdleInv
  BY IdleInit, IdleStep, PTL DEF Spec

\* The parts of the invariant have the types of the variables.
LEMMA PartsTyped == IdleInv => TypeOK
  BY Zenon DEF IdleInv, TimerPart, TimerAmounts, TimerFlags, IOPart, IOType, TypeOK

\* Only the answer of the timer ends a Read or a Write that asks with ErrTimeout.
LEMMA TimedOutIsRaised ==
    [Next]_vars /\ (ReadTimedOut \/ WriteTimedOut) => timeOutRaised = TRUE
<1>. SUFFICES ASSUME [Next]_vars, ReadTimedOut \/ WriteTimedOut PROVE timeOutRaised = TRUE
  OBVIOUS
<1>1. CASE ReadTimesOut \/ ReserveTimesOut
  BY <1>1, Zenon DEF ReadTimesOut, ReserveTimesOut, TimedOutIs
<1>2. CASE UNCHANGED ioVars \/ UNCHANGED vars
  BY <1>2, Zenon DEF vars, ioVars, bufVars, winVars, ReadTimedOut, WriteTimedOut
<1>3. CASE Close \/ \E k \in Kinds \cap use : HandlePacket(k)
  BY <1>3, Zenon DEF Close, HandlePacket, bufVars, winVars, ReadTimedOut, WriteTimedOut
<1>4. CASE Timeout
  BY <1>4, Zenon DEF Timeout, WakeReader, WakeWriter, ReadTimedOut, WriteTimedOut
<1>5. CASE Read \/ TakeData \/ ReadGoesOn \/ ReadWaits \/ ReadOK \/ ReadStopped
  BY <1>5, Zenon DEF Read, TakeData, ReadGoesOn, ReadWaits, ReadOK, ReadStopped, winVars,
     ReadTimedOut, WriteTimedOut
<1>6. CASE Write \/ ReserveStopped \/ ReserveGoesOn \/ Reserve
  BY <1>6, Zenon DEF Write, ReserveStopped, ReserveGoesOn, Reserve, bufVars,
     ReadTimedOut, WriteTimedOut
<1>7. CASE PacketStopped \/ HandleData \/ HandleOther \/ HandleAdjust
  BY <1>7, Zenon DEF PacketStopped, HandleData, HandleOther, HandleAdjust, WakeReader,
     WakeWriter, bufVars, winVars, ReadTimedOut, WriteTimedOut
<1>8. CASE HandleEOF \/ CloseWindow \/ Closed
  BY <1>8, Zenon DEF HandleEOF, CloseWindow, Closed, WakeReader, WakeWriter, bufVars,
     winVars, ReadTimedOut, WriteTimedOut
<1>9. Next \/ UNCHANGED vars
  OBVIOUS
<1>10. CASE Time \/ Beat \/ (TimerStops /\ UNCHANGED ioVars)
  BY <1>2, <1>10, Zenon DEF Time, Beat
<1>11. CASE Owner
  BY <1>2, <1>3, <1>11, Zenon DEF Owner
<1>12. CASE Reading \/ Writing \/ Handling
  BY <1>1, <1>5, <1>6, <1>7, <1>8, <1>12, Zenon DEF Reading, Writing, Handling
<1>. QED
  BY <1>2, <1>3, <1>4, <1>5, <1>6, <1>9, <1>10, <1>11, <1>12, Zenon DEF Next

\* A timeout is true: a Read that returns ErrTimeout leaves no data behind, and neither it
\* nor a Write returns it unless the channel has been idle for longer than the duration
\* since that was set.
THEOREM TimeoutsAreTrue == Spec => TimeoutsTrue
<1>1. IdleInv /\ [Next]_vars => [ReadTimedOut => ~pending]_vars
  BY Zenon DEF IdleInv, EndInv, ReadTimedOut
<1>2. IdleInv /\ [Next]_vars => [ReadTimedOut \/ WriteTimedOut => lull > dur]_vars
  BY TimedOutIsRaised, Zenon DEF IdleInv, TimerPart, TimerInv
<1>. QED
  BY <1>1, <1>2, IdleAlways, PTL DEF Spec, TimeoutsTrue, TimeoutAfterData, NeverEarly

\* A Write gets io.EOF only from a closed channel or from a timer that a deadline has
\* stopped, and every variable keeps its type.
THEOREM EofIsClosed == Spec => []WriteEofMeansClosed
<1>1. IdleInv => WriteEofMeansClosed
  BY PartsTyped, Zenon DEF IdleInv, EndInv, WriteEofMeansClosed
<1>. QED
  BY <1>1, IdleAlways, PTL
=============================================================================

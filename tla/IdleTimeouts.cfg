SPECIFICATION FairSpec
CONSTANTS
    MaxDur = 2
    MaxCallbacks = 1
    MaxWin = 1
    Uses <- MCUses
INVARIANTS WriteEofMeansClosed
PROPERTIES TimeoutsTrue IdleWaitsEnd TimerAnswers
\* A channel that nobody uses rests.
CHECK_DEADLOCK FALSE

SPECIFICATION FairSpec
CONSTANTS
    MaxDur = 1
    MaxCallbacks = 1
    MaxWin = 1
    Uses <- MCReader
PROPERTIES ReadsTimeOut
CHECK_DEADLOCK FALSE

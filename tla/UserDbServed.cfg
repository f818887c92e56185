SPECIFICATION FairSpec
CONSTANTS
    Logins = {"amy", "bob"}
    Uses <- Served
    MaxStarts = 2
    MaxLogins = 1
INVARIANTS DiskIsMemory UsersKept DelsSerial
PROPERTIES ReplyTrue StopEnds
\* Everybody may be done.
CHECK_DEADLOCK FALSE

SPECIFICATION Spec
CONSTANTS
    Logins = {"amy", "bob"}
    Uses <- Beside
    MaxStarts = 1
    MaxLogins = 1
INVARIANTS OneWriter
CHECK_DEADLOCK FALSE

SPECIFICATION FairSpec
CONSTANTS
    a = a  b = b  c = c  x = x
    Halters = {a, b, c}
    Callers = {x}
    Linked <- Chain
    Relinked <- Shortcut
    Contexts = {b}
INVARIANTS VisitsComplete
PROPERTIES CallsReturn StopEndsAll
\* All Halters may be done.
CHECK_DEADLOCK FALSE

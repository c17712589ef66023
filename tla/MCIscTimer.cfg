SPECIFICATION Spec
CONSTANTS
    Timers = {t1, t2}
    Clients = {c1}
    Settings <- AllSettings
    Memory = {TRUE, FALSE}
    TimeMax = 3
    Watchdog = 1
    MaxRefs = 2
    MaxResets = 1
SYMMETRY Symmetry
CHECK_DEADLOCK FALSE
INVARIANTS
    HeapKeepsOrder
    PurgeIsFinal
    WakesInTime
    NotLate
    TimeoutIsLast

SPECIFICATION FairSpec
CONSTANTS
    Workers = {w1, w2}
    Clients = {c1}
    Tasks = {t1, t2}
    Events = {e1}
    NoPurge = {}
    Quantum = 1
    MaxRefs = 2
    Ops <- LiveOps
    None = None
CHECK_DEADLOCK FALSE
INVARIANTS
    PrioritySublist
    RunningCounted
    ExclusiveAccess
PROPERTIES
    EventsAreTaken
    UnreferencedIsFreed
    ExclusiveIsGranted
    PrivilegedModeEnds
    DestroyReturns

SPECIFICATION Spec
CONSTANTS
    Workers = {w1, w2}
    Clients = {c1}
    Tasks = {t1, t2}
    Events = {e1, e2}
    NoPurge = {e1}
    Quantum = 1
    MaxRefs = 2
    Ops <- LifeOps
    None = None
SYMMETRY Symmetry
CHECK_DEADLOCK FALSE
INVARIANTS
    ScheduledOnce
    NoUseAfterFree
    NoLostWakeup
    DestroyedIsEmpty
PROPERTY
    ImplementsTaskSpec

SPECIFICATION FairSpec
CONSTANTS
    s1 = s1
    s2 = s2
    Sockets = {s1, s2}
    Fds = {f1, f2}
    MaxRequests = 1
    MaxRefs = 2
    MaxPipe = 2
    Ops <- PlainOps
    None = None
CHECK_DEADLOCK FALSE
INVARIANTS
    WatchedOnce
    NoUseAfterFree
    DescriptorIsOwned
    QuietWhenDone
    DestroyedIsClean
PROPERTY
    DestroyReturns

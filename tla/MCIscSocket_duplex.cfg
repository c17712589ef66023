SPECIFICATION FairSpec
CONSTANTS
    s1 = s1
    s2 = s2
    Sockets = {s1}
    Fds = {f1}
    MaxRequests = 1
    MaxRefs = 1
    MaxPipe = 2
    Ops <- DuplexOps
    None = None
CHECK_DEADLOCK FALSE
INVARIANT
    RequestIsWatched

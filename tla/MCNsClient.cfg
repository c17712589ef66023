SPECIFICATION Spec
CONSTANTS
    Clients = {c1, c2, c3}
    Interfaces = {i1}
    TcpMax = 1
    RecMax = 2
    RecSoft = 1
    None = None
CHECK_DEADLOCK FALSE
INVARIANTS
    
    
    NoUseAfterFree
    ExitIsDue

SPECIFICATION Spec
CONSTANTS
    Senders = {s1, s2}
    Peers = {p1, p2}
    Qids = {0, 1, 2}
    Items = 2
    RxSlots = 2
    Limit = 2
    TxSlots = 3
    UIntMod = 8
    MaxQueries = 2
    MaxRequests = 3
    Nobody = Nobody
SYMMETRY Symmetry
CHECK_DEADLOCK FALSE
INVARIANTS
    CurReflectsSent

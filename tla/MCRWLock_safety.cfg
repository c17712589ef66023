SPECIFICATION Spec
CONSTANTS
    t1 = t1
    t2 = t2
    t3 = t3
    Threads = {t1, t2, t3}
    Wrap = 5
    write_quota = 2
    FirstRead = {"requests", "completions"}
    Ops <- AllOps
SYMMETRY Symmetry
INVARIANTS
    MutualExclusion
    WordIsExact
    ReaderKeepsWriterOut
    NoSleeperLeft
PROPERTY
    ImplementsRWSpec

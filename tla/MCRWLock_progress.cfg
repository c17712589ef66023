SPECIFICATION FairSpec
CONSTANTS
    t1 = t1
    t2 = t2
    t3 = t3
    Threads = {t1, t2, t3}
    Wrap = 5
    write_quota = 2
    FirstRead = {"requests"}
    Ops <- Crowd
PROPERTIES
    ReadersGetIn
    WriterGetsIn

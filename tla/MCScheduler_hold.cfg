CONSTANTS
    a = a  b = b  c = c  d = d
    Tasks = {a, b, c, d}
    Roots = {a, b}
    Endless = {b}
    w1 = w1
    Workers = {w1}
    NoTask = NoTask
    Operations = {"relax", "fschedule", "gather", "await"}
    MaxLeft = 2
    UShort = 65536
SPECIFICATION FairSpec
INVARIANTS OnePlace NoUseAfterFree
PROPERTIES GatherBarrier Finishes CoroutineSpec

CONSTANTS
    t1 = t1  t2 = t2  t3 = t3
    w1 = w1  w2 = w2
    Tasks = {t1, t2, t3}
    Workers = {w1, w2}
    NoTask = NoTask
    Programs <- Mixed
    Count = 2
    Capacity = 1
    Delays <- Sleeps
    ModuleFails = TRUE
    CachedErrno = FALSE
SPECIFICATION FairSpec
INVARIANTS TypeOK NoFalseError Delivered EndOfFile
PROPERTIES SleptEnough Ends

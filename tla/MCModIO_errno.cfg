CONSTANTS
    t1 = t1  t2 = t2  t3 = t3
    w1 = w1  w2 = w2
    Tasks = {t1, t2, t3}
    Workers = {w1, w2}
    NoTask = NoTask
    Programs <- Readers
    Count = 2
    Capacity = 1
    Delays <- Sleeps
    ModuleFails = FALSE
    CachedErrno = TRUE
SPECIFICATION Spec
INVARIANT NoFalseError

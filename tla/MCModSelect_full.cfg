CONSTANTS
    t1 = t1  t2 = t2  t3 = t3
    Tasks = {t1, t2}
    Fds = {0, 1}
    FdsOf <- FdsOf2
    NoTask = NoTask
    MaxFileNo = 2
    WordBits = 64
    SelectFails = FALSE
SPECIFICATION Spec
INVARIANT RingHolds

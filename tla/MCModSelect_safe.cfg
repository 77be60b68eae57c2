CONSTANTS
    t1 = t1  t2 = t2  t3 = t3
    Tasks = {t1, t2, t3}
    Fds = {0, 3}
    FdsOf <- FdsOf3
    NoTask = NoTask
    MaxFileNo = 3
    WordBits = 64
    SelectFails = TRUE
SPECIFICATION FairSpec
INVARIANTS RingHolds NoneForgotten
PROPERTIES IoSpec WokenWhenReady

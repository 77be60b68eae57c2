CONSTANTS
    t1 = t1  t2 = t2  t3 = t3
    f1 = f1  f2 = f2  f3 = f3
    Tasks = {t1, t2}
    Fds = {f1, f2, f3}
    FdsOf <- FdsOf2
    NoTask = NoTask
    EpollFails = FALSE
SPECIFICATION FairSpec
PROPERTY WokenWhenReady

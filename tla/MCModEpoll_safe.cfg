CONSTANTS
    t1 = t1  t2 = t2  t3 = t3
    f1 = f1  f2 = f2  f3 = f3
    Tasks = {t1, t2, t3}
    Fds = {f1, f2}
    FdsOf <- FdsOf3
    NoTask = NoTask
    EpollFails = TRUE
SPECIFICATION FairSpec
INVARIANTS EventsAlive NoneForgotten NoFalseReady
PROPERTIES IoSpec WokenUnlessPanic

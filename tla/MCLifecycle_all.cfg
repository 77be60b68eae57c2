CONSTANTS
    a = a  b = b  c = c
    MaxWorkers = 2
    Tasks = {a, b, c}
    NoTask = NoTask
    Points = TRUE
    MaxLeft = 1
SPECIFICATION FairSpec
INVARIANTS TypeOK SelfKnown FreedAlone ShutdownWhenDone
PROPERTY Returns

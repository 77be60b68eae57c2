CONSTANTS
    a = a  b = b  c = c  d = d  e = e
    Tasks = {a, b, c, d}
    Roots = {a, b}
    Endless = {a}
    w1 = w1  w2 = w2  w3 = w3
    Workers = {w1, w2, w3}
    NoTask = NoTask
    Operations = {"relax", "fschedule"}
    MaxLeft = 1
    UShort = 65536
SPECIFICATION Spec
INVARIANTS TypeOK OneStack OnePlace NoUseAfterFree WorkersStay ExitWhenDone

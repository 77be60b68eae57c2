CONSTANTS
    a = a  b = b  c = c  d = d  e = e
    Tasks = {a, b}
    Roots = {a}
    Endless = {}
    w1 = w1  w2 = w2  w3 = w3
    Workers = {w1, w2}
    NoTask = NoTask
    Operations = {"gather"}
    MaxLeft = 1
    UShort = 65536
SPECIFICATION Spec
INVARIANT OneStack

CONSTANTS
    m = m  w1 = w1  w2 = w2
    v1 = v1  v2 = v2  v3 = v3  v4 = v4
    Threads = {m, w1, w2}
    Master = m
    Items = {v1, v2, v3, v4}
    NoItem = NoItem
SPECIFICATION Spec
SYMMETRY Symmetry
INVARIANTS Represents PopFinds
PROPERTY ListSpec

CONSTANTS
    v1 = v1  v2 = v2  v3 = v3
    Items = {v1, v2, v3}
    m = m  w1 = w1  w2 = w2  w3 = w3
    Threads = {m, w1, w2, w3}
    Workers = {w1, w2, w3}
    NoItem = NoItem
    MaxBatch = 3
SPECIFICATION FairSpec
INVARIANTS TypeOK Represents NoPushRefused NoLostWakeup
PROPERTIES FifoSpec Served

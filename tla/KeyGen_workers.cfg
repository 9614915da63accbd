CONSTANTS
    None = None
    Puts = {p1}
    Workers = {w1, w2}
    Configs <- Limits
    MaxHistory = 2
    IntModulus = 4
SYMMETRY Symmetry
SPECIFICATION Spec
INVARIANTS TypeOK OneLateKey CompleteAtExit HistoryInOrder
CHECK_DEADLOCK FALSE

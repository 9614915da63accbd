CONSTANTS
    None = None
    Puts = {p1, p2}
    Workers = {w1, w2}
    Configs <- Modes
    MaxHistory = 0
    IntModulus = 1
SYMMETRY Symmetry
SPECIFICATION Spec
INVARIANTS OnlyOneLive SettledConfig
CHECK_DEADLOCK FALSE

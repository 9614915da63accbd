CONSTANTS
    None = None
    Puts = {p1}
    Workers = {w1, w2}
    Configs <- Endings
    MaxHistory = 0
    IntModulus = 1
SPECIFICATION LiveSpec
PROPERTIES LimitedWorkloadEnds CancelledEnds
CHECK_DEADLOCK FALSE

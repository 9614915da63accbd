CONSTANTS
    FailNexts <- Values
    Configs = {2}
    MaxHistory = 3
    IntModulus = 8
    Conns = {c1, c2}
    Apis = {"probe", "memory", "dns"}
    MaxLeaks = 3
    MaxSearch = 2
CHECK_DEADLOCK FALSE
SPECIFICATION KuardLiveSpec
INVARIANTS KuardTypeOK FailsAsTold HistoryInOrder ShutdownDrains LeaksAsAsked FirstAnswerDecides
PROPERTIES SignalEndsProcess

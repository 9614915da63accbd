SPECIFICATION Spec
CONSTANTS
    Variants <- EveryVariant
    Serials <- EveryWay
    Queue = "work"
    Strange <- StrangePaths
INVARIANTS TypeOK APIRoutesWin OwnRouteWins VariantsAlike PageCallsArrive
CHECK_DEADLOCK FALSE

SPECIFICATION Spec
CONSTANTS
    Variants <- OneVariant
    Serials <- EveryWay
    Queue = "work"
    Strange <- StrangePaths
INVARIANTS ClientReachesServer
CHECK_DEADLOCK FALSE

CONSTANTS
    None = None
    Handlers = {h1, h2}
    Queues = {q1, q2}
    Streams = {q1, q2}
    StreamName <- DistinctNames
    Msgs = {m1, m2}
    Ops = {"create", "delete", "drain", "put", "get", "stats"}
    Connects = {TRUE}
    MaxFaults = 0
    MaxCrashes = 0
SYMMETRY Symmetry
SPECIFICATION Spec
INVARIANTS TypeOK EachQueueHasItsStream StatsSeesRegisteredQueues NoAcceptedMessageLost CountersMatchTraffic
PROPERTIES MapChangesExclusively

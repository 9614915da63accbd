CONSTANTS
    None = None
    Handlers = {h1, h2, h3}
    Queues = {q1}
    Streams = {q1}
    StreamName <- DistinctNames
    Msgs = {m1}
    Ops = {"create", "delete", "put", "stats"}
    Connects = {TRUE}
    MaxFaults = 0
    MaxCrashes = 0
SPECIFICATION LiveSpec
PROPERTIES EveryRequestAnswered

CONSTANTS
    None = None
    Handlers = {h1, h2}
    Queues = {q1, q2}
    Streams = {s1}
    StreamName <- AliasedNames
    Msgs = {m1}
    Ops = {"create"}
    Connects = {TRUE}
    MaxFaults = 0
    MaxCrashes = 0
SPECIFICATION Spec
INVARIANTS EachQueueHasItsStream

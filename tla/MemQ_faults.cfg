CONSTANTS
    None = None
    Handlers = {h1, h2}
    Queues = {q1}
    Streams = {q1}
    StreamName <- DistinctNames
    Msgs = {m1}
    Ops = {"create", "delete", "drain", "put", "get"}
    Connects = {TRUE, FALSE}
    MaxFaults = 1
    MaxCrashes = 1
SYMMETRY HandlerSymmetry
SPECIFICATION Spec
INVARIANTS NoAcceptedMessageLost HandedOutOnce AckedMeansHandedOut
PROPERTIES WedgedUntilRestart ImplementsService

SPECIFICATION ClientSpec
CONSTANTS
    MaxJobs = 1
    k1 = k1
    d1 = d1
    Keys = {k1}
    Datasets = {d1}
    EmptyId = EmptyId
    Requests <- OneRequest
    MaxWorkers = 1
    MaxReady = 2
    Stages <- StageNames
    NextStages <- ShortOrder
    ReturnsFrom <- ReturnPoints
    ErrorCodes <- OneError
    Streams = {1, 2}
    Pollers = {p1}
    MaxActive = 2
INVARIANTS
    ClientTypeOK
    ReceivedIsPrefix
    ClosedIsComplete
    OnlyReadersSubscribed
    ViewsAreComplete
    PollsMoveForward
PROPERTIES
    StreamsEnd
CHECK_DEADLOCK FALSE

SPECIFICATION FairSpec
CONSTANTS
    MaxJobs = 3
    k1 = k1
    k2 = k2
    k3 = k3
    d1 = d1
    Keys = {k1, k2}
    Datasets = {d1}
    EmptyId = EmptyId
    Requests <- OneDatasetRequests
    MaxWorkers = 1
    MaxReady = 1
    Stages <- StageNames
    NextStages <- ShortOrder
    ReturnsFrom <- ReturnPoints
    ErrorCodes <- OneError
PROPERTIES
    EveryJobFinishes
    CancelStopsAtNextBoundary
    ImplementsFairPromise
CHECK_DEADLOCK FALSE

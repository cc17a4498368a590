SPECIFICATION UploadSpec
CONSTANTS
    MaxJobs = 2
    Keys <- SomeKeys
    Datasets = {dA, dB, dC}
    EmptyId = EmptyId
    Requests <- SomeRequests
    MaxWorkers = 2
    MaxReady = 2
    Stages <- StageNames
    NextStages <- ReadingOrder
    ReturnsFrom <- ReturnPoints
    ErrorCodes <- OneError
    c1 = c1
    c2 = c2
    a = a
    b = b
    h = h
    s1 = s1
    dA = dA
    dB = dB
    dC = dC
    Contents = {c1, c2}
    SampleFiles = {s1}
    IdOf <- SomeIds
    Uploads <- SomeUploads
    Samples <- OneSample
    MaxRequests = 3
    Capacities = {3, 4}
    Floor = 1
INVARIANTS
    UploadTypeOK
    CutOnlyByRewrite
    ReplyNamesContent
    StaleOnlyAfterReplacement
    LoneIngestFits
CHECK_DEADLOCK FALSE

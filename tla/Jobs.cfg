SPECIFICATION Spec
CONSTANTS
    MaxJobs = 3
    k1 = k1
    k2 = k2
    k3 = k3
    d1 = d1
    Keys = {k1, k2, k3}
    Datasets = {d1}
    EmptyId = EmptyId
    Requests <- ThreeUploads
    MaxWorkers = 2
    MaxReady = 2
    Stages <- StageNames
    NextStages <- ShortOrder
    ReturnsFrom <- ReturnPoints
    ErrorCodes <- OneError
INVARIANTS
    TypeOK
    ManagerInv
    IngestsSerialised
    OneJobPerKey
    HistoryComplete
    OutcomeShaped
PROPERTIES
    TerminalIsFinal
CHECK_DEADLOCK FALSE

SPECIFICATION Spec
CONSTANTS
    SampleBytes = 5
    MaxDeterminants = 3
    TextLength = 7
    WordLength = 6
    TableColumns = 4
    Files <- FileSet
    Naming <- Reads
INVARIANT
    RevenueIsForced
CHECK_DEADLOCK FALSE

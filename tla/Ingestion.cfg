SPECIFICATION Spec
CONSTANTS
    SampleBytes = 5
    MaxDeterminants = 3
    TextLength = 7
    WordLength = 6
    TableColumns = 4
    Files <- FileSet
    Naming <- Reads
INVARIANTS
    ValidFilesLoad
    DatesReadAsStated
    PeriodsAgree
    MeasuresAreMeasures
CHECK_DEADLOCK FALSE

SPECIFICATION Spec
CONSTANTS
    d1 = d1
    d2 = d2
    q1 = q1
    Datasets = {d1}
    Contents <- MCContents
    RowCount <- MCRowCount
    Columns <- MCColumns
    Bound <- MCBound
    Queries = {q1}
    MaxBuilds = 2
    MaxCrashes = 2
INVARIANTS
    RehydratedModelIsRight
CHECK_DEADLOCK FALSE

SPECIFICATION Spec
CONSTANTS
    ga = ga
    gb = gb
    gc = gc
    MaxRows = 3
    Cases <- CaseSet
    Length <- Lengths
    FlagGrain = "month"
    Small = 100
    NULL = NULL
INVARIANT
    BaseIsEarlier
CHECK_DEADLOCK FALSE

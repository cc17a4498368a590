SPECIFICATION Spec
CONSTANTS
    d1 = d1
    d2 = d2
    Datasets = {d1, d2}
    Corpus <- SmallCorpus
    Files <- AnyFile
    Plans <- Questions
    Partials <- FollowUps
    MaxTurns = 3
INVARIANTS
    ConversationTypeOK
    SoundReads
    GapsAreOfThisTurn
    RevenueProvenance
    ProductScopeStated
    FailuresAreExplained
CHECK_DEADLOCK FALSE

SPECIFICATION Spec
CONSTANTS
    Null = Null
    Start <- MCStart
    Dims <- MCDims
    WindowSets <- MCWindowSets
    Terms <- MCTerms
    ChunkSizes <- MCChunkSizes
    MaxRows = 6
    MaxDrops = 1
    MaxMinted = 4
INVARIANTS
    TypeOK
    ExpansionIsTheProduct
    PlanMeansItsTerms
    JoinIsTheRelation
    StackedSlicesReadAsBefore
    OffloadIsInvisible
CHECK_DEADLOCK FALSE

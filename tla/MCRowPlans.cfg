SPECIFICATION Spec
CONSTANTS
    Null = Null
    KeyColumns <- MCKeyColumns
    Selections <- MCSelections
    Hows = {"inner", "outer"}
    PipeCalls <- HonestCalls
    MaxRows = 3
    MaxDatasets = 6
    MaxMinted = 4
INVARIANTS
    TypeOK
    LabelMeansOneRow
    GatheredRowIsTheReferencedRow
    DemotedIndexKeepsItsMeaning
    ImplodeIsTheRelation
    FlattenUndoesPartition
    ReductionsRollUp
CHECK_DEADLOCK FALSE

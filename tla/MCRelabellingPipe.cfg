SPECIFICATION Spec
CONSTANTS
    Null = Null
    KeyColumns <- MCKeyColumns
    Selections <- MCSelections
    Hows = {"inner", "outer"}
    PipeCalls <- RelabellingCalls
    MaxRows = 3
    MaxDatasets = 6
    MaxMinted = 4
INVARIANTS
    LabelMeansOneRow
CHECK_DEADLOCK FALSE

SPECIFICATION Spec
CONSTANTS
    Null = Null
    Bits = 16
    Second = 1048576
    Rates <- MCRates
    Slices <- MCSlices
    Cuts <- MCCuts
    MaxCuts = 3
    MaxTiles = 100
INVARIANTS
    TypeOK
    TilesStrayByOneSample
    OnlyRoundingDecidesFit
CHECK_DEADLOCK FALSE

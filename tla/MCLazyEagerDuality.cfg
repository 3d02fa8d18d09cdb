CONSTANTS
  FirstId = 103
  Source <- OneOfEach
  Spare = {out1, out2}
  MaxRecords = 3
  MaxEdits = 1
  Repeats = FALSE
  Others <- MCOthers
  Strategies <- MCStrategies
  Twins = FALSE
SYMMETRY SpareSymmetry
SPECIFICATION Spec
CHECK_DEADLOCK FALSE
INVARIANTS
  TypeOK
  NoDanglingReference
  DeferredEqualsEager
  EagerAlwaysUsable
PROPERTIES
  OneWinner

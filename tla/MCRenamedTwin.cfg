CONSTANTS
  FirstId = 4
  Source <- OneOfEach
  Spare = {out1}
  MaxRecords = 2
  MaxEdits = 1
  Repeats = FALSE
  Others <- RenamedBranch
  Strategies <- MCStrategies
  Twins = TRUE
SPECIFICATION Spec
CHECK_DEADLOCK FALSE
INVARIANTS
  DeferredEqualsEager

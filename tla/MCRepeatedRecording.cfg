CONSTANTS
  FirstId = 4
  Source <- TwoWindows
  Spare = {}
  MaxRecords = 3
  MaxEdits = 0
  Repeats = TRUE
  Others <- NoOthers
  Strategies <- NoStrategies
  Twins = FALSE
SPECIFICATION Spec
CHECK_DEADLOCK FALSE
INVARIANTS
  DeferredEqualsEager

CONSTANTS
  Names = {a, b}
  FirstFields = {a}
  Programs <- Both
  MaxContexts = 2
  MaxHandles = 2
SPECIFICATION Spec
CHECK_DEADLOCK FALSE
PROPERTIES
  CollectIsRepeatable

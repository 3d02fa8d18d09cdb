CONSTANTS
  Names = {a, b, c}
  FirstFields = {a}
  Programs <- BlocksOrBundles
  MaxContexts = 2
  MaxHandles = 2
SYMMETRY Symmetry
SPECIFICATION Spec
CHECK_DEADLOCK FALSE
INVARIANTS
  TypeOK
  AmbientIsInnermost
PROPERTIES
  HandlesOutliveOperators
  ContextsMoveForward
  CollectIsRepeatable

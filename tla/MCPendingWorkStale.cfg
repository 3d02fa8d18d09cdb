CONSTANTS
  Names = {f1, f2}
  MaxRecords = 2
  Ownership = {TRUE, FALSE}
SYMMETRY FieldSymmetry
SPECIFICATION Spec
CHECK_DEADLOCK FALSE
PROPERTIES
  AnyTargetIsRun

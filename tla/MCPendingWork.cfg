CONSTANTS
  Names = {f1, f2, f3}
  MaxRecords = 3
  Ownership = {TRUE}
SYMMETRY FieldSymmetry
SPECIFICATION Spec
CHECK_DEADLOCK FALSE
INVARIANTS
  TypeOK
  OrderIsConfluent
  BatchEqualsRow
PROPERTIES
  ReadsAsEager
  ConsumePreservesValue
  ConsumeCompletesColumn
  PartialConsumeStopsAtTarget

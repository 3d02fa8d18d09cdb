CONSTANTS
  Manager = {m1, m2}
  Key = {k1, k2}
  Type = {t1, t2}
  TypeOf <- KeyTypes
  Recipe = {r1, r2}
  NoHint = NoHint
  MaxSources = 2
  MaxCells = 3
SYMMETRY Symmetry
SPECIFICATION Spec
CHECK_DEADLOCK FALSE
INVARIANTS
  SelfContained

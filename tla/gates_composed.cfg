SPECIFICATION Spec
CONSTANTS
  Parts = {"definitions"}
  NoBranch = NoBranch
  r1 = r1
  r2 = r2
CHECK_DEADLOCK FALSE
INVARIANTS
  GatesComposed

SPECIFICATION Spec
CONSTANTS
  Requests = {r1, r2}
  Interval = 2
  MaxSetup = 1
  Horizon = 4
  MaxDrafts = 2
  MaxErrors = 0
SYMMETRY RequestSymmetry
INVARIANTS MeasuredWhileOverlapped
CHECK_DEADLOCK FALSE

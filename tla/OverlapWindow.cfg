SPECIFICATION Spec
CONSTANTS
  Requests = {r1, r2}
  Interval = 2
  MaxSetup = 1
  Horizon = 4
  MaxDrafts = 2
  MaxErrors = 1
SYMMETRY RequestSymmetry
INVARIANTS TypeOK ValidWindowIsOverlapped
CHECK_DEADLOCK FALSE

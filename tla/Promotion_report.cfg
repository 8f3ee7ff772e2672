SPECIFICATION Spec
CONSTANTS
  MaxAttempts = 1
  MaxFaults = 1
  MaxKills = 0
  MaxStuck = 0
  MaxCrashes = 0
INVARIANTS FailureRestores
CHECK_DEADLOCK FALSE

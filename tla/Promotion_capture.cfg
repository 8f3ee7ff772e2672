SPECIFICATION Spec
CONSTANTS
  MaxAttempts = 2
  MaxFaults = 1
  MaxKills = 1
  MaxStuck = 1
  MaxCrashes = 0
INVARIANTS RecoveredIsSaved
CHECK_DEADLOCK FALSE

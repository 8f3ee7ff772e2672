SPECIFICATION FairSpec
CONSTANTS
  MaxAttempts = 2
  MaxFaults = 2
  MaxKills = 1
  MaxStuck = 1
  MaxCrashes = 1
INVARIANTS TypeOK RunningMatchesConfig PassMeansRestarted RecoveredMeansRestored
PROPERTIES FailureServesSaved AttemptEnds
CHECK_DEADLOCK FALSE

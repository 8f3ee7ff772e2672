SPECIFICATION FairSpec
CONSTANTS
  Concurrency = 3
  Others = {o1, o2}
  MaxFaults = 1
INVARIANTS TypeOK AcceptedAlone
PROPERTIES StrandedForever WaveEnds
CHECK_DEADLOCK FALSE

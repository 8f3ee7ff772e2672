SPECIFICATION Spec
CONSTANTS
  Campaigns = {c1, c2}
  NoOne = NoOne
  Restorers = {}
  EnginePlans <- MCEnginePlans
  MaxInterrupts = 2
  MaxFaults = 2
INVARIANTS TypeOK OneWorker MeasuredAlone
PROPERTIES LeftAsSaid
CHECK_DEADLOCK FALSE

SPECIFICATION Spec
CONSTANTS
  Campaigns = {c1}
  NoOne = NoOne
  Restorers = {}
  EnginePlans <- MCDefaultPlan
  MaxInterrupts = 0
  MaxFaults = 0
INVARIANTS RestoresProduction
CHECK_DEADLOCK FALSE

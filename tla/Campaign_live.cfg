SPECIFICATION FairSpec
CONSTANTS
  Campaigns = {c1}
  NoOne = NoOne
  Restorers = {r1}
  EnginePlans <- MCEnginePlans
  MaxInterrupts = 1
  MaxFaults = 1
PROPERTIES CampaignsEnd
CHECK_DEADLOCK FALSE

SPECIFICATION Spec
CONSTANTS
  p1 = p1
  p2 = p2
  Procs = {p1, p2}
  NoProc = none
  Jobs <- MCJobs
  Programs <- MCPrograms
  Attesting <- MCAttesting
  Starts <- MCStarts
  MaxFaults <- MCMaxFaults
  MaxBuilds = 2
INVARIANTS TypeOK OneDriverOnTheCard MeasuresAlone NothingLeftBehind EvidenceOfTheSameImage RanWhatItRecords OneWorkerMeasured
PROPERTIES EvidenceStands ProductionComesBack StatusIsTold EveryDriverEnds

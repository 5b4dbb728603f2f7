SPECIFICATION CoreSpec
CONSTANTS
  CostIntra = 10
  CostInter = 100
  Knobs <- MCKnobs
  Faulted <- MCFaulted
  MaxRunning = 2
INVARIANTS OneFaultIsSurvived FaultsHitWhatTheyName RevertsUndoTheirOwn LabTablesAgree
CHECK_DEADLOCK FALSE

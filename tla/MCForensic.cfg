SPECIFICATION FairSpec
CONSTANTS
  None = None
  Torn = Torn
  Run = Run
  Initial = Initial
  Master = Master
  Episode = {e1, e2}
  Alerting = {e1, e2}
  Request = {q1}
  Ahead = 1
  MaxTime = 2
  MaxCrashes = 1
INVARIANTS NoAlertSkipped ReadersFindAll RunIsKeptOnce
PROPERTIES ImplementsFeed AlertsBecomeCases
CHECK_DEADLOCK FALSE

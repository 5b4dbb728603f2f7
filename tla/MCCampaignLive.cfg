SPECIFICATION FairSpec
CONSTANTS
  None = None
  Whole = Whole
  Fault = {f1, f2}
  Scenario <- CoreScenario
  Target <- CoreTarget
  Resource <- CoreResource
  Footprint <- CoreFootprint
  ExtraOf <- CoreExtraOf
  KeyOf <- CoreKeyOf
  Pool <- CorePool
  Exclusive = {}
  Pulse <- CorePulse
  Daemon = {}
  Probing <- CoreProbing
  CanFail <- RaisedFailures
  Interrupts = 1
INVARIANTS LeftoversAreLabelled HeldIsImpaired
PROPERTY CampaignEnds
CHECK_DEADLOCK FALSE

SPECIFICATION Spec
CONSTANTS
  None = None
  Id = {i1, i2}
  Scenario <- CEScenario
  Target <- CETarget
  Resource <- MCResource
  Footprint <- CEFootprint
  ExtraOf <- CEExtraOf
  Pulse = {}
  Daemon = {"ce1.bgpd"}
  Overlay <- MCOverlay
  ValidRole <- CEValidRole
  Probing <- MCProbing
  CanFail <- RaisedFailures
  MaxCrashes = 1
SYMMETRY Symmetry
INVARIANTS UnregisteredIsCancelled LeakIsExplained OverlayIsExplained
CHECK_DEADLOCK FALSE

SPECIFICATION FairSpec
CONSTANTS
  None = None
  Id = {i1, i2}
  Scenario <- MCScenario
  Target <- MCTarget
  Resource <- MCResource
  Footprint <- MCFootprint
  ExtraOf <- MCExtraOf
  Pulse <- MCPulse
  Daemon = {}
  Overlay <- MCOverlay
  ValidRole <- MCValidRole
  Probing <- MCProbing
  CanFail = {"post", "clear"}
  MaxCrashes = 0
PROPERTIES EveryInjectionEnds OverlaysDrain
CHECK_DEADLOCK FALSE

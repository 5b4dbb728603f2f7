SPECIFICATION Spec
CONSTANTS
  None = None
  Whole = Whole
  Fault = {f1, f2, f3}
  Scenario <- CEScenario
  Target <- CETarget
  Resource <- CEResource
  Footprint <- CEFootprint
  ExtraOf <- CEExtraOf
  KeyOf <- CEKeyOf
  Pool <- CEPool
  Exclusive <- CEExclusive
  Pulse = {}
  Daemon = {"ce1.bgpd"}
  Probing <- CEProbing
  CanFail = {"extra", "revert", "label"}
  Interrupts = 1
SYMMETRY Symmetry
INVARIANTS ExclusiveAlone HeldIsImpaired
CHECK_DEADLOCK FALSE

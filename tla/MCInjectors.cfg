SPECIFICATION Spec
CONSTANTS
  Injector = {"i1", "i2"}
  Job <- MCJob
  Uplink = {"corp", "voice"}
  Core = {"core"}
  Link = {"eth1", "eth2"}
  Vrf = {"vrf"}
  Metric = {"cost"}
  Daemon = {"bgpd"}
  Explicit = {"voice"}
INVARIANT ImpairmentsAreUndone
PROPERTY CallsMatchLab
CHECK_DEADLOCK FALSE

SPECIFICATION FairPathSpec
CONSTANTS
  NoDrift = NoDrift
  Hubs = 3
  Vrf <- MCVrf
  Pref <- MCPref
  Metric <- MCMetric
  Mult = {5, 99}
INVARIANTS OffPreferenceIsJustified LossyMeansNoBetter
PROPERTIES LeavesOnlyUnhealthy SettlesWhenCalm

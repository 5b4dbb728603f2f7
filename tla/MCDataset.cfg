SPECIFICATION Spec
CONSTANTS
  b1 = b1
  h1 = h1
  h2 = h2
  pe1 = pe1
  Branches = {b1}
  Hubs <- MCHubs
  Cores = {pe1}
  Faults <- MCFaults
  Step = 2
  Buckets = 6
  Spans <- MCSpans
  Hops = {2}
  Roots = 2
  Negatives = 1
  Margin = 2
  MaxPlain = 2
  MaxLedger = 3
INVARIANTS CountersComposeAsRates LabelsAreExact LedgerIsSound TablesFollowLedger
CHECK_DEADLOCK FALSE

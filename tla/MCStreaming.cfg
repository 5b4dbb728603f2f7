SPECIFICATION FairSpec
CONSTANTS
  Series = 1
  Stream = {s1}
  Span <- MCSpan
  Partition = {"a", "b"}
  PartOf <- MCPartOf
  L = 3
  Stride = 2
  Keep = 2
  Recent = 0
  MaxTime = 3
  MaxEvents = 1
  LogUntil = 1
  MaxFailures = 1
INVARIANTS SendsAreAccounted WindowsAreLabelled CommittedRowsAreUsed 
PROPERTY LabelsArrive

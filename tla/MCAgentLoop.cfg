SPECIFICATION FairSpec
CONSTANTS
  Faults = 2
  World <- MCWorld
  Devices = 2
  FocusOf <- MCFocus
  StepCap = 3
  CallCap = 2
  MinEvidence = 2
  MaxRetries = 1
  PageSize = 1
  Batches <- MCBatches
  CiteSets <- MCCiteSets
INVARIANTS ChatsSeeMatchedCalls AnswersAreGrounded SynthesisIsTraceable
PROPERTY RunsEnd
CHECK_DEADLOCK FALSE

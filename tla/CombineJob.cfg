SPECIFICATION Spec
CONSTANTS
  NumBins = 3
  Inputs <- SomeJobs
INVARIANTS
  TypeOK
  NoneLostSilently
  InBinOrder
PROPERTIES
  Combines
\* A writer that asks a reader which has ended for more waits for ever.
CHECK_DEADLOCK FALSE

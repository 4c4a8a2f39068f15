SPECIFICATION Spec
CONSTANTS
  NumBins = 3
  Inputs <- ParallelJobs
INVARIANTS
  SourcesRemain
CHECK_DEADLOCK FALSE

SPECIFICATION Spec
CONSTANTS
  NumPixels = 1
  X <- XAxis
  E <- EAxis
  Coords <- EdgeCoords
  Requests = {1}
  MaxThreads = 1
INVARIANTS
  BinnedAsMatlab

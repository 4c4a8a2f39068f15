SPECIFICATION Spec
CONSTANTS
  NumPixels = 3
  X <- XAxis
  E <- EAxis
  Coords <- GridCoords
  Requests = {0, 2, 9}
  MaxThreads = 2
INVARIANTS
  TypeOK
  NpixCountsPixels
  PlacesDistinct
  SortedByCell
  BinnedAsMatlab
PROPERTIES
  Returns

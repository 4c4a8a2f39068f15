SPECIFICATION Spec
CONSTANTS
  AllRanges <- NineTenths
  BufSizes = {10}
  Coords <- OneCoord
  NumCells = 1
  Inf = 1000
  CellOf <- AllIn
  Requests = {1}
  Keep <- KeepNone
INVARIANTS
  EveryCandidateCut

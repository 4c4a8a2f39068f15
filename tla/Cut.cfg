SPECIFICATION Spec
CONSTANTS
  AllRanges <- SomeRanges
  BufSizes = {1, 2}
  Coords <- LineCoords
  NumCells = 2
  Inf = 1000
  CellOf <- LineCell
  Requests = {1, 2}
  Keep <- KeepAll
INVARIANTS
  TypeOK
  ImageCountsRead
  EveryCandidateCut
  KeptPixelsMatchImage

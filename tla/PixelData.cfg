SPECIFICATION Spec
CONSTANTS
  BasePage = 2
  FilePixels = {1, 2, 4, 5}
  MemPixels = {1, 2}
  MaxPixels = 5
  Sessions <- SomeSessions
INVARIANTS
  TypeOK
  PagesLoadable
  GetPixelsRight
  RangeCoversPixels
PROPERTIES
  ImplementsPages
  SweepAppliesOnce
  CopyKeepsPixels

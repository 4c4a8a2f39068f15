SPECIFICATION Spec
CONSTANTS
  Handles = {mex1, mex2, matlab}
  MexHandles = {mex1, mex2}
  Requests <- SomeBlocks
  Bufs = {0, 3, 10}
  MaxPix = 24
  MaxOpen = 2
INVARIANTS
  TypeOK
  StreamInOrder
  LocksMatchHandles
PROPERTIES
  ReadDelivers

SPECIFICATION Spec
CONSTANTS
  NumBins = 4
  Files <- MCFiles
  Modes <- MCModes
INVARIANTS
  TypeOK
  BinPixelsReturned
  BuffersHoldFile
PROPERTIES
  CallsReturn

SPECIFICATION FairSpec
CONSTANTS
  NumBins <- MCNumBins
  BinStart <- MCBinStart
  PixBufferSize = 2
  MaxSpurious = 1
INVARIANTS
  TypeOK
  FileHoldsProcessedBins
  ChunkNotOverwritten
  NoDeadlyEmbrace
  BufferSuffices
PROPERTIES
  ImplementsCombinedFile
  Returns
CHECK_DEADLOCK FALSE

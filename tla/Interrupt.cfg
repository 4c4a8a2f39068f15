SPECIFICATION FairSpec
CONSTANTS
  NumBins <- SmallNumBins
  BinStart <- SmallBinStart
  PixBufferSize = 1
  MaxSpurious = 0
PROPERTIES InterruptEndsCall
CHECK_DEADLOCK FALSE

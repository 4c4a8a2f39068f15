SPECIFICATION Spec
CONSTANTS
  NumBins = 5
  Files <- MCFiles
  BufSize = 2
  Fits <- MCFits
  Modes <- MCModes
INVARIANTS
  TypeOK
  AnswersRight
  WindowsMatchFile
PROPERTIES
  CallsReturn

CONSTANTS
  Total = 3
  MaxSize = 3
  MaxLost = 2
  IOCDataMax = 1
  BufSizes = {0, 2}
  None = None
SPECIFICATION FairSpec
INVARIANTS Sound OnlyByLoss
PROPERTIES IsStream WritesEnd

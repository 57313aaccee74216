\* download_segment of a range that starts in the file and ends past it:
\* the response stays inside the file or is refused.
CONSTANTS
  NULL = NULL
  ZeroEntry = ZeroEntry
  ERR = ERR
  PANIC = PANIC
  SENTINEL = SENTINEL
  a1 = a1
  a2 = a2
  Vals <- MCVals
  MaxHeight = 6
  K = 1
  FlowCap = 16
  RootListLen = 7
  MaxTxs = 3
  MaxTxLen = 2
  MaxReverts = 0
  MaxResets = 0
  MaxRestarts = 0
  PutTxMayCrash = FALSE
  ChunksPerSegment = 2
SPECIFICATION Spec
INVARIANT DownloadsStayInFile
CHECK_DEADLOCK FALSE

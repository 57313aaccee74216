\* The log manager with segments of 2 entries, up to 3 transactions of up
\* to 2 entries each over two data values: put_tx, put_chunks, finalize,
\* checked also against the log store's contract (FlowLog).
CONSTANTS
  NULL = NULL
  ZeroEntry = ZeroEntry
  ERR = ERR
  PANIC = PANIC
  SENTINEL = SENTINEL
  a1 = a1
  a2 = a2
  Vals <- MCVals
  MaxHeight = 6
  K = 1
  FlowCap = 16
  RootListLen = 7
  MaxTxs = 3
  MaxTxLen = 2
  MaxReverts = 0
  MaxResets = 0
  MaxRestarts = 0
  PutTxMayCrash = FALSE
  ChunksPerSegment = 2
SPECIFICATION Spec
INVARIANTS TypeOK TreesSound StoreSound ProofsSound NoPanic DoneIsComplete RangeReadsSound DownloadsServeFileData
PROPERTY RefinesFlowLog
CHECK_DEADLOCK FALSE

\* The log manager with one revert_to(tx_seq) against the log store's
\* contract (FlowLog).
CONSTANTS
  NULL = NULL
  ZeroEntry = ZeroEntry
  ERR = ERR
  PANIC = PANIC
  SENTINEL = SENTINEL
  a1 = a1
  a2 = a2
  Vals <- MCVals1
  MaxHeight = 6
  K = 1
  FlowCap = 16
  RootListLen = 7
  MaxTxs = 3
  MaxTxLen = 2
  MaxReverts = 1
  MaxResets = 1
  MaxRestarts = 0
  PutTxMayCrash = FALSE
  ChunksPerSegment = 2
SPECIFICATION Spec
CHECK_DEADLOCK FALSE
PROPERTY RefinesFlowLog

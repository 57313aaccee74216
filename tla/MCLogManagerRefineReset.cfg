\* The log manager with one revert_to(u64::MAX) against the log store's
\* contract (FlowLog).
CONSTANTS
  NULL = NULL
  ZeroEntry = ZeroEntry
  ERR = ERR
  PANIC = PANIC
  SENTINEL = SENTINEL
  a1 = a1
  a2 = a2
  Vals <- MCVals1
  MaxHeight = 6
  K = 1
  FlowCap = 16
  RootListLen = 7
  MaxTxs = 3
  MaxTxLen = 2
  MaxReverts = 0
  MaxResets = 1
  MaxRestarts = 0
  PutTxMayCrash = FALSE
  ChunksPerSegment = 2
SPECIFICATION Spec
INVARIANT DoneIsComplete
CHECK_DEADLOCK FALSE
PROPERTY RefinesFlowLog

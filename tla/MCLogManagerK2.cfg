\* The log manager with segments of 4 entries, so that subtrees of 1 and 2
\* entries fall inside a segment, up to 3 transactions of up to 4 entries.
CONSTANTS
  NULL = NULL
  ZeroEntry = ZeroEntry
  ERR = ERR
  PANIC = PANIC
  SENTINEL = SENTINEL
  a1 = a1
  a2 = a2
  Vals <- MCVals1
  MaxHeight = 6
  K = 2
  FlowCap = 32
  RootListLen = 7
  MaxTxs = 3
  MaxTxLen = 4
  MaxReverts = 0
  MaxResets = 0
  MaxRestarts = 0
  PutTxMayCrash = FALSE
  ChunksPerSegment = 2
SPECIFICATION Spec
INVARIANTS TypeOK TreesSound StoreSound ProofsSound NoPanic
CHECK_DEADLOCK FALSE

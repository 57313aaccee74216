\* A crash inside put_tx between append_subtree_list and tx_store.put_tx,
\* then the same transaction put again: the proofs served for it.
CONSTANTS
  NULL = NULL
  ZeroEntry = ZeroEntry
  ERR = ERR
  PANIC = PANIC
  SENTINEL = SENTINEL
  a1 = a1
  a2 = a2
  Vals <- MCVals
  MaxHeight = 6
  K = 1
  FlowCap = 16
  RootListLen = 7
  MaxTxs = 3
  MaxTxLen = 2
  MaxReverts = 0
  MaxResets = 0
  MaxRestarts = 1
  PutTxMayCrash = TRUE
  ChunksPerSegment = 2
SPECIFICATION Spec
INVARIANT ProofsSound
CHECK_DEADLOCK FALSE

\* The log manager with one revert_to(tx_seq), one revert_to(u64::MAX) and
\* one restart, clean or inside put_tx: the proofs it serves after reverts.
CONSTANTS
  NULL = NULL
  ZeroEntry = ZeroEntry
  ERR = ERR
  PANIC = PANIC
  SENTINEL = SENTINEL
  a1 = a1
  a2 = a2
  Vals <- MCVals1
  MaxHeight = 6
  K = 1
  FlowCap = 16
  RootListLen = 7
  MaxTxs = 3
  MaxTxLen = 2
  MaxReverts = 1
  MaxResets = 1
  MaxRestarts = 1
  PutTxMayCrash = TRUE
  ChunksPerSegment = 2
SPECIFICATION Spec
INVARIANTS ProofsSoundUntilRestart RevertsAvailableUntilRestart
CHECK_DEADLOCK FALSE

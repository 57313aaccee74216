\* A top-tree shaped AppendMerkleTree (leaf_height 1) with up to 3 leaves,
\* subtrees of up to 2 leaves, 2 commits and one reset().
CONSTANTS
  NULL = NULL
  ZeroEntry = ZeroEntry
  ERR = ERR
  PANIC = PANIC
  e1 = e1
  e2 = e2
  Vals <- MCVals
  MaxHeight = 6
  MaxLeaves = 3
  MaxSeq = 2
  MaxSubtreeDepth = 2
  LeafHeight = 1
  MinDepth = 0
  MaxResets = 1
INIT Init
NEXT Next
INVARIANTS
  KnownLeafProofs
\* A panic ends the worker that made the call: those states have no successor.
CHECK_DEADLOCK FALSE

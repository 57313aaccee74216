\* A last-chunk shaped AppendMerkleTree (new_with_depth, min_depth 3 = a
\* 4-leaf segment, leaf_height 0) with subtrees of up to 4 leaves, 3 commits.
CONSTANTS
  NULL = NULL
  ZeroEntry = ZeroEntry
  ERR = ERR
  PANIC = PANIC
  e1 = e1
  e2 = e2
  Vals <- MCVals
  MaxHeight = 6
  MaxLeaves = 4
  MaxSeq = 3
  MaxSubtreeDepth = 3
  LeafHeight = 0
  MinDepth = 3
  MaxResets = 0
INIT Init
NEXT Next
INVARIANTS
  TypeOK
  NodesSound
  HistorySound
  ProofsSound
\* A panic ends the worker that made the call: those states have no successor.
CHECK_DEADLOCK FALSE

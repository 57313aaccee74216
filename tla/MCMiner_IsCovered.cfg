\* is_covered against the overlap of the loading window and the range.
CONSTANTS
  NONE = NONE
  LOADING = 2
  PRICING = 2
  MAX_RANGE = 4
  U64Max = 7
  MinerMsgs <- MCMinerMsgs
  FlowLengths = {1, 4, 6}
  MsgCap = 3
  MaxMsgs = 3
  MaxCtxs = 2
  MaxIters = 2
  CtxMayClose = FALSE
  MsgMayClose = TRUE
SPECIFICATION Spec

INVARIANT IsCoveredMeansOverlap
CHECK_DEADLOCK FALSE

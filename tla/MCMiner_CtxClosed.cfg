\* The watcher may drop its sender of mine contexts.
CONSTANTS
  NONE = NONE
  LOADING = 2
  PRICING = 2
  MAX_RANGE = 4
  U64Max = 7
  MinerMsgs <- MCMinerMsgs
  FlowLengths = {1, 4, 6}
  MsgCap = 3
  MaxMsgs = 3
  MaxCtxs = 2
  MaxIters = 2
  CtxMayClose = TRUE
  MsgMayClose = TRUE
SPECIFICATION Spec

PROPERTY MiningProceeds
CHECK_DEADLOCK FALSE

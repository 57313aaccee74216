\* A broadcast buffer of one message: a second send before the loop
\* receives overwrites the first.
CONSTANTS
  NONE = NONE
  LOADING = 2
  PRICING = 2
  MAX_RANGE = 4
  U64Max = 7
  MinerMsgs <- MCMinerMsgs
  FlowLengths = {1, 4, 6}
  MsgCap = 1
  MaxMsgs = 3
  MaxCtxs = 2
  MaxIters = 2
  CtxMayClose = FALSE
  MsgMayClose = TRUE
SPECIFICATION Spec

PROPERTY ServiceCatchesUp
CHECK_DEADLOCK FALSE

\* The mining loop with loadings and pricing units of 2 sectors, mining
\* ranges of up to 4 sectors, contexts of flow length 1, 4 and 6, a
\* broadcast buffer of two messages (three unread messages overwrite one),
\* and either sender may be dropped.
CONSTANTS
  NONE = NONE
  LOADING = 2
  PRICING = 2
  MAX_RANGE = 4
  U64Max = 7
  MinerMsgs <- MCMinerMsgs
  FlowLengths = {1, 4, 6}
  MsgCap = 2
  MaxMsgs = 3
  MaxCtxs = 2
  MaxIters = 2
  CtxMayClose = TRUE
  MsgMayClose = TRUE
SPECIFICATION Spec
INVARIANTS TypeOK AnswersInFlow
PROPERTY ServiceCatchesUpWithoutLag MiningProceedsWhileCtxOpen
CHECK_DEADLOCK FALSE

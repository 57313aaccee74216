\* Both senders may be dropped and the broadcast buffer holds one message.
CONSTANTS
  NONE = NONE
  LOADING = 2
  PRICING = 2
  MAX_RANGE = 4
  U64Max = 7
  MinerMsgs <- MCMinerMsgs
  FlowLengths = {1, 4, 6}
  MsgCap = 1
  MaxMsgs = 3
  MaxCtxs = 2
  MaxIters = 2
  CtxMayClose = TRUE
  MsgMayClose = TRUE
SPECIFICATION Spec

INVARIANTS TypeOK AnswersInFlow
CHECK_DEADLOCK FALSE

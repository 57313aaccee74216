\* A submitted answer for a chunk whose epoch ends at the chunk's end.
CONSTANTS
  NONE = NONE
  SPS = 2
  Grow = {1, 3}
  MaxEpochs = 3
  MaxWrites = 1
  MaxErrs = 1
  MaxMined = 2
  MaxFails = 1
SPECIFICATION SSpec
INVARIANT SubmittedContextIsSealContext
CHECK_DEADLOCK FALSE

\* The submitter of MCSubmitter: a sent transaction may stay pending, and
\* the answers behind it are never submitted.
CONSTANTS
  NONE = NONE
  SPS = 2
  Grow = {1, 3}
  MaxEpochs = 3
  MaxWrites = 1
  MaxErrs = 1
  MaxMined = 2
  MaxFails = 1
SPECIFICATION SSpec
PROPERTY AnswersDrain
CHECK_DEADLOCK FALSE

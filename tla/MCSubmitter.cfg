\* The sealer and chain of MCSealer with two mined answers handed to the
\* submitter, one of which may fail to be submitted.
CONSTANTS
  NONE = NONE
  SPS = 2
  Grow = {1, 3}
  MaxEpochs = 3
  MaxWrites = 1
  MaxErrs = 1
  MaxMined = 2
  MaxFails = 1
SPECIFICATION SSpec
INVARIANTS STypeOK SealSound
PROPERTIES AnswersDrainUnlessPending EventuallySealed
CHECK_DEADLOCK FALSE

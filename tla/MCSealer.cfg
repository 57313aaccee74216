\* Seal chunks of 2 entries; up to 3 epochs of 1 to 3 entries each, so that
\* epochs end on and off seal boundaries; two data writes and one failed
\* call.
CONSTANTS
  NONE = NONE
  SPS = 2
  Grow = {1, 3}
  MaxEpochs = 3
  MaxWrites = 2
  MaxErrs = 1
SPECIFICATION Spec
INVARIANTS TypeOK SealSound
PROPERTIES EventuallySealed
CHECK_DEADLOCK FALSE

\* Every square of four pixels: holes, depths in range, coded as a hole, too large for a byte.
CONSTANTS
  Invalid = 3
  Levels = 4
  Fine = 3
  Most <- MCMost
SPECIFICATION CodecSpec
INVARIANT StepSurvives
INVARIANT FractionIsOwn
INVARIANT OrderSurvives
\* One square is coded and decoded once.
CHECK_DEADLOCK FALSE

\* Payloads of one to three segments, up to ten frames, one damage.
SPECIFICATION Spec
CONSTANTS
  None = None
  Shapes <- MCShapes
  PayloadBits = {4, 18, 19, 28}
  FrameCounts = {1, 2, 3, 6, 9, 10}
  MaxPayloadBits = 27
  CheckPoints = {2, 6, 9}
  EMax = 10
  EMaxLarge = 4
  Strong = 9
  Retries = 1
INVARIANTS
  TypeOK
  EmbeddedIsRecovered
  DamageIsOutvoted
  FailureIsAccounted
  OriginalKept
CHECK_DEADLOCK FALSE

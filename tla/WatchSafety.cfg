SPECIFICATION Spec
CONSTANTS
  MaxTick = 3
  MaxPush = 1
  Cut = TRUE
  Offset = 1
  Retries = 3
INVARIANTS
  FreshAnswer
  WaitSound
  RefusedOnlyOnSilence
PROPERTIES
  AlignedRetry

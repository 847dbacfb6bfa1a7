SPECIFICATION FairSpec
CONSTANTS
  MaxTick = 3
  MaxPush = 1
  Cut = FALSE
  Offset = 1
  Retries = 3
PROPERTIES
  ImplementsOutcome
  WaitEnds

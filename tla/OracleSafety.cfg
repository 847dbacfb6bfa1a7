SPECIFICATION FairSpec
CONSTANTS
  Ids = {1, 2, 3}
  Ticks = 2
  Chunk = 2
  Pieces = 2
  MaxForeign = 1
INVARIANTS
  PrintedIsAnswered
  DoneIsComplete
PROPERTIES
  Ends

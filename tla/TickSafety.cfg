SPECIFICATION TickSpec
CONSTANTS
  Txs = {t1, t2, t3}
  Slots = 4
  Group = 2
  MaxPush = 1
  Zero = Zero
  Stray = Stray
  Other = Other
  End = End
  NoHeader = NoHeader
INVARIANTS
  MissingIsAbsent
  EndIsRead

SPECIFICATION Spec
CONSTANTS
  Wrap8 = 256
  Wrap16 = 65536
  Wrap32 = 1048576
  MaxUnusual = 2
INVARIANTS
  SettingsResolved
  SeedChecked
  DocumentedCounts
  PassedIsRead
  AmountAsTyped
  ContractKnownHere
CHECK_DEADLOCK FALSE

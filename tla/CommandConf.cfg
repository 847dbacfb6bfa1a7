SPECIFICATION Spec
CONSTANTS
  Wrap8 = 256
  Wrap16 = 65536
  Wrap32 = 1048576
  MaxUnusual = 1
INVARIANTS
  ConfigFileHonoured
CHECK_DEADLOCK FALSE

SPECIFICATION Spec
CONSTANTS
  FileSizes = {4, 5}
  Full = 2
  IntMax = 2147483647
  Offset = 0
  MaxTick = 4
  MaxRestarts = 1
INVARIANTS
  LinksResolve
  UploadedChain
  DownloadSound
CHECK_DEADLOCK FALSE

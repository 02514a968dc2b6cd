CONSTANTS
  WarpSize = 4
  MaxD = 5
  FltMax = 1000
  BlockM = 3
  BlockN = 4
  MaxS = 5
  Junk = 77
  NotWritten = NotWritten
  Calls <- MCCalls
SPECIFICATION FairSpec
CHECK_DEADLOCK FALSE
INVARIANTS TypeOK TileIsCurrent Attention
PROPERTIES ImplementsSimple Completes

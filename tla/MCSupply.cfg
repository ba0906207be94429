SPECIFICATION FairSpec
CONSTANTS
  p1 = p1
  p2 = p2
  Slots <- MCSlots
  Preview = 2
  Batch = 2
  MaxPieces = 4
  MaxStarts = 3
  MaxLeaves = 2
INVARIANTS
  TypeOK
  RequestedIffUnderWay
  ShortIsAskedFor
  GmNotLeftBehind
PROPERTIES
  ReplaysOnlyWhenDry
  ServedWhileGmKnows
CHECK_DEADLOCK FALSE

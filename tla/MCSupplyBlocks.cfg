SPECIFICATION Spec
CONSTANTS
  p1 = p1
  p2 = p2
  Slots <- MCSlots
  Preview = 2
  Batch = 2
  MaxPieces = 4
  MaxStarts = 2
  MaxLeaves = 1
INVARIANT BlocksBeforeMoves
CHECK_DEADLOCK FALSE

SPECIFICATION Spec
CONSTANTS
  a = a
  b = b
  c = c
  None = None
  Players <- MCPlayers
  Modes <- MCModes
  LineCounts <- MCLineCounts
  Half = 4
  MaxCleared = 9
INVARIANT OfferedModesWork
CHECK_DEADLOCK FALSE

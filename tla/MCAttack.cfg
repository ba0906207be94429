SPECIFICATION FairSpec
CONSTANTS
  a = a
  b = b
  c = c
  None = None
  Players <- MCPlayers
  Modes <- MCModes
  LineCounts <- MCLineCounts
  Half = 4
  MaxCleared = 9
INVARIANTS
  TypeOK
  NothingFromNothing
  AccountsHonest
PROPERTIES
  TurnsGoToContenders
  EveryContenderTargeted
CHECK_DEADLOCK FALSE

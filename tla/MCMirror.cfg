SPECIFICATION Spec
CONSTANTS
  None = None
  Width = 4
  Height = 4
  Matches <- MCMatches
  Preview = 1
  MaxInserts = 1
  MaxStream = 1
INVARIANTS
  TypeOK
  PieceFits
  NoFullLine
  CellsAccounted
  MirrorsRows
  MirrorsPieces
PROPERTY GhostTellsTheDrop

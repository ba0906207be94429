SPECIFICATION Spec
CONSTANTS
  None = None
  Width = 4
  Height = 4
  Matches <- MCOneLock
  Preview = 1
  MaxInserts = 2
  MaxStream = 1
INVARIANT SoftDropLands

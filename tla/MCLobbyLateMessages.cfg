SPECIFICATION Spec
CONSTANTS
  c1 = c1
  c2 = c2
  ann = ann
  bob = bob
  None = None
  Conns <- MCConns
  Names <- MCNames
  NamesFor <- MCNamesFor
  MaxGames = 2
  MaxQueue = 3
INVARIANT LateMessagesIgnored

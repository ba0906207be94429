SPECIFICATION FairSpec
CONSTANTS
  Base = 3
  Buffer = 4
  Payloads <- MCPayloads
  Capacity = 3
  MaxSent <- MCMaxSent
INVARIANTS
  TypeOK
  ReadsInBounds
PROPERTIES
  KeepsChannels
  AllArrives
CHECK_DEADLOCK FALSE

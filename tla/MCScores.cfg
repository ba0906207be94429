SPECIFICATION ScoresSpec
CONSTANTS
  MaxJoins <- MCMaxJoins
  CountMax <- MCCountMax
INVARIANTS
  TypeOK
  CountExact
  LockTimersOnlyForContenders
  AttackerRunsIffContested
  AttackTargetInRoom
  ClientsShowWhoIsOut
PROPERTIES
  KeepsPromise
  ClientsShowTheWinner
CHECK_DEADLOCK FALSE

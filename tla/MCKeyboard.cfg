SPECIFICATION Spec
CONSTANT LineSize = 3
INVARIANTS
  TypeOK
  KeysFollowTheScreen
  LeavesOnCtrlC
PROPERTY CommandsAreTaken

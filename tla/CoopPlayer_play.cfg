SPECIFICATION FairSpec
CONSTANTS
  p1 = p1
  p2 = p2
  Player = {p1, p2}
  Casts <- Games
INVARIANTS
  TypeOK
  SpectatorAgrees
  NoPlayWithoutRecord
  PauseMeansEmpty
  CheckpointsInOrder
PROPERTIES
  JoinLeadsOn
  GetsIn
  ComesBack

CONSTANTS
  p1 = p1
  p2 = p2
  u1 = u1
  u2 = u2
  n1 = n1
  n2 = n2
  w1 = w1
  w2 = w2
  a1 = a1
  a2 = a2
  Player = {p1, p2}
  Uid = {u1, u2}
  Name = {n1, n2}
  BadName = {}
  Account = {a1}
  Password = {w1}
  NoState = NoState
  NoFile = NoFile
  NoUid = NoUid
  NoName = NoName
  EngineKeeps = {TRUE, FALSE}
  AuthPending = TRUE
  OtherServers = FALSE
  SavedGames = FALSE
  MaxLogins = 2
SPECIFICATION Spec
SYMMETRY AllAlike
INVARIANT TypeOK NoDanglingState AccountIsProven

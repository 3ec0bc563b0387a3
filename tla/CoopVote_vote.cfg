SPECIFICATION Spec
CONSTANTS
  NoPlayer = NoPlayer
  NoTrigger = NoTrigger
  NoTrain = NoTrain
  p1 = p1
  p2 = p2
  p3 = p3
  t1 = t1
  t2 = t2
  tr1 = tr1
  tr2 = tr2
  Player = {p1, p2}
  Trigger = {t1}
  BackTriggers = {t1}
  VolumeTriggers = {}
  UseTriggers = {}
  Train = {}
  BadName = {}
  MisclickTime = 1
  InactiveTime = 1
  SpawnDelay = 0
  TouchMemory = 0
  TouchShare = 1
  LoadDelay = 0
  mp_coop_checkpoints = TRUE
  ConsoleVotes = TRUE
  EngineKeeps = {FALSE}
  MinConfirm = 1
  MaxConfirm = 2
INVARIANTS
  TypeOK
  VoteSound
PROPERTIES
  NoHijack
  BackNeedsMandate
  VoteEndsWithLevel
  BackVoteIsDeliberate
  RoundSpec
SYMMETRY AllAlike

SPECIFICATION Spec
CONSTANTS
  NoPlayer = NoPlayer
  NoTrigger = NoTrigger
  NoTrain = NoTrain
  p1 = p1
  p2 = p2
  p3 = p3
  t1 = t1
  t2 = t2
  tr1 = tr1
  tr2 = tr2
  Player = {p1, p2}
  Trigger = {t1, t2}
  BackTriggers = {}
  VolumeTriggers = {t1}
  UseTriggers = {t2}
  Train = {tr1, tr2}
  BadName = {}
  MisclickTime = 1
  InactiveTime = 1
  SpawnDelay = 1
  TouchMemory = 1
  TouchShare = 1
  LoadDelay = 1
  mp_coop_checkpoints = FALSE
  ConsoleVotes = FALSE
  EngineKeeps = {FALSE}
  MinConfirm = 0
  MaxConfirm = 1
PROPERTIES
  OneChangeAtATime
  OneTrainLeaves
SYMMETRY AllAlike

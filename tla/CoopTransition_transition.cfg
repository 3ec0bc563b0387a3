SPECIFICATION Spec
CONSTANTS
  a = a
  b = b
  c = c
  ab = ab
  bc = bc
  ca = ca
  Map = {a, b, c}
  NoMap = NoMap
  Landmark = {ab, bc, ca}
  NoMark = NoMark
  Trigger <- Around
  Joins <- Marks
  Origin <- Begin
  At <- Stand
  NewUnit = {c}
  EndSection = {b}
  LongName = {c}
  NoName = NoName
  NoFile = NoFile
  MaxEvents = 5
CHECK_DEADLOCK FALSE
INVARIANTS
  TypeOK
  WorldAgrees
  SavesAgree
  FlagMeansLoad
  SlotsOnDisk
  SpawnPlaceKnown
PROPERTIES
  PreviousAutosaveKept
  TriggerKeepsMaps
  LoadRestores

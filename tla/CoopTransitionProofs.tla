------------------------ MODULE CoopTransitionProofs ------------------------
(***************************************************************************)
(* Theorems about CoopTransition, for every set of maps, landmarks and     *)
(* triggers, wherever they are.  The inductive invariant is IInv: what the *)
(* game knows about the world, what the files know, and what the engine    *)
(* still has to execute hold each other up.                                *)
(***************************************************************************)
EXTENDS CoopTransition, Functions, SequenceTheorems, TLAPS

\* The place the next player spawns at is in a map the game knows.
SavedKnown(q, V) == q.saved \in DOMAIN V \cup {NoMap}

\* Each map of a list is where it is in the world, seen from map c.
AroundMap(V, c) == \A m \in DOMAIN V : V[m] = Origin[m] - Origin[c]

\* The last autosave was made under the name the counter says.
LastAutosave(q) ==
  q.slot["AUTO1"] # NoName => \E m \in Map : q.slot["AUTO1"] = AutoName(q.last, m)

\* A load was read and the engine has yet to execute it.
Reading == tr.fLoading /\ Queued("load")
Settled == spoiled # "maps" /\ ~Reading

\* WorldAgrees.
WorldKnown == Running /\ Settled => cur = level /\ OffsetsRelative(maps, cur)

\* What the game knows of places: where new players spawn, and where the player was who used the
\* last trigger.
PlacesKnown ==
  Settled => /\ tr.pos \in DOMAIN maps \cup {NoMap}
             /\ spoiled # "list" => SavedKnown(p, maps)

\* The landmark of a transition is where the game left for it.
LandmarkKnown ==
  Settled /\ tr.spot # NoMark =>
    /\ Running /\ tr.src = level
    /\ level \in Joins[tr.spot] /\ tr.vec = At[tr.spot] - Origin[level]

\* What the coop state on disk under save n says, unless it is of a spoiled game.
CoopFileOK(n, c) ==
  c # NoFile /\ c.bad # "maps" =>
    /\ c.upto >= 7 /\ LastAutosave(c.p)
    /\ AroundMap(c.maps, n[2])
    /\ c.upto = 8 => n[2] \in DOMAIN c.maps
    /\ c.bad = "no" => c.upto = 8 /\ SavedKnown(c.p, c.maps)
FileOK(n, x) == (n[1] # "start" => x.sav \in {NoMap, n[2]}) /\ CoopFileOK(n, x.coop)
FilesKnown == \A n \in SaveName : FileOK(n, file[n])

\* What GGM_Load has read is what the engine is going to load, unless the engine will refuse or a
\* save made meanwhile replaced it - one that has the mark of a spoiled game, because there is no
\* current map.
ReadFrom(x) ==
  \/ x.sav = NoMap
  \/ /\ x.coop # NoFile
     /\ \/ x.coop.bad = "maps"
        \/ /\ maps = x.coop.maps /\ p.saved = x.coop.p.saved /\ p.last = x.coop.p.last
           /\ x.coop.bad = "list" => spoiled = "list"
LoadPending ==
  tr.fLoading /\ spoiled # "maps" =>
    \A n \in SaveName : <<"load", n>> \in Range(cmds) => cur = NoMap /\ ReadFrom(file[n])

\* SlotsOnDisk, also while fLoading is left of a load that failed.
SlotKnown(n, f, c) == n # NoName => f[n].coop # NoFile \/ <<"save", n>> \in Range(c)
SlotsKnown == Settled => \A s \in Slot : SlotKnown(p.slot[s], file, cmds)

\* The counter of autosaves is right, unless a load read only a part of p.
CounterKnown == spoiled # "maps" => LastAutosave(p)

\* Only start saves go through the command buffer.
SavesQueued(c) == \A n \in SaveName : <<"save", n>> \in Range(c) => n[1] = "start"

IInv ==
  /\ TypeOK /\ SavesQueued(cmds) /\ WorldKnown /\ PlacesKnown /\ LandmarkKnown
  /\ LoadPending /\ FilesKnown /\ SlotsKnown /\ CounterKnown /\ FlagMeansLoad
-----------------------------------------------------------------------------
(* The command buffer. *)

Command == {"changelevel"} \X Map \cup {"save", "load"} \X SaveName

\* A command is queued when one of its kind is among the commands.
LEMMA QueuedRange ==
  ASSUME NEW what
  PROVE  Queued(what) <=> \E c \in Range(cmds) : c[1] = what
  BY DEF Queued, Range

\* Appending a command adds it.
LEMMA AppendCommand ==
  ASSUME NEW q \in Seq(Command), NEW e \in Command
  PROVE  /\ Append(q, e) \in Seq(Command)
         /\ Range(Append(q, e)) = Range(q) \cup {e}
  <1>1. Append(q, e) \in Seq(Command) /\ DOMAIN Append(q, e) = 1..(Len(q) + 1)
    OBVIOUS
  <1>2. DOMAIN q = 1..Len(q) /\ Len(q) \in Nat
    OBVIOUS
  <1>3. \A i \in DOMAIN q : Append(q, e)[i] = q[i]
    BY <1>2
  <1>4. Append(q, e)[Len(q) + 1] = e
    OBVIOUS
  <1> QED BY <1>1, <1>2, <1>3, <1>4 DEF Range

\* The commands are the head of the buffer and those behind it.
LEMMA TailCommands ==
  ASSUME NEW q \in Seq(Command), q # <<>>
  PROVE  /\ Head(q) \in Command /\ Tail(q) \in Seq(Command)
         /\ Range(q) = {Head(q)} \cup Range(Tail(q))
  <1>1. DOMAIN q = 1..Len(q) /\ Len(q) \in Nat \ {0} /\ Head(q) = q[1]
    OBVIOUS
  <1>2. /\ Tail(q) \in Seq(Command) /\ Len(Tail(q)) = Len(q) - 1
        /\ DOMAIN Tail(q) = 1..(Len(q) - 1)
        /\ \A i \in 1..(Len(q) - 1) : Tail(q)[i] = q[i + 1]
    OBVIOUS
  <1>3. Head(q) \in Command
    BY <1>1
  <1>4. Range(q) = {Head(q)} \cup Range(Tail(q))
    <2>1. \A i \in DOMAIN q : i = 1 \/ (i - 1 \in DOMAIN Tail(q) /\ Tail(q)[i - 1] = q[i])
      BY <1>1, <1>2
    <2>2. \A i \in DOMAIN Tail(q) : i + 1 \in DOMAIN q
      BY <1>1, <1>2
    <2>3. \A x \in Range(q) : x = Head(q) \/ x \in Range(Tail(q))
      BY <1>1, <2>1 DEF Range
    <2>4. \A x \in Range(Tail(q)) : x \in Range(q)
      BY <1>1, <1>2, <2>2 DEF Range
    <2>5. Head(q) \in Range(q)
      BY <1>1 DEF Range
    <2> QED BY <2>3, <2>4, <2>5
  <1> QED BY <1>2, <1>3, <1>4

\* The commands after an activation: what was left, and the save if one is asked for.
LEMMA StartSaveCommands ==
  ASSUME NEW left \in Seq(Command), NEW d \in Map, NEW slot, NEW ignored,
         cmds' = left \o StartSave(d, slot, ignored)
  PROVE  /\ cmds' \in Seq(Command) /\ Range(left) \subseteq Range(cmds')
         /\ SavesQueued(left) => SavesQueued(cmds')
         /\ StartSave(d, slot, ignored) = <<>> => cmds' = left
         /\ StartSave(d, slot, ignored) # <<>> => <<"save", <<"start", d>>>> \in Range(cmds')
  <1> DEFINE e == <<"save", <<"start", d>>>>
  <1>1. e \in Command
    BY DEF Command, SaveName
  <1>2. StartSave(d, slot, ignored) = <<>> \/ StartSave(d, slot, ignored) = <<e>>
    BY DEF StartSave
  <1>3. <<e>> # <<>>
    OBVIOUS
  <1> HIDE DEF e
  <1>4. left \o <<>> = left /\ left \o <<e>> = Append(left, e)
    OBVIOUS
  <1>5. cmds' = left \/ cmds' = Append(left, e)
    BY <1>2, <1>4
  <1>6. Append(left, e) \in Seq(Command) /\ Range(Append(left, e)) = Range(left) \cup {e}
    BY <1>1, AppendCommand
  <1>7. SavesQueued(left) => SavesQueued(cmds')
    <2>1. Range(cmds') \subseteq Range(left) \cup {e}
      BY <1>5, <1>6
    <2>2. \A n \in SaveName : <<"save", n>> = e => n[1] = "start"
      BY DEF e
    <2> QED BY <2>1, <2>2 DEF SavesQueued
  <1> QED BY <1>2, <1>3, <1>4, <1>5, <1>6, <1>7 DEF e
-----------------------------------------------------------------------------
(* Types of the pieces. *)

IsOffsets(V) == \E M \in SUBSET Map : V \in [M -> Int]
IsFile(x) == \E M \in SUBSET Map : x \in File(M)
IsFiles(f) == f = [n \in SaveName |-> f[n]] /\ \A n \in SaveName : IsFile(f[n])
SlotType == [Slot -> SaveName \cup {NoName}]

\* No file, and nothing new: each save is as it was or is gone.
FewerFiles(f) ==
  f = [n \in SaveName |-> f[n]] /\ \A n \in SaveName : f[n] \in {file[n], NoFiles}
FewerSlots(slot) == slot \in SlotType /\ \A s \in Slot : slot[s] \in {p.slot[s], NoName}

\* The values a new game begins with have their types.
LEMMA NewTypes ==
  /\ IsFile(NoFiles) /\ NewPersist \in Persist /\ NoTransition \in Transition /\ IsOffsets(<<>>)
  /\ LastAutosave(NewPersist) /\ NewPersist.saved = NoMap
  <1>1. NoFiles \in File({})
    BY DEF NoFiles, File
  <1>2. NewPersist \in Persist /\ LastAutosave(NewPersist) /\ NewPersist.saved = NoMap
    BY DEF NewPersist, Persist, LastAutosave, Slot
  <1>3. NoTransition \in Transition
    BY DEF NoTransition, Transition
  <1>4. <<>> \in [{} -> Int]
    OBVIOUS
  <1> QED BY <1>1, <1>2, <1>3, <1>4 DEF IsFile, IsOffsets

\* Clearing saves leaves fewer files.
LEMMA ClearSavesFewer ==
  ASSUME NEW src, NEW f, FewerFiles(f)
  PROVE  FewerFiles(ClearSaves(src, f))
  BY DEF FewerFiles, ClearSaves

\* Fewer files are still files.
LEMMA FewerFilesType ==
  ASSUME TypeOK, NEW f, FewerFiles(f)
  PROVE  IsFiles(f)
  BY NewTypes DEF TypeOK, FewerFiles, IsFiles, IsFile

\* Checking the slots leaves fewer slots, and those are on disk.
LEMMA CheckSaveSlotsFewer ==
  ASSUME NEW slot, FewerSlots(slot), NEW f
  PROVE  /\ FewerSlots(CheckSaveSlots(slot, f))
         /\ \A s \in Slot : LET n == CheckSaveSlots(slot, f)[s] IN
              n # NoName => f[n].coop # NoFile
  BY DEF FewerSlots, CheckSaveSlots, SlotType

\* The coop state a save gets is one.
LEMMA WholeType ==
  ASSUME TypeOK, NEW n, NEW q \in Persist, NEW M \in SUBSET Map, maps \in [M -> Int]
  PROVE  /\ Whole(n, q) \in CoopFile(M)
         /\ Whole(n, q).p = q /\ Whole(n, q).upto = 8 /\ Whole(n, q).maps = maps
         /\ Whole(n, q).bad \in {"no", "list", "maps"}
         /\ Whole(n, q).bad # "maps" => spoiled # "maps" /\ cur # NoMap /\ n[2] = level
         /\ Whole(n, q).bad = "no" => spoiled # "list"
  <1> DEFINE bad == IF spoiled = "maps" \/ cur = NoMap \/ n[2] # level THEN "maps"
                    ELSE IF spoiled = "list" THEN "list" ELSE "no"
  <1>1. /\ bad \in {"no", "list", "maps"}
        /\ bad # "maps" => spoiled # "maps" /\ cur # NoMap /\ n[2] = level
        /\ bad = "no" => spoiled # "list"
    BY DEF TypeOK
  <1>2. Whole(n, q) = [p |-> q, upto |-> 8, maps |-> maps, bad |-> bad]
    BY DEF Whole
  <1> HIDE DEF bad
  <1> QED BY <1>1, <1>2 DEF CoopFile

\* What the game saves is a file: the engine's part of the level or as it was.
LEMMA SavedType ==
  ASSUME TypeOK, NEW n \in SaveName, NEW q \in Persist, NEW accepted \in BOOLEAN,
         accepted => Running
  PROVE  /\ IsFile(Saved(n, q, accepted)) /\ Saved(n, q, accepted).coop = Whole(n, q)
         /\ Saved(n, q, accepted).sav = (IF accepted THEN level ELSE file[n].sav)
         /\ Saved(n, q, accepted).sav \in Map \cup {NoMap}
         /\ Saved(n, q, accepted).players \in BOOLEAN
  <1>1. PICK M \in SUBSET Map : maps \in [M -> Int]
    BY DEF TypeOK
  <1>2. Whole(n, q) \in CoopFile(M)
    BY <1>1, WholeType
  <1>3. PICK N \in SUBSET Map : file[n] \in File(N)
    BY DEF TypeOK
  <1>4. file[n].sav \in Map \cup {NoMap} /\ level \in Map \cup {NoMap}
    BY <1>3 DEF File, TypeOK
  <1>5. Saved(n, q, accepted) =
          [sav |-> IF accepted THEN level ELSE file[n].sav,
           players |-> n[2] \notin LongName,
           coop |-> Whole(n, q)]
    BY DEF Saved
  <1>6. Saved(n, q, accepted) \in File(M)
    BY <1>2, <1>4, <1>5 DEF File
  <1> QED BY <1>4, <1>5, <1>6 DEF IsFile

\* Reading as much of p as there is leaves a p.
LEMMA OverwrittenType ==
  ASSUME NEW q \in Persist, NEW x, x.p \in Persist
  PROVE  Overwritten(q, x) \in Persist
  BY DEF Overwritten, Persist

\* Reading all of p leaves what was read.
LEMMA OverwrittenWhole ==
  ASSUME NEW q \in Persist, NEW x, x.p \in Persist, x.upto \in 6..8
  PROVE  Overwritten(q, x) = x.p
  <1>1. \A s \in Slot : Place[s] \in 2..5 /\ x.upto >= Place[s]
    BY DEF Place, Slot
  <1>2. x.upto >= Place.last /\ x.upto >= Place.saved
    BY DEF Place
  <1>3. x.p = [slot |-> [s \in Slot |-> x.p.slot[s]], last |-> x.p.last, saved |-> x.p.saved]
    BY DEF Persist
  <1> QED BY <1>1, <1>2, <1>3 DEF Overwritten

\* Reading none of p leaves it.
LEMMA OverwrittenNone ==
  ASSUME NEW q \in Persist, NEW x, x.upto = 0
  PROVE  Overwritten(q, x) = q
  <1>1. \A s \in Slot : Place[s] \in 2..5 /\ ~(x.upto >= Place[s])
    BY DEF Place, Slot
  <1>2. ~(x.upto >= Place.last) /\ ~(x.upto >= Place.saved)
    BY DEF Place
  <1>3. q = [slot |-> [s \in Slot |-> q.slot[s]], last |-> q.last, saved |-> q.saved]
    BY DEF Persist
  <1> QED BY <1>1, <1>2, <1>3 DEF Overwritten

\* A coop state cut short is one.
LEMMA CutType ==
  ASSUME NEW M \in SUBSET Map, NEW x \in CoopFile(M), NEW upto \in 0..7, NEW N \in SUBSET M
  PROVE  /\ Cut(x, upto, N) \in CoopFile(N)
         /\ Cut(x, upto, N).maps = [m \in N |-> x.maps[m]] /\ Cut(x, upto, N).upto = upto
         /\ Cut(x, upto, N).bad # "maps" =>
              upto = 7 /\ Cut(x, upto, N).bad = "list" /\ x.bad # "maps"
         /\ upto = 7 => Cut(x, upto, N).p = x.p
  <1>1. /\ x.p \in Persist /\ x.maps \in [M -> Int] /\ x.bad \in {"no", "list", "maps"}
        /\ x.upto \in 0..8 /\ x = [p |-> x.p, upto |-> x.upto, maps |-> x.maps, bad |-> x.bad]
    BY DEF CoopFile
  <1> DEFINE y == [x EXCEPT !.upto = upto]
             q == Overwritten(NewPersist, y)
             bad == IF upto < 7 THEN "maps" ELSE IF x.bad = "no" THEN "list" ELSE x.bad
  <1>2. y.p = x.p /\ y.upto = upto
    BY <1>1
  <1>3. q \in Persist
    <2> HIDE DEF y
    <2> QED BY <1>1, <1>2, NewTypes, OverwrittenType
  <1>4. upto = 7 => q = x.p
    <2> HIDE DEF y
    <2> QED BY <1>1, <1>2, NewTypes, OverwrittenWhole
  <1>5. [m \in N |-> x.maps[m]] \in [N -> Int]
    BY <1>1
  <1>6. Cut(x, upto, N) = [p |-> q, upto |-> upto, maps |-> [m \in N |-> x.maps[m]], bad |-> bad]
    BY DEF Cut
  <1>7. bad \in {"no", "list", "maps"} /\ (bad # "maps" => upto = 7 /\ bad = "list" /\ x.bad # "maps")
    BY <1>1
  <1> HIDE DEF q, bad
  <1> QED BY <1>3, <1>4, <1>5, <1>6, <1>7 DEF CoopFile

\* A map's own list, and the list rebased on a landmark, are lists of offsets.
LEMMA RebasedType ==
  ASSUME TypeOK, NEW d \in Map, tr.spot # NoMark
  PROVE  /\ Rebased(d) \in [DOMAIN maps \cup {d} -> Int] /\ IsOffsets(Rebased(d))
  <1>1. PICK M \in SUBSET Map : maps \in [M -> Int]
    BY DEF TypeOK
  <1>2. tr.spot \in Landmark /\ tr.vec \in Int
    BY DEF TypeOK, Transition
  <1>3. At[tr.spot] - Origin[d] \in Int
    BY <1>2, TransitionAssumption
  <1>4. \A m \in DOMAIN maps : maps[m] - tr.vec + (At[tr.spot] - Origin[d]) \in Int
    BY <1>1, <1>2, <1>3
  <1>5. Rebased(d) \in [DOMAIN maps \cup {d} -> Int]
    BY <1>4 DEF Rebased
  <1>6. DOMAIN maps \cup {d} \in SUBSET Map
    BY <1>1
  <1> QED BY <1>5, <1>6 DEF IsOffsets

\* A map alone is the list of a new game, and it is where it is.
LEMMA AloneType ==
  ASSUME NEW d \in Map
  PROVE  IsOffsets([m \in {d} |-> 0]) /\ OffsetsRelative([m \in {d} |-> 0], d)
  <1>1. Origin[d] \in Int
    BY TransitionAssumption
  <1>2. [m \in {d} |-> 0] \in [{d} -> Int] /\ {d} \in SUBSET Map
    OBVIOUS
  <1>3. OffsetsRelative([m \in {d} |-> 0], d)
    BY <1>1 DEF OffsetsRelative
  <1> QED BY <1>2, <1>3 DEF IsOffsets
-----------------------------------------------------------------------------
(* COOP_ServerActivate. *)

\* COOP_MapStartSave: the slots stay slots; the last autosave is not touched; the slots that are
\* not the new one were there; and either the new one was there or the save is asked for.
LEMMA StartSlotsType ==
  ASSUME NEW slot \in SlotType, NEW d \in Map
  PROVE  /\ StartSlots(slot, d) \in SlotType
         /\ StartSlots(slot, d)["AUTO1"] = slot["AUTO1"]
         /\ StartSlots(slot, d)["AUTO2"] = slot["AUTO2"]
         /\ \A s \in Slot :
              \/ \E r \in Slot : StartSlots(slot, d)[s] = slot[r]
              \/ ~HasStart(slot, d) /\ StartSlots(slot, d)[s] = <<"start", d>>
  <1>1. <<"start", d>> \in SaveName
    BY DEF SaveName
  <1>2. CASE HasStart(slot, d)
    BY <1>2 DEF StartSlots
  <1>3. CASE ~HasStart(slot, d)
    BY <1>1, <1>3 DEF StartSlots, SlotType, Slot
  <1> QED BY <1>2, <1>3

\* Whatever the server activates on, the game's memory and the files keep their types.
LEMMA ActivateTypes ==
  ASSUME TypeOK, NEW d \in Map, NEW f, FewerFiles(f), NEW slot, FewerSlots(slot),
         NEW ignored \in BOOLEAN, NEW again \in BOOLEAN,
         ServerActivate(d, f, slot, ignored, again)
  PROVE  /\ FewerFiles(file') /\ p' \in Persist /\ IsOffsets(maps') /\ cur' \in Map \cup {NoMap}
         /\ tr' \in Transition /\ dup' \in BOOLEAN
  <1> DEFINE read == IF tr.fLoading THEN [p EXCEPT !.slot = CheckSaveSlots(slot, f)]
                     ELSE [p EXCEPT !.slot = slot, !.saved = tr.pos]
             q == IF GoesOn(d) THEN read ELSE Renewed(read)
  <1>1. /\ tr.fLoading \in BOOLEAN /\ tr.pos \in Map \cup {NoMap}
        /\ p \in Persist /\ IsOffsets(maps) /\ dup \in BOOLEAN
    BY DEF TypeOK, Transition, IsOffsets
  <1>2. slot \in SlotType /\ CheckSaveSlots(slot, f) \in SlotType
    BY CheckSaveSlotsFewer DEF FewerSlots
  <1>3. CASE ignored
    <2>1. p' \in Persist
      BY <1>1, <1>2, <1>3 DEF ServerActivate, Persist, SlotType
    <2> QED BY <1>1, <1>3, <2>1 DEF ServerActivate, TypeOK, IsOffsets
  <1>4. CASE ~ignored
    <2>1. read \in Persist /\ q \in Persist
      <3>1. [p EXCEPT !.slot = CheckSaveSlots(slot, f)] \in Persist
        BY <1>1, <1>2 DEF Persist, SlotType
      <3>2. [p EXCEPT !.slot = slot, !.saved = tr.pos] \in Persist
        BY <1>1, <1>2 DEF Persist, SlotType
      <3> QED BY <3>1, <3>2, NewTypes DEF Renewed
    <2>2. StartSlots(q.slot, d) \in SlotType
      BY <2>1, StartSlotsType DEF Persist, SlotType
    <2>3. [q EXCEPT !.slot = StartSlots(q.slot, d)] \in Persist
      BY <2>1, <2>2 DEF Persist, SlotType
    <2>4. p' = IF tr.fLoading THEN q ELSE [q EXCEPT !.slot = StartSlots(q.slot, d)]
      BY <1>4 DEF ServerActivate
    <2>5. p' \in Persist
      BY <2>1, <2>3, <2>4
    <2>6. IsOffsets(maps')
      <3>1. CASE ~GoesOn(d)
        BY <1>4, <3>1, AloneType DEF ServerActivate
      <3>2. CASE GoesOn(d) /\ tr.fLoading
        BY <1>1, <1>4, <3>2 DEF ServerActivate
      <3>3. CASE GoesOn(d) /\ ~tr.fLoading
        BY <1>4, <3>3, RebasedType DEF ServerActivate, GoesOn
      <3> QED BY <3>1, <3>2, <3>3
    <2>7. FewerFiles(file')
      BY <1>4, ClearSavesFewer DEF ServerActivate
    <2>8. cur' = d /\ tr' = NoTransition /\ dup' \in BOOLEAN
      BY <1>4 DEF ServerActivate
    <2> QED BY <2>5, <2>6, <2>7, <2>8, NewTypes
  <1> QED BY <1>3, <1>4

\* The offsets rebased on a landmark are right when the ones before were, and the landmark was
\* where the game left for it.
LEMMA RebasedAgrees ==
  ASSUME TypeOK, WorldKnown, LandmarkKnown, NEW d \in Map,
         Running, Settled, ~tr.fLoading, GoesOn(d)
  PROVE  OffsetsRelative(Rebased(d), d)
  <1>1. tr.spot # NoMark /\ tr.spot \in Landmark
    BY DEF GoesOn, TypeOK, Transition
  <1>2. cur = level /\ OffsetsRelative(maps, level) /\ tr.vec = At[tr.spot] - Origin[level]
    BY <1>1 DEF WorldKnown, LandmarkKnown
  <1>3. At[tr.spot] \in Int /\ Origin[level] \in Int /\ Origin[d] \in Int
    BY <1>1, TransitionAssumption DEF TypeOK, Running
  <1>4. \A m \in DOMAIN maps : m \in Map /\ maps[m] = Origin[m] - Origin[level]
    BY <1>2 DEF TypeOK, OffsetsRelative
  <1>5. ASSUME NEW m \in DOMAIN maps, m # d
        PROVE  Rebased(d)[m] = Origin[m] - Origin[d]
    <2>1. m \in Map /\ Origin[m] \in Int /\ maps[m] = Origin[m] - Origin[level]
      BY <1>4, TransitionAssumption
    <2>2. Rebased(d)[m] = maps[m] - tr.vec + (At[tr.spot] - Origin[d])
      BY <1>5 DEF Rebased
    <2> QED BY <1>2, <1>3, <2>1, <2>2
  <1>6. Rebased(d)[d] = Origin[d] - Origin[d]
    BY <1>3 DEF Rebased
  <1>7. DOMAIN Rebased(d) = DOMAIN maps \cup {d}
    BY DEF Rebased
  <1> QED BY <1>5, <1>6, <1>7 DEF OffsetsRelative

\* The files of an activation know what they knew.
LEMMA FewerFilesKnown ==
  ASSUME FilesKnown, FewerFiles(file')
  PROVE  FilesKnown'
  BY DEF FilesKnown, FewerFiles, FileOK, CoopFileOK, NoFiles

\* An activation that is not ignored: a new game knows its own map; a game that goes on knows
\* what the caller says it knows.
LEMMA ActivatedOK ==
  ASSUME IInv, NEW d \in Map, NEW f, FewerFiles(f), NEW slot, FewerSlots(slot),
         NEW again \in BOOLEAN, ServerActivate(d, f, slot, FALSE, again),
         NEW left \in Seq(Command), SavesQueued(left), cmds' = left \o StartSave(d, slot, FALSE),
         level' = d, events' \in 0..MaxEvents, spoiled' \in {"no", "list", "maps"},
         spoiled' # "maps" /\ GoesOn(d) =>
           /\ OffsetsRelative(maps', d) /\ spoiled # "maps"
           /\ spoiled' # "list" => SavedKnown(p', maps')
           /\ tr.fLoading \/ \A s \in Slot : SlotKnown(slot[s], f, left)
  PROVE  IInv'
  <1> DEFINE read == IF tr.fLoading THEN [p EXCEPT !.slot = CheckSaveSlots(slot, f)]
                     ELSE [p EXCEPT !.slot = slot, !.saved = tr.pos]
             q == IF GoesOn(d) THEN read ELSE NewPersist
  <1>1. /\ FewerFiles(file') /\ p' \in Persist /\ IsOffsets(maps') /\ cur' \in Map \cup {NoMap}
        /\ tr' \in Transition /\ dup' \in BOOLEAN
    BY ActivateTypes DEF IInv
  <1>2. /\ file' = IF GoesOn(d) THEN f ELSE ClearSaves(tr.src, f)
        /\ GoesOn(d) \/ maps' = [m \in {d} |-> 0]
        /\ p' = IF tr.fLoading THEN q ELSE [q EXCEPT !.slot = StartSlots(q.slot, d)]
        /\ cur' = d /\ tr' = NoTransition
    BY DEF ServerActivate, Renewed
  <1>3. /\ cmds' \in Seq(Command) /\ Range(left) \subseteq Range(cmds') /\ SavesQueued(cmds')
        /\ StartSave(d, slot, FALSE) # <<>> => <<"save", <<"start", d>>>> \in Range(cmds')
    BY StartSaveCommands
  <1>4. TypeOK'
    BY <1>1, <1>3, FewerFilesType DEF IInv, TypeOK, IsFiles, IsFile, IsOffsets, Command
  <1>5. tr'.fLoading = FALSE /\ tr'.pos = NoMap /\ tr'.spot = NoMark
    BY <1>2 DEF NoTransition
  <1>6. WorldKnown'
    BY <1>2, AloneType DEF WorldKnown, Settled
  <1>7. PlacesKnown'
    <2>1. CASE GoesOn(d)
      BY <1>5, <2>1 DEF PlacesKnown, Settled
    <2>2. CASE ~GoesOn(d)
      <3>1. p'.saved = NoMap
        BY <1>2, <2>2 DEF NewPersist
      <3> QED BY <1>5, <3>1 DEF PlacesKnown, SavedKnown
    <2> QED BY <2>1, <2>2
  <1>8. LandmarkKnown' /\ LoadPending' /\ FlagMeansLoad'
    BY <1>5 DEF LandmarkKnown, LoadPending, FlagMeansLoad
  <1>9. FilesKnown'
    BY <1>1, FewerFilesKnown DEF IInv
  <1>10. /\ read \in Persist /\ q \in Persist /\ slot \in SlotType /\ q.slot \in SlotType
         /\ read.last = p.last /\ read.slot["AUTO1"] \in {p.slot["AUTO1"], NoName}
    <2>1. slot \in SlotType /\ CheckSaveSlots(slot, f) \in SlotType
      BY CheckSaveSlotsFewer DEF FewerSlots
    <2>2. p \in Persist /\ tr.pos \in Map \cup {NoMap}
      BY DEF IInv, TypeOK, Transition
    <2>3. slot["AUTO1"] \in {p.slot["AUTO1"], NoName}
          /\ CheckSaveSlots(slot, f)["AUTO1"] \in {p.slot["AUTO1"], NoName}
      BY CheckSaveSlotsFewer DEF FewerSlots, Slot
    <2>4. read \in Persist /\ read.last = p.last /\ read.slot["AUTO1"] \in {p.slot["AUTO1"], NoName}
      BY <2>1, <2>2, <2>3 DEF Persist, SlotType
    <2> QED BY <2>1, <2>4, NewTypes DEF Persist, SlotType
  <1>11. CounterKnown'
    <2> SUFFICES ASSUME spoiled' # "maps" PROVE LastAutosave(p')
      BY DEF CounterKnown
    <2>1. LastAutosave(q)
      BY <1>10, NewTypes DEF LastAutosave, IInv, CounterKnown
    <2>2. p'.last = q.last /\ p'.slot["AUTO1"] = q.slot["AUTO1"]
      BY <1>2, <1>10, StartSlotsType DEF Persist
    <2> QED BY <2>1, <2>2 DEF LastAutosave
  <1>12. SlotsKnown'
    <2> SUFFICES ASSUME spoiled' # "maps", NEW s \in Slot, p'.slot[s] # NoName
                 PROVE  file'[p'.slot[s]].coop # NoFile \/ <<"save", p'.slot[s]>> \in Range(cmds')
      BY DEF SlotsKnown, Settled, SlotKnown
    <2>1. ASSUME GoesOn(d), NEW r \in Slot, q.slot[r] # NoName
          PROVE  file'[q.slot[r]].coop # NoFile \/ <<"save", q.slot[r]>> \in Range(cmds')
      <3>1. CASE tr.fLoading
        <4>1. q.slot = CheckSaveSlots(slot, f)
          BY <2>1, <3>1, <1>10 DEF IInv, TypeOK, Persist
        <4> QED BY <4>1, <1>2, <2>1, CheckSaveSlotsFewer
      <3>2. CASE ~tr.fLoading
        <4>1. q.slot = slot
          BY <2>1, <3>2, <1>10 DEF IInv, TypeOK, Persist
        <4>2. SlotKnown(slot[r], f, left)
          BY <2>1, <3>2
        <4> QED BY <4>1, <4>2, <1>2, <1>3, <2>1 DEF SlotKnown
      <3> QED BY <3>1, <3>2
    <2>2. ASSUME ~GoesOn(d), NEW r \in Slot PROVE q.slot[r] = NoName
      BY <2>2 DEF NewPersist
    <2>3. CASE tr.fLoading
      BY <1>2, <2>1, <2>2, <2>3
    <2>4. CASE ~tr.fLoading
      <3>1. p'.slot = StartSlots(q.slot, d)
        BY <1>2, <1>10, <2>4 DEF Persist
      <3>2. \/ \E r \in Slot : p'.slot[s] = q.slot[r]
            \/ ~HasStart(q.slot, d) /\ p'.slot[s] = <<"start", d>>
        BY <1>10, <3>1, StartSlotsType
      <3>3. ASSUME ~HasStart(q.slot, d) PROVE <<"save", <<"start", d>>>> \in Range(cmds')
        <4>1. q.slot = IF GoesOn(d) THEN slot ELSE NewPersist.slot
          BY <1>10, <2>4 DEF IInv, TypeOK, Persist
        <4>2. StartSave(d, slot, FALSE) # <<>>
          BY <2>4, <3>3, <4>1 DEF StartSave
        <4> QED BY <1>3, <4>2
      <3>4. CASE \E r \in Slot : p'.slot[s] = q.slot[r]
        BY <2>1, <2>2, <3>4
      <3> QED BY <3>2, <3>3, <3>4
    <2> QED BY <2>3, <2>4
  <1> QED BY <1>3, <1>4, <1>6, <1>7, <1>8, <1>9, <1>11, <1>12 DEF IInv
-----------------------------------------------------------------------------
(* The steps. *)

\* The commands have their type, and each kind its argument.
LEMMA CommandsTyped ==
  ASSUME TypeOK
  PROVE  /\ cmds \in Seq(Command)
         /\ \A c \in Range(cmds) : c \in Command
  <1>1. cmds \in Seq(Command)
    BY DEF TypeOK, Command
  <1> QED BY <1>1 DEF Range

\* While a load is read but not executed there is no current map, unless a load has failed.
LEMMA ReadingNoMap ==
  ASSUME TypeOK, LoadPending, Reading, spoiled # "maps"
  PROVE  cur = NoMap
  <1>1. PICK e \in Range(cmds) : e[1] = "load"
    BY QueuedRange DEF Reading
  <1>2. e \in Command
    BY CommandsTyped
  <1>3. \E n \in SaveName : e = <<"load", n>>
    BY <1>1, <1>2 DEF Command
  <1> QED BY <1>1, <1>3 DEF LoadPending, Reading

\* A command that is appended is queued, and no other.
LEMMA CommandQueued ==
  ASSUME TypeOK, NEW e \in Command, cmds' = Append(cmds, e)
  PROVE  /\ cmds' \in Seq(Command) /\ Range(cmds') = Range(cmds) \cup {e}
         /\ \A what : Queued(what)' <=> Queued(what) \/ e[1] = what
  <1>1. cmds' \in Seq(Command) /\ Range(cmds') = Range(cmds) \cup {e}
    BY CommandsTyped, AppendCommand
  <1>2. \A what : (Queued(what) <=> \E x \in Range(cmds) : x[1] = what)
    BY QueuedRange
  <1>3. \A what : (Queued(what)' <=> \E x \in Range(cmds') : x[1] = what)
    BY DEF Queued, Range
  <1> QED BY <1>1, <1>2, <1>3

\* A trigger is used.
LEMMA UseTriggerOK ==
  ASSUME IInv, NEW t \in Trigger, NEW someone \in BOOLEAN, UseTrigger(t, someone)
  PROVE  IInv'
  <1>1. /\ t.from \in Map /\ t.to \in Map /\ t.mark \in Landmark
        /\ level = t.from /\ tr' = Setup(t, someone)
        /\ \/ cmds' = Append(cmds, <<"changelevel", t.to>>)
           \/ cmds' = cmds
        /\ spoiled' = IF tr.fLoading /\ Queued("load") THEN "maps"
                      ELSE IF spoiled = "flag" THEN "no" ELSE spoiled
        /\ UNCHANGED <<file, p, maps, cur, dup, level>>
        /\ events < MaxEvents /\ events' = events + 1
    BY TransitionAssumption DEF UseTrigger, Event
  <1>2. Running /\ Running'
    BY <1>1, TransitionAssumption DEF Running
  <1>3. cmds' \in Seq(Command) /\ Range(cmds) \subseteq Range(cmds') /\ SavesQueued(cmds')
    <2> DEFINE e == <<"changelevel", t.to>>
    <2>1. e \in Command
      BY <1>1 DEF Command
    <2>2. \A n \in SaveName : <<"save", n>> # e
      OBVIOUS
    <2>3. cmds' = Append(cmds, e) \/ cmds' = cmds
      BY <1>1
    <2> HIDE DEF e
    <2> QED BY <2>1, <2>2, <2>3, CommandQueued, CommandsTyped DEF IInv, SavesQueued
  <1>4. /\ tr' \in Transition /\ tr'.fLoading = FALSE
        /\ tr'.pos = IF someone THEN level ELSE tr.pos
        /\ tr'.src = level
        /\ tr'.spot # NoMark => level \in Joins[tr'.spot] /\ tr'.vec = At[tr'.spot] - Origin[level]
    <2>1. At[t.mark] - Origin[level] \in Int
      BY <1>1, TransitionAssumption
    <2>2. tr.pos \in Map \cup {NoMap}
      BY DEF IInv, TypeOK, Transition
    <2> QED BY <1>1, <2>1, <2>2 DEF Setup, Transition
  <1>5. /\ spoiled' \in {"no", "flag", "list", "maps"}
        /\ spoiled' # "maps" => Settled /\ (spoiled' = "list" <=> spoiled = "list")
        /\ spoiled' # "maps" => spoiled # "maps"
    BY <1>1 DEF Settled, Reading, IInv, TypeOK
  <1>6. TypeOK'
    BY <1>1, <1>3, <1>4, <1>5, TransitionAssumption DEF IInv, TypeOK, Command
  <1>7. WorldKnown'
    BY <1>1, <1>2, <1>5 DEF IInv, WorldKnown, Settled, OffsetsRelative
  <1>8. PlacesKnown'
    BY <1>1, <1>2, <1>4, <1>5 DEF IInv, PlacesKnown, WorldKnown, Settled, OffsetsRelative, SavedKnown
  <1>9. LandmarkKnown' /\ LoadPending' /\ FlagMeansLoad'
    BY <1>1, <1>2, <1>4 DEF LandmarkKnown, LoadPending, FlagMeansLoad
  <1>10. FilesKnown' /\ CounterKnown'
    BY <1>1, <1>5 DEF IInv, FilesKnown, CounterKnown
  <1>11. SlotsKnown'
    BY <1>1, <1>3, <1>5 DEF IInv, SlotsKnown, SlotKnown, Settled
  <1> QED BY <1>3, <1>6, <1>7, <1>8, <1>9, <1>10, <1>11 DEF IInv

\* A level is asked for.
LEMMA ChangeLevelOK ==
  ASSUME IInv, NEW d \in Map, ChangeLevel(d)
  PROVE  IInv'
  <1> DEFINE e == <<"changelevel", d>>
  <1>1. /\ Running /\ cmds' = Append(cmds, e)
        /\ UNCHANGED <<file, p, maps, cur, tr, dup, spoiled, level>>
        /\ events < MaxEvents /\ events' = events + 1
    BY DEF ChangeLevel, Event, memory
  <1>2. e \in Command /\ e[1] = "changelevel"
    BY DEF Command
  <1>3. \A n \in SaveName : e # <<"load", n>> /\ e # <<"save", n>>
    OBVIOUS
  <1> HIDE DEF e
  <1>4. /\ cmds' \in Seq(Command) /\ Range(cmds') = Range(cmds) \cup {e}
        /\ Queued("load")' <=> Queued("load")
    BY <1>1, <1>2, CommandQueued DEF IInv
  <1>5. (Reading' <=> Reading) /\ (Settled' <=> Settled)
    BY <1>1, <1>4 DEF Settled, Reading
  <1>6. TypeOK'
    BY <1>1, <1>4, TransitionAssumption DEF IInv, TypeOK, Command
  <1>7. WorldKnown' /\ PlacesKnown' /\ LandmarkKnown'
    BY <1>1, <1>5 DEF IInv, WorldKnown, PlacesKnown, LandmarkKnown, Running
  <1>8. FlagMeansLoad'
    BY <1>1, <1>4 DEF IInv, FlagMeansLoad
  <1>9. LoadPending'
    BY <1>1, <1>3, <1>4 DEF IInv, LoadPending, ReadFrom
  <1>10. FilesKnown' /\ CounterKnown'
    BY <1>1 DEF IInv, FilesKnown, CounterKnown
  <1>11. SlotsKnown'
    BY <1>1, <1>4, <1>5 DEF IInv, SlotsKnown, SlotKnown
  <1>12. SavesQueued(cmds')
    BY <1>3, <1>4 DEF IInv, SavesQueued
  <1> QED BY <1>6, <1>7, <1>8, <1>9, <1>10, <1>11, <1>12 DEF IInv

\* A player spawns.
LEMMA PlayerSpawnOK ==
  ASSUME IInv, PlayerSpawn
  PROVE  IInv'
  BY DEF IInv, PlayerSpawn, TypeOK, WorldKnown, PlacesKnown, LandmarkKnown, LoadPending, ReadFrom,
         FilesKnown, SlotsKnown, CounterKnown, FlagMeansLoad, Queued, Running, Settled, Reading

\* The coop state a save gets is good when the game is not spoiled: the game knows where it is.
LEMMA WholeOK ==
  ASSUME IInv, Running, NEW n \in SaveName, NEW q \in Persist, q.saved = p.saved,
         spoiled # "maps" => LastAutosave(q)
  PROVE  CoopFileOK(n, Whole(n, q)) /\ Whole(n, q) # NoFile
  <1>1. PICK M \in SUBSET Map : maps \in [M -> Int]
    BY DEF IInv, TypeOK
  <1>2. /\ Whole(n, q) \in CoopFile(M) /\ Whole(n, q).p = q /\ Whole(n, q).upto = 8
        /\ Whole(n, q).maps = maps /\ Whole(n, q).bad \in {"no", "list", "maps"}
        /\ Whole(n, q).bad # "maps" => spoiled # "maps" /\ cur # NoMap /\ n[2] = level
        /\ Whole(n, q).bad = "no" => spoiled # "list"
    BY <1>1, WholeType DEF IInv
  <1>3. Whole(n, q) # NoFile
    BY <1>2, TransitionAssumption
  <1>4. ASSUME Whole(n, q).bad # "maps"
        PROVE  /\ LastAutosave(q) /\ OffsetsRelative(maps, n[2])
               /\ spoiled # "list" => SavedKnown(q, maps)
    <2>1. Settled
      BY <1>2, <1>4, ReadingNoMap DEF Settled, IInv
    <2> QED BY <1>2, <1>4, <2>1 DEF IInv, WorldKnown, PlacesKnown, SavedKnown
  <1> QED BY <1>2, <1>3, <1>4 DEF CoopFileOK, OffsetsRelative, AroundMap

\* So is what a crash leaves of it.
LEMMA CutOK ==
  ASSUME IInv, Running, NEW n \in SaveName, NEW q \in Persist, q.saved = p.saved,
         spoiled # "maps" => LastAutosave(q), NEW upto \in 0..7, NEW N \in SUBSET DOMAIN maps
  PROVE  /\ CoopFileOK(n, Cut(Whole(n, q), upto, N))
         /\ \E M \in SUBSET Map : Cut(Whole(n, q), upto, N) \in CoopFile(M)
  <1> DEFINE w == Whole(n, q)
             x == Cut(w, upto, N)
  <1>1. PICK M \in SUBSET Map : maps \in [M -> Int]
    BY DEF IInv, TypeOK
  <1>2. w \in CoopFile(M) /\ w.maps = maps /\ w.upto = 8 /\ N \in SUBSET M
    BY <1>1, WholeType DEF IInv
  <1>3. CoopFileOK(n, w) /\ w # NoFile
    BY WholeOK
  <1> HIDE DEF w
  <1>4. /\ x \in CoopFile(N) /\ x.maps = [m \in N |-> w.maps[m]] /\ x.upto = upto
        /\ x.bad # "maps" => upto = 7 /\ x.bad = "list" /\ w.bad # "maps"
        /\ upto = 7 => x.p = w.p
    BY <1>2, CutType
  <1> HIDE DEF x
  <1>5. CoopFileOK(n, x)
    <2> SUFFICES ASSUME x.bad # "maps"
                 PROVE  /\ x.upto >= 7 /\ LastAutosave(x.p) /\ AroundMap(x.maps, n[2])
                        /\ x.upto # 8 /\ x.bad # "no"
      BY DEF CoopFileOK
    <2>1. x.upto = 7 /\ x.bad = "list" /\ x.p = w.p /\ w.bad # "maps"
      BY <1>4
    <2>2. LastAutosave(w.p) /\ AroundMap(w.maps, n[2])
      BY <1>3, <2>1 DEF CoopFileOK
    <2>3. \A m \in N : m \in DOMAIN w.maps
      BY <1>2
    <2>4. AroundMap(x.maps, n[2])
      BY <1>4, <2>2, <2>3 DEF AroundMap
    <2> QED BY <2>1, <2>2, <2>4
  <1>6. N \in SUBSET Map
    BY <1>2
  <1> QED BY <1>4, <1>5, <1>6 DEF x, w

\* What GGM_Save writes is a file that says what a file must.
LEMMA SaveWritten ==
  ASSUME IInv, Running, NEW n \in SaveName, n[1] # "start" => n[2] = level, NEW accepted \in BOOLEAN,
         NEW q \in Persist, q.saved = p.saved, spoiled # "maps" => LastAutosave(q),
         NEW x, x = Saved(n, q, accepted)
  PROVE  /\ IsFile(x) /\ FileOK(n, x) /\ x.coop # NoFile
         /\ x.coop = Whole(n, q)
         /\ cur = NoMap => x.coop.bad = "maps"
         /\ x.sav \in Map \cup {NoMap} /\ (n[1] # "start" => x.sav \in {NoMap, n[2]})
  <1>1. /\ IsFile(x) /\ x.coop = Whole(n, q) /\ x.sav = (IF accepted THEN level ELSE file[n].sav)
        /\ x.sav \in Map \cup {NoMap}
    BY SavedType DEF IInv
  <1>2. CoopFileOK(n, x.coop) /\ x.coop # NoFile
    BY <1>1, WholeOK
  <1>3. n[1] # "start" => x.sav \in {NoMap, n[2]}
    BY <1>1 DEF IInv, FilesKnown, FileOK
  <1>4. cur = NoMap => x.coop.bad = "maps"
    BY <1>1 DEF Whole
  <1> QED BY <1>1, <1>2, <1>3, <1>4 DEF FileOK

\* One file replaced.
LEMMA FileReplaced ==
  ASSUME IInv, NEW n \in SaveName, NEW x, IsFile(x), FileOK(n, x), file' = [file EXCEPT ![n] = x]
  PROVE  IsFiles(file') /\ FilesKnown' /\ file'[n] = x
         /\ \A m \in SaveName : m # n => file'[m] = file[m]
  <1>1. file = [m \in SaveName |-> file[m]]
    BY DEF IInv, TypeOK
  <1>2. file' = [m \in SaveName |-> IF m = n THEN x ELSE file[m]]
    BY <1>1
  <1>3. IsFiles(file')
    <2>1. \A m \in SaveName : IsFile(file[m])
      BY DEF IInv, TypeOK, IsFile
    <2>2. \A m \in SaveName : IsFile(file'[m])
      BY <1>2, <2>1
    <2>3. file' = [m \in SaveName |-> file'[m]]
      BY <1>2
    <2> QED BY <2>2, <2>3 DEF IsFiles
  <1>4. FilesKnown'
    BY <1>2 DEF IInv, FilesKnown, FileOK, CoopFileOK
  <1> QED BY <1>2, <1>3, <1>4

\* A stopped server remembers nothing; what the files know is all there is.
LEMMA StoppedOK ==
  ASSUME IsFiles(file'), FilesKnown', events' \in 0..MaxEvents,
         p' = NewPersist, maps' = <<>>, cur' = NoMap, tr' = NoTransition, dup' = FALSE,
         level' = NoMap, cmds' = <<>>, spoiled' = "no"
  PROVE  IInv'
  <1>1. /\ tr'.fLoading = FALSE /\ tr'.pos = NoMap /\ tr'.spot = NoMark /\ p'.saved = NoMap
        /\ \A s \in Slot : p'.slot[s] = NoName
    BY DEF NoTransition, NewPersist
  <1>2. DOMAIN cmds' = {} /\ Range(cmds') = {} /\ cmds' \in Seq(Command) /\ ~Running'
    BY DEF Range, Running
  <1>3. TypeOK'
    BY <1>2, NewTypes DEF TypeOK, IsFiles, IsFile, IsOffsets, Command
  <1>4. SavesQueued(cmds') /\ LoadPending' /\ FlagMeansLoad'
    BY <1>1, <1>2 DEF SavesQueued, LoadPending, FlagMeansLoad, Queued
  <1>5. WorldKnown' /\ PlacesKnown' /\ LandmarkKnown'
    BY <1>1, <1>2 DEF WorldKnown, PlacesKnown, LandmarkKnown, SavedKnown
  <1>6. SlotsKnown' /\ CounterKnown'
    BY <1>1, NewTypes DEF SlotsKnown, SlotKnown, CounterKnown
  <1> QED BY <1>3, <1>4, <1>5, <1>6 DEF IInv

\* An autosave changes two slots and the counter, and counts right.
LEMMA AutoPersistOK ==
  ASSUME IInv, level \in Map
  PROVE  LET name == AutoPersist.slot["AUTO1"] IN
         /\ AutoPersist \in Persist /\ AutoPersist.saved = p.saved /\ LastAutosave(AutoPersist)
         /\ name \in SaveName /\ name = AutoName(NextAuto(p.last), level)
         /\ name[2] = level /\ name[1] # "start"
         /\ \A s \in Slot : AutoPersist.slot[s] = name \/ \E r \in Slot : AutoPersist.slot[s] = p.slot[r]
  <1> DEFINE last == NextAuto(p.last)
             n    == AutoName(last, level)
             q    == [p EXCEPT !.slot["AUTO2"] = p.slot["AUTO1"], !.slot["AUTO1"] = n, !.last = last]
  <1>1. p \in Persist /\ last \in {0, 1}
    BY DEF IInv, TypeOK, Persist, NextAuto
  <1>2. n \in SaveName /\ n[2] = level /\ n[1] # "start"
    BY <1>1 DEF AutoName, SaveName
  <1>3. AutoPersist = q
    BY DEF AutoPersist
  <1>4. q \in Persist /\ q.saved = p.saved /\ q.last = last /\ q.slot["AUTO1"] = n
        /\ \A s \in Slot : q.slot[s] = n \/ \E r \in Slot : q.slot[s] = p.slot[r]
    <2> HIDE DEF n, last
    <2> QED BY <1>1, <1>2 DEF Persist, Slot
  <1>5. LastAutosave(q)
    <2> HIDE DEF q
    <2> QED BY <1>4 DEF LastAutosave
  <1> HIDE DEF q
  <1> QED BY <1>2, <1>3, <1>4, <1>5

\* An autosave: its slot is on disk when it is taken.
LEMMA AutoSaveOK ==
  ASSUME IInv, NEW accepted \in BOOLEAN, AutoSave(accepted)
  PROVE  IInv'
  <1> DEFINE q == AutoPersist
             name == q.slot["AUTO1"]
             x == Saved(name, q, accepted)
  <1>1. Running /\ level \in Map /\ events' \in 0..MaxEvents /\ file' = [file EXCEPT ![name] = x]
    BY TransitionAssumption DEF AutoSave, Event, IInv, TypeOK, Running
  <1>2. /\ q \in Persist /\ q.saved = p.saved /\ LastAutosave(q)
        /\ name \in SaveName /\ name[2] = level /\ name[1] # "start"
        /\ \A s \in Slot : q.slot[s] = name \/ \E r \in Slot : q.slot[s] = p.slot[r]
    BY <1>1, AutoPersistOK
  <1>3. cur # NoMap => p' = q /\ UNCHANGED <<maps, cur, tr, dup, level, cmds, spoiled>>
    BY DEF AutoSave
  <1> HIDE DEF q
  <1>4. IsFile(x) /\ FileOK(name, x) /\ x.coop # NoFile
    <2> HIDE DEF name
    <2> QED BY <1>1, <1>2, SaveWritten
  <1>5. IsFiles(file') /\ FilesKnown' /\ file'[name] = x
        /\ \A m \in SaveName : m # name => file'[m] = file[m]
    <2> HIDE DEF x, name
    <2> QED BY <1>1, <1>2, <1>4, FileReplaced
  <1> HIDE DEF x, name
  <1>6. CASE cur = NoMap
    BY <1>1, <1>5, <1>6, StoppedOK DEF AutoSave
  <1>7. CASE cur # NoMap
    <2>1. p' = q /\ UNCHANGED <<maps, cur, tr, dup, level, cmds, spoiled>>
      BY <1>3, <1>7
    <2>2. (Reading' <=> Reading) /\ (Settled' <=> Settled)
      BY <2>1 DEF Settled, Reading, Queued
    <2>3. TypeOK'
      BY <1>1, <1>2, <1>5, <2>1 DEF IInv, TypeOK, IsFiles, IsFile
    <2>4. SavesQueued(cmds') /\ WorldKnown' /\ LandmarkKnown' /\ FlagMeansLoad'
      BY <2>1, <2>2 DEF IInv, SavesQueued, WorldKnown, LandmarkKnown, FlagMeansLoad, Queued, Running
    <2>5. PlacesKnown'
      BY <1>2, <2>1, <2>2 DEF IInv, PlacesKnown, SavedKnown
    <2>6. LoadPending'
      BY <1>7, <2>1 DEF IInv, LoadPending
    <2>7. SlotsKnown'
      <3> SUFFICES ASSUME Settled, NEW s \in Slot PROVE SlotKnown(q.slot[s], file', cmds)
        BY <2>1, <2>2 DEF SlotsKnown
      <3>1. CASE q.slot[s] = name
        BY <1>4, <1>5, <3>1 DEF SlotKnown
      <3>2. CASE q.slot[s] # name
        <4>1. PICK r \in Slot : q.slot[s] = p.slot[r]
          BY <1>2, <3>2
        <4>2. p.slot[r] \in SaveName \cup {NoName}
          BY DEF IInv, TypeOK, Persist
        <4> QED BY <1>5, <3>2, <4>1, <4>2 DEF IInv, SlotsKnown, SlotKnown
      <3> QED BY <3>1, <3>2
    <2>8. CounterKnown'
      BY <1>2, <2>1 DEF CounterKnown
    <2> QED BY <1>5, <2>3, <2>4, <2>5, <2>6, <2>7, <2>8 DEF IInv
  <1> QED BY <1>6, <1>7

\* The save at the head of the buffer is a start save.
LEMMA HeadSave ==
  ASSUME IInv, cmds # <<>>, NEW n, Head(cmds)[1] = "save", Head(cmds)[2] = n
  PROVE  n \in SaveName /\ n[1] = "start" /\ Head(cmds) = <<"save", n>>
  <1>1. Head(cmds) \in Range(cmds) /\ Head(cmds) \in Command
    BY CommandsTyped, TailCommands DEF IInv
  <1>2. n \in SaveName /\ Head(cmds) = <<"save", n>>
    BY <1>1 DEF Command
  <1> QED BY <1>1, <1>2 DEF IInv, SavesQueued

\* ggm_save from the buffer.
LEMMA ExecSaveOK ==
  ASSUME IInv, NEW accepted \in BOOLEAN, ExecSave(accepted)
  PROVE  IInv'
  <1> DEFINE n == Head(cmds)[2]
             x == Saved(n, p, accepted)
  <1>1. /\ Running /\ cmds # <<>> /\ Head(cmds)[1] = "save" /\ cmds' = Tail(cmds)
        /\ UNCHANGED <<p, maps, cur, tr, dup, spoiled, level, events>>
        /\ file' = [file EXCEPT ![n] = x]
    BY DEF ExecSave, memory
  <1>2. n \in SaveName /\ n[1] = "start" /\ Head(cmds) = <<"save", n>>
    BY <1>1, HeadSave
  <1> HIDE DEF n, x
  <1>3. p \in Persist /\ (spoiled # "maps" => LastAutosave(p))
    BY DEF IInv, TypeOK, CounterKnown
  <1>4. IsFile(x) /\ FileOK(n, x) /\ x.coop # NoFile /\ (cur = NoMap => x.coop.bad = "maps")
    BY <1>1, <1>2, <1>3, SaveWritten DEF x
  <1>5. IsFiles(file') /\ FilesKnown' /\ file'[n] = x /\ \A m \in SaveName : m # n => file'[m] = file[m]
    BY <1>1, <1>2, <1>4, FileReplaced
  <1>6. /\ cmds' \in Seq(Command) /\ Range(cmds) = {<<"save", n>>} \cup Range(cmds')
    BY <1>1, <1>2, CommandsTyped, TailCommands DEF IInv
  <1>7. Queued("load")' <=> Queued("load")
    <2>1. Queued("load")' <=> \E e \in Range(cmds') : e[1] = "load"
      BY DEF Queued, Range
    <2> QED BY <1>6, <2>1, QueuedRange
  <1>8. (Reading' <=> Reading) /\ (Settled' <=> Settled)
    BY <1>1, <1>7 DEF Reading, Settled
  <1>9. TypeOK' /\ SavesQueued(cmds')
    BY <1>1, <1>5, <1>6 DEF IInv, TypeOK, IsFiles, IsFile, Command, SavesQueued
  <1>10. WorldKnown' /\ PlacesKnown' /\ LandmarkKnown' /\ FlagMeansLoad' /\ CounterKnown'
    BY <1>1, <1>7, <1>8
       DEF IInv, WorldKnown, PlacesKnown, LandmarkKnown, FlagMeansLoad, CounterKnown, Running
  <1>11. LoadPending'
    <2> SUFFICES ASSUME NEW m \in SaveName, <<"load", m>> \in Range(cmds'), tr'.fLoading,
                        spoiled' # "maps"
                 PROVE  cur' = NoMap /\ ReadFrom(file[m])'
      BY DEF LoadPending, ReadFrom
    <2>1. cur = NoMap /\ ReadFrom(file[m])
      BY <1>1, <1>6 DEF IInv, LoadPending
    <2>2. CASE m = n
      BY <1>1, <1>4, <1>5, <2>1, <2>2 DEF ReadFrom
    <2>3. CASE m # n
      BY <1>1, <1>5, <2>1, <2>3 DEF ReadFrom
    <2> QED BY <2>2, <2>3
  <1>12. SlotsKnown'
    <2> SUFFICES ASSUME Settled, NEW s \in Slot PROVE SlotKnown(p.slot[s], file', cmds')
      BY <1>1, <1>8 DEF SlotsKnown
    <2>1. SlotKnown(p.slot[s], file, cmds) /\ p.slot[s] \in SaveName \cup {NoName}
      BY <1>3 DEF IInv, SlotsKnown, Persist
    <2> QED BY <1>4, <1>5, <1>6, <2>1 DEF SlotKnown
  <1> QED BY <1>5, <1>9, <1>10, <1>11, <1>12 DEF IInv

\* A trigger_endsection is used: slots that are cleared are no longer offered.
LEMMA EndSectionUseOK ==
  ASSUME IInv, EndSectionUse
  PROVE  IInv'
  <1>1. /\ file' = ClearSaves(tr.src, file) /\ p' = [p EXCEPT !.slot = CheckSaveSlots(p.slot, file')]
        /\ UNCHANGED <<maps, cur, tr, dup, level, cmds, spoiled, events>>
    BY DEF EndSectionUse
  <1>2. FewerFiles(file) /\ FewerSlots(p.slot) /\ p \in Persist
    BY DEF IInv, TypeOK, FewerFiles, FewerSlots, Persist, SlotType
  <1>3. FewerFiles(file')
    BY <1>1, <1>2, ClearSavesFewer
  <1>4. /\ FewerSlots(CheckSaveSlots(p.slot, file'))
        /\ \A s \in Slot : LET n == CheckSaveSlots(p.slot, file')[s] IN
             n # NoName => file'[n].coop # NoFile
    BY <1>2, CheckSaveSlotsFewer
  <1>5. /\ p' \in Persist /\ p'.slot = CheckSaveSlots(p.slot, file')
        /\ p'.last = p.last /\ p'.saved = p.saved
    BY <1>1, <1>2, <1>4 DEF Persist, FewerSlots, SlotType
  <1>6. (Reading' <=> Reading) /\ (Settled' <=> Settled)
    BY <1>1 DEF Reading, Settled, Queued
  <1>7. TypeOK'
    BY <1>1, <1>3, <1>5, FewerFilesType DEF IInv, TypeOK, IsFiles, IsFile
  <1>8. SavesQueued(cmds') /\ WorldKnown' /\ LandmarkKnown' /\ FlagMeansLoad'
    BY <1>1, <1>6 DEF IInv, SavesQueued, WorldKnown, LandmarkKnown, FlagMeansLoad, Queued, Running
  <1>9. PlacesKnown'
    BY <1>1, <1>5, <1>6 DEF IInv, PlacesKnown, SavedKnown
  <1>10. LoadPending'
    BY <1>1, <1>3, <1>5 DEF IInv, LoadPending, ReadFrom, FewerFiles, NoFiles
  <1>11. FilesKnown'
    BY <1>3, FewerFilesKnown DEF IInv
  <1>12. SlotsKnown'
    BY <1>4, <1>5 DEF SlotsKnown, SlotKnown
  <1>13. CounterKnown'
    <2>1. p'.slot["AUTO1"] \in {p.slot["AUTO1"], NoName}
      BY <1>4, <1>5 DEF FewerSlots, Slot
    <2> QED BY <1>1, <1>5, <2>1 DEF IInv, CounterKnown, LastAutosave
  <1> QED BY <1>7, <1>8, <1>9, <1>10, <1>11, <1>12, <1>13 DEF IInv

\* Of a spoiled game only the types and the files are known.
LEMMA SpoiledOK ==
  ASSUME TypeOK', SavesQueued(cmds'), FilesKnown', spoiled' = "maps"
  PROVE  IInv'
  BY DEF IInv, WorldKnown, PlacesKnown, LandmarkKnown, LoadPending, SlotsKnown, CounterKnown,
         FlagMeansLoad, Settled

\* The coop state on disk under a save has its type.
LEMMA CoopType ==
  ASSUME TypeOK, NEW n \in SaveName, file[n].coop # NoFile
  PROVE  LET c == file[n].coop IN
         /\ c.p \in Persist /\ c.upto \in 0..8 /\ c.bad \in {"no", "list", "maps"}
         /\ IsOffsets(c.maps)
  <1>1. PICK M \in SUBSET Map : file[n] \in File(M)
    BY DEF TypeOK
  <1>2. file[n].coop \in CoopFile(M)
    BY <1>1 DEF File
  <1> QED BY <1>2 DEF CoopFile, IsOffsets

\* GGM_Load: what it read waits for the engine, or the load failed and says so.
LEMMA GGM_LoadOK ==
  ASSUME IInv, NEW n \in SaveName, GGM_Load(n)
  PROVE  IInv'
  <1> DEFINE c == file[n].coop
             asked == Readable(c) /\ file[n].players
             l == <<"load", n>>
  <1>1. /\ UNCHANGED <<file, dup, level>> /\ events' \in 0..MaxEvents
        /\ cmds' = IF asked THEN Append(cmds, l) ELSE cmds
    BY TransitionAssumption DEF GGM_Load, Event, IInv, TypeOK
  <1>2. IsFiles(file') /\ FilesKnown'
    BY <1>1 DEF IInv, TypeOK, IsFiles, IsFile, FilesKnown
  <1>3. l \in Command /\ l[1] = "load" /\ \A m \in SaveName : l # <<"save", m>>
    BY DEF Command
  <1>4. CASE c = NoFile
    <2>1. UNCHANGED <<p, maps, cur, tr, spoiled>>
      BY <1>4 DEF GGM_Load, COOP_ReadState
    <2>2. cmds' = cmds
      BY <1>1, <1>4 DEF Readable
    <2>3. TypeOK'
      BY <1>1, <1>2, <2>1, <2>2 DEF IInv, TypeOK, IsFiles, IsFile
    <2>4. (Reading' <=> Reading) /\ (Settled' <=> Settled)
      BY <2>1, <2>2 DEF Reading, Settled, Queued
    <2>5. /\ SavesQueued(cmds') /\ WorldKnown' /\ PlacesKnown' /\ LandmarkKnown' /\ LoadPending'
          /\ SlotsKnown' /\ CounterKnown' /\ FlagMeansLoad'
      BY <1>1, <2>1, <2>2, <2>4
         DEF IInv, SavesQueued, WorldKnown, PlacesKnown, LandmarkKnown, LoadPending, ReadFrom,
             SlotsKnown, CounterKnown, FlagMeansLoad, Running, Queued
    <2> QED BY <1>2, <2>3, <2>5 DEF IInv
  <1>5. CASE c # NoFile
    <2>1. /\ tr' = [tr EXCEPT !.fLoading = TRUE] /\ p' = Overwritten(p, c)
          /\ IF c.upto >= 7 THEN maps' = c.maps /\ cur' = NoMap ELSE UNCHANGED <<maps, cur>>
          /\ spoiled' = CASE Queued("load") -> "maps"
                          [] ~Queued("load") /\ c.upto = 0 ->
                               IF spoiled = "no" THEN "flag" ELSE spoiled
                          [] OTHER -> IF asked THEN c.bad ELSE "maps"
      BY <1>5 DEF GGM_Load, COOP_ReadState
    <2>2. /\ c.p \in Persist /\ c.upto \in 0..8 /\ c.bad \in {"no", "list", "maps"}
          /\ IsOffsets(c.maps)
      BY <1>5, CoopType DEF IInv
    <2>3. p \in Persist /\ IsOffsets(maps) /\ tr \in Transition
          /\ spoiled \in {"no", "flag", "list", "maps"}
      BY DEF IInv, TypeOK, IsOffsets
    <2>4. /\ tr' \in Transition /\ tr'.fLoading /\ tr'.src = tr.src /\ tr'.spot = tr.spot
          /\ tr'.vec = tr.vec /\ tr'.pos = tr.pos
      BY <2>1, <2>3 DEF Transition
    <2> HIDE DEF c
    <2>5. p' \in Persist /\ IsOffsets(maps') /\ spoiled' \in {"no", "flag", "list", "maps"}
      BY <2>1, <2>2, <2>3, OverwrittenType
    <2> HIDE DEF asked, l
    <2>6. cmds' \in Seq(Command) /\ SavesQueued(cmds')
      <3>1. CASE asked
        BY <1>1, <1>3, <3>1, CommandQueued DEF IInv, SavesQueued
      <3>2. CASE ~asked
        BY <1>1, <3>2, CommandsTyped DEF IInv
      <3> QED BY <3>1, <3>2
    <2>7. cur' \in Map \cup {NoMap}
      BY <2>1 DEF IInv, TypeOK
    <2>8. TypeOK'
      BY <1>1, <1>2, <2>4, <2>5, <2>6, <2>7 DEF IInv, TypeOK, IsFiles, IsFile, IsOffsets, Command
    <2>9. CASE spoiled' = "maps"
      BY <1>2, <2>6, <2>8, <2>9, SpoiledOK
    <2>10. CASE spoiled' # "maps" /\ c.upto = 0
      <3>1. p' = p /\ UNCHANGED <<maps, cur>>
        BY <2>1, <2>3, <2>10, OverwrittenNone
      <3>2. /\ ~Queued("load") /\ spoiled # "maps" /\ spoiled' # "no"
            /\ spoiled' = "list" <=> spoiled = "list"
        BY <2>1, <2>10
      <3>3. cmds' = cmds
        BY <1>1, <2>10 DEF asked, Readable
      <3>4. ~Queued("load")' /\ Settled' /\ Settled
        BY <2>10, <3>2, <3>3 DEF Queued, Settled, Reading
      <3>5. WorldKnown' /\ PlacesKnown' /\ LandmarkKnown' /\ SlotsKnown' /\ CounterKnown'
        BY <1>1, <2>4, <3>1, <3>2, <3>3, <3>4
           DEF IInv, WorldKnown, PlacesKnown, LandmarkKnown, SlotsKnown, CounterKnown, Running
      <3>6. FlagMeansLoad'
        BY <3>2 DEF FlagMeansLoad
      <3>7. \A m \in SaveName : <<"load", m>> \notin Range(cmds')
        BY <3>2, <3>3, QueuedRange
      <3>8. LoadPending'
        BY <3>7 DEF LoadPending
      <3> QED BY <1>2, <2>6, <2>8, <3>5, <3>6, <3>8 DEF IInv
    <2>11. CASE spoiled' # "maps" /\ c.upto # 0
      <3>1. ~Queued("load") /\ asked /\ spoiled' = c.bad /\ c.bad # "maps"
        BY <2>1, <2>11
      <3>2. CoopFileOK(n, c)
        BY DEF IInv, FilesKnown, FileOK, c
      <3>3. c.upto \in 7..8 /\ LastAutosave(c.p)
        BY <1>5, <2>2, <3>1, <3>2 DEF CoopFileOK
      <3>4. p' = c.p /\ maps' = c.maps /\ cur' = NoMap
        BY <2>1, <2>2, <2>3, <3>3, OverwrittenWhole
      <3>5. Range(cmds') = Range(cmds) \cup {l} /\ Queued("load")'
        BY <1>1, <1>3, <3>1, CommandQueued DEF IInv
      <3>6. Reading'
        BY <2>4, <3>5 DEF Reading
      <3>7. WorldKnown' /\ PlacesKnown' /\ LandmarkKnown' /\ SlotsKnown' /\ FlagMeansLoad'
        BY <3>5, <3>6 DEF WorldKnown, PlacesKnown, LandmarkKnown, SlotsKnown, Settled, FlagMeansLoad
      <3>8. CounterKnown'
        BY <3>3, <3>4 DEF CounterKnown
      <3>9. \A m \in SaveName : <<"load", m>> \in Range(cmds') => m = n
        <4>1. \A m \in SaveName : <<"load", m>> \notin Range(cmds)
          BY <3>1, QueuedRange
        <4> QED BY <3>5, <4>1 DEF l
      <3>10. ReadFrom(file[n])'
        BY <1>1, <1>5, <3>1, <3>4 DEF ReadFrom, c
      <3>11. LoadPending'
        BY <3>4, <3>9, <3>10 DEF LoadPending
      <3> QED BY <1>2, <2>6, <2>8, <3>7, <3>8, <3>11 DEF IInv
    <2> QED BY <2>9, <2>10, <2>11
  <1> QED BY <1>4, <1>5

\* An activation that is ignored spoils the game.
LEMMA IgnoredOK ==
  ASSUME IInv, NEW d \in Map, NEW f, FewerFiles(f), NEW slot, FewerSlots(slot),
         NEW again \in BOOLEAN, ServerActivate(d, f, slot, TRUE, again),
         cmds' \in Seq(Command), SavesQueued(cmds'),
         level' = d, events' \in 0..MaxEvents, spoiled' = "maps"
  PROVE  IInv'
  <1>1. /\ FewerFiles(file') /\ p' \in Persist /\ IsOffsets(maps') /\ cur' \in Map \cup {NoMap}
        /\ tr' \in Transition /\ dup' \in BOOLEAN
    BY ActivateTypes DEF IInv
  <1>2. TypeOK'
    BY <1>1, FewerFilesType DEF IInv, TypeOK, IsFiles, IsFile, IsOffsets, Command
  <1>3. FilesKnown'
    BY <1>1, FewerFilesKnown DEF IInv
  <1> QED BY <1>2, <1>3, SpoiledOK

\* Reading a map that begins a unit: the slots that stay are on disk, if they were, or have a save
\* queued behind the change of level.
LEMMA MapRead ==
  ASSUME IInv, NEW d \in Map, NEW fresh \in BOOLEAN,
         NEW f, f = IF fresh /\ d \in NewUnit THEN ClearSaves(tr.src, file) ELSE file,
         NEW slot, slot = IF fresh /\ d \in NewUnit THEN CheckSaveSlots(p.slot, f) ELSE p.slot,
         NEW left
  PROVE  /\ FewerFiles(f) /\ FewerSlots(slot)
         /\ Settled /\ (\A n : <<"save", n>> \in Range(cmds) => <<"save", n>> \in Range(left)) =>
              \A s \in Slot : SlotKnown(slot[s], f, left)
  <1>1. FewerFiles(file) /\ FewerSlots(p.slot)
    BY DEF IInv, TypeOK, FewerFiles, FewerSlots, Persist, SlotType
  <1>2. FewerFiles(f) /\ FewerSlots(slot)
    BY <1>1, ClearSavesFewer, CheckSaveSlotsFewer
  <1>3. ASSUME Settled, \A n : <<"save", n>> \in Range(cmds) => <<"save", n>> \in Range(left),
               NEW s \in Slot
        PROVE  SlotKnown(slot[s], f, left)
    <2>1. CASE fresh /\ d \in NewUnit
      BY <1>1, <1>3, <2>1, CheckSaveSlotsFewer DEF SlotKnown
    <2>2. CASE ~(fresh /\ d \in NewUnit)
      BY <1>3, <2>2 DEF IInv, SlotsKnown, SlotKnown
    <2> QED BY <2>1, <2>2
  <1> QED BY <1>2, <1>3

\* Going on by a landmark from a game that is not spoiled: the maps are rebased, and the position
\* of the player at the trigger is where players spawn.
LEMMA GoesOnByTrigger ==
  ASSUME IInv, NEW d \in Map, NEW f, NEW slot, NEW again, ServerActivate(d, f, slot, FALSE, again),
         Settled, ~tr.fLoading, GoesOn(d)
  PROVE  maps' = Rebased(d) /\ OffsetsRelative(maps', d) /\ SavedKnown(p', maps')
  <1>1. tr.spot # NoMark /\ Running
    BY DEF GoesOn, IInv, LandmarkKnown
  <1>2. maps' = Rebased(d)
    BY DEF ServerActivate
  <1>3. OffsetsRelative(maps', d)
    BY <1>1, <1>2, RebasedAgrees DEF IInv
  <1>4. p'.saved = tr.pos
    BY DEF ServerActivate, IInv, TypeOK, Persist
  <1>5. DOMAIN maps' = DOMAIN maps \cup {d}
    BY <1>2 DEF Rebased
  <1> QED BY <1>2, <1>3, <1>4, <1>5 DEF IInv, PlacesKnown, SavedKnown

\* A change of level: by the landmark or to a new game.
LEMMA ExecChangeLevelOK ==
  ASSUME IInv, NEW near \in BOOLEAN, NEW fresh \in BOOLEAN, ExecChangeLevel(near, fresh)
  PROVE  IInv'
  <1> DEFINE d == Head(cmds)[2]
             f == IF fresh /\ d \in NewUnit THEN ClearSaves(tr.src, file) ELSE file
             slot == IF fresh /\ d \in NewUnit THEN CheckSaveSlots(p.slot, f) ELSE p.slot
             ignored == dup /\ near
             left == Tail(cmds)
             right == ~tr.fLoading /\ spoiled # "maps"
  <1>1. /\ Running /\ cmds # <<>> /\ Head(cmds)[1] = "changelevel"
        /\ ServerActivate(d, f, slot, ignored, FALSE)
        /\ cmds' = left \o StartSave(d, slot, ignored)
        /\ level' = d /\ spoiled' = Spoiled(d, ignored, right)
        /\ events' = events
    BY DEF ExecChangeLevel
  <1>2. /\ Head(cmds) \in Command /\ left \in Seq(Command)
        /\ Range(cmds) = {Head(cmds)} \cup Range(left)
    BY <1>1, CommandsTyped, TailCommands DEF IInv
  <1>3. d \in Map
    BY <1>1, <1>2 DEF Command
  <1>4. SavesQueued(left) /\ \A n : <<"save", n>> \in Range(cmds) => <<"save", n>> \in Range(left)
    BY <1>1, <1>2 DEF IInv, SavesQueued
  <1>5. ignored \in BOOLEAN /\ events' \in 0..MaxEvents
    BY <1>1 DEF IInv, TypeOK
  <1> HIDE DEF d, left
  <1>6. /\ FewerFiles(f) /\ FewerSlots(slot)
        /\ Settled => \A s \in Slot : SlotKnown(slot[s], f, left)
    BY <1>3, <1>4, MapRead
  <1> HIDE DEF f, slot, ignored
  <1>7. cmds' \in Seq(Command) /\ SavesQueued(cmds')
    BY <1>1, <1>2, <1>3, <1>4, StartSaveCommands
  <1>8. CASE ignored
    <2>1. spoiled' = "maps" /\ ServerActivate(d, f, slot, TRUE, FALSE)
      BY <1>1, <1>5, <1>8 DEF Spoiled
    <2> QED BY <1>1, <1>3, <1>5, <1>6, <1>7, <2>1, IgnoredOK
  <1>9. CASE ~ignored
    <2>1. /\ ServerActivate(d, f, slot, FALSE, FALSE) /\ cmds' = left \o StartSave(d, slot, FALSE)
          /\ spoiled' = Spoiled(d, FALSE, right)
      BY <1>1, <1>5, <1>9
    <2>2. spoiled' \in {"no", "list", "maps"}
      BY <2>1 DEF Spoiled
    <2>3. ASSUME spoiled' # "maps", GoesOn(d)
          PROVE  /\ OffsetsRelative(maps', d) /\ spoiled # "maps" /\ SavedKnown(p', maps')
                 /\ \A s \in Slot : SlotKnown(slot[s], f, left)
      <3>1. ~tr.fLoading /\ Settled
        BY <2>1, <2>3 DEF Spoiled, Settled, Reading
      <3> QED BY <1>3, <1>6, <2>1, <2>3, <3>1, GoesOnByTrigger DEF Settled
    <2> QED BY <1>1, <1>2, <1>3, <1>4, <1>5, <1>6, <2>1, <2>2, <2>3, ActivatedOK
  <1> QED BY <1>8, <1>9

\* What the engine loads is what was read, unless it says otherwise.
LEMMA LoadedAgrees ==
  ASSUME IInv, NEW n \in SaveName, <<"load", n>> \in Range(cmds), tr.fLoading, spoiled # "maps",
         file[n].sav # NoMap, file[n].coop.bad # "maps"
  PROVE  LET c == file[n].coop IN
         /\ c # NoFile /\ maps = c.maps /\ p.saved = c.p.saved /\ p.last = c.p.last
         /\ AroundMap(maps, n[2]) /\ c.upto \in 7..8
         /\ c.upto = 8 => n[2] \in DOMAIN maps
         /\ spoiled # "list" => SavedKnown(p, maps)
  <1> DEFINE c == file[n].coop
  <1>1. /\ c # NoFile /\ maps = c.maps /\ p.saved = c.p.saved /\ p.last = c.p.last
        /\ c.bad = "list" => spoiled = "list"
    BY DEF IInv, LoadPending, ReadFrom
  <1>2. c.bad \in {"no", "list", "maps"} /\ c.upto \in 0..8
    BY <1>1, CoopType DEF IInv
  <1>3. CoopFileOK(n, c)
    BY DEF IInv, FilesKnown, FileOK
  <1> HIDE DEF c
  <1>4. c.bad # "maps"
    BY DEF c
  <1> QED BY <1>1, <1>2, <1>3, <1>4 DEF CoopFileOK, SavedKnown, c

\* The engine loads, or refuses to.
LEMMA ExecLoadOK ==
  ASSUME IInv, NEW near \in BOOLEAN, NEW twice \in BOOLEAN, ExecLoad(near, twice)
  PROVE  IInv'
  <1> DEFINE n == Head(cmds)[2]
             d == file[n].sav
             ignored == dup /\ near /\ ~twice
             again == twice /\ ~(dup /\ near)
             left == Tail(cmds)
             right == spoiled # "maps" /\ (tr.fLoading => file[n].coop.bad # "maps" /\ d = n[2])
  <1>1. /\ cmds # <<>> /\ Head(cmds)[1] = "load" /\ events' = events
        /\ IF d = NoMap
           THEN /\ spoiled' = "maps" /\ cmds' = left
                /\ UNCHANGED <<file, p, maps, cur, tr, dup, level>>
           ELSE /\ ServerActivate(d, file, p.slot, ignored, again)
                /\ cmds' = left \o StartSave(d, p.slot, ignored)
                /\ level' = d
                /\ spoiled' = Spoiled(d, ignored, right)
    BY DEF ExecLoad
  <1>2. /\ Head(cmds) \in Command /\ left \in Seq(Command)
        /\ Range(cmds) = {Head(cmds)} \cup Range(left)
    BY <1>1, CommandsTyped, TailCommands DEF IInv
  <1>3. n \in SaveName /\ Head(cmds) = <<"load", n>> /\ <<"load", n>> \in Range(cmds)
    BY <1>1, <1>2 DEF Command
  <1>4. SavesQueued(left) /\ \A m : <<"save", m>> \in Range(cmds) => <<"save", m>> \in Range(left)
    BY <1>1, <1>2 DEF IInv, SavesQueued
  <1>5. d \in Map \cup {NoMap} /\ again \in BOOLEAN /\ ignored \in BOOLEAN /\ events' \in 0..MaxEvents
    BY <1>1, <1>3 DEF IInv, TypeOK, File
  <1> HIDE DEF n, left
  <1>6. CASE d = NoMap
    <2>1. /\ spoiled' = "maps" /\ cmds' = left /\ UNCHANGED <<file, p, maps, cur, tr, dup, level>>
      BY <1>1, <1>6
    <2>2. TypeOK'
      BY <1>2, <1>5, <2>1 DEF IInv, TypeOK, Command
    <2>3. FilesKnown' /\ SavesQueued(cmds')
      BY <1>4, <2>1 DEF IInv, FilesKnown
    <2> QED BY <2>1, <2>2, <2>3, SpoiledOK
  <1>7. CASE d # NoMap
    <2>1. /\ d \in Map
          /\ ServerActivate(d, file, p.slot, ignored, again)
          /\ cmds' = left \o StartSave(d, p.slot, ignored)
          /\ level' = d
          /\ spoiled' = Spoiled(d, ignored, right)
      BY <1>1, <1>5, <1>7
    <2>2. FewerFiles(file) /\ FewerSlots(p.slot)
      BY DEF IInv, TypeOK, FewerFiles, FewerSlots, Persist, SlotType
    <2>3. tr.fLoading /\ right =>
            /\ d = n[2] /\ AroundMap(maps, d) /\ spoiled # "maps"
            /\ spoiled # "list" => SavedKnown(p, maps)
      BY <1>3, <1>7, LoadedAgrees
    <2>4. right => spoiled # "maps"
      OBVIOUS
    <2> HIDE DEF d, again, ignored, right
    <2>5. cmds' \in Seq(Command) /\ SavesQueued(cmds')
      BY <1>2, <1>4, <2>1, StartSaveCommands
    <2>6. CASE ignored
      <3>1. spoiled' = "maps" /\ ServerActivate(d, file, p.slot, TRUE, again)
        BY <1>5, <2>1, <2>6 DEF Spoiled
      <3> QED BY <1>5, <2>1, <2>2, <2>5, <3>1, IgnoredOK
    <2>7. CASE ~ignored
      <3>1. /\ ServerActivate(d, file, p.slot, FALSE, again) /\ cmds' = left \o StartSave(d, p.slot, FALSE)
            /\ spoiled' = Spoiled(d, FALSE, right)
        BY <1>5, <2>1, <2>7
      <3>2. spoiled' \in {"no", "list", "maps"}
        BY <3>1 DEF Spoiled
      <3>3. ASSUME spoiled' # "maps", GoesOn(d)
            PROVE  /\ OffsetsRelative(maps', d) /\ spoiled # "maps"
                   /\ spoiled' # "list" => SavedKnown(p', maps')
                   /\ tr.fLoading \/ \A s \in Slot : SlotKnown(p.slot[s], file, left)
        <4>1. right
          BY <3>1, <3>3 DEF Spoiled
        <4>2. CASE tr.fLoading
          <5>1. maps' = maps /\ d \in DOMAIN maps
            BY <3>1, <3>3, <4>2 DEF ServerActivate, GoesOn
          <5>2. p'.saved = p.saved
            BY <3>1, <3>3, <4>2 DEF ServerActivate, IInv, TypeOK, Persist
          <5>3. spoiled' # "list" => spoiled # "list"
            BY <3>1, <3>3, <4>1, <4>2 DEF Spoiled
          <5> QED BY <2>3, <4>1, <4>2, <5>1, <5>2, <5>3 DEF SavedKnown, AroundMap, OffsetsRelative
        <4>3. CASE ~tr.fLoading
          <5>1. Settled
            BY <2>4, <4>1, <4>3 DEF Settled, Reading
          <5>2. \A s \in Slot : SlotKnown(p.slot[s], file, left)
            BY <1>4, <5>1 DEF IInv, SlotsKnown, SlotKnown
          <5> QED BY <2>1, <2>4, <3>1, <3>3, <4>1, <4>3, <5>1, <5>2, GoesOnByTrigger
        <4> QED BY <4>2, <4>3
      <3> QED BY <1>2, <1>4, <1>5, <2>1, <2>2, <3>1, <3>2, <3>3, ActivatedOK
    <2> QED BY <2>6, <2>7
  <1> QED BY <1>6, <1>7

\* A stopped server is started: what the game remembers of a load fits no level.
LEMMA StartOK ==
  ASSUME IInv, NEW d \in Map, NEW fresh \in BOOLEAN, Start(d, fresh)
  PROVE  IInv'
  <1> DEFINE f == IF fresh /\ d \in NewUnit THEN ClearSaves(tr.src, file) ELSE file
             slot == IF fresh /\ d \in NewUnit THEN CheckSaveSlots(p.slot, f) ELSE p.slot
  <1>1. /\ cmds' = StartSave(d, slot, FALSE) /\ level' = d /\ events' \in 0..MaxEvents
        /\ ServerActivate(d, f, slot, FALSE, FALSE) /\ spoiled' = Spoiled(d, FALSE, FALSE)
    <2>1. events' \in 0..MaxEvents
      BY TransitionAssumption DEF Start, Event, IInv, TypeOK
    <2> QED BY <2>1 DEF Start
  <1>2. FewerFiles(f) /\ FewerSlots(slot)
    BY MapRead
  <1> HIDE DEF f, slot
  <1>3. <<>> \in Seq(Command) /\ SavesQueued(<<>>)
    BY EmptySeq DEF Range, SavesQueued
  <1>4. cmds' = <<>> \o StartSave(d, slot, FALSE)
    <2>1. <<"save", <<"start", d>>>> \in Command
      BY DEF Command, SaveName
    <2>2. StartSave(d, slot, FALSE) \in Seq(Command)
      BY <2>1 DEF StartSave
    <2> QED BY <1>1, <2>2, ConcatEmptySeq
  <1>5. spoiled' \in {"no", "list", "maps"} /\ (GoesOn(d) => spoiled' = "maps")
    BY <1>1 DEF Spoiled
  <1> QED BY <1>1, <1>2, <1>3, <1>4, <1>5, ActivatedOK

\* The process ends, with the files as they are.
LEMMA CrashOK ==
  ASSUME IInv, Crash
  PROVE  IInv'
  <1>1. IsFiles(file') /\ FilesKnown' /\ events' \in 0..MaxEvents
    BY TransitionAssumption DEF Crash, Stopped, Event, IInv, TypeOK, IsFiles, IsFile, FilesKnown
  <1> QED BY <1>1, StoppedOK DEF Crash, Stopped

\* The process ends in a save: the coop state is the one that was there, or cut short.
LEMMA CrashInSaveOK ==
  ASSUME IInv, NEW n \in SaveName, NEW q \in {p, AutoPersist}, NEW accepted \in BOOLEAN,
         CrashInSave(n, q, accepted)
  PROVE  IInv'
  <1> DEFINE w == Saved(n, q, accepted)
             y == [file[n] EXCEPT !.sav = w.sav]
  <1>1. Running /\ level \in Map /\ events' \in 0..MaxEvents
    <2>1. Stopped
      BY DEF CrashInSave
    <2> QED BY <2>1, TransitionAssumption DEF Stopped, Event, IInv, TypeOK, Running
  <1>2. /\ q \in Persist /\ q.saved = p.saved /\ (spoiled # "maps" => LastAutosave(q))
        /\ n[1] # "start" => n[2] = level
    <2>1. CASE q = AutoPersist /\ n = q.slot["AUTO1"]
      BY <1>1, <2>1, AutoPersistOK
    <2>2. CASE q = p /\ cmds # <<>> /\ Head(cmds) = <<"save", n>>
      <3>1. Head(cmds)[1] = "save" /\ Head(cmds)[2] = n
        BY <2>2
      <3>2. n[1] = "start"
        BY <2>2, <3>1, HeadSave
      <3> QED BY <2>2, <3>2 DEF IInv, TypeOK, CounterKnown
    <2> QED BY <2>1, <2>2 DEF CrashInSave, Saving
  <1>3. /\ IsFile(w) /\ FileOK(n, w) /\ w.coop = Whole(n, q)
        /\ w.sav \in Map \cup {NoMap} /\ (n[1] # "start" => w.sav \in {NoMap, n[2]})
    BY <1>1, <1>2, SaveWritten
  <1>4. w = [sav |-> w.sav, players |-> w.players, coop |-> w.coop] /\ w.players \in BOOLEAN
    BY DEF Saved
  <1>5. PICK N \in SUBSET Map : file[n] \in File(N)
    BY DEF IInv, TypeOK
  <1>6. CoopFileOK(n, file[n].coop)
    BY DEF IInv, FilesKnown, FileOK
  <1> HIDE DEF w
  <1>7. /\ file[n] = [sav |-> file[n].sav, players |-> file[n].players, coop |-> file[n].coop]
        /\ file[n].players \in BOOLEAN /\ file[n].coop \in {NoFile} \cup CoopFile(N)
    BY <1>5 DEF File
  <1>8. ASSUME NEW any \in BOOLEAN, NEW x, x = [sav |-> w.sav, players |-> any, coop |-> file[n].coop],
               file' = [file EXCEPT ![n] = x]
        PROVE  IsFiles(file') /\ FilesKnown'
    <2>1. IsFile(x) /\ FileOK(n, x)
      BY <1>3, <1>6, <1>7, <1>8 DEF IsFile, File, FileOK
    <2> QED BY <1>8, <2>1, FileReplaced
  <1>9. ASSUME NEW upto \in 0..7, NEW M \in SUBSET DOMAIN maps,
               NEW x, x = [w EXCEPT !.coop = Cut(w.coop, upto, M)],
               file' = [file EXCEPT ![n] = x]
        PROVE  IsFiles(file') /\ FilesKnown'
    <2> DEFINE c == Cut(w.coop, upto, M)
    <2>1. CoopFileOK(n, c) /\ \E K \in SUBSET Map : c \in CoopFile(K)
      BY <1>1, <1>2, <1>3, CutOK
    <2> HIDE DEF c
    <2>2. x = [sav |-> w.sav, players |-> w.players, coop |-> c]
      BY <1>4, <1>9 DEF c
    <2>3. IsFile(x) /\ FileOK(n, x)
      BY <1>3, <1>4, <2>1, <2>2 DEF IsFile, File, FileOK
    <2> QED BY <1>9, <2>3, FileReplaced
  <1>10. IsFiles(file') /\ FilesKnown'
    <2>1. CASE file' = [file EXCEPT ![n].sav = w.sav]
      <3>1. file' = [file EXCEPT ![n] = [sav |-> w.sav, players |-> file[n].players, coop |-> file[n].coop]]
        <4> DEFINE g == file[n]
        <4>1. file' = [file EXCEPT ![n] = [g EXCEPT !.sav = w.sav]]
          BY <2>1
        <4>2. g = [sav |-> g.sav, players |-> g.players, coop |-> g.coop]
          BY <1>7
        <4> HIDE DEF g
        <4>3. [g EXCEPT !.sav = w.sav] = [sav |-> w.sav, players |-> g.players, coop |-> g.coop]
          BY <4>2
        <4> QED BY <4>1, <4>3 DEF g
      <3> QED BY <1>7, <1>8, <3>1
    <2>2. ASSUME NEW any \in BOOLEAN, file' = [file EXCEPT ![n] = [sav |-> w.sav, players |-> any, coop |-> @.coop]]
          PROVE  IsFiles(file') /\ FilesKnown'
      <3>1. file' = [file EXCEPT ![n] = [sav |-> w.sav, players |-> any, coop |-> file[n].coop]]
        BY <2>2
      <3> QED BY <1>8, <3>1
    <2>3. ASSUME NEW upto \in 0..6,
                 file' = [file EXCEPT ![n] = [w EXCEPT !.coop = Cut(w.coop, upto, {})]]
          PROVE  IsFiles(file') /\ FilesKnown'
      <3>1. upto \in 0..7 /\ {} \in SUBSET DOMAIN maps
        OBVIOUS
      <3> QED BY <1>9, <2>3, <3>1
    <2>4. ASSUME NEW M \in SUBSET DOMAIN maps,
                 file' = [file EXCEPT ![n] = [w EXCEPT !.coop = Cut(w.coop, 7, M)]]
          PROVE  IsFiles(file') /\ FilesKnown'
      <3>1. 7 \in 0..7
        OBVIOUS
      <3> QED BY <1>9, <2>4, <3>1
    <2> QED BY <2>1, <2>2, <2>3, <2>4 DEF CrashInSave, w
  <1> QED BY <1>1, <1>10, StoppedOK DEF CrashInSave, Stopped
-----------------------------------------------------------------------------
(* The theorems. *)

\* The invariant holds before the server is started.
LEMMA InitIInv == Init => IInv
  <1> SUFFICES ASSUME Init PROVE IInv
    OBVIOUS
  <1>1. /\ p = NewPersist /\ maps = <<>> /\ cur = NoMap /\ tr = NoTransition /\ dup = FALSE
        /\ level = NoMap /\ cmds = <<>> /\ spoiled = "no" /\ events = 0
        /\ file = [n \in SaveName |-> NoFiles]
    BY DEF Init
  <1>2. IsFiles(file) /\ FilesKnown
    BY <1>1, NewTypes DEF IsFiles, FilesKnown, FileOK, CoopFileOK, NoFiles
  <1>3. /\ tr.fLoading = FALSE /\ tr.pos = NoMap /\ tr.spot = NoMark /\ p.saved = NoMap
        /\ \A s \in Slot : p.slot[s] = NoName
    BY <1>1 DEF NoTransition, NewPersist
  <1>4. DOMAIN cmds = {} /\ Range(cmds) = {} /\ cmds \in Seq(Command) /\ ~Running
    BY <1>1 DEF Range, Running
  <1>5. TypeOK
    <2>1. p \in Persist /\ IsOffsets(maps) /\ tr \in Transition
      BY <1>1, NewTypes
    <2>2. events \in 0..MaxEvents
      BY <1>1, TransitionAssumption
    <2>3. /\ cur \in Map \cup {NoMap} /\ level \in Map \cup {NoMap} /\ dup \in BOOLEAN
          /\ spoiled \in {"no", "flag", "list", "maps"}
      BY <1>1
    <2> QED BY <1>2, <1>4, <2>1, <2>2, <2>3 DEF TypeOK, IsFiles, IsFile, IsOffsets, Command
  <1>6. SavesQueued(cmds) /\ LoadPending /\ FlagMeansLoad
    BY <1>3, <1>4 DEF SavesQueued, LoadPending, FlagMeansLoad
  <1>7. WorldKnown /\ PlacesKnown /\ LandmarkKnown
    BY <1>3, <1>4 DEF WorldKnown, PlacesKnown, LandmarkKnown, SavedKnown
  <1>8. SlotsKnown /\ CounterKnown
    BY <1>1, <1>3, NewTypes DEF SlotsKnown, SlotKnown, CounterKnown
  <1> QED BY <1>2, <1>5, <1>6, <1>7, <1>8 DEF IInv

\* Every step keeps the invariant.
LEMMA NextIInv == IInv /\ [Next]_vars => IInv'
  <1> SUFFICES ASSUME IInv, [Next]_vars PROVE IInv'
    OBVIOUS
  <1>1. ASSUME NEW t \in Trigger, NEW someone \in BOOLEAN, UseTrigger(t, someone) PROVE IInv'
    BY <1>1, UseTriggerOK
  <1>2. ASSUME NEW d \in Map, ChangeLevel(d) PROVE IInv'
    BY <1>2, ChangeLevelOK
  <1>3. CASE PlayerSpawn
    BY <1>3, PlayerSpawnOK
  <1>4. ASSUME NEW accepted \in BOOLEAN, AutoSave(accepted) \/ ExecSave(accepted) PROVE IInv'
    BY <1>4, AutoSaveOK, ExecSaveOK
  <1>5. CASE EndSectionUse
    BY <1>5, EndSectionUseOK
  <1>6. ASSUME NEW n \in SaveName, GGM_Load(n) PROVE IInv'
    BY <1>6, GGM_LoadOK
  <1>7. ASSUME NEW near \in BOOLEAN, NEW fresh \in BOOLEAN, ExecChangeLevel(near, fresh) PROVE IInv'
    BY <1>7, ExecChangeLevelOK
  <1>8. ASSUME NEW near \in BOOLEAN, NEW twice \in BOOLEAN, ExecLoad(near, twice) PROVE IInv'
    BY <1>8, ExecLoadOK
  <1>9. ASSUME NEW d \in Map, NEW fresh \in BOOLEAN, Start(d, fresh) PROVE IInv'
    BY <1>9, StartOK
  <1>10. CASE Crash
    BY <1>10, CrashOK
  <1>11. ASSUME NEW n \in SaveName, NEW q \in {p, AutoPersist}, NEW accepted \in BOOLEAN,
                CrashInSave(n, q, accepted)
         PROVE  IInv'
    BY <1>11, CrashInSaveOK
  <1>12. CASE UNCHANGED vars
    BY <1>12 DEF vars, IInv, TypeOK, SavesQueued, WorldKnown, PlacesKnown, LandmarkKnown, LoadPending,
       ReadFrom, FilesKnown, SlotsKnown, CounterKnown, FlagMeansLoad, Queued, Running, Settled, Reading
  <1> QED BY <1>1, <1>2, <1>3, <1>4, <1>5, <1>6, <1>7, <1>8, <1>9, <1>10, <1>11, <1>12 DEF Next

\* The inductive invariant holds in every state.
LEMMA IInvAlways == Spec => []IInv
  BY InitIInv, NextIInv, PTL DEF Spec

\* Type correctness: among the rest, what is queued are commands with their arguments, and a file
\* holds the offsets of maps that exist.
THEOREM TypeCorrect == Spec => []TypeOK
  <1>1. IInv => TypeOK
    BY DEF IInv
  <1> QED BY <1>1, IInvAlways, PTL

\* However the game came to its level - by landmarks, round and back, by a load, after a crash -
\* every visited map is where it is in the world, unless a load has spoiled the game.
THEOREM WorldAlwaysAgrees == Spec => []WorldAgrees
  <1>1. IInv => WorldAgrees
    BY DEF IInv, WorldKnown, WorldAgrees, Settled, Reading
  <1> QED BY <1>1, IInvAlways, PTL

\* The maps that a save on disk lists are where it says, also after a crash in a save, unless the
\* game that made it was spoiled.
THEOREM SavesAlwaysAgree == Spec => []SavesAgree
  <1>1. ASSUME IInv, NEW n \in SaveName
        PROVE  LET f == file[n].coop IN
               /\ n[1] # "start" => file[n].sav \in {NoMap, n[2]}
               /\ f # NoFile => f.upto < 7 \/ f.bad = "maps"
                    \/ /\ \A m \in DOMAIN f.maps : f.maps[m] = Origin[m] - Origin[n[2]]
                       /\ f.upto = 8 => n[2] \in DOMAIN f.maps
    BY <1>1 DEF IInv, FilesKnown, FileOK, CoopFileOK, AroundMap
  <1>2. IInv => SavesAgree
    BY <1>1 DEF SavesAgree
  <1> QED BY <1>2, IInvAlways, PTL

\* Players wait for a load only while there is one to wait for, or one failed.
THEOREM FlagAlwaysMeansLoad == Spec => []FlagMeansLoad
  <1>1. IInv => FlagMeansLoad
    BY DEF IInv
  <1> QED BY <1>1, IInvAlways, PTL

\* What voteload offers is on disk or is about to be saved.
THEOREM SlotsAreOnDisk == Spec => []SlotsOnDisk
  <1>1. IInv => SlotsOnDisk
    BY DEF IInv, SlotsKnown, SlotKnown, SlotsOnDisk, Settled, Reading, Range
  <1> QED BY <1>1, IInvAlways, PTL

\* The map whose position new players get is one whose offset is known.
THEOREM SpawnPlaceIsKnown == Spec => []SpawnPlaceKnown
  <1>1. IInv => SpawnPlaceKnown
    BY DEF IInv, PlacesKnown, SavedKnown, SpawnPlaceKnown, Settled, Reading
  <1> QED BY <1>1, IInvAlways, PTL

-----------------------------------------------------------------------------
(* What a step does, in every state the invariant allows. *)

\* A slot that stays across the reading of a map was of a save that is still there.
LEMMA CheckedSlotKept ==
  ASSUME IInv, NEW f, FewerFiles(f), NEW n \in SaveName, NEW s \in Slot,
         CheckSaveSlots(p.slot, f)[s] = n
  PROVE  f[n] = file[n]
  <1>1. FewerSlots(p.slot)
    BY DEF IInv, TypeOK, FewerSlots, Persist, SlotType
  <1>2. f[n].coop # NoFile
    BY <1>1, CheckSaveSlotsFewer, TransitionAssumption
  <1> QED BY <1>2 DEF FewerFiles, NoFiles

\* An activation does not touch the save that the second autosave slot keeps.
LEMMA ActivateKeepsAutosave ==
  ASSUME IInv, NEW d \in Map, NEW f, FewerFiles(f), NEW slot, FewerSlots(slot),
         NEW ignored \in BOOLEAN, NEW again \in BOOLEAN,
         ServerActivate(d, f, slot, ignored, again),
         NEW n \in SaveName, slot["AUTO2"] = n => f[n] = file[n], p'.slot["AUTO2"] = n
  PROVE  file'[n] = file[n]
  <1>1. n # NoName /\ p \in Persist /\ slot \in SlotType /\ NewPersist.slot \in SlotType
        /\ NewPersist.slot["AUTO2"] = NoName
    BY NewTypes, TransitionAssumption DEF IInv, TypeOK, FewerSlots, NewPersist, Slot, SlotType
  <1>2. CASE ignored
    BY <1>1, <1>2 DEF ServerActivate, Persist
  <1>3. CASE ~ignored /\ ~GoesOn(d)
    <2>1. p' = IF tr.fLoading THEN NewPersist
               ELSE [NewPersist EXCEPT !.slot = StartSlots(NewPersist.slot, d)]
      BY <1>3 DEF ServerActivate, Renewed
    <2>2. p'.slot["AUTO2"] = NoName
      BY <1>1, <2>1, StartSlotsType DEF NewPersist
    <2> QED BY <1>1, <2>2
  <1>4. CASE ~ignored /\ GoesOn(d)
    <2>1. file' = f
      BY <1>4 DEF ServerActivate
    <2>2. slot["AUTO2"] = n
      <3>1. CASE tr.fLoading
        <4>1. p'.slot = CheckSaveSlots(slot, f)
          BY <1>1, <1>4, <3>1 DEF ServerActivate, Persist
        <4> QED BY <1>1, <4>1 DEF CheckSaveSlots, Slot
      <3>2. CASE ~tr.fLoading
        <4>1. p'.slot = StartSlots(slot, d)
          BY <1>1, <1>4, <3>2 DEF ServerActivate, Persist
        <4> QED BY <1>1, <4>1, StartSlotsType
      <3> QED BY <3>1, <3>2
    <2> QED BY <2>1, <2>2
  <1> QED BY <1>2, <1>3, <1>4

\* The slots that reading a map leaves are of saves it leaves.
LEMMA MapReadKeeps ==
  ASSUME IInv, NEW d \in Map, NEW fresh \in BOOLEAN,
         NEW f, f = IF fresh /\ d \in NewUnit THEN ClearSaves(tr.src, file) ELSE file,
         NEW slot, slot = IF fresh /\ d \in NewUnit THEN CheckSaveSlots(p.slot, f) ELSE p.slot,
         NEW n \in SaveName, slot["AUTO2"] = n
  PROVE  f[n] = file[n]
  <1>1. FewerFiles(f)
    BY MapRead
  <1>2. CASE fresh /\ d \in NewUnit
    BY <1>1, <1>2, CheckedSlotKept DEF Slot
  <1>3. CASE ~(fresh /\ d \in NewUnit)
    BY <1>3
  <1> QED BY <1>2, <1>3

\* An autosave keeps the one before it: the counter alternates their names.
LEMMA AutoSaveKeeps ==
  ASSUME IInv, NEW accepted \in BOOLEAN, AutoSave(accepted), spoiled # "maps",
         NEW n \in SaveName, p.slot["AUTO1"] = n, p'.slot["AUTO2"] = n
  PROVE  file'[n] = file[n]
  <1> DEFINE name == AutoPersist.slot["AUTO1"]
  <1>1. n # NoName /\ p.last \in {0, 1} /\ level \in Map
    BY TransitionAssumption DEF IInv, TypeOK, Persist, AutoSave, Running
  <1>2. PICK m \in Map : n = AutoName(p.last, m)
    BY <1>1 DEF IInv, CounterKnown, LastAutosave
  <1>3. name = AutoName(NextAuto(p.last), level)
    BY <1>1, AutoPersistOK
  <1>4. n # name
    BY <1>1, <1>2, <1>3 DEF AutoName, NextAuto
  <1>5. \E x : file' = [file EXCEPT ![name] = x]
    BY DEF AutoSave
  <1> HIDE DEF name
  <1> QED BY <1>4, <1>5 DEF IInv, TypeOK

\* A change of the slots that moves an autosave to the second slot leaves its file alone.
LEMMA StepKeepsAutosave ==
  ASSUME IInv, Next, NEW n \in SaveName, spoiled # "maps",
         p.slot["AUTO1"] = n, p'.slot["AUTO2"] = n, p'.slot # p.slot
  PROVE  file'[n] = file[n]
  <1>1. ASSUME NEW t \in Trigger, NEW someone \in BOOLEAN, UseTrigger(t, someone) PROVE FALSE
    BY <1>1 DEF UseTrigger
  <1>2. ASSUME NEW d \in Map, ChangeLevel(d) PROVE FALSE
    BY <1>2 DEF ChangeLevel, memory
  <1>3. CASE PlayerSpawn
    BY <1>3 DEF PlayerSpawn
  <1>4. ASSUME NEW accepted \in BOOLEAN, AutoSave(accepted) PROVE file'[n] = file[n]
    BY <1>4, AutoSaveKeeps
  <1>5. ASSUME NEW accepted \in BOOLEAN, ExecSave(accepted) PROVE FALSE
    BY <1>5 DEF ExecSave, memory
  <1>6. CASE EndSectionUse
    <2>1. file' = ClearSaves(tr.src, file) /\ p' = [p EXCEPT !.slot = CheckSaveSlots(p.slot, file')]
      BY <1>6 DEF EndSectionUse
    <2>2. FewerFiles(file')
      <3>1. FewerFiles(file)
        BY DEF IInv, TypeOK, FewerFiles
      <3> QED BY <2>1, <3>1, ClearSavesFewer
    <2>3. CheckSaveSlots(p.slot, file')["AUTO2"] = n
      BY <2>1 DEF IInv, TypeOK, Persist
    <2>4. "AUTO2" \in Slot
      BY DEF Slot
    <2> QED BY <2>2, <2>3, <2>4, CheckedSlotKept
  <1>7. ASSUME NEW m \in SaveName, GGM_Load(m) PROVE file'[n] = file[n]
    BY <1>7 DEF GGM_Load
  <1>8. ASSUME NEW near \in BOOLEAN, NEW fresh \in BOOLEAN, ExecChangeLevel(near, fresh)
        PROVE  file'[n] = file[n]
    <2> DEFINE d == Head(cmds)[2]
               f == IF fresh /\ d \in NewUnit THEN ClearSaves(tr.src, file) ELSE file
               slot == IF fresh /\ d \in NewUnit THEN CheckSaveSlots(p.slot, f) ELSE p.slot
               ignored == dup /\ near
    <2>1. cmds # <<>> /\ Head(cmds)[1] = "changelevel" /\ ServerActivate(d, f, slot, ignored, FALSE)
      BY <1>8 DEF ExecChangeLevel
    <2>2. Head(cmds) \in Command
      BY <2>1, CommandsTyped, TailCommands DEF IInv
    <2>3. d \in Map /\ ignored \in BOOLEAN
      BY <2>1, <2>2 DEF Command, IInv, TypeOK
    <2> HIDE DEF d
    <2>4. FewerFiles(f) /\ FewerSlots(slot) /\ (slot["AUTO2"] = n => f[n] = file[n])
      BY <2>3, MapRead, MapReadKeeps
    <2> HIDE DEF f, slot, ignored
    <2> QED BY <2>1, <2>3, <2>4, ActivateKeepsAutosave
  <1>9. ASSUME NEW near \in BOOLEAN, NEW twice \in BOOLEAN, ExecLoad(near, twice)
        PROVE  file'[n] = file[n]
    <2> DEFINE d == file[Head(cmds)[2]].sav
               ignored == dup /\ near /\ ~twice
               again == twice /\ ~(dup /\ near)
    <2>1. /\ cmds # <<>> /\ Head(cmds)[1] = "load"
          /\ \/ d = NoMap /\ file' = file
             \/ d # NoMap /\ ServerActivate(d, file, p.slot, ignored, again)
      BY <1>9 DEF ExecLoad
    <2>2. Head(cmds) \in Command
      BY <2>1, CommandsTyped, TailCommands DEF IInv
    <2>3. d \in Map \cup {NoMap} /\ ignored \in BOOLEAN /\ again \in BOOLEAN
      BY <2>1, <2>2 DEF Command, IInv, TypeOK, File
    <2>4. FewerFiles(file) /\ FewerSlots(p.slot)
      BY DEF IInv, TypeOK, FewerFiles, FewerSlots, Persist, SlotType
    <2> HIDE DEF d, ignored, again
    <2> QED BY <2>1, <2>3, <2>4, ActivateKeepsAutosave
  <1>10. ASSUME NEW d \in Map, NEW fresh \in BOOLEAN, Start(d, fresh) PROVE file'[n] = file[n]
    <2> DEFINE f == IF fresh /\ d \in NewUnit THEN ClearSaves(tr.src, file) ELSE file
               slot == IF fresh /\ d \in NewUnit THEN CheckSaveSlots(p.slot, f) ELSE p.slot
    <2>1. ServerActivate(d, f, slot, FALSE, FALSE)
      BY <1>10 DEF Start
    <2>2. FewerFiles(f) /\ FewerSlots(slot) /\ (slot["AUTO2"] = n => f[n] = file[n])
      BY MapRead, MapReadKeeps
    <2> HIDE DEF f, slot
    <2> QED BY <2>1, <2>2, ActivateKeepsAutosave
  <1>11. ASSUME Stopped PROVE FALSE
    <2>1. p'.slot["AUTO2"] = NoName
      BY <1>11 DEF Stopped, NewPersist, Slot
    <2> QED BY <2>1, TransitionAssumption
  <1> QED BY <1>1, <1>2, <1>3, <1>4, <1>5, <1>6, <1>7, <1>8, <1>9, <1>10, <1>11
         DEF Next, Crash, CrashInSave

\* COOP_AutoSave writes over the older of the two autosaves, never the one before it.
THEOREM AutosavesAlternate == Spec => PreviousAutosaveKept
  <1>1. IInv /\ [Next]_vars =>
          [\A n \in SaveName :
             /\ p.slot["AUTO1"] = n /\ p'.slot["AUTO2"] = n /\ p'.slot # p.slot
             /\ spoiled # "maps"
             => file'[n] = file[n]]_vars
    BY StepKeepsAutosave
  <1> QED BY <1>1, IInvAlways, PTL DEF Spec, PreviousAutosaveKept

\* What a change of level through a trigger does to the maps.
LEMMA TriggerStep ==
  ASSUME IInv, NEW t \in Trigger,
         {t.from, t.to} \subseteq Joins[t.mark], ~tr.fLoading,
         tr.src = t.from, tr.target = t.to, tr.spot = t.mark,
         cmds # <<>>, Head(cmds) = <<"changelevel", t.to>>,
         NEW near \in BOOLEAN, NEW fresh \in BOOLEAN, ExecChangeLevel(near, fresh), ~(dup /\ near),
         spoiled \in {"no", "list"}
  PROVE  /\ DOMAIN maps \cup {t.to} = DOMAIN maps'
         /\ \A m, n \in DOMAIN maps : maps'[m] - maps'[n] = maps[m] - maps[n]
  <1> DEFINE f == IF fresh /\ t.to \in NewUnit THEN ClearSaves(tr.src, file) ELSE file
             slot == IF fresh /\ t.to \in NewUnit THEN CheckSaveSlots(p.slot, f) ELSE p.slot
  <1>1. t.to \in Map /\ t.mark \in Landmark
    BY TransitionAssumption
  <1>2. GoesOn(t.to) /\ Settled
    BY <1>1, TransitionAssumption DEF GoesOn, Settled, Reading
  <1>3. Running /\ ServerActivate(t.to, f, slot, FALSE, FALSE)
    <2>1. Head(cmds)[2] = t.to
      OBVIOUS
    <2> QED BY <2>1 DEF ExecChangeLevel
  <1> HIDE DEF f, slot
  <1>4. maps' = Rebased(t.to) /\ OffsetsRelative(maps', t.to)
    BY <1>1, <1>2, <1>3, GoesOnByTrigger
  <1>5. OffsetsRelative(maps, level)
    BY <1>2, <1>3 DEF IInv, WorldKnown
  <1>6. DOMAIN maps' = DOMAIN maps \cup {t.to}
    BY <1>4 DEF Rebased
  <1>7. ASSUME NEW m \in DOMAIN maps, NEW n \in DOMAIN maps
        PROVE  maps'[m] - maps'[n] = maps[m] - maps[n]
    <2>1. m \in Map /\ n \in Map /\ level \in Map
      BY <1>3 DEF IInv, TypeOK, Running
    <2>2. Origin[m] \in Int /\ Origin[n] \in Int /\ Origin[level] \in Int /\ Origin[t.to] \in Int
      BY <1>1, <2>1, TransitionAssumption
    <2>3. /\ maps[m] = Origin[m] - Origin[level] /\ maps[n] = Origin[n] - Origin[level]
          /\ maps'[m] = Origin[m] - Origin[t.to] /\ maps'[n] = Origin[n] - Origin[t.to]
      BY <1>4, <1>5, <1>6 DEF OffsetsRelative
    <2> QED BY <2>2, <2>3
  <1> QED BY <1>6, <1>7

\* Going through a trigger whose landmark is in both maps forgets no map and moves none relative
\* to another.
THEOREM TriggersKeepMaps == Spec => TriggerKeepsMaps
  <1>1. IInv /\ [Next]_vars =>
          [\A t \in Trigger :
             /\ {t.from, t.to} \subseteq Joins[t.mark] /\ ~tr.fLoading
             /\ tr.src = t.from /\ tr.target = t.to /\ tr.spot = t.mark
             /\ cmds # <<>> /\ Head(cmds) = <<"changelevel", t.to>>
             /\ \E near, fresh \in BOOLEAN : ExecChangeLevel(near, fresh) /\ ~(dup /\ near)
             /\ spoiled \in {"no", "list"}
             => /\ DOMAIN maps \cup {t.to} = DOMAIN maps'
                /\ \A m, n \in DOMAIN maps : maps'[m] - maps'[n] = maps[m] - maps[n]]_vars
    BY TriggerStep
  <1> QED BY <1>1, IInvAlways, PTL DEF Spec, TriggerKeepsMaps

\* What a load the engine carries out does.
LEMMA LoadStep ==
  ASSUME IInv, NEW n \in SaveName, cmds # <<>>, Head(cmds) = <<"load", n>>,
         NEW near \in BOOLEAN, NEW twice \in BOOLEAN, ExecLoad(near, twice), ~(dup /\ near /\ ~twice),
         tr.fLoading, spoiled # "maps", file[n].sav = n[2], file[n].coop # NoFile,
         file[n].coop.upto = 8, file[n].coop.bad # "maps"
  PROVE  cur' = level' /\ maps' = file[n].coop.maps /\ p'.last = file[n].coop.p.last
  <1>1. <<"load", n>> \in Range(cmds) /\ n[2] \in Map /\ n[2] # NoMap
    <2>1. cmds \in Seq(Command)
      BY CommandsTyped DEF IInv
    <2>2. Range(cmds) = {Head(cmds)} \cup Range(Tail(cmds))
      BY <2>1, TailCommands
    <2>3. n[2] \in Map /\ n[2] # NoMap
      BY TransitionAssumption DEF SaveName
    <2> QED BY <2>2, <2>3
  <1>2. /\ n[2] \in DOMAIN maps /\ maps = file[n].coop.maps /\ p.last = file[n].coop.p.last
    BY <1>1, LoadedAgrees
  <1>3. GoesOn(n[2])
    BY <1>2 DEF GoesOn
  <1>4. ServerActivate(n[2], file, p.slot, FALSE, twice /\ ~(dup /\ near)) /\ level' = n[2]
    <2>1. Head(cmds)[2] = n
      OBVIOUS
    <2> QED BY <1>1, <2>1 DEF ExecLoad
  <1>5. cur' = n[2] /\ maps' = maps
    BY <1>3, <1>4 DEF ServerActivate
  <1>6. p'.last = p.last
    BY <1>3, <1>4 DEF ServerActivate, IInv, TypeOK, Persist
  <1> QED BY <1>2, <1>4, <1>5, <1>6

\* A load the engine carries out from a whole save brings back the maps that were saved, as they
\* were saved.
THEOREM LoadsRestore == Spec => LoadRestores
  <1>1. IInv /\ [Next]_vars =>
          [\A n \in SaveName :
             /\ cmds # <<>> /\ Head(cmds) = <<"load", n>>
             /\ \E near, twice \in BOOLEAN : ExecLoad(near, twice) /\ ~(dup /\ near /\ ~twice)
             /\ tr.fLoading /\ spoiled # "maps"
             /\ file[n].sav = n[2] /\ file[n].coop # NoFile
             /\ file[n].coop.upto = 8 /\ file[n].coop.bad # "maps"
             => cur' = level' /\ maps' = file[n].coop.maps /\ p'.last = file[n].coop.p.last]_vars
    BY LoadStep
  <1> QED BY <1>1, IInvAlways, PTL DEF Spec, LoadRestores
=============================================================================

--------------------------- MODULE CoopTransition ---------------------------
(***************************************************************************)
(* What a cooperative game carries from map to map: g_CoopState of         *)
(* dlls/coop.cpp, the landmark transition a trigger_changelevel sets up,   *)
(* the save slots and the files of GGM_Save and GGM_Load.                  *)
(*                                                                         *)
(* The list of visited maps is a partial function from maps to offsets: a  *)
(* map is added only when it was not found.  Vectors have one coordinate.  *)
(* Landmark l stands at At[l] in the world and map m begins at Origin[m],  *)
(* so l's origin in m is At[l] - Origin[m]: map makers place landmarks so. *)
(*                                                                         *)
(* The engine runs one level, executes its command buffer in order, and    *)
(* may activate the server twice for one load.  A stopped server has level *)
(* NoMap.  mp_coop is set.                                                 *)
(***************************************************************************)
EXTENDS Integers, Sequences

CONSTANTS
  Map, NoMap,
  Landmark, NoMark,
  Trigger,       \* trigger_changelevels: [from, to, mark]
  Joins,         \* the maps that have an info_landmark of this name
  Origin, At,    \* where maps and landmarks are in the world
  NewUnit,       \* the maps whose worldspawn has "newunit"
  EndSection,    \* the maps with a trigger_endsection (none under multiplayer rules)
  LongName,      \* the maps whose save paths are cut to one and the same
  NoName, NoFile,
  MaxEvents      \* bound: changes of level, autosaves, loads and crashes together

Slot == {"START1", "START2", "AUTO1", "AUTO2"}
SaveName == {"start", "auto0", "auto1"} \X Map

Persist == [slot: [Slot -> SaveName \cup {NoName}], last: {0, 1}, saved: Map \cup {NoMap}]

\* A coop state on disk that lists the maps M.  upto: how far it was written - 0 opened, 1 to 5 so
\* many fields of p, 6 all of p, 7 some of the maps too, 8 all of it.  bad, history: "list" when maps
\* may be missing, "maps" when it does not say where the maps of the save are.
CoopFile(M) == [p: Persist, upto: 0..8, maps: [M -> Int], bad: {"no", "list", "maps"}]

\* All the parts of a save.
File(M) == [sav: Map \cup {NoMap}, players: BOOLEAN, coop: {NoFile} \cup CoopFile(M)]
Transition == [src: Map \cup {NoMap}, target: Map \cup {NoMap}, spot: Landmark \cup {NoMark},
               vec: Int, pos: Map \cup {NoMap}, fLoading: BOOLEAN]

ASSUME TransitionAssumption ==
  /\ NoMap \notin Map /\ NoMark \notin Landmark
  /\ NoName \notin SaveName
  /\ \A M \in SUBSET Map : NoFile \notin CoopFile(M)
  /\ Trigger \subseteq [from: Map, to: Map, mark: Landmark]
  /\ Joins \in [Landmark -> SUBSET Map]
  /\ Origin \in [Map -> Int] /\ At \in [Landmark -> Int]
  /\ NewUnit \subseteq Map /\ EndSection \subseteq Map /\ LongName \subseteq Map
  /\ MaxEvents \in Nat

VARIABLES
  file,     \* the parts on disk of each save
  p,        \* g_CoopState.p: save slots, last autosave, whose position spawns
  maps,     \* pMapStates: offset of each visited map
  cur,      \* pCurrentMap
  tr,       \* landmarkTransition
  dup,      \* g_flDupCheck is set
  level,    \* the map the engine runs
  cmds,     \* the engine's command buffer
  spoiled,  \* history: what a load left behind - "flag": only fLoading; "list": a map may be
            \* missing; "maps": the memory is not that of a game on this level; or "no"
  events    \* how many of MaxEvents have happened

vars == <<file, p, maps, cur, tr, dup, level, cmds, spoiled, events>>
memory == <<p, maps, cur, tr, dup, spoiled>>

\* Mutants: the counter is not toggled but advanced, or left alone.
NextAutoCounts(l) == l + 1
NextAutoSame(l) == l

\* The autosave after autosave l.
NextAuto(l) == 1 - l

AutoName(n, m) == <<IF n = 0 THEN "auto0" ELSE "auto1", m>>

NoFiles == [sav |-> NoMap, players |-> FALSE, coop |-> NoFile]
NewPersist == [slot |-> [s \in Slot |-> NoName], last |-> 0, saved |-> NoMap]
NoTransition == [src |-> NoMap, target |-> NoMap, spot |-> NoMark, vec |-> 0, pos |-> NoMap,
                 fLoading |-> FALSE]

Init ==
  /\ file = [n \in SaveName |-> NoFiles]
  /\ p = NewPersist /\ maps = <<>> /\ cur = NoMap /\ tr = NoTransition /\ dup = FALSE
  /\ level = NoMap /\ cmds = <<>> /\ spoiled = "no"
  /\ events = 0

Event == events < MaxEvents /\ events' = events + 1

-----------------------------------------------------------------------------
(* Files.                                                                  *)

\* g_CoopState.p after an autosave on this level.
AutoPersist ==
  LET last == NextAuto(p.last) IN
  [p EXCEPT !.slot["AUTO2"] = p.slot["AUTO1"], !.slot["AUTO1"] = AutoName(last, level), !.last = last]

\* The coop state that save n gets when g_CoopState.p is q.  The save may have been asked for on a
\* map that another change of level has left since.
Whole(n, q) ==
  [p |-> q, upto |-> 8, maps |-> maps,
   bad |-> IF spoiled = "maps" \/ cur = NoMap \/ n[2] # level THEN "maps"
           ELSE IF spoiled = "list" THEN "list" ELSE "no"]

\* GGM_Save: the engine's part, which the engine may refuse to write, the players and the coop
\* state.  Where both paths are cut to one, the coop state replaces the players.
Saved(n, q, accepted) ==
  [sav     |-> IF accepted THEN level ELSE file[n].sav,
   players |-> n[2] \notin LongName,
   coop    |-> Whole(n, q)]

\* Where a field of p ends in a coop file.
Place == [saved |-> 1, START1 |-> 2, START2 |-> 3, AUTO1 |-> 4, AUTO2 |-> 5, last |-> 6]

\* q after reading the fields of p that a coop file has.
Overwritten(q, f) ==
  [slot  |-> [s \in Slot |-> IF f.upto >= Place[s] THEN f.p.slot[s] ELSE q.slot[s]],
   last  |-> IF f.upto >= Place.last THEN f.p.last ELSE q.last,
   saved |-> IF f.upto >= Place.saved THEN f.p.saved ELSE q.saved]

\* What is on disk of coop state f when the process ends before more than upto was written, with
\* the maps M in the list.
Cut(f, upto, M) ==
  [p    |-> Overwritten(NewPersist, [f EXCEPT !.upto = upto]),
   upto |-> upto,
   maps |-> [m \in M |-> f.maps[m]],
   bad  |-> IF upto < 7 THEN "maps" ELSE IF f.bad = "no" THEN "list" ELSE f.bad]

\* Mutant: the slots are not looked at.
SlotsUnchecked(slot, f) == slot

\* The slots that COOP_CheckSaveSlots leaves, looking for the coop state under its full path.
CheckSaveSlots(slot, f) ==
  [s \in Slot |-> IF slot[s] # NoName /\ slot[s][2] \notin LongName /\ f[slot[s]].coop # NoFile
                  THEN slot[s] ELSE NoName]

\* The files that COOP_ClearSaves leaves.
ClearSaves(src, f) == [n \in SaveName |-> IF n[2] = src THEN f[n] ELSE NoFiles]

-----------------------------------------------------------------------------
(* The game on a level.                                                    *)

Running == level # NoMap
Queued(what) == \E i \in DOMAIN cmds : cmds[i][1] = what

\* Mutant: what a failed load left behind stays.
SetupKeepsLoading(t, someone) ==
  [src |-> level, target |-> t.to, spot |-> t.mark, vec |-> At[t.mark] - Origin[level],
   pos |-> IF someone THEN level ELSE tr.pos, fLoading |-> tr.fLoading]

\* COOP_SetupLandmarkTransition.  A landmark its own map does not have is no landmark; the
\* position of a player is saved when one reached the trigger.
Setup(t, someone) ==
  LET there == level \in Joins[t.mark] IN
  [src |-> level, target |-> t.to, spot |-> IF there THEN t.mark ELSE NoMark,
   vec |-> IF there THEN At[t.mark] - Origin[level] ELSE 0,
   pos |-> IF someone THEN level ELSE tr.pos, fLoading |-> FALSE]

\* A trigger_changelevel is used; another one may have been used in the same frame.  The engine
\* may drop a change of level asked for while another one is.
UseTrigger(t, someone) ==
  /\ level = t.from /\ Event
  /\ tr' = Setup(t, someone)
  /\ \/ cmds' = Append(cmds, <<"changelevel", t.to>>)
     \/ Queued("changelevel") /\ UNCHANGED cmds
  /\ spoiled' = IF tr.fLoading /\ Queued("load") THEN "maps"
                ELSE IF spoiled = "flag" THEN "no" ELSE spoiled
  /\ UNCHANGED <<file, p, maps, cur, dup, level>>

\* A level is asked for without a trigger, from the console or the map cycle.
ChangeLevel(d) ==
  /\ Running /\ Event
  /\ cmds' = Append(cmds, <<"changelevel", d>>)
  /\ UNCHANGED <<file, memory, level>>

\* COOP_PlayerSpawn: while a load is under way the player is refused.
PlayerSpawn ==
  /\ Running /\ dup /\ ~tr.fLoading
  /\ dup' = FALSE
  /\ UNCHANGED <<file, p, maps, cur, tr, level, cmds, spoiled, events>>

\* A player touches a trigger_autosave.  Without a current map the checkpoint that follows the
\* save stops the server.
AutoSave(accepted) ==
  /\ Running /\ Event
  /\ LET name == AutoPersist.slot["AUTO1"] IN
     file' = [file EXCEPT ![name] = Saved(name, AutoPersist, accepted)]
  /\ IF cur # NoMap
     THEN p' = AutoPersist /\ UNCHANGED <<maps, cur, tr, dup, level, cmds, spoiled>>
     ELSE /\ p' = NewPersist /\ maps' = <<>> /\ cur' = NoMap /\ tr' = NoTransition
          /\ dup' = FALSE /\ level' = NoMap /\ cmds' = <<>> /\ spoiled' = "no"

\* A trigger_endsection is used.
EndSectionUse ==
  /\ level \in EndSection
  /\ file' = ClearSaves(tr.src, file)
  /\ p' = [p EXCEPT !.slot = CheckSaveSlots(p.slot, file')]
  /\ UNCHANGED <<maps, cur, tr, dup, level, cmds, spoiled, events>>

\* Mutant: the list of the running game is not freed.
ReadStateAppends(f) ==
  IF f = NoFile THEN UNCHANGED <<p, maps, cur, tr>>
  ELSE /\ tr' = [tr EXCEPT !.fLoading = TRUE]
       /\ p' = Overwritten(p, f)
       /\ IF f.upto >= 7
          THEN /\ maps' = [m \in DOMAIN f.maps \cup DOMAIN maps |->
                            IF m \in DOMAIN f.maps THEN f.maps[m] ELSE maps[m]]
               /\ cur' = NoMap
          ELSE UNCHANGED <<maps, cur>>

\* COOP_ReadState of what is on disk under a save's coop path.  It says that a load is under way
\* as soon as the file is open and overwrites p as far as the file goes; the maps of the running
\* game stay, and stay current, when the file ends before the list.
COOP_ReadState(f) ==
  IF f = NoFile THEN UNCHANGED <<p, maps, cur, tr>>
  ELSE /\ tr' = [tr EXCEPT !.fLoading = TRUE]
       /\ p' = Overwritten(p, f)
       /\ IF f.upto >= 7 THEN maps' = f.maps /\ cur' = NoMap ELSE UNCHANGED <<maps, cur>>

\* COOP_ReadState says that it has read coop state f: p is there, the list or a part of it may not be.
Readable(f) == f # NoFile /\ f.upto >= 6

\* GGM_Load, by voteload or from the console.  The engine is asked to load only when both the
\* coop state and the players could be read.
GGM_Load(n) ==
  /\ Event
  /\ LET f == file[n].coop
         asked == Readable(f) /\ file[n].players
     IN  /\ COOP_ReadState(f)
         /\ cmds' = IF asked THEN Append(cmds, <<"load", n>>) ELSE cmds
         /\ spoiled' = CASE f = NoFile -> spoiled
                         [] f # NoFile /\ Queued("load") -> "maps"
                         [] f # NoFile /\ ~Queued("load") /\ f.upto = 0 ->
                              IF spoiled = "no" THEN "flag" ELSE spoiled
                         [] OTHER -> IF asked THEN f.bad ELSE "maps"
  /\ UNCHANGED <<file, dup, level>>

-----------------------------------------------------------------------------
(* COOP_ServerActivate on level d, with the files f and the slots that     *)
(* reading the map has left.                                               *)

\* Mutant: a load is not told from a change of level.
GoesOnByLandmark(d) == tr.spot # NoMark /\ tr.target = d /\ d \in Joins[tr.spot]

\* COOP_ProcessTransition says whether the game goes on.
GoesOn(d) ==
  IF tr.fLoading THEN d \in DOMAIN maps
                 ELSE tr.spot # NoMark /\ tr.target = d /\ d \in Joins[tr.spot]

\* Mutants: the landmarks are exchanged; only the new map is in the list.
RebasedBackwards(d) ==
  [m \in DOMAIN maps \cup {d} |->
     IF m = d THEN 0 ELSE maps[m] + tr.vec - (At[tr.spot] - Origin[d])]
RebasedAlone(d) == [m \in {d} |-> 0]

\* The offsets of the visited maps relative to d.
Rebased(d) ==
  [m \in DOMAIN maps \cup {d} |->
     IF m = d THEN 0 ELSE maps[m] - tr.vec + (At[tr.spot] - Origin[d])]

\* Mutant: a new game keeps where players spawn.
RenewedSlots(q) == [q EXCEPT !.slot = NewPersist.slot, !.last = 0]

\* A new game: g_CoopState.p, q so far, is cleared.
Renewed(q) == NewPersist

\* COOP_MapStartSave: the slots, and whether a save is asked for.
HasStart(slot, d) == \E s \in {"START1", "START2"} : slot[s] = <<"start", d>>
StartSlots(slot, d) ==
  IF HasStart(slot, d) THEN slot
  ELSE [slot EXCEPT !["START2"] = slot["START1"], !["START1"] = <<"start", d>>]

ServerActivate(d, f, slot, ignored, again) ==
  IF ignored
  THEN /\ dup' = FALSE /\ file' = f /\ p' = [p EXCEPT !.slot = slot]
       /\ UNCHANGED <<maps, cur, tr>>
  ELSE LET loading == tr.fLoading
           read == IF loading THEN [p EXCEPT !.slot = CheckSaveSlots(slot, f)]
                                ELSE [p EXCEPT !.slot = slot, !.saved = tr.pos]
           q == IF GoesOn(d) THEN read ELSE Renewed(read)
       IN  /\ dup' = ((dup \/ loading) /\ ~again)
           /\ file' = IF GoesOn(d) THEN f ELSE ClearSaves(tr.src, f)
           /\ maps' = IF ~GoesOn(d) THEN [m \in {d} |-> 0] ELSE IF loading THEN maps ELSE Rebased(d)
           /\ p' = IF loading THEN q ELSE [q EXCEPT !.slot = StartSlots(q.slot, d)]
           /\ cur' = d
           /\ tr' = NoTransition

\* What ServerActivate adds to the command buffer.
StartSave(d, slot, ignored) ==
  IF \/ ignored \/ tr.fLoading
     \/ HasStart(IF GoesOn(d) THEN slot ELSE NewPersist.slot, d)
  THEN <<>> ELSE <<<<"save", <<"start", d>>>>>>

\* history: what is left of loads after an activation on d, where right says whether the memory
\* fits d if the game goes on.
Spoiled(d, ignored, right) ==
  CASE ignored \/ (GoesOn(d) /\ ~right) -> "maps"
    [] ~ignored /\ GoesOn(d) /\ right /\ tr.fLoading /\ spoiled = "list" -> "list"
    [] OTHER -> "no"

-----------------------------------------------------------------------------
(* The engine.                                                             *)

\* The next command is a change of level.  The worldspawn of a map that begins a unit clears
\* saves when the engine reads it, before the server is activated.  near: less than a second of
\* game time since the activation that set g_flDupCheck.
ExecChangeLevel(near, fresh) ==
  /\ Running /\ cmds # <<>> /\ Head(cmds)[1] = "changelevel"
  /\ LET d == Head(cmds)[2]
         f == IF fresh /\ d \in NewUnit THEN ClearSaves(tr.src, file) ELSE file
         slot == IF fresh /\ d \in NewUnit THEN CheckSaveSlots(p.slot, f) ELSE p.slot
         ignored == dup /\ near
     IN  /\ ServerActivate(d, f, slot, ignored, FALSE)
         /\ cmds' = Tail(cmds) \o StartSave(d, slot, ignored)
         /\ level' = d
         /\ spoiled' = Spoiled(d, ignored, ~tr.fLoading /\ spoiled # "maps")
  /\ UNCHANGED events

\* The next command is ggm_save.
ExecSave(accepted) ==
  /\ Running /\ cmds # <<>> /\ Head(cmds)[1] = "save"
  /\ LET n == Head(cmds)[2] IN file' = [file EXCEPT ![n] = Saved(n, p, accepted)]
  /\ cmds' = Tail(cmds)
  /\ UNCHANGED <<memory, level, events>>

\* The next command is load.  The engine refuses a save it has not got; otherwise it activates
\* the server on the saved level.  When it does so twice, g_flDupCheck makes the server ignore
\* the second activation, or the first one when it was still set.
ExecLoad(near, twice) ==
  /\ cmds # <<>> /\ Head(cmds)[1] = "load"
  /\ LET n == Head(cmds)[2] d == file[n].sav ignored == dup /\ near /\ ~twice IN
     IF d = NoMap
     THEN /\ spoiled' = "maps" /\ cmds' = Tail(cmds)
          /\ UNCHANGED <<file, p, maps, cur, tr, dup, level>>
     ELSE /\ ServerActivate(d, file, p.slot, ignored, twice /\ ~(dup /\ near))
          /\ cmds' = Tail(cmds) \o StartSave(d, p.slot, ignored)
          /\ level' = d
          /\ spoiled' = Spoiled(d, ignored,
               spoiled # "maps" /\ (tr.fLoading => file[n].coop.bad # "maps" /\ d = n[2]))
  /\ UNCHANGED events

\* A stopped server is started on a map.
Start(d, fresh) ==
  /\ ~Running /\ cmds = <<>> /\ Event
  /\ LET f == IF fresh /\ d \in NewUnit THEN ClearSaves(tr.src, file) ELSE file
         slot == IF fresh /\ d \in NewUnit THEN CheckSaveSlots(p.slot, f) ELSE p.slot
     IN  /\ ServerActivate(d, f, slot, FALSE, FALSE)
         /\ cmds' = StartSave(d, slot, FALSE)
         /\ spoiled' = Spoiled(d, FALSE, FALSE)
  /\ level' = d

Stopped ==
  /\ Running /\ Event
  /\ p' = NewPersist /\ maps' = <<>> /\ cur' = NoMap /\ tr' = NoTransition /\ dup' = FALSE
  /\ level' = NoMap /\ cmds' = <<>> /\ spoiled' = "no"

\* The process ends.
Crash == Stopped /\ UNCHANGED file

\* GGM_Save is writing save n with p as q: an autosave, or the next command.
Saving(n, q) ==
  \/ q = AutoPersist /\ n = q.slot["AUTO1"]
  \/ q = p /\ cmds # <<>> /\ Head(cmds) = <<"save", n>>

\* The process ends while GGM_Save writes save n: after the engine's part, while it writes the
\* players, of whom any number can be read if there is one, or while it writes the coop state.
CrashInSave(n, q, accepted) ==
  /\ Stopped
  /\ n[2] \notin LongName /\ Saving(n, q)
  /\ LET f == Saved(n, q, accepted) IN
     \/ file' = [file EXCEPT ![n].sav = f.sav]
     \/ \E any \in BOOLEAN : file' = [file EXCEPT ![n] = [sav |-> f.sav, players |-> any, coop |-> @.coop]]
     \/ \E upto \in 0..6 : file' = [file EXCEPT ![n] = [f EXCEPT !.coop = Cut(f.coop, upto, {})]]
     \/ \E M \in SUBSET DOMAIN maps :
          M # DOMAIN maps /\ file' = [file EXCEPT ![n] = [f EXCEPT !.coop = Cut(f.coop, 7, M)]]

Next ==
  \/ \E t \in Trigger, someone \in BOOLEAN : UseTrigger(t, someone)
  \/ \E d \in Map : ChangeLevel(d)
  \/ PlayerSpawn
  \/ \E accepted \in BOOLEAN : AutoSave(accepted) \/ ExecSave(accepted)
  \/ EndSectionUse
  \/ \E n \in SaveName : GGM_Load(n)
  \/ \E near, fresh \in BOOLEAN : ExecChangeLevel(near, fresh)
  \/ \E near, twice \in BOOLEAN : ExecLoad(near, twice)
  \/ \E d \in Map, fresh \in BOOLEAN : Start(d, fresh)
  \/ Crash
  \/ \E n \in SaveName, q \in {p, AutoPersist}, accepted \in BOOLEAN : CrashInSave(n, q, accepted)

Spec == Init /\ [][Next]_vars

-----------------------------------------------------------------------------
TypeOK ==
  /\ file = [n \in SaveName |-> file[n]]
  /\ \A n \in SaveName : \E M \in SUBSET Map : file[n] \in File(M)
  /\ p \in Persist /\ (\E M \in SUBSET Map : maps \in [M -> Int]) /\ cur \in Map \cup {NoMap} /\ tr \in Transition
  /\ dup \in BOOLEAN /\ level \in Map \cup {NoMap}
  /\ cmds \in Seq({"changelevel"} \X Map \cup {"save", "load"} \X SaveName)
  /\ spoiled \in {"no", "flag", "list", "maps"}
  /\ events \in 0..MaxEvents

OffsetsRelative(V, c) == c \in DOMAIN V /\ \A m \in DOMAIN V : V[m] = Origin[m] - Origin[c]

\* "offset for all maps relative to current map" (coop.cpp:11).  Whatever way the game came to
\* the level, and however it went round, each visited map is where it is in the world - while no
\* load is under way, and unless one has left the memory of another game behind.
WorldAgrees ==
  Running /\ spoiled # "maps" /\ ~(tr.fLoading /\ Queued("load"))
    => cur = level /\ OffsetsRelative(maps, cur)

\* What is on disk can be gone on with: the maps a save lists are at their places around the map
\* it is named after, also after a crash while it was written, and an engine's autosave is of
\* that map.  Not so the save of a spoiled game, nor a start save whose map was left before it
\* was made.
SavesAgree ==
  \A n \in SaveName : LET f == file[n].coop IN
    /\ n[1] # "start" => file[n].sav \in {NoMap, n[2]}
    /\ f # NoFile => f.upto < 7 \/ f.bad = "maps"
         \/ /\ \A m \in DOMAIN f.maps : f.maps[m] = Origin[m] - Origin[n[2]]
            /\ f.upto = 8 => n[2] \in DOMAIN f.maps

\* fLoading makes every player who spawns wait in LOAD_FIX and turns the next change of level
\* into a load.  It is set only while the engine has a load to execute, or after a failed one.
FlagMeansLoad == tr.fLoading => Queued("load") \/ spoiled # "no"

\* What voteload offers is on disk, or is about to be.
SlotsOnDisk ==
  ~tr.fLoading /\ spoiled # "maps" =>
    \A s \in Slot : LET n == p.slot[s] IN
      n # NoName => file[n].coop # NoFile \/ \E i \in DOMAIN cmds : cmds[i] = <<"save", n>>

\* The position new players get was saved in a map whose offset is known - unless the game was
\* loaded from a list of maps that a crash had cut.
SpawnPlaceKnown ==
  ~tr.fLoading /\ spoiled \notin {"list", "maps"} => p.saved \in DOMAIN maps \cup {NoMap}

\* An autosave does not overwrite the one before it - unless a failed load has read the slots but
\* not which autosave was the last.
PreviousAutosaveKept ==
  [][\A n \in SaveName :
       /\ p.slot["AUTO1"] = n /\ p'.slot["AUTO2"] = n /\ p'.slot # p.slot
       /\ spoiled # "maps"
       => file'[n] = file[n]]_vars

\* Going through a trigger whose landmark is in both maps never forgets a map, and moves none of
\* them relative to another, unless the engine's activation is ignored as a second one.
TriggerKeepsMaps ==
  [][\A t \in Trigger :
       /\ {t.from, t.to} \subseteq Joins[t.mark] /\ ~tr.fLoading
       /\ tr.src = t.from /\ tr.target = t.to /\ tr.spot = t.mark
       /\ cmds # <<>> /\ Head(cmds) = <<"changelevel", t.to>>
       /\ \E near, fresh \in BOOLEAN : ExecChangeLevel(near, fresh) /\ ~(dup /\ near)
       /\ spoiled \in {"no", "list"}
       => /\ DOMAIN maps \cup {t.to} = DOMAIN maps'
          /\ \A m, n \in DOMAIN maps : maps'[m] - maps'[n] = maps[m] - maps[n]]_vars

\* A load the engine carries out from a whole save brings back the maps that were saved, as they
\* were saved.
LoadRestores ==
  [][\A n \in SaveName :
       /\ cmds # <<>> /\ Head(cmds) = <<"load", n>>
       /\ \E near, twice \in BOOLEAN : ExecLoad(near, twice) /\ ~(dup /\ near /\ ~twice)
       /\ tr.fLoading /\ spoiled # "maps"
       /\ file[n].sav = n[2] /\ file[n].coop # NoFile
       /\ file[n].coop.upto = 8 /\ file[n].coop.bad # "maps"
       => cur' = level' /\ maps' = file[n].coop.maps /\ p'.last = file[n].coop.p.last]_vars

\* "offset for all maps relative to current map" (coop.cpp:11), also once the engine has carried
\* out a load that COOP_ReadState said it has read, and that left its slots in the memory.  But it
\* says so too of a file that a crash has cut before the list, and keeps the running game's maps.
LoadsAgree ==
  [][\A n \in SaveName :
       /\ cmds # <<>> /\ Head(cmds) = <<"load", n>>
       /\ \E near, twice \in BOOLEAN : ExecLoad(near, twice) /\ ~(dup /\ near /\ ~twice)
       /\ tr.fLoading /\ file[n].sav # NoMap /\ p = file[n].coop.p
       => OffsetsRelative(maps', level')]_vars
=============================================================================

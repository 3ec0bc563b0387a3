# GunMod in TLA+

GunMod is a Half-Life server library (Xash3D) whose own part is a cooperative
campaign: several players share one game, vote on going back to earlier maps,
register accounts, and save and load together. This directory holds TLA+
modules of that part, the TLC runs that check them, and proofs checked by
TLAPS. The modules are translated from the code, and names are the code's
wherever TLA+ allows it. `PROJECT.json` maps every definition to the lines it
models.

The server has one thread. The engine calls the library at its entry points
(`ClientConnect`, `ClientCommand`, a touch, a use, a frame), so a step of a
model is one such callback, run to its end, with every call nested in it. What
interleaves are the players' callbacks, the engine's delayed commands and the
clock. Files in `ggm/` are shared with other servers and outlive a crash.

## 1. Inventory

Paths are relative to `src/dlls/`.

### The coop core

| component | state | operations | talks to | what makes it correct |
|---|---|---|---|---|
| **Votes**, `gravgunmod.cpp:45-347` | `g_Vote`: mode, initiator (EHANDLE), trigger, two times, counters; per player `iLocalConfirm`, `pChangeLevel` | `GGM_StartVoteCommand`, `GGM_ChangelevelVote`, `GGM_VoteProcess` (confirm, cancel, tempban), `GGM_BroadcastVote`, `GGM_ClearVote`, `GGM_TempBan` | called by every client command, by triggers and the console; touches triggers itself | one vote at a time, no misclick counted, no mandate outlives its vote or its level, no vote blocks for ever |
| **trigger_changelevel**, `triggers.cpp:1299-1882` | `m_coopData` per trigger: pending, who touched, first toucher, time | touch, use, counting of players and trains, activation | asks the vote; sets every player back; pauses the world; hands the landmark to the transition | going back needs agreement, a train's riders are not left behind, one change at a time |
| **Accounts and records**, `gravgunmod.cpp:730-1490, 1815-2240` | `registered_list`, `anonymous_list`, `login_list`, `m_ggm.pState`, files `registrations/`, `logins/`, `*.players` | `reg`, `login`, `logout`, `chpwd`, `GGM_GetState`, `GGM_LoadLogin`, `GGM_FreeState`, `GGM_ClearLists`, `GGM_WritePlayers`, `GGM_ReadPlayers` | every connection, userinfo change, spawn, map change, save and load; other servers through files | no pointer to a freed record; an account is used only by who proved it; bans and passwords cannot be shed or overwritten |
| **Player life cycle**, `gravgunmod.cpp:785-870, 1725-1819`, `coop.cpp:470-520, 861-905`, `client.cpp`, `multiplay_gamerules.cpp:495-650` | `m_ggm.iState` (7 states), spawn time, spectator flags | connect, put in server, join, respawn, spectate, die, load fix, disconnect | records, votes (a spawned player counts), pause | every connected player can get into the game; nobody plays without a record |
| **Transitions and map states**, `coop.cpp:60-190, 560-805` | `g_CoopState`: visited maps with offsets, current map, `landmarkTransition`, `g_flDupCheck` | `COOP_SetupLandmarkTransition`, `COOP_ProcessTransition`, `COOP_ServerActivate`, `COOP_WriteState`, `COOP_ReadState`, `COOP_MarkTriggers` | triggers before, players after a map change; files | the current map is among the visited, offsets agree round every loop, a failed load leaves a playable game |
| **Save slots**, `coop.cpp:195-330`, `gravgunmod.cpp:1127-1290` | four slot names (two starts, two autosaves), `iLastAutoSave`, three files per save | `COOP_AutoSave`, `COOP_MapStartSave`, `COOP_CheckSaveSlots`, `COOP_ClearSaves`, `GGM_Save`, `GGM_Load` | transitions, records, `voteload` | a slot that is offered can be loaded; two autosaves never share a file |
| **Checkpoints**, `coop.cpp:843-1100` | five entries per map | new, list, load, lock of back triggers | player spawn, votes | the newest comes first; a load goes to what was offered |
| **Menus**, `gravgunmod.cpp:2490-2800` | five items and a shown flag per player | `New`, `Add`, `Show`, `Clear`, `MenuSelect` (runs a client command inside) | votes, checkpoints, help | a click leads where its item says, although the command it runs builds the next menu |
| **Entity tools**, `enttools.cpp` | owner and state per entity, score per player, blacklist | `ent_create`, `ent_fire`, ownership checks, kick and ban | player ids, collection | a player changes only what it may; limits hold |
| **Entity collection**, `gravgunmod.cpp:439-703` | counters of spawned entities | `Ent_RunGC`, `Ent_CheckEntitySpawn`, `CREATE_NAMED_ENTITY` | every entity creation | edicts do not run out; what is in use stays |

### Around it

Server administration (`admin.cpp`, `BMOD_player.cpp`), gravity gun, props and
portals, two small game modes (hide and seek, Gate of Babylon), and stock
Half-Life: game rules, doors and trains, buttons and multi_manager, monsters,
weapons, the voice manager, `pm_shared` movement, the client library `cl_dll`,
engine headers, tools, vendored VGUI headers and assets. They are listed in
`PROJECT.json` with the reason each is left out or put last.

### What is hard here

* **Nested callbacks.** A vote confirmation touches the trigger, which asks the
  vote again and may clear the vote that is being processed. A menu selection
  runs a client command that builds the next menu.
* **Two callbacks with a gap.** A level change is asked for in one callback and
  carried out frames later; touches, commands and leaving players come between.
* **Pointers to records.** One uid may belong to several players (it may be an
  IP address or `UNKNOWN`), so freeing a record concerns others than the
  caller. The engine may keep a leaver's entity, pointer included.
* **Lazy timeouts.** A vote is only found to be too old when something looks.
* **Files.** Other servers change them, a crash leaves them, a load of one may
  fail half way.

Each hazard is listed at its line in `PROJECT.json`, with the properties that
would catch it, or with the reason why none does.

## 2. Modules

| module | models | built on |
|---|---|---|
| `VoteRound` | what a vote promises, without triggers, trains and menus: it opens empty, counts no answer before the misclick time, closes, and a command runs only when the commands for it, less those against it, exceed half the number of players asked - whoever sends them | |
| `CoopVote` | votes and `trigger_changelevel` | instantiates `VoteRound` |
| `CoopVoteProofs` | theorems: types, and what a vote is about | `CoopVote`, TLAPS |
| `CoopVoteStepProofs` | theorems: what a step may do to a vote and to a level | `CoopVoteProofs` |
| `GGMRegistry` | accounts, logins, records, their files | |
| `GGMRegistryProofs` | theorems: types, pointers, files | `GGMRegistry`, TLAPS |
| `GGMRegistryLoginProofs` | theorems: logins, passwords, bans | `GGMRegistryProofs` |
| `CoopTransition` | what a game carries from map to map: visited maps, landmark transitions, save slots, the files of a save | |
| `CoopTransitionProofs` | theorems about `CoopTransition` | `CoopTransition`, TLAPS |
| `CoopPlayer` | a player's way into the game, to death and back; checkpoints and menus | |
| `CoopPlayerProofs` | theorems about `CoopPlayer` | `CoopPlayer`, TLAPS |
| `MCCoopVote`, `MCGGMRegistry`, `MCCoopTransition`, `MCCoopPlayer` | model values, symmetry and small instances for the runs | the module each is named after |

The modules meet where the code's components do, and each takes from the
others what it needs as a free choice that includes what they do:

| where | in one module | in the other |
|---|---|---|
| `ChangeLevelNow` | `CoopVote` decides that it happens, and drops the vote | `CoopTransition` hands the landmark over; `CoopPlayer` sets the players back |
| `COOP_ServerActivate` | `CoopTransition` has the maps, the slots and the flag | `CoopPlayer` has the players, the pause and the map's checkpoints |
| `GGM_Load` fails half way | `CoopTransition` says which files cause it and what is left (`spoiled`) | `CoopPlayer` (`LoadFails`) what it does to players; `GGMRegistry` to records |
| `GGM_GetState` | `GGMRegistry` finds a record or finds the nickname busy | `CoopPlayer` takes either answer (`busy`) |
| `GGM_SendVote` | `CoopVote` has the vote | `CoopPlayer` has the menu it forces open, when the vote begins and inside any command of the next two seconds (`asked`) |

### CoopVote

State: `vote` is `g_Vote`; `iState`, `spawnAge` (time since `flSpawnTime`),
`fIsTempBanned`, `iLocalConfirm`, `pChangeLevel`, `onTrain` are kept per player;
`trig` is the part of `m_coopData` that control reads; `locked` stands for the
test of `mp_coop_strongcheckpoints`; `executed` says that a voted command ran
in this frame; `clicks` is a history variable for one property.

Callbacks nest, so the operators between the entry points (`DispatchTouch`,
`GGM_ChangelevelVote`, `ChangeLevelFor`, `Activate`, ...) take a *session*: the
vote, the confirmations and the pending triggers as they stand at that point of
the callback. The entry point is the action; the last operator reached sets the
primed variables.

Choices that a reader should know:

* Times are ages in ticks, capped one above the delay they are compared with.
  The age of a trigger's change of level is compared with two, so
  `ConstAssumption` says which is longer: triggers forget who touched them
  after 30 seconds (`TouchMemory`), and the engine carries out what is queued
  in its next frames (`LoadDelay`), sooner also than a spawned player begins
  to count (`SpawnDelay`). `iConfirm` is bounded by `MinConfirm` and `MaxConfirm`, in the guards of
  `VoteConfirm` and `VoteCancel`.
* `iState` merges states that votes do not tell apart. `"UNINITIALIZED"` is also
  a spectator whose record is NULL; `"GONE"` is a player who left while spawned
  and whose entity the engine kept. `EngineKeeps` says what the engine may do
  with a leaver's entity; when it is freed, every EHANDLE to it reads NULL.
* `bits` (who touched) is left empty for back triggers, whose colour is all it
  changes there; `Remember` does nothing on a map without trains.
* The "too early" branch has a repeat timer; both outcomes are allowed.
* Whether a player is in the landmark's volume, and how far the newest
  checkpoint is from the back triggers, is geometry and chosen freely.
* `count2 / 3` is `count2 \div TouchShare`, scaled down with the players.
* `iConfirm` counts commands. `voteconfirm` and `votecancel` are taken from any
  player in any state and as often as they are sent, and so are `VoteConfirm`
  and `VoteCancel`. Only the number asked and the number that counts now are
  numbers of players.
* A banned player is not counted at a trigger but can touch it.
* The guard `iTempBanCount >= 3` in `VoteConfirm` can not be true, in the code
  either: the third strike clears the vote. It is kept as it is.
* `mp_coop` is on. Messages, menus, colours, `SUB_UseTargets` and the position
  saved for the next map are left out.
* `Tick` waits while a change of level is older than `LoadDelay`: the engine
  carries out what was queued.

### GGMRegistry

State: `iState`, `pState`, and the engine's `uid` and `name` per player;
`lists` with the registered and anonymous records and the logins; `regFile`,
`loginFile` and `saved` are the files; `trusted` is a history variable: the
pairs of a uid and an account whose password was given from that uid. The uid
is the player's own, that of the record a registration turned into the account
(where the player was before a late auth id arrived), or the one that arrives
late for a player who already uses the account.

A record is named by the `szUID` it is stored under, and a pointer is that
name. That is sound because every insertion follows a failed search for the
name, and it makes "dangling" visible: the name is in no list. `login_list`
stays a sequence, because it may hold several logins for one pair of uid and
nickname (a player whose record is NULL after a change of level can log in
again; one in LOAD_FIX can log in to another account), and the first one counts.

* Of a record only the ban is kept, with the password for an account.
  Health, weapons and frags do not decide who uses it.
* Files can be read and written; a file name that is a hash does not collide.
  Each registration, login or logout is atomic against other servers: two
  servers that look for a name and then both write it (`gravgunmod.cpp:1951`,
  `:2016`) are not modelled, so `PasswordStaysOwners` speaks of accounts that
  were on file when the step began.
* `Password` holds passwords as `GGM_Munge` leaves them. It is not injective (a
  byte that comes out as zero becomes a `b`), so "no other password" means no
  other that is told from it.
* A `.players` file is written in one step. One that a crash has cut, of which
  `GGM_ReadPlayers` takes the whole records, is in `CoopTransition` only, as a
  file that may or may not be read.
* `mp_allow_restore` and `mp_coop` are on. Nicknames of connected players
  differ, which the engine sees to.
* `ggm_load` either fails before the records are read (`LoadFails`) or brings
  back the saved records (`GGM_Load`).
* The server may stop at any time (`ServerRestart`). A registration writes two
  files, the account's and then the login's, and `CrashInRegister` stops the
  server between them.
* `MaxLogins` bounds the list in the guard of `GGM_Login`: nothing in the code
  does.

### CoopTransition

State: `file` is what is on disk of each save (the engine's `.sav`, `.players`,
`.coop`); `p` is `g_CoopState.p` with the four slots, `iLastAutoSave` and the
map whose position spawns (`savedPos`); `maps` is the list `pMapStates` as a
partial function from maps to offsets, `cur` is `pCurrentMap`, `tr` is
`landmarkTransition`, `dup` says that `g_flDupCheck` is set; `level` and `cmds`
are the engine's level and command buffer. `spoiled` is a history variable:
what a load that failed, or was ignored, has left behind.

Actions: `UseTrigger` and `ChangeLevel` ask for a level, `ExecChangeLevel`
carries it out with all of `COOP_ServerActivate`; `AutoSave` and the queued
`ExecSave` write the three files, `CrashInSave` stops between them or inside one; `GGM_Load`
reads the state and asks the engine to load, `ExecLoad` is the engine doing so,
once or twice; `EndSectionUse` and `newunit` clear saves; `Start` and `Crash`
begin and end the process.

* Offsets are vectors of one coordinate. A landmark stands at one place of the
  world and its origin in a map is that place relative to the map's own
  (`Origin`): this is what lets a run ask whether the sums agree.
* A save's name is its kind and its map. `LongName` are the maps whose name is
  so long that the 33 bytes of `cmd` in `GGM_Save` cut `.players` and `.coop`.
* Nothing keeps a second change of level from being asked for while one is
  queued: `fValid` belongs to one trigger, and the console asks nobody. The
  engine may drop the later request, but the transition of the later trigger
  stays. A map's `newunit` counts when the engine reads it afresh.
* A crash in a save may come after the engine's part, inside `.players`, or
  anywhere inside `.coop`: `upto` says how many fields of `p` were written, and
  `Cut` keeps any part of the list of maps, the ones written before the crash
  among them. `COOP_ReadState` takes a file that holds all of `p` for read
  (`Readable`): without a list the running game's maps stay, with a part of it
  that part is the list. `bad` (history) says so of a file.
* `spoiled` is `"flag"` when a failed load has left no more than `fLoading`
  (undone by the next trigger), `"list"` when the game was loaded from a cut
  list, so maps may be missing but those it has are right, and `"maps"` when
  the memory is not that of a game on this level: a load that failed after it
  had read, was read from a file without a list, was overtaken by another, or
  was ignored as a second activation. Two loads asked for before the first is
  executed count as overtaken, although the code may get away with it.
* A start save is queued and may be executed after another change of level; it
  is then the state of another map under this map's name, and `bad`.
* `SERVER_EXECUTE` inside `GGM_Save` runs what is queued before the save; here
  the queue goes on after it. Writing to an open file succeeds.
* A checkpoint made where `pCurrentMap` is NULL stops the server: `AutoSave`
  has that outcome.

### CoopPlayer

State: `conn` is the engine's view of a slot; `pl` the player's entity, with
`iState` (`m_ggm.iState`, seven states of which nothing enters
`STATE_POINT_SELECT`, plus `"NONE"` without an entity), `spectator`
(`FL_SPECTATOR`), `deadflag`, `alive` (health above zero), `pState` (has a
record), `m_fGameHUDInitialized`, and `menu`; `game` is what all share:
`g_fPause`, `landmarkTransition.fLoading`, `st_fSkipNext`, the current map's
`rgCheckpoints`, and whether the engine runs, changes or loads a level. `cast`
is chosen by `Init` and never changes: it says who takes part, what they type
and what the environment does.

Callbacks nest here too (a menu item runs a command, a command spawns, a spawn
may put the player in the server first), so the operators between the entry
points take a session of entity and game. Entry points: `PreThink` (with
`PlayerThink`, `UpdateClientData` and `PlayerDeathThink` in its order),
`Killed`, `ClientCommand`, `MenuSelect`, `GGM_BroadcastVote`, `AskBack`, `ClientConnect`,
`EnterServer` (the engine's `ClientPutInServer`), `ClientDisconnect`,
`ClientUserInfoChanged`, `ChangeLevelNow`, `GGM_Load`, `LoadFails` and
`COOP_ServerActivate`.

* `mp_coop` is set. A menu item is the command it runs; items without an effect
  here are `Cancel`. The menus of votes are there because they close and
  replace others; voting is `CoopVote`'s.
* A checkpoint is a number that grows; which one is loaded decides only where
  the player stands. `checkpoints` bounds how many a map gets.
* Every command that reaches `GGM_ClientCommand` calls `GGM_VoteProcess` first,
  which forces the vote's menu on the player, spectator or not, for
  `VOTE_MISCLICK_TIME` after a vote was started. `asked` chooses whether that is
  now; the age of the vote is `CoopVote`'s. `joincoop` and `checkpointmenu` then
  build their menu under a menu that is already shown, and it is ignored. What a
  voted command does when it runs is a step of its own. `AskBack` is the menu in
  which a toucher of a back trigger confirms.
* `busy` is the answer of `GGM_GetState` when the nickname is another user's
  login. Renaming a player who has a record under the new name changes nothing.
* `keep` is whether the engine keeps an entity over a change of level, a load
  or a disconnect. While it loads a game it calls nobody.
* A menu selection by an entity that was never put in the server is left out:
  its menu has no player yet.
* Left out: play without `mp_coop`, forced respawn, the death camera,
  `ggm_pause`, menus from files, touch buttons, `unblock`.

## 3. Runs

All runs check for deadlock, except `transition` and `cutsave`: after the last event
the engine may have nothing left to do.

| run | instance | question and result |
|---|---|---|
| `vote` | 2 players, 1 back trigger, both kinds of vote, confirmations from -1 to 2 | `TypeOK`, `VoteSound`; a vote is never hijacked (`NoHijack`); no way back without as many confirmations as there are players counted now (`BackNeedsMandate`) or by just walking in (`BackVoteIsDeliberate`); a vote ends with its level (`VoteEndsWithLevel`); votes implement `VoteRound` (`RoundSpec`). Holds. |
| `expiry` | 2 players, one banned, a back trigger that can also be used, under `FairSpec` | `VoteRunsOut`: no vote stays in the way for ever, however busily it is voted on. `BannedOpenNothing`. Holds. |
| `leaving` | 2 players, 2 trains, a trigger with a volume that is touched and one that can be used, an engine that takes a tick to change level | While a change of level is under way, by touch or by use, no touch starts another one (`OneChangeAtATime`); nobody leaves a train with riders behind (`OneTrainLeaves`). Holds. |
| `tempban` | as `vote` | The comment at `gravgunmod.cpp:330` says the third `votetempban` bans the initiator (`TempBanBans`). Violated: the guard of `GGM_TempBan` returns for players. |
| `accounts` | 2 players, 2 uids, 2 nicknames, 1 account, auth ids that arrive late | `TypeOK`, `NoDanglingState`, `AccountIsProven`. Holds. |
| `rivals` | 2 players with one uid, 2 nicknames, 2 accounts, saved games, 2 logins | `LatestLoginWins`: list and files agree on who a player is. A list with logins to two accounts for one uid and nickname needs a loaded game. Holds. |
| `shared` | 2 players, 1 uid, a bad nickname, 2 passwords, other servers, saved games, 1 login | `AccountsOnFile`, `LoginByCurrentPassword`, `PasswordStaysOwners`, `NoBannedAccount`, `BanSticks`. Holds. |
| `logout` | 1 player | The comment at `gravgunmod.cpp:1825` says `GGM_Logout` removes the login (`LogoutRemovesLogin`). Violated: the file is removed after it was read again. |
| `spawned` | 2 players with one uid | The comment at `gravgunmod.h:162` says every spawned player has a state (`SpawnedHasState`). Violated: another player's login frees it. |
| `transition` | 3 maps in a loop, 4 triggers, one map with `newunit`, one with an end of section, one with a long name; 5 events (changes of level, two in a frame included, autosaves, loads, crashes, also inside a file) | Every visited map is where it is in the world (`WorldAgrees`), also in the saves, whole or cut (`SavesAgree`); a trigger forgets no map and moves none (`TriggerKeepsMaps`); a load brings back what a whole save holds (`LoadRestores`); fLoading does not outlive its load (`FlagMeansLoad`); slots are on disk (`SlotsOnDisk`), an autosave spares the one before it (`PreviousAutosaveKept`), players spawn in a known map (`SpawnPlaceKnown`). Holds. |
| `cutsave` | as `transition` | The comment at `coop.cpp:11` says that offsets are relative to the current map (`LoadsAgree`). Violated: `COOP_ReadState` returns true for a coop file that a crash has cut before the list of maps (`coop.cpp:151`), and the loaded level is played with the offsets of the map the game was on before. |
| `play` | 6 casts of one or two players, under `FairSpec` | Who plays has a body and who watches has none (`SpectatorAgrees`); nobody plays without a record (`NoPlayWithoutRecord`); the world stands still only while nobody plays (`PauseMeansEmpty`); checkpoints keep their order in five places (`CheckpointsInOrder`); a click on "Join coop" leads into the game or to the checkpoints, or where there are some and a vote has just begun, to the vote's menu (`JoinLeadsOn`); who keeps pressing buttons gets in (`GetsIn`) and comes back from death (`ComesBack`). Holds. |

Why the bounds are enough. Nothing in the vote compares two players other than
as initiator and somebody else, and confirmations are compared with a count of
players: two players and confirmations up to two meet every comparison both
ways. Two triggers are what a second change of level needs;
two trains what leaving one behind needs. `leaving` has no back trigger and
opens no vote; that a vote or a back trigger starts no second change either is
proved (`LevelsChangeOneAtATime`). Delays of one tick separate *before*,
*at* and *after* each deadline; ages run one tick past them. In the registry two
players share a record or do not, two uids and two nicknames make up a login
pair and its neighbours, and a second account is needed only for the order of
logins, which `rivals` has.

`transition`: three maps are the smallest loop that is not there and back, with
different offsets between each pair, so that a sign or a landmark exchanged
shows. Five events reach a loop closed, a save made on it, and a load, a crash
or a failed load in any order after it; and a game on one map, a save cut on
another, and the load that takes the one for the other. `play`: `Talker` is one player with
every command and menu; `Collector` makes six checkpoints for five places;
`Restless` leaves, renames and loses loads; `Pair` and `TornPair` are two
players with a shared `st_fSkipNext`, with menus and with failing loads;
`OpenPair` has `mp_coop_pause` and `mp_spectator` off. The casts are
alternatives of one run because what they vary is independent. Two players are
enough: a player meets others only through the pause, the checkpoints, the
flags and the records.

Fairness. `FairSpec` assumes `WF(Tick)`: the server's clock runs, which the
engine's frame loop guarantees; and `WF(GGM_ServerActivate)`: a queued
changelevel is carried out. Nothing is assumed of the players in `CoopVote`. `VoteRunsOut` says a
vote ends *or becomes too old*: the code drops an old vote only when the next
command or vote looks at it, and `NoHijack` with the opening actions shows that
an old vote does not stop a new one.

`CoopPlayer`'s `FairSpec` assumes of each player what `GetsIn` and `ComesBack`
say: that it releases the buttons, and presses one, again and again, while the
server runs (`PreThink` is called every frame). Nothing is assumed of the
engine, of leavers or of loads. `GetsIn` excepts games in which a failed load
leaves `fLoading` set for ever, `ComesBack` asks that players stop dying at
some time, because `st_fSkipNext` is one flag for all: a death of one player
may take the turn of another.

Every property of a passing run has a mutant, a plausible bug in one mapped
definition (written before the definition and marked *Mutant*), which makes
TLC find the property violated.

### What the models showed beside the runs

Behaviours of the code that no property calls wrong, met while modelling:

* Anybody may carry a vote alone: `voteconfirm` and `votecancel` are counted
  from spectators, from the banned and from the same player again and again
  (`gravgunmod.cpp:259-288`), and no document says whose confirmations count.
  `VoteRound`, `BackNeedsMandate` and `RoundSpec` are therefore about numbers of
  commands.
* A banned player who touches a forward trigger is not counted, but starts the
  change the others are counted for (`triggers.cpp:1590-1666`). The comment at
  `gravgunmod.cpp:331` says the ban is from activating a change of level.
* A player who left while spawned and whose entity the engine kept is counted
  among those who could leave, and can so block a forward trigger.
* A spectator who clicks "Join coop" within two seconds of the start of a vote,
  where there are checkpoints, gets the menu of the vote instead, and the join
  menu is gone. In `STATE_SPECTATOR_BEGIN` `coopmenu` shows nothing, so only typing
  `joincoop` or `spectate` leads on.
* Two triggers used in one frame both ask for a level. The transition is that of
  the second, so the first level to be activated is a new game, and a start save
  asked for on the way may be made on another map than its name says.
* A load that fails leaves `fLoading` set: everybody who spawns goes to
  LOAD_FIX, and the next change of level is taken for a load, until a trigger
  is used or a level is activated. With `mp_coop_pause` the world stays paused.
* A load asked for again before anybody spawned on the loaded level is taken
  for the engine's second activation and swallowed (`coop.cpp:732`).
* After a load, `pCurrentMap` may be NULL until the level is activated, and
  checkpoints and autosaves do not ask.
* On the way a-b-a-c-a the save made on first reaching a is written over:
  `COOP_MapStartSave` knows the last two maps only, though the comment at
  `coop.cpp:306` speaks of moving to the previous map and back.
* For maps with long names both paths of `GGM_Save` are cut to one file, and
  the coop state replaces the players. `COOP_ClearSaves` compares prefixes, so
  it also spares saves of maps whose name begins with the old map's.
* A spectator who came from LOAD_FIX has no record, and `joincoop` refuses it
  without a word.
* The comment at `coop.cpp:856` says that dead players are shown the checkpoint
  menu; with two dead players one may not be, and what the flag has left over
  skips the menu of a later death.
* A player who returns with a kept entity gets no join menu when
  `m_fGameHUDInitialized` is already set, and `coopmenu` shows nothing in
  `STATE_SPECTATOR_BEGIN`; typing `joincoop` or `spectate` leads on.
* `loadcheckpoint i` loads what is the i-th checkpoint when it is clicked, not
  when the menu was shown.
* A trigger lets a single toucher through and then refuses two of nine:
  `count1 > 1 && count1 < count2 / 3` (`triggers.cpp:1651`) makes agreement not
  monotonic. No document says what it should be.
* `login_list` grows with every login after a change of level
  (`gravgunmod.cpp:2143`), and `zombietime` is restored from a variable that may
  never have been set (`:1160`).
* Near the edict limit the collection of entities runs inside the creation of
  one (`:657`).
* The creation score of the entity tools starts anew whenever the player is put
  in the server, and its window of 60 seconds starts at the first use after the
  last one ended, so a sliding minute may hold twice the limit.

## 4. Proofs

Every property of a passing run is also a theorem, except the three about
liveness. TLC shows it on the instance of the run, TLAPS for every value of the
constants that satisfies the module's assumption, and from nothing else. Each
proof strengthens the properties to an invariant that every step keeps. TLC
finds each of them to hold on the instances of the runs too: `LInv` on
`accounts`, `rivals` and `shared`, `CoopTransitionProofs`' `IInv` on `transition`,
`LateComers` on `leaving`; the others are conjunctions of invariants the runs check.

| module | theorems (property) |
|---|---|
| `CoopVoteProofs` | `TypeCorrect` (`TypeOK`), `VoteIsSound` (`VoteSound`) |
| `CoopVoteStepProofs` | `LevelsChangeOneAtATime` (`OneChangeAtATime`), `VotesEndWithTheLevel` (`VoteEndsWithLevel`), `TrainsLeaveTogether` (`OneTrainLeaves`), `GoingBackNeedsMandate` (`BackNeedsMandate`), `VotesAreNotHijacked` (`NoHijack`), `TheBannedOpenNothing` (`BannedOpenNothing`), `BackVotesAreDeliberate` (`BackVoteIsDeliberate`), `VotesAreRounds` (`RoundSpec`) |
| `GGMRegistryProofs` | `TypeCorrect` (`TypeOK`), `NothingDangles` (`NoDanglingState`), `AccountsAreOnFile` (`AccountsOnFile`) |
| `GGMRegistryLoginProofs` | `AccountsAreProven` (`AccountIsProven`), `TheLatestLoginWins` (`LatestLoginWins`), `NoAccountIsBanned` (`NoBannedAccount`), `LoginsNeedThePassword` (`LoginByCurrentPassword`), `PasswordsStayTheOwners` (`PasswordStaysOwners`), `BansStick` (`BanSticks`) |
| `CoopTransitionProofs` | `TypeCorrect` (`TypeOK`), `WorldAlwaysAgrees` (`WorldAgrees`), `SavesAlwaysAgree` (`SavesAgree`), `FlagAlwaysMeansLoad` (`FlagMeansLoad`), `SlotsAreOnDisk` (`SlotsOnDisk`), `SpawnPlaceIsKnown` (`SpawnPlaceKnown`), `AutosavesAlternate` (`PreviousAutosaveKept`), `TriggersKeepMaps` (`TriggerKeepsMaps`), `LoadsRestore` (`LoadRestores`) |
| `CoopPlayerProofs` | `TypeCorrect` (`TypeOK`), `SpectatorAlwaysAgrees` (`SpectatorAgrees`), `NobodyPlaysWithoutRecord` (`NoPlayWithoutRecord`), `PauseAlwaysMeansEmpty` (`PauseMeansEmpty`), `CheckpointsAlwaysInOrder` (`CheckpointsInOrder`), `JoiningLeadsOn` (`JoinLeadsOn`) |

**`CoopVoteProofs`**, for every set of players, of back triggers and of forward
triggers, from `ConstAssumption`. Neither invariant is inductive alone:
`IInv == TypeOK /\ VoteSound`. The types need soundness, because a confirmation
dispatches the trigger of the running vote, and only soundness says that this
is a trigger of the level the code may touch; soundness needs the types,
because the copy of the session that nested calls hand to each other (menu
confirmation, `GGM_ChangelevelVote`, touch of the trigger, opening of the next
vote) is a value whose fields the lemmas must know. The lemmas follow those
nested calls from the inside out (`ChangelevelVoteOK`, `DispatchTouchOK`,
`ActivateOK`, ...), then there is one lemma for each action, `NextIInv` joins
them and `IInvAlways` is the temporal step.

**`CoopVoteStepProofs`** asks of every step what it does, and `IInv` is all
the invariant that seven of its theorems need. `VoteStep` is the list of what
may become of the vote: the same round untouched, answered in time, or aged;
no vote; the voted command run because the commands for it exceed half the
number asked; a new vote where none was running, by a player who is not banned,
and about a back trigger only after two clicks. `CallStep` adds
what may become of the level: nothing, or that one trigger changes it
(`Departs`), by use or because everyone needed agrees (`Agreed`). The touch is
where both meet: `AnswerIs` and `TouchIs` say what the answer of
`GGM_ChangelevelVote` can be and when a touch goes on to change the level,
`ConfirmSession` (in `CoopVoteProofs`) what the vote is that such a touch sees
from inside a confirmation. `StepIs` joins the actions, and the action
properties and the refinement follow from it: each alternative of `VoteStep` is
an action of `VoteRound` or a stutter. `OneChangeAtATime` says that while
the level is changing no trigger that cannot be used starts to change it,
unless somebody rides a train: a used trigger asks nobody, and for the rider
of a train nobody is counted. It is not inductive: that
nobody starts a second change depends on who may be in the game while the
first is under way. `LateComers` says so, of changes by touch and by use alike:
whoever is visible in the game spawned after the level changed, and the engine
takes at most `LoadDelay` for the change, which is no longer than `SpawnDelay`,
so none of them counts yet (`NobodyCounts`), and a touch counts nobody. This is
where the assumption `LoadDelay <= TouchMemory` was found to be missing: with a shorter
memory the model's capped age would never reach the deadline. The instances of
the runs satisfied it before.

**`GGMRegistryProofs`**, for every number of players, uids, nicknames, accounts
and passwords, for lists of any length, from `RegistryAssumption`. The
inductive invariant is the conjunction of the three, again because none is
inductive alone: a pointer is sound only if the login it was read from is, a
login that is read from a file finds its account only if the account is on
file, and a loaded game has typed passwords only if its accounts are. The
argument is that a search never takes anything away: `Grown(l, m)` says that m
is sound and has every record of l, every search operator of the module
satisfies it (`GetRegistrationOK`, `LoadLoginOK`, `GetStateOK`, ...), and it is
transitive. The actions that do take something away are `GGM_FreeState`, which
also takes the pointers (`FreeStateOK`), `GGM_Logout`, which takes a login, to
which nothing points, and the steps after which no player has a record
(`ForgetStep`). `First` is the library's well-founded order on `Nat`
(`FirstIn`).

**`GGMRegistryLoginProofs`**, from the same assumption. That a player's account
was proven is not inductive: the player got it from a login in the list, the
list got that from a file, and a file may be older than the process. So `LInv`
adds to `IInv` that every login in the list and every login file is proven
(`LoginsProven`, `FilesProven`), that no account in memory or in a saved game is
banned (`Unbanned`, `SavedUnbanned`), and, without other servers, that the
first login of each uid and nickname is to the account in its file
(`LatestIs`). `LatestIs` takes a set of exceptions, for the middle of a logout:
the first login has left the list, the next one for the same nickname may be to
another account, and the file has not gone yet. The argument follows the
searches again: `Sought(l, m, u, n)` says that a search keeps the bans and adds
at most the login in the file of u and n, at the front of the list. Of the
steps that free a record, a registration asks for one that is not banned
(`RegisterBans`), and a login is what `BanSticks` excepts (`LoginBans`).

**`CoopTransitionProofs`**, for every set of maps, landmarks and triggers and
any positions of theirs, for any number of events, from `TransitionAssumption`
(in which the names that stand for no map, no landmark, no save and no file
differ from maps, landmarks, saves and files). What the game knows, what the
files know and what the engine has yet to execute hold each other up, and each
needs its own part of `IInv`:

* `SavesQueued`: a queued save is a start save. Whether it is still of the level
  that runs when it is executed is not known, as nothing orders the commands;
  `Whole` marks the ones that are not, and `SavesAgree` excepts them.
* `WorldKnown`, `PlacesKnown`: offsets and spawn place, except between a load
  that was read and the engine's executing it (`Settled`). With a list that a
  crash has cut the offsets are right and the spawn place may be unknown.
* `LandmarkKnown`: while a transition is set up, its landmark belongs to the
  level it was set up on, at its place there. From this and `WorldKnown` the
  sums of `COOP_ProcessTransition` come out (`OffsetsRelative` moves from one
  map to the other). A second change of level in the frame keeps it: the later
  trigger overwrites all of the transition, and an activation clears it.
* `LoadPending`: the map states a queued load has read are still those of its
  file, unless the game is spoiled or the engine will refuse the load.
* `FilesKnown` (`CoopFileOK`): what a file holds is right as far as it was
  written, when it is read back.
* `SlotsKnown`: each slot is on disk or queued, also while `fLoading` is left
  over from a load that failed. `CounterKnown` (`LastAutosave`): the last
  autosave is under the name the counter says, which is why the next one spares
  it; in memory unless a load has read only a part of `p`, and in every file
  that can be gone on with.

**`CoopPlayerProofs`**, for every set of players, every set of casts of the
right type and any number of checkpoints, from `PlayerAssumption`. The five
invariants of the run are inductive together: spawning needs the pause to be off
for the others, which `PauseMeansEmpty` gives, the checkpoint menu is
well typed only if the list of checkpoints ends, which `CheckpointsInOrder`
says, and both need the types. As the calls nest, the lemmas are about
sessions: `SessionOK` is what the invariants say of the player a callback is
about, `Leads` what a callback may not do to the others (begin or end a load or
a level, or stop the world), and both are shown for each nested call
(`SpawnPlayerOK`, ...) and carried through menu, command and spawn. `JoinLeadsOn`
then says what the command finds after `MenuSelect` has closed its menu and
`GGM_VoteProcess` has perhaps opened that of a vote.

Only model-checked: `VoteRunsOut`, `GetsIn` and `ComesBack`, because liveness
under fairness is out of the prover's reach; and of course the four properties
that the code violates.

## 5. Plan

1. `CoopVote`, `VoteRound` with their proofs: done.
2. `GGMRegistry` with its proofs: done.
3. `CoopTransition` with its proofs: done.
4. `CoopPlayer` with its proofs: done.
5. `OneChangeAtATime` where triggers can be used or trains ride: done.
6. `EntTools` with collection: score, ownership.
7. Stock pieces with protocols of their own: multi_manager, doors and trains,
   voice manager.

## 6. Not modelled

Continuous state (movement, physics, damage, monsters), rendering and the
client, weapons, and administration commands; the reasons are with the
components in `PROJECT.json`. They are most of the repository's lines, and
stock Half-Life: what GunMod adds to them is the part modelled here. The
contents of player records and positions are data no property here tells apart.

The entity tools and the collection of entities are left out. They meet the
coop core in one place (the score that `GGM_ClientPutinServer` resets), and
what they decide depends on names, owners and classes of a level's entities,
which no module keeps.

Hazards without a property are in `PROJECT.json` with the reason.

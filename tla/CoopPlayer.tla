----------------------------- MODULE CoopPlayer -----------------------------
(***************************************************************************)
(* A player's way into the game and back into it after death              *)
(* (dlls/gravgunmod.cpp, dlls/coop.cpp, dlls/client.cpp, dlls/player.cpp,  *)
(* dlls/multiplay_gamerules.cpp), with the checkpoints of the map and the  *)
(* menus they are offered in.  mp_coop is on.                              *)
(*                                                                         *)
(* A step is one engine callback, run to its end.  Callbacks nest: a menu  *)
(* item runs a client command, a command spawns the player, and spawning   *)
(* may put it in the server first.  So the operators between the entry     *)
(* points take a session: the player's entity and the game as they stand   *)
(* at that point of the callback, [me |-> ..., game |-> ...].              *)
(***************************************************************************)
EXTENDS Integers, Sequences, Functions

CONSTANTS
  Player,   \* the client slots
  Casts     \* what kinds of games are played: one of these per behaviour

ASSUME PlayerAssumption ==
  Casts \subseteq
    [players : SUBSET Player,     \* those who take part
     leavers : SUBSET Player,     \* who disconnect and connect again
     renamers : SUBSET Player,    \* who change their nickname
     shadowed : SUBSET Player,    \* whose nickname may turn out to be the
                                  \* login of somebody else: no record for them
     clickers : SUBSET Player,    \* who select menu items
     says : [Player -> SUBSET STRING],     \* the commands they type
     keeps : SUBSET BOOLEAN,      \* may the engine keep, or drop, the entities
                                  \* of a level or of a client that is gone
     torn : BOOLEAN,              \* a save's files may be unreadable
     votes : BOOLEAN,             \* votes are held (CoopVote): menus by force
     mp_coop_pause : BOOLEAN,     \* the cvar: a new level waits for a player
     mp_spectator : BOOLEAN,      \* the cvar: everybody starts as a spectator
     checkpoints : Nat]           \* bound: checkpoints made on one map

VARIABLES
  conn,   \* per slot: the engine's client, "free", "connected" or "active"
  pl,     \* per slot: the player's entity
  game,   \* what all players share
  cast    \* the game that is played, fixed

pvars == <<conn, pl, game, cast>>

Places == 5          \* rgCheckpoints has five places
Shifted == 3         \* of which memmove shifts three

(* Menus.  An item is the command it runs. *)
MenuPlaces == 5
Cmd(c) == [cmd |-> c, arg |-> 0]
LoadCmd(i) == [cmd |-> "loadcheckpoint", arg |-> i]
Cancel == Cmd("")

\* A command that changes nothing here: unblock, and everything about votes.
Other == Cmd("other")

NoMenu == [m_fShow |-> FALSE, items |-> <<>>]

\* GGM_PlayerMenu::New, unforced: a menu that is shown stays as it is.
New(m, force) == IF m.m_fShow /\ ~force THEN m ELSE NoMenu

\* GGM_PlayerMenu::Add of one item after the other: as many as there is room for.
FirstOf(items, n) == SubSeq(items, 1, IF Len(items) < n THEN Len(items) ELSE n)
AddAll(m, items) ==
  IF m.m_fShow THEN m ELSE [m EXCEPT !.items = FirstOf(@ \o items, MenuPlaces)]

\* Nothing is shown to an entity that was never put in the server.
Show(me, m) == [me EXCEPT !.menu = [m EXCEPT !.m_fShow = @ \/ me.m_pPlayer]]

ShowMenu(me, items, force) == Show(me, AddAll(New(me.menu, force), items))

\* The menus of GGM_InitialMenus, of COOP_ClientCommand and of votes.  One save
\* slot stands for all.
InitialMenu == <<Cmd("joincoop"), Cmd("spectate")>>
SpectatorMenu == <<Cmd("joincoop"), Cancel>>
CoopMenu == <<Other, Cmd("respawn"), Cmd("coopmenu1"), Cmd("checkpointmenu"), Cancel>>
CoopMenu1 == <<Cmd("respawn"), Cmd("spectate"), Cmd("voteload"), Cancel>>
SaveMenu == <<Other, Cancel>>
VoteMenu == <<Other, Other, Other>>
BackMenu == <<Other, Cancel>>

(* The entity *)
Alloc ==
  [iState |-> "UNINITIALIZED",
   spectator |-> FALSE,             \* FL_SPECTATOR
   deadflag |-> "NO",
   alive |-> TRUE,                  \* health > 0
   pState |-> FALSE,                \* m_ggm.pState is a record
   m_fGameHUDInitialized |-> FALSE,
   m_pPlayer |-> FALSE,             \* menu.m_pPlayer is set
   menu |-> NoMenu]

NoEntity == [Alloc EXCEPT !.iState = "NONE"]

HasEntity(p) == pl[p].iState # "NONE"

UTIL_BecomeSpectator(me) == [me EXCEPT !.spectator = TRUE, !.alive = TRUE]

(* Spawning.  busy: the nickname is somebody else's login. *)
GGM_ClientPutinServer(me, busy) ==
  IF me.iState = "LOAD_FIX" THEN me
  ELSE [me EXCEPT !.iState = "CONNECTED", !.m_pPlayer = TRUE,
                  !.menu = NoMenu, !.pState = ~busy]

GGM_ClientFirstSpawn(me) == IF cast.mp_spectator THEN UTIL_BecomeSpectator(me) ELSE me

\* CBasePlayer::Spawn up to the game rules: a body, whatever comes of it.
Body(me) == [me EXCEPT !.spectator = FALSE, !.deadflag = "NO", !.alive = TRUE]

\* Mutants: a player without a record is let in; the first player does not
\* end the pause.
PlacedWithoutRecord(s) ==
  IF s.game.fLoading \/ s.me.iState = "LOAD_FIX"
    THEN [s EXCEPT !.me.iState = "LOAD_FIX"]
  ELSE IF s.me.iState = "CONNECTED"
    THEN [s EXCEPT !.me = UTIL_BecomeSpectator([@ EXCEPT !.iState = "SPECTATOR_BEGIN"])]
  ELSE [s EXCEPT !.me.iState = "SPAWNED", !.game.g_fPause = FALSE]
PlacedInPause(s) ==
  IF s.game.fLoading \/ s.me.iState = "LOAD_FIX"
    THEN [s EXCEPT !.me.iState = "LOAD_FIX"]
  ELSE IF s.me.iState = "CONNECTED" \/ ~s.me.pState
    THEN [s EXCEPT !.me = UTIL_BecomeSpectator([@ EXCEPT !.iState = "SPECTATOR_BEGIN"])]
  ELSE [s EXCEPT !.me.iState = "SPAWNED"]

\* GGM_PlayerSpawn, from where the player is not put in the server.
Placed(s) ==
  IF s.game.fLoading \/ s.me.iState = "LOAD_FIX"
    THEN [s EXCEPT !.me.iState = "LOAD_FIX"]
  ELSE IF s.me.iState = "CONNECTED" \/ ~s.me.pState
    THEN [s EXCEPT !.me = UTIL_BecomeSpectator([@ EXCEPT !.iState = "SPECTATOR_BEGIN"])]
  ELSE [s EXCEPT !.me.iState = "SPAWNED", !.game.g_fPause = FALSE]

ClientPutInServer(s, busy) ==
  LET put == [s EXCEPT !.me = Body(GGM_ClientPutinServer(@, busy))]
      at == Placed(put)
  IN  [at EXCEPT !.me = GGM_ClientFirstSpawn(@)]

Spawn(s, busy) ==
  IF s.me.iState = "UNINITIALIZED" /\ ~s.game.fLoading
    THEN ClientPutInServer([s EXCEPT !.me = Body(@)], busy)
  ELSE Placed([s EXCEPT !.me = Body(@)])

UTIL_SpawnPlayer(s, busy) ==
  IF s.me.iState = "LOAD_FIX" \/ ~s.me.pState THEN s
  ELSE Spawn([s EXCEPT !.me.iState = IF @ = "SPECTATOR" THEN "SPAWNED" ELSE @], busy)

(* Checkpoints *)

\* Mutants: the whole list is kept, or four places are shifted.
PushCheckpointOnAll(list, c) == <<c>> \o list
PushCheckpointFour(list, c) == <<c>> \o SubSeq(list, 1, 4)

PushCheckpoint(list, c) ==
  [i \in 1..Places |->
     IF i = 1 THEN c ELSE IF i <= Shifted + 1 THEN list[i - 1] ELSE list[i]]

\* The loop of COOP_CheckpointMenu runs to the first place that is empty.
Offered(list) == {i \in 1..Places : \A j \in 1..i : list[j] # 0}

COOP_CheckpointMenu(s) ==
  LET first == IF s.me.iState \in {"SPECTATOR", "SPECTATOR_BEGIN"} \/ ~s.me.alive
                 THEN Cmd("respawn") ELSE Cmd("newcheckpoint")
      loads == [i \in Offered(s.game.rgCheckpoints) |-> LoadCmd(i - 1)]
  IN  [s EXCEPT !.me = ShowMenu(@, <<first>> \o loads, FALSE)]

Room(list) == list[1] < cast.checkpoints

\* A checkpoint is known by its number; the newest has the highest.
COOP_NewCheckpoint(s) ==
  IF ~s.me.alive \/ ~Room(s.game.rgCheckpoints) THEN s
  ELSE [s EXCEPT !.game.rgCheckpoints = PushCheckpoint(@, @[1] + 1)]

(* Client commands *)
Respawn(s, busy) == UTIL_SpawnPlayer(s, busy)

JoinCoop(s, busy) ==
  IF s.me.iState = "SPAWNED" THEN s
  ELSE IF s.game.rgCheckpoints[1] # 0 THEN COOP_CheckpointMenu(s)
  ELSE UTIL_SpawnPlayer(s, busy)

\* Mutant: the spectator keeps its body.
SpectateInBody(s) == [s EXCEPT !.me.iState = "SPECTATOR"]

Spectate(s) ==
  [s EXCEPT !.me = [UTIL_BecomeSpectator(@) EXCEPT !.iState = "SPECTATOR"]]

LoadCheckpoint(s, busy) ==
  IF s.me.iState # "SPAWNED" \/ ~s.me.alive THEN UTIL_SpawnPlayer(s, busy) ELSE s

NewCheckpoint(s) == IF s.me.iState = "SPAWNED" THEN COOP_NewCheckpoint(s) ELSE s

OpenCoopMenu(s) ==
  CASE s.me.iState = "SPAWNED" -> [s EXCEPT !.me = ShowMenu(@, CoopMenu, TRUE)]
    [] s.me.iState = "SPECTATOR" -> [s EXCEPT !.me = ShowMenu(@, SpectatorMenu, TRUE)]
    [] OTHER -> s

OpenCoopMenu1(s) ==
  IF s.me.iState = "SPAWNED" THEN [s EXCEPT !.me = ShowMenu(@, CoopMenu1, TRUE)] ELSE s

OpenSaveMenu(s) ==
  IF s.me.iState = "SPAWNED" THEN [s EXCEPT !.me = ShowMenu(@, SaveMenu, FALSE)] ELSE s

COOP_ClientCommand(s, c, busy) ==
  CASE c.cmd = "joincoop"       -> JoinCoop(s, busy)
    [] c.cmd = "respawn"        -> Respawn(s, busy)
    [] c.cmd = "checkpointmenu" -> COOP_CheckpointMenu(s)
    [] c.cmd = "loadcheckpoint" -> LoadCheckpoint(s, busy)
    [] c.cmd = "newcheckpoint"  -> NewCheckpoint(s)
    [] c.cmd = "coopmenu"       -> OpenCoopMenu(s)
    [] c.cmd = "coopmenu1"      -> OpenCoopMenu1(s)
    [] c.cmd = "voteload"       -> OpenSaveMenu(s)
    [] OTHER                    -> s

\* The vote menu takes the place of whatever is shown.
GGM_SendVote(me) == ShowMenu(me, VoteMenu, TRUE)

\* GGM_VoteProcess.  asked: a vote was started less than VOTE_MISCLICK_TIME ago;
\* then whoever gives a command is sent the menu of that vote first.
GGM_VoteProcess(s, asked) == IF asked THEN [s EXCEPT !.me = GGM_SendVote(@)] ELSE s

\* ClientCommand, which does not come to votes with "spectate".
Run(s, c, asked, busy) ==
  CASE c = Cancel          -> s
    [] c.cmd = "spectate"  -> Spectate(s)
    [] OTHER               -> COOP_ClientCommand(GGM_VoteProcess(s, asked), c, busy)

\* Mutant: the menu is closed after the command.
SelectedThenClosed(s, i, asked, busy) ==
  LET ran == IF i > Len(s.me.menu.items) THEN s ELSE Run(s, s.me.menu.items[i], asked, busy)
  IN  [ran EXCEPT !.me.menu.m_fShow = FALSE]

\* GGM_PlayerMenu::MenuSelect closes the menu before it runs the command, so
\* that the command can show the next one.  Items stay until the next menu.
Selected(s, i, asked, busy) ==
  LET closed == [s EXCEPT !.me.menu.m_fShow = FALSE]
  IN  IF i > Len(s.me.menu.items) THEN closed
      ELSE Run(closed, s.me.menu.items[i], asked, busy)

(* Dying *)

\* Mutant: the menu is shown again and again.
COOP_PlayerDeathAsks(s) ==
  IF s.game.st_fSkipNext
    THEN [s EXCEPT !.game.st_fSkipNext = FALSE, !.me.deadflag = "RESPAWNABLE"]
  ELSE IF s.me.alive \/ s.me.iState # "SPAWNED" THEN s
  ELSE IF s.game.rgCheckpoints[1] # 0 THEN COOP_CheckpointMenu(s)
  ELSE [s EXCEPT !.me.deadflag = "RESPAWNABLE"]

COOP_PlayerDeath(s) ==
  IF s.game.st_fSkipNext
    THEN [s EXCEPT !.game.st_fSkipNext = FALSE, !.me.deadflag = "RESPAWNABLE"]
  ELSE IF s.me.alive \/ s.me.iState # "SPAWNED" THEN s
  ELSE IF s.game.rgCheckpoints[1] # 0
    THEN [COOP_CheckpointMenu(s) EXCEPT !.game.st_fSkipNext = TRUE]
  ELSE [s EXCEPT !.me.deadflag = "RESPAWNABLE"]

\* CBasePlayer::PlayerDeathThink.  up: no button is held; done: the body has
\* come to rest.
PlayerDeathThink(s, up, done, busy) ==
  CASE s.me.deadflag = "DYING" /\ ~done -> s
    [] s.me.deadflag = "RESPAWNABLE" -> IF up THEN s ELSE Spawn(s, busy)
    [] OTHER ->
       LET dead == [s EXCEPT !.me.deadflag = "DEAD"]
       IN  IF up THEN COOP_PlayerDeath(dead) ELSE dead

\* Mutant: LOAD_FIX loses the record but is not left.
PlayerThinkStays(s, buttons, busy) ==
  CASE s.me.iState = "LOAD_FIX" /\ buttons = "act" -> [s EXCEPT !.me.pState = FALSE]
    [] s.me.iState = "UNINITIALIZED" /\ buttons # "up" -> ClientPutInServer(s, busy)
    [] OTHER -> s

(* The parts of CBasePlayer::PreThink.  buttons: "up", "held" or "act", one *)
(* of the action buttons has just been pressed.                             *)
PlayerThink(s, buttons, busy) ==
  CASE s.me.iState = "LOAD_FIX" /\ buttons = "act" ->
         [s EXCEPT !.me.iState = "UNINITIALIZED", !.me.pState = FALSE]
    [] s.me.iState = "UNINITIALIZED" /\ buttons # "up" -> ClientPutInServer(s, busy)
    [] OTHER -> s

GGM_InitialMenus(s) ==
  IF s.me.iState # "SPECTATOR_BEGIN" THEN s
  ELSE [s EXCEPT !.me = ShowMenu(@, InitialMenu, TRUE)]

InitHUD(s, busy) ==
  GGM_InitialMenus(IF s.me.iState \in {"UNINITIALIZED", "CONNECTED"}
                     THEN ClientPutInServer(s, busy) ELSE s)

UpdateClientData(s, busy) ==
  IF s.me.m_fGameHUDInitialized THEN s
  ELSE [InitHUD(s, busy) EXCEPT !.me.m_fGameHUDInitialized = TRUE]

-----------------------------------------------------------------------------
(* Entry points *)

Session(p) == [me |-> pl[p], game |-> game]

Return(p, s) ==
  /\ \E end \in {s} : pl' = [pl EXCEPT ![p] = end.me] /\ game' = end.game
  /\ UNCHANGED <<conn, cast>>

\* While the engine loads a saved game it calls nobody.
Serving == game.level # "loading"

Playing(p) == Serving /\ conn[p] = "active"

PreThink(p, buttons, done, busy) ==
  /\ Playing(p)
  /\ \E thought \in {PlayerThink(Session(p), buttons, busy)} :
       \E updated \in {UpdateClientData(thought, busy)} :
         Return(p, IF updated.me.deadflag = "NO" THEN updated
                   ELSE PlayerDeathThink(updated, buttons = "up", done, busy))

\* CBasePlayer::Killed: by anything in the world, or by the player itself.
Killed(p) ==
  /\ Playing(p) /\ ~pl[p].spectator /\ pl[p].deadflag = "NO"
  /\ pl' = [pl EXCEPT ![p].deadflag = "DYING", ![p].alive = FALSE]
  /\ UNCHANGED <<conn, game, cast>>

ClientCommand(p, c, asked, busy) ==
  /\ Serving /\ conn[p] # "free" /\ HasEntity(p)
  /\ Return(p, Run(Session(p), c, asked, busy))

\* A selection by an entity that was never put in the server is left out:
\* MenuSelect would dereference a NULL m_pPlayer.
MenuSelect(p, i, asked, busy) ==
  /\ Serving /\ p \in cast.clickers /\ conn[p] # "free" /\ HasEntity(p)
  /\ i <= Len(pl[p].menu.items) => pl[p].m_pPlayer
  /\ Return(p, Selected(Session(p), i, asked, busy))

\* A vote is started (CoopVote), and everybody in the game is asked but those
\* who are banned from votes.
GGM_BroadcastVote(banned) ==
  /\ cast.votes /\ Serving
  /\ pl' = [p \in Player |-> IF pl[p].iState = "SPAWNED" /\ p \notin banned
                              THEN GGM_SendVote(pl[p]) ELSE pl[p]]
  /\ UNCHANGED <<conn, game, cast>>

\* GGM_ChangelevelVote asks the player at a trigger that leads back.
AskBack(p) ==
  /\ cast.votes /\ Playing(p) /\ pl[p].iState = "SPAWNED"
  /\ pl' = [pl EXCEPT ![p] = ShowMenu(@, BackMenu, FALSE)]
  /\ UNCHANGED <<conn, game, cast>>

\* A new client, or one that reconnects without having disconnected.
ClientConnect(p) ==
  /\ Serving /\ p \in cast.players /\ (conn[p] = "free" \/ p \in cast.leavers)
  /\ conn' = [conn EXCEPT ![p] = "connected"]
  /\ pl' = IF ~HasEntity(p) \/ pl[p].iState = "LOAD_FIX" THEN pl
           ELSE [pl EXCEPT ![p] = UTIL_BecomeSpectator([@ EXCEPT !.iState = "UNINITIALIZED"])]
  /\ UNCHANGED <<game, cast>>

EnterServer(p, busy) ==
  /\ Serving /\ conn[p] = "connected"
  /\ LET s == Session(p)
         alloc == IF HasEntity(p) THEN s ELSE [s EXCEPT !.me = Alloc]
         put == ClientPutInServer(alloc, busy)
     IN  pl' = [pl EXCEPT ![p] = put.me] /\ game' = put.game
  /\ conn' = [conn EXCEPT ![p] = "active"]
  /\ UNCHANGED cast

ClientDisconnect(p, keep) ==
  /\ Serving /\ conn[p] # "free" /\ p \in cast.leavers
  /\ conn' = [conn EXCEPT ![p] = "free"]
  /\ pl' = [pl EXCEPT ![p] = IF HasEntity(p) /\ keep
                               THEN [@ EXCEPT !.iState = "UNINITIALIZED"] ELSE NoEntity]
  /\ UNCHANGED <<game, cast>>

\* A name the player has not got now leads to another record, or to none.
ClientUserInfoChanged(p, busy) ==
  /\ Serving /\ p \in cast.renamers /\ conn[p] # "free" /\ HasEntity(p)
  /\ pl[p].pState \/ ~busy
  /\ pl[p].iState # "LOAD_FIX"
  /\ pl' = [pl EXCEPT ![p].pState = ~busy, ![p].iState = "UNINITIALIZED"]
  /\ UNCHANGED <<conn, game, cast>>

(* Levels *)

\* CChangeLevel::ChangeLevelNow; the engine changes level frames later.
ChangeLevelNow ==
  /\ game.level = "run" /\ \E p \in Player : pl[p].iState = "SPAWNED"
  /\ pl' = [p \in Player |-> IF ~HasEntity(p) THEN NoEntity ELSE
               UTIL_BecomeSpectator([pl[p] EXCEPT !.iState = "UNINITIALIZED",
                                                  !.pState = FALSE])]
  /\ game' = [game EXCEPT !.level = "changing", !.g_fPause = TRUE]
  /\ UNCHANGED <<conn, cast>>

GGM_ClearLists == [p \in Player |-> [pl[p] EXCEPT !.pState = FALSE]]

GGM_Load ==
  /\ game.level = "run"
  /\ pl' = GGM_ClearLists
  /\ game' = [game EXCEPT !.fLoading = TRUE, !.level = "loading",
                          !.g_fPause = @ \/ cast.mp_coop_pause]
  /\ UNCHANGED <<conn, cast>>

\* The .coop file is cut short, or the .players file is missing or not
\* readable: each leaves what was done before it.
LoadFails ==
  /\ cast.torn /\ Serving
  /\ \/ game' = [game EXCEPT !.fLoading = TRUE] /\ UNCHANGED pl
     \/ /\ game' = [game EXCEPT !.fLoading = TRUE, !.g_fPause = @ \/ cast.mp_coop_pause]
        /\ pl' \in {pl, GGM_ClearLists}
  /\ UNCHANGED <<conn, cast>>

NoCheckpoints == [i \in 1..Places |-> 0]

\* The map's checkpoints are none, or those of an earlier visit or of the
\* save; fSaved: the players' place was saved on leaving, which is the first.
MapCheckpoints(fSaved) ==
  {IF fSaved /\ ~game.fLoading /\ Room(list)
     THEN PushCheckpoint(list, list[1] + 1) ELSE list :
     list \in {NoCheckpoints, game.rgCheckpoints}}

\* A load makes the player entities anew.
Restored(p) == IF game.level = "loading" THEN Alloc ELSE pl[p]

COOP_ServerActivate(keep, fSaved) ==
  /\ game.level # "run"
  /\ conn' = [p \in Player |-> IF conn[p] = "free" THEN "free" ELSE "connected"]
  /\ pl' = [p \in Player |->
       IF ~keep \/ ~HasEntity(p) THEN NoEntity
       ELSE UTIL_BecomeSpectator([Restored(p) EXCEPT !.pState = FALSE,
              !.iState = IF game.fLoading THEN "LOAD_FIX" ELSE "UNINITIALIZED"])]
  /\ \E list \in MapCheckpoints(fSaved) :
       game' = [game EXCEPT !.level = "run", !.fLoading = FALSE,
                            !.g_fPause = cast.mp_coop_pause, !.rgCheckpoints = list]
  /\ UNCHANGED cast

-----------------------------------------------------------------------------
Found(p) == IF p \in cast.shadowed THEN BOOLEAN ELSE {FALSE}

\* Which checkpoint is asked for decides only where the player is put.
Typed(p) == {Cmd(c) : c \in cast.says[p]}

\* Is a vote being started?
Asked == IF cast.votes THEN BOOLEAN ELSE {FALSE}

Rests(p) == IF pl[p].deadflag = "DYING" THEN BOOLEAN ELSE {TRUE}

Init ==
  /\ cast \in Casts
  /\ conn = [p \in Player |-> "free"]
  /\ pl = [p \in Player |-> NoEntity]
  /\ game = [level |-> "run", fLoading |-> FALSE, g_fPause |-> cast.mp_coop_pause,
             st_fSkipNext |-> FALSE, rgCheckpoints |-> NoCheckpoints]

Callback(p) ==
  \/ \E busy \in Found(p) :
       \/ \E buttons \in {"up", "held", "act"}, done \in Rests(p) :
            PreThink(p, buttons, done, busy)
       \/ \E c \in Typed(p), asked \in Asked : ClientCommand(p, c, asked, busy)
       \/ \E i \in 1..5, asked \in Asked : MenuSelect(p, i, asked, busy)
       \/ EnterServer(p, busy)
       \/ ClientUserInfoChanged(p, busy)
  \/ Killed(p)
  \/ AskBack(p)
  \/ ClientConnect(p)
  \/ \E keep \in cast.keeps : ClientDisconnect(p, keep)

Next ==
  \/ \E p \in Player : Callback(p)
  \/ \E banned \in SUBSET Player : GGM_BroadcastVote(banned)
  \/ ChangeLevelNow
  \/ GGM_Load
  \/ LoadFails
  \/ \E keep \in cast.keeps, fSaved \in BOOLEAN : COOP_ServerActivate(keep, fSaved)

Spec == Init /\ [][Next]_pvars

\* A player lets go of the buttons, and presses one, again and again.
Release(p) == \E busy \in Found(p) : PreThink(p, "up", TRUE, busy)
Press(p) == \E busy \in Found(p) : PreThink(p, "act", TRUE, busy)

FairPlayers == \A p \in Player : WF_pvars(Release(p)) /\ WF_pvars(Press(p))

FairSpec == Spec /\ FairPlayers

-----------------------------------------------------------------------------
(* Properties *)

Item ==
  {Cmd(c) : c \in {"", "joincoop", "respawn", "spectate", "checkpointmenu", "newcheckpoint",
                    "coopmenu1", "other", "voteload"}}
  \cup {LoadCmd(i) : i \in 0..(Places - 1)}

\* POINT_SELECT is a state of the code that nothing enters.
PlayerState == {"NONE", "UNINITIALIZED", "CONNECTED", "SPECTATOR_BEGIN", "SPAWNED", "SPECTATOR",
                "LOAD_FIX"}
Menu == [m_fShow : BOOLEAN, items : Seq(Item)]
Entity ==
  [iState : PlayerState, spectator : BOOLEAN, deadflag : {"NO", "DYING", "DEAD", "RESPAWNABLE"},
   alive : BOOLEAN, pState : BOOLEAN, m_fGameHUDInitialized : BOOLEAN, m_pPlayer : BOOLEAN,
   menu : Menu]
Game ==
  [level : {"run", "changing", "loading"}, fLoading : BOOLEAN, g_fPause : BOOLEAN,
   st_fSkipNext : BOOLEAN, rgCheckpoints : [1..Places -> 0..cast.checkpoints]]

TypeOK ==
  /\ cast \in Casts
  /\ conn \in [Player -> {"free", "connected", "active"}]
  /\ pl \in [Player -> Entity] /\ game \in Game
  /\ \A p \in Player : Len(pl[p].menu.items) <= MenuPlaces

\* Whoever is in the game has a body, and whoever watches, before joining or
\* instead of playing, has none, through every way in and out: the state
\* counts in votes, the flag decides what the engine does with the player.
SpectatorAgrees ==
  \A p \in Player :
    /\ pl[p].iState = "SPAWNED" => ~pl[p].spectator
    /\ pl[p].iState \in {"SPECTATOR_BEGIN", "SPECTATOR"} => pl[p].spectator

\* Nobody plays without a record, whatever command or menu item, old or new,
\* brought the player in; only a load that failed takes records away under
\* players who stay (and another player's login: GGM_FreeState, in GGMRegistry).
NoPlayWithoutRecord ==
  game.fLoading \/ \A p \in Player : pl[p].iState = "SPAWNED" => pl[p].pState

\* The world stands still only while nobody is in the game: g_fPause is set
\* for a new level and cleared by the first player in it.  Only a load that
\* failed may stop it under the players' feet.
PauseMeansEmpty ==
  game.g_fPause /\ ~game.fLoading => \A p \in Player : pl[p].iState # "SPAWNED"

\* The newest checkpoint comes first, and the last place stays empty: that is
\* where the unbounded loop of COOP_CheckpointMenu ends, and with it four
\* checkpoints and the first item are all that a menu has room for.
CheckpointsInOrder ==
  /\ \A i, j \in 1..Places :
       i < j /\ game.rgCheckpoints[j] # 0 => game.rgCheckpoints[i] > game.rgCheckpoints[j]
  /\ game.rgCheckpoints[Places] = 0

\* A spectator who selects "Join coop" is in the game or has the checkpoints
\* on screen, although the menu the item is in is itself being closed.  The
\* click is lost only where there are checkpoints and a vote is being started:
\* then the spectator has the vote on screen.
JoinLeadsOn ==
  [][\A p \in Player : \A i \in 1..5, asked \in Asked, busy \in Found(p) :
       /\ i <= Len(pl[p].menu.items) /\ pl[p].menu.items[i] = Cmd("joincoop")
       /\ pl[p].iState \in {"SPECTATOR_BEGIN", "SPECTATOR"}
       /\ pl[p].pState /\ ~game.fLoading
       /\ MenuSelect(p, i, asked, busy)
       => \/ pl'[p].iState = "SPAWNED"
          \/ pl'[p].menu.m_fShow /\ LoadCmd(0) \in Range(pl'[p].menu.items)
          \/ /\ asked /\ game.rgCheckpoints[1] # 0
             /\ pl'[p].menu.m_fShow /\ pl'[p].menu.items = VoteMenu]_pvars

Waiting(p) ==
  Playing(p) /\ pl[p].iState \in {"UNINITIALIZED", "CONNECTED", "LOAD_FIX"}

\* A connected player who keeps pressing buttons gets past LOAD_FIX and into
\* the server, unless a load that failed stays unanswered for ever.
GetsIn ==
  []<>(~game.fLoading) => \A p \in Player : Waiting(p) ~> ~Waiting(p)

Dead(p) ==
  /\ Playing(p) /\ pl[p].iState = "SPAWNED"
  /\ pl[p].deadflag # "NO" /\ ~pl[p].alive

\* A dead player who keeps pressing buttons comes back, with checkpoints and
\* without, though one flag for all decides who is asked: at the latest when
\* no other player dies any more.
ComesBack ==
  <>[][\A p \in Player : ~Killed(p)]_pvars => \A p \in Player : Dead(p) ~> ~Dead(p)

=============================================================================

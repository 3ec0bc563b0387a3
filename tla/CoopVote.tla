------------------------------ MODULE CoopVote ------------------------------
(***************************************************************************)
(* The vote that guards map changes and voted server commands              *)
(* (dlls/gravgunmod.cpp, g_Vote), together with the trigger_changelevel    *)
(* it guards (dlls/triggers.cpp, CChangeLevel::ChangeLevelNow) and the     *)
(* console commands of dlls/coop.cpp that start, confirm and cancel it.    *)
(*                                                                         *)
(* Everything runs on the server's one thread, so a step is one engine     *)
(* callback: a touch, a use, a client command, a frame.  Callbacks nest:   *)
(* a vote confirmation touches the trigger, which asks the vote again, so  *)
(* the operators below take the vote as it stands at their point of the    *)
(* call (the parameter v) instead of reading the variable.                 *)
(*                                                                         *)
(* Time is counted in ticks of gpGlobals->time.  Every timestamp is kept   *)
(* as its age, capped just above the largest delay it is compared with.    *)
(***************************************************************************)
EXTENDS Integers, FiniteSets

CONSTANTS
  Player,          \* the client slots 1..gpGlobals->maxClients
  NoPlayer,        \* a NULL player pointer or EHANDLE
  Trigger,         \* the trigger_changelevel entities of the map
  NoTrigger,       \* a NULL edict
  BackTriggers,    \* those at the landmark of the last transition (fIsBack)
  VolumeTriggers,  \* those whose landmark has a trigger_transition
  UseTriggers,     \* those with a targetname, which can be used
  Train,           \* the global trains and lifts of the map
  NoTrain,         \* standing on none of them
  BadName,         \* the slots whose player's name GGM_GetState bans
  MisclickTime,    \* VOTE_MISCLICK_TIME, 2 seconds
  InactiveTime,    \* VOTE_INACTIVE_TIME, 15 seconds
  SpawnDelay,      \* the 30 seconds before a player counts
  TouchMemory,     \* the 30 seconds after which touches are forgotten
  TouchShare,      \* the 3 of count2 / 3
  mp_coop_checkpoints,  \* the cvar: checkpoints and voteload are allowed
  ConsoleVotes,    \* the operator uses ggm_votecommand
  EngineKeeps,     \* what the engine may do with a leaver's entity: a set
                   \* of BOOLEANs, TRUE to keep it, FALSE to free it
  LoadDelay,       \* ticks the engine takes to carry out a change of level
  MinConfirm,      \* bound: confirmations are counted down to -MinConfirm
  MaxConfirm       \* bound: and up to MaxConfirm

ASSUME ConstAssumption ==
  /\ IsFiniteSet(Player) /\ NoPlayer \notin Player
  /\ NoTrigger \notin Trigger /\ NoTrain \notin Train
  /\ BackTriggers \subseteq Trigger /\ VolumeTriggers \subseteq Trigger
  /\ UseTriggers \subseteq Trigger /\ BadName \subseteq Player
  /\ MisclickTime \in Nat /\ InactiveTime \in Nat
  /\ MisclickTime <= InactiveTime /\ EngineKeeps \subseteq BOOLEAN
  /\ mp_coop_checkpoints \in BOOLEAN /\ ConsoleVotes \in BOOLEAN
  /\ SpawnDelay \in Nat /\ TouchMemory \in Nat
  /\ TouchShare \in Nat \ {0}
  /\ LoadDelay \in Nat /\ LoadDelay <= SpawnDelay /\ LoadDelay <= TouchMemory
  /\ MinConfirm \in Nat /\ MaxConfirm \in Nat \ {0}

VARIABLES
  vote,           \* g_Vote
  iState,         \* per player: m_ggm.iState, "NONE" for a free slot
  spawnAge,       \* per player: gpGlobals->time - m_ggm.flSpawnTime
  fIsTempBanned,  \* per player: the ban flag of the player's state record
  iLocalConfirm,  \* per player: m_ggm.iLocalConfirm
  pChangeLevel,   \* per player: m_ggm.pChangeLevel
  onTrain,        \* per player: the train it stands on
  trig,           \* per trigger: the part of m_coopData the control reads
  locked,         \* the newest checkpoint is far from the back triggers
  g_fPause,       \* the world is paused
  executed,       \* a voted command has been run in this frame
  clicks          \* history, per player: the times it confirmed to the menu
                  \* of a back trigger since its current round began

playerVars == <<iState, spawnAge, fIsTempBanned, onTrain>>
vars == <<vote, playerVars, iLocalConfirm, pChangeLevel, trig, locked,
          g_fPause, executed, clicks>>
-----------------------------------------------------------------------------
(* Types.  iState merges the states the vote and the trigger do not tell   *)
(* apart: "SPECTATOR" is STATE_SPECTATOR or STATE_SPECTATOR_BEGIN,         *)
(* "UNINITIALIZED" also stands for a spectator whose pState is NULL        *)
(* (nickname taken), "GONE" is a player who left while spawned and whose   *)
(* entity the engine kept, "NONE" is a free slot.                          *)
PlayerState ==
  {"NONE", "UNINITIALIZED", "SPECTATOR", "SPAWNED", "GONE"}

NoVote == [iMode |-> "NONE", pPlayer |-> NoPlayer, pTrigger |-> NoTrigger,
           age |-> 0, iMaxCount |-> 0, iTempBanCount |-> 0, iConfirm |-> 0]

GGMVote ==
  [iMode : {"NONE", "CHANGELEVEL", "COMMAND"},
   pPlayer : Player \cup {NoPlayer}, pTrigger : Trigger \cup {NoTrigger},
   age : 0..(InactiveTime + 1), iMaxCount : Nat,
   iTempBanCount : 0..2, iConfirm : -MinConfirm..MaxConfirm]

\* fSpawnSaved and hActivator remember the first toucher, bits are the
\* players of bitsTouchCount, dmgAge is the age of pev->dmgtime.
TriggerData ==
  [fValid : BOOLEAN, fSpawnSaved : BOOLEAN,
   hActivator : Player \cup {NoPlayer}, bits : SUBSET Player,
   dmgAge : 0..(TouchMemory + 1)]

\* gpGlobals->time is 1 when a map starts and dmgtime is 0.
NewTrigger == [fValid |-> FALSE, fSpawnSaved |-> FALSE,
               hActivator |-> NoPlayer, bits |-> {}, dmgAge |-> 1]

TypeOK ==
  /\ vote \in GGMVote
  /\ iState \in [Player -> PlayerState]
  /\ spawnAge \in [Player -> 0..(SpawnDelay + 1)]
  /\ fIsTempBanned \in [Player -> BOOLEAN]
  /\ iLocalConfirm \in [Player -> -2..3]
  /\ pChangeLevel \in [Player -> Trigger \cup {NoTrigger}]
  /\ onTrain \in [Player -> Train \cup {NoTrain}]
  /\ trig \in [Trigger -> TriggerData]
  /\ locked \in BOOLEAN
  /\ g_fPause \in BOOLEAN /\ executed \in BOOLEAN
  /\ clicks \in [Player -> 0..2]

Init ==
  /\ vote = NoVote
  /\ iState = [p \in Player |-> "NONE"]
  /\ spawnAge = [p \in Player |-> 0]
  /\ fIsTempBanned = [p \in Player |-> p \in BadName]
  /\ iLocalConfirm = [p \in Player |-> 0]
  /\ pChangeLevel = [p \in Player |-> NoTrigger]
  /\ onTrain = [p \in Player |-> NoTrain]
  /\ trig = [t \in Trigger |-> NewTrigger]
  /\ locked = FALSE
  /\ g_fPause = FALSE /\ executed = FALSE
  /\ clicks = [p \in Player |-> 0]
-----------------------------------------------------------------------------
(* Helpers. *)

\* UTIL_PlayerByIndex finds an entity in the slot.
Present(p) == iState[p] # "NONE"

\* The slot has a client who can send commands.
Connected(p) == iState[p] \notin {"NONE", "GONE"}

\* pev->modelindex: a spectator has no model, a leaver keeps the last one.
Visible(p) == iState[p] \in {"SPAWNED", "GONE"}

\* A change of level sets pState to NULL and so hides the ban.
GGM_IsTempBanned(p) ==
  iState[p] \in {"SPECTATOR", "SPAWNED", "GONE"} /\ fIsTempBanned[p]

\* The guard is the code's: the function returns for every player.
GGM_TempBan(e) ==
  IF e = NoPlayer \/ e \in Player THEN fIsTempBanned
  ELSE [fIsTempBanned EXCEPT ![e] = TRUE]

Expired(v) == v.age > InactiveTime
\* Mutant: nothing looks at the age of a vote.
NeverDropped(v) == v

DropExpired(v) == IF Expired(v) THEN NoVote ELSE v

\* GGM_VoteProcess sees every client command the menus did not take, and
\* ends a vote that is too old whatever the command is.
AfterAnyCommand == IF vote.iMode # "NONE" THEN DropExpired(vote) ELSE vote

Asked == {p \in Player : iState[p] = "SPAWNED" /\ ~GGM_IsTempBanned(p)}

GGM_BroadcastVote(mode, p, t) ==
  [iMode |-> mode, pPlayer |-> p, pTrigger |-> t, age |-> 0,
   iMaxCount |-> Cardinality(Asked), iTempBanCount |-> 0, iConfirm |-> 0]

\* Mutants: a rider counts like anybody else; a player counts one tick early.
RidersCountLate ==
  {p \in Player : /\ Present(p) /\ Visible(p)
                  /\ ~GGM_IsTempBanned(p) /\ spawnAge[p] > SpawnDelay}
CountedAtOnce ==
  {p \in Player : /\ Present(p) /\ Visible(p)
                  /\ onTrain[p] # NoTrain \/ ~GGM_IsTempBanned(p)
                  /\ onTrain[p] # NoTrain \/ spawnAge[p] >= SpawnDelay}

\* The players a touched trigger counts (count2).
Counted ==
  {p \in Player : /\ Present(p) /\ Visible(p)
                  /\ onTrain[p] # NoTrain \/ ~GGM_IsTempBanned(p)
                  /\ onTrain[p] # NoTrain \/ spawnAge[p] > SpawnDelay}

MinNat(a, b) == IF a < b THEN a ELSE b
-----------------------------------------------------------------------------
(* What a nested call may change before its caller returns: the vote, the  *)
(* players' own confirmation counters and the triggers they are asked      *)
(* about.  A session is their value at one point of a callback.            *)
Session == [vote |-> vote, local |-> iLocalConfirm,
            pending |-> pChangeLevel, clicks |-> clicks]

SetSession(s) == /\ vote' = s.vote
                 /\ iLocalConfirm' = s.local
                 /\ pChangeLevel' = s.pending
                 /\ clicks' = s.clicks

\* Mutant: the vote opens after one confirmation.
VoteAfterOneConfirmation(p, t, s) ==
  LET v == DropExpired(s.vote)
      now == [s EXCEPT !.vote = v]
      asked == IF s.local[p] <= 0 THEN 1 ELSE s.local[p]
  IN IF v.iMode = "NONE" /\ ~GGM_IsTempBanned(p) /\ asked >= 2
     THEN [ret |-> 0,
           s |-> [now EXCEPT !.vote = GGM_BroadcastVote("CHANGELEVEL", p, t),
                             !.local[p] = 0, !.pending[p] = NoTrigger]]
     ELSE [ret |-> IF v.iMode = "CHANGELEVEL" /\ v.pTrigger = t
                   THEN v.iConfirm ELSE -1,
           s |-> [now EXCEPT !.local[p] = asked, !.pending[p] = t,
                             !.clicks[p] = IF s.local[p] <= 0 THEN 0 ELSE @]]

(* GGM_ChangelevelVote: the answer to player p touching back trigger t is  *)
(* the number of confirmations so far, or -1.  The first touches only ask  *)
(* p itself; after the second confirmation the next touch opens the vote.  *)
GGM_ChangelevelVote(p, t, s) ==
  LET v == DropExpired(s.vote)
      now == [s EXCEPT !.vote = v]
      asked == IF s.local[p] <= 0 THEN 1 ELSE s.local[p]
  IN CASE v.iMode # "NONE" ->
            [ret |-> IF v.iMode = "CHANGELEVEL" /\ v.pTrigger = t
                     THEN v.iConfirm ELSE -1,
             s |-> now]
       [] v.iMode = "NONE" /\ GGM_IsTempBanned(p) ->
            [ret |-> -1, s |-> now]
       [] v.iMode = "NONE" /\ ~GGM_IsTempBanned(p) /\ asked < 3 ->
            [ret |-> -1,
             s |-> [now EXCEPT !.local[p] = asked, !.pending[p] = t,
                               !.clicks[p] = IF s.local[p] <= 0 THEN 0 ELSE @]]
       [] OTHER ->
            [ret |-> 0,
             s |-> [vote |-> GGM_BroadcastVote("CHANGELEVEL", p, t),
                    local |-> [s.local EXCEPT ![p] = 0],
                    pending |-> [s.pending EXCEPT ![p] = NoTrigger],
                    clicks |-> s.clicks]]
-----------------------------------------------------------------------------
\* Mutant: the vote is not cleared when the level changes.
ActivateKeepsVote(t, s, touched) ==
  /\ SetSession(s)
  /\ trig' = [trig EXCEPT ![t] = [touched EXCEPT !.fValid = TRUE,
                                                 !.dmgAge = 0, !.bits = {}]]
  /\ iState' = [p \in Player |-> IF Present(p) THEN "UNINITIALIZED"
                                               ELSE "NONE"]
  /\ g_fPause' = TRUE
  /\ UNCHANGED <<spawnAge, fIsTempBanned, onTrain, locked, executed>>

(* CChangeLevel::ChangeLevelNow, last part: the level changes.  Every      *)
(* player is made a spectator without a state record, the vote is cleared  *)
(* and the world is paused until somebody spawns again.                    *)
Activate(t, s, touched) ==
  /\ SetSession([s EXCEPT !.vote = NoVote])
  /\ trig' = [trig EXCEPT ![t] = [touched EXCEPT !.fValid = TRUE,
                                                 !.dmgAge = 0, !.bits = {}]]
  /\ iState' = [p \in Player |-> IF Present(p) THEN "UNINITIALIZED"
                                               ELSE "NONE"]
  /\ g_fPause' = TRUE
  /\ UNCHANGED <<spawnAge, fIsTempBanned, onTrain, locked, executed>>

\* The trigger returns early, remembering what d says.
TriggerReturns(t, s, d) ==
  /\ SetSession(s)
  /\ trig' = [trig EXCEPT ![t] = d]
  /\ UNCHANGED <<playerVars, locked, g_fPause, executed>>

\* Can player p be taken along?  Only the volume is left to chance.
CanLeave(t, p, inVolume) ==
  /\ inVolume
  /\ t \in VolumeTriggers => spawnAge[p] >= SpawnDelay

(* The part of ChangeLevelNow after the votes are counted, for a player:   *)
(* once per frame, and only if the player stands in the landmark's volume. *)
ChangeLevelFor(t, p, skip, s, touched) ==
  IF trig[t].dmgAge = 0
  THEN TriggerReturns(t, s, [touched EXCEPT !.bits = {}])
  ELSE \E inVolume \in IF t \in VolumeTriggers THEN BOOLEAN ELSE {TRUE} :
         IF skip \/ CanLeave(t, p, inVolume)
         THEN Activate(t, s, touched)
         ELSE TriggerReturns(t, s, [touched EXCEPT !.bits = {},
                                                   !.dmgAge = 0])

(* The same when no player activated it: somebody must be in the volume.   *)
ChangeLevelForAnyone(t, skip, s, touched) ==
  LET ready == {p \in Player : /\ Present(p)
                               /\ \/ t \notin VolumeTriggers \/ skip
                                  \/ spawnAge[p] > SpawnDelay}
  IN IF trig[t].dmgAge = 0
     THEN TriggerReturns(t, s, [touched EXCEPT !.bits = {}])
     ELSE \E inVolume \in IF t \in VolumeTriggers THEN SUBSET ready
                                                  ELSE {ready} :
            IF inVolume # {}
            THEN Activate(t, s, touched)
            ELSE TriggerReturns(t, s, [touched EXCEPT !.bits = {},
                                                      !.dmgAge = 0])

\* The first toucher is remembered for the train it rides; on a map without
\* trains nothing asks for it.
Remember(d, p) ==
  IF Train = {} \/ d.fSpawnSaved \/ p = NoPlayer THEN d
  ELSE [d EXCEPT !.fSpawnSaved = TRUE, !.hActivator = p]

\* "forget touch by some fool"
Recent(d) == IF d.dmgAge > TouchMemory THEN {} ELSE d.bits

(* CChangeLevel::TouchChangeLevel by player p, with the session s reached  *)
(* by the callback so far.  The bits of a back trigger only color it and   *)
(* are left out.                                                           *)
DispatchTouch(t, p, s) ==
  LET d == trig[t]
      activator == IF d.fSpawnSaved THEN d.hActivator ELSE p
      train == IF activator = NoPlayer THEN NoTrain ELSE onTrain[activator]
      touched == [Remember(d, p) EXCEPT !.bits =
                    IF t \in BackTriggers THEN {} ELSE Recent(d) \cup {p}]
      count2 == Cardinality(Counted)
      count1 == Cardinality(Counted \cap touched.bits)
      otherTrain == \E q \in Counted : onTrain[q] \notin {NoTrain, train}
      answer == GGM_ChangelevelVote(p, t, s)
  IN IF g_fPause \/ d.fValid
     THEN TriggerReturns(t, s, d)
     ELSE
     \/ \* somebody rides another train
        /\ otherTrain
        /\ TriggerReturns(t, s, [touched EXCEPT !.fSpawnSaved = FALSE])
     \/ \* "Too early!": nobody has played long enough to be counted
        /\ ~otherTrain /\ train = NoTrain /\ count2 = 0
        /\ \E local \in {s.local[p], -2} :
             TriggerReturns(t, [s EXCEPT !.local[p] = local], touched)
     \/ \* a forward trigger waits for a share of the players
        /\ ~otherTrain /\ train = NoTrain /\ count2 > 0
        /\ t \notin BackTriggers
        /\ count1 > 1 /\ count1 < count2 \div TouchShare
        /\ TriggerReturns(t, s, touched)
     \/ \* COOP_ConfirmMenu refuses a back trigger
        /\ ~otherTrain /\ train = NoTrain /\ count2 > 0
        /\ t \in BackTriggers
        /\ IF locked   \* mp_coop_strongcheckpoints
           THEN TriggerReturns(t, s, touched)
           ELSE /\ answer.ret < count2
                /\ TriggerReturns(t, answer.s, touched)
     \/ \* everyone needed agrees
        /\ ~otherTrain
        /\ \/ train # NoTrain
           \/ /\ count2 > 0 /\ t \notin BackTriggers
              /\ ~(count1 > 1 /\ count1 < count2 \div TouchShare)
        /\ ChangeLevelFor(t, p, FALSE, s, touched)
     \/ \* a back trigger with enough confirmations
        /\ ~otherTrain /\ train = NoTrain /\ count2 > 0
        /\ t \in BackTriggers /\ ~locked /\ answer.ret >= count2
        /\ ChangeLevelFor(t, p, FALSE, answer.s, touched)
-----------------------------------------------------------------------------
(* Touches and uses. *)

\* A solid player walks into the trigger.
Touch(t, p) ==
  /\ iState[p] = "SPAWNED"
  /\ DispatchTouch(t, p, Session)

(* CChangeLevel::UseChangeLevel: a button, a multi_manager or a path track *)
(* fires the trigger for player a or for nobody.  Players are not counted  *)
(* and no vote is asked; skip is fSkipSpawnCheck, set for a multi_manager  *)
(* or trigger_once caller.                                                 *)
UseChangeLevel(t, a, skip) ==
  LET d == trig[t]
  IN /\ t \in UseTriggers
     /\ IF d.fValid
        THEN TriggerReturns(t, Session, d)
        ELSE IF a # NoPlayer
        THEN ChangeLevelFor(t, a, skip, Session, Remember(d, a))
        ELSE \E near \in {NoPlayer} \cup {p \in Player : Present(p)} :
               ChangeLevelForAnyone(t, skip, Session, Remember(d, near))

Use(t, a) ==
  /\ a # NoPlayer => iState[a] = "SPAWNED"
  /\ \E skip \in BOOLEAN : UseChangeLevel(t, a, skip)
-----------------------------------------------------------------------------
(* Client commands.  Each one has passed GGM_VoteProcess first.            *)

\* Mutant: votes count from the first moment.
VoteTakesMisclicks(p) ==
  Connected(p) /\ vote.iMode # "NONE" /\ ~Expired(vote)

\* A vote command counts once the vote has been up for MisclickTime; before
\* that GGM_VoteProcess only sends the menu again.
VoteTakes(p) ==
  /\ Connected(p) /\ vote.iMode # "NONE"
  /\ ~Expired(vote) /\ vote.age >= MisclickTime

KeepAllBut(v) ==
  /\ vote' = v
  /\ UNCHANGED <<playerVars, iLocalConfirm, pChangeLevel, trig, locked,
                 g_fPause, executed, clicks>>

\* "voteconfirm" by p, whether asked or not, and as often as p likes.  A changelevel vote touches
\* the trigger again on behalf of the player who opened it; a command vote runs its command.
VoteConfirm(p) ==
  /\ VoteTakes(p)
  /\ vote.iConfirm < MaxConfirm
  /\ LET v == [vote EXCEPT !.iConfirm = @ + 1]
     IN IF vote.iTempBanCount >= 3
        THEN /\ fIsTempBanned' = GGM_TempBan(p)
             /\ vote' = [vote EXCEPT !.iConfirm = @ - 5, !.iTempBanCount = 0]
             /\ UNCHANGED <<iState, spawnAge, onTrain, iLocalConfirm, clicks,
                            pChangeLevel, trig, locked, g_fPause, executed>>
        ELSE \/ /\ vote.iMode = "CHANGELEVEL" /\ vote.pPlayer # NoPlayer
                /\ DispatchTouch(vote.pTrigger, vote.pPlayer,
                                 [Session EXCEPT !.vote = v])
             \/ /\ vote.iMode = "CHANGELEVEL" /\ vote.pPlayer = NoPlayer
                /\ KeepAllBut(v)
             \/ /\ vote.iMode = "COMMAND"
                /\ v.iConfirm <= v.iMaxCount \div 2
                /\ KeepAllBut(v)
             \/ /\ vote.iMode = "COMMAND"
                /\ v.iConfirm > v.iMaxCount \div 2
                /\ executed' = TRUE
                /\ vote' = NoVote
                /\ UNCHANGED <<playerVars, iLocalConfirm, pChangeLevel, trig,
                               locked, g_fPause, clicks>>

\* Mutant: the initiator's cancel only resets the mode.
VoteCancelKeepsData(p) ==
  /\ VoteTakes(p) /\ vote.iConfirm > -MinConfirm
  /\ KeepAllBut(IF vote.pPlayer = p THEN [vote EXCEPT !.iMode = "NONE"]
                ELSE [vote EXCEPT !.iConfirm = @ - 1])

\* "votecancel" by p: one confirmation less, or the end of p's own vote.
VoteCancel(p) ==
  /\ VoteTakes(p)
  /\ vote.iConfirm > -MinConfirm
  /\ KeepAllBut(IF vote.pPlayer = p THEN NoVote
                ELSE [vote EXCEPT !.iConfirm = @ - 1])

\* Mutant: the third strike does not end the vote.
VoteTempBanStays(p) ==
  VoteTakes(p) /\ KeepAllBut([vote EXCEPT !.iTempBanCount = @ + 1])

\* "votetempban" by p: the third one ends the vote and bans its initiator.
VoteTempBan(p) ==
  /\ VoteTakes(p)
  /\ IF vote.iTempBanCount + 1 >= 3
     THEN /\ fIsTempBanned' = GGM_TempBan(vote.pPlayer)
          /\ vote' = NoVote
          /\ UNCHANGED <<iState, spawnAge, onTrain, iLocalConfirm, clicks,
                         pChangeLevel, trig, locked, g_fPause, executed>>
     ELSE KeepAllBut([vote EXCEPT !.iTempBanCount = @ + 1])

\* Mutant: every command counts as activity and refreshes the vote.
CommandKeepsVoteAlive(p) ==
  Connected(p) /\ KeepAllBut([AfterAnyCommand EXCEPT !.age = 0])

\* Any other command of a player: it only ends a vote that is too old.
OtherCommand(p) == Connected(p) /\ KeepAllBut(AfterAnyCommand)

\* Mutant: a new vote replaces a pending one.
StartVoteWhilePending(p, v) ==
  KeepAllBut(GGM_BroadcastVote("COMMAND", p, NoTrigger))

\* GGM_StartVoteCommand: a running vote keeps its place.
GGM_StartVoteCommand(p, v) ==
  LET v0 == DropExpired(v)
  IN KeepAllBut(IF v0.iMode # "NONE" THEN v0
                ELSE GGM_BroadcastVote("COMMAND", p, NoTrigger))

\* Mutant: the ban is not looked at.
VoteLoadByAnyone(p) ==
  /\ mp_coop_checkpoints /\ iState[p] = "SPAWNED"
  /\ GGM_StartVoteCommand(p, AfterAnyCommand)

\* "voteload <save>" by a spawned player who is not banned.
VoteLoad(p) ==
  /\ mp_coop_checkpoints
  /\ iState[p] = "SPAWNED" /\ ~GGM_IsTempBanned(p)
  /\ GGM_StartVoteCommand(p, AfterAnyCommand)

\* ggm_votecommand on the server's console: nobody is the initiator.
GGM_VoteCommand_f == ConsoleVotes /\ GGM_StartVoteCommand(NoPlayer, vote)

\* "confirmchangelevel" by p, from the menu of the trigger it touched.
ConfirmChangelevel(p) ==
  LET local == MinNat(iLocalConfirm[p] + 1, 3)
      clicked == IF iLocalConfirm[p] > 0 THEN MinNat(clicks[p] + 1, 2)
                                         ELSE clicks[p]
      s == [vote |-> AfterAnyCommand,
            local |-> [iLocalConfirm EXCEPT ![p] = local],
            pending |-> [pChangeLevel EXCEPT ![p] = NoTrigger],
            clicks |-> [clicks EXCEPT ![p] = clicked]]
  IN /\ Connected(p) /\ iLocalConfirm[p] # 0
     /\ IF pChangeLevel[p] # NoTrigger
        THEN DispatchTouch(pChangeLevel[p], p, s)
        ELSE /\ SetSession(s)
             /\ UNCHANGED <<playerVars, trig, locked, g_fPause, executed>>

\* "newcheckpoint" by a spawned player who is not banned.
COOP_NewCheckpoint(p) ==
  /\ mp_coop_checkpoints
  /\ iState[p] = "SPAWNED" /\ ~GGM_IsTempBanned(p)
  /\ locked' \in BOOLEAN
  /\ vote' = AfterAnyCommand
  /\ UNCHANGED <<playerVars, iLocalConfirm, pChangeLevel, trig, g_fPause,
                 executed, clicks>>
-----------------------------------------------------------------------------
(* Players come, spawn, watch and leave; the map changes; time passes.     *)

\* GGM_ClientPutinServer and the first Spawn: the player is made a
\* spectator, without a state record when the nickname is taken.
ClientPutInServer(p) ==
  /\ iState[p] \in {"NONE", "UNINITIALIZED"}
  /\ \E st \in {"SPECTATOR", "UNINITIALIZED"} :
       iState' = [iState EXCEPT ![p] = st]
  /\ spawnAge' = [spawnAge EXCEPT ![p] = 0]
  /\ UNCHANGED <<vote, fIsTempBanned, onTrain, iLocalConfirm, pChangeLevel,
                 trig, locked, g_fPause, executed, clicks>>

\* UTIL_SpawnPlayer through "joincoop" or "respawn": the world runs again.
UTIL_SpawnPlayer(p) ==
  /\ iState[p] \in {"SPECTATOR", "SPAWNED"}
  /\ iState' = [iState EXCEPT ![p] = "SPAWNED"]
  /\ spawnAge' = [spawnAge EXCEPT ![p] = 0]
  /\ g_fPause' = FALSE
  /\ vote' = AfterAnyCommand
  /\ UNCHANGED <<fIsTempBanned, onTrain, iLocalConfirm, pChangeLevel, trig,
                 locked, executed, clicks>>

\* "spectate", which ClientCommand handles before the vote sees it.
Spectate(p) ==
  /\ iState[p] = "SPAWNED"
  /\ iState' = [iState EXCEPT ![p] = "SPECTATOR"]
  /\ onTrain' = [onTrain EXCEPT ![p] = NoTrain]
  /\ UNCHANGED <<vote, spawnAge, fIsTempBanned, iLocalConfirm, pChangeLevel,
                 trig, locked, g_fPause, executed, clicks>>

\* ClientConnect into a slot whose entity the engine kept.
ClientConnect(p) ==
  /\ iState[p] = "GONE"
  /\ iState' = [iState EXCEPT ![p] = "UNINITIALIZED"]
  /\ UNCHANGED <<vote, spawnAge, fIsTempBanned, onTrain, iLocalConfirm,
                 pChangeLevel, trig, locked, g_fPause, executed, clicks>>

\* ClientDisconnect.  The engine keeps the entity of the slot, with all the
\* mod's data in it, or frees it and with it every EHANDLE to it.
ClientDisconnect(p) ==
  /\ iState[p] \notin {"NONE", "GONE"}
  /\ onTrain' = [onTrain EXCEPT ![p] = NoTrain]
  /\ \/ /\ TRUE \in EngineKeeps
        /\ iState' = [iState EXCEPT ![p] = IF @ = "SPAWNED" THEN "GONE"
                                           ELSE "UNINITIALIZED"]
        /\ UNCHANGED <<vote, iLocalConfirm, pChangeLevel, trig, spawnAge,
                       clicks>>
     \/ /\ FALSE \in EngineKeeps
        /\ iState' = [iState EXCEPT ![p] = "NONE"]
        /\ vote' = [vote EXCEPT !.pPlayer = IF @ = p THEN NoPlayer ELSE @]
        /\ trig' = [t \in Trigger |-> [trig[t] EXCEPT !.hActivator =
                                         IF @ = p THEN NoPlayer ELSE @]]
        /\ spawnAge' = [spawnAge EXCEPT ![p] = 0]
        /\ iLocalConfirm' = [iLocalConfirm EXCEPT ![p] = 0]
        /\ pChangeLevel' = [pChangeLevel EXCEPT ![p] = NoTrigger]
        /\ clicks' = [clicks EXCEPT ![p] = 0]
  /\ UNCHANGED <<fIsTempBanned, locked, g_fPause, executed>>

\* A player steps onto a train or off it.
Board(p, tr) ==
  /\ iState[p] = "SPAWNED" /\ onTrain[p] # tr
  /\ onTrain' = [onTrain EXCEPT ![p] = tr]
  /\ UNCHANGED <<vote, iState, spawnAge, fIsTempBanned, iLocalConfirm,
                 pChangeLevel, trig, locked, g_fPause, executed, clicks>>

\* The engine loads the next map: GGM_ServerActivate.  Entities are new.
GGM_ServerActivate ==
  /\ executed \/ \E t \in Trigger : trig[t].fValid
  /\ vote' = NoVote
  /\ iState' = [p \in Player |-> "NONE"]
  /\ spawnAge' = [p \in Player |-> 0]
  /\ onTrain' = [p \in Player |-> NoTrain]
  /\ iLocalConfirm' = [p \in Player |-> 0]
  /\ pChangeLevel' = [p \in Player |-> NoTrigger]
  /\ trig' = [t \in Trigger |-> NewTrigger]
  /\ locked' = FALSE
  /\ g_fPause' \in BOOLEAN       \* mp_coop_pause
  /\ executed' = FALSE
  /\ clicks' = [p \in Player |-> 0]
  /\ UNCHANGED fIsTempBanned

\* gpGlobals->time advances, but a queued change of level is carried out
\* LoadDelay ticks after it was asked for.
Tick ==
  /\ \A t \in Trigger : trig[t].fValid => trig[t].dmgAge < LoadDelay
  /\ vote' = [vote EXCEPT !.age = IF vote.iMode = "NONE" THEN 0
                                  ELSE MinNat(@ + 1, InactiveTime + 1)]
  /\ spawnAge' = [p \in Player |-> IF Present(p)
                                   THEN MinNat(spawnAge[p] + 1, SpawnDelay + 1)
                                   ELSE spawnAge[p]]
  /\ trig' = [t \in Trigger |->
                [trig[t] EXCEPT !.dmgAge = MinNat(@ + 1, TouchMemory + 1)]]
  /\ executed' = FALSE
  /\ UNCHANGED <<iState, fIsTempBanned, onTrain, iLocalConfirm, pChangeLevel,
                 locked, g_fPause, clicks>>
-----------------------------------------------------------------------------
PlayerCommand(p) ==
  \/ VoteConfirm(p) \/ VoteCancel(p) \/ VoteTempBan(p) \/ OtherCommand(p)
  \/ VoteLoad(p) \/ ConfirmChangelevel(p) \/ COOP_NewCheckpoint(p)
  \/ UTIL_SpawnPlayer(p) \/ Spectate(p)

Connection(p) ==
  ClientPutInServer(p) \/ ClientConnect(p) \/ ClientDisconnect(p)

Next ==
  \/ \E p \in Player : PlayerCommand(p) \/ Connection(p)
  \/ \E p \in Player, t \in Trigger : Touch(t, p)
  \/ \E p \in Player, tr \in Train \cup {NoTrain} : Board(p, tr)
  \/ \E a \in Player \cup {NoPlayer}, t \in UseTriggers : Use(t, a)
  \/ GGM_VoteCommand_f
  \/ GGM_ServerActivate
  \/ Tick

Spec == Init /\ [][Next]_vars

\* The engine's clock does not stop, and it carries out what it queued.
FairSpec == Spec /\ WF_vars(Tick) /\ WF_vars(GGM_ServerActivate)
-----------------------------------------------------------------------------
(* Properties. *)

\* A running vote has three strikes at most two of which are taken, is about
\* exactly one thing, and a changelevel vote is about a back trigger; only
\* back triggers are ever offered for confirmation.  No vote: no leftovers.
VoteSound ==
  /\ vote.iMode = "NONE" => vote = NoVote
  /\ vote.iMode = "COMMAND" => vote.pTrigger = NoTrigger
  /\ vote.iMode = "CHANGELEVEL" => vote.pTrigger \in BackTriggers
  /\ \A p \in Player : /\ pChangeLevel[p] \in BackTriggers \cup {NoTrigger}
                       /\ iLocalConfirm[p] <= clicks[p] + 1

\* The step opens a vote.
Opened == /\ vote'.iMode # "NONE"
          /\ vote.iMode = "NONE" \/ (Expired(vote) /\ ~Expired(vote'))

\* Nobody can replace a vote that is still running by another one, or give
\* it a new life: neither a second trigger, nor voteload, nor the console.
NoHijack ==
  [][vote.iMode # "NONE" /\ ~Expired(vote) /\ vote'.iMode # "NONE" =>
       /\ vote'.iMode = vote.iMode /\ vote'.pTrigger = vote.pTrigger
       /\ vote'.pPlayer \in {vote.pPlayer, NoPlayer}
       /\ vote'.iMaxCount = vote.iMaxCount /\ vote'.age >= vote.age]_vars

\* The vote that lets the players through back trigger t: as many voteconfirm commands less
\* votecancel commands as there are players to count now.  Anybody may have sent them, spectators
\* and the banned too, and one player several of them.
Mandate(t) ==
  /\ vote.iMode = "CHANGELEVEL" /\ vote.pTrigger = t /\ ~Expired(vote)
  /\ Cardinality(Counted) <=
       vote.iConfirm + IF \E p \in Player : VoteConfirm(p) THEN 1 ELSE 0

\* Players on foot go back to an earlier map only by a running vote on that
\* very trigger with as many confirm commands as there are players to count
\* now, however they reached it: by walking in, by confirming their own
\* menu, or by the confirmation of somebody else's vote.
BackNeedsMandate ==
  [][\A t \in BackTriggers \ UseTriggers :
       /\ ~trig[t].fValid /\ trig'[t].fValid
       /\ \A q \in Player : onTrain[q] = NoTrain
       => Counted # {} /\ Mandate(t)]_vars

\* A change of level leaves no vote behind, although the confirmation that
\* caused it is still being processed, and leaves nobody in the game.
VoteEndsWithLevel ==
  [][(\E t \in Trigger : ~trig[t].fValid /\ trig'[t].fValid) =>
       /\ vote' = NoVote
       /\ g_fPause' /\ \A p \in Player : iState'[p] # "SPAWNED"]_vars

\* A vote to go back is never opened by just running into the trigger: its
\* initiator has confirmed twice to the trigger's own menu in this round.
BackVoteIsDeliberate ==
  [][\A p \in Player :
       Opened /\ vote'.iMode = "CHANGELEVEL" /\ vote'.pPlayer = p =>
         clicks'[p] >= 2]_vars

\* A player whose record is banned opens no vote of either kind.
BannedOpenNothing ==
  [][\A p \in Player : Opened /\ vote'.pPlayer = p =>
                         ~GGM_IsTempBanned(p)]_vars

\* Once a change of level is under way, started in whatever way, no touch, no answer to a menu and
\* no vote starts another one while nobody rides a train: whoever is in the game has spawned
\* since, and has not played long enough to be counted.  (Using a trigger does start another.)
OneChangeAtATime ==
  [][\A t \in Trigger \ UseTriggers, u \in Trigger :
       trig[u].fValid /\ ~trig[t].fValid /\ trig'[t].fValid =>
         \E q \in Player : onTrain[q] # NoTrain]_vars

\* Touching players who ride a train never leave the riders of another
\* train behind.
OneTrainLeaves ==
  [][\A t \in Trigger \ UseTriggers :
       ~trig[t].fValid /\ trig'[t].fValid =>
         \A p, q \in {r \in Player : iState[r] = "SPAWNED"} :
           onTrain[p] = onTrain[q] \/ NoTrain \in {onTrain[p], onTrain[q]}]_vars

\* The votes are rounds as VoteRound describes them.  The tally is the number of voteconfirm
\* commands, less the votecancel commands, from anybody: GGM_VoteProcess looks neither at who
\* sends one nor at whether the same player has sent one before.
Round == INSTANCE VoteRound WITH
           open <- vote.iMode # "NONE", age <- vote.age,
           asked <- vote.iMaxCount, tally <- vote.iConfirm, ran <- executed
RoundSpec == Round!Spec

\* No vote stays in the way for ever, however busily it is voted on.
VoteRunsOut == vote.iMode # "NONE" ~> (vote.iMode = "NONE" \/ Expired(vote))

\* "Mark player as temporary banned": the third votetempban bans the player
\* whose vote it is.
TempBanBans ==
  [][\A p, q \in Player :
       VoteTempBan(p) /\ vote.iTempBanCount = 2 /\ vote.pPlayer = q =>
         fIsTempBanned'[q]]_vars
=============================================================================

--------------------------- MODULE CoopVoteProofs ---------------------------
(***************************************************************************)
(* Theorems about CoopVote, for every set of players, triggers and trains  *)
(* and every value of the delays.  The inductive invariant is IInv; a step *)
(* hands the session (vote, confirmations, pending triggers) from one      *)
(* nested call to the next, so the lemmas follow the session through them. *)
(***************************************************************************)
EXTENDS CoopVote, FiniteSetTheorems, TLAPS

SessionType == [vote : GGMVote, local : [Player -> -2..3],
                pending : [Player -> Trigger \cup {NoTrigger}],
                clicks : [Player -> 0..2]]

\* What VoteSound says of a vote.
VoteOK(v) ==
  /\ v.iMode = "NONE" => v = NoVote
  /\ v.iMode = "COMMAND" => v.pTrigger = NoTrigger
  /\ v.iMode = "CHANGELEVEL" => v.pTrigger \in BackTriggers

\* What VoteSound says of the session reached in the middle of a step.
SessionOK(s) ==
  /\ s \in SessionType
  /\ VoteOK(s.vote)
  /\ \A p \in Player : /\ s.pending[p] \in BackTriggers \cup {NoTrigger}
                       /\ s.local[p] <= s.clicks[p] + 1

IInv == TypeOK /\ VoteSound

\* What the steps leave to the caller: everything but the session.
OtherTypes ==
  /\ iState \in [Player -> PlayerState]
  /\ spawnAge \in [Player -> 0..(SpawnDelay + 1)]
  /\ fIsTempBanned \in [Player -> BOOLEAN]
  /\ onTrain \in [Player -> Train \cup {NoTrain}]
  /\ trig \in [Trigger -> TriggerData]
  /\ locked \in BOOLEAN /\ g_fPause \in BOOLEAN /\ executed \in BOOLEAN
-----------------------------------------------------------------------------
(* Pieces of the vote. *)

\* A cleared vote is a vote, and it is sound.
LEMMA NoVoteType == NoVote \in GGMVote /\ VoteOK(NoVote)
  BY ConstAssumption DEF NoVote, GGMVote, VoteOK

\* Forgetting an expired vote keeps the type and the soundness.
LEMMA DropExpiredType ==
  ASSUME NEW v \in GGMVote, VoteOK(v)
  PROVE  DropExpired(v) \in GGMVote /\ VoteOK(DropExpired(v))
  BY NoVoteType DEF DropExpired

\* The invariant is the session's soundness and the types of the rest.
LEMMA IInvSession == IInv <=> SessionOK(Session) /\ OtherTypes
  BY DEF IInv, TypeOK, VoteSound, SessionOK, Session, SessionType, VoteOK,
         OtherTypes

\* The primed invariant of a step that ends with session s.
LEMMA SetSessionOK ==
  ASSUME NEW s, SessionOK(s), SetSession(s), OtherTypes'
  PROVE  IInv'
  BY DEF IInv, TypeOK, VoteSound, SessionOK, SessionType, VoteOK,
         OtherTypes, SetSession

\* The number of players asked is a number.
LEMMA AskedNat == Cardinality(Asked) \in Nat
  <1>1. Asked \subseteq Player
    BY DEF Asked
  <1>2. IsFiniteSet(Asked)
    BY <1>1, FS_Subset, ConstAssumption
  <1> QED BY <1>2, FS_CardinalityType

\* An opened vote has the type of a vote and is sound.
LEMMA BroadcastType ==
  ASSUME NEW m \in {"CHANGELEVEL", "COMMAND"}, NEW p \in Player \cup {NoPlayer},
         NEW t \in BackTriggers \cup {NoTrigger},
         m = "COMMAND" => t = NoTrigger, m = "CHANGELEVEL" => t # NoTrigger
  PROVE  /\ GGM_BroadcastVote(m, p, t) \in GGMVote
         /\ VoteOK(GGM_BroadcastVote(m, p, t))
  <1> DEFINE b == GGM_BroadcastVote(m, p, t)
  <1>1. b = [iMode |-> m, pPlayer |-> p, pTrigger |-> t, age |-> 0,
             iMaxCount |-> Cardinality(Asked), iTempBanCount |-> 0,
             iConfirm |-> 0]
    BY DEF GGM_BroadcastVote
  <1>2. t \in Trigger \cup {NoTrigger} /\ Cardinality(Asked) \in Nat
    BY AskedNat, ConstAssumption
  <1>3. 0 \in 0..(InactiveTime + 1) /\ 0 \in -MinConfirm..MaxConfirm
    BY ConstAssumption
  <1>4. b \in GGMVote
    BY <1>1, <1>2, <1>3 DEF GGMVote
  <1>5. VoteOK(b)
    BY <1>1 DEF VoteOK
  <1> QED BY <1>4, <1>5

\* Asking the vote about back trigger t keeps the session sound.
LEMMA ChangelevelVoteOK ==
  ASSUME NEW s, SessionOK(s), NEW p \in Player, NEW t \in BackTriggers
  PROVE  SessionOK(GGM_ChangelevelVote(p, t, s).s)
  <1> DEFINE v == DropExpired(s.vote)
             now == [s EXCEPT !.vote = v]
             asked == IF s.local[p] <= 0 THEN 1 ELSE s.local[p]
             offer == [now EXCEPT !.local[p] = asked, !.pending[p] = t,
                         !.clicks[p] = IF s.local[p] <= 0 THEN 0 ELSE @]
             new == GGM_BroadcastVote("CHANGELEVEL", p, t)
             opened == [vote |-> new, local |-> [s.local EXCEPT ![p] = 0],
                        pending |-> [s.pending EXCEPT ![p] = NoTrigger],
                        clicks |-> s.clicks]
  <1>0. /\ s \in SessionType /\ s.vote \in GGMVote /\ VoteOK(s.vote)
        /\ t \in Trigger /\ t # NoTrigger
    BY ConstAssumption DEF SessionOK, SessionType
  <1>1. v \in GGMVote /\ VoteOK(v)
    BY <1>0, DropExpiredType
  <1>2. new \in GGMVote /\ VoteOK(new)
    BY <1>0, BroadcastType
  <1>3. SessionOK(now)
    BY <1>0, <1>1 DEF SessionOK, SessionType
  <1> HIDE DEF v, new
  <1>4. SessionOK(offer)
    <2> DEFINE clicked == IF s.local[p] <= 0 THEN 0 ELSE s.clicks[p]
    <2>1. /\ asked \in -2..3 /\ clicked \in 0..2
          /\ asked <= clicked + 1
      BY <1>0 DEF SessionOK, SessionType
    <2>2. /\ offer \in SessionType /\ offer.vote = v
          /\ offer.local = [s.local EXCEPT ![p] = asked]
          /\ offer.pending = [s.pending EXCEPT ![p] = t]
          /\ offer.clicks = [s.clicks EXCEPT ![p] = clicked]
      <3> HIDE DEF asked
      <3> QED BY <1>0, <1>1, <2>1 DEF SessionType
    <2> HIDE DEF asked, clicked, offer
    <2> QED BY <2>1, <2>2, <1>0, <1>1 DEF SessionOK, SessionType
  <1>5. SessionOK(opened)
    BY <1>0, <1>2 DEF SessionOK, SessionType
  <1>6. GGM_ChangelevelVote(p, t, s).s \in {now, offer, opened}
    <2>1. v.iMode \in {"NONE", "CHANGELEVEL", "COMMAND"}
      BY <1>1 DEF GGMVote
    <2> USE DEF v, new
    <2>2. CASE v.iMode # "NONE"
      BY <2>2 DEF GGM_ChangelevelVote
    <2>3. CASE v.iMode = "NONE" /\ GGM_IsTempBanned(p)
      BY <2>3 DEF GGM_ChangelevelVote
    <2>4. CASE v.iMode = "NONE" /\ ~GGM_IsTempBanned(p) /\ asked < 3
      BY <2>4 DEF GGM_ChangelevelVote
    <2>5. CASE v.iMode = "NONE" /\ ~GGM_IsTempBanned(p) /\ ~(asked < 3)
      BY <2>5 DEF GGM_ChangelevelVote
    <2> QED BY <2>2, <2>3, <2>4, <2>5
  <1> QED BY <1>3, <1>4, <1>5, <1>6
-----------------------------------------------------------------------------
(* The trigger. *)

\* A trigger that returns early leaves a sound state.
LEMMA TriggerReturnsOK ==
  ASSUME OtherTypes, NEW s, SessionOK(s), NEW t \in Trigger,
         NEW d \in TriggerData, TriggerReturns(t, s, d)
  PROVE  IInv'
  <1>1. OtherTypes'
    BY DEF OtherTypes, TriggerReturns, playerVars
  <1> QED BY <1>1, SetSessionOK DEF TriggerReturns

\* So does one that changes the level.
LEMMA ActivateOK ==
  ASSUME OtherTypes, NEW s, SessionOK(s), NEW t \in Trigger,
         NEW d \in TriggerData, Activate(t, s, d)
  PROVE  IInv'
  <1>1. SessionOK([s EXCEPT !.vote = NoVote])
    BY NoVoteType DEF SessionOK, SessionType
  <1>2. 0 \in 0..(TouchMemory + 1)
    BY ConstAssumption
  <1>3. [d EXCEPT !.fValid = TRUE, !.dmgAge = 0, !.bits = {}] \in TriggerData
    BY <1>2 DEF TriggerData
  <1>4. OtherTypes'
    BY <1>3 DEF OtherTypes, Activate, PlayerState
  <1> QED BY <1>1, <1>4, SetSessionOK DEF Activate

\* What a refusal writes into the trigger is trigger data.
LEMMA RefusalType ==
  ASSUME NEW d \in TriggerData
  PROVE  /\ [d EXCEPT !.bits = {}] \in TriggerData
         /\ [d EXCEPT !.bits = {}, !.dmgAge = 0] \in TriggerData
  <1>1. 0 \in 0..(TouchMemory + 1)
    BY ConstAssumption
  <1> QED BY <1>1 DEF TriggerData

\* The end of ChangeLevelNow for a player leaves a sound state.
LEMMA ChangeLevelForOK ==
  ASSUME OtherTypes, NEW s, SessionOK(s), NEW t \in Trigger, NEW p,
         NEW skip, NEW d \in TriggerData, ChangeLevelFor(t, p, skip, s, d)
  PROVE  IInv'
  BY RefusalType, TriggerReturnsOK, ActivateOK DEF ChangeLevelFor

\* So does its end for nobody in particular.
LEMMA ChangeLevelForAnyoneOK ==
  ASSUME OtherTypes, NEW s, SessionOK(s), NEW t \in Trigger, NEW skip,
         NEW d \in TriggerData, ChangeLevelForAnyone(t, skip, s, d)
  PROVE  IInv'
  BY RefusalType, TriggerReturnsOK, ActivateOK DEF ChangeLevelForAnyone

\* Remembering a player gives trigger data.
LEMMA RememberType ==
  ASSUME NEW d \in TriggerData, NEW p \in Player \cup {NoPlayer}
  PROVE  Remember(d, p) \in TriggerData
  BY DEF Remember, TriggerData

\* A touch, by whatever callback it is made, leaves a sound state.
LEMMA DispatchTouchOK ==
  ASSUME OtherTypes, NEW s, SessionOK(s), NEW t \in Trigger,
         NEW p \in Player, DispatchTouch(t, p, s)
  PROVE  IInv'
  <1> DEFINE d == trig[t]
             new == IF t \in BackTriggers THEN {} ELSE Recent(d) \cup {p}
             touched == [Remember(d, p) EXCEPT !.bits = new]
             answer == GGM_ChangelevelVote(p, t, s)
  <1>1. d \in TriggerData
    BY DEF OtherTypes
  <1>2. new \in SUBSET Player
    BY <1>1 DEF Recent, TriggerData
  <1>3. Remember(d, p) \in TriggerData
    BY <1>1, RememberType
  <1>4. touched \in TriggerData
    <2> HIDE DEF new
    <2> QED BY <1>2, <1>3 DEF TriggerData
  <1>5. [touched EXCEPT !.fSpawnSaved = FALSE] \in TriggerData
    <2> HIDE DEF touched
    <2> QED BY <1>4 DEF TriggerData
  <1>6. t \in BackTriggers => SessionOK(answer.s)
    BY ChangelevelVoteOK
  <1>7. ASSUME NEW local \in {s.local[p], -2}
        PROVE  SessionOK([s EXCEPT !.local[p] = local])
    BY <1>7 DEF SessionOK, SessionType
  <1>8. \/ TriggerReturns(t, s, d)
        \/ TriggerReturns(t, s, [touched EXCEPT !.fSpawnSaved = FALSE])
        \/ \E local \in {s.local[p], -2} :
             TriggerReturns(t, [s EXCEPT !.local[p] = local], touched)
        \/ TriggerReturns(t, s, touched)
        \/ t \in BackTriggers /\ TriggerReturns(t, answer.s, touched)
        \/ ChangeLevelFor(t, p, FALSE, s, touched)
        \/ t \in BackTriggers /\ ChangeLevelFor(t, p, FALSE, answer.s, touched)
    BY DEF DispatchTouch
  <1> HIDE DEF d, touched, answer
  <1> QED BY <1>1, <1>4, <1>5, <1>6, <1>7, <1>8, TriggerReturnsOK,
             ChangeLevelForOK
-----------------------------------------------------------------------------
(* The actions. *)

\* The facts about the current state that the steps start from.
LEMMA Unfold ==
  ASSUME IInv
  PROVE  /\ OtherTypes /\ SessionOK(Session)
         /\ vote \in GGMVote /\ VoteOK(vote)
         /\ AfterAnyCommand \in GGMVote /\ VoteOK(AfterAnyCommand)
  <1>1. OtherTypes /\ SessionOK(Session)
    BY IInvSession
  <1>2. vote \in GGMVote /\ VoteOK(vote)
    BY <1>1 DEF SessionOK, Session, SessionType
  <1> QED BY <1>1, <1>2, DropExpiredType DEF AfterAnyCommand

\* The session with another vote is sound when the vote is.
LEMMA OtherVoteOK ==
  ASSUME NEW s, SessionOK(s), NEW v \in GGMVote, VoteOK(v)
  PROVE  SessionOK([s EXCEPT !.vote = v])
  BY DEF SessionOK, SessionType

\* A step that replaces the vote alone by a sound one.
LEMMA KeepAllButOK ==
  ASSUME IInv, NEW v \in GGMVote, VoteOK(v), KeepAllBut(v)
  PROVE  IInv'
  <1>1. OtherTypes'
    BY DEF KeepAllBut, IInv, TypeOK, OtherTypes, playerVars
  <1>2. SetSession([Session EXCEPT !.vote = v])
    BY DEF KeepAllBut, SetSession, Session
  <1> QED BY <1>1, <1>2, Unfold, OtherVoteOK, SetSessionOK

\* One confirmation more, as long as they are counted, and one less.
LEMMA CountType ==
  ASSUME NEW v \in GGMVote, VoteOK(v), v.iMode # "NONE"
  PROVE  /\ v.iConfirm < MaxConfirm =>
              /\ [v EXCEPT !.iConfirm = @ + 1] \in GGMVote
              /\ VoteOK([v EXCEPT !.iConfirm = @ + 1])
         /\ v.iConfirm > -MinConfirm =>
              /\ [v EXCEPT !.iConfirm = @ - 1] \in GGMVote
              /\ VoteOK([v EXCEPT !.iConfirm = @ - 1])
         /\ v.iTempBanCount + 1 < 3 =>
              /\ [v EXCEPT !.iTempBanCount = @ + 1] \in GGMVote
              /\ VoteOK([v EXCEPT !.iTempBanCount = @ + 1])
  <1>1. /\ v.iConfirm < MaxConfirm =>
             v.iConfirm + 1 \in -MinConfirm..MaxConfirm
        /\ v.iConfirm > -MinConfirm =>
             v.iConfirm - 1 \in -MinConfirm..MaxConfirm
        /\ v.iTempBanCount + 1 < 3 => v.iTempBanCount + 1 \in 0..2
    BY ConstAssumption DEF GGMVote
  <1> QED BY <1>1 DEF GGMVote, VoteOK

\* A confirmation keeps the invariant.
LEMMA VoteConfirmOK ==
  ASSUME IInv, NEW p \in Player, VoteConfirm(p)
  PROVE  IInv'
  <1> DEFINE v == [vote EXCEPT !.iConfirm = @ + 1]
  <1>1. vote \in GGMVote /\ VoteOK(vote) /\ OtherTypes
    BY Unfold
  <1>2. v \in GGMVote /\ VoteOK(v)
    BY <1>1, CountType DEF VoteConfirm, VoteTakes
  <1>3. vote.iTempBanCount < 3
    BY <1>1 DEF GGMVote
  <1>4. CASE /\ vote.iMode = "CHANGELEVEL" /\ vote.pPlayer # NoPlayer
             /\ DispatchTouch(vote.pTrigger, vote.pPlayer,
                              [Session EXCEPT !.vote = v])
    <2>1. vote.pPlayer \in Player /\ vote.pTrigger \in Trigger
      BY <1>1, <1>4, ConstAssumption DEF GGMVote, VoteOK
    <2>2. SessionOK([Session EXCEPT !.vote = v])
      BY <1>2, Unfold, OtherVoteOK
    <2> HIDE DEF v
    <2> QED BY <1>1, <1>4, <2>1, <2>2, DispatchTouchOK
  <1>5. CASE KeepAllBut(v)
    BY <1>2, <1>5, KeepAllButOK
  <1>6. CASE /\ executed' = TRUE /\ vote' = NoVote
             /\ UNCHANGED <<playerVars, iLocalConfirm, pChangeLevel, trig,
                            locked, g_fPause, clicks>>
    <2>1. OtherTypes'
      BY <1>1, <1>6 DEF OtherTypes, playerVars
    <2>2. SetSession([Session EXCEPT !.vote = NoVote])
      BY <1>6 DEF SetSession, Session
    <2> QED BY <2>1, <2>2, Unfold, NoVoteType, OtherVoteOK, SetSessionOK
  <1>7. \/ /\ vote.iMode = "CHANGELEVEL" /\ vote.pPlayer # NoPlayer
           /\ DispatchTouch(vote.pTrigger, vote.pPlayer,
                            [Session EXCEPT !.vote = v])
        \/ KeepAllBut(v)
        \/ /\ executed' = TRUE /\ vote' = NoVote
           /\ UNCHANGED <<playerVars, iLocalConfirm, pChangeLevel, trig,
                          locked, g_fPause, clicks>>
    BY <1>1, <1>3 DEF VoteConfirm, GGMVote
  <1> QED BY <1>4, <1>5, <1>6, <1>7

\* A cancellation keeps the invariant.
LEMMA VoteCancelOK ==
  ASSUME IInv, NEW p \in Player, VoteCancel(p)
  PROVE  IInv'
  BY Unfold, CountType, NoVoteType, KeepAllButOK DEF VoteCancel, VoteTakes

\* So does a vote to ban.
LEMMA VoteTempBanOK ==
  ASSUME IInv, NEW p \in Player, VoteTempBan(p)
  PROVE  IInv'
  <1>1. vote \in GGMVote /\ VoteOK(vote) /\ OtherTypes
    BY Unfold
  <1>2. vote.iTempBanCount \in 0..2
    BY <1>1 DEF GGMVote
  <1>3. CASE vote.iTempBanCount + 1 < 3
    <2>1. KeepAllBut([vote EXCEPT !.iTempBanCount = @ + 1])
      BY <1>2, <1>3 DEF VoteTempBan
    <2>2. /\ [vote EXCEPT !.iTempBanCount = @ + 1] \in GGMVote
          /\ VoteOK([vote EXCEPT !.iTempBanCount = @ + 1])
      BY <1>1, <1>3, CountType DEF VoteTempBan, VoteTakes
    <2> QED BY <2>1, <2>2, KeepAllButOK
  <1>4. CASE ~(vote.iTempBanCount + 1 < 3)
    <2>1. /\ fIsTempBanned' = GGM_TempBan(vote.pPlayer) /\ vote' = NoVote
          /\ UNCHANGED <<iState, spawnAge, onTrain, iLocalConfirm, clicks,
                         pChangeLevel, trig, locked, g_fPause, executed>>
      BY <1>2, <1>4 DEF VoteTempBan
    <2>2. OtherTypes'
      <3>1. vote.pPlayer = NoPlayer \/ vote.pPlayer \in Player
        BY <1>1 DEF GGMVote
      <3>2. fIsTempBanned' = fIsTempBanned
        BY <2>1, <3>1 DEF GGM_TempBan
      <3> QED BY <1>1, <2>1, <3>2 DEF OtherTypes
    <2>3. SetSession([Session EXCEPT !.vote = NoVote])
      BY <2>1 DEF SetSession, Session
    <2> QED BY <2>2, <2>3, Unfold, NoVoteType, OtherVoteOK, SetSessionOK
  <1> QED BY <1>3, <1>4

\* Opening a command vote keeps the invariant.
LEMMA StartVoteCommandOK ==
  ASSUME IInv, NEW p \in Player \cup {NoPlayer}, NEW v \in GGMVote,
         VoteOK(v), GGM_StartVoteCommand(p, v)
  PROVE  IInv'
  <1>1. /\ GGM_BroadcastVote("COMMAND", p, NoTrigger) \in GGMVote
        /\ VoteOK(GGM_BroadcastVote("COMMAND", p, NoTrigger))
    BY BroadcastType
  <1> QED BY <1>1, DropExpiredType, KeepAllButOK DEF GGM_StartVoteCommand

\* The session in which "confirmchangelevel" touches the trigger.
LEMMA ConfirmSession ==
  ASSUME IInv, NEW p \in Player
  PROVE  LET local == MinNat(iLocalConfirm[p] + 1, 3)
             clicked == IF iLocalConfirm[p] > 0
                        THEN MinNat(clicks[p] + 1, 2) ELSE clicks[p]
         IN  SessionOK([vote |-> AfterAnyCommand,
                        local |-> [iLocalConfirm EXCEPT ![p] = local],
                        pending |-> [pChangeLevel EXCEPT ![p] = NoTrigger],
                        clicks |-> [clicks EXCEPT ![p] = clicked]])
  <1> DEFINE v == AfterAnyCommand
             local == MinNat(iLocalConfirm[p] + 1, 3)
             clicked == IF iLocalConfirm[p] > 0
                        THEN MinNat(clicks[p] + 1, 2) ELSE clicks[p]
             s == [vote |-> v, local |-> [iLocalConfirm EXCEPT ![p] = local],
                   pending |-> [pChangeLevel EXCEPT ![p] = NoTrigger],
                   clicks |-> [clicks EXCEPT ![p] = clicked]]
  <1>1. /\ v \in GGMVote /\ VoteOK(v)
        /\ iLocalConfirm \in [Player -> -2..3] /\ clicks \in [Player -> 0..2]
        /\ pChangeLevel \in [Player -> Trigger \cup {NoTrigger}]
        /\ \A q \in Player : /\ pChangeLevel[q] \in BackTriggers \cup {NoTrigger}
                             /\ iLocalConfirm[q] <= clicks[q] + 1
    BY Unfold DEF IInv, TypeOK, VoteSound
  <1>2. /\ local \in -2..3 /\ clicked \in 0..2 /\ local <= clicked + 1
    <2>1. iLocalConfirm[p] \in -2..3 /\ clicks[p] \in 0..2
          /\ iLocalConfirm[p] <= clicks[p] + 1
      BY <1>1
    <2> QED BY <2>1 DEF MinNat
  <1>3. SessionOK(s)
    <2> HIDE DEF v, local, clicked
    <2> QED BY <1>1, <1>2 DEF SessionOK, SessionType
  <1> QED BY <1>3

\* "confirmchangelevel" keeps the invariant.
LEMMA ConfirmChangelevelOK ==
  ASSUME IInv, NEW p \in Player, ConfirmChangelevel(p)
  PROVE  IInv'
  <1> DEFINE local == MinNat(iLocalConfirm[p] + 1, 3)
             clicked == IF iLocalConfirm[p] > 0
                        THEN MinNat(clicks[p] + 1, 2) ELSE clicks[p]
             s == [vote |-> AfterAnyCommand,
                   local |-> [iLocalConfirm EXCEPT ![p] = local],
                   pending |-> [pChangeLevel EXCEPT ![p] = NoTrigger],
                   clicks |-> [clicks EXCEPT ![p] = clicked]]
  <1>1. OtherTypes
    BY Unfold
  <1>2. SessionOK(s)
    BY ConfirmSession
  <1>3. CASE pChangeLevel[p] # NoTrigger /\ DispatchTouch(pChangeLevel[p], p, s)
    <2>1. pChangeLevel[p] \in Trigger
      BY <1>3 DEF IInv, TypeOK
    <2> HIDE DEF s
    <2> QED BY <1>1, <1>2, <1>3, <2>1, DispatchTouchOK
  <1>4. CASE /\ SetSession(s)
             /\ UNCHANGED <<playerVars, trig, locked, g_fPause, executed>>
    <2>1. OtherTypes'
      BY <1>1, <1>4 DEF OtherTypes, playerVars
    <2> HIDE DEF s
    <2> QED BY <1>2, <1>4, <2>1, SetSessionOK
  <1> QED BY <1>3, <1>4 DEF ConfirmChangelevel

\* The steps that leave the session alone but for the vote.
LEMMA OtherStepsOK ==
  ASSUME IInv,
         \/ \E p \in Player : \/ OtherCommand(p) \/ VoteLoad(p)
                              \/ COOP_NewCheckpoint(p) \/ UTIL_SpawnPlayer(p)
                              \/ Spectate(p) \/ ClientPutInServer(p)
                              \/ ClientConnect(p)
         \/ \E p \in Player, tr \in Train \cup {NoTrain} : Board(p, tr)
         \/ GGM_VoteCommand_f
  PROVE  IInv'
  <1> USE Unfold
  <1>1. ASSUME OtherTypes', vote' \in {vote, AfterAnyCommand},
               UNCHANGED <<iLocalConfirm, pChangeLevel, clicks>>
        PROVE  IInv'
    <2>1. SetSession([Session EXCEPT !.vote = vote'])
      BY <1>1 DEF SetSession, Session
    <2>2. SessionOK([Session EXCEPT !.vote = vote'])
      BY <1>1, OtherVoteOK
    <2> QED BY <1>1, <2>1, <2>2, SetSessionOK
  <1>2. 0 \in 0..(SpawnDelay + 1)
    BY ConstAssumption
  <1>3. ASSUME NEW p \in Player, OtherCommand(p) PROVE IInv'
    BY <1>3, KeepAllButOK DEF OtherCommand
  <1>4. ASSUME NEW p \in Player, VoteLoad(p) PROVE IInv'
    BY <1>4, StartVoteCommandOK DEF VoteLoad
  <1>5. ASSUME NEW p \in Player, COOP_NewCheckpoint(p) PROVE IInv'
    BY <1>1, <1>5 DEF COOP_NewCheckpoint, OtherTypes, playerVars
  <1>6. ASSUME NEW p \in Player, UTIL_SpawnPlayer(p) PROVE IInv'
    <2>1. OtherTypes'
      BY <1>2, <1>6 DEF UTIL_SpawnPlayer, OtherTypes, PlayerState
    <2> QED BY <1>1, <1>6, <2>1 DEF UTIL_SpawnPlayer
  <1>7. ASSUME NEW p \in Player, Spectate(p) PROVE IInv'
    <2>1. OtherTypes'
      BY <1>7 DEF Spectate, OtherTypes, PlayerState
    <2> QED BY <1>1, <1>7, <2>1 DEF Spectate
  <1>8. ASSUME NEW p \in Player, ClientPutInServer(p) PROVE IInv'
    <2>1. OtherTypes'
      BY <1>2, <1>8 DEF ClientPutInServer, OtherTypes, PlayerState
    <2> QED BY <1>1, <1>8, <2>1 DEF ClientPutInServer
  <1>9. ASSUME NEW p \in Player, ClientConnect(p) PROVE IInv'
    <2>1. OtherTypes'
      BY <1>9 DEF ClientConnect, OtherTypes, PlayerState
    <2> QED BY <1>1, <1>9, <2>1 DEF ClientConnect
  <1>10. ASSUME NEW p \in Player, NEW tr \in Train \cup {NoTrain},
                Board(p, tr)
         PROVE  IInv'
    <2>1. OtherTypes'
      BY <1>10 DEF Board, OtherTypes
    <2> QED BY <1>1, <1>10, <2>1 DEF Board
  <1>11. ASSUME GGM_VoteCommand_f PROVE IInv'
    BY <1>11, StartVoteCommandOK DEF GGM_VoteCommand_f
  <1> QED BY <1>3, <1>4, <1>5, <1>6, <1>7, <1>8, <1>9, <1>10, <1>11

\* A player who leaves takes the vote's initiator along, never its subject.
LEMMA ClientDisconnectOK ==
  ASSUME IInv, NEW p \in Player, ClientDisconnect(p)
  PROVE  IInv'
  <1> USE Unfold
  <1>1. OtherTypes /\ SessionOK(Session) /\ vote \in GGMVote /\ VoteOK(vote)
        /\ fIsTempBanned' = fIsTempBanned
        /\ onTrain' = [onTrain EXCEPT ![p] = NoTrain]
        /\ UNCHANGED <<locked, g_fPause, executed>>
    BY DEF ClientDisconnect
  <1>2. CASE /\ iState' = [iState EXCEPT ![p] = IF @ = "SPAWNED" THEN "GONE"
                                                ELSE "UNINITIALIZED"]
             /\ UNCHANGED <<vote, iLocalConfirm, pChangeLevel, trig, spawnAge,
                            clicks>>
    <2>1. OtherTypes'
      BY <1>1, <1>2 DEF OtherTypes, PlayerState
    <2>2. SetSession(Session)
      BY <1>2 DEF SetSession, Session
    <2> QED BY <1>1, <2>1, <2>2, SetSessionOK
  <1>3. CASE /\ iState' = [iState EXCEPT ![p] = "NONE"]
             /\ vote' = [vote EXCEPT !.pPlayer = IF @ = p THEN NoPlayer ELSE @]
             /\ trig' = [t \in Trigger |-> [trig[t] EXCEPT !.hActivator =
                                              IF @ = p THEN NoPlayer ELSE @]]
             /\ spawnAge' = [spawnAge EXCEPT ![p] = 0]
             /\ iLocalConfirm' = [iLocalConfirm EXCEPT ![p] = 0]
             /\ pChangeLevel' = [pChangeLevel EXCEPT ![p] = NoTrigger]
             /\ clicks' = [clicks EXCEPT ![p] = 0]
    <2>1. 0 \in 0..(SpawnDelay + 1)
      BY ConstAssumption
    <2>2. \A d \in TriggerData :
            [d EXCEPT !.hActivator = IF @ = p THEN NoPlayer ELSE @]
              \in TriggerData
      BY DEF TriggerData
    <2>3. \A t \in Trigger : trig[t] \in TriggerData
      BY <1>1 DEF OtherTypes
    <2>4. trig' \in [Trigger -> TriggerData]
      BY <1>3, <2>2, <2>3
    <2>5. OtherTypes'
      BY <1>1, <1>3, <2>1, <2>4 DEF OtherTypes, PlayerState
    <2>6. vote' \in GGMVote /\ VoteOK(vote')
      <3>1. vote' \in GGMVote
        BY <1>1, <1>3 DEF GGMVote
      <3>2. vote.iMode = "NONE" => vote' = NoVote
        BY <1>1, <1>3, ConstAssumption DEF VoteOK, NoVote
      <3>3. vote'.iMode = vote.iMode /\ vote'.pTrigger = vote.pTrigger
        BY <1>1, <1>3 DEF GGMVote
      <3> QED BY <1>1, <3>1, <3>2, <3>3 DEF VoteOK
    <2> DEFINE s == [vote |-> vote',
                     local |-> [iLocalConfirm EXCEPT ![p] = 0],
                     pending |-> [pChangeLevel EXCEPT ![p] = NoTrigger],
                     clicks |-> [clicks EXCEPT ![p] = 0]]
    <2>7. SetSession(s)
      BY <1>3 DEF SetSession
    <2>8. SessionOK(s)
      BY <1>1, <2>6 DEF SessionOK, SessionType, Session
    <2> HIDE DEF s
    <2> QED BY <2>5, <2>7, <2>8, SetSessionOK
  <1> QED BY <1>2, <1>3 DEF ClientDisconnect

\* A session of a map that starts.
LEMMA NewSessionOK ==
  SessionOK([vote |-> NoVote, local |-> [p \in Player |-> 0],
             pending |-> [p \in Player |-> NoTrigger],
             clicks |-> [p \in Player |-> 0]])
  BY NoVoteType DEF SessionOK, SessionType

\* A trigger of a map that starts.
LEMMA NewTriggerType == NewTrigger \in TriggerData
  BY ConstAssumption DEF NewTrigger, TriggerData

\* The next map starts in a sound state.
LEMMA GGM_ServerActivateOK ==
  ASSUME IInv, GGM_ServerActivate
  PROVE  IInv'
  <1>1. 0 \in 0..(SpawnDelay + 1) /\ OtherTypes
    BY ConstAssumption, Unfold
  <1>2. OtherTypes'
    BY <1>1, NewTriggerType DEF OtherTypes, GGM_ServerActivate, PlayerState
  <1>3. SetSession([vote |-> NoVote, local |-> [p \in Player |-> 0],
                    pending |-> [p \in Player |-> NoTrigger],
                    clicks |-> [p \in Player |-> 0]])
    BY DEF SetSession, GGM_ServerActivate
  <1> QED BY <1>2, <1>3, NewSessionOK, SetSessionOK

\* Time only makes things older, up to their bounds.
LEMMA TickOK ==
  ASSUME IInv, Tick
  PROVE  IInv'
  <1>1. OtherTypes /\ SessionOK(Session) /\ vote \in GGMVote /\ VoteOK(vote)
    BY Unfold
  <1>2. ASSUME NEW n \in Nat, NEW a \in 0..n PROVE MinNat(a + 1, n) \in 0..n
    BY <1>2 DEF MinNat
  <1>3. /\ InactiveTime + 1 \in Nat /\ SpawnDelay + 1 \in Nat
        /\ TouchMemory + 1 \in Nat /\ 0 \in 0..(InactiveTime + 1)
    BY ConstAssumption
  <1>4. spawnAge' \in [Player -> 0..(SpawnDelay + 1)]
    <2>1. \A p \in Player : spawnAge[p] \in 0..(SpawnDelay + 1)
      BY <1>1 DEF OtherTypes
    <2>2. \A p \in Player :
            MinNat(spawnAge[p] + 1, SpawnDelay + 1) \in 0..(SpawnDelay + 1)
      BY <1>2, <1>3, <2>1
    <2> QED BY <2>1, <2>2 DEF Tick
  <1>5. trig' \in [Trigger -> TriggerData]
    <2> DEFINE older(d) == [d EXCEPT !.dmgAge = MinNat(@ + 1, TouchMemory + 1)]
    <2>1. ASSUME NEW d \in TriggerData PROVE older(d) \in TriggerData
      <3>1. d.dmgAge \in 0..(TouchMemory + 1)
        BY DEF TriggerData
      <3>2. MinNat(d.dmgAge + 1, TouchMemory + 1) \in 0..(TouchMemory + 1)
        BY <1>2, <1>3, <3>1
      <3> QED BY <3>2 DEF TriggerData
    <2>2. trig' = [t \in Trigger |-> older(trig[t])]
      BY DEF Tick
    <2>3. \A t \in Trigger : trig[t] \in TriggerData
      BY <1>1 DEF OtherTypes
    <2> HIDE DEF older
    <2> QED BY <2>1, <2>2, <2>3
  <1>6. OtherTypes'
    BY <1>1, <1>4, <1>5 DEF OtherTypes, Tick
  <1>7. vote' \in GGMVote /\ VoteOK(vote')
    <2> DEFINE older == IF vote.iMode = "NONE" THEN 0
                        ELSE MinNat(vote.age + 1, InactiveTime + 1)
    <2>1. older \in 0..(InactiveTime + 1)
      <3>1. vote.age \in 0..(InactiveTime + 1)
        BY <1>1 DEF GGMVote
      <3> QED BY <1>2, <1>3, <3>1
    <2>2. vote' = [vote EXCEPT !.age = older]
      BY DEF Tick
    <2>3. vote.iMode = "NONE" => vote' = NoVote
      BY <1>1, <2>2 DEF VoteOK, NoVote
    <2> HIDE DEF older
    <2> QED BY <1>1, <2>1, <2>2, <2>3 DEF GGMVote, VoteOK
  <1>8. SetSession([Session EXCEPT !.vote = vote'])
    BY DEF SetSession, Session, Tick
  <1> QED BY <1>1, <1>6, <1>7, <1>8, OtherVoteOK, SetSessionOK
-----------------------------------------------------------------------------
(* The theorems. *)

\* The initial state satisfies the inductive invariant.
LEMMA InitIInv == Init => IInv
  <1> SUFFICES ASSUME Init PROVE IInv
    OBVIOUS
  <1>1. 0 \in 0..(SpawnDelay + 1)
    BY ConstAssumption
  <1>2. OtherTypes
    <2>1. fIsTempBanned \in [Player -> BOOLEAN]
      <3>1. fIsTempBanned = [p \in Player |-> p \in BadName]
        BY DEF Init
      <3>2. \A p \in Player : (p \in BadName) \in BOOLEAN
        OBVIOUS
      <3> QED BY <3>1, <3>2
    <2> QED BY <1>1, <2>1, NewTriggerType DEF OtherTypes, Init, PlayerState
  <1>3. Session = [vote |-> NoVote, local |-> [p \in Player |-> 0],
                   pending |-> [p \in Player |-> NoTrigger],
                   clicks |-> [p \in Player |-> 0]]
    BY DEF Session, Init
  <1> QED BY <1>2, <1>3, NewSessionOK, IInvSession

\* Every step keeps it.
LEMMA NextIInv == IInv /\ [Next]_vars => IInv'
  <1> SUFFICES ASSUME IInv, [Next]_vars PROVE IInv'
    OBVIOUS
  <1> USE Unfold
  <1>1. CASE UNCHANGED vars
    <2>1. UNCHANGED <<vote, iState, spawnAge, fIsTempBanned, onTrain,
                      iLocalConfirm, pChangeLevel, trig, locked, g_fPause,
                      executed, clicks>>
      BY <1>1 DEF vars, playerVars
    <2> QED BY <2>1 DEF IInv, TypeOK, VoteSound
  <1>2. ASSUME NEW p \in Player, PlayerCommand(p) PROVE IInv'
    BY <1>2, VoteConfirmOK, VoteCancelOK, VoteTempBanOK, ConfirmChangelevelOK,
       OtherStepsOK DEF PlayerCommand
  <1>3. ASSUME NEW p \in Player, Connection(p) PROVE IInv'
    BY <1>3, ClientDisconnectOK, OtherStepsOK DEF Connection
  <1>4. ASSUME NEW p \in Player, NEW t \in Trigger, Touch(t, p) PROVE IInv'
    BY <1>4, DispatchTouchOK DEF Touch
  <1>5. ASSUME NEW p \in Player, NEW tr \in Train \cup {NoTrain}, Board(p, tr)
        PROVE  IInv'
    BY <1>5, OtherStepsOK
  <1>6. ASSUME NEW a \in Player \cup {NoPlayer}, NEW t \in UseTriggers,
               Use(t, a)
        PROVE  IInv'
    <2>1. t \in Trigger
      BY ConstAssumption
    <2>2. trig[t] \in TriggerData
      BY <2>1 DEF OtherTypes
    <2>3. \A near \in Player \cup {NoPlayer} :
            Remember(trig[t], near) \in TriggerData
      BY <2>2, RememberType
    <2>4. PICK skip \in BOOLEAN : UseChangeLevel(t, a, skip)
      BY <1>6 DEF Use
    <2>5. \/ TriggerReturns(t, Session, trig[t])
          \/ ChangeLevelFor(t, a, skip, Session, Remember(trig[t], a))
          \/ \E near \in Player \cup {NoPlayer} :
               ChangeLevelForAnyone(t, skip, Session, Remember(trig[t], near))
      BY <2>4 DEF UseChangeLevel
    <2> QED BY <2>1, <2>2, <2>3, <2>5, TriggerReturnsOK, ChangeLevelForOK,
               ChangeLevelForAnyoneOK
  <1>7. CASE GGM_VoteCommand_f
    BY <1>7, OtherStepsOK
  <1>8. CASE GGM_ServerActivate
    BY <1>8, GGM_ServerActivateOK
  <1>9. CASE Tick
    BY <1>9, TickOK
  <1> QED BY <1>1, <1>2, <1>3, <1>4, <1>5, <1>6, <1>7, <1>8, <1>9 DEF Next

\* The inductive invariant holds in every state.
LEMMA IInvAlways == Spec => []IInv
  BY InitIInv, NextIInv, PTL DEF Spec

\* Type correctness: among the rest, strikes stay below three, local
\* confirmations between -2 and 3 and ages below their caps.
THEOREM TypeCorrect == Spec => []TypeOK
  <1>1. IInv => TypeOK
    BY DEF IInv
  <1> QED BY <1>1, IInvAlways, PTL

\* Whatever the nesting of callbacks, a vote is about one thing, a vote to
\* change the level is about a back trigger and a finished vote leaves no
\* data behind.
THEOREM VoteIsSound == Spec => []VoteSound
  <1>1. IInv => VoteSound
    BY DEF IInv
  <1> QED BY <1>1, IInvAlways, PTL
=============================================================================

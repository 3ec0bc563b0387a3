------------------------- MODULE CoopVoteStepProofs -------------------------
(***************************************************************************)
(* What a step of CoopVote may do to the vote and to the triggers, and the *)
(* theorems that follow: who opens a vote and what ends it, what the       *)
(* players need before a level changes, that CoopVote implements VoteRound *)
(* and when no second change of level is started.  The calls of a step     *)
(* nest, so the lemmas follow the vote of a session through them.          *)
(***************************************************************************)
EXTENDS CoopVoteProofs

\* No trigger has changed the level, and those that have wait as before.
Quiet ==
  \A t \in Trigger : /\ trig'[t].fValid = trig[t].fValid
                     /\ trig[t].fValid => trig'[t].dmgAge = trig[t].dmgAge

\* A step that ends with vote v and clicks c, and moves no player.
Stays(v, c) ==
  Quiet /\ vote' = v /\ clicks' = c /\ UNCHANGED <<playerVars, executed>>

\* Trigger t changes the level.
Departs(t) ==
  /\ ~trig[t].fValid /\ trig'[t].fValid /\ trig'[t].dmgAge = 0
  /\ \A u \in Trigger \ {t} : trig'[u] = trig[u]
  /\ vote' = NoVote /\ g_fPause' = TRUE
  /\ \A p \in Player : iState'[p] \in {"NONE", "UNINITIALIZED"}
  /\ UNCHANGED executed

\* Every rider is on the same train.
Together ==
  \A p, q \in {r \in Player : iState[r] = "SPAWNED"} :
    onTrain[p] = onTrain[q] \/ NoTrain \in {onTrain[p], onTrain[q]}

OnFoot == \A q \in Player : onTrain[q] = NoTrain

\* Trigger t was touched, and everyone needed agrees.
Agreed(t) ==
  Together /\ (OnFoot => Counted # {} /\ (t \in BackTriggers => Mandate(t)))
-----------------------------------------------------------------------------
(* Triggers. *)

LEMMA ReturnsIs ==
  ASSUME OtherTypes, NEW s, NEW t \in Trigger, NEW d, TriggerReturns(t, s, d),
         d.fValid = trig[t].fValid, trig[t].fValid => d.dmgAge = trig[t].dmgAge
  PROVE  Stays(s.vote, s.clicks)
  BY DEF OtherTypes, TriggerReturns, SetSession, Stays, Quiet

LEMMA ActivateIs ==
  ASSUME OtherTypes, NEW s, SessionOK(s), NEW t \in Trigger, ~trig[t].fValid,
         NEW d \in TriggerData, Activate(t, s, d)
  PROVE  Departs(t)
  <1>1. [s EXCEPT !.vote = NoVote].vote = NoVote
    BY DEF SessionOK, SessionType
  <1>2. vote' = NoVote
    BY <1>1 DEF Activate, SetSession
  <1> DEFINE e == [d EXCEPT !.fValid = TRUE, !.dmgAge = 0, !.bits = {}]
  <1>3. e.fValid /\ e.dmgAge = 0
    BY DEF TriggerData
  <1>4. trig' = [trig EXCEPT ![t] = e]
    BY DEF Activate
  <1> HIDE DEF e
  <1>5. trig'[t] = e /\ \A u \in Trigger \ {t} : trig'[u] = trig[u]
    BY <1>4 DEF OtherTypes
  <1>6. /\ \A p \in Player : iState'[p] \in {"NONE", "UNINITIALIZED"}
        /\ g_fPause' = TRUE /\ UNCHANGED executed
    BY DEF Activate
  <1> QED BY <1>2, <1>3, <1>5, <1>6 DEF Departs

\* What a refusal writes into a trigger that has not changed the level.
LEMMA RefusalIs ==
  ASSUME NEW d \in TriggerData
  PROVE  /\ [d EXCEPT !.bits = {}].fValid = d.fValid
         /\ [d EXCEPT !.bits = {}, !.dmgAge = 0].fValid = d.fValid
  BY DEF TriggerData

LEMMA ChangeLevelForIs ==
  ASSUME OtherTypes, NEW s, SessionOK(s), NEW t \in Trigger, NEW p, NEW skip,
         NEW d \in TriggerData, ~trig[t].fValid, d.fValid = trig[t].fValid,
         ChangeLevelFor(t, p, skip, s, d)
  PROVE  Stays(s.vote, s.clicks) \/ Departs(t)
  BY RefusalIs, ReturnsIs, ActivateIs DEF ChangeLevelFor

LEMMA ChangeLevelForAnyoneIs ==
  ASSUME OtherTypes, NEW s, SessionOK(s), NEW t \in Trigger, NEW skip,
         NEW d \in TriggerData, ~trig[t].fValid, d.fValid = trig[t].fValid,
         ChangeLevelForAnyone(t, skip, s, d)
  PROVE  Stays(s.vote, s.clicks) \/ Departs(t)
  BY RefusalIs, ReturnsIs, ActivateIs DEF ChangeLevelForAnyone

LEMMA RememberIs ==
  ASSUME NEW d \in TriggerData, NEW p \in Player \cup {NoPlayer}
  PROVE  /\ Remember(d, p) \in TriggerData /\ Remember(d, p).fValid = d.fValid
         /\ Remember(d, p).dmgAge = d.dmgAge
  BY RememberType DEF Remember, TriggerData

\* A used trigger asks nobody.
LEMMA UseIs ==
  ASSUME IInv, NEW t \in UseTriggers, NEW a \in Player \cup {NoPlayer}, Use(t, a)
  PROVE  Stays(vote, clicks) \/ Departs(t)
  <1>1. /\ OtherTypes /\ SessionOK(Session) /\ t \in Trigger
        /\ Session.vote = vote /\ Session.clicks = clicks
    BY Unfold, ConstAssumption DEF Session
  <1>2. trig[t] \in TriggerData
    BY <1>1 DEF OtherTypes
  <1>3. PICK skip \in BOOLEAN : UseChangeLevel(t, a, skip)
    BY DEF Use
  <1>4. CASE trig[t].fValid
    <2>1. TriggerReturns(t, Session, trig[t])
      BY <1>3, <1>4 DEF UseChangeLevel
    <2> QED BY <1>1, <2>1, ReturnsIs
  <1>5. CASE ~trig[t].fValid
    <2>1. \/ ChangeLevelFor(t, a, skip, Session, Remember(trig[t], a))
          \/ \E near \in Player \cup {NoPlayer} :
               ChangeLevelForAnyone(t, skip, Session, Remember(trig[t], near))
      BY <1>3, <1>5 DEF UseChangeLevel
    <2> QED BY <1>1, <1>2, <1>5, <2>1, RememberIs, ChangeLevelForIs, ChangeLevelForAnyoneIs
  <1> QED BY <1>4, <1>5

\* Who rides a train is counted.
LEMMA RidersCount ==
  ASSUME NEW train, \A q \in Counted : onTrain[q] \in {NoTrain, train}
  PROVE  Together
  <1>1. ASSUME NEW p \in Player, iState[p] = "SPAWNED" PROVE onTrain[p] \in {NoTrain, train}
    BY <1>1 DEF Counted, Present, Visible
  <1> QED BY <1>1 DEF Together

\* What a touch does, by whatever callback it is made.
LEMMA TouchIs ==
  ASSUME OtherTypes, NEW t \in Trigger, NEW p \in Player, NEW s, SessionOK(s),
         DispatchTouch(t, p, s)
  PROVE  LET answer == GGM_ChangelevelVote(p, t, s)
         IN  \/ Stays(s.vote, s.clicks)
             \/ t \in BackTriggers /\ Stays(answer.s.vote, answer.s.clicks)
             \/ /\ Departs(t) /\ Together
                /\ OnFoot => /\ Cardinality(Counted) > 0
                             /\ t \in BackTriggers => answer.ret >= Cardinality(Counted)
  <1> DEFINE d == trig[t]
             activator == IF d.fSpawnSaved THEN d.hActivator ELSE p
             train == IF activator = NoPlayer THEN NoTrain ELSE onTrain[activator]
             new == IF t \in BackTriggers THEN {} ELSE Recent(d) \cup {p}
             touched == [Remember(d, p) EXCEPT !.bits = new]
             answer == GGM_ChangelevelVote(p, t, s)
             count2 == Cardinality(Counted)
             otherTrain == \E q \in Counted : onTrain[q] \notin {NoTrain, train}
             Votes == train # NoTrain \/ (count2 > 0 /\ (t \in BackTriggers => answer.ret >= count2))
  <1>1. d \in TriggerData
    BY DEF OtherTypes
  <1>2. new \in SUBSET Player
    BY <1>1 DEF Recent, TriggerData
  <1>3. touched \in TriggerData /\ touched.fValid = d.fValid
    <2> HIDE DEF new, d
    <2> QED BY <1>1, <1>2, RememberIs DEF TriggerData
  <1>4. /\ [touched EXCEPT !.fSpawnSaved = FALSE].fValid = d.fValid
        /\ [touched EXCEPT !.fSpawnSaved = FALSE] \in TriggerData
    <2> HIDE DEF touched, d
    <2> QED BY <1>3 DEF TriggerData
  <1>5. t \in BackTriggers => SessionOK(answer.s)
    BY ChangelevelVoteOK
  <1>6. ASSUME NEW local
        PROVE  /\ [s EXCEPT !.local[p] = local].vote = s.vote
               /\ [s EXCEPT !.local[p] = local].clicks = s.clicks
    BY DEF SessionOK, SessionType
  <1>7. OnFoot => train = NoTrain
    <2>1. activator \in Player \cup {NoPlayer}
      BY <1>1 DEF TriggerData
    <2> HIDE DEF activator
    <2> QED BY <2>1 DEF OnFoot
  <1>8. \/ TriggerReturns(t, s, d)
        \/ /\ ~d.fValid
           /\ \/ TriggerReturns(t, s, [touched EXCEPT !.fSpawnSaved = FALSE])
              \/ \E local \in {s.local[p], -2} :
                   TriggerReturns(t, [s EXCEPT !.local[p] = local], touched)
              \/ TriggerReturns(t, s, touched)
              \/ t \in BackTriggers /\ TriggerReturns(t, answer.s, touched)
              \/ ~otherTrain /\ Votes
                 /\ \/ ChangeLevelFor(t, p, FALSE, s, touched)
                    \/ t \in BackTriggers /\ ChangeLevelFor(t, p, FALSE, answer.s, touched)
    BY DEF DispatchTouch
  <1> HIDE DEF answer, touched
  <1>9. CASE TriggerReturns(t, s, d)
    BY <1>9, ReturnsIs
  <1>10. CASE ~d.fValid /\ TriggerReturns(t, s, [touched EXCEPT !.fSpawnSaved = FALSE])
    BY <1>4, <1>10, ReturnsIs
  <1>11. ASSUME ~d.fValid, NEW local, TriggerReturns(t, [s EXCEPT !.local[p] = local], touched)
         PROVE  Stays(s.vote, s.clicks)
    BY <1>3, <1>6, <1>11, ReturnsIs
  <1>12. CASE ~d.fValid /\ TriggerReturns(t, s, touched)
    BY <1>3, <1>12, ReturnsIs
  <1>13. CASE ~d.fValid /\ t \in BackTriggers /\ TriggerReturns(t, answer.s, touched)
    <2>1. Stays(answer.s.vote, answer.s.clicks)
      BY <1>3, <1>13, ReturnsIs
    <2> QED BY <1>13, <2>1 DEF answer
  <1>14. CASE /\ ~d.fValid /\ ~otherTrain /\ Votes
              /\ \/ ChangeLevelFor(t, p, FALSE, s, touched)
                 \/ t \in BackTriggers /\ ChangeLevelFor(t, p, FALSE, answer.s, touched)
    <2>1. Stays(s.vote, s.clicks) \/ (t \in BackTriggers /\ Stays(answer.s.vote, answer.s.clicks))
            \/ Departs(t)
      BY <1>3, <1>5, <1>14, ChangeLevelForIs
    <2>2. ~otherTrain
      BY <1>14
    <2> HIDE DEF train
    <2>3. Together
      BY <2>2, RidersCount
    <2> QED BY <1>7, <1>14, <2>1, <2>3 DEF answer
  <1> QED BY <1>8, <1>9, <1>10, <1>11, <1>12, <1>13, <1>14
-----------------------------------------------------------------------------
(* The vote. *)

\* Player p opens a vote on back trigger t.
OpensFor(v, p, t) ==
  v = GGM_BroadcastVote("CHANGELEVEL", p, t) /\ ~GGM_IsTempBanned(p)

\* The answer to a touch: the running vote on this trigger, or none.
LEMMA AnswerIs ==
  ASSUME NEW s, SessionOK(s), NEW p \in Player, NEW t \in BackTriggers
  PROVE  LET answer == GGM_ChangelevelVote(p, t, s)
             v == DropExpired(s.vote)
         IN  /\ \/ answer.s.vote = v
                \/ /\ v.iMode = "NONE" /\ OpensFor(answer.s.vote, p, t)
                   /\ answer.s.clicks = s.clicks /\ s.clicks[p] >= 2
             /\ answer.ret > 0 => /\ v.iMode = "CHANGELEVEL" /\ v.pTrigger = t
                                  /\ answer.ret = v.iConfirm
  <1> DEFINE v == DropExpired(s.vote)
             now == [s EXCEPT !.vote = v]
             asked == IF s.local[p] <= 0 THEN 1 ELSE s.local[p]
             offer == [now EXCEPT !.local[p] = asked, !.pending[p] = t,
                         !.clicks[p] = IF s.local[p] <= 0 THEN 0 ELSE @]
             new == GGM_BroadcastVote("CHANGELEVEL", p, t)
             opened == [vote |-> new, local |-> [s.local EXCEPT ![p] = 0],
                        pending |-> [s.pending EXCEPT ![p] = NoTrigger],
                        clicks |-> s.clicks]
             answer == GGM_ChangelevelVote(p, t, s)
  <1>1. s \in SessionType /\ s.vote \in GGMVote /\ VoteOK(s.vote)
    BY DEF SessionOK, SessionType
  <1>2. v \in GGMVote
    BY <1>1, DropExpiredType
  <1>3. s.local[p] \in -2..3 /\ s.clicks[p] \in 0..2 /\ s.local[p] <= s.clicks[p] + 1
    BY <1>1 DEF SessionOK, SessionType
  <1>4. now.vote = v
    BY <1>1 DEF SessionType
  <1>5. offer.vote = v
    <2> HIDE DEF v, asked
    <2> QED BY <1>1 DEF SessionType
  <1>6. v.iMode \in {"NONE", "CHANGELEVEL", "COMMAND"}
    BY <1>2 DEF GGMVote
  <1>7. CASE v.iMode # "NONE"
    <2>1. answer = [ret |-> IF v.iMode = "CHANGELEVEL" /\ v.pTrigger = t THEN v.iConfirm ELSE -1,
                    s |-> now]
      BY <1>7 DEF GGM_ChangelevelVote
    <2> HIDE DEF now, v, answer
    <2>2. answer.s.vote = v
      BY <1>4, <2>1
    <2>3. answer.ret = IF v.iMode = "CHANGELEVEL" /\ v.pTrigger = t THEN v.iConfirm ELSE -1
      BY <2>1
    <2> QED BY <2>2, <2>3 DEF answer, v
  <1>8. CASE v.iMode = "NONE" /\ GGM_IsTempBanned(p)
    <2>1. answer = [ret |-> -1, s |-> now]
      BY <1>8 DEF GGM_ChangelevelVote
    <2> HIDE DEF now, v, answer
    <2>2. answer.s.vote = v /\ answer.ret = -1
      BY <1>4, <2>1
    <2> QED BY <2>2 DEF answer, v
  <1>9. CASE v.iMode = "NONE" /\ ~GGM_IsTempBanned(p) /\ asked < 3
    <2>1. answer = [ret |-> -1, s |-> offer]
      BY <1>9 DEF GGM_ChangelevelVote
    <2> HIDE DEF offer, v, answer
    <2>2. answer.s.vote = v /\ answer.ret = -1
      BY <1>5, <2>1
    <2> QED BY <2>2 DEF answer, v
  <1>10. CASE v.iMode = "NONE" /\ ~GGM_IsTempBanned(p) /\ ~(asked < 3)
    <2>1. answer = [ret |-> 0, s |-> opened]
      BY <1>10 DEF GGM_ChangelevelVote
    <2>2. s.clicks[p] >= 2
      BY <1>3, <1>10
    <2>3. opened.vote = new /\ opened.clicks = s.clicks
      OBVIOUS
    <2> HIDE DEF opened, v, answer, new
    <2>4. answer.s.vote = new /\ answer.s.clicks = s.clicks /\ answer.ret = 0
      BY <2>1, <2>3
    <2> QED BY <1>10, <2>2, <2>4 DEF answer, v, new, OpensFor
  <1> QED BY <1>6, <1>7, <1>8, <1>9, <1>10

LEMMA AnswerInt ==
  ASSUME NEW s, SessionOK(s), NEW p \in Player, NEW t \in BackTriggers
  PROVE  GGM_ChangelevelVote(p, t, s).ret \in Int
  <1>1. s.vote \in GGMVote /\ VoteOK(s.vote)
    BY DEF SessionOK, SessionType
  <1>2. DropExpired(s.vote).iConfirm \in Int /\ DropExpired(s.vote).iMode \in {"NONE", "CHANGELEVEL", "COMMAND"}
    BY <1>1, DropExpiredType DEF GGMVote
  <1> QED BY <1>2 DEF GGM_ChangelevelVote

InTime == vote.iMode # "NONE" /\ ~Expired(vote) /\ vote.age >= MisclickTime

\* The vote is about the same thing, and its initiator's as long as he is there.
SameRound ==
  /\ vote'.iMode = vote.iMode /\ vote'.pTrigger = vote.pTrigger
  /\ vote'.pPlayer \in {vote.pPlayer, NoPlayer} /\ vote'.iMaxCount = vote.iMaxCount

Untouched == vote'.age = vote.age /\ vote'.iConfirm = vote.iConfirm

Voted == InTime /\ vote'.age = vote.age
               /\ vote'.iConfirm \in {vote.iConfirm + 1, vote.iConfirm - 1}

Aged ==
  /\ vote'.age = IF vote.iMode # "NONE" /\ ~Expired(vote) THEN vote.age + 1 ELSE vote.age
  /\ vote'.iConfirm = vote.iConfirm /\ executed' = FALSE

Ran == InTime /\ 2 * (vote.iConfirm + 1) > vote.iMaxCount /\ vote' = NoVote /\ executed' = TRUE

\* A vote is opened, when none is running, by a player who is not banned or by nobody.
Opens ==
  /\ vote.iMode = "NONE" \/ Expired(vote)
  /\ \E m \in {"CHANGELEVEL", "COMMAND"}, p \in Player \cup {NoPlayer}, t \in Trigger \cup {NoTrigger} :
       /\ vote' = GGM_BroadcastVote(m, p, t)
       /\ p \in Player => ~GGM_IsTempBanned(p)
       /\ m = "CHANGELEVEL" => p \in Player /\ clicks'[p] >= 2

\* What a step does to the vote.
VoteStep ==
  \/ SameRound /\ (Untouched \/ Voted) /\ UNCHANGED executed
  \/ SameRound /\ Aged
  \/ vote' = NoVote /\ executed' \in {executed, FALSE}
  \/ Ran
  \/ Opens /\ UNCHANGED executed

LEMMA KeptVote ==
  ASSUME vote' = vote, UNCHANGED executed
  PROVE  VoteStep
  BY DEF VoteStep, SameRound, Untouched

LEMMA DroppedVote ==
  ASSUME vote' \in {vote, AfterAnyCommand, DropExpired(vote), NoVote}, UNCHANGED executed
  PROVE  VoteStep
  <1>1. vote' \in {vote, NoVote}
    BY DEF AfterAnyCommand, DropExpired
  <1> QED BY <1>1, KeptVote DEF VoteStep

\* A vote that is dropped now and looked at again is still dropped.
LEMMA DropIs ==
  /\ AfterAnyCommand \in {vote, NoVote}
  /\ DropExpired(AfterAnyCommand) \in {vote, NoVote}
  /\ DropExpired(AfterAnyCommand).iMode # "NONE" =>
       DropExpired(AfterAnyCommand) = vote /\ ~Expired(vote)
  /\ DropExpired(AfterAnyCommand).iMode = "NONE" => vote.iMode = "NONE" \/ Expired(vote)
  <1>1. NoVote.iMode = "NONE"
    BY DEF NoVote
  <1>2. CASE vote.iMode = "NONE"
    BY <1>1, <1>2 DEF AfterAnyCommand, DropExpired
  <1>3. CASE vote.iMode # "NONE" /\ Expired(vote)
    <2>1. AfterAnyCommand = NoVote
      BY <1>3 DEF AfterAnyCommand, DropExpired
    <2>2. DropExpired(NoVote) = NoVote
      BY DEF DropExpired
    <2> QED BY <1>1, <1>3, <2>1, <2>2
  <1>4. CASE vote.iMode # "NONE" /\ ~Expired(vote)
    BY <1>4 DEF AfterAnyCommand, DropExpired
  <1> QED BY <1>2, <1>3, <1>4
-----------------------------------------------------------------------------
(* Steps that touch or use a trigger. *)

\* No trigger changes the level and no player comes, moves or goes.
Still == Quiet /\ UNCHANGED <<iState, spawnAge, onTrain>>

\* What a call may do: a step of the vote, and no level changes without the players needed.
CallStep ==
  /\ VoteStep
  /\ Still \/ \E t \in Trigger : Departs(t) /\ (t \in UseTriggers \/ Agreed(t))

LEMMA CountedNat ==
  Cardinality(Counted) \in Nat /\ (Cardinality(Counted) > 0 => Counted # {})
  <1>1. Counted \subseteq Player
    BY DEF Counted
  <1>2. IsFiniteSet(Counted)
    BY <1>1, FS_Subset, ConstAssumption
  <1> QED BY <1>2, FS_CardinalityType, FS_EmptySet

\* A level that changes ends the vote.
LEMMA DepartureStep ==
  ASSUME NEW t \in Trigger, Departs(t), t \in UseTriggers \/ Agreed(t)
  PROVE  CallStep
  BY DEF Departs, CallStep, VoteStep

\* A touch by a player, or by his confirmation to the trigger's menu.
LEMMA TouchCall ==
  ASSUME IInv, NEW t \in Trigger, NEW p \in Player, NEW s, SessionOK(s),
         DispatchTouch(t, p, s), s.vote \in {vote, AfterAnyCommand}
  PROVE  CallStep
  <1> DEFINE answer == GGM_ChangelevelVote(p, t, s)
             v == DropExpired(s.vote)
  <1>1. OtherTypes /\ vote \in GGMVote
    BY Unfold
  <1>2. /\ v \in {vote, NoVote} /\ (v.iMode # "NONE" => v = vote /\ ~Expired(vote))
        /\ v.iMode = "NONE" => vote.iMode = "NONE" \/ Expired(vote)
    <2>1. CASE s.vote = AfterAnyCommand
      BY <2>1, DropIs
    <2>2. CASE s.vote = vote
      BY <2>2 DEF DropExpired, NoVote
    <2> QED BY <2>1, <2>2
  <1>3. t \in BackTriggers =>
          /\ \/ answer.s.vote = v
             \/ /\ v.iMode = "NONE" /\ OpensFor(answer.s.vote, p, t)
                /\ answer.s.clicks = s.clicks /\ s.clicks[p] >= 2
          /\ answer.ret > 0 => /\ v.iMode = "CHANGELEVEL" /\ v.pTrigger = t
                               /\ answer.ret = v.iConfirm
    BY AnswerIs
  <1>4. \/ Stays(s.vote, s.clicks)
        \/ t \in BackTriggers /\ Stays(answer.s.vote, answer.s.clicks)
        \/ /\ Departs(t) /\ Together
           /\ OnFoot => /\ Cardinality(Counted) > 0
                        /\ t \in BackTriggers => answer.ret >= Cardinality(Counted)
    BY <1>1, TouchIs
  <1> HIDE DEF answer, v
  <1>5. CASE Stays(s.vote, s.clicks)
    BY <1>5, DroppedVote DEF Stays, CallStep, Still, playerVars
  <1>6. CASE t \in BackTriggers /\ Stays(answer.s.vote, answer.s.clicks)
    <2>1. Still /\ vote' = answer.s.vote /\ clicks' = answer.s.clicks /\ UNCHANGED executed
      BY <1>6 DEF Stays, Still, playerVars
    <2>2. CASE answer.s.vote = v
      BY <1>2, <2>1, <2>2, DroppedVote DEF CallStep
    <2>3. CASE /\ v.iMode = "NONE" /\ OpensFor(answer.s.vote, p, t)
               /\ answer.s.clicks = s.clicks /\ s.clicks[p] >= 2
      <3>1. Opens
        BY <1>2, <2>1, <2>3 DEF Opens, OpensFor
      <3> QED BY <2>1, <3>1 DEF CallStep, VoteStep
    <2> QED BY <1>3, <1>6, <2>2, <2>3
  <1>7. CASE /\ Departs(t) /\ Together
             /\ OnFoot => /\ Cardinality(Counted) > 0
                          /\ t \in BackTriggers => answer.ret >= Cardinality(Counted)
    <2>1. ASSUME OnFoot PROVE Counted # {} /\ (t \in BackTriggers => Mandate(t))
      <3>1. Counted # {} /\ Cardinality(Counted) \in Nat
        BY <1>7, <2>1, CountedNat
      <3>2. ASSUME t \in BackTriggers PROVE Mandate(t)
        <4>1. answer.ret >= Cardinality(Counted) /\ Cardinality(Counted) > 0
          BY <1>7, <2>1, <3>2
        <4>2. v.iMode = "CHANGELEVEL" /\ v.pTrigger = t /\ answer.ret = v.iConfirm
          <5>1. answer.ret > 0 => /\ v.iMode = "CHANGELEVEL" /\ v.pTrigger = t
                                  /\ answer.ret = v.iConfirm
            BY <1>3, <3>2
          <5>2. CASE answer.ret > 0
            BY <5>1, <5>2
          <5>3. CASE ~(answer.ret > 0)
            <6>1. answer.ret \in Int
              BY <1>1, <1>2, <3>2, AnswerInt DEF answer
            <6> QED BY <3>1, <4>1, <5>3, <6>1
          <5> QED BY <5>2, <5>3
        <4>3. v = vote /\ ~Expired(vote)
          BY <1>2, <4>2
        <4>4. vote.iConfirm \in Int
          BY <1>1 DEF GGMVote
        <4> QED BY <3>1, <4>1, <4>2, <4>3, <4>4 DEF Mandate
      <3> QED BY <3>1, <3>2
    <2> QED BY <1>7, <2>1, DepartureStep DEF Agreed
  <1> QED BY <1>4, <1>5, <1>6, <1>7

\* A confirmation of the vote, which touches the trigger again.
LEMMA VoteConfirmCall ==
  ASSUME IInv, NEW p \in Player, VoteConfirm(p)
  PROVE  CallStep
  <1> DEFINE v == [vote EXCEPT !.iConfirm = @ + 1]
             s == [Session EXCEPT !.vote = v]
             t == vote.pTrigger
             q == vote.pPlayer
             answer == GGM_ChangelevelVote(q, t, s)
  <1>1. OtherTypes /\ vote \in GGMVote /\ VoteOK(vote) /\ SessionOK(Session)
    BY Unfold
  <1>2. InTime
    BY DEF VoteConfirm, VoteTakes, InTime
  <1>3. v \in GGMVote /\ VoteOK(v)
    BY <1>1, CountType DEF VoteConfirm, VoteTakes
  <1>4. /\ v.iMode = vote.iMode /\ v.pTrigger = t /\ v.pPlayer = q /\ v.age = vote.age
        /\ v.iMaxCount = vote.iMaxCount /\ v.iConfirm = vote.iConfirm + 1
        /\ vote.iConfirm \in Int /\ vote.iMaxCount \in Nat /\ vote.iTempBanCount < 3
    BY <1>1 DEF GGMVote
  <1>5. SessionOK(s) /\ s.vote = v
    <2> HIDE DEF v
    <2> QED BY <1>1, <1>3, OtherVoteOK DEF Session
  <1>6. DropExpired(v) = v
    BY <1>2, <1>4 DEF DropExpired, Expired, InTime
  <1>7. \/ vote.iMode = "CHANGELEVEL" /\ q # NoPlayer /\ DispatchTouch(t, q, s)
        \/ KeepAllBut(v)
        \/ /\ v.iConfirm > v.iMaxCount \div 2 /\ executed' = TRUE /\ vote' = NoVote
           /\ UNCHANGED <<playerVars, iLocalConfirm, pChangeLevel, trig,
                          locked, g_fPause, clicks>>
    <2>1. ~(vote.iTempBanCount >= 3)
      BY <1>1 DEF GGMVote
    <2> QED BY <2>1 DEF VoteConfirm
  <1> HIDE DEF v, s
  <1>8. ASSUME vote' = v, UNCHANGED executed PROVE VoteStep
    BY <1>2, <1>4, <1>8 DEF VoteStep, SameRound, Voted
  <1>9. CASE vote.iMode = "CHANGELEVEL" /\ q # NoPlayer /\ DispatchTouch(t, q, s)
    <2>1. q \in Player /\ t \in BackTriggers /\ t \in Trigger
      BY <1>1, <1>9, ConstAssumption DEF GGMVote, VoteOK
    <2>2. /\ answer.s.vote = v
          /\ answer.ret > 0 => answer.ret = v.iConfirm
      BY <1>4, <1>5, <1>6, <1>9, <2>1, AnswerIs
    <2>3. \/ Stays(s.vote, s.clicks)
          \/ t \in BackTriggers /\ Stays(answer.s.vote, answer.s.clicks)
          \/ /\ Departs(t) /\ Together
             /\ OnFoot => /\ Cardinality(Counted) > 0
                          /\ t \in BackTriggers => answer.ret >= Cardinality(Counted)
      BY <1>1, <1>5, <1>9, <2>1, TouchIs
    <2>4. answer.ret \in Int
      BY <1>1, <1>5, <2>1, AnswerInt
    <2> HIDE DEF answer
    <2>5. CASE Stays(s.vote, s.clicks) \/ Stays(answer.s.vote, answer.s.clicks)
      <3>1. vote' = v /\ UNCHANGED executed /\ Still
        BY <1>5, <2>2, <2>5 DEF Stays, Still, playerVars
      <3> QED BY <1>8, <3>1 DEF CallStep
    <2>6. CASE /\ Departs(t) /\ Together
               /\ OnFoot => /\ Cardinality(Counted) > 0
                            /\ t \in BackTriggers => answer.ret >= Cardinality(Counted)
      <3>1. ASSUME OnFoot PROVE Counted # {} /\ Mandate(t)
        <4>1. Cardinality(Counted) <= vote.iConfirm + 1 /\ Counted # {}
          BY <1>4, <2>1, <2>2, <2>4, <2>6, <3>1, CountedNat
        <4>2. Cardinality(Counted) <=
                vote.iConfirm + IF \E r \in Player : VoteConfirm(r) THEN 1 ELSE 0
          BY <4>1
        <4> QED BY <1>2, <1>9, <4>1, <4>2 DEF Mandate, InTime
      <3> QED BY <2>1, <2>6, <3>1, DepartureStep DEF Agreed
    <2> QED BY <2>3, <2>5, <2>6
  <1>10. CASE KeepAllBut(v)
    <2>1. vote' = v /\ UNCHANGED executed /\ Still
      BY <1>10 DEF KeepAllBut, Still, Quiet, playerVars
    <2> QED BY <1>8, <2>1 DEF CallStep
  <1>11. CASE /\ v.iConfirm > v.iMaxCount \div 2 /\ executed' = TRUE /\ vote' = NoVote
              /\ UNCHANGED <<playerVars, iLocalConfirm, pChangeLevel, trig,
                             locked, g_fPause, clicks>>
    <2>1. 2 * (vote.iConfirm + 1) > vote.iMaxCount
      <3>1. \A c \in Int, m \in Nat : c + 1 > m \div 2 => 2 * (c + 1) > m
        OBVIOUS
      <3> QED BY <1>4, <1>11, <3>1
    <2>2. Ran /\ Still
      BY <1>2, <1>11, <2>1 DEF Ran, Still, Quiet, playerVars
    <2> QED BY <2>2 DEF VoteStep, CallStep
  <1> QED BY <1>7, <1>9, <1>10, <1>11

\* A vote command opens a vote when none is running, for a player who is not banned.
LEMMA StartCall ==
  ASSUME IInv, NEW p \in Player \cup {NoPlayer}, NEW v \in {vote, AfterAnyCommand},
         GGM_StartVoteCommand(p, v), p \in Player => ~GGM_IsTempBanned(p)
  PROVE  CallStep
  <1> DEFINE v0 == DropExpired(v)
             new == GGM_BroadcastVote("COMMAND", p, NoTrigger)
  <1>1. KeepAllBut(IF v0.iMode # "NONE" THEN v0 ELSE new)
    BY DEF GGM_StartVoteCommand
  <1>2. Still /\ UNCHANGED executed /\ vote' \in {v0, new} /\ (vote' = new \/ v0.iMode # "NONE")
    BY <1>1 DEF KeepAllBut, Still, Quiet, playerVars
  <1>3. v0 \in {vote, NoVote} /\ (v0.iMode = "NONE" => vote.iMode = "NONE" \/ Expired(vote))
    <2>1. CASE v = AfterAnyCommand
      BY <2>1, DropIs
    <2>2. CASE v = vote
      BY <2>2 DEF DropExpired
    <2> QED BY <2>1, <2>2
  <1>4. vote' = v0 \/ (v0.iMode = "NONE" /\ vote' = new)
    BY <1>1 DEF KeepAllBut
  <1> HIDE DEF v0
  <1>5. CASE vote' = v0
    BY <1>2, <1>3, <1>5, DroppedVote DEF CallStep
  <1>6. CASE v0.iMode = "NONE" /\ vote' = new
    <2>1. Opens
      BY <1>3, <1>6 DEF Opens
    <2> QED BY <1>2, <2>1 DEF CallStep, VoteStep
  <1> QED BY <1>4, <1>5, <1>6

LEMMA StrikeCall ==
  ASSUME IInv, NEW p \in Player, VoteCancel(p) \/ VoteTempBan(p)
  PROVE  CallStep
  <1>1. vote \in GGMVote
    BY Unfold
  <1>2. Still /\ UNCHANGED executed
    BY DEF VoteCancel, VoteTempBan, KeepAllBut, Still, Quiet, playerVars
  <1>3. InTime
    BY DEF VoteCancel, VoteTempBan, VoteTakes, InTime
  <1>4. vote' \in {NoVote, [vote EXCEPT !.iConfirm = @ - 1], [vote EXCEPT !.iTempBanCount = @ + 1]}
    BY DEF VoteCancel, VoteTempBan, KeepAllBut
  <1>5. CASE vote' = NoVote
    BY <1>2, <1>5, DroppedVote DEF CallStep
  <1>6. CASE vote' = [vote EXCEPT !.iConfirm = @ - 1]
    <2>1. SameRound /\ Voted
      BY <1>1, <1>3, <1>6 DEF SameRound, Voted, GGMVote
    <2> QED BY <1>2, <2>1 DEF CallStep, VoteStep
  <1>7. CASE vote' = [vote EXCEPT !.iTempBanCount = @ + 1]
    <2>1. SameRound /\ Untouched
      BY <1>1, <1>7 DEF SameRound, Untouched, GGMVote
    <2> QED BY <1>2, <2>1 DEF CallStep, VoteStep
  <1> QED BY <1>4, <1>5, <1>6, <1>7

LEMMA ConfirmCall ==
  ASSUME IInv, NEW p \in Player, ConfirmChangelevel(p)
  PROVE  CallStep
  <1> DEFINE local == MinNat(iLocalConfirm[p] + 1, 3)
             clicked == IF iLocalConfirm[p] > 0 THEN MinNat(clicks[p] + 1, 2) ELSE clicks[p]
             s == [vote |-> AfterAnyCommand, local |-> [iLocalConfirm EXCEPT ![p] = local],
                   pending |-> [pChangeLevel EXCEPT ![p] = NoTrigger],
                   clicks |-> [clicks EXCEPT ![p] = clicked]]
  <1>1. SessionOK(s)
    BY ConfirmSession
  <1>2. s.vote = AfterAnyCommand
    OBVIOUS
  <1>3. \/ pChangeLevel[p] # NoTrigger /\ DispatchTouch(pChangeLevel[p], p, s)
        \/ SetSession(s) /\ UNCHANGED <<playerVars, trig, locked, g_fPause, executed>>
    BY DEF ConfirmChangelevel
  <1> HIDE DEF s
  <1>4. CASE pChangeLevel[p] # NoTrigger /\ DispatchTouch(pChangeLevel[p], p, s)
    <2>1. pChangeLevel[p] \in Trigger
      BY <1>4 DEF IInv, TypeOK
    <2> QED BY <1>1, <1>2, <1>4, <2>1, TouchCall
  <1>5. CASE SetSession(s) /\ UNCHANGED <<playerVars, trig, locked, g_fPause, executed>>
    <2>1. vote' = AfterAnyCommand /\ UNCHANGED executed /\ Still
      BY <1>2, <1>5 DEF SetSession, Still, Quiet, playerVars
    <2> QED BY <2>1, DroppedVote DEF CallStep
  <1> QED BY <1>3, <1>4, <1>5

\* All the calls.
LEMMA Calls ==
  ASSUME IInv,
         \/ \E p \in Player :
              \/ VoteConfirm(p) \/ VoteCancel(p) \/ VoteTempBan(p) \/ OtherCommand(p)
              \/ VoteLoad(p) \/ ConfirmChangelevel(p) \/ COOP_NewCheckpoint(p)
         \/ \E p \in Player, t \in Trigger : Touch(t, p)
         \/ \E a \in Player \cup {NoPlayer}, t \in UseTriggers : Use(t, a)
         \/ GGM_VoteCommand_f
  PROVE  CallStep
  <1>1. ASSUME NEW p \in Player, VoteConfirm(p) PROVE CallStep
    BY <1>1, VoteConfirmCall
  <1>2. ASSUME NEW p \in Player, VoteCancel(p) \/ VoteTempBan(p) PROVE CallStep
    BY <1>2, StrikeCall
  <1>3. ASSUME NEW p \in Player, OtherCommand(p) \/ COOP_NewCheckpoint(p) PROVE CallStep
    <2>1. vote' = AfterAnyCommand /\ UNCHANGED executed /\ Still
      BY <1>3 DEF OtherCommand, KeepAllBut, COOP_NewCheckpoint, Still, Quiet, playerVars
    <2> QED BY <2>1, DroppedVote DEF CallStep
  <1>4. ASSUME NEW p \in Player, VoteLoad(p) PROVE CallStep
    BY <1>4, StartCall DEF VoteLoad
  <1>5. ASSUME NEW p \in Player, ConfirmChangelevel(p) PROVE CallStep
    BY <1>5, ConfirmCall
  <1>6. ASSUME NEW p \in Player, NEW t \in Trigger, Touch(t, p) PROVE CallStep
    <2>1. SessionOK(Session) /\ Session.vote = vote
      BY Unfold DEF Session
    <2> QED BY <1>6, <2>1, TouchCall DEF Touch
  <1>7. ASSUME NEW a \in Player \cup {NoPlayer}, NEW t \in UseTriggers, Use(t, a) PROVE CallStep
    <2>1. t \in Trigger /\ (Stays(vote, clicks) \/ Departs(t))
      BY <1>7, UseIs, ConstAssumption
    <2>2. CASE Stays(vote, clicks)
      BY <2>2, KeptVote DEF Stays, CallStep, Still, playerVars
    <2> QED BY <2>1, <2>2, DepartureStep
  <1>8. CASE GGM_VoteCommand_f
    BY <1>8, StartCall, ConstAssumption DEF GGM_VoteCommand_f
  <1> QED BY <1>1, <1>2, <1>3, <1>4, <1>5, <1>6, <1>7, <1>8
-----------------------------------------------------------------------------
(* The other steps change no level. *)

NoDeparture == \A t \in Trigger : trig'[t].fValid => trig[t].fValid

LEMMA DisconnectMove ==
  ASSUME IInv, NEW p \in Player, ClientDisconnect(p)
  PROVE  VoteStep /\ Quiet
  <1>1. vote \in GGMVote /\ trig \in [Trigger -> TriggerData] /\ UNCHANGED executed
    BY Unfold DEF OtherTypes, ClientDisconnect
  <1>2. CASE UNCHANGED <<vote, trig>>
    BY <1>1, <1>2, KeptVote DEF Quiet
  <1>3. CASE /\ vote' = [vote EXCEPT !.pPlayer = IF @ = p THEN NoPlayer ELSE @]
             /\ trig' = [t \in Trigger |-> [trig[t] EXCEPT !.hActivator =
                                              IF @ = p THEN NoPlayer ELSE @]]
    <2>1. SameRound /\ Untouched
      BY <1>1, <1>3 DEF SameRound, Untouched, GGMVote
    <2>2. ASSUME NEW d \in TriggerData
          PROVE  /\ [d EXCEPT !.hActivator = IF @ = p THEN NoPlayer ELSE @].fValid = d.fValid
                 /\ [d EXCEPT !.hActivator = IF @ = p THEN NoPlayer ELSE @].dmgAge = d.dmgAge
      BY DEF TriggerData
    <2>3. Quiet
      BY <1>1, <1>3, <2>2 DEF Quiet
    <2> QED BY <1>1, <2>1, <2>3 DEF VoteStep
  <1> QED BY <1>2, <1>3 DEF ClientDisconnect

LEMMA ActivateMove ==
  ASSUME GGM_ServerActivate
  PROVE  VoteStep /\ \A t \in Trigger : ~trig'[t].fValid
  BY DEF GGM_ServerActivate, VoteStep, NewTrigger

\* Triggers and the vote grow older.
LEMMA TickMove ==
  ASSUME IInv, Tick
  PROVE  /\ VoteStep
         /\ \A t \in Trigger : /\ trig'[t].fValid = trig[t].fValid
                               /\ trig'[t].dmgAge = MinNat(trig[t].dmgAge + 1, TouchMemory + 1)
  <1>1. vote \in GGMVote /\ VoteOK(vote) /\ trig \in [Trigger -> TriggerData]
    BY Unfold DEF OtherTypes
  <1> DEFINE older == IF vote.iMode = "NONE" THEN 0 ELSE MinNat(vote.age + 1, InactiveTime + 1)
  <1>2. vote' = [vote EXCEPT !.age = older] /\ executed' = FALSE
    BY DEF Tick
  <1>3. older = IF vote.iMode # "NONE" /\ ~Expired(vote) THEN vote.age + 1 ELSE vote.age
    <2>1. vote.age \in 0..(InactiveTime + 1) /\ InactiveTime \in Nat
      BY <1>1, ConstAssumption DEF GGMVote
    <2>2. CASE vote.iMode = "NONE"
      BY <1>1, <2>2 DEF VoteOK, NoVote
    <2>3. CASE vote.iMode # "NONE"
      BY <2>1, <2>3 DEF MinNat, Expired
    <2> QED BY <2>2, <2>3
  <1> HIDE DEF older
  <1>4. SameRound /\ Aged
    BY <1>1, <1>2, <1>3 DEF SameRound, Aged, GGMVote
  <1>5. ASSUME NEW d \in TriggerData, NEW x
        PROVE  [d EXCEPT !.dmgAge = x].fValid = d.fValid /\ [d EXCEPT !.dmgAge = x].dmgAge = x
    BY DEF TriggerData
  <1>6. trig' = [t \in Trigger |-> [trig[t] EXCEPT !.dmgAge = MinNat(@ + 1, TouchMemory + 1)]]
    BY DEF Tick
  <1>7. \A t \in Trigger : /\ trig'[t].fValid = trig[t].fValid
                           /\ trig'[t].dmgAge = MinNat(trig[t].dmgAge + 1, TouchMemory + 1)
    BY <1>1, <1>5, <1>6
  <1> QED BY <1>4, <1>7 DEF VoteStep

LEMMA PlainMove ==
  ASSUME IInv,
         \/ \E p \in Player : \/ UTIL_SpawnPlayer(p) \/ Spectate(p)
                              \/ ClientPutInServer(p) \/ ClientConnect(p)
         \/ \E p \in Player, tr \in Train \cup {NoTrain} : Board(p, tr)
  PROVE  VoteStep /\ Quiet
  <1>1. vote' \in {vote, AfterAnyCommand} /\ UNCHANGED <<executed, trig>>
    BY DEF UTIL_SpawnPlayer, Spectate, ClientPutInServer, ClientConnect, Board
  <1> QED BY <1>1, DroppedVote DEF Quiet

\* What any step does.
LEMMA StepIs ==
  ASSUME IInv, Next
  PROVE  /\ VoteStep
         /\ NoDeparture \/ \E t \in Trigger : Departs(t) /\ (t \in UseTriggers \/ Agreed(t))
  <1>1. CallStep =>
          /\ VoteStep
          /\ NoDeparture \/ \E t \in Trigger : Departs(t) /\ (t \in UseTriggers \/ Agreed(t))
    BY DEF CallStep, Still, Quiet, NoDeparture
  <1>2. Quiet => NoDeparture
    BY DEF Quiet, NoDeparture
  <1>3. ASSUME NEW p \in Player, ClientDisconnect(p) PROVE VoteStep /\ NoDeparture
    BY <1>2, <1>3, DisconnectMove
  <1>4. CASE GGM_ServerActivate
    BY <1>4, ActivateMove DEF NoDeparture
  <1>5. CASE Tick
    BY <1>5, TickMove DEF NoDeparture
  <1> QED BY <1>1, <1>2, <1>3, <1>4, <1>5, Calls, PlainMove DEF Next, PlayerCommand, Connection
-----------------------------------------------------------------------------
(* The theorems. *)

\* A change of level ends the vote and leaves nobody in the game (ChangeLevelNow).
THEOREM VotesEndWithTheLevel == Spec => VoteEndsWithLevel
  <1>1. IInv /\ [Next]_vars =>
          [(\E t \in Trigger : ~trig[t].fValid /\ trig'[t].fValid) =>
             /\ vote' = NoVote
             /\ g_fPause' /\ \A p \in Player : iState'[p] # "SPAWNED"]_vars
    BY StepIs DEF NoDeparture, Departs
  <1> QED BY <1>1, IInvAlways, PTL DEF Spec, VoteEndsWithLevel

\* Two riders of different trains are never torn apart by a touch (TouchChangeLevel).
THEOREM TrainsLeaveTogether == Spec => OneTrainLeaves
  <1>1. IInv /\ [Next]_vars =>
          [\A t \in Trigger \ UseTriggers :
             ~trig[t].fValid /\ trig'[t].fValid =>
               \A p, q \in {r \in Player : iState[r] = "SPAWNED"} :
                 onTrain[p] = onTrain[q] \/ NoTrain \in {onTrain[p], onTrain[q]}]_vars
    <2> SUFFICES ASSUME IInv, Next, NEW t \in Trigger \ UseTriggers,
                        ~trig[t].fValid, trig'[t].fValid
                 PROVE  Together
      BY DEF Together
    <2> QED BY StepIs DEF NoDeparture, Departs, Agreed
  <1> QED BY <1>1, IInvAlways, PTL DEF Spec, OneTrainLeaves

\* Players on foot go back only by a running vote on that trigger with as many confirm commands,
\* from whomever, as there are players to count (TouchChangeLevel, GGM_ChangelevelVote, GGM_VoteProcess).
THEOREM GoingBackNeedsMandate == Spec => BackNeedsMandate
  <1>1. IInv /\ [Next]_vars =>
          [\A t \in BackTriggers \ UseTriggers :
             /\ ~trig[t].fValid /\ trig'[t].fValid
             /\ \A q \in Player : onTrain[q] = NoTrain
             => Counted # {} /\ Mandate(t)]_vars
    <2> SUFFICES ASSUME IInv, Next, NEW t \in BackTriggers \ UseTriggers,
                        ~trig[t].fValid, trig'[t].fValid, OnFoot
                 PROVE  Counted # {} /\ Mandate(t)
      BY DEF OnFoot
    <2>1. t \in Trigger
      BY ConstAssumption
    <2> QED BY <2>1, StepIs DEF NoDeparture, Departs, Agreed
  <1> QED BY <1>1, IInvAlways, PTL DEF Spec, BackNeedsMandate

\* A running vote is neither replaced nor given a new life (GGM_ChangelevelVote,
\* GGM_StartVoteCommand).
THEOREM VotesAreNotHijacked == Spec => NoHijack
  <1>1. IInv /\ [Next]_vars =>
          [vote.iMode # "NONE" /\ ~Expired(vote) /\ vote'.iMode # "NONE" =>
             /\ vote'.iMode = vote.iMode /\ vote'.pTrigger = vote.pTrigger
             /\ vote'.pPlayer \in {vote.pPlayer, NoPlayer}
             /\ vote'.iMaxCount = vote.iMaxCount /\ vote'.age >= vote.age]_vars
    <2> SUFFICES ASSUME IInv, Next, vote.iMode # "NONE", ~Expired(vote), vote'.iMode # "NONE"
                 PROVE  SameRound /\ vote'.age >= vote.age
      BY DEF SameRound
    <2>1. VoteStep /\ vote.age \in Nat
      BY StepIs, Unfold DEF GGMVote
    <2>2. NoVote.iMode = "NONE"
      BY DEF NoVote
    <2>3. ~Opens /\ ~Ran /\ vote' # NoVote
      BY <2>2 DEF Opens, Ran
    <2>4. SameRound /\ (vote'.age = vote.age \/ vote'.age = vote.age + 1)
      BY <2>1, <2>3 DEF VoteStep, Untouched, Voted, Aged
    <2> QED BY <2>1, <2>4
  <1> QED BY <1>1, IInvAlways, PTL DEF Spec, NoHijack

\* A step that opens a vote does so by Opens.
LEMMA OpenedIs ==
  ASSUME IInv, Next, Opened
  PROVE  Opens
  <1>1. VoteStep /\ vote.age \in Nat
    BY StepIs, Unfold DEF GGMVote
  <1>2. NoVote.iMode = "NONE"
    BY DEF NoVote
  <1>3. CASE SameRound /\ (Untouched \/ Voted)
    BY <1>3 DEF Opened, SameRound, Untouched, Voted, Expired
  <1>4. CASE SameRound /\ Aged
    BY <1>4 DEF Opened, SameRound, Aged, Expired
  <1> QED BY <1>1, <1>2, <1>3, <1>4 DEF VoteStep, Ran, Opened

\* Whose vote it is and what it is about.
LEMMA BroadcastIs ==
  ASSUME NEW m, NEW p, NEW t
  PROVE  /\ GGM_BroadcastVote(m, p, t).iMode = m /\ GGM_BroadcastVote(m, p, t).pPlayer = p
         /\ GGM_BroadcastVote(m, p, t).age = 0 /\ GGM_BroadcastVote(m, p, t).iConfirm = 0
         /\ GGM_BroadcastVote(m, p, t).iMaxCount = Cardinality(Asked)
  BY DEF GGM_BroadcastVote

\* No banned player opens a vote (GGM_ChangelevelVote, COOP_ClientCommand).
THEOREM TheBannedOpenNothing == Spec => BannedOpenNothing
  <1>1. IInv /\ [Next]_vars =>
          [\A p \in Player : Opened /\ vote'.pPlayer = p => ~GGM_IsTempBanned(p)]_vars
    <2> SUFFICES ASSUME IInv, Next, Opened, vote'.pPlayer \in Player
                 PROVE  ~GGM_IsTempBanned(vote'.pPlayer)
      OBVIOUS
    <2>1. Opens
      BY OpenedIs
    <2> QED BY <2>1, BroadcastIs DEF Opens
  <1> QED BY <1>1, IInvAlways, PTL DEF Spec, BannedOpenNothing

\* Whoever opens a vote to go back confirmed twice to the trigger's menu (GGM_ChangelevelVote).
THEOREM BackVotesAreDeliberate == Spec => BackVoteIsDeliberate
  <1>1. IInv /\ [Next]_vars =>
          [\A p \in Player :
             Opened /\ vote'.iMode = "CHANGELEVEL" /\ vote'.pPlayer = p => clicks'[p] >= 2]_vars
    <2> SUFFICES ASSUME IInv, Next, NEW p \in Player, Opened, vote'.iMode = "CHANGELEVEL",
                        vote'.pPlayer = p
                 PROVE  clicks'[p] >= 2
      OBVIOUS
    <2>1. Opens
      BY OpenedIs
    <2> QED BY <2>1, BroadcastIs DEF Opens
  <1> QED BY <1>1, IInvAlways, PTL DEF Spec, BackVoteIsDeliberate
-----------------------------------------------------------------------------
(* CoopVote implements VoteRound. *)

LEMMA RoundInit == Init => Round!Init
  BY DEF Init, NoVote, Round!Init

LEMMA RoundNext == IInv /\ [Next]_vars => [Round!Next]_Round!vars
  <1> SUFFICES ASSUME IInv, [Next]_vars PROVE [Round!Next]_Round!vars
    OBVIOUS
  <1>1. /\ vote.age \in Nat /\ vote.iConfirm \in Int /\ vote.iMaxCount \in Nat
        /\ InactiveTime \in Nat /\ MisclickTime \in Nat
    BY Unfold, ConstAssumption DEF GGMVote
  <1>2. CASE UNCHANGED vars
    BY <1>2 DEF vars, Round!vars
  <1>3. CASE SameRound /\ Untouched /\ UNCHANGED executed
    BY <1>3 DEF SameRound, Untouched, Round!vars
  <1>4. CASE SameRound /\ Voted /\ UNCHANGED executed
    <2>1. Round!Agree \/ Round!Object
      BY <1>1, <1>4 DEF SameRound, Voted, InTime, Expired, Round!Agree, Round!Object, Round!InWindow
    <2> QED BY <2>1 DEF Round!Next
  <1>5. CASE SameRound /\ Aged
    <2>1. Round!Clock
      BY <1>1, <1>5 DEF SameRound, Aged, Expired, Round!Clock
    <2> QED BY <2>1 DEF Round!Next
  <1>6. CASE vote' = NoVote /\ executed' \in {executed, FALSE}
    <2>1. Round!Close
      BY <1>6 DEF NoVote, Round!Close, Round!Closed
    <2> QED BY <2>1 DEF Round!Next
  <1>7. CASE Ran
    <2>1. Round!Run
      BY <1>1, <1>7 DEF Ran, InTime, Expired, NoVote, Round!Run, Round!Closed, Round!InWindow
    <2> QED BY <2>1 DEF Round!Next
  <1>8. CASE Opens /\ UNCHANGED executed
    <2>1. /\ vote'.iMode # "NONE" /\ vote'.age = 0 /\ vote'.iConfirm = 0
          /\ vote'.iMaxCount \in Nat
      BY <1>8, BroadcastIs, AskedNat DEF Opens
    <2>2. Round!Open
      BY <1>1, <1>8, <2>1 DEF Opens, Expired, Round!Open
    <2> QED BY <2>2 DEF Round!Next
  <1>9. CASE Next
    BY <1>3, <1>4, <1>5, <1>6, <1>7, <1>8, <1>9, StepIs DEF VoteStep
  <1> QED BY <1>2, <1>9

\* The votes are rounds: opened one at a time and decided in the window, by more commands for it
\* than half the number of players asked, whoever sent them (g_Vote, GGM_VoteProcess).
THEOREM VotesAreRounds == Spec => RoundSpec
  BY RoundInit, RoundNext, IInvAlways, PTL DEF Spec, RoundSpec, Round!Spec
-----------------------------------------------------------------------------
(* One change of level at a time, but for used triggers and trains.        *)
(* Whoever is in the game has spawned since the level changed, so nobody   *)
(* has played long enough to be counted before the next map loads.         *)

LateComers ==
  \A t \in Trigger : trig[t].fValid =>
    /\ trig[t].dmgAge <= LoadDelay
    /\ \A p \in Player : Visible(p) => spawnAge[p] <= trig[t].dmgAge

\* Nobody on foot is counted while a level changes.
LEMMA NobodyCounts ==
  ASSUME IInv, LateComers, OnFoot, NEW t \in Trigger, trig[t].fValid
  PROVE  Counted = {}
  <1>1. trig[t].dmgAge \in Nat /\ spawnAge \in [Player -> 0..(SpawnDelay + 1)]
    BY Unfold DEF OtherTypes, TriggerData
  <1>2. LoadDelay \in Nat /\ LoadDelay <= SpawnDelay /\ SpawnDelay \in Nat
    BY ConstAssumption
  <1>3. ASSUME NEW p \in Player PROVE ~(Visible(p) /\ spawnAge[p] > SpawnDelay)
    <2>1. Visible(p) => spawnAge[p] <= trig[t].dmgAge /\ trig[t].dmgAge <= LoadDelay
      BY DEF LateComers
    <2>2. spawnAge[p] \in Nat
      BY <1>1
    <2> QED BY <1>1, <1>2, <2>1, <2>2
  <1> QED BY <1>3 DEF Counted, OnFoot

\* Steps in which nobody appears who has played for some time.
LEMMA ComingStep ==
  ASSUME IInv, LateComers, Quiet,
         \A p \in Player : Visible(p)' => (Visible(p) /\ spawnAge'[p] = spawnAge[p]) \/ spawnAge'[p] = 0
  PROVE  LateComers'
  <1> SUFFICES ASSUME NEW t \in Trigger, trig'[t].fValid
               PROVE  /\ trig'[t].dmgAge <= LoadDelay
                      /\ \A p \in Player : Visible(p)' => spawnAge'[p] <= trig'[t].dmgAge
    BY DEF LateComers
  <1>1. trig[t].fValid /\ trig'[t].dmgAge = trig[t].dmgAge /\ trig[t].dmgAge \in Nat
    BY Unfold DEF Quiet, OtherTypes, TriggerData
  <1>2. /\ trig[t].dmgAge <= LoadDelay
        /\ \A p \in Player : Visible(p) => spawnAge[p] <= trig[t].dmgAge
    BY <1>1 DEF LateComers
  <1> QED BY <1>1, <1>2

\* The level changes: nobody is left in the game, and other changes wait as before.
LEMMA DepartureLate ==
  ASSUME LateComers, NEW t \in Trigger, Departs(t)
  PROVE  LateComers'
  <1>1. \A p \in Player : ~Visible(p)'
    BY DEF Departs, Visible
  <1>2. 0 <= LoadDelay /\ trig'[t].dmgAge = 0 /\ \A u \in Trigger \ {t} : trig'[u] = trig[u]
    BY ConstAssumption DEF Departs
  <1> QED BY <1>1, <1>2 DEF LateComers

\* The clock: whoever is in the game grows older with the trigger.
LEMMA TickLate ==
  ASSUME IInv, LateComers, Tick
  PROVE  LateComers'
  <1> SUFFICES ASSUME NEW t \in Trigger, trig'[t].fValid
               PROVE  /\ trig'[t].dmgAge <= LoadDelay
                      /\ \A p \in Player : Visible(p)' => spawnAge'[p] <= trig'[t].dmgAge
    BY DEF LateComers
  <1>1. /\ trig[t].fValid /\ trig[t].dmgAge \in Nat
        /\ trig'[t].dmgAge = MinNat(trig[t].dmgAge + 1, TouchMemory + 1)
    BY TickMove, Unfold DEF OtherTypes, TriggerData
  <1>2. trig[t].dmgAge < LoadDelay
    BY <1>1 DEF Tick
  <1>3. LoadDelay \in Nat /\ LoadDelay <= TouchMemory /\ TouchMemory \in Nat /\ SpawnDelay \in Nat
    BY ConstAssumption
  <1>4. trig'[t].dmgAge = trig[t].dmgAge + 1
    BY <1>1, <1>2, <1>3 DEF MinNat
  <1>5. ASSUME NEW p \in Player, Visible(p)' PROVE spawnAge'[p] <= trig'[t].dmgAge
    <2>1. Visible(p) /\ Present(p)
      BY <1>5 DEF Tick, Visible, Present
    <2>2. spawnAge[p] <= trig[t].dmgAge /\ spawnAge[p] \in Nat
      BY <1>1, <2>1, Unfold DEF LateComers, OtherTypes
    <2>3. spawnAge'[p] = MinNat(spawnAge[p] + 1, SpawnDelay + 1)
      BY <2>1 DEF Tick
    <2>4. MinNat(spawnAge[p] + 1, SpawnDelay + 1) <= spawnAge[p] + 1
      BY <1>3, <2>2 DEF MinNat
    <2> QED BY <1>1, <1>3, <1>4, <2>2, <2>3, <2>4 DEF MinNat
  <1> QED BY <1>1, <1>2, <1>3, <1>4, <1>5

LEMMA NextLate == IInv /\ LateComers /\ [Next]_vars => LateComers'
  <1> SUFFICES ASSUME IInv, LateComers, [Next]_vars PROVE LateComers'
    OBVIOUS
  <1>1. iState \in [Player -> PlayerState] /\ spawnAge \in [Player -> 0..(SpawnDelay + 1)]
    BY Unfold DEF OtherTypes
  <1>2. CASE CallStep
    <2>1. CASE Still
      BY <2>1, ComingStep DEF Still, Visible
    <2> QED BY <1>2, <2>1, DepartureLate DEF CallStep
  <1>3. ASSUME NEW p \in Player, UTIL_SpawnPlayer(p) \/ ClientPutInServer(p) PROVE LateComers'
    <2>1. /\ spawnAge' = [spawnAge EXCEPT ![p] = 0]
          /\ \A q \in Player \ {p} : iState'[q] = iState[q]
      BY <1>1, <1>3 DEF UTIL_SpawnPlayer, ClientPutInServer
    <2> QED BY <1>1, <1>3, <2>1, PlainMove, ComingStep DEF Visible
  <1>4. ASSUME NEW p \in Player,
               \/ Spectate(p) \/ ClientConnect(p)
               \/ \E tr \in Train \cup {NoTrain} : Board(p, tr)
        PROVE  LateComers'
    <2>1. /\ UNCHANGED spawnAge
          /\ \A q \in Player : iState'[q] \in {iState[q], "SPECTATOR", "UNINITIALIZED"}
      BY <1>1, <1>4 DEF Spectate, ClientConnect, Board
    <2> QED BY <1>4, <2>1, PlainMove, ComingStep DEF Visible
  <1>5. ASSUME NEW p \in Player, ClientDisconnect(p) PROVE LateComers'
    <2>1. \A q \in Player : Visible(q)' => Visible(q) /\ spawnAge'[q] = spawnAge[q]
      BY <1>1, <1>5 DEF ClientDisconnect, Visible
    <2> QED BY <1>5, <2>1, DisconnectMove, ComingStep
  <1>6. CASE GGM_ServerActivate
    BY <1>6, ActivateMove DEF LateComers
  <1>7. CASE Tick
    BY <1>7, TickLate
  <1>8. CASE UNCHANGED vars
    BY <1>8, ComingStep DEF vars, playerVars, Quiet, Visible
  <1> QED BY <1>2, <1>3, <1>4, <1>5, <1>6, <1>7, <1>8, Calls DEF Next, PlayerCommand, Connection

\* Once a change of level is under way, no touch, no answer to a menu and no vote starts another
\* while nobody rides a train (ChangeLevelNow, UTIL_SpawnPlayer, TouchChangeLevel).
THEOREM LevelsChangeOneAtATime == Spec => OneChangeAtATime
  <1>1. Init => LateComers
    BY DEF Init, NewTrigger, LateComers
  <1>2. Spec => [](IInv /\ LateComers)
    BY <1>1, NextLate, InitIInv, NextIInv, PTL DEF Spec
  <1>3. IInv /\ LateComers /\ [Next]_vars =>
          [\A t \in Trigger \ UseTriggers, u \in Trigger :
             trig[u].fValid /\ ~trig[t].fValid /\ trig'[t].fValid =>
               \E q \in Player : onTrain[q] # NoTrain]_vars
    <2> SUFFICES ASSUME IInv, LateComers, Next, NEW t \in Trigger \ UseTriggers, NEW u \in Trigger,
                        trig[u].fValid, ~trig[t].fValid, trig'[t].fValid, OnFoot
                 PROVE  FALSE
      BY DEF OnFoot
    <2>1. Counted = {}
      BY NobodyCounts
    <2>2. Agreed(t)
      BY StepIs DEF NoDeparture, Departs
    <2> QED BY <2>1, <2>2 DEF Agreed
  <1> QED BY <1>2, <1>3, PTL DEF Spec, OneChangeAtATime
=============================================================================

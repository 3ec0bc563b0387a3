-------------------------- MODULE CoopPlayerProofs --------------------------
(***************************************************************************)
(* Theorems about CoopPlayer, for every set of players, every cast and any *)
(* number of checkpoints.  The five invariants the run checks are together *)
(* inductive.  A step hands the session from one nested call to the next,  *)
(* so the lemmas follow the session: SessionOK is what the invariants say  *)
(* of the player a callback is about, Leads what a callback may not do to  *)
(* the others.                                                             *)
(***************************************************************************)
EXTENDS CoopPlayer, SequenceTheorems, TLAPS

IInv ==
  /\ TypeOK /\ SpectatorAgrees /\ NoPlayWithoutRecord /\ PauseMeansEmpty /\ CheckpointsInOrder

\* CheckpointsInOrder of a list.
ListOK(list) ==
  /\ \A i, j \in 1..Places : i < j /\ list[j] # 0 => list[i] > list[j]
  /\ list[Places] = 0

IsEntity(me) == me \in Entity /\ Len(me.menu.items) <= MenuPlaces
IsGame(g) == g \in Game /\ ListOK(g.rgCheckpoints)
IsSession(s) == s = [me |-> s.me, game |-> s.game] /\ IsEntity(s.me) /\ IsGame(s.game)

\* What the invariants say of one player.
PlayerOK(me, g) ==
  /\ me.iState = "SPAWNED" => ~me.spectator
  /\ me.iState \in {"SPECTATOR_BEGIN", "SPECTATOR"} => me.spectator
  /\ me.iState = "SPAWNED" /\ ~g.fLoading => me.pState /\ ~g.g_fPause

SessionOK(s) == IsSession(s) /\ PlayerOK(s.me, s.game)

\* A callback neither begins nor ends a load or a level, nor stops the world for the others.
Leads(g, h) == h.fLoading = g.fLoading /\ h.level = g.level /\ (h.g_fPause => g.g_fPause)
-----------------------------------------------------------------------------
(* Menus. *)

\* The first items of a list, as many as a menu has places for.
LEMMA FirstOfType ==
  ASSUME NEW items \in Seq(Item)
  PROVE  /\ FirstOf(items, MenuPlaces) \in Seq(Item)
         /\ Len(FirstOf(items, MenuPlaces)) <= MenuPlaces
         /\ Len(FirstOf(items, MenuPlaces)) = IF Len(items) < 5 THEN Len(items) ELSE 5
         /\ \A i \in 1..Len(FirstOf(items, MenuPlaces)) : FirstOf(items, MenuPlaces)[i] = items[i]
  <1> DEFINE k == IF Len(items) < MenuPlaces THEN Len(items) ELSE MenuPlaces
  <1>1. k \in 0..Len(items) /\ k <= MenuPlaces /\ k = IF Len(items) < 5 THEN Len(items) ELSE 5
    BY DEF MenuPlaces
  <1>2. FirstOf(items, MenuPlaces) = SubSeq(items, 1, k)
    BY DEF FirstOf
  <1> HIDE DEF k
  <1>3. /\ SubSeq(items, 1, k) \in Seq(Item) /\ Len(SubSeq(items, 1, k)) = k
        /\ \A i \in 1..k : SubSeq(items, 1, k)[i] = items[i]
    BY <1>1
  <1> QED BY <1>1, <1>2, <1>3

\* Showing a menu changes the menu, which has room for five items, and nothing else.
LEMMA ShowMenuOK ==
  ASSUME NEW me, IsEntity(me), NEW items \in Seq(Item), NEW force \in BOOLEAN
  PROVE  /\ IsEntity(ShowMenu(me, items, force))
         /\ ShowMenu(me, items, force) = [me EXCEPT !.menu = ShowMenu(me, items, force).menu]
  <1> DEFINE m == New(me.menu, force)
             a == AddAll(m, items)
             shown == [a EXCEPT !.m_fShow = @ \/ me.m_pPlayer]
  <1>1. me.menu \in Menu /\ me.m_pPlayer \in BOOLEAN /\ Len(me.menu.items) <= 5
    BY DEF IsEntity, Entity, MenuPlaces
  <1>2. m \in Menu /\ Len(m.items) <= 5
    <2>1. NoMenu \in Menu /\ Len(NoMenu.items) = 0
      BY DEF NoMenu, Menu
    <2> QED BY <1>1, <2>1 DEF New
  <1>3. a \in Menu /\ Len(a.items) <= 5
    <2> DEFINE all == m.items \o items
    <2>1. all \in Seq(Item) /\ Len(all) \in Nat
      BY <1>2, ConcatProperties DEF Menu
    <2> HIDE DEF m, all
    <2>2. FirstOf(all, MenuPlaces) \in Seq(Item) /\ Len(FirstOf(all, MenuPlaces)) <= MenuPlaces
      BY <2>1, FirstOfType
    <2> QED BY <1>2, <2>2 DEF AddAll, MenuPlaces, Menu, all
  <1> HIDE DEF a
  <1>4. shown \in Menu /\ Len(shown.items) <= 5
    BY <1>1, <1>3 DEF Menu
  <1>5. ShowMenu(me, items, force) = [me EXCEPT !.menu = shown]
    BY DEF ShowMenu, Show, a
  <1> HIDE DEF shown
  <1>6. me \in Entity
    BY DEF IsEntity
  <1>7. [me EXCEPT !.menu = shown] \in Entity /\ [me EXCEPT !.menu = shown].menu = shown
    BY <1>4, <1>6 DEF Entity
  <1> QED BY <1>4, <1>5, <1>7 DEF IsEntity, MenuPlaces
-----------------------------------------------------------------------------
(* Checkpoints. *)

\* The places before the first empty one are the first n, and n is less than five.
LEMMA OfferedPrefix ==
  ASSUME NEW list \in [1..Places -> Nat], ListOK(list)
  PROVE  /\ \E n \in 0..4 : Offered(list) = 1..n
         /\ list[1] # 0 => 1 \in Offered(list)
  <1>1. 1..Places = {1, 2, 3, 4, 5}
    BY DEF Places
  <1>2. list[5] = 0
    BY DEF ListOK, Places
  <1>3. \A i \in 1..5 : i \in Offered(list) <=> \A j \in 1..i : list[j] # 0
    BY DEF Offered, Places
  <1>4. Offered(list) \subseteq 1..5
    BY DEF Offered, Places
  <1>5. CASE list[1] = 0
    <2>1. Offered(list) = 1..0
      BY <1>3, <1>4, <1>5
    <2> QED BY <1>5, <2>1
  <1>6. CASE list[1] # 0 /\ list[2] = 0
    <2>1. Offered(list) = 1..1
      BY <1>3, <1>4, <1>6
    <2> QED BY <2>1
  <1>7. CASE list[1] # 0 /\ list[2] # 0 /\ list[3] = 0
    <2>1. Offered(list) = 1..2
      BY <1>3, <1>4, <1>7
    <2> QED BY <2>1
  <1>8. CASE list[1] # 0 /\ list[2] # 0 /\ list[3] # 0 /\ list[4] = 0
    <2>1. Offered(list) = 1..3
      BY <1>3, <1>4, <1>8
    <2> QED BY <2>1
  <1>9. CASE list[1] # 0 /\ list[2] # 0 /\ list[3] # 0 /\ list[4] # 0
    <2>1. Offered(list) = 1..4
      BY <1>2, <1>3, <1>4, <1>9
    <2> QED BY <2>1
  <1> QED BY <1>5, <1>6, <1>7, <1>8, <1>9

\* A new checkpoint goes first, and the last place stays empty.
LEMMA PushCheckpointOK ==
  ASSUME cast \in Casts, NEW list \in [1..Places -> 0..cast.checkpoints], ListOK(list), Room(list)
  PROVE  /\ PushCheckpoint(list, list[1] + 1) \in [1..Places -> 0..cast.checkpoints]
         /\ ListOK(PushCheckpoint(list, list[1] + 1))
  <1> DEFINE c == list[1] + 1
             pushed == PushCheckpoint(list, c)
  <1>1. cast.checkpoints \in Nat
    BY PlayerAssumption
  <1>2. Places = 5 /\ \A i \in 1..5 : list[i] \in 0..cast.checkpoints
    BY DEF Places
  <1>3. c \in 0..cast.checkpoints
    BY <1>1, <1>2 DEF Room
  <1>4. /\ pushed[1] = c /\ pushed[2] = list[1] /\ pushed[3] = list[2] /\ pushed[4] = list[3]
        /\ pushed[5] = list[5] /\ DOMAIN pushed = 1..Places
        /\ pushed = [i \in 1..Places |-> pushed[i]]
    BY <1>2 DEF PushCheckpoint, Shifted
  <1> HIDE DEF pushed
  <1>5. \A i \in 1..5 : i = 1 \/ i = 2 \/ i = 3 \/ i = 4 \/ i = 5
    OBVIOUS
  <1>6. pushed \in [1..Places -> 0..cast.checkpoints]
    BY <1>2, <1>3, <1>4, <1>5
  <1>7. ListOK(pushed)
    <2>1. \A i, j \in 1..5 : i < j /\ list[j] # 0 => list[i] > list[j]
      BY <1>2 DEF ListOK
    <2>2. list[5] = 0
      BY <1>2 DEF ListOK
    <2>3. list[1] \in Nat /\ list[2] \in Nat /\ list[3] \in Nat
      BY <1>1, <1>2
    <2>4. /\ list[2] # 0 => list[1] > list[2]
          /\ list[3] # 0 => list[1] > list[3] /\ list[2] > list[3]
      BY <2>1
    <2>5. ASSUME NEW i \in 1..5, NEW j \in 1..5, i < j, pushed[j] # 0 PROVE pushed[i] > pushed[j]
      BY <1>4, <1>5, <2>2, <2>3, <2>4, <2>5
    <2> QED BY <1>2, <1>4, <2>2, <2>5 DEF ListOK
  <1> QED BY <1>6, <1>7 DEF pushed
-----------------------------------------------------------------------------
(* Spawning. *)

\* Becoming a spectator changes only the flag and the health.
LEMMA BecomeSpectatorOK ==
  ASSUME NEW me, IsEntity(me)
  PROVE  /\ IsEntity(UTIL_BecomeSpectator(me)) /\ UTIL_BecomeSpectator(me).spectator
         /\ UTIL_BecomeSpectator(me) = [me EXCEPT !.spectator = TRUE, !.alive = TRUE]
         /\ UTIL_BecomeSpectator(me).iState = me.iState
  BY DEF IsEntity, Entity, UTIL_BecomeSpectator

\* A body is one: nothing is left of a spectator.
LEMMA BodyOK ==
  ASSUME NEW me, IsEntity(me)
  PROVE  IsEntity(Body(me)) /\ ~Body(me).spectator /\ Body(me).iState = me.iState
         /\ Body(me).pState = me.pState
  BY DEF IsEntity, Entity, Body

\* The session after its player has changed.
LEMMA WithPlayer ==
  ASSUME NEW s, IsSession(s), NEW me, IsEntity(me)
  PROVE  /\ IsSession([s EXCEPT !.me = me]) /\ [s EXCEPT !.me = me].me = me
         /\ [s EXCEPT !.me = me].game = s.game
  BY DEF IsSession

\* GGM_PlayerSpawn lets a body with a record in, and the world goes on; every other body watches
\* or waits for the load.
LEMMA PlacedOK ==
  ASSUME NEW s, IsSession(s), ~s.me.spectator
  PROVE  /\ SessionOK(Placed(s)) /\ Leads(s.game, Placed(s).game)
         /\ s.me.iState \in {"CONNECTED", "LOAD_FIX"} => Placed(s).me.iState # "SPAWNED"
         /\ s.me.iState \notin {"CONNECTED", "LOAD_FIX"} /\ s.me.pState /\ ~s.game.fLoading =>
               Placed(s).me.iState = "SPAWNED"
  <1>1. IsEntity(s.me) /\ IsGame(s.game) /\ s = [me |-> s.me, game |-> s.game] /\ s.me \in Entity
    BY DEF IsSession, IsEntity
  <1>2. CASE s.game.fLoading \/ s.me.iState = "LOAD_FIX"
    <2> DEFINE waiter == [s.me EXCEPT !.iState = "LOAD_FIX"]
    <2>1. Placed(s) = [me |-> waiter, game |-> s.game]
      BY <1>1, <1>2 DEF Placed
    <2>2. IsEntity(waiter) /\ waiter.iState = "LOAD_FIX"
      BY <1>1 DEF IsEntity, Entity, PlayerState
    <2> HIDE DEF waiter
    <2>3. SessionOK(Placed(s)) /\ Leads(s.game, Placed(s).game) /\ Placed(s).me = waiter
      BY <1>1, <2>1, <2>2 DEF SessionOK, IsSession, PlayerOK, Leads
    <2>4. Placed(s).me.iState # "SPAWNED"
      BY <2>2, <2>3
    <2>5. ~(s.me.iState \notin {"CONNECTED", "LOAD_FIX"} /\ s.me.pState /\ ~s.game.fLoading)
      BY <1>2
    <2> QED BY <2>3, <2>4, <2>5
  <1>3. CASE ~(s.game.fLoading \/ s.me.iState = "LOAD_FIX") /\ (s.me.iState = "CONNECTED" \/ ~s.me.pState)
    <2> DEFINE begin == [s.me EXCEPT !.iState = "SPECTATOR_BEGIN"]
               watcher == UTIL_BecomeSpectator(begin)
    <2>1. Placed(s) = [me |-> watcher, game |-> s.game]
      BY <1>1, <1>3 DEF Placed
    <2>2. IsEntity(begin) /\ begin.iState = "SPECTATOR_BEGIN"
      BY <1>1 DEF IsEntity, Entity, PlayerState
    <2> HIDE DEF begin
    <2>3. IsEntity(watcher) /\ watcher.spectator /\ watcher.iState = "SPECTATOR_BEGIN"
      BY <2>2 DEF UTIL_BecomeSpectator, IsEntity, Entity
    <2> HIDE DEF watcher
    <2>4. SessionOK(Placed(s)) /\ Leads(s.game, Placed(s).game) /\ Placed(s).me = watcher
      BY <1>1, <1>3, <2>1, <2>3 DEF SessionOK, IsSession, PlayerOK, Leads
    <2>5. Placed(s).me.iState # "SPAWNED"
      BY <2>3, <2>4
    <2>6. ~(s.me.iState \notin {"CONNECTED", "LOAD_FIX"} /\ s.me.pState /\ ~s.game.fLoading)
      BY <1>3
    <2> QED BY <2>4, <2>5, <2>6
  <1>4. CASE ~s.game.fLoading /\ s.me.iState \notin {"LOAD_FIX", "CONNECTED"} /\ s.me.pState
    <2> DEFINE me == [s.me EXCEPT !.iState = "SPAWNED"]
               g == [s.game EXCEPT !.g_fPause = FALSE]
    <2>1. Placed(s) = [me |-> me, game |-> g]
      BY <1>1, <1>4 DEF Placed
    <2>2. IsEntity(me) /\ me.iState = "SPAWNED" /\ ~me.spectator /\ me.pState
      BY <1>1, <1>4 DEF IsEntity, Entity, PlayerState
    <2>3. IsGame(g) /\ ~g.g_fPause /\ g.fLoading = s.game.fLoading /\ g.level = s.game.level
      BY <1>1 DEF IsGame, Game
    <2> HIDE DEF me, g
    <2>4. ~(s.me.iState \in {"CONNECTED", "LOAD_FIX"})
      BY <1>4
    <2> QED BY <1>1, <1>4, <2>1, <2>2, <2>3, <2>4 DEF SessionOK, IsSession, PlayerOK, Leads
  <1> QED BY <1>1, <1>2, <1>3, <1>4 DEF Entity

\* ClientPutInServer makes the player a watcher, or leaves it waiting for the load.
LEMMA ClientPutInServerOK ==
  ASSUME NEW s, IsSession(s), NEW busy \in BOOLEAN
  PROVE  SessionOK(ClientPutInServer(s, busy)) /\ Leads(s.game, ClientPutInServer(s, busy).game)
  <1> DEFINE entered == GGM_ClientPutinServer(s.me, busy)
             put == [s EXCEPT !.me = Body(entered)]
             at == Placed(put)
             first == GGM_ClientFirstSpawn(at.me)
  <1>1. IsEntity(entered) /\ entered.iState \in {"CONNECTED", "LOAD_FIX"}
    <2>1. IsEntity(s.me)
      BY DEF IsSession
    <2>2. NoMenu \in Menu /\ Len(NoMenu.items) <= MenuPlaces
      BY DEF NoMenu, Menu, MenuPlaces
    <2>3. CASE s.me.iState = "LOAD_FIX"
      BY <2>1, <2>3 DEF GGM_ClientPutinServer
    <2>4. CASE s.me.iState # "LOAD_FIX"
      <3> HIDE DEF entered
      <3>1. entered = [s.me EXCEPT !.iState = "CONNECTED", !.m_pPlayer = TRUE,
                                   !.menu = NoMenu, !.pState = ~busy]
        BY <2>4 DEF GGM_ClientPutinServer, entered
      <3> QED BY <2>1, <2>2, <3>1 DEF IsEntity, Entity, PlayerState
    <2> QED BY <2>3, <2>4
  <1> HIDE DEF entered
  <1>2. IsEntity(Body(entered)) /\ ~Body(entered).spectator /\ Body(entered).iState = entered.iState
    BY <1>1, BodyOK
  <1>3. IsSession(put) /\ put.me = Body(entered) /\ put.game = s.game
    BY <1>2, WithPlayer
  <1>4. ClientPutInServer(s, busy) = [at EXCEPT !.me = first]
    BY DEF ClientPutInServer, entered
  <1> HIDE DEF put
  <1>5. SessionOK(at) /\ Leads(s.game, at.game) /\ at.me.iState # "SPAWNED"
    BY <1>1, <1>2, <1>3, PlacedOK
  <1> HIDE DEF at
  <1>6. IsEntity(at.me) /\ IsSession(at) /\ PlayerOK(at.me, at.game)
    BY <1>5 DEF SessionOK, IsSession
  <1>7. IsEntity(first) /\ PlayerOK(first, at.game)
    <2>1. CASE cast.mp_spectator
      <3>1. first = UTIL_BecomeSpectator(at.me)
        BY <2>1 DEF GGM_ClientFirstSpawn
      <3> HIDE DEF first
      <3>2. IsEntity(first) /\ first.spectator /\ first.iState = at.me.iState
        BY <1>6, <3>1 DEF UTIL_BecomeSpectator, IsEntity, Entity
      <3> QED BY <1>5, <3>2 DEF PlayerOK
    <2>2. CASE ~cast.mp_spectator
      <3>1. first = at.me
        BY <2>2 DEF GGM_ClientFirstSpawn
      <3> QED BY <1>6, <3>1
    <2> QED BY <2>1, <2>2
  <1> HIDE DEF first
  <1>8. /\ IsSession([at EXCEPT !.me = first]) /\ [at EXCEPT !.me = first].me = first
        /\ [at EXCEPT !.me = first].game = at.game
    BY <1>6, <1>7, WithPlayer
  <1> QED BY <1>4, <1>5, <1>7, <1>8 DEF SessionOK

\* Spawn puts an uninitialized player in the server; any other is placed as it is.
LEMMA SpawnOK ==
  ASSUME NEW s, IsSession(s), NEW busy \in BOOLEAN
  PROVE  /\ SessionOK(Spawn(s, busy)) /\ Leads(s.game, Spawn(s, busy).game)
         /\ /\ s.me.iState \notin {"UNINITIALIZED", "CONNECTED", "LOAD_FIX"}
            /\ s.me.pState /\ ~s.game.fLoading
            => Spawn(s, busy).me.iState = "SPAWNED"
  <1> DEFINE b == Body(s.me)
             bodied == [s EXCEPT !.me = b]
  <1>1. IsEntity(s.me)
    BY DEF IsSession
  <1>2. IsEntity(b) /\ ~b.spectator /\ b.iState = s.me.iState /\ b.pState = s.me.pState
    BY <1>1, BodyOK
  <1>3. Spawn(s, busy) = IF s.me.iState = "UNINITIALIZED" /\ ~s.game.fLoading
                         THEN ClientPutInServer(bodied, busy) ELSE Placed(bodied)
    BY DEF Spawn
  <1> HIDE DEF b
  <1>4. IsSession(bodied) /\ bodied.me = b /\ bodied.game = s.game
    BY <1>2, WithPlayer
  <1> HIDE DEF bodied
  <1>5. CASE s.me.iState = "UNINITIALIZED" /\ ~s.game.fLoading
    BY <1>3, <1>4, <1>5, ClientPutInServerOK
  <1>6. CASE ~(s.me.iState = "UNINITIALIZED" /\ ~s.game.fLoading)
    <2>1. /\ SessionOK(Placed(bodied)) /\ Leads(s.game, Placed(bodied).game)
          /\ s.me.iState \notin {"CONNECTED", "LOAD_FIX"} /\ s.me.pState /\ ~s.game.fLoading =>
               Placed(bodied).me.iState = "SPAWNED"
      BY <1>2, <1>4, PlacedOK
    <2> QED BY <1>3, <1>6, <2>1
  <1> QED BY <1>5, <1>6

\* UTIL_SpawnPlayer brings a spectator with a record into the game.
LEMMA SpawnPlayerOK ==
  ASSUME NEW s, SessionOK(s), NEW busy \in BOOLEAN
  PROVE  /\ SessionOK(UTIL_SpawnPlayer(s, busy)) /\ Leads(s.game, UTIL_SpawnPlayer(s, busy).game)
         /\ /\ s.me.iState \in {"SPECTATOR_BEGIN", "SPECTATOR"} /\ s.me.pState /\ ~s.game.fLoading
            => UTIL_SpawnPlayer(s, busy).me.iState = "SPAWNED"
  <1> DEFINE b == [s.me EXCEPT !.iState = IF @ = "SPECTATOR" THEN "SPAWNED" ELSE @]
             t == [s EXCEPT !.me = b]
  <1>1. IsSession(s) /\ IsEntity(s.me)
    BY DEF SessionOK, IsSession
  <1>2. IsEntity(b) /\ b.pState = s.me.pState
        /\ b.iState = IF s.me.iState = "SPECTATOR" THEN "SPAWNED" ELSE s.me.iState
    BY <1>1 DEF IsEntity, Entity, PlayerState
  <1>3. UTIL_SpawnPlayer(s, busy) = IF s.me.iState = "LOAD_FIX" \/ ~s.me.pState THEN s
                                    ELSE Spawn(t, busy)
    BY <1>1 DEF UTIL_SpawnPlayer, IsSession
  <1> HIDE DEF b
  <1>4. IsSession(t) /\ t.me = b /\ t.game = s.game
    BY <1>1, <1>2, WithPlayer
  <1> HIDE DEF t
  <1>5. /\ SessionOK(Spawn(t, busy)) /\ Leads(s.game, Spawn(t, busy).game)
        /\ /\ b.iState \notin {"UNINITIALIZED", "CONNECTED", "LOAD_FIX"}
           /\ b.pState /\ ~s.game.fLoading
           => Spawn(t, busy).me.iState = "SPAWNED"
    BY <1>4, SpawnOK
  <1>6. Leads(s.game, s.game)
    BY DEF Leads
  <1> QED BY <1>2, <1>3, <1>5, <1>6
-----------------------------------------------------------------------------
(* Commands.  After(s, t): the callback may go on from t. *)
After(s, t) == SessionOK(t) /\ Leads(s.game, t.game)

\* A callback that does nothing, and one that goes on after another.
LEMMA AfterNothing ==
  ASSUME NEW s, SessionOK(s)
  PROVE  After(s, s)
  BY DEF After, Leads

LEMMA AfterAfter ==
  ASSUME NEW s, NEW t, NEW u, After(s, t), After(t, u)
  PROVE  After(s, u)
  BY DEF After, Leads

\* Only the player changes, and remains what the invariants say of it.
LEMMA AfterPlayer ==
  ASSUME NEW s, SessionOK(s), NEW me, IsEntity(me), PlayerOK(me, s.game)
  PROVE  After(s, [s EXCEPT !.me = me])
  <1>1. /\ IsSession([s EXCEPT !.me = me]) /\ [s EXCEPT !.me = me].me = me
        /\ [s EXCEPT !.me = me].game = s.game
    BY WithPlayer DEF SessionOK
  <1> HIDE DEF IsSession
  <1> QED BY <1>1 DEF After, SessionOK, Leads

\* A player is shown a menu.
LEMMA AfterMenu ==
  ASSUME NEW s, SessionOK(s), NEW items \in Seq(Item), NEW force \in BOOLEAN
  PROVE  After(s, [s EXCEPT !.me = ShowMenu(@, items, force)])
  <1> DEFINE shown == ShowMenu(s.me, items, force)
  <1>1. IsEntity(s.me) /\ PlayerOK(s.me, s.game)
    BY DEF SessionOK, IsSession
  <1>2. IsEntity(shown) /\ shown = [s.me EXCEPT !.menu = shown.menu]
    BY <1>1, ShowMenuOK
  <1>3. [s EXCEPT !.me = ShowMenu(@, items, force)] = [s EXCEPT !.me = shown]
    BY DEF SessionOK, IsSession
  <1> HIDE DEF shown
  <1>4. /\ shown.iState = s.me.iState /\ shown.spectator = s.me.spectator
        /\ shown.pState = s.me.pState
    BY <1>1, <1>2 DEF IsEntity, Entity
  <1>5. PlayerOK(shown, s.game)
    BY <1>1, <1>4 DEF PlayerOK
  <1> QED BY <1>2, <1>3, <1>5, AfterPlayer

\* The menus of the commands are menus.
LEMMA MenusOK ==
  /\ InitialMenu \in Seq(Item) /\ SpectatorMenu \in Seq(Item) /\ CoopMenu \in Seq(Item)
  /\ CoopMenu1 \in Seq(Item) /\ SaveMenu \in Seq(Item) /\ VoteMenu \in Seq(Item)
  /\ BackMenu \in Seq(Item)
  <1>1. /\ Cmd("joincoop") \in Item /\ Cmd("spectate") \in Item /\ Cancel \in Item
        /\ Cmd("respawn") \in Item /\ Cmd("coopmenu1") \in Item /\ Cmd("checkpointmenu") \in Item
        /\ Cmd("voteload") \in Item /\ Other \in Item
    BY DEF Item, Cancel, Other
  <1> QED BY <1>1 DEF InitialMenu, SpectatorMenu, CoopMenu, CoopMenu1, SaveMenu, VoteMenu, BackMenu

\* The items of the checkpoint menu: respawn or a new checkpoint, then what can be loaded.
CheckpointItems(s) ==
  <<IF s.me.iState \in {"SPECTATOR", "SPECTATOR_BEGIN"} \/ ~s.me.alive
      THEN Cmd("respawn") ELSE Cmd("newcheckpoint")>>
  \o [i \in Offered(s.game.rgCheckpoints) |-> LoadCmd(i - 1)]

LEMMA CheckpointItemsOK ==
  ASSUME NEW s, IsSession(s)
  PROVE  /\ CheckpointItems(s) \in Seq(Item)
         /\ s.game.rgCheckpoints[1] # 0 =>
              Len(CheckpointItems(s)) >= 2 /\ CheckpointItems(s)[2] = LoadCmd(0)
  <1> DEFINE list == s.game.rgCheckpoints
             first == IF s.me.iState \in {"SPECTATOR", "SPECTATOR_BEGIN"} \/ ~s.me.alive
                        THEN Cmd("respawn") ELSE Cmd("newcheckpoint")
             loads == [i \in Offered(list) |-> LoadCmd(i - 1)]
  <1>1. list \in [1..Places -> Nat] /\ ListOK(list)
    BY DEF IsSession, IsGame, Game
  <1>2. PICK n \in 0..4 : Offered(list) = 1..n
    BY <1>1, OfferedPrefix
  <1>3. list[1] # 0 => 1 \in 1..n
    BY <1>1, <1>2, OfferedPrefix
  <1>4. \A i \in 1..n : LoadCmd(i - 1) \in Item
    <2>1. \A i \in 1..n : i - 1 \in 0..(Places - 1)
      BY DEF Places
    <2>2. \A k \in 0..(Places - 1) : LoadCmd(k) \in Item
      BY DEF Item
    <2> QED BY <2>1, <2>2
  <1>5. loads \in Seq(Item) /\ Len(loads) = n /\ \A i \in 1..n : loads[i] = LoadCmd(i - 1)
    BY <1>2, <1>4
  <1>6. first \in Item
    BY DEF Item
  <1>7. CheckpointItems(s) = <<first>> \o loads
    BY DEF CheckpointItems
  <1> HIDE DEF loads, first, list
  <1>8. <<first>> \in Seq(Item) /\ Len(<<first>>) = 1
    BY <1>6
  <1>9. /\ <<first>> \o loads \in Seq(Item) /\ Len(<<first>> \o loads) = 1 + n
        /\ n >= 1 => (<<first>> \o loads)[2] = loads[1]
    BY <1>5, <1>8, ConcatProperties
  <1>10. list[1] # 0 => n >= 1 /\ loads[1] = LoadCmd(0)
    BY <1>3, <1>5
  <1> QED BY <1>7, <1>9, <1>10 DEF list

LEMMA CheckpointMenuOK ==
  ASSUME NEW s, SessionOK(s)
  PROVE  /\ After(s, COOP_CheckpointMenu(s))
         /\ COOP_CheckpointMenu(s) = [s EXCEPT !.me = ShowMenu(@, CheckpointItems(s), FALSE)]
  <1>1. COOP_CheckpointMenu(s) = [s EXCEPT !.me = ShowMenu(@, CheckpointItems(s), FALSE)]
    BY DEF COOP_CheckpointMenu, CheckpointItems
  <1>2. CheckpointItems(s) \in Seq(Item)
    BY CheckpointItemsOK DEF SessionOK
  <1> QED BY <1>1, <1>2, AfterMenu

\* On a closed menu of a player who was put in the server the checkpoints show.
LEMMA CheckpointMenuShows ==
  ASSUME NEW s, SessionOK(s), s.game.rgCheckpoints[1] # 0, s.me.m_pPlayer, ~s.me.menu.m_fShow
  PROVE  /\ COOP_CheckpointMenu(s).me.menu.m_fShow
         /\ LoadCmd(0) \in Range(COOP_CheckpointMenu(s).me.menu.items)
  <1> DEFINE items == CheckpointItems(s)
             few == FirstOf(items, MenuPlaces)
  <1>1. items \in Seq(Item) /\ Len(items) >= 2 /\ items[2] = LoadCmd(0)
    BY CheckpointItemsOK DEF SessionOK
  <1>2. s.me \in Entity /\ s = [me |-> s.me, game |-> s.game]
    BY DEF SessionOK, IsSession, IsEntity
  <1>3. COOP_CheckpointMenu(s).me = ShowMenu(s.me, items, FALSE)
    BY <1>2, CheckpointMenuOK
  <1> HIDE DEF items
  <1>4. few \in Seq(Item) /\ 2 \in 1..Len(few) /\ few[2] = LoadCmd(0)
    <2>1. /\ few \in Seq(Item) /\ Len(few) = IF Len(items) < 5 THEN Len(items) ELSE 5
          /\ \A i \in 1..Len(few) : few[i] = items[i]
      BY <1>1, FirstOfType
    <2> HIDE DEF few
    <2>2. Len(items) \in Nat
      BY <1>1
    <2>3. 2 \in 1..Len(few)
      BY <1>1, <2>1, <2>2
    <2> QED BY <1>1, <2>1, <2>3
  <1>5. NoMenu.items \o items = items
    BY <1>1, ConcatEmptySeq DEF NoMenu
  <1> HIDE DEF few
  <1>6. New(s.me.menu, FALSE) = NoMenu
    BY DEF New
  <1>7. AddAll(NoMenu, items) = [m_fShow |-> FALSE, items |-> few]
    BY <1>5 DEF AddAll, NoMenu, few
  <1>8. Show(s.me, [m_fShow |-> FALSE, items |-> few]).menu = [m_fShow |-> TRUE, items |-> few]
    BY <1>2 DEF Show, Entity
  <1>9. ShowMenu(s.me, items, FALSE).menu = [m_fShow |-> TRUE, items |-> few]
    BY <1>6, <1>7, <1>8 DEF ShowMenu
  <1>10. LoadCmd(0) \in Range(few)
    BY <1>4 DEF Range
  <1> DEFINE shown == ShowMenu(s.me, items, FALSE)
  <1>11. shown.menu.m_fShow /\ shown.menu.items = few
    <2> DEFINE r == [m_fShow |-> TRUE, items |-> few]
    <2>1. r.m_fShow /\ r.items = few
      OBVIOUS
    <2> HIDE DEF r
    <2>2. ShowMenu(s.me, items, FALSE).menu = r
      BY <1>9 DEF r
    <2> HIDE DEF shown
    <2>3. shown.menu = r
      BY <2>2 DEF shown
    <2> QED BY <2>1, <2>3
  <1> HIDE DEF shown
  <1>12. COOP_CheckpointMenu(s).me = shown
    BY <1>3 DEF shown
  <1> QED BY <1>10, <1>11, <1>12

\* A menu that is shown stays as it is: the checkpoints do not come up.
LEMMA CheckpointMenuKept ==
  ASSUME NEW s, SessionOK(s), s.me.menu.m_fShow
  PROVE  COOP_CheckpointMenu(s).me.menu = s.me.menu
  <1> DEFINE items == CheckpointItems(s)
             m == s.me.menu
  <1>1. s.me \in Entity /\ m \in Menu /\ s.me.m_pPlayer \in BOOLEAN
        /\ s = [me |-> s.me, game |-> s.game]
    BY DEF SessionOK, IsSession, IsEntity, Entity
  <1>2. COOP_CheckpointMenu(s).me = ShowMenu(s.me, items, FALSE)
    BY <1>1, CheckpointMenuOK
  <1> HIDE DEF items
  <1>3. AddAll(New(m, FALSE), items) = m
    BY DEF AddAll, New
  <1>4. [m EXCEPT !.m_fShow = @ \/ s.me.m_pPlayer] = m
    <2>1. m = [m_fShow |-> TRUE, items |-> m.items]
      BY <1>1 DEF Menu
    <2> QED BY <1>1, <2>1
  <1>5. ShowMenu(s.me, items, FALSE) = [s.me EXCEPT !.menu = m]
    BY <1>3, <1>4 DEF ShowMenu, Show
  <1> QED BY <1>1, <1>2, <1>5 DEF Entity

\* The vote menu is shown to a player who was put in the server, whatever was shown before.
LEMMA VoteShown ==
  ASSUME NEW me, IsEntity(me), me.m_pPlayer
  PROVE  /\ GGM_SendVote(me).menu.m_fShow /\ GGM_SendVote(me).menu.items = VoteMenu
         /\ GGM_SendVote(me).iState = me.iState /\ GGM_SendVote(me).pState = me.pState
  <1> DEFINE few == FirstOf(VoteMenu, MenuPlaces)
             shown == [m_fShow |-> TRUE, items |-> VoteMenu]
  <1>1. VoteMenu \in Seq(Item) /\ Len(VoteMenu) = 3
    BY MenusOK DEF VoteMenu
  <1>2. few = VoteMenu
    <2>1. few \in Seq(Item) /\ Len(few) = Len(VoteMenu) /\ \A i \in 1..Len(few) : few[i] = VoteMenu[i]
      BY <1>1, FirstOfType
    <2> HIDE DEF few
    <2> QED BY <1>1, <2>1, SeqEqual
  <1>3. NoMenu.items \o VoteMenu = VoteMenu
    BY <1>1, ConcatEmptySeq DEF NoMenu
  <1>4. AddAll(New(me.menu, TRUE), VoteMenu) = [m_fShow |-> FALSE, items |-> VoteMenu]
    BY <1>2, <1>3 DEF AddAll, New, NoMenu
  <1>5. GGM_SendVote(me) = [me EXCEPT !.menu = shown]
    <2>1. me.m_pPlayer = TRUE
      BY DEF IsEntity, Entity
    <2>2. GGM_SendVote(me) = Show(me, [m_fShow |-> FALSE, items |-> VoteMenu])
      BY <1>4 DEF GGM_SendVote, ShowMenu
    <2> QED BY <2>1, <2>2 DEF Show
  <1> HIDE DEF shown
  <1>6. GGM_SendVote(me).menu = shown /\ GGM_SendVote(me).iState = me.iState
        /\ GGM_SendVote(me).pState = me.pState
    BY <1>5 DEF IsEntity, Entity
  <1>7. shown.m_fShow /\ shown.items = VoteMenu
    BY DEF shown
  <1> QED BY <1>6, <1>7

\* A new checkpoint changes the list and nothing else.
LEMMA NewCheckpointOK ==
  ASSUME cast \in Casts, NEW s, SessionOK(s)
  PROVE  After(s, COOP_NewCheckpoint(s))
  <1> DEFINE list == s.game.rgCheckpoints
             g == [s.game EXCEPT !.rgCheckpoints = PushCheckpoint(list, list[1] + 1)]
  <1>1. IsGame(s.game) /\ s = [me |-> s.me, game |-> s.game] /\ list \in [1..Places -> 0..cast.checkpoints]
        /\ ListOK(list)
    BY DEF SessionOK, IsSession, IsGame, Game
  <1>2. CASE ~s.me.alive \/ ~Room(list)
    BY <1>2, AfterNothing DEF COOP_NewCheckpoint
  <1>3. CASE s.me.alive /\ Room(list)
    <2>1. COOP_NewCheckpoint(s) = [s EXCEPT !.game = g]
      BY <1>1, <1>3 DEF COOP_NewCheckpoint, IsGame, Game
    <2>2. /\ PushCheckpoint(list, list[1] + 1) \in [1..Places -> 0..cast.checkpoints]
          /\ ListOK(PushCheckpoint(list, list[1] + 1))
      BY <1>1, <1>3, PushCheckpointOK
    <2>3. IsGame(g)
      BY <1>1, <2>2 DEF IsGame, Game
    <2>4. g.fLoading = s.game.fLoading /\ g.level = s.game.level /\ g.g_fPause = s.game.g_fPause
      BY <1>1 DEF IsGame, Game
    <2> HIDE DEF g
    <2>5. COOP_NewCheckpoint(s) = [me |-> s.me, game |-> g]
      BY <1>1, <2>1
    <2> QED BY <2>3, <2>4, <2>5 DEF After, SessionOK, IsSession, PlayerOK, Leads
  <1> QED BY <1>2, <1>3

LEMMA JoinCoopOK ==
  ASSUME NEW s, SessionOK(s), NEW busy \in BOOLEAN
  PROVE  After(s, JoinCoop(s, busy))
  BY AfterNothing, CheckpointMenuOK, SpawnPlayerOK DEF JoinCoop, After

LEMMA SpectateOK ==
  ASSUME NEW s, SessionOK(s)
  PROVE  After(s, Spectate(s))
  <1> DEFINE me == [UTIL_BecomeSpectator(s.me) EXCEPT !.iState = "SPECTATOR"]
  <1>1. IsEntity(s.me)
    BY DEF SessionOK, IsSession
  <1>2. IsEntity(me) /\ me.iState = "SPECTATOR" /\ me.spectator
    BY <1>1 DEF UTIL_BecomeSpectator, IsEntity, Entity, PlayerState
  <1>3. Spectate(s) = [s EXCEPT !.me = me]
    BY DEF Spectate
  <1> HIDE DEF me
  <1> QED BY <1>2, <1>3, AfterPlayer DEF PlayerOK

LEMMA OpenMenusOK ==
  ASSUME NEW s, SessionOK(s)
  PROVE  After(s, OpenCoopMenu(s)) /\ After(s, OpenCoopMenu1(s)) /\ After(s, OpenSaveMenu(s))
  <1>1. After(s, s)
    BY AfterNothing
  <1>2. /\ After(s, [s EXCEPT !.me = ShowMenu(@, CoopMenu, TRUE)])
        /\ After(s, [s EXCEPT !.me = ShowMenu(@, SpectatorMenu, TRUE)])
        /\ After(s, [s EXCEPT !.me = ShowMenu(@, CoopMenu1, TRUE)])
        /\ After(s, [s EXCEPT !.me = ShowMenu(@, SaveMenu, FALSE)])
    BY AfterMenu, MenusOK
  <1> QED BY <1>1, <1>2 DEF OpenCoopMenu, OpenCoopMenu1, OpenSaveMenu

\* Whatever command it is, the callback may go on.
LEMMA CoopCommandOK ==
  ASSUME cast \in Casts, NEW s, SessionOK(s), NEW c, NEW busy \in BOOLEAN
  PROVE  After(s, COOP_ClientCommand(s, c, busy))
  <1>1. After(s, s)
    BY AfterNothing
  <1>2. After(s, JoinCoop(s, busy))
    BY JoinCoopOK
  <1>3. After(s, UTIL_SpawnPlayer(s, busy))
    BY SpawnPlayerOK DEF After
  <1>4. After(s, COOP_CheckpointMenu(s))
    BY CheckpointMenuOK
  <1>5. After(s, COOP_NewCheckpoint(s))
    BY NewCheckpointOK
  <1>6. After(s, OpenCoopMenu(s)) /\ After(s, OpenCoopMenu1(s)) /\ After(s, OpenSaveMenu(s))
    BY OpenMenusOK
  <1>7. After(s, LoadCheckpoint(s, busy)) /\ After(s, NewCheckpoint(s)) /\ After(s, Respawn(s, busy))
    BY <1>1, <1>3, <1>5 DEF LoadCheckpoint, NewCheckpoint, Respawn
  <1> QED BY <1>1, <1>2, <1>4, <1>6, <1>7 DEF COOP_ClientCommand

\* The vote menu may come before the command.
LEMMA VoteProcessOK ==
  ASSUME NEW s, SessionOK(s), NEW asked \in BOOLEAN
  PROVE  After(s, GGM_VoteProcess(s, asked))
  <1>1. After(s, [s EXCEPT !.me = ShowMenu(@, VoteMenu, TRUE)])
    BY AfterMenu, MenusOK
  <1> QED BY <1>1, AfterNothing DEF GGM_VoteProcess, GGM_SendVote

LEMMA RunOK ==
  ASSUME cast \in Casts, NEW s, SessionOK(s), NEW c, NEW asked \in BOOLEAN, NEW busy \in BOOLEAN
  PROVE  After(s, Run(s, c, asked, busy))
  <1> DEFINE voted == GGM_VoteProcess(s, asked)
             ran == COOP_ClientCommand(voted, c, busy)
  <1>1. After(s, voted)
    BY VoteProcessOK
  <1> HIDE DEF voted
  <1>2. After(voted, ran)
    BY <1>1, CoopCommandOK DEF After
  <1> HIDE DEF ran
  <1>3. After(s, ran)
    BY <1>1, <1>2, AfterAfter
  <1>4. After(s, s) /\ After(s, Spectate(s))
    BY AfterNothing, SpectateOK
  <1> QED BY <1>3, <1>4 DEF Run, ran, voted

\* A menu is closed, whatever becomes of the selection.
LEMMA ClosedOK ==
  ASSUME NEW s, SessionOK(s)
  PROVE  /\ After(s, [s EXCEPT !.me.menu.m_fShow = FALSE])
         /\ [s EXCEPT !.me.menu.m_fShow = FALSE]
              = [s EXCEPT !.me = [s.me EXCEPT !.menu = [s.me.menu EXCEPT !.m_fShow = FALSE]]]
  <1> DEFINE menu == [s.me.menu EXCEPT !.m_fShow = FALSE]
             me == [s.me EXCEPT !.menu = menu]
  <1>1. IsEntity(s.me) /\ PlayerOK(s.me, s.game) /\ s.me.menu \in Menu
    BY DEF SessionOK, IsSession, IsEntity, Entity
  <1>2. menu \in Menu /\ menu.items = s.me.menu.items
    BY <1>1 DEF Menu
  <1>3. [s EXCEPT !.me.menu.m_fShow = FALSE] = [s EXCEPT !.me = me]
    OBVIOUS
  <1> HIDE DEF menu
  <1>4. IsEntity(me) /\ me.iState = s.me.iState /\ me.spectator = s.me.spectator
        /\ me.pState = s.me.pState
    BY <1>1, <1>2 DEF IsEntity, Entity
  <1>5. PlayerOK(me, s.game)
    BY <1>1, <1>4 DEF PlayerOK
  <1> HIDE DEF me
  <1> QED BY <1>3, <1>4, <1>5, AfterPlayer DEF me, menu

LEMMA SelectedOK ==
  ASSUME cast \in Casts, NEW s, SessionOK(s), NEW i, NEW asked \in BOOLEAN, NEW busy \in BOOLEAN
  PROVE  After(s, Selected(s, i, asked, busy))
  <1> DEFINE closed == [s EXCEPT !.me.menu.m_fShow = FALSE]
  <1>1. After(s, closed) /\ SessionOK(closed)
    BY ClosedOK DEF After
  <1>2. Selected(s, i, asked, busy) = IF i > Len(s.me.menu.items) THEN closed
                                      ELSE Run(closed, s.me.menu.items[i], asked, busy)
    BY DEF Selected
  <1> HIDE DEF closed
  <1>3. After(closed, Run(closed, s.me.menu.items[i], asked, busy))
    BY <1>1, RunOK
  <1> QED BY <1>1, <1>2, <1>3, AfterAfter
-----------------------------------------------------------------------------
(* Thinking and dying. *)

\* Dying by stages changes only deadflag, and whose turn it is to be asked.
LEMMA StageOK ==
  ASSUME NEW s, SessionOK(s), NEW d \in {"NO", "DYING", "DEAD", "RESPAWNABLE"}, NEW skip \in BOOLEAN
  PROVE  /\ After(s, [s EXCEPT !.me.deadflag = d])
         /\ After(s, [s EXCEPT !.game.st_fSkipNext = skip])
         /\ After(s, [s EXCEPT !.game.st_fSkipNext = skip, !.me.deadflag = d])
  <1> DEFINE me == [s.me EXCEPT !.deadflag = d]
             g == [s.game EXCEPT !.st_fSkipNext = skip]
  <1>1. IsEntity(s.me) /\ IsGame(s.game) /\ PlayerOK(s.me, s.game) /\ s = [me |-> s.me, game |-> s.game]
    BY DEF SessionOK, IsSession
  <1>2. IsEntity(me) /\ me.iState = s.me.iState /\ me.spectator = s.me.spectator
        /\ me.pState = s.me.pState
    BY <1>1 DEF IsEntity, Entity
  <1>3. IsGame(g) /\ g.fLoading = s.game.fLoading /\ g.level = s.game.level /\ g.g_fPause = s.game.g_fPause
    BY <1>1 DEF IsGame, Game
  <1>4. /\ [s EXCEPT !.me.deadflag = d] = [me |-> me, game |-> s.game]
        /\ [s EXCEPT !.game.st_fSkipNext = skip] = [me |-> s.me, game |-> g]
        /\ [s EXCEPT !.game.st_fSkipNext = skip, !.me.deadflag = d] = [me |-> me, game |-> g]
    <2>1. /\ [s EXCEPT !.me.deadflag = d] = [s EXCEPT !.me = me]
          /\ [s EXCEPT !.game.st_fSkipNext = skip] = [s EXCEPT !.game = g]
      OBVIOUS
    <2>2. [s EXCEPT !.game.st_fSkipNext = skip, !.me.deadflag = d] = [s EXCEPT !.game = g, !.me = me]
      BY <1>1
    <2> HIDE DEF me, g
    <2>3. /\ [s EXCEPT !.me = me] = [me |-> me, game |-> s.game]
          /\ [s EXCEPT !.game = g] = [me |-> s.me, game |-> g]
          /\ [s EXCEPT !.game = g, !.me = me] = [me |-> me, game |-> g]
      <3> DEFINE a == s.me
                 b == s.game
                 r == [me |-> a, game |-> b]
      <3>1. /\ [r EXCEPT !.me = me] = [me |-> me, game |-> b]
            /\ [r EXCEPT !.game = g] = [me |-> a, game |-> g]
            /\ [r EXCEPT !.game = g, !.me = me] = [me |-> me, game |-> g]
        <4> HIDE DEF a, b
        <4>1. [r EXCEPT !.me = me] = [me |-> me, game |-> b]
          OBVIOUS
        <4>2. [r EXCEPT !.game = g] = [me |-> a, game |-> g]
          OBVIOUS
        <4> DEFINE q == [me |-> a, game |-> g]
        <4>3. [q EXCEPT !.me = me] = [me |-> me, game |-> g]
          OBVIOUS
        <4>4. [r EXCEPT !.game = g, !.me = me] = [[r EXCEPT !.game = g] EXCEPT !.me = me]
          OBVIOUS
        <4> HIDE DEF r
        <4>5. [[r EXCEPT !.game = g] EXCEPT !.me = me] = [q EXCEPT !.me = me]
          BY <4>2, Zenon
        <4> QED BY <4>1, <4>2, <4>3, <4>4, <4>5, Zenon
      <3>2. s = r
        BY <1>1
      <3> HIDE DEF r
      <3> QED BY <3>1, <3>2
    <2> QED BY <2>1, <2>2, <2>3
  <1> HIDE DEF me, g
  <1>5. /\ After(s, [me |-> me, game |-> s.game]) /\ After(s, [me |-> s.me, game |-> g])
        /\ After(s, [me |-> me, game |-> g])
    BY <1>1, <1>2, <1>3 DEF After, SessionOK, IsSession, PlayerOK, Leads
  <1> QED BY <1>4, <1>5

LEMMA PlayerDeathOK ==
  ASSUME NEW s, SessionOK(s)
  PROVE  After(s, COOP_PlayerDeath(s))
  <1> DEFINE asked == COOP_CheckpointMenu(s)
  <1>1. /\ After(s, [s EXCEPT !.me.deadflag = "RESPAWNABLE"])
        /\ After(s, [s EXCEPT !.game.st_fSkipNext = FALSE, !.me.deadflag = "RESPAWNABLE"])
    BY StageOK
  <1>2. After(s, asked)
    BY CheckpointMenuOK
  <1> HIDE DEF asked
  <1>3. After(asked, [asked EXCEPT !.game.st_fSkipNext = TRUE])
    BY <1>2, StageOK DEF After
  <1>4. After(s, [asked EXCEPT !.game.st_fSkipNext = TRUE])
    BY <1>2, <1>3, AfterAfter
  <1>5. After(s, s)
    BY AfterNothing
  <1> QED BY <1>1, <1>4, <1>5 DEF COOP_PlayerDeath, asked

LEMMA DeathThinkOK ==
  ASSUME NEW s, SessionOK(s), NEW up, NEW done, NEW busy \in BOOLEAN
  PROVE  After(s, PlayerDeathThink(s, up, done, busy))
  <1> DEFINE dead == [s EXCEPT !.me.deadflag = "DEAD"]
  <1>1. After(s, s)
    BY AfterNothing
  <1>2. After(s, Spawn(s, busy))
    BY SpawnOK DEF SessionOK, After
  <1>3. After(s, dead)
    BY StageOK
  <1> HIDE DEF dead
  <1>4. After(s, COOP_PlayerDeath(dead))
    BY <1>3, PlayerDeathOK, AfterAfter DEF After
  <1> QED BY <1>1, <1>2, <1>3, <1>4 DEF PlayerDeathThink, dead

LEMMA PlayerThinkOK ==
  ASSUME NEW s, SessionOK(s), NEW buttons, NEW busy \in BOOLEAN
  PROVE  After(s, PlayerThink(s, buttons, busy))
  <1> DEFINE me == [s.me EXCEPT !.iState = "UNINITIALIZED", !.pState = FALSE]
             left == [s EXCEPT !.me.iState = "UNINITIALIZED", !.me.pState = FALSE]
  <1>1. After(s, s)
    BY AfterNothing
  <1>2. After(s, ClientPutInServer(s, busy))
    BY ClientPutInServerOK DEF SessionOK, After
  <1>3. After(s, left)
    <2>1. IsEntity(s.me) /\ s = [me |-> s.me, game |-> s.game]
      BY DEF SessionOK, IsSession
    <2>2. IsEntity(me) /\ me.iState = "UNINITIALIZED"
      BY <2>1 DEF IsEntity, Entity, PlayerState
    <2>3. left = [s EXCEPT !.me = me]
      BY <2>1
    <2> HIDE DEF me, left
    <2> QED BY <2>2, <2>3, AfterPlayer DEF PlayerOK
  <1> HIDE DEF left
  <1> QED BY <1>1, <1>2, <1>3 DEF PlayerThink, left

LEMMA UpdateOK ==
  ASSUME NEW s, SessionOK(s), NEW busy \in BOOLEAN
  PROVE  After(s, UpdateClientData(s, busy))
  <1> DEFINE put == IF s.me.iState \in {"UNINITIALIZED", "CONNECTED"}
                      THEN ClientPutInServer(s, busy) ELSE s
             hud == GGM_InitialMenus(put)
             me == [hud.me EXCEPT !.m_fGameHUDInitialized = TRUE]
  <1>1. After(s, s) /\ After(s, put)
    BY AfterNothing, ClientPutInServerOK DEF SessionOK, After
  <1> HIDE DEF put
  <1>2. After(put, hud)
    <2>1. SessionOK(put)
      BY <1>1 DEF After
    <2>2. After(put, put) /\ After(put, [put EXCEPT !.me = ShowMenu(@, InitialMenu, TRUE)])
      BY <2>1, AfterNothing, AfterMenu, MenusOK
    <2> QED BY <2>2 DEF GGM_InitialMenus
  <1>3. InitHUD(s, busy) = hud
    BY DEF InitHUD, put
  <1> HIDE DEF hud
  <1>4. After(s, hud)
    BY <1>1, <1>2, AfterAfter
  <1>5. SessionOK(hud) /\ IsEntity(hud.me) /\ PlayerOK(hud.me, hud.game)
    BY <1>4 DEF After, SessionOK, IsSession
  <1>6. IsEntity(me) /\ me.iState = hud.me.iState /\ me.spectator = hud.me.spectator
        /\ me.pState = hud.me.pState
    BY <1>5 DEF IsEntity, Entity
  <1>7. [hud EXCEPT !.me.m_fGameHUDInitialized = TRUE] = [hud EXCEPT !.me = me]
    OBVIOUS
  <1> HIDE DEF me
  <1>8. PlayerOK(me, hud.game)
    BY <1>5, <1>6 DEF PlayerOK
  <1>9. After(hud, [hud EXCEPT !.me = me])
    BY <1>5, <1>6, <1>8, AfterPlayer
  <1>10. After(s, [hud EXCEPT !.me = me])
    BY <1>4, <1>9, AfterAfter
  <1>11. UpdateClientData(s, busy) = IF s.me.m_fGameHUDInitialized THEN s
                                     ELSE [hud EXCEPT !.me.m_fGameHUDInitialized = TRUE]
    BY <1>3 DEF UpdateClientData
  <1> QED BY <1>1, <1>7, <1>10, <1>11
-----------------------------------------------------------------------------
(* Callbacks. *)

\* What the invariants say of the player a callback is about.
LEMMA SessionIs ==
  ASSUME IInv, NEW p \in Player
  PROVE  /\ SessionOK(Session(p)) /\ Session(p).me = pl[p] /\ Session(p).game = game
         /\ IsEntity(pl[p]) /\ PlayerOK(pl[p], game) /\ IsGame(game)
  <1>1. IsEntity(pl[p]) /\ IsGame(game)
    BY DEF IInv, TypeOK, CheckpointsInOrder, ListOK, IsEntity, IsGame
  <1>2. PlayerOK(pl[p], game)
    <2>1. pl[p].iState \in PlayerState /\ game.fLoading \in BOOLEAN /\ game.g_fPause \in BOOLEAN
      BY <1>1 DEF IsEntity, IsGame, Entity, Game
    <2>2. /\ pl[p].iState = "SPAWNED" => ~pl[p].spectator
          /\ pl[p].iState \in {"SPECTATOR_BEGIN", "SPECTATOR"} => pl[p].spectator
      BY DEF IInv, SpectatorAgrees
    <2>3. pl[p].iState = "SPAWNED" /\ ~game.fLoading => pl[p].pState
      BY DEF IInv, NoPlayWithoutRecord
    <2>4. pl[p].iState = "SPAWNED" /\ ~game.fLoading => ~game.g_fPause
      BY DEF IInv, PauseMeansEmpty
    <2> QED BY <2>2, <2>3, <2>4 DEF PlayerOK
  <1> QED BY <1>1, <1>2 DEF Session, SessionOK, IsSession

\* All players and the game together are what the invariants say.
LEMMA Together ==
  ASSUME cast' \in Casts, (IsGame(game))', conn' \in [Player -> {"free", "connected", "active"}],
         pl' = [p \in Player |-> pl'[p]],
         \A p \in Player : IsEntity(pl'[p]) /\ PlayerOK(pl'[p], game')
  PROVE  IInv'
  <1>1. TypeOK'
    <2>1. pl' \in [Player -> Entity] /\ \A p \in Player : Len(pl'[p].menu.items) <= MenuPlaces
      BY DEF IsEntity
    <2> QED BY <2>1 DEF TypeOK, IsGame
  <1>2. CheckpointsInOrder'
    BY DEF CheckpointsInOrder, IsGame, ListOK
  <1>3. SpectatorAgrees' /\ NoPlayWithoutRecord' /\ PauseMeansEmpty'
    BY DEF SpectatorAgrees, NoPlayWithoutRecord, PauseMeansEmpty, PlayerOK
  <1> QED BY <1>1, <1>2, <1>3 DEF IInv

\* A callback about one player leaves the others to what they are.
LEMMA OthersStay ==
  ASSUME IInv, NEW p \in Player, NEW s, After(Session(p), s),
         pl' = [pl EXCEPT ![p] = s.me], game' = s.game, cast' = cast,
         conn' \in [Player -> {"free", "connected", "active"}]
  PROVE  IInv'
  <1>1. cast \in Casts /\ pl \in [Player -> Entity]
    BY DEF IInv, TypeOK
  <1>2. IsEntity(s.me) /\ IsGame(s.game) /\ PlayerOK(s.me, s.game) /\ Leads(game, s.game)
    BY SessionIs DEF After, SessionOK, IsSession
  <1>3. (IsGame(game))'
    BY <1>2 DEF IsGame, Game
  <1>4. ASSUME NEW q \in Player PROVE IsEntity(pl'[q]) /\ PlayerOK(pl'[q], game')
    <2>1. CASE q = p
      BY <1>1, <1>2, <2>1
    <2>2. CASE q # p
      <3>1. IsEntity(pl[q]) /\ PlayerOK(pl[q], game)
        BY SessionIs
      <3>2. pl'[q] = pl[q]
        BY <1>1, <2>2
      <3> QED BY <1>2, <3>1, <3>2 DEF PlayerOK, Leads
    <2> QED BY <2>1, <2>2
  <1> QED BY <1>1, <1>3, <1>4, Together

LEMMA ReturnOK ==
  ASSUME IInv, NEW p \in Player, NEW s, After(Session(p), s), Return(p, s)
  PROVE  IInv'
  BY OthersStay DEF Return, IInv, TypeOK

LEMMA PreThinkOK ==
  ASSUME IInv, NEW p \in Player, NEW buttons, NEW done, NEW busy \in BOOLEAN,
         PreThink(p, buttons, done, busy)
  PROVE  IInv'
  <1> DEFINE s == Session(p)
             thought == PlayerThink(s, buttons, busy)
             updated == UpdateClientData(thought, busy)
             died == PlayerDeathThink(updated, buttons = "up", done, busy)
             end == IF updated.me.deadflag = "NO" THEN updated ELSE died
  <1>1. SessionOK(s)
    BY SessionIs
  <1>2. Return(p, end)
    BY DEF PreThink
  <1> HIDE DEF s
  <1>3. After(s, thought)
    BY <1>1, PlayerThinkOK
  <1> HIDE DEF thought
  <1>4. After(s, updated)
    BY <1>3, UpdateOK, AfterAfter DEF After
  <1> HIDE DEF updated
  <1>5. After(s, died)
    BY <1>4, DeathThinkOK, AfterAfter DEF After
  <1> HIDE DEF died
  <1>6. After(s, end)
    BY <1>4, <1>5
  <1> QED BY <1>2, <1>6, ReturnOK DEF s

LEMMA KilledOK ==
  ASSUME IInv, NEW p \in Player, Killed(p)
  PROVE  IInv'
  <1> DEFINE me == [pl[p] EXCEPT !.deadflag = "DYING", !.alive = FALSE]
             s == [Session(p) EXCEPT !.me = me]
  <1>1. /\ SessionOK(Session(p)) /\ Session(p).game = game
        /\ IsEntity(pl[p]) /\ PlayerOK(pl[p], game)
    BY SessionIs
  <1>2. IsEntity(me) /\ me.iState = pl[p].iState /\ me.spectator = pl[p].spectator
        /\ me.pState = pl[p].pState
    BY <1>1 DEF IsEntity, Entity
  <1>3. pl' = [pl EXCEPT ![p] = me] /\ game' = game /\ conn' = conn /\ cast' = cast
    BY DEF Killed
  <1> HIDE DEF me
  <1>4. PlayerOK(me, game)
    BY <1>1, <1>2 DEF PlayerOK
  <1>5. After(Session(p), s) /\ s.me = me /\ s.game = game
    BY <1>1, <1>2, <1>4, AfterPlayer DEF Session
  <1> HIDE DEF s
  <1> QED BY <1>3, <1>5, OthersStay DEF IInv, TypeOK

\* Everybody who is asked is what the invariants say, and so are the others.
LEMMA BroadcastOK ==
  ASSUME IInv, NEW banned, GGM_BroadcastVote(banned)
  PROVE  IInv'
  <1> DEFINE me(p) == IF pl[p].iState = "SPAWNED" /\ p \notin banned
                        THEN GGM_SendVote(pl[p]) ELSE pl[p]
  <1>1. pl' = [p \in Player |-> me(p)] /\ game' = game /\ conn' = conn /\ cast' = cast
    BY DEF GGM_BroadcastVote
  <1>2. ASSUME NEW p \in Player PROVE IsEntity(me(p)) /\ PlayerOK(me(p), game)
    <2> DEFINE s == [Session(p) EXCEPT !.me = ShowMenu(@, VoteMenu, TRUE)]
    <2>1. /\ SessionOK(Session(p)) /\ Session(p).me = pl[p] /\ Session(p).game = game
          /\ IsEntity(pl[p]) /\ PlayerOK(pl[p], game)
      BY SessionIs
    <2>2. After(Session(p), s)
      BY <2>1, AfterMenu, MenusOK
    <2>3. s.me = GGM_SendVote(pl[p]) /\ s.game = game
      BY <2>1 DEF Session, GGM_SendVote
    <2> HIDE DEF s
    <2>4. IsEntity(GGM_SendVote(pl[p])) /\ PlayerOK(GGM_SendVote(pl[p]), game)
      BY <2>2, <2>3 DEF After, SessionOK, IsSession
    <2> QED BY <2>1, <2>4
  <1> HIDE DEF me
  <1>3. IsGame(game)
    BY DEF IInv, TypeOK, CheckpointsInOrder, IsGame, ListOK
  <1>4. (IsGame(game))'
    BY <1>1, <1>3 DEF IsGame, Game
  <1> QED BY <1>1, <1>2, <1>4, Together DEF IInv, TypeOK

LEMMA AskBackOK ==
  ASSUME IInv, NEW p \in Player, AskBack(p)
  PROVE  IInv'
  <1> DEFINE me == ShowMenu(pl[p], BackMenu, FALSE)
             s == [Session(p) EXCEPT !.me = ShowMenu(@, BackMenu, FALSE)]
  <1>1. SessionOK(Session(p)) /\ Session(p).me = pl[p] /\ Session(p).game = game
    BY SessionIs
  <1>2. After(Session(p), s)
    BY <1>1, AfterMenu, MenusOK
  <1>3. s.me = me /\ s.game = game
    BY <1>1 DEF Session
  <1>4. pl' = [pl EXCEPT ![p] = me] /\ game' = game /\ conn' = conn /\ cast' = cast
    BY DEF AskBack
  <1> HIDE DEF me, s
  <1> QED BY <1>2, <1>3, <1>4, OthersStay DEF IInv, TypeOK

LEMMA CommandOK ==
  ASSUME IInv, NEW p \in Player, NEW c, NEW asked \in BOOLEAN, NEW busy \in BOOLEAN,
         ClientCommand(p, c, asked, busy)
  PROVE  IInv'
  <1>1. SessionOK(Session(p)) /\ cast \in Casts
    BY SessionIs DEF IInv, TypeOK
  <1>2. After(Session(p), Run(Session(p), c, asked, busy))
    BY <1>1, RunOK
  <1>3. Return(p, Run(Session(p), c, asked, busy))
    BY DEF ClientCommand
  <1> QED BY <1>2, <1>3, ReturnOK

LEMMA SelectOK ==
  ASSUME IInv, NEW p \in Player, NEW i, NEW asked \in BOOLEAN, NEW busy \in BOOLEAN,
         MenuSelect(p, i, asked, busy)
  PROVE  IInv'
  <1>1. SessionOK(Session(p)) /\ cast \in Casts
    BY SessionIs DEF IInv, TypeOK
  <1>2. After(Session(p), Selected(Session(p), i, asked, busy))
    BY <1>1, SelectedOK
  <1>3. Return(p, Selected(Session(p), i, asked, busy))
    BY DEF MenuSelect
  <1> QED BY <1>2, <1>3, ReturnOK

\* The entities a player begins with.
LEMMA FreshOK ==
  /\ IsEntity(Alloc) /\ IsEntity(NoEntity)
  /\ NoEntity.iState = "NONE" /\ Alloc.iState = "UNINITIALIZED" /\ ~NoEntity.spectator
  /\ \A g : PlayerOK(Alloc, g) /\ PlayerOK(NoEntity, g)
  <1>1. NoMenu \in Menu /\ Len(NoMenu.items) <= MenuPlaces
    BY DEF NoMenu, Menu, MenuPlaces
  <1>2. IsEntity(Alloc) /\ Alloc.iState = "UNINITIALIZED" /\ ~Alloc.spectator
    BY <1>1 DEF Alloc, IsEntity, Entity, PlayerState
  <1>3. IsEntity(NoEntity) /\ NoEntity.iState = "NONE" /\ ~NoEntity.spectator
    BY <1>2 DEF NoEntity, IsEntity, Entity, PlayerState
  <1> QED BY <1>2, <1>3 DEF PlayerOK

\* A player who is neither in the game nor watching is what the invariants say, whatever the game.
LEMMA WaitingOK ==
  ASSUME NEW me, me.iState \in {"NONE", "UNINITIALIZED", "LOAD_FIX"}, NEW g
  PROVE  PlayerOK(me, g)
  BY DEF PlayerOK

\* The entity of a player who is made a spectator and has yet to be put in the server.
LEMMA PutOutOK ==
  ASSUME NEW me, IsEntity(me), NEW i \in {"UNINITIALIZED", "LOAD_FIX"}, NEW record \in BOOLEAN
  PROVE  /\ IsEntity(UTIL_BecomeSpectator([me EXCEPT !.iState = i, !.pState = record]))
         /\ UTIL_BecomeSpectator([me EXCEPT !.iState = i, !.pState = record]).iState = i
  <1> DEFINE out == [me EXCEPT !.iState = i, !.pState = record]
  <1>1. IsEntity(out) /\ out.iState = i
    BY DEF IsEntity, Entity, PlayerState
  <1> HIDE DEF out
  <1> DEFINE after == UTIL_BecomeSpectator(out)
  <1>2. IsEntity(after) /\ after.iState = i
    BY <1>1, BecomeSpectatorOK
  <1> HIDE DEF after
  <1> QED BY <1>2 DEF after, out

\* Only the player changes, and is neither in the game nor watching.
LEMMA OnePlayer ==
  ASSUME IInv, NEW p \in Player, NEW me, IsEntity(me),
         me.iState \in {"NONE", "UNINITIALIZED", "LOAD_FIX"},
         pl' = [pl EXCEPT ![p] = me], game' = game, cast' = cast,
         conn' \in [Player -> {"free", "connected", "active"}]
  PROVE  IInv'
  <1>1. SessionOK(Session(p)) /\ Session(p).game = game
    BY SessionIs
  <1>2. PlayerOK(me, game)
    BY WaitingOK
  <1> DEFINE s == [Session(p) EXCEPT !.me = me]
  <1>3. After(Session(p), s) /\ s.me = me /\ s.game = game
    BY <1>1, <1>2, AfterPlayer DEF Session
  <1> HIDE DEF s
  <1> QED BY <1>3, OthersStay

LEMMA ConnectOK ==
  ASSUME IInv, NEW p \in Player, ClientConnect(p)
  PROVE  IInv'
  <1> DEFINE out == [pl[p] EXCEPT !.iState = "UNINITIALIZED"]
             me == UTIL_BecomeSpectator(out)
  <1>1. conn \in [Player -> {"free", "connected", "active"}] /\ pl \in [Player -> Entity]
    BY DEF IInv, TypeOK
  <1>2. IsEntity(pl[p])
    BY SessionIs
  <1>3. IsEntity(out) /\ out.iState = "UNINITIALIZED"
    BY <1>2 DEF IsEntity, Entity, PlayerState
  <1>4. /\ conn' \in [Player -> {"free", "connected", "active"}] /\ game' = game /\ cast' = cast
        /\ pl' = IF ~HasEntity(p) \/ pl[p].iState = "LOAD_FIX" THEN pl ELSE [pl EXCEPT ![p] = me]
    BY <1>1 DEF ClientConnect
  <1> HIDE DEF out
  <1>5. IsEntity(me) /\ me.iState = "UNINITIALIZED"
    BY <1>3, BecomeSpectatorOK
  <1> HIDE DEF me
  <1>6. CASE pl' = [pl EXCEPT ![p] = me]
    BY <1>4, <1>5, <1>6, OnePlayer
  <1>7. CASE pl' = pl /\ pl[p].iState \in {"NONE", "LOAD_FIX"}
    <2>1. pl' = [pl EXCEPT ![p] = pl[p]]
      BY <1>1, <1>7
    <2> QED BY <1>2, <1>4, <1>7, <2>1, OnePlayer
  <1> QED BY <1>4, <1>6, <1>7 DEF HasEntity

LEMMA EnterOK ==
  ASSUME IInv, NEW p \in Player, NEW busy \in BOOLEAN, EnterServer(p, busy)
  PROVE  IInv'
  <1> DEFINE s == Session(p)
             alloc == IF HasEntity(p) THEN s ELSE [s EXCEPT !.me = Alloc]
             put == ClientPutInServer(alloc, busy)
  <1>1. SessionOK(s)
    BY SessionIs
  <1>2. /\ pl' = [pl EXCEPT ![p] = put.me] /\ game' = put.game /\ cast' = cast
        /\ conn' \in [Player -> {"free", "connected", "active"}]
    BY DEF EnterServer, IInv, TypeOK
  <1> HIDE DEF s
  <1>3. After(s, alloc)
    BY <1>1, AfterNothing, AfterPlayer, FreshOK
  <1> HIDE DEF alloc
  <1>4. After(alloc, put)
    BY <1>3, ClientPutInServerOK DEF After, SessionOK
  <1> HIDE DEF put
  <1>5. After(s, put)
    BY <1>3, <1>4, AfterAfter
  <1> QED BY <1>2, <1>5, OthersStay DEF s

LEMMA DisconnectOK ==
  ASSUME IInv, NEW p \in Player, NEW keep, ClientDisconnect(p, keep)
  PROVE  IInv'
  <1> DEFINE out == [pl[p] EXCEPT !.iState = "UNINITIALIZED"]
             me == IF HasEntity(p) /\ keep THEN out ELSE NoEntity
  <1>1. IsEntity(pl[p])
    BY SessionIs
  <1>2. IsEntity(out) /\ out.iState = "UNINITIALIZED"
    BY <1>1 DEF IsEntity, Entity, PlayerState
  <1>3. /\ pl' = [pl EXCEPT ![p] = me] /\ game' = game /\ cast' = cast
        /\ conn' \in [Player -> {"free", "connected", "active"}]
    BY DEF ClientDisconnect, IInv, TypeOK
  <1> HIDE DEF out
  <1>4. IsEntity(me) /\ me.iState \in {"NONE", "UNINITIALIZED", "LOAD_FIX"}
    BY <1>2, FreshOK
  <1> HIDE DEF me
  <1> QED BY <1>3, <1>4, OnePlayer

LEMMA RenameOK ==
  ASSUME IInv, NEW p \in Player, NEW busy \in BOOLEAN, ClientUserInfoChanged(p, busy)
  PROVE  IInv'
  <1> DEFINE me == [pl[p] EXCEPT !.pState = ~busy, !.iState = "UNINITIALIZED"]
  <1>1. IsEntity(pl[p])
    BY SessionIs
  <1>2. IsEntity(me) /\ me.iState = "UNINITIALIZED"
    BY <1>1 DEF IsEntity, Entity, PlayerState
  <1>3. pl' = [pl EXCEPT ![p] = me] /\ game' = game /\ conn' = conn /\ cast' = cast
    BY DEF ClientUserInfoChanged
  <1> HIDE DEF me
  <1> QED BY <1>2, <1>3, OnePlayer DEF IInv, TypeOK
-----------------------------------------------------------------------------
(* Levels. *)

\* On the way to another level nobody is in the game.
LEMMA ChangeOK ==
  ASSUME IInv, ChangeLevelNow
  PROVE  IInv'
  <1> DEFINE out(p) == UTIL_BecomeSpectator([pl[p] EXCEPT !.iState = "UNINITIALIZED", !.pState = FALSE])
             me(p) == IF ~HasEntity(p) THEN NoEntity ELSE out(p)
  <1>1. ASSUME NEW p \in Player PROVE IsEntity(me(p)) /\ PlayerOK(me(p), game')
    <2>1. IsEntity(out(p)) /\ out(p).iState = "UNINITIALIZED"
      BY SessionIs, PutOutOK
    <2> HIDE DEF out
    <2>2. PlayerOK(out(p), game')
      BY <2>1, WaitingOK
    <2> QED BY <2>1, <2>2, FreshOK
  <1>2. pl' = [p \in Player |-> me(p)] /\ conn' = conn /\ cast' = cast
        /\ game' = [game EXCEPT !.level = "changing", !.g_fPause = TRUE]
    BY DEF ChangeLevelNow
  <1> HIDE DEF me
  <1>3. (IsGame(game))'
    BY <1>2 DEF IInv, TypeOK, CheckpointsInOrder, IsGame, ListOK, Game
  <1> QED BY <1>1, <1>2, <1>3, Together DEF IInv, TypeOK

\* Records may be taken away from players who stay while a load is under way: who is in the game
\* has a body.
LEMMA LoadingOK ==
  ASSUME IInv, conn' = conn, cast' = cast, pl' = pl \/ pl' = GGM_ClearLists,
         (IsGame(game))', game'.fLoading
  PROVE  IInv'
  <1>1. pl \in [Player -> Entity]
    BY DEF IInv, TypeOK
  <1>2. ASSUME NEW p \in Player PROVE IsEntity(pl'[p]) /\ PlayerOK(pl'[p], game')
    <2>1. IsEntity(pl[p]) /\ PlayerOK(pl[p], game)
      BY SessionIs
    <2>2. CASE pl' = pl
      BY <2>1, <2>2 DEF PlayerOK
    <2>3. CASE pl' = GGM_ClearLists
      <3> DEFINE me == [pl[p] EXCEPT !.pState = FALSE]
      <3>1. pl'[p] = me
        BY <2>3 DEF GGM_ClearLists
      <3>2. IsEntity(me) /\ me.iState = pl[p].iState /\ me.spectator = pl[p].spectator
        BY <2>1 DEF IsEntity, Entity
      <3> HIDE DEF me
      <3> QED BY <2>1, <3>1, <3>2 DEF PlayerOK
    <2> QED BY <2>2, <2>3
  <1>3. pl' = [p \in Player |-> pl'[p]]
    BY <1>1 DEF GGM_ClearLists
  <1> QED BY <1>2, <1>3, Together DEF IInv, TypeOK

LEMMA LoadOK ==
  ASSUME IInv, GGM_Load
  PROVE  IInv'
  <1>1. IsGame(game) /\ cast \in Casts
    BY DEF IInv, TypeOK, CheckpointsInOrder, IsGame, ListOK
  <1>2. cast.mp_coop_pause \in BOOLEAN
    BY <1>1, PlayerAssumption
  <1>3. (IsGame(game))' /\ game'.fLoading
    BY <1>1, <1>2 DEF GGM_Load, IsGame, Game
  <1> QED BY <1>3, LoadingOK DEF GGM_Load

LEMMA LoadFailsOK ==
  ASSUME IInv, LoadFails
  PROVE  IInv'
  <1>1. IsGame(game) /\ cast \in Casts
    BY DEF IInv, TypeOK, CheckpointsInOrder, IsGame, ListOK
  <1>2. cast.mp_coop_pause \in BOOLEAN
    BY <1>1, PlayerAssumption
  <1>3. (IsGame(game))' /\ game'.fLoading
    BY <1>1, <1>2 DEF LoadFails, IsGame, Game
  <1> QED BY <1>3, LoadingOK DEF LoadFails

LEMMA MapCheckpointsOK ==
  ASSUME cast \in Casts, IsGame(game), NEW fSaved \in BOOLEAN, NEW list \in MapCheckpoints(fSaved)
  PROVE  list \in [1..Places -> 0..cast.checkpoints] /\ ListOK(list)
  <1>1. PICK from \in {NoCheckpoints, game.rgCheckpoints} :
             list = IF fSaved /\ ~game.fLoading /\ Room(from)
                      THEN PushCheckpoint(from, from[1] + 1) ELSE from
    BY DEF MapCheckpoints
  <1>2. cast.checkpoints \in Nat
    BY PlayerAssumption
  <1>3. from \in [1..Places -> 0..cast.checkpoints] /\ ListOK(from)
    BY <1>2 DEF NoCheckpoints, ListOK, Places, IsGame, Game
  <1> QED BY <1>1, <1>3, PushCheckpointOK

\* On a new level everybody waits.
LEMMA ActivateOK ==
  ASSUME IInv, NEW keep, NEW fSaved \in BOOLEAN, COOP_ServerActivate(keep, fSaved)
  PROVE  IInv'
  <1> DEFINE i == IF game.fLoading THEN "LOAD_FIX" ELSE "UNINITIALIZED"
             out(p) == UTIL_BecomeSpectator([Restored(p) EXCEPT !.pState = FALSE, !.iState = i])
             me(p) == IF ~keep \/ ~HasEntity(p) THEN NoEntity ELSE out(p)
  <1>1. ASSUME NEW p \in Player PROVE IsEntity(me(p)) /\ PlayerOK(me(p), game')
    <2> DEFINE before == Restored(p)
    <2>1. IsEntity(before)
      BY SessionIs, FreshOK DEF Restored
    <2> HIDE DEF before
    <2>2. [before EXCEPT !.pState = FALSE, !.iState = i] = [before EXCEPT !.iState = i, !.pState = FALSE]
      BY <2>1 DEF IsEntity, Entity
    <2>3. i \in {"UNINITIALIZED", "LOAD_FIX"}
      OBVIOUS
    <2> HIDE DEF i
    <2>4. IsEntity(out(p)) /\ out(p).iState = i
      <3> DEFINE after == UTIL_BecomeSpectator([before EXCEPT !.iState = i, !.pState = FALSE])
      <3>1. IsEntity(after) /\ after.iState = i
        BY <2>1, <2>3, PutOutOK
      <3>2. after = out(p)
        BY <2>2 DEF before
      <3> QED BY <3>1, <3>2
    <2> HIDE DEF out
    <2>5. PlayerOK(out(p), game')
      BY <2>3, <2>4, WaitingOK
    <2> QED BY <2>4, <2>5, FreshOK
  <1>2. pl' = [p \in Player |-> me(p)] /\ cast' = cast
        /\ conn' = [p \in Player |-> IF conn[p] = "free" THEN "free" ELSE "connected"]
    BY DEF COOP_ServerActivate
  <1>3. PICK list \in MapCheckpoints(fSaved) :
          game' = [game EXCEPT !.level = "run", !.fLoading = FALSE,
                               !.g_fPause = cast.mp_coop_pause, !.rgCheckpoints = list]
    BY DEF COOP_ServerActivate
  <1> HIDE DEF me
  <1>4. IsGame(game) /\ cast \in Casts
    BY DEF IInv, TypeOK, CheckpointsInOrder, IsGame, ListOK
  <1>5. cast.mp_coop_pause \in BOOLEAN
    BY <1>4, PlayerAssumption
  <1>6. list \in [1..Places -> 0..cast.checkpoints] /\ ListOK(list)
    BY <1>4, MapCheckpointsOK
  <1>7. (IsGame(game))'
    BY <1>2, <1>3, <1>4, <1>5, <1>6 DEF IsGame, Game
  <1> QED BY <1>1, <1>2, <1>4, <1>7, Together
-----------------------------------------------------------------------------
(* The inductive invariant. *)

LEMMA InitIInv == Init => IInv
  <1> SUFFICES ASSUME Init PROVE IInv
    OBVIOUS
  <1>1. cast \in Casts /\ cast.checkpoints \in Nat /\ cast.mp_coop_pause \in BOOLEAN
    BY PlayerAssumption DEF Init
  <1>2. NoCheckpoints \in [1..Places -> 0..cast.checkpoints] /\ ListOK(NoCheckpoints)
    BY <1>1 DEF NoCheckpoints, ListOK, Places
  <1>3. IsGame(game) /\ game.rgCheckpoints = NoCheckpoints
    BY <1>1, <1>2 DEF Init, IsGame, Game
  <1>4. NoEntity \in Entity /\ Len(NoEntity.menu.items) <= MenuPlaces /\ NoEntity.iState = "NONE"
    BY FreshOK DEF IsEntity
  <1>5. pl = [p \in Player |-> NoEntity]
    BY DEF Init
  <1>6. TypeOK
    BY <1>1, <1>3, <1>4, <1>5 DEF Init, TypeOK, IsGame
  <1>7. SpectatorAgrees /\ NoPlayWithoutRecord /\ PauseMeansEmpty
    BY <1>4, <1>5 DEF SpectatorAgrees, NoPlayWithoutRecord, PauseMeansEmpty
  <1>8. CheckpointsInOrder
    BY <1>3 DEF CheckpointsInOrder, IsGame, ListOK
  <1> QED BY <1>6, <1>7, <1>8 DEF IInv

LEMMA FoundIs ==
  ASSUME NEW p
  PROVE  Found(p) \subseteq BOOLEAN /\ Asked \subseteq BOOLEAN
  BY DEF Found, Asked

LEMMA StepIInv == IInv /\ [Next]_pvars => IInv'
  <1> SUFFICES ASSUME IInv, [Next]_pvars PROVE IInv'
    OBVIOUS
  <1>1. ASSUME NEW p \in Player, Callback(p) PROVE IInv'
    <2>1. ASSUME NEW busy \in Found(p), NEW buttons, NEW done, PreThink(p, buttons, done, busy)
          PROVE  IInv'
      BY <2>1, PreThinkOK, FoundIs
    <2>2. ASSUME NEW busy \in Found(p), NEW c, NEW asked \in Asked, ClientCommand(p, c, asked, busy)
          PROVE  IInv'
      BY <2>2, CommandOK, FoundIs
    <2>3. ASSUME NEW busy \in Found(p), NEW i, NEW asked \in Asked, MenuSelect(p, i, asked, busy)
          PROVE  IInv'
      BY <2>3, SelectOK, FoundIs
    <2>4. ASSUME NEW busy \in Found(p), EnterServer(p, busy) PROVE IInv'
      BY <2>4, EnterOK, FoundIs
    <2>5. ASSUME NEW busy \in Found(p), ClientUserInfoChanged(p, busy) PROVE IInv'
      BY <2>5, RenameOK, FoundIs
    <2>6. CASE Killed(p)
      BY <2>6, KilledOK
    <2>7. CASE AskBack(p)
      BY <2>7, AskBackOK
    <2>8. CASE ClientConnect(p)
      BY <2>8, ConnectOK
    <2>9. ASSUME NEW keep, ClientDisconnect(p, keep) PROVE IInv'
      BY <2>9, DisconnectOK
    <2> QED BY <1>1, <2>1, <2>2, <2>3, <2>4, <2>5, <2>6, <2>7, <2>8, <2>9 DEF Callback
  <1>2. CASE ChangeLevelNow
    BY <1>2, ChangeOK
  <1>3. CASE GGM_Load
    BY <1>3, LoadOK
  <1>4. CASE LoadFails
    BY <1>4, LoadFailsOK
  <1>5. ASSUME NEW keep, NEW fSaved \in BOOLEAN, COOP_ServerActivate(keep, fSaved) PROVE IInv'
    BY <1>5, ActivateOK
  <1>6. ASSUME NEW banned, GGM_BroadcastVote(banned) PROVE IInv'
    BY <1>6, BroadcastOK
  <1>7. CASE UNCHANGED pvars
    <2>1. TypeOK' /\ CheckpointsInOrder'
      BY <1>7 DEF pvars, IInv, TypeOK, Game, CheckpointsInOrder
    <2>2. SpectatorAgrees' /\ NoPlayWithoutRecord' /\ PauseMeansEmpty'
      BY <1>7 DEF pvars, IInv, SpectatorAgrees, NoPlayWithoutRecord, PauseMeansEmpty
    <2> QED BY <2>1, <2>2 DEF IInv
  <1> QED BY <1>1, <1>2, <1>3, <1>4, <1>5, <1>6, <1>7 DEF Next

\* In every game whatever the step and whoever takes it, all five hold.
THEOREM IInvAlways == Spec => []IInv
  BY InitIInv, StepIInv, PTL DEF Spec

\* Every variable keeps its type, and no menu has more items than places.
THEOREM TypeCorrect == Spec => []TypeOK
  <1>1. IInv => TypeOK
    BY DEF IInv
  <1> QED BY <1>1, IInvAlways, PTL

\* Whoever is in the game has a body, and whoever watches has none (UTIL_BecomeSpectator,
\* GGM_PlayerSpawn, CBasePlayer::Spawn).
THEOREM SpectatorAlwaysAgrees == Spec => []SpectatorAgrees
  <1>1. IInv => SpectatorAgrees
    BY DEF IInv
  <1> QED BY <1>1, IInvAlways, PTL

\* Unless a load failed, nobody is in the game without a record (GGM_PlayerSpawn, GGM_ClearLists,
\* GGM_ChangeClientInfo).
THEOREM NobodyPlaysWithoutRecord == Spec => []NoPlayWithoutRecord
  <1>1. IInv => NoPlayWithoutRecord
    BY DEF IInv
  <1> QED BY <1>1, IInvAlways, PTL

\* Unless a load failed, the world does not stand still while somebody is in the game (g_fPause).
THEOREM PauseAlwaysMeansEmpty == Spec => []PauseMeansEmpty
  <1>1. IInv => PauseMeansEmpty
    BY DEF IInv
  <1> QED BY <1>1, IInvAlways, PTL

\* The newest checkpoint is first and the last place is empty, so that the loop of
\* COOP_CheckpointMenu ends inside rgCheckpoints.
THEOREM CheckpointsAlwaysInOrder == Spec => []CheckpointsInOrder
  <1>1. IInv => CheckpointsInOrder
    BY DEF IInv
  <1> QED BY <1>1, IInvAlways, PTL
-----------------------------------------------------------------------------
(* Joining. *)

\* Who asks to join while watching, on a closed menu, ends in the game or before the checkpoints;
\* with the vote menu shown, in the game or before the vote.
LEMMA Joined ==
  ASSUME NEW s, SessionOK(s), NEW busy \in BOOLEAN, s.me.m_pPlayer, s.me.pState, ~s.game.fLoading,
         s.me.iState \in {"SPECTATOR_BEGIN", "SPECTATOR"}
  PROVE  LET me == JoinCoop(s, busy).me IN
         /\ me.iState = "SPAWNED"
            \/ s.game.rgCheckpoints[1] # 0
         /\ s.game.rgCheckpoints[1] # 0 /\ ~s.me.menu.m_fShow =>
              me.menu.m_fShow /\ LoadCmd(0) \in Range(me.menu.items)
         /\ s.game.rgCheckpoints[1] # 0 /\ s.me.menu.m_fShow => me.menu = s.me.menu
  <1>1. CASE s.game.rgCheckpoints[1] # 0
    <2>1. JoinCoop(s, busy) = COOP_CheckpointMenu(s)
      BY <1>1 DEF JoinCoop
    <2>2. CASE s.me.menu.m_fShow
      BY <1>1, <2>1, <2>2, CheckpointMenuKept
    <2>3. CASE ~s.me.menu.m_fShow
      BY <1>1, <2>1, <2>3, CheckpointMenuShows
    <2> QED BY <1>1, <2>2, <2>3
  <1>2. CASE ~(s.game.rgCheckpoints[1] # 0)
    <2>1. JoinCoop(s, busy) = UTIL_SpawnPlayer(s, busy)
      BY <1>2 DEF JoinCoop
    <2>2. UTIL_SpawnPlayer(s, busy).me.iState = "SPAWNED"
      BY SpawnPlayerOK
    <2> QED BY <1>2, <2>1, <2>2
  <1> QED BY <1>1, <1>2

\* Who selects "Join coop" while watching ends in the game, before the checkpoints or, where a vote
\* is being started and there are checkpoints, before the vote: the menu is closed first and its
\* items stay (GGM_PlayerMenu::MenuSelect, GGM_VoteProcess, COOP_ClientCommand).
LEMMA JoinSelected ==
  ASSUME IInv, NEW p \in Player, NEW i \in 1..5, NEW asked \in BOOLEAN, NEW busy \in BOOLEAN,
         i <= Len(pl[p].menu.items), pl[p].menu.items[i] = Cmd("joincoop"),
         pl[p].iState \in {"SPECTATOR_BEGIN", "SPECTATOR"}, pl[p].pState, ~game.fLoading,
         MenuSelect(p, i, asked, busy)
  PROVE  \/ pl'[p].iState = "SPAWNED"
         \/ pl'[p].menu.m_fShow /\ LoadCmd(0) \in Range(pl'[p].menu.items)
         \/ /\ asked /\ game.rgCheckpoints[1] # 0
            /\ pl'[p].menu.m_fShow /\ pl'[p].menu.items = VoteMenu
  <1> DEFINE s == Session(p)
             me == [s.me EXCEPT !.menu = [s.me.menu EXCEPT !.m_fShow = FALSE]]
             closed == [s EXCEPT !.me.menu.m_fShow = FALSE]
             voted == GGM_VoteProcess(closed, asked)
             joined == JoinCoop(voted, busy)
  <1>1. SessionOK(s) /\ s.me = pl[p] /\ s.game = game /\ IsEntity(pl[p])
    BY SessionIs
  <1>2. pl \in [Player -> Entity]
    BY DEF IInv, TypeOK
  <1>3. pl[p].m_pPlayer /\ Return(p, Selected(s, i, asked, busy))
    BY DEF MenuSelect
  <1>4. i \in Nat /\ Len(pl[p].menu.items) \in Nat
    BY <1>1 DEF IsEntity, Entity, Menu
  <1> HIDE DEF s
  <1>5. SessionOK(closed) /\ closed = [s EXCEPT !.me = me]
    BY <1>1, ClosedOK DEF After
  <1>6. /\ me.iState = s.me.iState /\ me.pState = s.me.pState /\ me.m_pPlayer = s.me.m_pPlayer
        /\ ~me.menu.m_fShow
    BY <1>1 DEF IsEntity, Entity, Menu
  <1> HIDE DEF me
  <1>7. closed.me = me /\ closed.game = s.game /\ IsEntity(me)
    BY <1>1, <1>5 DEF SessionOK, IsSession
  <1> HIDE DEF closed
  <1>8. Selected(s, i, asked, busy) = joined
    <2>1. ~(i > Len(s.me.menu.items)) /\ s.me.menu.items[i] = Cmd("joincoop")
      BY <1>1, <1>4
    <2>2. Selected(s, i, asked, busy) = Run(closed, Cmd("joincoop"), asked, busy)
      BY <2>1 DEF Selected, closed
    <2>3. Cmd("joincoop").cmd = "joincoop" /\ Cancel.cmd = ""
      BY DEF Cmd, Cancel
    <2>4. Cmd("joincoop") # Cancel
      BY <2>3
    <2> QED BY <2>2, <2>3, <2>4 DEF Run, COOP_ClientCommand
  <1>9. pl'[p] = joined.me
    BY <1>2, <1>3, <1>8 DEF Return
  <1>10. /\ SessionOK(voted) /\ voted.game = closed.game
         /\ voted.me = IF asked THEN GGM_SendVote(me) ELSE me
    <2>1. SessionOK(voted)
      BY <1>5, VoteProcessOK DEF After
    <2> QED BY <1>5, <1>7, <2>1 DEF GGM_VoteProcess, SessionOK, IsSession
  <1>11. /\ voted.me.iState = me.iState /\ voted.me.pState = me.pState
         /\ voted.me.m_pPlayer
         /\ asked => voted.me.menu.m_fShow /\ voted.me.menu.items = VoteMenu
         /\ ~asked => ~voted.me.menu.m_fShow
    <2>1. GGM_SendVote(me) = [me EXCEPT !.menu = GGM_SendVote(me).menu]
      BY <1>7, MenusOK, ShowMenuOK DEF GGM_SendVote
    <2>2. GGM_SendVote(me).m_pPlayer = me.m_pPlayer
      BY <1>7, <2>1 DEF IsEntity, Entity
    <2>3. me.m_pPlayer
      BY <1>1, <1>3, <1>6
    <2>4. CASE asked
      <3>1. voted.me = GGM_SendVote(me)
        BY <1>10, <2>4
      <3> QED BY <1>7, <2>2, <2>3, <2>4, <3>1, VoteShown
    <2>5. CASE ~asked
      <3>1. voted.me = me
        BY <1>10, <2>5
      <3> QED BY <1>6, <2>3, <2>5, <3>1
    <2> QED BY <2>4, <2>5
  <1> HIDE DEF voted
  <1>12. /\ joined.me.iState = "SPAWNED" \/ game.rgCheckpoints[1] # 0
         /\ game.rgCheckpoints[1] # 0 /\ ~voted.me.menu.m_fShow =>
              joined.me.menu.m_fShow /\ LoadCmd(0) \in Range(joined.me.menu.items)
         /\ game.rgCheckpoints[1] # 0 /\ voted.me.menu.m_fShow => joined.me.menu = voted.me.menu
    <2>1. voted.me.iState \in {"SPECTATOR_BEGIN", "SPECTATOR"} /\ voted.me.pState
      BY <1>1, <1>6, <1>11
    <2>2. voted.game = game
      BY <1>1, <1>7, <1>10
    <2> QED BY <1>10, <1>11, <2>1, <2>2, Joined
  <1> HIDE DEF joined
  <1> QED BY <1>9, <1>11, <1>12

\* The same of every step: the property JoinLeadsOn.
THEOREM JoiningLeadsOn == Spec => JoinLeadsOn
  <1>1. IInv /\ [Next]_pvars =>
          [\A p \in Player : \A i \in 1..5, asked \in Asked, busy \in Found(p) :
             /\ i <= Len(pl[p].menu.items) /\ pl[p].menu.items[i] = Cmd("joincoop")
             /\ pl[p].iState \in {"SPECTATOR_BEGIN", "SPECTATOR"}
             /\ pl[p].pState /\ ~game.fLoading
             /\ MenuSelect(p, i, asked, busy)
             => \/ pl'[p].iState = "SPAWNED"
                \/ pl'[p].menu.m_fShow /\ LoadCmd(0) \in Range(pl'[p].menu.items)
                \/ /\ asked /\ game.rgCheckpoints[1] # 0
                   /\ pl'[p].menu.m_fShow /\ pl'[p].menu.items = VoteMenu]_pvars
    BY JoinSelected, FoundIs
  <1> QED BY <1>1, IInvAlways, PTL DEF Spec, JoinLeadsOn
=============================================================================

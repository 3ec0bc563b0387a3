---------------------------- MODULE GGMRegistry ----------------------------
(***************************************************************************)
(* Who is who: the state records of dlls/gravgunmod.cpp, the accounts      *)
(* players register, the logins that tie a player and a nickname to an     *)
(* account, and the files that keep both.                                  *)
(*                                                                         *)
(* A player finds a record (GGM_GetState) by a login for its uid and its   *)
(* nickname, or by its uid among the anonymous ones.  A record is named by *)
(* the szUID it is stored under: an account's name in registered_list, a   *)
(* uid in anonymous_list.  A pointer to it is the name, and it dangles     *)
(* when the name is in neither list.  Every add to a list follows a failed *)
(* search for the name, so the two lists of records are functions.         *)
(*                                                                         *)
(* Of a record's data the ban flag is kept; health, weapons and position   *)
(* are saved and restored beside it and do not influence who uses it.      *)
(***************************************************************************)
EXTENDS Naturals, Sequences, SequencesExt

CONSTANTS
  Player,        \* client slots
  Uid,           \* what GGM_GetAuthID can return; players may share one
  Name,          \* nicknames
  BadName,       \* the nicknames whose new anonymous record is banned
  Account,       \* account names
  Password,
  NoState,       \* a NULL GGMPlayerState pointer
  NoFile,        \* a file that does not exist
  NoUid, NoName, \* of a slot that is not in use
  EngineKeeps,   \* may a leaver's entity be kept (TRUE) or freed (FALSE)?
  AuthPending,   \* a player's auth id may arrive after it has connected
  OtherServers,  \* other servers share the ggm directory
  SavedGames,    \* ggm_save and ggm_load are used
  MaxLogins      \* bound: no login is added to a list that is this long

ASSUME RegistryAssumption ==
  /\ NoState \notin Account \cup Uid /\ Account \cap Uid = {}
  /\ NoFile \notin Account \cup Password
  /\ NoUid \notin Uid /\ NoName \notin Name /\ BadName \subseteq Name
  /\ EngineKeeps \subseteq BOOLEAN /\ AuthPending \in BOOLEAN
  /\ OtherServers \in BOOLEAN /\ SavedGames \in BOOLEAN
  /\ MaxLogins \in Nat

VARIABLES
  iState,      \* per player: m_ggm.iState, "OFF" when nobody is connected
  pState,      \* per player: m_ggm.pState
  uid, name,   \* per player: the auth id and the nickname, from the engine
  lists,       \* registered_list, anonymous_list and login_list
  regFile,     \* ggm/registrations/<account>: the password in it
  loginFile,   \* ggm/logins/<uid>.<name>: the account in it
  saved,       \* the .players file of a saved game
  trusted      \* history: the pairs of a uid and an account such that the
               \* account's password was given from that uid: the player's
               \* own, that of the record it registered, and the one that
               \* arrives late for a player who is using the account

players == <<iState, pState, uid, name>>
files == <<regFile, loginFile, saved>>
vars == <<players, lists, files, trusted>>
-----------------------------------------------------------------------------
\* "SPECTATOR" is STATE_CONNECTED, STATE_SPECTATOR_BEGIN or STATE_SPECTATOR:
\* connected, resolved and not in the game.
PlayerState == {"OFF", "UNINITIALIZED", "SPECTATOR", "SPAWNED", "LOAD_FIX"}

\* What is kept of a record of registered_list.
Registration == [szPassword : Password, fIsTempBanned : BOOLEAN]

GGMLogin == [szUID : Uid, szName : Name, pState : Account \cup {NoState}]

NoLists == [registered |-> <<>>, anonymous |-> <<>>, logins |-> <<>>]

\* Functions from some elements of S.
Partial(S, T) == UNION {[D -> T] : D \in SUBSET S}

Lists == [registered : Partial(Account, Registration),
          anonymous : Partial(Uid, BOOLEAN), logins : Seq(GGMLogin)]

SavedGame == [registered : Partial(Account, BOOLEAN),
              anonymous : Partial(Uid, BOOLEAN)]

TypeOK ==
  /\ iState \in [Player -> PlayerState]
  /\ pState \in [Player -> Account \cup Uid \cup {NoState}]
  /\ uid \in [Player -> Uid \cup {NoUid}]
  /\ name \in [Player -> Name \cup {NoName}]
  /\ \A p \in Player : iState[p] = "OFF" <=> uid[p] = NoUid
  /\ \A p \in Player : iState[p] = "OFF" <=> name[p] = NoName
  /\ lists \in Lists
  /\ regFile \in [Account -> Password \cup {NoFile}]
  /\ loginFile \in [Uid \X Name -> Account \cup {NoFile}]
  /\ saved = NoFile \/ saved \in SavedGame
  /\ trusted \subseteq Uid \X Account

Init ==
  /\ iState = [p \in Player |-> "OFF"]
  /\ pState = [p \in Player |-> NoState]
  /\ uid = [p \in Player |-> NoUid]
  /\ name = [p \in Player |-> NoName]
  /\ lists = NoLists
  /\ regFile = [a \in Account |-> NoFile]
  /\ loginFile = [k \in Uid \X Name |-> NoFile]
  /\ saved = NoFile
  /\ trusted = {}
-----------------------------------------------------------------------------
(* Functions of the code that search and change the lists.  They take the  *)
(* lists as they stand (l) and return them with their answer (ret).        *)

Connected(p) == iState[p] # "OFF"
Registered(s) == s \in Account

\* f with x mapped to y, whether or not x was in its domain.
With(f, x, y) == [z \in DOMAIN f \cup {x} |-> IF z = x THEN y ELSE f[z]]
Without(f, x) == [z \in DOMAIN f \ {x} |-> f[z]]

\* GGM_ReadPersist: the file's content replaces the record's.
GGM_ReadPersist(l, s) ==
  IF s \in DOMAIN l.registered /\ regFile[s] # NoFile
  THEN [l EXCEPT !.registered[s].szPassword = regFile[s]]
  ELSE l

\* Mutant: a record that is in memory is taken as it is.
GetRegistrationCached(l, a) ==
  IF a \in DOMAIN l.registered THEN [ret |-> a, lists |-> l]
  ELSE IF regFile[a] = NoFile THEN [ret |-> NoState, lists |-> l]
  ELSE [ret |-> a, lists |->
          [l EXCEPT !.registered = With(@, a,
             [szPassword |-> regFile[a], fIsTempBanned |-> FALSE])]]

\* GGM_GetRegistration: the record of account a, from the list or the file.
GGM_GetRegistration(l, a) ==
  IF a \in DOMAIN l.registered
  THEN [ret |-> a, lists |-> GGM_ReadPersist(l, a)]
  ELSE IF regFile[a] = NoFile THEN [ret |-> NoState, lists |-> l]
  ELSE [ret |-> a, lists |->
          [l EXCEPT !.registered = With(@, a,
             [szPassword |-> regFile[a], fIsTempBanned |-> FALSE])]]

\* The logins of uid u and nickname n, by their places in the list.
Matches(l, u, n) ==
  {i \in DOMAIN l.logins : l.logins[i].szUID = u /\ l.logins[i].szName = n}

First(S) == CHOOSE i \in S : \A j \in S : i <= j

\* Mutant: a new login goes to the end of the list.
AddLoginLast(l, u, n, s) ==
  [l EXCEPT !.logins = @ \o <<[szUID |-> u, szName |-> n, pState |-> s]>>]

\* A new login goes to the head of the list.
AddLogin(l, u, n, s) ==
  [l EXCEPT !.logins = <<[szUID |-> u, szName |-> n, pState |-> s]>> \o @]

\* GGM_LoadLogin: is there a login, and whose account is it?
GGM_LoadLogin(l, u, n) ==
  IF Matches(l, u, n) # {}
  THEN [found |-> TRUE, ret |-> l.logins[First(Matches(l, u, n))].pState,
        lists |-> l]
  ELSE IF loginFile[<<u, n>>] = NoFile
  THEN [found |-> FALSE, ret |-> NoState, lists |-> l]
  ELSE LET r == GGM_GetRegistration(l, loginFile[<<u, n>>])
       IN [found |-> TRUE, ret |-> r.ret,
           lists |-> AddLogin(r.lists, u, n, r.ret)]

\* Mutant: a new anonymous record is made every time.
GetStateAfresh(l, u, n) ==
  LET login == GGM_LoadLogin(l, u, n)
      taken == \E i \in DOMAIN l.logins : l.logins[i].szName = n
  IN IF login.found THEN [ret |-> login.ret, lists |-> login.lists]
     ELSE IF taken THEN [ret |-> NoState, lists |-> l]
     ELSE [ret |-> u,
           lists |-> [l EXCEPT !.anonymous = With(@, u, n \in BadName)]]

\* GGM_GetState: the record for uid u under nickname n, if n is not taken.
GGM_GetState(l, u, n) ==
  LET login == GGM_LoadLogin(l, u, n)
      taken == \E i \in DOMAIN l.logins : l.logins[i].szName = n
  IN IF login.found THEN [ret |-> login.ret, lists |-> login.lists]
     ELSE IF taken THEN [ret |-> NoState, lists |-> l]
     ELSE IF u \in DOMAIN l.anonymous THEN [ret |-> u, lists |-> l]
     ELSE [ret |-> u,
           lists |-> [l EXCEPT !.anonymous = With(@, u, n \in BadName)]]

\* Mutant: only the caller forgets the record.
FreeStateOfOne(p, s) ==
  [pState |-> [pState EXCEPT ![p] = NoState],
   anonymous |-> Without(lists.anonymous, s)]

\* GGM_FreeState: every player that used anonymous record s loses it.
GGM_FreeState(p, s) ==
  [pState |-> [q \in Player |-> IF pState[q] = s THEN NoState ELSE pState[q]],
   anonymous |-> Without(lists.anonymous, s)]
-----------------------------------------------------------------------------
(* Connections. *)

NameFree(p, n) == \A q \in Player \ {p} : name[q] # n

\* Mutant: ClientUserInfoChanged leaves a registered player's record alone
\* in every state.
UserInfoKeepsAccount(p, u, n) ==
  LET s == GGM_GetState(lists, u, n)
  IN IF Registered(pState[p])
     THEN /\ iState' = [iState EXCEPT ![p] = IF @ = "OFF" THEN "UNINITIALIZED"
                                             ELSE @]
          /\ UNCHANGED <<pState, lists>>
     ELSE /\ lists' = s.lists
          /\ pState' = [pState EXCEPT ![p] = s.ret]
          /\ iState' = [iState EXCEPT ![p] = "UNINITIALIZED"]

\* ClientUserInfoChanged for a player with uid u who calls itself n: unless
\* it plays with an account, its record is looked up again, and a new record
\* sends it back to the beginning.
ResolveUserInfo(p, u, n) ==
  LET s == GGM_GetState(lists, u, n)
  IN IF Registered(pState[p]) /\ iState[p] = "SPAWNED"
     THEN UNCHANGED <<iState, pState, lists>>
     ELSE IF s.ret = pState[p]
     THEN /\ lists' = s.lists
          /\ iState' = [iState EXCEPT ![p] = IF @ = "OFF" THEN "UNINITIALIZED"
                                             ELSE @]
          /\ UNCHANGED pState
     ELSE IF iState[p] = "LOAD_FIX"
     THEN lists' = s.lists /\ UNCHANGED <<iState, pState>>
     ELSE /\ lists' = GGM_ReadPersist(s.lists, s.ret)
          /\ pState' = [pState EXCEPT ![p] = s.ret]
          /\ iState' = [iState EXCEPT ![p] = "UNINITIALIZED"]

\* A client connects.  If the engine kept the entity of the slot's last user
\* it still has that user's record, and ClientUserInfoChanged replaces it.
ClientConnect(p, u, n) ==
  /\ ~Connected(p) /\ NameFree(p, n)
  /\ uid' = [uid EXCEPT ![p] = u]
  /\ name' = [name EXCEPT ![p] = n]
  /\ \/ /\ pState[p] = NoState
        /\ iState' = [iState EXCEPT ![p] = "UNINITIALIZED"]
        /\ UNCHANGED <<pState, lists>>
     \/ /\ TRUE \in EngineKeeps
        /\ ResolveUserInfo(p, u, n)
  /\ UNCHANGED <<files, trusted>>

\* A connected player changes its userinfo, perhaps its nickname.
ClientUserInfoChanged(p, n) ==
  /\ Connected(p) /\ NameFree(p, n)
  /\ name' = [name EXCEPT ![p] = n]
  /\ ResolveUserInfo(p, uid[p], n)
  /\ UNCHANGED <<uid, files, trusted>>

\* GGM_ClientPutinServer and the first Spawn: the player gets its record and
\* becomes a spectator.  It does nothing to a player of a loaded game.
GGM_ClientPutinServer(p) ==
  /\ iState[p] = "UNINITIALIZED"
  /\ LET s == GGM_GetState(lists, uid[p], name[p])
     IN /\ pState' = [pState EXCEPT ![p] = s.ret]
        /\ lists' = GGM_ReadPersist(s.lists, s.ret)
  /\ iState' = [iState EXCEPT ![p] = "SPECTATOR"]
  /\ UNCHANGED <<uid, name, files, trusted>>

\* UTIL_SpawnPlayer puts a spectator who has a record into the game.
UTIL_SpawnPlayer(p) ==
  /\ iState[p] = "SPECTATOR" /\ pState[p] # NoState
  /\ iState' = [iState EXCEPT ![p] = "SPAWNED"]
  /\ lists' = GGM_ReadPersist(lists, pState[p])
  /\ UNCHANGED <<pState, uid, name, files, trusted>>

\* GGM_PlayerSpawn after a death: whoever has no record must watch.
Respawn(p) ==
  /\ iState[p] = "SPAWNED" /\ pState[p] = NoState
  /\ iState' = [iState EXCEPT ![p] = "SPECTATOR"]
  /\ UNCHANGED <<pState, uid, name, lists, files, trusted>>

\* "spectate" asks for no state.
Spectate(p) ==
  /\ Connected(p) /\ iState[p] # "SPECTATOR"
  /\ iState' = [iState EXCEPT ![p] = "SPECTATOR"]
  /\ UNCHANGED <<pState, uid, name, lists, files, trusted>>

\* Mutant: the state is not reset.
DisconnectLeavesState(p) ==
  /\ Connected(p)
  /\ uid' = [uid EXCEPT ![p] = NoUid]
  /\ name' = [name EXCEPT ![p] = NoName]
  /\ UNCHANGED <<iState, pState, lists, files, trusted>>

\* ClientDisconnect: the engine keeps the slot's entity, with the pointer to
\* the record in it, or frees it.
ClientDisconnect(p) ==
  /\ Connected(p)
  /\ iState' = [iState EXCEPT ![p] = "OFF"]
  /\ uid' = [uid EXCEPT ![p] = NoUid]
  /\ name' = [name EXCEPT ![p] = NoName]
  /\ \E keep \in EngineKeeps :
       pState' = IF keep THEN pState ELSE [pState EXCEPT ![p] = NoState]
  /\ UNCHANGED <<lists, files, trusted>>

\* The engine learns the player's auth id, where GGM_GetAuthID used its
\* address before.  What was proven on this connection stays proven.
AuthArrives(p, u) ==
  /\ AuthPending /\ Connected(p) /\ uid[p] # u
  /\ uid' = [uid EXCEPT ![p] = u]
  /\ trusted' = IF Registered(pState[p]) THEN trusted \cup {<<u, pState[p]>>}
                ELSE trusted
  /\ UNCHANGED <<iState, pState, name, lists, files>>
-----------------------------------------------------------------------------
(* Client commands. *)

\* Mutant: only the accounts in memory are busy.
NameBusyInMemory(a) == a \in DOMAIN lists.registered

\* GGM_CheckUserName( ..., true ): the account exists.
NameBusy(a) == GGM_GetRegistration(lists, a).ret # NoState

\* Mutant: the ban is not looked at.
AnyAnonymous(p) == pState[p] \in Uid

MayRegister(p) == pState[p] \in Uid /\ ~lists.anonymous[pState[p]]

\* "reg": the anonymous record of p becomes account a with password w, and p
\* is logged in under the uid of that record.  The search for the account
\* reads its file also when the name is busy.
GGM_Register(p, a, w) ==
  LET s == pState[p]
      new == [szPassword |-> w, fIsTempBanned |-> lists.anonymous[s]]
      free == GGM_FreeState(p, s)
  IN /\ Connected(p) /\ MayRegister(p)
     /\ IF NameBusy(a)
        THEN /\ lists' = GGM_GetRegistration(lists, a).lists
             /\ UNCHANGED <<pState, regFile, loginFile, trusted>>
        ELSE /\ lists' = AddLogin([lists EXCEPT !.registered = With(@, a, new),
                                                !.anonymous = free.anonymous],
                                  s, name[p], a)
             /\ regFile' = [regFile EXCEPT ![a] = w]
             /\ loginFile' = [loginFile EXCEPT ![<<s, name[p]>>] = a]
             /\ pState' = [free.pState EXCEPT ![p] = a]
             /\ trusted' = trusted \cup {<<s, a>>, <<uid[p], a>>}
     /\ UNCHANGED <<iState, uid, name, saved>>

\* A player without a record may not log in under a nickname that somebody
\* logged in with for another account.
OtherUser(p, s) ==
  LET same == {i \in DOMAIN lists.logins : lists.logins[i].szName = name[p]}
  IN pState[p] = NoState /\ same # {} /\ lists.logins[First(same)].pState # s

\* "login" by p to account a with password w.  The search for the account
\* reads its file even when the login fails.  Passwords are compared as
\* GGM_Munge leaves them: members of Password are munged passwords, and two
\* typed ones of which the code makes one (a byte that comes out as zero
\* becomes a 'b') are one member.
GGM_Login(p, a, w) ==
  LET r == GGM_GetRegistration(lists, a)
      s == pState[p]
      free == IF s = NoState THEN [pState |-> pState,
                                   anonymous |-> lists.anonymous]
              ELSE GGM_FreeState(p, s)
  IN /\ Connected(p) /\ ~Registered(s)
     /\ Len(lists.logins) < MaxLogins
     /\ IF OtherUser(p, r.ret) \/ r.ret = NoState
           \/ r.lists.registered[a].szPassword # w
        THEN lists' = r.lists /\ UNCHANGED <<pState, loginFile, trusted>>
        ELSE /\ lists' = AddLogin([r.lists EXCEPT !.anonymous = free.anonymous],
                                  uid[p], name[p], a)
             /\ loginFile' = [loginFile EXCEPT ![<<uid[p], name[p]>>] = a]
             /\ pState' = [free.pState EXCEPT ![p] = a]
             /\ trusted' = trusted \cup {<<uid[p], a>>}
     /\ UNCHANGED <<iState, uid, name, regFile, saved>>

\* "logout": the login of this nickname is unlinked, the player's record is
\* looked up again, and last the login's file is removed.
GGM_Logout(p) ==
  LET found == Matches(lists, uid[p], name[p])
      unlinked == IF found = {} THEN lists
                  ELSE [lists EXCEPT !.logins = RemoveAt(@, First(found))]
      s == GGM_GetState(unlinked, uid[p], name[p])
  IN /\ Connected(p)
     /\ pState' = [pState EXCEPT ![p] = s.ret]
     /\ lists' = GGM_ReadPersist(s.lists, s.ret)
     /\ loginFile' = [loginFile EXCEPT ![<<uid[p], name[p]>>] = NoFile]
     /\ UNCHANGED <<iState, uid, name, regFile, saved, trusted>>

\* "chpwd" by a player with an account.
GGM_ChangePassword(p, w) ==
  /\ Connected(p) /\ Registered(pState[p])
  /\ lists' = [lists EXCEPT !.registered[pState[p]].szPassword = w]
  /\ regFile' = [regFile EXCEPT ![pState[p]] = w]
  /\ UNCHANGED <<players, loginFile, saved, trusted>>

\* "qload", and what else restores a player's data: the file is read again.
GGM_RestoreState(p) ==
  /\ Connected(p)
  /\ lists' = GGM_ReadPersist(lists, pState[p])
  /\ UNCHANGED <<players, files, trusted>>
-----------------------------------------------------------------------------
(* Maps, saved games, crashes and other servers. *)

\* GGM_WritePlayers, by ggm_save.
GGM_Save ==
  /\ SavedGames
  /\ saved' = [registered |-> [a \in DOMAIN lists.registered |->
                                 lists.registered[a].fIsTempBanned],
               anonymous |-> lists.anonymous]
  /\ UNCHANGED <<players, lists, regFile, loginFile, trusted>>

\* Mutant: the lists are cleared, the players keep their pointers.
ClearListsKeepsPointers ==
  lists' = NoLists /\ UNCHANGED pState

\* GGM_ClearLists: nothing is known of anybody.
GGM_ClearLists ==
  /\ lists' = NoLists
  /\ pState' = [p \in Player |-> NoState]

\* ggm_load of a file whose records have another size: GGM_ReadPlayers gives
\* up when the lists are cleared, and the game goes on.
LoadFails ==
  /\ SavedGames /\ saved # NoFile
  /\ GGM_ClearLists
  /\ UNCHANGED <<iState, uid, name, files, trusted>>

\* ggm_load: the records of the saved game, with the passwords of today; the
\* engine then loads the game, and the players wait in STATE_LOAD_FIX.  A file
\* that a crash has cut, of which the code reads the whole records, is not
\* modelled here: saved is written in one step.
GGM_Load ==
  /\ SavedGames /\ saved # NoFile
  /\ lists' = [registered |-> [a \in DOMAIN saved.registered |->
                                 [szPassword |-> regFile[a],
                                  fIsTempBanned |-> saved.registered[a]]],
               anonymous |-> saved.anonymous, logins |-> <<>>]
  /\ pState' = [p \in Player |-> NoState]
  /\ iState' = [p \in Player |-> IF Connected(p) THEN "LOAD_FIX" ELSE "OFF"]
  /\ UNCHANGED <<uid, name, files, trusted>>

\* CHalfLifeMultiplay::PlayerThink: a button takes the player out of the
\* state it was loaded in.
LeaveLoadFix(p) ==
  /\ iState[p] = "LOAD_FIX"
  /\ iState' = [iState EXCEPT ![p] = "UNINITIALIZED"]
  /\ pState' = [pState EXCEPT ![p] = NoState]
  /\ UNCHANGED <<uid, name, lists, files, trusted>>

\* COOP_ServerActivate: a new map, whose entities are new.  The records stay
\* unless a new game starts.
COOP_ServerActivate ==
  /\ iState' = [p \in Player |-> IF Connected(p) THEN "UNINITIALIZED"
                                                 ELSE "OFF"]
  /\ \/ pState' = [p \in Player |-> NoState] /\ UNCHANGED lists
     \/ GGM_ClearLists
  /\ UNCHANGED <<uid, name, files, trusted>>

\* The server process ends, however it does, and is started again.
ServerRestart ==
  /\ iState' = [p \in Player |-> "OFF"]
  /\ uid' = [p \in Player |-> NoUid]
  /\ name' = [p \in Player |-> NoName]
  /\ GGM_ClearLists
  /\ UNCHANGED <<files, trusted>>

\* Mutant: the login's file is written before the account's.
CrashWithLoginFirst(p, a, w) ==
  /\ Connected(p) /\ MayRegister(p) /\ ~NameBusy(a)
  /\ loginFile' = [loginFile EXCEPT ![<<pState[p], name[p]>>] = a]
  /\ iState' = [q \in Player |-> "OFF"]
  /\ uid' = [q \in Player |-> NoUid]
  /\ name' = [q \in Player |-> NoName]
  /\ GGM_ClearLists
  /\ UNCHANGED <<regFile, saved, trusted>>

\* The server process ends in the middle of "reg": the account is on file,
\* the login is not.
CrashInRegister(p, a, w) ==
  /\ Connected(p) /\ MayRegister(p) /\ ~NameBusy(a)
  /\ regFile' = [regFile EXCEPT ![a] = w]
  /\ iState' = [q \in Player |-> "OFF"]
  /\ uid' = [q \in Player |-> NoUid]
  /\ name' = [q \in Player |-> NoName]
  /\ GGM_ClearLists
  /\ UNCHANGED <<loginFile, saved, trusted>>

\* Another server with the same files registers an account or changes its
\* password, logs a player in or logs one out.
OtherServer ==
  /\ OtherServers
  /\ \/ /\ \E a \in Account, w \in Password :
             regFile' = [regFile EXCEPT ![a] = w]
        /\ UNCHANGED <<loginFile, trusted>>
     \/ /\ \E u \in Uid, n \in Name, a \in {b \in Account : regFile[b] # NoFile} :
             /\ loginFile' = [loginFile EXCEPT ![<<u, n>>] = a]
             /\ trusted' = trusted \cup {<<u, a>>}
        /\ UNCHANGED regFile
     \/ /\ \E u \in Uid, n \in Name :
             loginFile' = [loginFile EXCEPT ![<<u, n>>] = NoFile]
        /\ UNCHANGED <<regFile, trusted>>
  /\ UNCHANGED <<players, lists, saved>>
-----------------------------------------------------------------------------
ClientCommand(p) ==
  \/ \E a \in Account, w \in Password :
       GGM_Register(p, a, w) \/ CrashInRegister(p, a, w)
  \/ \E a \in Account, w \in Password : GGM_Login(p, a, w)
  \/ GGM_Logout(p) \/ GGM_RestoreState(p)
  \/ \E w \in Password : GGM_ChangePassword(p, w)
  \/ UTIL_SpawnPlayer(p) \/ Spectate(p)

Connection(p) ==
  \/ \E u \in Uid, n \in Name : ClientConnect(p, u, n)
  \/ \E n \in Name : ClientUserInfoChanged(p, n)
  \/ GGM_ClientPutinServer(p) \/ Respawn(p) \/ ClientDisconnect(p)
  \/ \E u \in Uid : AuthArrives(p, u)
  \/ LeaveLoadFix(p)

Next ==
  \/ \E p \in Player : ClientCommand(p) \/ Connection(p)
  \/ GGM_Save \/ GGM_Load \/ LoadFails
  \/ COOP_ServerActivate \/ ServerRestart \/ OtherServer

Spec == Init /\ [][Next]_vars
-----------------------------------------------------------------------------
(* Properties. *)

\* No player and no login points to a record that was freed: not those who
\* shared it, not a slot whose user has left, not after a failed load.
NoDanglingState ==
  /\ \A p \in Player :
       pState[p] \in DOMAIN lists.registered \cup DOMAIN lists.anonymous
                       \cup {NoState}
  /\ \A i \in DOMAIN lists.logins :
       lists.logins[i].pState \in DOMAIN lists.registered

\* Whatever names an account, a record in memory, a login's file or a saved
\* game, the account is on file: whenever the server stops, whoever it knows
\* can be found again.
AccountsOnFile ==
  /\ \A a \in DOMAIN lists.registered : regFile[a] # NoFile
  /\ \A k \in Uid \X Name :
       loginFile[k] # NoFile => regFile[loginFile[k]] # NoFile
  /\ saved # NoFile => \A a \in DOMAIN saved.registered : regFile[a] # NoFile

\* The list, which may hold several logins for one uid and nickname, and the
\* file, which holds the last, never disagree: whether a player reconnects
\* or the server restarts, it is who it last logged in as.
LatestLoginWins ==
  ~OtherServers =>
    \A u \in Uid, n \in Name :
      Matches(lists, u, n) # {} /\ loginFile[<<u, n>>] # NoFile =>
        lists.logins[First(Matches(lists, u, n))].pState = loginFile[<<u, n>>]

\* Whoever uses an account gave its password, or somebody with the same uid
\* did, or with the uid the player had before a late auth id arrived, or
\* before it registered: neither a slot taken over, nor a shared nickname,
\* nor a saved game or a login file hands an account to anybody else.
AccountIsProven ==
  \A p \in Player :
    Connected(p) /\ Registered(pState[p]) => <<uid[p], pState[p]>> \in trusted

\* No account is banned: a banned player cannot turn its record into one.
NoBannedAccount ==
  \A a \in DOMAIN lists.registered : ~lists.registered[a].fIsTempBanned

\* A login succeeds with the password that is on file now, whatever server
\* wrote it, and with no other that GGM_Munge tells from it.
LoginByCurrentPassword ==
  [][\A p \in Player, a \in Account, w \in Password :
       GGM_Login(p, a, w) /\ pState'[p] = a => regFile[a] = w]_vars

\* This server replaces the password of an existing account only on behalf
\* of a player who uses it; a registration never overwrites one that is on
\* file when it looks.  Two servers that register one name at once are not
\* modelled: GGM_Register looks and writes in one step.
PasswordStaysOwners ==
  [][\A a \in Account : regFile[a] # NoFile /\ regFile'[a] # regFile[a] =>
       OtherServer \/ \E p \in Player : Connected(p) /\ pState[p] = a]_vars

\* The ban of a uid outlives its players' reconnecting, renaming and
\* registering; it ends when the lists are cleared or a login frees it.
BanSticks ==
  [][\A u \in DOMAIN lists.anonymous : lists.anonymous[u] =>
       \/ u \in DOMAIN lists'.anonymous /\ lists'.anonymous[u]
       \/ GGM_ClearLists \/ GGM_Load
       \/ \E p \in Player, a \in Account : pState[p] = u /\ pState'[p] = a
                                          /\ regFile[a] # NoFile]_vars

\* "Remove login record": after a logout there is no login for the player's
\* uid and nickname.
LogoutRemovesLogin ==
  [][\A p \in Player :
       GGM_Logout(p) => Matches(lists', uid[p], name[p]) = {}]_vars

\* "state which every spawned player has".
SpawnedHasState ==
  \A p \in Player : iState[p] = "SPAWNED" => pState[p] # NoState
=============================================================================

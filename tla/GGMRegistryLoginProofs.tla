---------------------- MODULE GGMRegistryLoginProofs ----------------------
(***************************************************************************)
(* More theorems about GGMRegistry: whose account a player may use, which  *)
(* login counts, and what becomes of passwords and bans.  What names an    *)
(* account to a player is a login in the list, a login's file or a record  *)
(* in memory, so the invariants the runs check are strengthened to all     *)
(* three, and followed through the searches (Sought), which may bring a    *)
(* login from its file into the list.                                      *)
(***************************************************************************)
EXTENDS GGMRegistryProofs

Key(e) == <<e.szUID, e.szName>>

\* Every login is one the account's password was given for, from its uid.
LoginsProven(q, proven) == \A i \in DOMAIN q : <<q[i].szUID, q[i].pState>> \in proven

FilesProven ==
  \A u \in Uid, n \in Name :
    loginFile[<<u, n>>] # NoFile => <<u, loginFile[<<u, n>>]>> \in trusted

Unbanned(l) == \A a \in DOMAIN l.registered : ~l.registered[a].fIsTempBanned

SavedUnbanned == saved # NoFile => \A a \in DOMAIN saved.registered : ~saved.registered[a]

\* The first login of a uid and a nickname is to the account in its file, those in X excepted.
LatestIs(q, file, X) ==
  \A i \in DOMAIN q :
    /\ \A j \in 1..(i - 1) : Key(q[j]) # Key(q[i])
    /\ file[Key(q[i])] # NoFile /\ Key(q[i]) \notin X
    => q[i].pState = file[Key(q[i])]

Good(l) ==
  /\ LoginsProven(l.logins, trusted) /\ Unbanned(l)
  /\ ~OtherServers => LatestIs(l.logins, loginFile, {})

\* What is added to the inductive invariant.
Rest == AccountIsProven /\ FilesProven /\ SavedUnbanned /\ Good(lists)

LInv == IInv /\ Rest

\* What a search keeps of the records: bans are neither lost nor brought up.
Kept(l, m) ==
  /\ \A a \in DOMAIN m.registered : m.registered[a].fIsTempBanned =>
       a \in DOMAIN l.registered /\ l.registered[a].fIsTempBanned
  /\ \A v \in DOMAIN l.anonymous : v \in DOMAIN m.anonymous /\ m.anonymous[v] = l.anonymous[v]

FromFile(u, n) == [szUID |-> u, szName |-> n, pState |-> loginFile[<<u, n>>]]

\* m is what a search for uid u and nickname n makes of l.
Sought(l, m, u, n) ==
  /\ Kept(l, m)
  /\ \/ m.logins = l.logins
     \/ loginFile[<<u, n>>] # NoFile /\ m.logins = <<FromFile(u, n)>> \o l.logins

\* An account a search for uid u and nickname n may answer with.
Named(l, u, n, a) ==
  \/ loginFile[<<u, n>>] # NoFile /\ a = loginFile[<<u, n>>]
  \/ \E i \in DOMAIN l.logins : l.logins[i].szUID = u /\ l.logins[i].pState = a
-----------------------------------------------------------------------------
(* Searches. *)

LEMMA KeptTrans ==
  ASSUME NEW l, NEW m, NEW k, Kept(l, m), Kept(m, k)
  PROVE  Kept(l, k)
  BY DEF Kept

\* Reading an account's file again changes its password, if there is a file.
LEMMA ReadPersistKeeps ==
  ASSUME NEW l, ListsSound(l), FilesSound, NEW s
  PROVE  /\ Kept(l, GGM_ReadPersist(l, s)) /\ GGM_ReadPersist(l, s).logins = l.logins
         /\ GGM_ReadPersist(l, s).anonymous = l.anonymous
         /\ s \in DOMAIN l.registered => GGM_ReadPersist(l, s).registered[s].szPassword = regFile[s]
  <1>0. l \in Lists
    BY DEF ListsSound
  <1>1. CASE s \in DOMAIN l.registered /\ regFile[s] # NoFile
    <2> DEFINE f == [l.registered EXCEPT ![s].szPassword = regFile[s]]
    <2>1. l.registered \in Partial(Account, Registration)
      BY <1>0 DEF Lists
    <2>2. l.registered \in [DOMAIN l.registered -> Registration]
      BY <2>1, PartialFacts
    <2>3. /\ DOMAIN f = DOMAIN l.registered /\ f[s].szPassword = regFile[s]
          /\ \A a \in DOMAIN l.registered : f[a].fIsTempBanned = l.registered[a].fIsTempBanned
      BY <1>1, <2>2 DEF Registration
    <2>4. GGM_ReadPersist(l, s) = [l EXCEPT !.registered = f]
      BY <1>0, <1>1 DEF GGM_ReadPersist, Lists
    <2> HIDE DEF f
    <2>5. /\ [l EXCEPT !.registered = f].registered = f
          /\ [l EXCEPT !.registered = f].anonymous = l.anonymous
          /\ [l EXCEPT !.registered = f].logins = l.logins
      BY <1>0 DEF Lists
    <2> QED BY <2>3, <2>4, <2>5 DEF Kept
  <1>2. CASE ~(s \in DOMAIN l.registered /\ regFile[s] # NoFile)
    <2>1. GGM_ReadPersist(l, s) = l
      BY <1>2 DEF GGM_ReadPersist
    <2>2. s \notin DOMAIN l.registered
      BY <1>2 DEF ListsSound
    <2> QED BY <2>1, <2>2 DEF Kept
  <1> QED BY <1>1, <1>2

\* The search for an account returns it with the password on file, and not banned anew.
LEMMA GetRegistrationKeeps ==
  ASSUME NEW l, ListsSound(l), FilesSound, NEW a \in Account
  PROVE  LET r == GGM_GetRegistration(l, a)
         IN  /\ Kept(l, r.lists) /\ r.lists.logins = l.logins /\ r.lists.anonymous = l.anonymous
             /\ r.ret # NoState => r.lists.registered[a].szPassword = regFile[a]
  <1>0. l \in Lists
    BY DEF ListsSound
  <1>1. CASE a \in DOMAIN l.registered
    <2>1. GGM_GetRegistration(l, a) = [ret |-> a, lists |-> GGM_ReadPersist(l, a)]
      BY <1>1 DEF GGM_GetRegistration
    <2> DEFINE m == GGM_ReadPersist(l, a)
    <2>2. /\ Kept(l, m) /\ m.logins = l.logins /\ m.anonymous = l.anonymous
          /\ m.registered[a].szPassword = regFile[a]
      BY <1>1, ReadPersistKeeps
    <2> HIDE DEF m
    <2> QED BY <2>1, <2>2 DEF m
  <1>2. CASE a \notin DOMAIN l.registered /\ regFile[a] = NoFile
    BY <1>2 DEF GGM_GetRegistration, Kept
  <1>3. CASE a \notin DOMAIN l.registered /\ regFile[a] # NoFile
    <2> DEFINE y == [szPassword |-> regFile[a], fIsTempBanned |-> FALSE]
               f == With(l.registered, a, y)
               m == [l EXCEPT !.registered = f]
    <2>1. GGM_GetRegistration(l, a) = [ret |-> a, lists |-> m]
      BY <1>3 DEF GGM_GetRegistration
    <2>2. /\ DOMAIN f = DOMAIN l.registered \cup {a} /\ f[a] = y
          /\ \A b \in DOMAIN l.registered : f[b] = l.registered[b]
      BY <1>3 DEF With
    <2> HIDE DEF f
    <2>3. m.registered = f /\ m.anonymous = l.anonymous /\ m.logins = l.logins
      BY <1>0 DEF Lists
    <2> HIDE DEF m
    <2>4. Kept(l, m)
      BY <1>3, <2>2, <2>3 DEF Kept
    <2> QED BY <2>1, <2>2, <2>3, <2>4
  <1> QED BY <1>1, <1>2, <1>3

\* A place of the list with the uid and the nickname, and the first such place.
LEMMA MatchIs ==
  ASSUME NEW l \in Lists, NEW u, NEW n, Matches(l, u, n) # {}
  PROVE  LET i == First(Matches(l, u, n))
         IN  /\ i \in 1..Len(l.logins) /\ Key(l.logins[i]) = <<u, n>>
             /\ \A j \in 1..(i - 1) : Key(l.logins[j]) # <<u, n>>
  <1>1. l.logins \in Seq(GGMLogin)
    BY DEF Lists
  <1>2. Matches(l, u, n) \subseteq 1..Len(l.logins)
    BY <1>1 DEF Matches
  <1>3. Matches(l, u, n) \subseteq Nat
    BY <1>1, <1>2
  <1> DEFINE i == First(Matches(l, u, n))
  <1>4. i \in Matches(l, u, n) /\ \A j \in Matches(l, u, n) : i <= j
    BY <1>3, FirstIn
  <1> HIDE DEF i
  <1>5. Key(l.logins[i]) = <<u, n>>
    BY <1>4 DEF Matches, Key
  <1>6. ASSUME NEW j \in 1..(i - 1), Key(l.logins[j]) = <<u, n>> PROVE FALSE
    <2>1. i \in 1..Len(l.logins) /\ Len(l.logins) \in Nat
      BY <1>1, <1>2, <1>4
    <2>2. j \in DOMAIN l.logins
      BY <1>1, <2>1
    <2>3. j \in Matches(l, u, n)
      BY <1>6, <2>2 DEF Matches, Key
    <2> QED BY <1>4, <2>1, <2>3
  <1> QED BY <1>2, <1>4, <1>5, <1>6 DEF i

\* AddLogin puts its login before the others.
LEMMA AddLoginIs ==
  ASSUME NEW l \in Lists, NEW u, NEW n, NEW a
  PROVE  /\ AddLogin(l, u, n, a).logins = <<[szUID |-> u, szName |-> n, pState |-> a]>> \o l.logins
         /\ AddLogin(l, u, n, a).registered = l.registered
         /\ AddLogin(l, u, n, a).anonymous = l.anonymous
  <1> DEFINE q == <<[szUID |-> u, szName |-> n, pState |-> a]>> \o l.logins
  <1>1. AddLogin(l, u, n, a) = [l EXCEPT !.logins = q]
    BY DEF AddLogin
  <1> HIDE DEF q
  <1> QED BY <1>1 DEF Lists, q

\* The search for a login answers with the first in the list or with the file.
LEMMA LoadLoginKeeps ==
  ASSUME NEW l, ListsSound(l), FilesSound, NEW u \in Uid, NEW n \in Name
  PROVE  LET m == GGM_LoadLogin(l, u, n)
         IN  /\ Sought(l, m.lists, u, n)
             /\ m.found => Named(l, u, n, m.ret)
  <1> DEFINE m == GGM_LoadLogin(l, u, n)
             file == loginFile[<<u, n>>]
  <1>0. l \in Lists /\ Kept(l, l)
    BY DEF ListsSound, Kept
  <1>1. CASE Matches(l, u, n) # {}
    <2> DEFINE i == First(Matches(l, u, n))
    <2>1. m = [found |-> TRUE, ret |-> l.logins[i].pState, lists |-> l]
      BY <1>1 DEF GGM_LoadLogin
    <2>2. i \in 1..Len(l.logins) /\ Key(l.logins[i]) = <<u, n>>
      BY <1>0, <1>1, MatchIs
    <2> HIDE DEF i, m
    <2>3. i \in DOMAIN l.logins /\ l.logins[i].szUID = u
      BY <1>0, <2>2 DEF Lists, Key
    <2>4. m.ret = l.logins[i].pState /\ m.lists = l
      BY <2>1
    <2>5. Sought(l, m.lists, u, n) /\ Named(l, u, n, m.ret)
      BY <1>0, <2>3, <2>4 DEF Sought, Named
    <2> QED BY <2>5 DEF m
  <1>2. CASE Matches(l, u, n) = {} /\ file = NoFile
    <2>1. m = [found |-> FALSE, ret |-> NoState, lists |-> l]
      BY <1>2 DEF GGM_LoadLogin
    <2> QED BY <1>0, <2>1 DEF Sought
  <1>3. CASE Matches(l, u, n) = {} /\ file # NoFile
    <2> DEFINE r == GGM_GetRegistration(l, file)
    <2>1. m = [found |-> TRUE, ret |-> r.ret, lists |-> AddLogin(r.lists, u, n, r.ret)]
      BY <1>3 DEF GGM_LoadLogin
    <2>2. file \in Account /\ regFile[file] # NoFile
      BY <1>3 DEF FilesSound, FilesType
    <2>3. Kept(l, r.lists) /\ r.lists.logins = l.logins
      BY <2>2, GetRegistrationKeeps
    <2>4. r.ret = file /\ Grown(l, r.lists)
      BY <2>2, GetRegistrationOK
    <2> HIDE DEF r, m
    <2>5. m.ret = file /\ m.lists = AddLogin(r.lists, u, n, file)
      BY <2>1, <2>4
    <2>6. r.lists \in Lists
      BY <2>4 DEF Grown, ListsSound
    <2>7. /\ m.lists.logins = <<FromFile(u, n)>> \o l.logins
          /\ m.lists.registered = r.lists.registered /\ m.lists.anonymous = r.lists.anonymous
      <3>1. FromFile(u, n) = [szUID |-> u, szName |-> n, pState |-> file]
        BY DEF FromFile
      <3> HIDE DEF file
      <3>2. /\ AddLogin(r.lists, u, n, file).logins
                 = <<[szUID |-> u, szName |-> n, pState |-> file]>> \o r.lists.logins
            /\ AddLogin(r.lists, u, n, file).registered = r.lists.registered
            /\ AddLogin(r.lists, u, n, file).anonymous = r.lists.anonymous
        BY <2>6, AddLoginIs
      <3> QED BY <2>3, <2>5, <3>1, <3>2
    <2>8. Sought(l, m.lists, u, n) /\ Named(l, u, n, m.ret)
      BY <1>3, <2>3, <2>5, <2>7 DEF Sought, Named, Kept
    <2> QED BY <2>8 DEF m
  <1> QED BY <1>1, <1>2, <1>3

\* The search for a record, and the account's file read again.
LEMMA GetStateKeeps ==
  ASSUME NEW l, ListsSound(l), FilesSound, NEW u \in Uid, NEW n \in Name
  PROVE  LET s == GGM_GetState(l, u, n)
         IN  /\ Sought(l, s.lists, u, n)
             /\ Sought(l, GGM_ReadPersist(s.lists, s.ret), u, n)
             /\ s.ret \in Account => Named(l, u, n, s.ret)
  <1> DEFINE login == GGM_LoadLogin(l, u, n)
             taken == \E i \in DOMAIN l.logins : l.logins[i].szName = n
             s == GGM_GetState(l, u, n)
             anew == [l EXCEPT !.anonymous = With(@, u, n \in BadName)]
  <1>0. l \in Lists /\ Sought(l, l, u, n)
    BY DEF ListsSound, Sought, Kept
  <1>1. NoState \notin Account /\ u \notin Account
    BY RegistryAssumption
  <1>2. ASSUME login.found
        PROVE  Sought(l, s.lists, u, n) /\ (s.ret \in Account => Named(l, u, n, s.ret))
    <2>1. s = [ret |-> login.ret, lists |-> login.lists]
      BY <1>2 DEF GGM_GetState
    <2>2. Sought(l, login.lists, u, n) /\ Named(l, u, n, login.ret)
      BY <1>2, LoadLoginKeeps
    <2> HIDE DEF s, login
    <2>3. s.ret = login.ret /\ s.lists = login.lists
      BY <2>1
    <2> QED BY <2>2, <2>3
  <1>3. ASSUME ~login.found /\ taken
        PROVE  Sought(l, s.lists, u, n) /\ (s.ret \in Account => Named(l, u, n, s.ret))
    <2>1. s = [ret |-> NoState, lists |-> l]
      BY <1>3 DEF GGM_GetState
    <2> QED BY <1>0, <1>1, <2>1
  <1>4. ASSUME ~login.found /\ ~taken /\ u \in DOMAIN l.anonymous
        PROVE  Sought(l, s.lists, u, n) /\ (s.ret \in Account => Named(l, u, n, s.ret))
    <2>1. s = [ret |-> u, lists |-> l]
      BY <1>4 DEF GGM_GetState
    <2> QED BY <1>0, <1>1, <2>1
  <1>5. ASSUME ~login.found /\ ~taken /\ u \notin DOMAIN l.anonymous
        PROVE  Sought(l, s.lists, u, n) /\ (s.ret \in Account => Named(l, u, n, s.ret))
    <2> DEFINE f == With(l.anonymous, u, n \in BadName)
    <2>1. s = [ret |-> u, lists |-> anew]
      BY <1>5 DEF GGM_GetState
    <2>2. anew = [l EXCEPT !.anonymous = f]
      BY <1>0 DEF Lists
    <2>3. \A v \in DOMAIN l.anonymous : v \in DOMAIN f /\ f[v] = l.anonymous[v]
      BY <1>5 DEF With
    <2> HIDE DEF f, anew
    <2>4. anew.anonymous = f /\ anew.registered = l.registered /\ anew.logins = l.logins
      BY <1>0, <2>2 DEF Lists
    <2>5. Sought(l, anew, u, n)
      BY <2>3, <2>4 DEF Sought, Kept
    <2> QED BY <1>1, <2>1, <2>5
  <1>6. Sought(l, s.lists, u, n) /\ (s.ret \in Account => Named(l, u, n, s.ret))
    BY <1>2, <1>3, <1>4, <1>5
  <1>7. ListsSound(s.lists)
    BY GetStateOK DEF Grown
  <1> HIDE DEF s
  <1>8. /\ Kept(s.lists, GGM_ReadPersist(s.lists, s.ret))
        /\ GGM_ReadPersist(s.lists, s.ret).logins = s.lists.logins
    BY <1>7, ReadPersistKeeps
  <1>9. Kept(l, GGM_ReadPersist(s.lists, s.ret))
    BY <1>6, <1>8, KeptTrans DEF Sought
  <1>10. Sought(l, GGM_ReadPersist(s.lists, s.ret), u, n)
    BY <1>6, <1>8, <1>9 DEF Sought
  <1> QED BY <1>6, <1>10 DEF s
-----------------------------------------------------------------------------
(* What becomes of the invariant when the list of logins changes. *)

\* A sequence with one more element in front.
LEMMA HeadIs ==
  ASSUME NEW q \in Seq(GGMLogin), NEW e \in GGMLogin
  PROVE  /\ <<e>> \o q \in Seq(GGMLogin) /\ Len(<<e>> \o q) = Len(q) + 1
         /\ (<<e>> \o q)[1] = e
         /\ \A i \in 1..Len(q) : (<<e>> \o q)[i + 1] = q[i]
  OBVIOUS

LEMMA KeyType ==
  ASSUME NEW e \in GGMLogin
  PROVE  Key(e) \in Uid \X Name
  BY DEF Key, GGMLogin

LEMMA ProvenAtHead ==
  ASSUME NEW q \in Seq(GGMLogin), NEW e \in GGMLogin, NEW proven,
         LoginsProven(q, proven), <<e.szUID, e.pState>> \in proven
  PROVE  LoginsProven(<<e>> \o q, proven)
  <1> DEFINE r == <<e>> \o q
  <1>1. /\ r \in Seq(GGMLogin) /\ Len(r) = Len(q) + 1 /\ r[1] = e
        /\ \A i \in 1..Len(q) : r[i + 1] = q[i]
    BY HeadIs
  <1> HIDE DEF r
  <1>2. ASSUME NEW i \in DOMAIN r PROVE <<r[i].szUID, r[i].pState>> \in proven
    <2>1. i \in 1..(Len(q) + 1) /\ Len(q) \in Nat
      BY <1>1
    <2>2. CASE i = 1
      BY <1>1, <2>2
    <2>3. CASE i # 1
      <3>1. i - 1 \in 1..Len(q) /\ i = (i - 1) + 1
        BY <2>1, <2>3
      <3>2. r[i] = q[i - 1]
        BY <1>1, <3>1
      <3> QED BY <3>1, <3>2 DEF LoginsProven
    <2> QED BY <2>2, <2>3
  <1> QED BY <1>2 DEF LoginsProven, r

\* A login in front of the others that agrees with the files, of which only its own has changed.
LEMMA LatestAtHead ==
  ASSUME NEW q \in Seq(GGMLogin), NEW e \in GGMLogin, NEW old, NEW file, NEW X,
         LatestIs(q, old, X), \A k \in Uid \X Name : k # Key(e) => file[k] = old[k],
         file[Key(e)] = e.pState
  PROVE  LatestIs(<<e>> \o q, file, X)
  <1> DEFINE r == <<e>> \o q
  <1>1. /\ r \in Seq(GGMLogin) /\ Len(r) = Len(q) + 1 /\ r[1] = e
        /\ \A i \in 1..Len(q) : r[i + 1] = q[i]
    BY HeadIs
  <1> HIDE DEF r
  <1>2. ASSUME NEW i \in DOMAIN r, \A j \in 1..(i - 1) : Key(r[j]) # Key(r[i]),
               file[Key(r[i])] # NoFile, Key(r[i]) \notin X
        PROVE  r[i].pState = file[Key(r[i])]
    <2>1. i \in 1..(Len(q) + 1) /\ Len(q) \in Nat
      BY <1>1
    <2>2. CASE i = 1
      BY <1>1, <2>2
    <2>3. CASE i # 1
      <3>1. i - 1 \in 1..Len(q) /\ i = (i - 1) + 1 /\ 1 \in 1..(i - 1)
        BY <2>1, <2>3
      <3>2. r[i] = q[i - 1]
        BY <1>1, <3>1
      <3>3. Key(r[i]) # Key(e)
        BY <1>1, <1>2, <3>1
      <3>4. q[i - 1] \in GGMLogin /\ i - 1 \in DOMAIN q
        BY <3>1
      <3>5. file[Key(r[i])] = old[Key(r[i])]
        BY <3>2, <3>3, <3>4, KeyType
      <3>6. ASSUME NEW j \in 1..((i - 1) - 1) PROVE Key(q[j]) # Key(q[i - 1])
        <4>1. j \in 1..Len(q) /\ j + 1 \in 1..(i - 1)
          BY <2>1, <3>1
        <4>2. r[j + 1] = q[j]
          BY <1>1, <4>1
        <4> QED BY <1>2, <3>2, <4>1, <4>2
      <3> QED BY <1>2, <3>2, <3>4, <3>5, <3>6 DEF LatestIs
    <2> QED BY <2>2, <2>3
  <1> QED BY <1>2 DEF LatestIs, r

\* A login taken out of the list leaves the others to their files.
LEMMA LatestWithout ==
  ASSUME NEW q \in Seq(GGMLogin), NEW k \in 1..Len(q), NEW file, LatestIs(q, file, {})
  PROVE  LatestIs(RemoveAt(q, k), file, {Key(q[k])})
  <1> DEFINE r == RemoveAt(q, k)
  <1>1. /\ r \in Seq(GGMLogin) /\ Len(r) = Len(q) - 1
        /\ \A i \in 1..Len(r) : r[i] = IF i < k THEN q[i] ELSE q[i + 1]
    BY RemoveAtIs
  <1> HIDE DEF r
  <1>2. ASSUME NEW i \in DOMAIN r, \A j \in 1..(i - 1) : Key(r[j]) # Key(r[i]),
               file[Key(r[i])] # NoFile, Key(r[i]) # Key(q[k])
        PROVE  r[i].pState = file[Key(r[i])]
    <2>1. i \in 1..Len(r) /\ Len(q) \in Nat /\ Len(r) \in Nat
      BY <1>1
    <2>2. CASE i < k
      <3>1. r[i] = q[i] /\ i \in DOMAIN q
        BY <1>1, <2>1, <2>2
      <3>2. \A j \in 1..(i - 1) : r[j] = q[j]
        <4>1. \A j \in 1..(i - 1) : j \in 1..Len(r) /\ j < k
          BY <2>1, <2>2
        <4> QED BY <1>1, <4>1
      <3>3. \A j \in 1..(i - 1) : Key(q[j]) # Key(q[i])
        BY <1>2, <3>1, <3>2
      <3> QED BY <1>2, <3>1, <3>3 DEF LatestIs
    <2>3. CASE ~(i < k)
      <3>1. r[i] = q[i + 1] /\ i + 1 \in DOMAIN q
        BY <1>1, <2>1, <2>3
      <3>2. ASSUME NEW j \in 1..((i + 1) - 1) PROVE Key(q[j]) # Key(q[i + 1])
        <4>1. CASE j < k
          <5>1. j \in 1..(i - 1) /\ j \in 1..Len(r)
            BY <2>1, <2>3, <4>1
          <5>2. r[j] = q[j]
            BY <1>1, <4>1, <5>1
          <5> QED BY <1>2, <3>1, <5>1, <5>2
        <4>2. CASE j = k
          BY <1>2, <3>1, <4>2
        <4>3. CASE j > k
          <5>1. /\ j - 1 \in 1..(i - 1) /\ j - 1 \in 1..Len(r) /\ ~(j - 1 < k)
                /\ (j - 1) + 1 = j
            BY <2>1, <2>3, <4>3
          <5>2. r[j - 1] = q[j]
            BY <1>1, <5>1
          <5> QED BY <1>2, <3>1, <5>1, <5>2
        <4> QED BY <2>1, <4>1, <4>2, <4>3
      <3> QED BY <1>2, <3>1, <3>2 DEF LatestIs
    <2> QED BY <2>2, <2>3
  <1> QED BY <1>2 DEF LatestIs, r

LEMMA ProvenWithout ==
  ASSUME NEW q \in Seq(GGMLogin), NEW k \in 1..Len(q), NEW proven, LoginsProven(q, proven)
  PROVE  LoginsProven(RemoveAt(q, k), proven)
  <1> DEFINE r == RemoveAt(q, k)
  <1>1. /\ r \in Seq(GGMLogin) /\ Len(r) = Len(q) - 1
        /\ \A i \in 1..Len(r) : r[i] = IF i < k THEN q[i] ELSE q[i + 1]
    BY RemoveAtIs
  <1> HIDE DEF r
  <1>2. \A i \in DOMAIN r : \E j \in DOMAIN q : r[i] = q[j]
    <2> TAKE i \in DOMAIN r
    <2>1. i \in DOMAIN q /\ i + 1 \in DOMAIN q /\ i \in 1..Len(r)
      BY <1>1
    <2> QED BY <1>1, <2>1
  <1> QED BY <1>2 DEF LoginsProven, r

\* When the file of a login is removed, no login of its uid and nickname is the latest.
LEMMA LatestForgets ==
  ASSUME NEW q, NEW k \in Uid \X Name, NEW old \in [Uid \X Name -> Account \cup {NoFile}],
         q \in Seq(GGMLogin), LatestIs(q, old, {k})
  PROVE  LatestIs(q, [old EXCEPT ![k] = NoFile], {})
  <1>1. ASSUME NEW i \in DOMAIN q PROVE Key(q[i]) \in Uid \X Name
    BY <1>1, KeyType
  <1> QED BY <1>1 DEF LatestIs

\* A search neither brings up an account for a uid that never gave its password, nor a ban, nor a
\* login that is not the latest.
LEMMA SoughtGood ==
  ASSUME NEW l, ListsSound(l), FilesSound, FilesProven, NEW u \in Uid, NEW n \in Name,
         NEW m, Sought(l, m, u, n), NEW X
  PROVE  /\ LoginsProven(l.logins, trusted) => LoginsProven(m.logins, trusted)
         /\ Unbanned(l) => Unbanned(m)
         /\ LatestIs(l.logins, loginFile, X) => LatestIs(m.logins, loginFile, X)
  <1>1. l.logins \in Seq(GGMLogin)
    BY DEF ListsSound, Lists
  <1>2. Unbanned(l) => Unbanned(m)
    BY DEF Unbanned, Sought, Kept
  <1>3. CASE m.logins = l.logins
    BY <1>2, <1>3
  <1>4. CASE loginFile[<<u, n>>] # NoFile /\ m.logins = <<FromFile(u, n)>> \o l.logins
    <2> DEFINE e == FromFile(u, n)
    <2>1. loginFile[<<u, n>>] \in Account
      BY <1>4 DEF FilesSound, FilesType
    <2>2. e \in GGMLogin /\ e.szUID = u /\ e.pState = loginFile[<<u, n>>] /\ Key(e) = <<u, n>>
      BY <2>1 DEF FromFile, GGMLogin, Key
    <2> HIDE DEF e
    <2>3. <<e.szUID, e.pState>> \in trusted
      BY <1>4, <2>2 DEF FilesProven
    <2>4. m.logins = <<e>> \o l.logins
      BY <1>4 DEF e
    <2>5. LoginsProven(l.logins, trusted) => LoginsProven(m.logins, trusted)
      BY <1>1, <2>2, <2>3, <2>4, ProvenAtHead
    <2>6. LatestIs(l.logins, loginFile, X) => LatestIs(m.logins, loginFile, X)
      BY <1>1, <2>2, <2>4, LatestAtHead
    <2> QED BY <1>2, <2>5, <2>6
  <1> QED BY <1>3, <1>4 DEF Sought

\* The account a search answers with is one whose password was given from the uid.
LEMMA NamedProven ==
  ASSUME NEW l, NEW u \in Uid, NEW n \in Name, NEW a, LoginsProven(l.logins, trusted), FilesProven,
         Named(l, u, n, a)
  PROVE  <<u, a>> \in trusted
  BY DEF Named, LoginsProven, FilesProven
-----------------------------------------------------------------------------
(* Steps that search.  UserProven: AccountIsProven of one player. *)

UserProven(p) == Connected(p) /\ Registered(pState[p]) => <<uid[p], pState[p]>> \in trusted

LEMMA RestParts ==
  ASSUME LInv
  PROVE  /\ ListsSound(lists) /\ FilesSound /\ PlayersType /\ lists.logins \in Seq(GGMLogin)
         /\ FilesProven /\ SavedUnbanned
         /\ LoginsProven(lists.logins, trusted) /\ Unbanned(lists)
         /\ ~OtherServers => LatestIs(lists.logins, loginFile, {})
         /\ \A p \in Player : UserProven(p)
  BY Parts DEF LInv, Rest, Good, AccountIsProven, UserProven, ListsSound, Lists

LEMMA RestIs ==
  ASSUME FilesProven', SavedUnbanned', LoginsProven(lists'.logins, trusted'), Unbanned(lists'),
         ~OtherServers => LatestIs(lists'.logins, loginFile', {}),
         \A p \in Player : (UserProven(p))'
  PROVE  Rest'
  BY DEF Rest, Good, AccountIsProven, UserProven, Unbanned, LoginsProven, LatestIs

\* What was proven stays proven.
LEMMA FilesStayProven ==
  ASSUME LInv, UNCHANGED <<loginFile, saved>>, trusted \subseteq trusted'
  PROVE  FilesProven' /\ SavedUnbanned'
  BY RestParts DEF FilesProven, SavedUnbanned

LEMMA ProvenMore ==
  ASSUME NEW q, NEW proven, NEW more, LoginsProven(q, proven), proven \subseteq more
  PROVE  LoginsProven(q, more)
  BY DEF LoginsProven

\* A step that leaves the files of logins as they are, and searches the lists at most.
LEMMA SoughtStep ==
  ASSUME LInv, NEW u \in Uid, NEW n \in Name, Sought(lists, lists', u, n),
         UNCHANGED <<loginFile, saved>>, trusted \subseteq trusted',
         \A p \in Player : (UserProven(p))'
  PROVE  Rest'
  <1>1. /\ LoginsProven(lists'.logins, trusted) /\ Unbanned(lists')
        /\ ~OtherServers => LatestIs(lists'.logins, loginFile, {})
    BY RestParts, SoughtGood
  <1>2. LoginsProven(lists'.logins, trusted')
    BY <1>1, ProvenMore
  <1>3. ~OtherServers => LatestIs(lists'.logins, loginFile', {})
    BY <1>1
  <1> QED BY <1>1, <1>2, <1>3, FilesStayProven, RestIs

\* A step that only reads an account's file again, or leaves the lists as they are.
LEMMA KeptStep ==
  ASSUME LInv, Kept(lists, lists'), lists'.logins = lists.logins,
         UNCHANGED <<loginFile, saved>>, trusted \subseteq trusted',
         \A p \in Player : (UserProven(p))'
  PROVE  Rest'
  <1>1. /\ LoginsProven(lists'.logins, trusted) /\ Unbanned(lists')
        /\ ~OtherServers => LatestIs(lists'.logins, loginFile', {})
    BY RestParts DEF Unbanned, Kept
  <1>2. LoginsProven(lists'.logins, trusted')
    BY <1>1, ProvenMore
  <1> QED BY <1>1, <1>2, FilesStayProven, RestIs

LEMMA SameKept ==
  ASSUME lists' = lists
  PROVE  Kept(lists, lists') /\ lists'.logins = lists.logins
  BY DEF Kept

\* What ClientUserInfoChanged finds for a player with uid u.
LEMMA ResolveSeeks ==
  ASSUME LInv, NEW p \in Player, NEW u \in Uid, NEW n \in Name, ResolveUserInfo(p, u, n)
  PROVE  /\ Sought(lists, lists', u, n)
         /\ \A q \in Player \ {p} : pState'[q] = pState[q] /\ iState'[q] = iState[q]
         /\ \/ pState'[p] = pState[p] /\ iState[p] \in {"SPAWNED", "LOAD_FIX"}
            \/ pState'[p] \in Account => <<u, pState'[p]>> \in trusted
  <1> DEFINE s == GGM_GetState(lists, u, n)
  <1>1. PlayersType /\ ListsSound(lists) /\ FilesSound
    BY RestParts
  <1>2. /\ Sought(lists, s.lists, u, n) /\ Sought(lists, GGM_ReadPersist(s.lists, s.ret), u, n)
        /\ s.ret \in Account => Named(lists, u, n, s.ret)
    BY <1>1, GetStateKeeps
  <1>3. \/ UNCHANGED <<iState, pState, lists>> /\ iState[p] = "SPAWNED"
        \/ /\ s.ret = pState[p] /\ lists' = s.lists
           /\ iState' = [iState EXCEPT ![p] = IF @ = "OFF" THEN "UNINITIALIZED" ELSE @]
           /\ UNCHANGED pState
        \/ iState[p] = "LOAD_FIX" /\ lists' = s.lists /\ UNCHANGED <<iState, pState>>
        \/ /\ lists' = GGM_ReadPersist(s.lists, s.ret)
           /\ pState' = [pState EXCEPT ![p] = s.ret]
           /\ iState' = [iState EXCEPT ![p] = "UNINITIALIZED"]
    BY DEF ResolveUserInfo
  <1> HIDE DEF s
  <1>4. Sought(lists, lists, u, n)
    BY DEF Sought, Kept
  <1>5. Sought(lists, lists', u, n)
    BY <1>2, <1>3, <1>4
  <1>6. s.ret \in Account => <<u, s.ret>> \in trusted
    BY <1>2, NamedProven, RestParts
  <1> QED BY <1>1, <1>3, <1>5, <1>6 DEF PlayersType

LEMMA ClientConnectRest ==
  ASSUME LInv, NEW p \in Player, NEW u \in Uid, NEW n \in Name, ClientConnect(p, u, n)
  PROVE  Rest'
  <1>1. PlayersType /\ \A q \in Player : UserProven(q)
    BY RestParts
  <1>2. /\ iState[p] = "OFF" /\ UNCHANGED <<files, trusted>> /\ uid' = [uid EXCEPT ![p] = u]
    BY DEF ClientConnect, Connected
  <1>3. CASE pState[p] = NoState /\ UNCHANGED <<pState, lists>>
             /\ iState' = [iState EXCEPT ![p] = "UNINITIALIZED"]
    <2>1. \A q \in Player : (UserProven(q))'
      BY <1>1, <1>2, <1>3, RegistryAssumption DEF UserProven, PlayersType, Connected, Registered
    <2> QED BY <1>2, <1>3, <2>1, SameKept, KeptStep DEF files
  <1>4. CASE ResolveUserInfo(p, u, n)
    <2>1. /\ Sought(lists, lists', u, n)
          /\ \A q \in Player \ {p} : pState'[q] = pState[q] /\ iState'[q] = iState[q]
          /\ pState'[p] \in Account => <<u, pState'[p]>> \in trusted
      BY <1>2, <1>4, ResolveSeeks
    <2>2. \A q \in Player : (UserProven(q))'
      BY <1>1, <1>2, <2>1 DEF UserProven, PlayersType, Connected, Registered
    <2> QED BY <1>2, <2>1, <2>2, SoughtStep DEF files
  <1> QED BY <1>3, <1>4 DEF ClientConnect

LEMMA UserInfoRest ==
  ASSUME LInv, NEW p \in Player, NEW n \in Name, ClientUserInfoChanged(p, n)
  PROVE  Rest'
  <1>1. PlayersType /\ \A q \in Player : UserProven(q)
    BY RestParts
  <1>2. Connected(p) /\ UNCHANGED <<uid, files, trusted>> /\ ResolveUserInfo(p, uid[p], n)
    BY DEF ClientUserInfoChanged
  <1>3. uid[p] \in Uid
    BY <1>1, <1>2 DEF PlayersType, Connected
  <1>4. /\ Sought(lists, lists', uid[p], n)
        /\ \A q \in Player \ {p} : pState'[q] = pState[q] /\ iState'[q] = iState[q]
        /\ \/ pState'[p] = pState[p]
           \/ pState'[p] \in Account => <<uid[p], pState'[p]>> \in trusted
    BY <1>2, <1>3, ResolveSeeks
  <1>5. \A q \in Player : (UserProven(q))'
    BY <1>1, <1>2, <1>4 DEF UserProven, Connected, Registered
  <1> QED BY <1>2, <1>3, <1>4, <1>5, SoughtStep DEF files

LEMMA PutinServerRest ==
  ASSUME LInv, NEW p \in Player, GGM_ClientPutinServer(p)
  PROVE  Rest'
  <1> DEFINE s == GGM_GetState(lists, uid[p], name[p])
  <1>1. /\ PlayersType /\ ListsSound(lists) /\ FilesSound /\ FilesProven
        /\ LoginsProven(lists.logins, trusted) /\ \A q \in Player : UserProven(q)
    BY RestParts
  <1>2. /\ iState[p] = "UNINITIALIZED" /\ UNCHANGED <<uid, name, files, trusted>>
        /\ pState' = [pState EXCEPT ![p] = s.ret]
        /\ lists' = GGM_ReadPersist(s.lists, s.ret)
        /\ iState' = [iState EXCEPT ![p] = "SPECTATOR"]
    BY DEF GGM_ClientPutinServer
  <1>3. uid[p] \in Uid /\ name[p] \in Name
    BY <1>1, <1>2 DEF PlayersType
  <1>4. /\ Sought(lists, lists', uid[p], name[p])
        /\ s.ret \in Account => Named(lists, uid[p], name[p], s.ret)
    BY <1>1, <1>2, <1>3, GetStateKeeps
  <1> HIDE DEF s
  <1>5. s.ret \in Account => <<uid[p], s.ret>> \in trusted
    BY <1>1, <1>3, <1>4, NamedProven
  <1>6. \A q \in Player : (UserProven(q))'
    BY <1>1, <1>2, <1>5 DEF UserProven, PlayersType, Connected, Registered
  <1> QED BY <1>2, <1>3, <1>4, <1>6, SoughtStep DEF files

\* Steps that leave the uids, the records of the players and what was proven as they are.
LEMMA ReadRest ==
  ASSUME LInv, NEW p \in Player, UTIL_SpawnPlayer(p) \/ GGM_RestoreState(p)
  PROVE  Rest'
  <1>1. PlayersType /\ ListsSound(lists) /\ FilesSound /\ \A q \in Player : UserProven(q)
    BY RestParts
  <1>2. lists' = GGM_ReadPersist(lists, pState[p]) /\ UNCHANGED <<pState, uid, files, trusted>>
    BY DEF UTIL_SpawnPlayer, GGM_RestoreState, players
  <1>3. \A q \in Player : Connected(q)' => Connected(q)
    BY <1>1 DEF UTIL_SpawnPlayer, GGM_RestoreState, players, Connected, PlayersType
  <1>4. Kept(lists, lists') /\ lists'.logins = lists.logins
    BY <1>1, <1>2, ReadPersistKeeps
  <1>5. \A q \in Player : (UserProven(q))'
    BY <1>1, <1>2, <1>3 DEF UserProven, Registered
  <1> QED BY <1>2, <1>4, <1>5, KeptStep DEF files

LEMMA WatchRest ==
  ASSUME LInv, NEW p \in Player,
         Respawn(p) \/ Spectate(p) \/ ClientDisconnect(p) \/ LeaveLoadFix(p)
  PROVE  Rest'
  <1>1. PlayersType /\ \A q \in Player : UserProven(q)
    BY RestParts
  <1>2. UNCHANGED <<lists, files, trusted>>
    BY DEF Respawn, Spectate, ClientDisconnect, LeaveLoadFix
  <1>3. NoState \notin Account
    BY RegistryAssumption
  <1>4. \A q \in Player : (UserProven(q))'
    BY <1>1, <1>2, <1>3 DEF Respawn, Spectate, ClientDisconnect, LeaveLoadFix, UserProven,
                            Connected, Registered, PlayersType
  <1> QED BY <1>2, <1>4, SameKept, KeptStep DEF files

LEMMA AuthArrivesRest ==
  ASSUME LInv, NEW p \in Player, NEW u \in Uid, AuthArrives(p, u)
  PROVE  Rest'
  <1>1. PlayersType /\ \A q \in Player : UserProven(q)
    BY RestParts
  <1>2. /\ UNCHANGED <<iState, pState, name, lists, files>> /\ uid' = [uid EXCEPT ![p] = u]
        /\ trusted' = IF Registered(pState[p]) THEN trusted \cup {<<u, pState[p]>>} ELSE trusted
    BY DEF AuthArrives
  <1>3. \A q \in Player : (UserProven(q))'
    BY <1>1, <1>2 DEF UserProven, Connected, Registered, PlayersType
  <1> QED BY <1>2, <1>3, SameKept, KeptStep DEF files
-----------------------------------------------------------------------------
(* Steps that change logins, accounts and saved games. *)

LEMMA ChangePasswordRest ==
  ASSUME LInv, NEW p \in Player, NEW w \in Password, GGM_ChangePassword(p, w)
  PROVE  Rest'
  <1> DEFINE f == [lists.registered EXCEPT ![pState[p]].szPassword = w]
  <1>1. PlayersType /\ ListsSound(lists) /\ \A q \in Player : UserProven(q)
    BY RestParts
  <1>2. /\ UNCHANGED <<players, loginFile, saved, trusted>>
        /\ lists' = [lists EXCEPT !.registered[pState[p]].szPassword = w]
    BY DEF GGM_ChangePassword
  <1>3. lists \in Lists /\ lists.registered \in Partial(Account, Registration)
    BY <1>1 DEF ListsSound, Lists
  <1>4. lists.registered \in [DOMAIN lists.registered -> Registration]
    BY <1>3, PartialFacts
  <1>5. /\ DOMAIN f = DOMAIN lists.registered
        /\ \A a \in DOMAIN f : f[a].fIsTempBanned = lists.registered[a].fIsTempBanned
    BY <1>4 DEF Registration
  <1>6. lists' = [lists EXCEPT !.registered = f]
    BY <1>2, <1>3 DEF Lists
  <1> HIDE DEF f
  <1>7. Kept(lists, lists') /\ lists'.logins = lists.logins
    BY <1>3, <1>5, <1>6 DEF Lists, Kept
  <1>8. \A q \in Player : (UserProven(q))'
    BY <1>1, <1>2 DEF players, UserProven, Connected, Registered
  <1> QED BY <1>2, <1>7, <1>8, KeptStep

LEMMA SaveRest ==
  ASSUME LInv, GGM_Save
  PROVE  Rest'
  <1>1. UNCHANGED <<players, lists, regFile, loginFile, trusted>>
        /\ saved'.registered = [a \in DOMAIN lists.registered |-> lists.registered[a].fIsTempBanned]
    BY DEF GGM_Save
  <1>2. /\ LoginsProven(lists'.logins, trusted') /\ Unbanned(lists')
        /\ ~OtherServers => LatestIs(lists'.logins, loginFile', {})
    BY <1>1, RestParts
  <1>3. SavedUnbanned'
    BY <1>1, RestParts DEF SavedUnbanned, Unbanned
  <1>4. FilesProven'
    BY <1>1, RestParts DEF FilesProven
  <1>5. \A q \in Player : (UserProven(q))'
    BY <1>1, RestParts DEF players, UserProven, Connected, Registered
  <1> QED BY <1>2, <1>3, <1>4, <1>5, RestIs

\* No player has a record and no login is known.
LEMMA ForgetRest ==
  ASSUME pState' = [p \in Player |-> NoState], lists'.logins = <<>>, Unbanned(lists'),
         FilesProven', SavedUnbanned'
  PROVE  Rest'
  <1>1. NoState \notin Account
    BY RegistryAssumption
  <1>2. \A q \in Player : (UserProven(q))'
    BY <1>1 DEF UserProven, Registered
  <1>3. LoginsProven(lists'.logins, trusted') /\ LatestIs(lists'.logins, loginFile', {})
    BY DEF LoginsProven, LatestIs
  <1> QED BY <1>2, <1>3, RestIs

LEMMA ClearRest ==
  ASSUME LInv, GGM_ClearLists, UNCHANGED <<loginFile, saved, trusted>>
  PROVE  Rest'
  <1>1. FilesProven' /\ SavedUnbanned'
    BY FilesStayProven
  <1>2. lists' = [registered |-> <<>>, anonymous |-> <<>>, logins |-> <<>>]
    BY DEF GGM_ClearLists, NoLists
  <1>3. lists'.logins = <<>> /\ Unbanned(lists')
    BY <1>2 DEF Unbanned
  <1> QED BY <1>1, <1>3, ForgetRest DEF GGM_ClearLists

LEMMA LoadRest ==
  ASSUME LInv, GGM_Load
  PROVE  Rest'
  <1> DEFINE f == [a \in DOMAIN saved.registered |->
                     [szPassword |-> regFile[a], fIsTempBanned |-> saved.registered[a]]]
  <1>1. /\ saved # NoFile /\ UNCHANGED <<files, trusted>> /\ pState' = [p \in Player |-> NoState]
        /\ lists' = [registered |-> f, anonymous |-> saved.anonymous, logins |-> <<>>]
    BY DEF GGM_Load
  <1>2. \A a \in DOMAIN f : ~f[a].fIsTempBanned
    BY <1>1, RestParts DEF SavedUnbanned
  <1> HIDE DEF f
  <1>3. lists'.logins = <<>> /\ Unbanned(lists')
    BY <1>1, <1>2 DEF Unbanned
  <1>4. FilesProven' /\ SavedUnbanned'
    BY <1>1, FilesStayProven DEF files
  <1> QED BY <1>1, <1>3, <1>4, ForgetRest

LEMMA ActivateRest ==
  ASSUME LInv, COOP_ServerActivate
  PROVE  Rest'
  <1>1. UNCHANGED <<files, trusted>>
    BY DEF COOP_ServerActivate
  <1>2. CASE GGM_ClearLists
    BY <1>1, <1>2, ClearRest DEF files
  <1>3. CASE pState' = [p \in Player |-> NoState] /\ UNCHANGED lists
    <2>1. NoState \notin Account
      BY RegistryAssumption
    <2>2. \A q \in Player : (UserProven(q))'
      BY <1>3, <2>1 DEF UserProven, Registered
    <2> QED BY <1>1, <1>3, <2>2, SameKept, KeptStep DEF files
  <1> QED BY <1>2, <1>3 DEF COOP_ServerActivate

LEMMA OtherServerRest ==
  ASSUME LInv, OtherServer
  PROVE  Rest'
  <1>1. OtherServers /\ UNCHANGED <<players, lists, saved>> /\ trusted \subseteq trusted'
    BY DEF OtherServer
  <1>2. /\ LoginsProven(lists.logins, trusted) /\ Unbanned(lists) /\ FilesProven /\ SavedUnbanned
        /\ FilesSound /\ \A q \in Player : UserProven(q)
    BY RestParts
  <1>3. LoginsProven(lists'.logins, trusted') /\ Unbanned(lists')
    BY <1>1, <1>2, ProvenMore
  <1>4. SavedUnbanned' /\ \A q \in Player : (UserProven(q))'
    BY <1>1, <1>2 DEF SavedUnbanned, players, UserProven, Connected, Registered
  <1>5. loginFile \in [Uid \X Name -> Account \cup {NoFile}]
    BY <1>2 DEF FilesSound, FilesType
  <1>6. FilesProven'
    <2>1. CASE UNCHANGED <<loginFile, trusted>>
      BY <1>2, <2>1 DEF FilesProven
    <2>2. ASSUME NEW u \in Uid, NEW n \in Name, NEW a \in Account,
                 loginFile' = [loginFile EXCEPT ![<<u, n>>] = a], trusted' = trusted \cup {<<u, a>>}
          PROVE  FilesProven'
      BY <1>2, <1>5, <2>2 DEF FilesProven
    <2>3. ASSUME NEW u \in Uid, NEW n \in Name,
                 loginFile' = [loginFile EXCEPT ![<<u, n>>] = NoFile], trusted' = trusted
          PROVE  FilesProven'
      BY <1>2, <1>5, <2>3 DEF FilesProven
    <2> QED BY <2>1, <2>2, <2>3 DEF OtherServer
  <1> QED BY <1>1, <1>3, <1>4, <1>6, RestIs

\* The login is unlinked, the record looked up again, and last the login's file removed.
LEMMA LogoutRest ==
  ASSUME LInv, NEW p \in Player, GGM_Logout(p)
  PROVE  Rest'
  <1> DEFINE u == uid[p]
             n == name[p]
             found == Matches(lists, u, n)
             q == RemoveAt(lists.logins, First(found))
             unlinked == IF found = {} THEN lists
                         ELSE [lists EXCEPT !.logins = RemoveAt(@, First(found))]
             s == GGM_GetState(unlinked, u, n)
  <1>1. /\ PlayersType /\ ListsSound(lists) /\ FilesSound /\ FilesProven /\ SavedUnbanned
        /\ LoginsProven(lists.logins, trusted) /\ Unbanned(lists)
        /\ lists.logins \in Seq(GGMLogin) /\ lists \in Lists
        /\ ~OtherServers => LatestIs(lists.logins, loginFile, {})
        /\ \A r \in Player : UserProven(r)
    BY RestParts DEF ListsSound
  <1>2. /\ Connected(p) /\ UNCHANGED <<iState, uid, name, regFile, saved, trusted>>
        /\ pState' = [pState EXCEPT ![p] = s.ret]
        /\ lists' = GGM_ReadPersist(s.lists, s.ret)
        /\ loginFile' = [loginFile EXCEPT ![<<u, n>>] = NoFile]
    BY DEF GGM_Logout
  <1>3. u \in Uid /\ n \in Name /\ <<u, n>> \in Uid \X Name
    BY <1>1, <1>2 DEF Connected, PlayersType
  <1> HIDE DEF u, n
  <1>4. /\ ListsSound(unlinked) /\ LoginsProven(unlinked.logins, trusted) /\ Unbanned(unlinked)
        /\ ~OtherServers => LatestIs(unlinked.logins, loginFile, {<<u, n>>})
    <2>1. CASE found = {}
      <3>1. unlinked = lists
        BY <2>1
      <3> HIDE DEF unlinked
      <3>2. LatestIs(lists.logins, loginFile, {}) =>
              LatestIs(lists.logins, loginFile, {<<u, n>>})
        BY DEF LatestIs
      <3> QED BY <1>1, <3>1, <3>2
    <2>2. CASE found # {}
      <3> DEFINE k == First(found)
      <3>1. k \in 1..Len(lists.logins) /\ Key(lists.logins[k]) = <<u, n>>
        BY <1>1, <2>2, MatchIs
      <3>2. unlinked = [lists EXCEPT !.logins = RemoveAt(@, k)]
        BY <2>2
      <3> HIDE DEF k, unlinked
      <3>3. ListsSound(unlinked)
        BY <1>1, <3>1, <3>2, RemoveLoginOK DEF Grown
      <3>4. unlinked.logins = RemoveAt(lists.logins, k) /\ unlinked.registered = lists.registered
        BY <1>1, <3>2 DEF Lists
      <3>5. LoginsProven(unlinked.logins, trusted)
        BY <1>1, <3>1, <3>4, ProvenWithout
      <3>6. LatestIs(lists.logins, loginFile, {}) =>
              LatestIs(unlinked.logins, loginFile, {<<u, n>>})
        BY <1>1, <3>1, <3>4, LatestWithout
      <3> QED BY <1>1, <3>3, <3>4, <3>5, <3>6 DEF Unbanned
    <2> QED BY <2>1, <2>2
  <1> HIDE DEF unlinked
  <1>5. /\ Sought(unlinked, lists', u, n)
        /\ s.ret \in Account => Named(unlinked, u, n, s.ret)
    BY <1>1, <1>2, <1>3, <1>4, GetStateKeeps
  <1>6. Grown(unlinked, lists')
    BY <1>1, <1>2, <1>3, <1>4, GetStatePersistOK
  <1> HIDE DEF s
  <1>7. s.ret \in Account => <<u, s.ret>> \in trusted
    BY <1>1, <1>3, <1>4, <1>5, NamedProven
  <1>8. /\ LoginsProven(lists'.logins, trusted') /\ Unbanned(lists')
        /\ ~OtherServers => LatestIs(lists'.logins, loginFile, {<<u, n>>})
    BY <1>1, <1>2, <1>3, <1>4, <1>5, SoughtGood
  <1>9. ~OtherServers => LatestIs(lists'.logins, loginFile', {})
    <2>1. lists'.logins \in Seq(GGMLogin)
      BY <1>6 DEF Grown, ListsSound, Lists
    <2>2. loginFile \in [Uid \X Name -> Account \cup {NoFile}]
      BY <1>1 DEF FilesSound, FilesType
    <2> QED BY <1>2, <1>3, <1>8, <2>1, <2>2, LatestForgets
  <1>10. FilesProven'
    BY <1>1, <1>2, <1>3 DEF FilesProven, FilesSound, FilesType
  <1>11. SavedUnbanned'
    BY <1>1, <1>2 DEF SavedUnbanned
  <1>12. \A r \in Player : (UserProven(r))'
    BY <1>1, <1>2, <1>7 DEF UserProven, Connected, Registered, PlayersType, u
  <1> QED BY <1>8, <1>9, <1>10, <1>11, <1>12, RestIs

\* Adding the login of a player who gave the account's password, in the list and in its file.
LEMMA LoginAdded ==
  ASSUME LInv, NEW u \in Uid, NEW n \in Name, NEW a \in Account, NEW l \in Lists,
         l.logins = lists.logins, Unbanned(l), lists' = AddLogin(l, u, n, a),
         loginFile' = [loginFile EXCEPT ![<<u, n>>] = a], saved' = saved,
         trusted \cup {<<u, a>>} \subseteq trusted', \A p \in Player : (UserProven(p))'
  PROVE  Rest'
  <1> DEFINE e == [szUID |-> u, szName |-> n, pState |-> a]
  <1>1. /\ FilesSound /\ FilesProven /\ SavedUnbanned
        /\ LoginsProven(lists.logins, trusted) /\ lists.logins \in Seq(GGMLogin)
        /\ ~OtherServers => LatestIs(lists.logins, loginFile, {})
    BY RestParts
  <1>2. loginFile \in [Uid \X Name -> Account \cup {NoFile}]
    BY <1>1 DEF FilesSound, FilesType
  <1>3. e \in GGMLogin /\ e.szUID = u /\ e.pState = a /\ Key(e) = <<u, n>>
    BY DEF GGMLogin, Key
  <1>4. lists'.logins = <<e>> \o lists.logins /\ lists'.registered = l.registered
    BY AddLoginIs
  <1> HIDE DEF e
  <1>5. LoginsProven(lists.logins, trusted') /\ <<e.szUID, e.pState>> \in trusted'
    BY <1>1, <1>3, ProvenMore
  <1>6. LoginsProven(lists'.logins, trusted')
    BY <1>1, <1>3, <1>4, <1>5, ProvenAtHead
  <1>7. /\ \A k \in Uid \X Name : k # Key(e) => loginFile'[k] = loginFile[k]
        /\ loginFile'[Key(e)] = e.pState
    BY <1>2, <1>3
  <1>8. ~OtherServers => LatestIs(lists'.logins, loginFile', {})
    <2> DEFINE q == lists.logins
               new == loginFile'
    <2>1. LatestIs(q, loginFile, {}) => LatestIs(<<e>> \o q, new, {})
      <3>1. q \in Seq(GGMLogin)
        BY <1>1
      <3>2. (\A k \in Uid \X Name : k # Key(e) => new[k] = loginFile[k]) /\ new[Key(e)] = e.pState
        BY <1>7
      <3> HIDE DEF q, new
      <3> QED BY <1>3, <3>1, <3>2, LatestAtHead
    <2> QED BY <1>1, <1>4, <2>1
  <1>9. FilesProven' /\ SavedUnbanned'
    BY <1>1, <1>2 DEF FilesProven, SavedUnbanned
  <1>10. Unbanned(lists')
    BY <1>4 DEF Unbanned
  <1> QED BY <1>6, <1>8, <1>9, <1>10, RestIs

\* What a login does: nothing but the search, or the record is freed and the login added.
LoginSucceeds(p, a, w) ==
  LET r == GGM_GetRegistration(lists, a)
  IN  r.ret # NoState /\ r.lists.registered[a].szPassword = w

FreedBy(p) ==
  IF pState[p] = NoState THEN [pState |-> pState, anonymous |-> lists.anonymous]
  ELSE GGM_FreeState(p, pState[p])

LEMMA LoginIs ==
  ASSUME NEW p \in Player, NEW a \in Account, NEW w \in Password, GGM_Login(p, a, w)
  PROVE  LET r == GGM_GetRegistration(lists, a)
         IN  /\ Connected(p) /\ ~Registered(pState[p])
             /\ UNCHANGED <<iState, uid, name, regFile, saved>>
             /\ \/ lists' = r.lists /\ UNCHANGED <<pState, loginFile, trusted>>
                \/ /\ LoginSucceeds(p, a, w)
                   /\ lists' = AddLogin([r.lists EXCEPT !.anonymous = FreedBy(p).anonymous],
                                        uid[p], name[p], a)
                   /\ loginFile' = [loginFile EXCEPT ![<<uid[p], name[p]>>] = a]
                   /\ pState' = [FreedBy(p).pState EXCEPT ![p] = a]
                   /\ trusted' = trusted \cup {<<uid[p], a>>}
  BY DEF GGM_Login, LoginSucceeds, FreedBy

\* Freeing a record takes it from its users, and gives nobody another.
LEMMA FreedIs ==
  ASSUME LInv, NEW p \in Player, ~Registered(pState[p])
  PROVE  /\ FreedBy(p).anonymous \in Partial(Uid, BOOLEAN)
         /\ FreedBy(p).pState \in [Player -> Account \cup Uid \cup {NoState}]
         /\ \A q \in Player : FreedBy(p).pState[q] \in {pState[q], NoState}
         /\ \A v \in DOMAIN lists.anonymous \ {pState[p]} :
              /\ v \in DOMAIN FreedBy(p).anonymous
              /\ FreedBy(p).anonymous[v] = lists.anonymous[v]
  <1>1. IInv /\ PlayersType /\ ListsSound(lists)
    BY RestParts DEF LInv
  <1>2. lists.anonymous \in Partial(Uid, BOOLEAN)
    BY <1>1 DEF ListsSound, Lists
  <1>3. CASE pState[p] = NoState
    <2>1. FreedBy(p) = [pState |-> pState, anonymous |-> lists.anonymous]
      BY <1>3 DEF FreedBy
    <2> QED BY <1>1, <1>2, <2>1 DEF PlayersType
  <1>4. CASE pState[p] # NoState
    <2>1. pState[p] \in Uid
      BY <1>1, <1>4, PointerKinds DEF Registered
    <2> DEFINE s == pState[p]
               fp == [q \in Player |-> IF pState[q] = s THEN NoState ELSE pState[q]]
               fa == Without(lists.anonymous, s)
    <2>2. FreedBy(p) = [pState |-> fp, anonymous |-> fa]
      BY <1>4 DEF FreedBy, GGM_FreeState
    <2>3. fp \in [Player -> Account \cup Uid \cup {NoState}]
      BY <1>1 DEF PlayersType
    <2>4. \A q \in Player : fp[q] \in {pState[q], NoState}
      OBVIOUS
    <2>5. fa \in Partial(Uid, BOOLEAN)
      BY <1>2, WithoutType
    <2>6. \A v \in DOMAIN lists.anonymous \ {s} : v \in DOMAIN fa /\ fa[v] = lists.anonymous[v]
      BY DEF Without
    <2> HIDE DEF fp, fa
    <2>7. FreedBy(p).pState = fp /\ FreedBy(p).anonymous = fa
      BY <2>2
    <2> QED BY <2>3, <2>4, <2>5, <2>6, <2>7
  <1> QED BY <1>3, <1>4

LEMMA LoginRest ==
  ASSUME LInv, NEW p \in Player, NEW a \in Account, NEW w \in Password, GGM_Login(p, a, w)
  PROVE  Rest'
  <1> DEFINE r == GGM_GetRegistration(lists, a)
             l == [r.lists EXCEPT !.anonymous = FreedBy(p).anonymous]
  <1>1. PlayersType /\ ListsSound(lists) /\ FilesSound /\ Unbanned(lists)
        /\ \A q \in Player : UserProven(q)
    BY RestParts
  <1>2. /\ Connected(p) /\ ~Registered(pState[p]) /\ UNCHANGED <<iState, uid, name, regFile, saved>>
        /\ \/ lists' = r.lists /\ UNCHANGED <<pState, loginFile, trusted>>
           \/ /\ lists' = AddLogin(l, uid[p], name[p], a)
              /\ loginFile' = [loginFile EXCEPT ![<<uid[p], name[p]>>] = a]
              /\ pState' = [FreedBy(p).pState EXCEPT ![p] = a]
              /\ trusted' = trusted \cup {<<uid[p], a>>}
    BY LoginIs
  <1>3. uid[p] \in Uid /\ name[p] \in Name
    BY <1>1, <1>2 DEF Connected, PlayersType
  <1>4. Kept(lists, r.lists) /\ r.lists.logins = lists.logins
    BY <1>1, GetRegistrationKeeps
  <1>5. ListsSound(r.lists) /\ r.lists \in Lists
    BY <1>1, GetRegistrationOK DEF Grown, ListsSound
  <1> HIDE DEF r
  <1>6. CASE lists' = r.lists /\ UNCHANGED <<pState, loginFile, trusted>>
    <2>1. \A q \in Player : (UserProven(q))'
      BY <1>1, <1>2, <1>6 DEF UserProven, Connected, Registered
    <2> QED BY <1>2, <1>4, <1>6, <2>1, KeptStep
  <1>7. CASE /\ lists' = AddLogin(l, uid[p], name[p], a)
             /\ loginFile' = [loginFile EXCEPT ![<<uid[p], name[p]>>] = a]
             /\ pState' = [FreedBy(p).pState EXCEPT ![p] = a]
             /\ trusted' = trusted \cup {<<uid[p], a>>}
    <2>1. /\ FreedBy(p).anonymous \in Partial(Uid, BOOLEAN)
          /\ FreedBy(p).pState \in [Player -> Account \cup Uid \cup {NoState}]
          /\ \A q \in Player : FreedBy(p).pState[q] \in {pState[q], NoState}
      BY <1>2, FreedIs
    <2>2. l \in Lists /\ l.logins = lists.logins /\ l.registered = r.lists.registered
      BY <1>4, <1>5, <2>1 DEF Lists
    <2> HIDE DEF l
    <2>3. Unbanned(l)
      BY <1>1, <1>4, <2>2 DEF Unbanned, Kept
    <2>4. NoState \notin Account
      BY RegistryAssumption
    <2>5. \A q \in Player : (UserProven(q))'
      BY <1>1, <1>2, <1>7, <2>1, <2>4 DEF UserProven, Connected, Registered
    <2> QED BY <1>2, <1>3, <1>7, <2>2, <2>3, <2>5, LoginAdded
  <1> QED BY <1>2, <1>6, <1>7

\* What a registration does: nothing but the search, or the record becomes the account.
Turned(p, a, w) ==
  With(lists.registered, a, [szPassword |-> w, fIsTempBanned |-> lists.anonymous[pState[p]]])

LEMMA RegisterIs ==
  ASSUME LInv, NEW p \in Player, NEW a \in Account, NEW w \in Password, GGM_Register(p, a, w)
  PROVE  LET l == [registered |-> Turned(p, a, w), anonymous |-> FreedBy(p).anonymous,
                   logins |-> lists.logins]
         IN  /\ Connected(p) /\ MayRegister(p) /\ ~Registered(pState[p])
             /\ UNCHANGED <<iState, uid, name, saved>>
             /\ \/ /\ lists' = GGM_GetRegistration(lists, a).lists
                   /\ UNCHANGED <<pState, regFile, loginFile, trusted>>
                \/ /\ ~NameBusy(a)
                   /\ lists' = AddLogin(l, pState[p], name[p], a)
                   /\ regFile' = [regFile EXCEPT ![a] = w]
                   /\ loginFile' = [loginFile EXCEPT ![<<pState[p], name[p]>>] = a]
                   /\ pState' = [FreedBy(p).pState EXCEPT ![p] = a]
                   /\ trusted' = trusted \cup {<<pState[p], a>>, <<uid[p], a>>}
  <1> DEFINE s == pState[p]
             free == GGM_FreeState(p, s)
             new == [szPassword |-> w, fIsTempBanned |-> lists.anonymous[s]]
             l == [lists EXCEPT !.registered = With(@, a, new), !.anonymous = free.anonymous]
             f == Turned(p, a, w)
  <1>1. s # NoState /\ ~Registered(s)
    BY RegistryAssumption DEF GGM_Register, MayRegister, Registered
  <1>2. free = FreedBy(p)
    BY <1>1 DEF FreedBy
  <1>3. lists \in Lists
    BY RestParts DEF ListsSound
  <1>4. l = [registered |-> f, anonymous |-> free.anonymous, logins |-> lists.logins]
    <2>1. l = [lists EXCEPT !.registered = f, !.anonymous = free.anonymous]
      BY DEF Turned
    <2> HIDE DEF f, free, l
    <2>2. [lists EXCEPT !.registered = f, !.anonymous = free.anonymous]
            = [[lists EXCEPT !.registered = f] EXCEPT !.anonymous = free.anonymous]
      OBVIOUS
    <2> QED BY <1>3, <2>1, <2>2 DEF Lists
  <1>5. /\ Connected(p) /\ MayRegister(p) /\ UNCHANGED <<iState, uid, name, saved>>
        /\ \/ /\ lists' = GGM_GetRegistration(lists, a).lists
              /\ UNCHANGED <<pState, regFile, loginFile, trusted>>
           \/ /\ ~NameBusy(a)
              /\ lists' = AddLogin(l, s, name[p], a)
              /\ regFile' = [regFile EXCEPT ![a] = w]
              /\ loginFile' = [loginFile EXCEPT ![<<s, name[p]>>] = a]
              /\ pState' = [free.pState EXCEPT ![p] = a]
              /\ trusted' = trusted \cup {<<s, a>>, <<uid[p], a>>}
    BY DEF GGM_Register
  <1> HIDE DEF l, free
  <1> QED BY <1>1, <1>2, <1>4, <1>5

LEMMA TurnedIs ==
  ASSUME LInv, NEW p \in Player, NEW a \in Account, NEW w \in Password, MayRegister(p)
  PROVE  /\ Turned(p, a, w) \in Partial(Account, Registration)
         /\ DOMAIN lists.registered \subseteq DOMAIN Turned(p, a, w)
         /\ \A b \in DOMAIN Turned(p, a, w) : ~Turned(p, a, w)[b].fIsTempBanned
  <1> DEFINE y == [szPassword |-> w, fIsTempBanned |-> lists.anonymous[pState[p]]]
  <1>1. IInv /\ ListsSound(lists) /\ Unbanned(lists)
    BY RestParts DEF LInv
  <1>2. /\ lists.registered \in Partial(Account, Registration)
        /\ lists.anonymous \in Partial(Uid, BOOLEAN)
    BY <1>1 DEF ListsSound, Lists
  <1>3. pState[p] \in DOMAIN lists.anonymous /\ ~lists.anonymous[pState[p]]
    BY <1>1, PointerKinds DEF MayRegister
  <1>4. lists.anonymous[pState[p]] \in BOOLEAN
    BY <1>2, <1>3, PartialFacts
  <1>5. y \in Registration /\ ~y.fIsTempBanned
    BY <1>3, <1>4 DEF Registration
  <1>6. Turned(p, a, w) = With(lists.registered, a, y)
    BY DEF Turned
  <1> HIDE DEF y
  <1>7. With(lists.registered, a, y) \in Partial(Account, Registration)
    BY <1>2, <1>5, WithType
  <1>8. /\ DOMAIN With(lists.registered, a, y) = DOMAIN lists.registered \cup {a}
        /\ \A b \in DOMAIN With(lists.registered, a, y) :
             With(lists.registered, a, y)[b] = IF b = a THEN y ELSE lists.registered[b]
    BY DEF With
  <1>9. \A b \in DOMAIN lists.registered \cup {a} : ~With(lists.registered, a, y)[b].fIsTempBanned
    BY <1>1, <1>5, <1>8 DEF Unbanned
  <1> QED BY <1>6, <1>7, <1>8, <1>9

LEMMA RegisterRest ==
  ASSUME LInv, NEW p \in Player, NEW a \in Account, NEW w \in Password, GGM_Register(p, a, w)
  PROVE  Rest'
  <1> DEFINE l == [registered |-> Turned(p, a, w), anonymous |-> FreedBy(p).anonymous,
                   logins |-> lists.logins]
  <1>1. /\ PlayersType /\ ListsSound(lists) /\ FilesSound /\ lists.logins \in Seq(GGMLogin)
        /\ \A q \in Player : UserProven(q)
    BY RestParts
  <1>2. /\ Connected(p) /\ MayRegister(p) /\ ~Registered(pState[p])
        /\ UNCHANGED <<iState, uid, name, saved>>
        /\ \/ /\ lists' = GGM_GetRegistration(lists, a).lists
              /\ UNCHANGED <<pState, regFile, loginFile, trusted>>
           \/ /\ lists' = AddLogin(l, pState[p], name[p], a)
              /\ loginFile' = [loginFile EXCEPT ![<<pState[p], name[p]>>] = a]
              /\ pState' = [FreedBy(p).pState EXCEPT ![p] = a]
              /\ trusted' = trusted \cup {<<pState[p], a>>, <<uid[p], a>>}
    BY RegisterIs
  <1>3. pState[p] \in Uid /\ name[p] \in Name
    BY <1>1, <1>2 DEF MayRegister, Connected, PlayersType
  <1>4. CASE /\ lists' = GGM_GetRegistration(lists, a).lists
             /\ UNCHANGED <<pState, regFile, loginFile, trusted>>
    <2>1. \A q \in Player : (UserProven(q))'
      BY <1>1, <1>2, <1>4 DEF UserProven, Connected, Registered
    <2>2. Kept(lists, lists') /\ lists'.logins = lists.logins
      BY <1>1, <1>4, GetRegistrationKeeps
    <2> QED BY <1>2, <1>4, <2>1, <2>2, KeptStep
  <1>5. CASE /\ lists' = AddLogin(l, pState[p], name[p], a)
             /\ loginFile' = [loginFile EXCEPT ![<<pState[p], name[p]>>] = a]
             /\ pState' = [FreedBy(p).pState EXCEPT ![p] = a]
             /\ trusted' = trusted \cup {<<pState[p], a>>, <<uid[p], a>>}
    <2>1. /\ FreedBy(p).anonymous \in Partial(Uid, BOOLEAN)
          /\ FreedBy(p).pState \in [Player -> Account \cup Uid \cup {NoState}]
          /\ \A q \in Player : FreedBy(p).pState[q] \in {pState[q], NoState}
      BY <1>2, FreedIs
    <2>2. /\ Turned(p, a, w) \in Partial(Account, Registration)
          /\ \A b \in DOMAIN Turned(p, a, w) : ~Turned(p, a, w)[b].fIsTempBanned
      BY <1>2, TurnedIs
    <2>3. l \in Lists /\ l.logins = lists.logins /\ l.registered = Turned(p, a, w)
      BY <1>1, <2>1, <2>2 DEF Lists
    <2> HIDE DEF l
    <2>4. Unbanned(l)
      BY <2>2, <2>3 DEF Unbanned
    <2>5. NoState \notin Account
      BY RegistryAssumption
    <2>6. \A q \in Player : (UserProven(q))'
      BY <1>1, <1>2, <1>5, <2>1, <2>5 DEF UserProven, Connected, Registered
    <2>7. trusted \cup {<<pState[p], a>>} \subseteq trusted'
      BY <1>5
    <2> QED BY <1>2, <1>3, <1>5, <2>3, <2>4, <2>6, <2>7, LoginAdded
  <1> QED BY <1>2, <1>4, <1>5

LEMMA CrashRest ==
  ASSUME LInv, NEW p \in Player, NEW a \in Account, NEW w \in Password, CrashInRegister(p, a, w)
  PROVE  Rest'
  BY ClearRest DEF CrashInRegister

LEMMA RestartRest ==
  ASSUME LInv, ServerRestart \/ LoadFails
  PROVE  Rest'
  BY ClearRest DEF ServerRestart, LoadFails, files

LEMMA InitRest == Init => Rest
  <1> SUFFICES ASSUME Init PROVE Rest
    OBVIOUS
  <1>1. lists.logins = <<>> /\ DOMAIN lists.registered = {}
    BY DEF Init, NoLists
  <1>2. Good(lists)
    BY <1>1 DEF Good, LoginsProven, Unbanned, LatestIs
  <1>3. AccountIsProven /\ FilesProven /\ SavedUnbanned
    BY DEF Init, AccountIsProven, Connected, FilesProven, SavedUnbanned
  <1> QED BY <1>2, <1>3 DEF Rest

LEMMA NextRest == LInv /\ [Next]_vars => Rest'
  <1> SUFFICES ASSUME LInv, [Next]_vars PROVE Rest'
    OBVIOUS
  <1>1. ASSUME NEW p \in Player, ClientCommand(p) PROVE Rest'
    BY <1>1, RegisterRest, CrashRest, LoginRest, LogoutRest, ReadRest, ChangePasswordRest,
       WatchRest DEF ClientCommand
  <1>2. ASSUME NEW p \in Player, Connection(p) PROVE Rest'
    BY <1>2, ClientConnectRest, UserInfoRest, PutinServerRest, WatchRest, AuthArrivesRest
       DEF Connection
  <1>3. CASE GGM_Save \/ GGM_Load \/ LoadFails \/ COOP_ServerActivate
               \/ ServerRestart \/ OtherServer
    BY <1>3, SaveRest, LoadRest, RestartRest, ActivateRest, OtherServerRest
  <1>4. CASE UNCHANGED vars
    <2>1. \A q \in Player : (UserProven(q))'
      BY <1>4, RestParts DEF vars, players, UserProven, Connected, Registered
    <2> QED BY <1>4, <2>1, SameKept, KeptStep DEF vars, players, files
  <1> QED BY <1>1, <1>2, <1>3, <1>4 DEF Next

LEMMA LInvAlways == Spec => []LInv
  <1>1. Init => LInv
    BY InitIInv, InitRest DEF LInv
  <1>2. LInv /\ [Next]_vars => LInv'
    BY NextIInv, NextRest DEF LInv
  <1> QED BY <1>1, <1>2, PTL DEF Spec

\* Whoever uses an account gave its password on this connection, or somebody with the same uid did
\* (GGM_GetState, GGM_LoadLogin, ClientUserInfoChanged).
THEOREM AccountsAreProven == Spec => []AccountIsProven
  <1>1. LInv => AccountIsProven
    BY DEF LInv, Rest
  <1> QED BY <1>1, LInvAlways, PTL

\* The first login of the list and the login's file name the same account (GGM_AddLogin,
\* GGM_LoadLogin, GGM_Logout), if no other server writes the files.
THEOREM TheLatestLoginWins == Spec => []LatestLoginWins
  <1>1. LInv => LatestLoginWins
    <2> SUFFICES ASSUME LInv, ~OtherServers, NEW u \in Uid, NEW n \in Name,
                        Matches(lists, u, n) # {}, loginFile[<<u, n>>] # NoFile
                 PROVE  lists.logins[First(Matches(lists, u, n))].pState = loginFile[<<u, n>>]
      BY DEF LatestLoginWins
    <2> DEFINE i == First(Matches(lists, u, n))
    <2>1. lists \in Lists /\ lists.logins \in Seq(GGMLogin) /\ LatestIs(lists.logins, loginFile, {})
      BY RestParts DEF ListsSound
    <2>2. /\ i \in 1..Len(lists.logins) /\ Key(lists.logins[i]) = <<u, n>>
          /\ \A j \in 1..(i - 1) : Key(lists.logins[j]) # <<u, n>>
      BY <2>1, MatchIs
    <2> HIDE DEF i
    <2>3. lists.logins[i].pState = loginFile[<<u, n>>]
      BY <2>1, <2>2 DEF LatestIs
    <2> QED BY <2>3 DEF i
  <1> QED BY <1>1, LInvAlways, PTL

\* A banned record never becomes an account, nor does a saved game ban one (GGM_Register,
\* GGM_ReadPlayers).
THEOREM NoAccountIsBanned == Spec => []NoBannedAccount
  <1>1. LInv => NoBannedAccount
    BY RestParts DEF Unbanned, NoBannedAccount
  <1> QED BY <1>1, LInvAlways, PTL
-----------------------------------------------------------------------------
(* What a step may never do. *)

\* A login succeeds with the password on file now (GGM_Login, GGM_GetRegistration).
THEOREM LoginsNeedThePassword == Spec => LoginByCurrentPassword
  <1>1. LInv /\ [Next]_vars =>
          [\A p \in Player, a \in Account, w \in Password :
             GGM_Login(p, a, w) /\ pState'[p] = a => regFile[a] = w]_vars
    <2> SUFFICES ASSUME LInv, NEW p \in Player, NEW a \in Account, NEW w \in Password,
                        GGM_Login(p, a, w), pState'[p] = a
                 PROVE  regFile[a] = w
      OBVIOUS
    <2>1. ~Registered(pState[p]) /\ (LoginSucceeds(p, a, w) \/ UNCHANGED pState)
      BY LoginIs
    <2>2. LoginSucceeds(p, a, w)
      BY <2>1 DEF Registered
    <2> QED BY <2>2, RestParts, GetRegistrationKeeps DEF LoginSucceeds
  <1> QED BY <1>1, LInvAlways, PTL DEF Spec, LoginByCurrentPassword

\* An account that is found to be free has no file.
LEMMA FreeMeansNoFile ==
  ASSUME LInv, NEW a \in Account, ~NameBusy(a)
  PROVE  regFile[a] = NoFile
  BY RestParts, GetRegistrationOK DEF NameBusy

\* Only what the code does for the account's user, or another server, replaces a password.
LEMMA PasswordStep ==
  ASSUME LInv, Next, NEW b \in Account, regFile[b] # NoFile, regFile'[b] # regFile[b]
  PROVE  OtherServer \/ \E p \in Player : Connected(p) /\ pState[p] = b
  <1>1. regFile \in [Account -> Password \cup {NoFile}]
    BY RestParts DEF FilesSound, FilesType
  <1>2. ASSUME NEW p \in Player, ClientCommand(p) PROVE Connected(p) /\ pState[p] = b
    <2>1. ASSUME NEW a \in Account, NEW w \in Password, GGM_Register(p, a, w) PROVE FALSE
      <3>1. \/ UNCHANGED <<pState, regFile, loginFile, trusted>>
            \/ ~NameBusy(a) /\ regFile' = [regFile EXCEPT ![a] = w]
        BY <2>1 DEF GGM_Register
      <3>2. ~NameBusy(a) /\ regFile' = [regFile EXCEPT ![a] = w]
        BY <3>1
      <3>3. a # b
        BY <3>2, FreeMeansNoFile
      <3> QED BY <1>1, <3>2, <3>3
    <2>2. ASSUME NEW a \in Account, NEW w \in Password, CrashInRegister(p, a, w) PROVE FALSE
      <3>1. ~NameBusy(a) /\ regFile' = [regFile EXCEPT ![a] = w]
        BY <2>2 DEF CrashInRegister
      <3>2. a # b
        BY <3>1, FreeMeansNoFile
      <3> QED BY <1>1, <3>1, <3>2
    <2>3. ASSUME NEW w \in Password, GGM_ChangePassword(p, w)
          PROVE  Connected(p) /\ pState[p] = b
      <3>1. Connected(p) /\ regFile' = [regFile EXCEPT ![pState[p]] = w]
        BY <2>3 DEF GGM_ChangePassword
      <3> QED BY <1>1, <3>1
    <2>4. CASE UNCHANGED regFile
      BY <2>4
    <2> QED BY <1>2, <2>1, <2>2, <2>3, <2>4 DEF ClientCommand, GGM_Login, GGM_Logout,
               GGM_RestoreState, UTIL_SpawnPlayer, Spectate, files
  <1>3. ASSUME NEW p \in Player, Connection(p) PROVE UNCHANGED regFile
    BY <1>3 DEF Connection, ClientConnect, ClientUserInfoChanged, GGM_ClientPutinServer, Respawn,
                ClientDisconnect, AuthArrives, LeaveLoadFix, files
  <1>4. CASE GGM_Save \/ GGM_Load \/ LoadFails \/ COOP_ServerActivate \/ ServerRestart
    BY <1>4 DEF GGM_Save, GGM_Load, LoadFails, COOP_ServerActivate, ServerRestart, files
  <1> QED BY <1>2, <1>3, <1>4 DEF Next

\* A registration never overwrites an account, and a password is changed only for a player who
\* uses the account (GGM_Register, GGM_ChangePassword).
THEOREM PasswordsStayTheOwners == Spec => PasswordStaysOwners
  <1>1. LInv /\ [Next]_vars =>
          [\A a \in Account : regFile[a] # NoFile /\ regFile'[a] # regFile[a] =>
             OtherServer \/ \E p \in Player : Connected(p) /\ pState[p] = a]_vars
    BY PasswordStep
  <1> QED BY <1>1, LInvAlways, PTL DEF Spec, PasswordStaysOwners

\* No anonymous record is lost or changed.
BansKept ==
  \A v \in DOMAIN lists.anonymous : v \in DOMAIN lists'.anonymous /\ lists'.anonymous[v] = lists.anonymous[v]

\* A ban ends only with a login that frees the record.
BanEnds(u) ==
  \E p \in Player, a \in Account : pState[p] = u /\ pState'[p] = a /\ regFile[a] # NoFile

LEMMA LoginBans ==
  ASSUME LInv, NEW p \in Player, NEW a \in Account, NEW w \in Password, GGM_Login(p, a, w),
         NEW u \in DOMAIN lists.anonymous
  PROVE  \/ u \in DOMAIN lists'.anonymous /\ lists'.anonymous[u] = lists.anonymous[u]
         \/ BanEnds(u)
  <1> DEFINE r == GGM_GetRegistration(lists, a)
             l == [r.lists EXCEPT !.anonymous = FreedBy(p).anonymous]
  <1>1. PlayersType /\ ListsSound(lists) /\ FilesSound
    BY RestParts
  <1>2. /\ ~Registered(pState[p])
        /\ \/ lists' = r.lists
           \/ /\ r.ret # NoState /\ pState' = [FreedBy(p).pState EXCEPT ![p] = a]
              /\ lists' = AddLogin(l, uid[p], name[p], a)
    BY LoginIs DEF LoginSucceeds
  <1>3. Kept(lists, r.lists)
    BY <1>1, GetRegistrationKeeps
  <1>4. /\ ListsSound(r.lists) /\ r.lists \in Lists
        /\ r.ret # NoState => a \in DOMAIN r.lists.registered
    BY <1>1, GetRegistrationOK DEF Grown, ListsSound
  <1> HIDE DEF r
  <1>5. CASE lists' = r.lists
    BY <1>3, <1>5 DEF Kept
  <1>6. CASE /\ r.ret # NoState /\ pState' = [FreedBy(p).pState EXCEPT ![p] = a]
             /\ lists' = AddLogin(l, uid[p], name[p], a)
    <2>1. /\ FreedBy(p).anonymous \in Partial(Uid, BOOLEAN)
          /\ FreedBy(p).pState \in [Player -> Account \cup Uid \cup {NoState}]
          /\ u # pState[p] => /\ u \in DOMAIN FreedBy(p).anonymous
                              /\ FreedBy(p).anonymous[u] = lists.anonymous[u]
      BY <1>2, FreedIs
    <2>2. l \in Lists /\ l.anonymous = FreedBy(p).anonymous
      BY <1>4, <2>1 DEF Lists
    <2>3. lists' = AddLogin(l, uid[p], name[p], a)
      BY <1>6
    <2> HIDE DEF l
    <2>5. AddLogin(l, uid[p], name[p], a).anonymous = l.anonymous
      BY <2>2 DEF AddLogin, Lists
    <2>6. lists'.anonymous = FreedBy(p).anonymous
      BY <2>2, <2>3, <2>5
    <2>4. pState'[p] = a /\ regFile[a] # NoFile
      BY <1>4, <1>6, <2>1 DEF ListsSound
    <2> QED BY <2>1, <2>4, <2>6 DEF BanEnds
  <1> QED BY <1>2, <1>5, <1>6

LEMMA RegisterBans ==
  ASSUME LInv, NEW p \in Player, NEW a \in Account, NEW w \in Password, GGM_Register(p, a, w),
         NEW u \in DOMAIN lists.anonymous, lists.anonymous[u]
  PROVE  u \in DOMAIN lists'.anonymous /\ lists'.anonymous[u] = lists.anonymous[u]
  <1> DEFINE l == [registered |-> Turned(p, a, w), anonymous |-> FreedBy(p).anonymous,
                   logins |-> lists.logins]
  <1>1. ListsSound(lists) /\ FilesSound /\ lists.logins \in Seq(GGMLogin)
    BY RestParts
  <1>2. /\ MayRegister(p) /\ ~Registered(pState[p])
        /\ \/ lists' = GGM_GetRegistration(lists, a).lists
           \/ lists' = AddLogin(l, pState[p], name[p], a)
    BY RegisterIs
  <1>3. CASE lists' = GGM_GetRegistration(lists, a).lists
    BY <1>1, <1>3, GetRegistrationKeeps
  <1>4. CASE lists' = AddLogin(l, pState[p], name[p], a)
    <2>1. u # pState[p]
      BY <1>2 DEF MayRegister
    <2>2. /\ FreedBy(p).anonymous \in Partial(Uid, BOOLEAN)
          /\ u \in DOMAIN FreedBy(p).anonymous /\ FreedBy(p).anonymous[u] = lists.anonymous[u]
      BY <1>2, <2>1, FreedIs
    <2>3. Turned(p, a, w) \in Partial(Account, Registration)
      BY <1>2, TurnedIs
    <2>4. l \in Lists /\ l.anonymous = FreedBy(p).anonymous
      BY <1>1, <2>2, <2>3 DEF Lists
    <2> HIDE DEF l
    <2>5. lists'.anonymous = FreedBy(p).anonymous
      BY <1>4, <2>4, AddLoginIs
    <2> QED BY <2>2, <2>5
  <1> QED BY <1>2, <1>3, <1>4

LEMMA LogoutBans ==
  ASSUME LInv, NEW p \in Player, GGM_Logout(p)
  PROVE  BansKept
  <1> DEFINE u == uid[p]
             n == name[p]
             found == Matches(lists, u, n)
             k == First(found)
             unlinked == IF found = {} THEN lists
                         ELSE [lists EXCEPT !.logins = RemoveAt(@, k)]
             s == GGM_GetState(unlinked, u, n)
  <1>1. PlayersType /\ ListsSound(lists) /\ FilesSound /\ lists \in Lists
    BY RestParts DEF ListsSound
  <1>2. Connected(p) /\ lists' = GGM_ReadPersist(s.lists, s.ret)
    BY DEF GGM_Logout
  <1>3. u \in Uid /\ n \in Name
    BY <1>1, <1>2 DEF Connected, PlayersType
  <1>4. found # {} => k \in 1..Len(lists.logins)
    BY <1>1, <1>3, MatchIs
  <1> HIDE DEF u, n, found, k
  <1>5. ListsSound(unlinked) /\ unlinked.anonymous = lists.anonymous
    BY <1>1, <1>4, RemoveLoginOK DEF Grown, Lists
  <1> HIDE DEF unlinked
  <1>6. Kept(unlinked, GGM_ReadPersist(s.lists, s.ret))
    BY <1>1, <1>3, <1>5, GetStateKeeps DEF Sought
  <1> QED BY <1>2, <1>5, <1>6 DEF Kept, BansKept

LEMMA ChangePasswordBans ==
  ASSUME LInv, NEW p \in Player, NEW w \in Password, GGM_ChangePassword(p, w)
  PROVE  BansKept
  <1>1. lists' = [lists EXCEPT !.registered[pState[p]].szPassword = w] /\ lists \in Lists
    BY RestParts DEF GGM_ChangePassword, ListsSound
  <1>2. lists'.anonymous = lists.anonymous
    BY <1>1 DEF Lists
  <1> QED BY <1>2 DEF BansKept

\* Connecting, renaming, spawning and watching keep every anonymous record.
LEMMA ConnectionBans ==
  ASSUME LInv, NEW p \in Player, Connection(p) \/ UTIL_SpawnPlayer(p) \/ GGM_RestoreState(p)
  PROVE  BansKept
  <1>0. PlayersType /\ ListsSound(lists) /\ FilesSound
    BY RestParts
  <1>1. CASE UNCHANGED lists
    BY <1>1 DEF BansKept
  <1>2. ASSUME NEW u \in Uid, NEW n \in Name, ClientConnect(p, u, n) PROVE BansKept
    <2>1. UNCHANGED lists \/ Kept(lists, lists')
      BY <1>2, ResolveSeeks DEF ClientConnect, Sought
    <2> QED BY <1>1, <2>1 DEF Kept, BansKept
  <1>3. ASSUME NEW n \in Name, ClientUserInfoChanged(p, n) PROVE BansKept
    <2>1. uid[p] \in Uid /\ ResolveUserInfo(p, uid[p], n)
      BY <1>0, <1>3 DEF ClientUserInfoChanged, PlayersType, Connected
    <2> QED BY <2>1, ResolveSeeks DEF Sought, Kept, BansKept
  <1>4. CASE GGM_ClientPutinServer(p)
    <2> DEFINE s == GGM_GetState(lists, uid[p], name[p])
    <2>1. iState[p] # "OFF" /\ lists' = GGM_ReadPersist(s.lists, s.ret)
      BY <1>4 DEF GGM_ClientPutinServer
    <2>2. uid[p] \in Uid /\ name[p] \in Name
      BY <1>0, <2>1 DEF PlayersType
    <2>3. Kept(lists, GGM_ReadPersist(s.lists, s.ret))
      BY <1>0, <2>2, GetStateKeeps DEF Sought
    <2> HIDE DEF s
    <2> QED BY <2>1, <2>3 DEF Kept, BansKept
  <1>5. CASE UTIL_SpawnPlayer(p) \/ GGM_RestoreState(p)
    <2>1. lists' = GGM_ReadPersist(lists, pState[p])
      BY <1>5 DEF UTIL_SpawnPlayer, GGM_RestoreState
    <2> QED BY <1>0, <2>1, ReadPersistKeeps DEF BansKept
  <1> QED BY <1>1, <1>2, <1>3, <1>4, <1>5 DEF Connection, Respawn, ClientDisconnect, AuthArrives,
             LeaveLoadFix

\* A ban outlives reconnecting, renaming and registering (GGM_GetState, GGM_Register).
THEOREM BansStick == Spec => BanSticks
  <1>1. LInv /\ [Next]_vars =>
          [\A u \in DOMAIN lists.anonymous : lists.anonymous[u] =>
             \/ u \in DOMAIN lists'.anonymous /\ lists'.anonymous[u]
             \/ GGM_ClearLists \/ GGM_Load
             \/ \E p \in Player, a \in Account : pState[p] = u /\ pState'[p] = a
                                                /\ regFile[a] # NoFile]_vars
    <2> SUFFICES ASSUME LInv, Next, NEW u \in DOMAIN lists.anonymous, lists.anonymous[u],
                        ~GGM_ClearLists, ~GGM_Load, ~BanEnds(u)
                 PROVE  u \in DOMAIN lists'.anonymous /\ lists'.anonymous[u] = lists.anonymous[u]
      BY DEF BanEnds
    <2>1. BansKept => u \in DOMAIN lists'.anonymous /\ lists'.anonymous[u] = lists.anonymous[u]
      BY DEF BansKept
    <2>2. UNCHANGED lists => BansKept
      BY DEF BansKept
    <2>3. ASSUME NEW p \in Player, ClientCommand(p)
          PROVE  u \in DOMAIN lists'.anonymous /\ lists'.anonymous[u] = lists.anonymous[u]
      BY <2>1, <2>2, <2>3, RegisterBans, LoginBans, LogoutBans, ConnectionBans, ChangePasswordBans
         DEF ClientCommand, CrashInRegister, Spectate
    <2>4. ASSUME NEW p \in Player, Connection(p) PROVE BansKept
      BY <2>4, ConnectionBans
    <2>5. CASE GGM_Save \/ LoadFails \/ COOP_ServerActivate \/ ServerRestart \/ OtherServer
      BY <2>2, <2>5 DEF GGM_Save, LoadFails, COOP_ServerActivate, ServerRestart, OtherServer
    <2> QED BY <2>1, <2>3, <2>4, <2>5 DEF Next
  <1> QED BY <1>1, LInvAlways, PTL DEF Spec, BanSticks
=============================================================================

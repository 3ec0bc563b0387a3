------------------------- MODULE GGMRegistryProofs -------------------------
(***************************************************************************)
(* Theorems about GGMRegistry, for every number of players, uids, names,   *)
(* accounts and passwords.  The lists are only ever extended by a search   *)
(* (Grown), so the lemmas follow them through the functions of the code,   *)
(* and each action is left with the pointers it changes.                   *)
(***************************************************************************)
EXTENDS GGMRegistry, WellFoundedInduction, TLAPS

\* What a pointer may be.
Known(l) == DOMAIN l.registered \cup DOMAIN l.anonymous \cup {NoState}

ListsSound(l) ==
  /\ l \in Lists
  /\ \A i \in DOMAIN l.logins : l.logins[i].pState \in DOMAIN l.registered
  /\ \A a \in DOMAIN l.registered : regFile[a] # NoFile

FilesType ==
  /\ regFile \in [Account -> Password \cup {NoFile}]
  /\ loginFile \in [Uid \X Name -> Account \cup {NoFile}]
  /\ saved = NoFile \/ saved \in SavedGame

FilesSound ==
  /\ FilesType
  /\ \A k \in Uid \X Name :
       loginFile[k] # NoFile => regFile[loginFile[k]] # NoFile
  /\ saved # NoFile => \A a \in DOMAIN saved.registered : regFile[a] # NoFile

\* m is what a search makes of l.
Grown(l, m) == /\ ListsSound(m)
               /\ DOMAIN l.registered \subseteq DOMAIN m.registered
               /\ DOMAIN l.anonymous \subseteq DOMAIN m.anonymous

PlayersType ==
  /\ iState \in [Player -> PlayerState]
  /\ pState \in [Player -> Account \cup Uid \cup {NoState}]
  /\ uid \in [Player -> Uid \cup {NoUid}]
  /\ name \in [Player -> Name \cup {NoName}]
  /\ \A p \in Player : iState[p] = "OFF" <=> uid[p] = NoUid
  /\ \A p \in Player : iState[p] = "OFF" <=> name[p] = NoName

PointersSound == \A p \in Player : pState[p] \in Known(lists)

TrustType == trusted \subseteq Uid \X Account

IInv == TypeOK /\ NoDanglingState /\ AccountsOnFile

\* The invariant, by what the steps change together.
LEMMA Parts ==
  IInv <=> /\ PlayersType /\ PointersSound /\ ListsSound(lists)
           /\ FilesSound /\ TrustType
  BY DEF IInv, TypeOK, NoDanglingState, AccountsOnFile, PlayersType,
         PointersSound, ListsSound, FilesSound, FilesType, TrustType, Known
-----------------------------------------------------------------------------
(* Functions of the code. *)

\* A partial function by its domain and its values.
LEMMA PartialFacts ==
  ASSUME NEW S, NEW T, NEW f \in Partial(S, T)
  PROVE  /\ DOMAIN f \subseteq S
         /\ f \in [DOMAIN f -> T]
  BY DEF Partial

LEMMA PartialIs ==
  ASSUME NEW S, NEW T, NEW D, D \subseteq S, NEW f \in [D -> T]
  PROVE  f \in Partial(S, T)
  BY DEF Partial

\* Adding or changing one value.
LEMMA WithType ==
  ASSUME NEW S, NEW T, NEW f \in Partial(S, T), NEW x \in S, NEW y \in T
  PROVE  With(f, x, y) \in Partial(S, T)
  <1>1. DOMAIN f \subseteq S /\ f \in [DOMAIN f -> T]
    BY PartialFacts
  <1>2. With(f, x, y) \in [DOMAIN f \cup {x} -> T]
    BY <1>1 DEF With
  <1> QED BY <1>1, <1>2, PartialIs

\* Taking one value away.
LEMMA WithoutType ==
  ASSUME NEW S, NEW T, NEW f \in Partial(S, T), NEW x
  PROVE  Without(f, x) \in Partial(S, T)
  <1>1. DOMAIN f \subseteq S /\ f \in [DOMAIN f -> T]
    BY PartialFacts
  <1>2. Without(f, x) \in [DOMAIN f \ {x} -> T]
    BY <1>1 DEF Without
  <1> QED BY <1>1, <1>2, PartialIs

\* Sound lists with another table of accounts are sound if it has the old
\* accounts, and only such as are on file.
LEMMA NewRegistered ==
  ASSUME NEW l, ListsSound(l), NEW f \in Partial(Account, Registration),
         DOMAIN l.registered \subseteq DOMAIN f,
         \A a \in DOMAIN f : regFile[a] # NoFile
  PROVE  Grown(l, [l EXCEPT !.registered = f])
  BY DEF Grown, ListsSound, Lists

\* Reading an account's file again.
LEMMA ReadPersistOK ==
  ASSUME NEW l, ListsSound(l), FilesSound, NEW s
  PROVE  Grown(l, GGM_ReadPersist(l, s))
  <1>1. CASE s \in DOMAIN l.registered /\ regFile[s] # NoFile
    <2> DEFINE f == [l.registered EXCEPT ![s].szPassword = regFile[s]]
    <2>1. l \in Lists
      BY DEF ListsSound
    <2>2. l.registered \in Partial(Account, Registration)
      BY <2>1 DEF Lists
    <2>3. /\ DOMAIN l.registered \subseteq Account
          /\ l.registered \in [DOMAIN l.registered -> Registration]
      BY <2>2, PartialFacts
    <2>4. regFile[s] \in Password
      BY <1>1, <2>3 DEF FilesSound, FilesType
    <2>5. f \in [DOMAIN l.registered -> Registration]
      BY <2>3, <2>4 DEF Registration
    <2>6. f \in Partial(Account, Registration)
      BY <2>3, <2>5, PartialIs
    <2>7. Grown(l, [l EXCEPT !.registered = f])
      BY <2>5, <2>6, NewRegistered DEF ListsSound
    <2>8. GGM_ReadPersist(l, s) = [l EXCEPT !.registered = f]
      BY <1>1, <2>1 DEF GGM_ReadPersist, Lists
    <2> QED BY <2>7, <2>8
  <1>2. CASE ~(s \in DOMAIN l.registered /\ regFile[s] # NoFile)
    BY <1>2 DEF GGM_ReadPersist, Grown
  <1> QED BY <1>1, <1>2

\* A new account, or one that is read from its file.
NewAccount(l, a, w, b) ==
  [l EXCEPT !.registered =
     With(l.registered, a, [szPassword |-> w, fIsTempBanned |-> b])]

LEMMA NewAccountOK ==
  ASSUME NEW l, ListsSound(l), NEW a \in Account, NEW w \in Password,
         NEW b \in BOOLEAN, regFile[a] # NoFile
  PROVE  /\ Grown(l, NewAccount(l, a, w, b))
         /\ a \in DOMAIN NewAccount(l, a, w, b).registered
  <1>1. l \in Lists /\ l.registered \in Partial(Account, Registration)
    BY DEF ListsSound, Lists
  <1>2. PICK y \in Registration : y = [szPassword |-> w, fIsTempBanned |-> b]
    BY DEF Registration
  <1> DEFINE f == With(l.registered, a, y)
  <1>3. f \in Partial(Account, Registration)
    BY <1>1, WithType
  <1>7. DOMAIN f = DOMAIN l.registered \cup {a}
    BY DEF With
  <1>4. NewAccount(l, a, w, b) = [l EXCEPT !.registered = f]
    BY <1>2 DEF NewAccount
  <1> HIDE DEF f
  <1>5. Grown(l, [l EXCEPT !.registered = f])
    BY <1>3, <1>7, NewRegistered DEF ListsSound
  <1>6. [l EXCEPT !.registered = f].registered = f
    BY <1>1 DEF Lists
  <1> QED BY <1>4, <1>5, <1>6, <1>7

\* The search for an account.
LEMMA GetRegistrationOK ==
  ASSUME NEW l, ListsSound(l), FilesSound, NEW a \in Account
  PROVE  LET r == GGM_GetRegistration(l, a)
         IN /\ Grown(l, r.lists)
            /\ r.ret \in {a, NoState}
            /\ r.ret = a => a \in DOMAIN r.lists.registered
            /\ regFile[a] # NoFile => r.ret = a
            /\ r.ret = NoState => regFile[a] = NoFile
  <1>0. a # NoState /\ l \in Lists
    BY RegistryAssumption DEF ListsSound
  <1>1. CASE a \in DOMAIN l.registered
    <2>1. GGM_GetRegistration(l, a) = [ret |-> a, lists |-> GGM_ReadPersist(l, a)]
      BY <1>1 DEF GGM_GetRegistration
    <2>2. Grown(l, GGM_ReadPersist(l, a))
      BY ReadPersistOK
    <2> QED BY <1>0, <1>1, <2>1, <2>2 DEF Grown
  <1>2. CASE a \notin DOMAIN l.registered /\ regFile[a] = NoFile
    BY <1>0, <1>2 DEF GGM_GetRegistration, Grown
  <1>3. CASE a \notin DOMAIN l.registered /\ regFile[a] # NoFile
    <2>1. GGM_GetRegistration(l, a)
            = [ret |-> a, lists |-> NewAccount(l, a, regFile[a], FALSE)]
      BY <1>3 DEF GGM_GetRegistration, NewAccount
    <2>2. regFile[a] \in Password
      BY <1>3 DEF FilesSound, FilesType
    <2>3. /\ Grown(l, NewAccount(l, a, regFile[a], FALSE))
          /\ a \in DOMAIN NewAccount(l, a, regFile[a], FALSE).registered
      BY <1>3, <2>2, NewAccountOK
    <2> DEFINE r == GGM_GetRegistration(l, a)
    <2>4. r.ret = a /\ r.lists = NewAccount(l, a, regFile[a], FALSE)
      BY <2>1
    <2>5. Grown(l, r.lists) /\ a \in DOMAIN r.lists.registered
      BY <2>3, <2>4
    <2> QED BY <1>0, <1>3, <2>4, <2>5
  <1> QED BY <1>1, <1>2, <1>3

\* The first place of a set of places is one of them, and before the others.
LEMMA FirstIn ==
  ASSUME NEW S, S \subseteq Nat, S # {}
  PROVE  First(S) \in S /\ \A j \in S : First(S) <= j
  <1> DEFINE less == {ss \in Nat \X Nat : ss[1] < ss[2]}
  <1>2. IsWellFoundedOn(less, Nat)
    BY NatLessThanWellFounded DEF OpToRel
  <1>3. PICK i \in S : \A j \in S : <<j, i>> \notin less
    <2> HIDE DEF less
    <2> QED BY <1>2, WFMin
  <1>1. \A j \in S : i <= j
    <2> SUFFICES ASSUME NEW j \in S PROVE i <= j
      OBVIOUS
    <2>1. <<j, i>> \notin less
      BY <1>3
    <2>2. i \in Nat /\ j \in Nat
      OBVIOUS
    <2> QED BY <2>1, <2>2
  <1> QED BY <1>1 DEF First

\* The places of a uid and a nickname are places of the list.
LEMMA FirstMatch ==
  ASSUME NEW l \in Lists, NEW u, NEW n, Matches(l, u, n) # {}
  PROVE  /\ First(Matches(l, u, n)) \in DOMAIN l.logins
         /\ First(Matches(l, u, n)) \in 1..Len(l.logins)
  <1>1. l.logins \in Seq(GGMLogin)
    BY DEF Lists
  <1>2. Matches(l, u, n) \subseteq 1..Len(l.logins)
    BY <1>1 DEF Matches
  <1>3. First(Matches(l, u, n)) \in 1..Len(l.logins)
    BY <1>2, FirstIn
  <1> QED BY <1>1, <1>3

\* Other logins to the same accounts.
LEMMA NewLogins ==
  ASSUME NEW l, ListsSound(l), NEW q \in Seq(GGMLogin),
         \A i \in 1..Len(q) : q[i].pState \in DOMAIN l.registered
  PROVE  Grown(l, [l EXCEPT !.logins = q])
  BY DEF Grown, ListsSound, Lists

\* Lists in which every login is to a known account, on file or not yet.
LoginsSound(l) ==
  /\ l \in Lists
  /\ \A i \in DOMAIN l.logins : l.logins[i].pState \in DOMAIN l.registered

\* A login at the head of such lists.
LEMMA AddLoginSound ==
  ASSUME NEW l, LoginsSound(l), NEW u \in Uid, NEW n \in Name,
         NEW a \in DOMAIN l.registered
  PROVE  /\ LoginsSound(AddLogin(l, u, n, a))
         /\ AddLogin(l, u, n, a).registered = l.registered
         /\ AddLogin(l, u, n, a).anonymous = l.anonymous
  <1>1. /\ l \in Lists /\ l.logins \in Seq(GGMLogin)
        /\ l.registered \in Partial(Account, Registration)
    BY DEF LoginsSound, Lists
  <1>2. a \in Account
    BY <1>1, PartialFacts
  <1>3. PICK e \in GGMLogin : e = [szUID |-> u, szName |-> n, pState |-> a]
    BY <1>2 DEF GGMLogin
  <1> DEFINE q == <<e>> \o l.logins
  <1>4. /\ q \in Seq(GGMLogin) /\ Len(q) = Len(l.logins) + 1
        /\ \A i \in 1..Len(q) : q[i] = IF i = 1 THEN e ELSE l.logins[i - 1]
    BY <1>1
  <1>5. \A i \in 1..Len(l.logins) : l.logins[i].pState \in DOMAIN l.registered
    BY <1>1 DEF LoginsSound
  <1>6. e.pState \in DOMAIN l.registered
    BY <1>3
  <1>7. \A i \in 1..Len(q) : q[i].pState \in DOMAIN l.registered
    BY <1>1, <1>4, <1>5, <1>6
  <1> HIDE DEF q
  <1>8. /\ LoginsSound([l EXCEPT !.logins = q])
        /\ [l EXCEPT !.logins = q].registered = l.registered
        /\ [l EXCEPT !.logins = q].anonymous = l.anonymous
    BY <1>1, <1>4, <1>7 DEF LoginsSound, Lists
  <1> QED BY <1>3, <1>8 DEF AddLogin, q

LEMMA AddLoginOK ==
  ASSUME NEW l, ListsSound(l), NEW u \in Uid, NEW n \in Name,
         NEW a \in DOMAIN l.registered
  PROVE  Grown(l, AddLogin(l, u, n, a))
  <1>1. LoginsSound(l)
    BY DEF LoginsSound, ListsSound
  <1>2. /\ LoginsSound(AddLogin(l, u, n, a))
        /\ AddLogin(l, u, n, a).registered = l.registered
        /\ AddLogin(l, u, n, a).anonymous = l.anonymous
    BY <1>1, AddLoginSound
  <1> QED BY <1>2 DEF LoginsSound, ListsSound, Grown

\* A sequence without its k-th element.
LEMMA RemoveAtIs ==
  ASSUME NEW q \in Seq(GGMLogin), NEW k \in 1..Len(q)
  PROVE  /\ RemoveAt(q, k) \in Seq(GGMLogin) /\ Len(RemoveAt(q, k)) = Len(q) - 1
         /\ \A i \in 1..Len(RemoveAt(q, k)) :
              RemoveAt(q, k)[i] = IF i < k THEN q[i] ELSE q[i + 1]
  <1> DEFINE r == RemoveAt(q, k)
             s1 == SubSeq(q, 1, k - 1)
             s2 == SubSeq(q, k + 1, Len(q))
  <1>1. /\ s1 \in Seq(GGMLogin) /\ Len(s1) = k - 1
        /\ \A i \in 1..Len(s1) : s1[i] = q[i]
    OBVIOUS
  <1>2. /\ s2 \in Seq(GGMLogin) /\ Len(s2) = Len(q) - k
        /\ \A i \in 1..Len(s2) : s2[i] = q[i + k]
    OBVIOUS
  <1>3. r = s1 \o s2
    BY DEF RemoveAt
  <1>4. Len(q) \in Nat
    OBVIOUS
  <1> HIDE DEF r, s1, s2
  <1>5. r \in Seq(GGMLogin) /\ Len(r) = Len(q) - 1
    BY <1>1, <1>2, <1>3, <1>4
  <1>6. \A i \in 1..(k - 1) : r[i] = q[i]
    BY <1>1, <1>2, <1>3, <1>4
  <1>7. \A i \in k..Len(r) : r[i] = s2[i - (k - 1)] /\ i - (k - 1) \in 1..Len(s2)
    BY <1>1, <1>2, <1>3, <1>4, <1>5
  <1>8. ASSUME NEW i \in k..Len(r) PROVE r[i] = q[i + 1]
    <2>1. i - (k - 1) + k = i + 1 /\ i - (k - 1) \in 1..Len(s2)
      BY <1>4, <1>5, <1>7
    <2>2. s2[i - (k - 1)] = q[i - (k - 1) + k]
      BY <1>2, <2>1
    <2> QED BY <1>7, <2>1, <2>2
  <1>9. \A i \in 1..Len(r) : r[i] = IF i < k THEN q[i] ELSE q[i + 1]
    BY <1>4, <1>5, <1>6, <1>8
  <1> QED BY <1>5, <1>9 DEF r

\* Taking a login out of the list.
LEMMA RemoveLoginOK ==
  ASSUME NEW l, ListsSound(l), NEW k \in 1..Len(l.logins)
  PROVE  Grown(l, [l EXCEPT !.logins = RemoveAt(@, k)])
  <1>1. l \in Lists /\ l.logins \in Seq(GGMLogin)
    BY DEF ListsSound, Lists
  <1> DEFINE q == RemoveAt(l.logins, k)
  <1>2. /\ q \in Seq(GGMLogin) /\ Len(q) = Len(l.logins) - 1
        /\ \A i \in 1..Len(q) : q[i] = IF i < k THEN l.logins[i]
                                           ELSE l.logins[i + 1]
    BY <1>1, RemoveAtIs
  <1>3. \A i \in 1..Len(l.logins) : l.logins[i].pState \in DOMAIN l.registered
    BY <1>1 DEF ListsSound
  <1> HIDE DEF q
  <1>4. \A i \in 1..Len(q) : q[i].pState \in DOMAIN l.registered
    <2> TAKE i \in 1..Len(q)
    <2>1. i \in 1..Len(l.logins) /\ i + 1 \in 1..Len(l.logins)
      BY <1>1, <1>2
    <2>2. q[i] \in {l.logins[i], l.logins[i + 1]}
      BY <1>2
    <2> QED BY <1>3, <2>1, <2>2
  <1>5. Grown(l, [l EXCEPT !.logins = q])
    BY <1>2, <1>4, NewLogins
  <1> QED BY <1>1, <1>5 DEF q

\* One search after another.
LEMMA GrownTrans ==
  ASSUME NEW l, NEW m, NEW k, Grown(l, m), Grown(m, k)
  PROVE  Grown(l, k)
  BY DEF Grown

\* What was known stays known.
LEMMA GrownKnown ==
  ASSUME NEW l, NEW m, Grown(l, m)
  PROVE  ListsSound(m) /\ Known(l) \subseteq Known(m)
  BY DEF Grown, Known

LEMMA KnownType ==
  ASSUME NEW l, ListsSound(l)
  PROVE  Known(l) \subseteq Account \cup Uid \cup {NoState}
  <1>1. /\ l.registered \in Partial(Account, Registration)
        /\ l.anonymous \in Partial(Uid, BOOLEAN)
    BY DEF ListsSound, Lists
  <1>2. DOMAIN l.registered \subseteq Account /\ DOMAIN l.anonymous \subseteq Uid
    BY <1>1, PartialFacts
  <1> QED BY <1>2 DEF Known

\* A new anonymous record.
LEMMA NewAnonymousOK ==
  ASSUME NEW l, ListsSound(l), NEW u \in Uid, NEW b \in BOOLEAN
  PROVE  /\ Grown(l, [l EXCEPT !.anonymous = With(@, u, b)])
         /\ u \in Known([l EXCEPT !.anonymous = With(@, u, b)])
  <1> DEFINE f == With(l.anonymous, u, b)
  <1>1. l \in Lists /\ l.anonymous \in Partial(Uid, BOOLEAN)
    BY DEF ListsSound, Lists
  <1>2. f \in Partial(Uid, BOOLEAN)
    BY <1>1, WithType
  <1>3. DOMAIN f = DOMAIN l.anonymous \cup {u}
    BY DEF With
  <1>4. [l EXCEPT !.anonymous = With(@, u, b)] = [l EXCEPT !.anonymous = f]
    BY <1>1 DEF Lists
  <1> HIDE DEF f
  <1>5. Grown(l, [l EXCEPT !.anonymous = f])
    BY <1>1, <1>2, <1>3 DEF Grown, ListsSound, Lists
  <1>6. u \in Known([l EXCEPT !.anonymous = f])
    BY <1>1, <1>3 DEF Known, Lists
  <1> QED BY <1>4, <1>5, <1>6

\* Another table of anonymous records.
LEMMA NewAnonymousTable ==
  ASSUME NEW l, ListsSound(l), NEW f \in Partial(Uid, BOOLEAN)
  PROVE  ListsSound([l EXCEPT !.anonymous = f])
  BY DEF ListsSound, Lists

\* The search for a login.
LEMMA LoadLoginOK ==
  ASSUME NEW l, ListsSound(l), FilesSound, NEW u \in Uid, NEW n \in Name
  PROVE  /\ Grown(l, GGM_LoadLogin(l, u, n).lists)
         /\ GGM_LoadLogin(l, u, n).found =>
              GGM_LoadLogin(l, u, n).ret
                \in DOMAIN GGM_LoadLogin(l, u, n).lists.registered
  <1> DEFINE m == GGM_LoadLogin(l, u, n)
             file == loginFile[<<u, n>>]
  <1>1. CASE Matches(l, u, n) # {}
    <2> DEFINE e == l.logins[First(Matches(l, u, n))].pState
    <2>1. e \in DOMAIN l.registered
      BY <1>1, FirstMatch DEF ListsSound
    <2>2. m = [found |-> TRUE, ret |-> e, lists |-> l]
      BY <1>1 DEF GGM_LoadLogin
    <2>3. Grown(l, l)
      BY DEF Grown
    <2> HIDE DEF m, e
    <2>4. m.ret = e /\ m.lists = l
      BY <2>2
    <2>5. Grown(l, m.lists) /\ m.ret \in DOMAIN m.lists.registered
      BY <2>1, <2>3, <2>4
    <2> QED BY <2>5 DEF m
  <1>2. CASE Matches(l, u, n) = {} /\ file = NoFile
    <2>1. m = [found |-> FALSE, ret |-> NoState, lists |-> l]
      BY <1>2 DEF GGM_LoadLogin
    <2>2. Grown(l, l)
      BY DEF Grown
    <2> QED BY <2>1, <2>2
  <1>3. CASE Matches(l, u, n) = {} /\ file # NoFile
    <2> DEFINE r == GGM_GetRegistration(l, file)
    <2>1. m = [found |-> TRUE, ret |-> r.ret,
               lists |-> AddLogin(r.lists, u, n, r.ret)]
      BY <1>3 DEF GGM_LoadLogin
    <2>2. <<u, n>> \in Uid \X Name
      OBVIOUS
    <2>3. file \in Account /\ regFile[file] # NoFile
      BY <1>3, <2>2 DEF FilesSound, FilesType
    <2> HIDE DEF file
    <2>4. /\ Grown(l, r.lists) /\ r.ret = file
          /\ file \in DOMAIN r.lists.registered
      BY <2>3, GetRegistrationOK
    <2> HIDE DEF r
    <2>5. Grown(r.lists, AddLogin(r.lists, u, n, file))
      BY <2>4, AddLoginOK DEF Grown
    <2>6. Grown(l, AddLogin(r.lists, u, n, file))
      BY <2>4, <2>5, GrownTrans
    <2> HIDE DEF m
    <2>7. m.ret = file /\ m.lists = AddLogin(r.lists, u, n, file)
      BY <2>1, <2>4
    <2>8. Grown(l, m.lists) /\ m.ret \in DOMAIN m.lists.registered
      BY <2>4, <2>5, <2>6, <2>7 DEF Grown
    <2> QED BY <2>8 DEF m
  <1> QED BY <1>1, <1>2, <1>3

\* The search for a record: what it returns is known, or nothing.
LEMMA GetStateOK ==
  ASSUME NEW l, ListsSound(l), FilesSound, NEW u \in Uid, NEW n \in Name
  PROVE  /\ Grown(l, GGM_GetState(l, u, n).lists)
         /\ GGM_GetState(l, u, n).ret \in Known(GGM_GetState(l, u, n).lists)
  <1> DEFINE login == GGM_LoadLogin(l, u, n)
             taken == \E i \in DOMAIN l.logins : l.logins[i].szName = n
             m == GGM_GetState(l, u, n)
             anew == [l EXCEPT !.anonymous = With(@, u, n \in BadName)]
  <1>0. Grown(l, l)
    BY DEF Grown
  <1>1. CASE login.found
    <2>1. /\ Grown(l, login.lists)
          /\ login.ret \in DOMAIN login.lists.registered
      BY <1>1, LoadLoginOK
    <2>2. m = [ret |-> login.ret, lists |-> login.lists]
      BY <1>1 DEF GGM_GetState
    <2> HIDE DEF m, login
    <2>3. m.ret = login.ret /\ m.lists = login.lists
      BY <2>2
    <2>4. Grown(l, m.lists) /\ m.ret \in Known(m.lists)
      BY <2>1, <2>3 DEF Known
    <2> QED BY <2>4 DEF m
  <1>2. CASE ~login.found /\ taken
    <2>1. m = [ret |-> NoState, lists |-> l]
      BY <1>2 DEF GGM_GetState
    <2> QED BY <1>0, <2>1 DEF Known
  <1>3. CASE ~login.found /\ ~taken /\ u \in DOMAIN l.anonymous
    <2>1. m = [ret |-> u, lists |-> l]
      BY <1>3 DEF GGM_GetState
    <2> QED BY <1>0, <1>3, <2>1 DEF Known
  <1>4. CASE ~login.found /\ ~taken /\ u \notin DOMAIN l.anonymous
    <2>1. m = [ret |-> u, lists |-> anew]
      BY <1>4 DEF GGM_GetState
    <2>2. (n \in BadName) \in BOOLEAN
      OBVIOUS
    <2>3. Grown(l, anew) /\ u \in Known(anew)
      BY <2>2, NewAnonymousOK
    <2> HIDE DEF m, anew
    <2>4. m.ret = u /\ m.lists = anew
      BY <2>1
    <2>5. Grown(l, m.lists) /\ m.ret \in Known(m.lists)
      BY <2>3, <2>4
    <2> QED BY <2>5 DEF m
  <1> QED BY <1>1, <1>2, <1>3, <1>4

\* The search, and the account's file read again.
LEMMA GetStatePersistOK ==
  ASSUME NEW l, ListsSound(l), FilesSound, NEW u \in Uid, NEW n \in Name
  PROVE  LET s == GGM_GetState(l, u, n)
         IN /\ Grown(l, GGM_ReadPersist(s.lists, s.ret))
            /\ s.ret \in Known(GGM_ReadPersist(s.lists, s.ret))
  <1> DEFINE s == GGM_GetState(l, u, n)
  <1>1. Grown(l, s.lists) /\ s.ret \in Known(s.lists)
    BY GetStateOK
  <1> HIDE DEF s
  <1>2. Grown(s.lists, GGM_ReadPersist(s.lists, s.ret))
    BY <1>1, ReadPersistOK DEF Grown
  <1>3. Grown(l, GGM_ReadPersist(s.lists, s.ret))
    BY <1>1, <1>2, GrownTrans
  <1>4. s.ret \in Known(GGM_ReadPersist(s.lists, s.ret))
    BY <1>1, <1>2, GrownKnown
  <1> QED BY <1>3, <1>4 DEF s
-----------------------------------------------------------------------------
(* One lemma for each action. *)

\* A step that searches the lists, and gives players what it found.
LEMMA SearchStep ==
  ASSUME IInv, Grown(lists, lists'), UNCHANGED files, PlayersType', TrustType',
         \A q \in Player : pState'[q] = pState[q] \/ pState'[q] \in Known(lists')
  PROVE  IInv'
  <1>1. PointersSound /\ FilesSound
    BY Parts
  <1>2. Known(lists) \subseteq Known(lists')
    BY GrownKnown
  <1>3. PointersSound'
    BY <1>1, <1>2 DEF PointersSound, Known
  <1>4. FilesSound' /\ ListsSound(lists)'
    BY <1>1 DEF files, FilesSound, FilesType, Grown, ListsSound
  <1> QED BY <1>3, <1>4, Parts, PTL

LEMMA Same ==
  ASSUME IInv
  PROVE  Grown(lists, lists)
  BY Parts DEF Grown

LEMMA InitIInv == Init => IInv
  <1> SUFFICES ASSUME Init PROVE IInv
    OBVIOUS
  <1> USE DEF Init
  <1>1. PlayersType
    BY DEF PlayersType, PlayerState
  <1>2. PointersSound
    BY DEF PointersSound, Known
  <1>3. <<>> \in Partial(Account, Registration) /\ <<>> \in Partial(Uid, BOOLEAN)
    <2>1. <<>> \in [{} -> Registration]
      OBVIOUS
    <2>2. <<>> \in [{} -> BOOLEAN]
      OBVIOUS
    <2> QED BY <2>1, <2>2, PartialIs
  <1>4. ListsSound(lists)
    BY <1>3 DEF ListsSound, Lists, NoLists
  <1>5. FilesSound
    BY DEF FilesSound, FilesType
  <1>6. TrustType
    BY DEF TrustType
  <1> QED BY <1>1, <1>2, <1>4, <1>5, <1>6, Parts

\* What ClientUserInfoChanged does, the new uid and nickname aside.
LEMMA ResolveUserInfoOK ==
  ASSUME IInv, NEW p \in Player, NEW u \in Uid, NEW n \in Name,
         ResolveUserInfo(p, u, n)
  PROVE  /\ Grown(lists, lists')
         /\ \A q \in Player : pState'[q] = pState[q] \/ pState'[q] \in Known(lists')
         /\ pState' \in [Player -> Account \cup Uid \cup {NoState}]
         /\ iState' \in [Player -> PlayerState]
         /\ \A q \in Player \ {p} : iState'[q] = iState[q]
         /\ iState'[p] = "OFF" => iState[p] = "OFF" /\ Registered(pState[p])
  <1> DEFINE s == GGM_GetState(lists, u, n)
  <1>1. PlayersType /\ ListsSound(lists) /\ FilesSound
    BY Parts
  <1>2. Grown(lists, s.lists) /\ s.ret \in Known(s.lists)
    BY <1>1, GetStateOK
  <1>3. /\ Grown(lists, GGM_ReadPersist(s.lists, s.ret))
        /\ s.ret \in Known(GGM_ReadPersist(s.lists, s.ret))
    BY <1>1, GetStatePersistOK
  <1>4. s.ret \in Account \cup Uid \cup {NoState}
    BY <1>2, KnownType DEF Grown
  <1>5. Grown(lists, lists)
    BY Same
  <1>6. \/ UNCHANGED <<iState, pState, lists>> /\ Registered(pState[p]) /\ iState[p] = "SPAWNED"
        \/ /\ lists' = s.lists
           /\ iState' = [iState EXCEPT ![p] = IF @ = "OFF" THEN "UNINITIALIZED"
                                              ELSE @]
           /\ UNCHANGED pState
        \/ iState[p] = "LOAD_FIX" /\ lists' = s.lists /\ UNCHANGED <<iState, pState>>
        \/ /\ lists' = GGM_ReadPersist(s.lists, s.ret)
           /\ pState' = [pState EXCEPT ![p] = s.ret]
           /\ iState' = [iState EXCEPT ![p] = "UNINITIALIZED"]
    BY DEF ResolveUserInfo
  <1> HIDE DEF s
  <1>7. Grown(lists, lists')
    BY <1>2, <1>3, <1>5, <1>6
  <1> QED BY <1>1, <1>2, <1>3, <1>4, <1>6, <1>7 DEF PlayersType, PlayerState

LEMMA ClientConnectIInv ==
  ASSUME IInv, NEW p \in Player, NEW u \in Uid, NEW n \in Name,
         ClientConnect(p, u, n)
  PROVE  IInv'
  <1>1. PlayersType /\ TrustType
    BY Parts
  <1>2. /\ ~Connected(p) /\ UNCHANGED <<files, trusted>>
        /\ uid' = [uid EXCEPT ![p] = u] /\ name' = [name EXCEPT ![p] = n]
    BY DEF ClientConnect
  <1>3. u # NoUid /\ n # NoName
    BY RegistryAssumption
  <1>4. CASE /\ iState' = [iState EXCEPT ![p] = "UNINITIALIZED"]
             /\ UNCHANGED <<pState, lists>>
    <2>1. PlayersType'
      BY <1>1, <1>2, <1>3, <1>4 DEF PlayersType, PlayerState
    <2>2. TrustType'
      BY <1>1, <1>2 DEF TrustType
    <2>3. Grown(lists, lists')
      BY <1>4, Same
    <2> QED BY <1>2, <1>4, <2>1, <2>2, <2>3, SearchStep
  <1>5. CASE ResolveUserInfo(p, u, n)
    <2>1. /\ Grown(lists, lists')
          /\ \A q \in Player : pState'[q] = pState[q] \/ pState'[q] \in Known(lists')
          /\ pState' \in [Player -> Account \cup Uid \cup {NoState}]
          /\ iState' \in [Player -> PlayerState]
          /\ \A q \in Player \ {p} : iState'[q] = iState[q]
      BY <1>5, ResolveUserInfoOK
    <2>2. iState'[p] # "OFF"
      BY <1>1, <1>2, <1>5 DEF ResolveUserInfo, Connected, PlayersType
    <2>3. PlayersType'
      BY <1>1, <1>2, <1>3, <2>1, <2>2 DEF PlayersType
    <2>4. TrustType'
      BY <1>1, <1>2 DEF TrustType
    <2> QED BY <1>2, <2>1, <2>3, <2>4, SearchStep
  <1> QED BY <1>4, <1>5 DEF ClientConnect

LEMMA ClientUserInfoChangedIInv ==
  ASSUME IInv, NEW p \in Player, NEW n \in Name, ClientUserInfoChanged(p, n)
  PROVE  IInv'
  <1>1. PlayersType /\ TrustType
    BY Parts
  <1>2. /\ Connected(p) /\ UNCHANGED <<uid, files, trusted>>
        /\ name' = [name EXCEPT ![p] = n] /\ ResolveUserInfo(p, uid[p], n)
    BY DEF ClientUserInfoChanged
  <1>3. n # NoName /\ uid[p] \in Uid
    BY <1>1, <1>2, RegistryAssumption DEF PlayersType, Connected
  <1>4. /\ Grown(lists, lists')
        /\ \A q \in Player : pState'[q] = pState[q] \/ pState'[q] \in Known(lists')
        /\ pState' \in [Player -> Account \cup Uid \cup {NoState}]
        /\ iState' \in [Player -> PlayerState]
        /\ \A q \in Player \ {p} : iState'[q] = iState[q]
        /\ iState'[p] = "OFF" => iState[p] = "OFF"
    BY <1>2, <1>3, ResolveUserInfoOK
  <1>5. PlayersType'
    BY <1>1, <1>2, <1>3, <1>4 DEF PlayersType, Connected
  <1>6. TrustType'
    BY <1>1, <1>2 DEF TrustType
  <1> QED BY <1>2, <1>4, <1>5, <1>6, SearchStep

LEMMA ClientPutinServerIInv ==
  ASSUME IInv, NEW p \in Player, GGM_ClientPutinServer(p)
  PROVE  IInv'
  <1> DEFINE s == GGM_GetState(lists, uid[p], name[p])
  <1>1. PlayersType /\ ListsSound(lists) /\ FilesSound /\ TrustType
    BY Parts
  <1>2. /\ iState[p] = "UNINITIALIZED" /\ UNCHANGED <<uid, name, files, trusted>>
        /\ pState' = [pState EXCEPT ![p] = s.ret]
        /\ lists' = GGM_ReadPersist(s.lists, s.ret)
        /\ iState' = [iState EXCEPT ![p] = "SPECTATOR"]
    BY DEF GGM_ClientPutinServer
  <1>3. uid[p] \in Uid /\ name[p] \in Name
    BY <1>1, <1>2 DEF PlayersType
  <1>4. Grown(lists, lists') /\ s.ret \in Known(lists')
    BY <1>1, <1>2, <1>3, GetStatePersistOK
  <1> HIDE DEF s
  <1>5. s.ret \in Account \cup Uid \cup {NoState}
    BY <1>4, KnownType DEF Grown
  <1>6. PlayersType'
    BY <1>1, <1>2, <1>5 DEF PlayersType, PlayerState
  <1>7. TrustType'
    BY <1>1, <1>2 DEF TrustType
  <1>8. \A q \in Player : pState'[q] = pState[q] \/ pState'[q] \in Known(lists')
    BY <1>1, <1>2, <1>4 DEF PlayersType
  <1> QED BY <1>2, <1>4, <1>6, <1>7, <1>8, SearchStep

LEMMA SpawnPlayerIInv ==
  ASSUME IInv, NEW p \in Player, UTIL_SpawnPlayer(p)
  PROVE  IInv'
  <1>1. PlayersType /\ ListsSound(lists) /\ FilesSound /\ TrustType
    BY Parts
  <1>2. Grown(lists, lists')
    BY <1>1, ReadPersistOK DEF UTIL_SpawnPlayer
  <1>3. PlayersType' /\ TrustType'
    BY <1>1 DEF UTIL_SpawnPlayer, PlayersType, PlayerState, TrustType
  <1> QED BY <1>2, <1>3, SearchStep DEF UTIL_SpawnPlayer

LEMMA RestoreStateIInv ==
  ASSUME IInv, NEW p \in Player, GGM_RestoreState(p)
  PROVE  IInv'
  <1>1. PlayersType /\ ListsSound(lists) /\ FilesSound /\ TrustType
    BY Parts
  <1>2. Grown(lists, lists')
    BY <1>1, ReadPersistOK DEF GGM_RestoreState
  <1>3. PlayersType' /\ TrustType'
    BY <1>1 DEF GGM_RestoreState, players, PlayersType, TrustType
  <1> QED BY <1>2, <1>3, SearchStep DEF GGM_RestoreState, players

\* Steps that leave the lists and the pointers alone.
LEMMA WatchIInv ==
  ASSUME IInv, NEW p \in Player, Respawn(p) \/ Spectate(p)
  PROVE  IInv'
  <1>1. PlayersType /\ TrustType
    BY Parts
  <1>2. PlayersType' /\ TrustType'
    BY <1>1 DEF Respawn, Spectate, Connected, PlayersType, PlayerState, TrustType
  <1>3. Grown(lists, lists')
    BY Same DEF Respawn, Spectate
  <1> QED BY <1>2, <1>3, SearchStep DEF Respawn, Spectate

LEMMA ClientDisconnectIInv ==
  ASSUME IInv, NEW p \in Player, ClientDisconnect(p)
  PROVE  IInv'
  <1>1. PlayersType /\ TrustType
    BY Parts
  <1>2. /\ Connected(p) /\ UNCHANGED <<lists, files, trusted>>
        /\ iState' = [iState EXCEPT ![p] = "OFF"]
        /\ uid' = [uid EXCEPT ![p] = NoUid] /\ name' = [name EXCEPT ![p] = NoName]
        /\ pState' = pState \/ pState' = [pState EXCEPT ![p] = NoState]
    BY DEF ClientDisconnect
  <1>3. PlayersType' /\ TrustType'
    BY <1>1, <1>2 DEF PlayersType, PlayerState, TrustType
  <1>4. Grown(lists, lists')
    BY <1>2, Same
  <1>5. \A q \in Player : pState'[q] = pState[q] \/ pState'[q] \in Known(lists')
    BY <1>1, <1>2 DEF PlayersType, Known
  <1> QED BY <1>2, <1>3, <1>4, <1>5, SearchStep

LEMMA AuthArrivesIInv ==
  ASSUME IInv, NEW p \in Player, NEW u \in Uid, AuthArrives(p, u)
  PROVE  IInv'
  <1>1. PlayersType /\ TrustType
    BY Parts
  <1>2. u # NoUid
    BY RegistryAssumption
  <1>3. PlayersType'
    BY <1>1, <1>2 DEF AuthArrives, Connected, PlayersType
  <1>4. TrustType'
    BY <1>1 DEF AuthArrives, Registered, TrustType
  <1>5. Grown(lists, lists')
    BY Same DEF AuthArrives
  <1> QED BY <1>3, <1>4, <1>5, SearchStep DEF AuthArrives, files

LEMMA LeaveLoadFixIInv ==
  ASSUME IInv, NEW p \in Player, LeaveLoadFix(p)
  PROVE  IInv'
  <1>1. PlayersType /\ TrustType
    BY Parts
  <1>2. PlayersType' /\ TrustType'
    BY <1>1 DEF LeaveLoadFix, PlayersType, PlayerState, TrustType
  <1>3. Grown(lists, lists')
    BY Same DEF LeaveLoadFix
  <1>4. \A q \in Player : pState'[q] = pState[q] \/ pState'[q] \in Known(lists')
    BY <1>1 DEF LeaveLoadFix, PlayersType, Known
  <1> QED BY <1>2, <1>3, <1>4, SearchStep DEF LeaveLoadFix

\* A step that searches the lists and changes the files of logins too.
LEMMA SearchAndFiles ==
  ASSUME IInv, Grown(lists, lists'), UNCHANGED regFile, FilesSound',
         PlayersType', TrustType',
         \A q \in Player : pState'[q] = pState[q] \/ pState'[q] \in Known(lists')
  PROVE  IInv'
  <1>1. PointersSound
    BY Parts
  <1>2. Known(lists) \subseteq Known(lists')
    BY GrownKnown
  <1>3. PointersSound'
    BY <1>1, <1>2 DEF PointersSound, Known
  <1>4. ListsSound(lists)'
    BY DEF Grown, ListsSound
  <1> QED BY <1>3, <1>4, Parts, PTL

LEMMA LogoutIInv ==
  ASSUME IInv, NEW p \in Player, GGM_Logout(p)
  PROVE  IInv'
  <1> DEFINE found == Matches(lists, uid[p], name[p])
             unlinked == IF found = {} THEN lists
                         ELSE [lists EXCEPT !.logins = RemoveAt(@, First(found))]
             s == GGM_GetState(unlinked, uid[p], name[p])
  <1>1. PlayersType /\ ListsSound(lists) /\ FilesSound /\ TrustType
    BY Parts
  <1>2. /\ Connected(p) /\ UNCHANGED <<iState, uid, name, regFile, saved, trusted>>
        /\ pState' = [pState EXCEPT ![p] = s.ret]
        /\ lists' = GGM_ReadPersist(s.lists, s.ret)
        /\ loginFile' = [loginFile EXCEPT ![<<uid[p], name[p]>>] = NoFile]
    BY DEF GGM_Logout
  <1>3. uid[p] \in Uid /\ name[p] \in Name
    BY <1>1, <1>2 DEF Connected, PlayersType
  <1>4. Grown(lists, unlinked)
    <2>1. CASE found = {}
      BY <2>1, Same
    <2>2. CASE found # {}
      <3>1. lists \in Lists /\ First(found) \in 1..Len(lists.logins)
        BY <1>1, <2>2, FirstMatch DEF ListsSound
      <3> HIDE DEF found
      <3> QED BY <1>1, <2>2, <3>1, RemoveLoginOK
    <2> QED BY <2>1, <2>2
  <1> HIDE DEF unlinked
  <1>5. /\ Grown(unlinked, GGM_ReadPersist(s.lists, s.ret))
        /\ s.ret \in Known(GGM_ReadPersist(s.lists, s.ret))
    BY <1>1, <1>3, <1>4, GetStatePersistOK DEF Grown
  <1> HIDE DEF s
  <1>6. Grown(lists, lists') /\ s.ret \in Known(lists')
    BY <1>2, <1>4, <1>5, GrownTrans
  <1>7. s.ret \in Account \cup Uid \cup {NoState}
    BY <1>6, KnownType DEF Grown
  <1>8. PlayersType' /\ TrustType'
    BY <1>1, <1>2, <1>7 DEF PlayersType, TrustType
  <1>9. FilesSound'
    BY <1>1, <1>2 DEF FilesSound, FilesType
  <1>10. \A q \in Player : pState'[q] = pState[q] \/ pState'[q] \in Known(lists')
    BY <1>1, <1>2, <1>6 DEF PlayersType
  <1> QED BY <1>2, <1>6, <1>8, <1>9, <1>10, SearchAndFiles

LEMMA SaveIInv ==
  ASSUME IInv, GGM_Save
  PROVE  IInv'
  <1> DEFINE f == [a \in DOMAIN lists.registered |->
                     lists.registered[a].fIsTempBanned]
  <1>1. PlayersType /\ ListsSound(lists) /\ FilesSound /\ TrustType
    BY Parts
  <1>2. /\ UNCHANGED <<players, lists, regFile, loginFile, trusted>>
        /\ saved' = [registered |-> f, anonymous |-> lists.anonymous]
    BY DEF GGM_Save
  <1>3. /\ lists.registered \in Partial(Account, Registration)
        /\ lists.anonymous \in Partial(Uid, BOOLEAN)
    BY <1>1 DEF ListsSound, Lists
  <1>10. /\ DOMAIN lists.registered \subseteq Account
         /\ \A a \in DOMAIN lists.registered :
              lists.registered[a].fIsTempBanned \in BOOLEAN
    <2>1. /\ DOMAIN lists.registered \subseteq Account
          /\ lists.registered \in [DOMAIN lists.registered -> Registration]
      BY <1>3, PartialFacts
    <2>2. \A y \in Registration : y.fIsTempBanned \in BOOLEAN
      BY DEF Registration
    <2> QED BY <2>1, <2>2
  <1>4. f \in [DOMAIN lists.registered -> BOOLEAN]
    BY <1>10
  <1>5. f \in Partial(Account, BOOLEAN) /\ DOMAIN f = DOMAIN lists.registered
    BY <1>4, <1>10, PartialIs
  <1> HIDE DEF f
  <1>6. saved' \in SavedGame /\ saved'.registered = f
    BY <1>2, <1>3, <1>5 DEF SavedGame
  <1>7. FilesSound'
    BY <1>1, <1>2, <1>5, <1>6 DEF FilesSound, FilesType, ListsSound
  <1>8. PlayersType' /\ TrustType'
    BY <1>1, <1>2 DEF PlayersType, TrustType, players
  <1>9. Grown(lists, lists')
    BY <1>2, Same
  <1> QED BY <1>2, <1>7, <1>8, <1>9, SearchAndFiles DEF players

\* Nobody is known.
LEMMA NoListsOK == ListsSound(NoLists) /\ ListsSound(NoLists)'
  <1>1. <<>> \in [{} -> Registration]
    OBVIOUS
  <1>2. <<>> \in [{} -> BOOLEAN]
    OBVIOUS
  <1>3. <<>> \in Partial(Account, Registration) /\ <<>> \in Partial(Uid, BOOLEAN)
    BY <1>1, <1>2, PartialIs
  <1> QED BY <1>3 DEF ListsSound, Lists, NoLists

\* A step after which no player has a record.
LEMMA ForgetStep ==
  ASSUME IInv, pState' = [p \in Player |-> NoState], ListsSound(lists)',
         PlayersType', FilesSound', TrustType'
  PROVE  IInv'
  <1>1. PointersSound'
    BY DEF PointersSound, Known
  <1> QED BY <1>1, Parts, PTL

LEMMA FilesKept ==
  ASSUME IInv, UNCHANGED <<files, trusted>>
  PROVE  FilesSound' /\ TrustType'
  <1>1. FilesSound /\ TrustType
    BY Parts
  <1> QED BY <1>1 DEF files, FilesSound, FilesType, TrustType

LEMMA LoadFailsIInv ==
  ASSUME IInv, LoadFails
  PROVE  IInv'
  <1>1. PlayersType
    BY Parts
  <1>2. FilesSound' /\ TrustType'
    BY FilesKept DEF LoadFails
  <1>3. PlayersType'
    BY <1>1 DEF LoadFails, GGM_ClearLists, PlayersType
  <1>4. ListsSound(lists)'
    BY NoListsOK DEF LoadFails, GGM_ClearLists, ListsSound
  <1> QED BY <1>2, <1>3, <1>4, ForgetStep DEF LoadFails, GGM_ClearLists

LEMMA LoadIInv ==
  ASSUME IInv, GGM_Load
  PROVE  IInv'
  <1> DEFINE f == [a \in DOMAIN saved.registered |->
                     [szPassword |-> regFile[a],
                      fIsTempBanned |-> saved.registered[a]]]
  <1>1. PlayersType /\ FilesSound
    BY Parts
  <1>2. FilesSound' /\ TrustType'
    BY FilesKept DEF GGM_Load
  <1>3. /\ saved # NoFile /\ UNCHANGED <<uid, name, files>>
        /\ lists' = [registered |-> f, anonymous |-> saved.anonymous,
                     logins |-> <<>>]
        /\ pState' = [p \in Player |-> NoState]
        /\ iState' = [p \in Player |-> IF Connected(p) THEN "LOAD_FIX" ELSE "OFF"]
    BY DEF GGM_Load
  <1>4. PlayersType'
    BY <1>1, <1>3 DEF PlayersType, PlayerState, Connected
  <1>5. /\ saved.registered \in Partial(Account, BOOLEAN)
        /\ saved.anonymous \in Partial(Uid, BOOLEAN)
    BY <1>1, <1>3 DEF FilesSound, FilesType, SavedGame
  <1>6. /\ DOMAIN saved.registered \subseteq Account
        /\ saved.registered \in [DOMAIN saved.registered -> BOOLEAN]
    BY <1>5, PartialFacts
  <1>7. \A a \in DOMAIN saved.registered : regFile[a] \in Password
    BY <1>1, <1>3, <1>6 DEF FilesSound, FilesType
  <1>8. f \in [DOMAIN saved.registered -> Registration]
    BY <1>6, <1>7 DEF Registration
  <1>9. f \in Partial(Account, Registration) /\ DOMAIN f = DOMAIN saved.registered
    BY <1>6, <1>8, PartialIs
  <1> HIDE DEF f
  <1>10. \A a \in DOMAIN f : regFile'[a] # NoFile
    BY <1>1, <1>3, <1>9 DEF FilesSound, files
  <1>11. ListsSound(lists)'
    BY <1>3, <1>5, <1>9, <1>10 DEF ListsSound, Lists
  <1> QED BY <1>2, <1>3, <1>4, <1>11, ForgetStep

LEMMA ServerActivateIInv ==
  ASSUME IInv, COOP_ServerActivate
  PROVE  IInv'
  <1>1. PlayersType /\ ListsSound(lists)
    BY Parts
  <1>2. FilesSound' /\ TrustType'
    BY FilesKept DEF COOP_ServerActivate
  <1>3. PlayersType'
    BY <1>1 DEF COOP_ServerActivate, GGM_ClearLists, PlayersType, PlayerState,
                Connected
  <1>4. ListsSound(lists)'
    BY <1>1, NoListsOK DEF COOP_ServerActivate, GGM_ClearLists, ListsSound, files
  <1> QED BY <1>2, <1>3, <1>4, ForgetStep
          DEF COOP_ServerActivate, GGM_ClearLists

LEMMA ServerRestartIInv ==
  ASSUME IInv, ServerRestart
  PROVE  IInv'
  <1>2. FilesSound' /\ TrustType'
    BY FilesKept DEF ServerRestart
  <1>3. PlayersType'
    BY DEF ServerRestart, GGM_ClearLists, PlayersType, PlayerState
  <1>4. ListsSound(lists)'
    BY NoListsOK DEF ServerRestart, GGM_ClearLists, ListsSound
  <1> QED BY <1>2, <1>3, <1>4, ForgetStep DEF ServerRestart, GGM_ClearLists

LEMMA CrashInRegisterIInv ==
  ASSUME IInv, NEW p \in Player, NEW a \in Account, NEW w \in Password,
         CrashInRegister(p, a, w)
  PROVE  IInv'
  <1>1. FilesSound /\ TrustType
    BY Parts
  <1>2. w # NoFile
    BY RegistryAssumption
  <1>3. FilesSound' /\ TrustType'
    BY <1>1, <1>2 DEF CrashInRegister, FilesSound, FilesType, TrustType
  <1>4. PlayersType'
    BY DEF CrashInRegister, GGM_ClearLists, PlayersType, PlayerState
  <1>5. ListsSound(lists)'
    BY NoListsOK DEF CrashInRegister, GGM_ClearLists, ListsSound
  <1> QED BY <1>3, <1>4, <1>5, ForgetStep DEF CrashInRegister, GGM_ClearLists

LEMMA OtherServerIInv ==
  ASSUME IInv, OtherServer
  PROVE  IInv'
  <1>1. PlayersType /\ PointersSound /\ ListsSound(lists) /\ FilesSound /\ TrustType
    BY Parts
  <1>2. UNCHANGED <<players, lists, saved>>
    BY DEF OtherServer
  <1>3. PlayersType' /\ PointersSound'
    BY <1>1, <1>2 DEF players, PlayersType, PointersSound
  <1>4. CASE /\ \E a \in Account, w \in Password :
                   regFile' = [regFile EXCEPT ![a] = w]
             /\ UNCHANGED <<loginFile, trusted>>
    <2>1. PICK a \in Account, w \in Password : regFile' = [regFile EXCEPT ![a] = w]
      BY <1>4
    <2>2. w # NoFile
      BY RegistryAssumption
    <2>3. \A b : regFile[b] # NoFile => regFile'[b] # NoFile
      BY <1>1, <2>1, <2>2 DEF FilesSound, FilesType
    <2>4. ListsSound(lists)'
      BY <1>1, <1>2, <2>3 DEF ListsSound
    <2>5. FilesSound' /\ TrustType'
      BY <1>1, <1>2, <1>4, <2>1, <2>3 DEF FilesSound, FilesType, TrustType
    <2> QED BY <1>3, <2>4, <2>5, Parts, PTL
  <1>5. CASE /\ \E u \in Uid, n \in Name,
                   a \in {b \in Account : regFile[b] # NoFile} :
                  /\ loginFile' = [loginFile EXCEPT ![<<u, n>>] = a]
                  /\ trusted' = trusted \cup {<<u, a>>}
             /\ UNCHANGED regFile
    <2>1. PICK u \in Uid, n \in Name, a \in {b \in Account : regFile[b] # NoFile} :
            /\ loginFile' = [loginFile EXCEPT ![<<u, n>>] = a]
            /\ trusted' = trusted \cup {<<u, a>>}
      BY <1>5
    <2>2. FilesSound' /\ TrustType'
      BY <1>1, <1>2, <1>5, <2>1 DEF FilesSound, FilesType, TrustType
    <2>3. ListsSound(lists)'
      BY <1>1, <1>2, <1>5 DEF ListsSound
    <2> QED BY <1>3, <2>2, <2>3, Parts, PTL
  <1>6. CASE /\ \E u \in Uid, n \in Name :
                   loginFile' = [loginFile EXCEPT ![<<u, n>>] = NoFile]
             /\ UNCHANGED <<regFile, trusted>>
    <2>1. PICK u \in Uid, n \in Name :
            loginFile' = [loginFile EXCEPT ![<<u, n>>] = NoFile]
      BY <1>6
    <2>2. FilesSound' /\ TrustType'
      BY <1>1, <1>2, <1>6, <2>1 DEF FilesSound, FilesType, TrustType
    <2>3. ListsSound(lists)'
      BY <1>1, <1>2, <1>6 DEF ListsSound
    <2> QED BY <1>3, <2>2, <2>3, Parts, PTL
  <1> QED BY <1>4, <1>5, <1>6 DEF OtherServer

\* What freeing an anonymous record leaves.
LEMMA FreeStateOK ==
  ASSUME IInv, NEW p \in Player, NEW s \in Uid
  PROVE  LET free == GGM_FreeState(p, s)
         IN /\ free.pState \in [Player -> Account \cup Uid \cup {NoState}]
            /\ free.anonymous \in Partial(Uid, BOOLEAN)
            /\ \A q \in Player : free.pState[q] \in DOMAIN lists.registered
                 \cup DOMAIN free.anonymous \cup {NoState}
  <1> DEFINE free == GGM_FreeState(p, s)
             f == [q \in Player |-> IF pState[q] = s THEN NoState ELSE pState[q]]
             g == Without(lists.anonymous, s)
  <1>1. PlayersType /\ PointersSound /\ ListsSound(lists)
    BY Parts
  <1>2. free = [pState |-> f, anonymous |-> g]
    BY DEF GGM_FreeState
  <1>3. g \in Partial(Uid, BOOLEAN)
    BY <1>1, WithoutType DEF ListsSound, Lists
  <1>4. DOMAIN g = DOMAIN lists.anonymous \ {s}
    BY DEF Without
  <1>5. f \in [Player -> Account \cup Uid \cup {NoState}]
    BY <1>1 DEF PlayersType
  <1>6. \A q \in Player : f[q] \in DOMAIN lists.registered \cup DOMAIN g
                                     \cup {NoState}
    BY <1>1, <1>4 DEF PointersSound, Known
  <1> HIDE DEF f, g, free
  <1>7. free.pState = f /\ free.anonymous = g
    BY <1>2
  <1>8. /\ free.pState \in [Player -> Account \cup Uid \cup {NoState}]
        /\ free.anonymous \in Partial(Uid, BOOLEAN)
        /\ \A q \in Player : free.pState[q] \in DOMAIN lists.registered
             \cup DOMAIN free.anonymous \cup {NoState}
    BY <1>3, <1>5, <1>6, <1>7
  <1> QED BY <1>8 DEF free

\* A player that is known to be neither without a record nor anonymous.
LEMMA PointerKinds ==
  ASSUME IInv, NEW p \in Player
  PROVE  /\ pState[p] \in Account => pState[p] \in DOMAIN lists.registered
         /\ pState[p] \in Uid => pState[p] \in DOMAIN lists.anonymous
         /\ pState[p] \notin Account /\ pState[p] # NoState => pState[p] \in Uid
  <1>1. PlayersType /\ PointersSound /\ ListsSound(lists)
    BY Parts
  <1>2. /\ DOMAIN lists.registered \subseteq Account
        /\ DOMAIN lists.anonymous \subseteq Uid
    BY <1>1, PartialFacts DEF ListsSound, Lists
  <1> QED BY <1>1, <1>2, RegistryAssumption DEF PlayersType, PointersSound, Known

LEMMA LoginIInv ==
  ASSUME IInv, NEW p \in Player, NEW a \in Account, NEW w \in Password,
         GGM_Login(p, a, w)
  PROVE  IInv'
  <1> DEFINE r == GGM_GetRegistration(lists, a)
             s == pState[p]
             free == IF s = NoState THEN [pState |-> pState,
                                          anonymous |-> lists.anonymous]
                     ELSE GGM_FreeState(p, s)
             l == [r.lists EXCEPT !.anonymous = free.anonymous]
  <1>1. /\ PlayersType /\ PointersSound /\ ListsSound(lists) /\ FilesSound
        /\ TrustType
    BY Parts
  <1>2. /\ Connected(p) /\ ~Registered(s)
        /\ UNCHANGED <<iState, uid, name, regFile, saved>>
    BY DEF GGM_Login
  <1>3. uid[p] \in Uid /\ name[p] \in Name
    BY <1>1, <1>2 DEF Connected, PlayersType
  <1>4. /\ Grown(lists, r.lists) /\ r.ret \in {a, NoState}
        /\ r.ret = a => a \in DOMAIN r.lists.registered
    BY <1>1, GetRegistrationOK
  <1>5. CASE lists' = r.lists /\ UNCHANGED <<pState, loginFile, trusted>>
    <2>1. PlayersType' /\ TrustType' /\ FilesSound'
      BY <1>1, <1>2, <1>5 DEF PlayersType, TrustType, FilesSound, FilesType
    <2> QED BY <1>2, <1>4, <1>5, <2>1, SearchAndFiles
  <1>6. CASE /\ r.ret # NoState
             /\ lists' = AddLogin(l, uid[p], name[p], a)
             /\ loginFile' = [loginFile EXCEPT ![<<uid[p], name[p]>>] = a]
             /\ pState' = [free.pState EXCEPT ![p] = a]
             /\ trusted' = trusted \cup {<<uid[p], a>>}
    <2>1. /\ free.pState \in [Player -> Account \cup Uid \cup {NoState}]
          /\ free.anonymous \in Partial(Uid, BOOLEAN)
          /\ \A q \in Player : free.pState[q] \in DOMAIN lists.registered
               \cup DOMAIN free.anonymous \cup {NoState}
      <3>1. CASE s = NoState
        BY <1>1, <3>1 DEF PlayersType, ListsSound, Lists, PointersSound, Known
      <3>2. CASE s # NoState
        <4>1. s \in Uid
          BY <1>2, <3>2, PointerKinds DEF Registered
        <4>2. free = GGM_FreeState(p, s)
          BY <3>2
        <4> HIDE DEF s
        <4> QED BY <4>1, <4>2, FreeStateOK
      <3> QED BY <3>1, <3>2
    <2> HIDE DEF free
    <2>2. ListsSound(r.lists) /\ r.lists \in Lists
      BY <1>4 DEF Grown, ListsSound
    <2> HIDE DEF r
    <2>3. ListsSound(l)
      BY <2>1, <2>2, NewAnonymousTable
    <2>4. /\ l.registered = r.lists.registered
          /\ l.anonymous = free.anonymous
      BY <2>2 DEF Lists
    <2>5. a \in DOMAIN l.registered
      BY <1>4, <1>6, <2>4
    <2> HIDE DEF l
    <2>6. /\ LoginsSound(lists') /\ lists'.registered = l.registered
          /\ lists'.anonymous = l.anonymous
      <3>1. LoginsSound(l)
        BY <2>3 DEF ListsSound, LoginsSound
      <3> QED BY <1>3, <1>6, <2>5, <3>1, AddLoginSound
    <2>7. ListsSound(lists)'
      BY <1>2, <2>3, <2>6 DEF LoginsSound, ListsSound
    <2>8. PointersSound'
      <3>1. DOMAIN lists.registered \subseteq DOMAIN l.registered
        BY <1>4, <2>4 DEF Grown
      <3> QED BY <1>6, <2>1, <2>4, <2>5, <2>6, <3>1 DEF PointersSound, Known
    <2>9. PlayersType' /\ TrustType'
      BY <1>1, <1>2, <1>3, <1>6, <2>1 DEF PlayersType, TrustType
    <2>10. regFile[a] # NoFile
      BY <2>3, <2>5 DEF ListsSound
    <2>11. FilesSound'
      BY <1>1, <1>2, <1>6, <2>10 DEF FilesSound, FilesType
    <2> QED BY <2>7, <2>8, <2>9, <2>11, Parts, PTL
  <1>7. \/ lists' = r.lists /\ UNCHANGED <<pState, loginFile, trusted>>
        \/ /\ r.ret # NoState
           /\ lists' = AddLogin(l, uid[p], name[p], a)
           /\ loginFile' = [loginFile EXCEPT ![<<uid[p], name[p]>>] = a]
           /\ pState' = [free.pState EXCEPT ![p] = a]
           /\ trusted' = trusted \cup {<<uid[p], a>>}
    BY DEF GGM_Login
  <1> QED BY <1>5, <1>6, <1>7

LEMMA RegisterIInv ==
  ASSUME IInv, NEW p \in Player, NEW a \in Account, NEW w \in Password,
         GGM_Register(p, a, w)
  PROVE  IInv'
  <1> DEFINE s == pState[p]
             new == [szPassword |-> w, fIsTempBanned |-> lists.anonymous[s]]
             free == GGM_FreeState(p, s)
             l == [lists EXCEPT !.registered = With(@, a, new),
                                !.anonymous = free.anonymous]
  <1>1. /\ PlayersType /\ PointersSound /\ ListsSound(lists) /\ FilesSound
        /\ TrustType
    BY Parts
  <1>2. Connected(p) /\ s \in Uid /\ UNCHANGED <<iState, uid, name, saved>>
    BY DEF GGM_Register, MayRegister
  <1>3. uid[p] \in Uid /\ name[p] \in Name
    BY <1>1, <1>2 DEF Connected, PlayersType
  <1>4. CASE /\ lists' = GGM_GetRegistration(lists, a).lists
             /\ UNCHANGED <<pState, regFile, loginFile, trusted>>
    <2>1. PlayersType' /\ TrustType' /\ FilesSound'
      BY <1>1, <1>2, <1>4 DEF PlayersType, TrustType, FilesSound, FilesType
    <2>2. Grown(lists, lists')
      BY <1>1, <1>4, GetRegistrationOK
    <2> QED BY <1>2, <1>4, <2>1, <2>2, SearchAndFiles
  <1>5. CASE /\ lists' = AddLogin(l, s, name[p], a)
             /\ regFile' = [regFile EXCEPT ![a] = w]
             /\ loginFile' = [loginFile EXCEPT ![<<s, name[p]>>] = a]
             /\ pState' = [free.pState EXCEPT ![p] = a]
             /\ trusted' = trusted \cup {<<s, a>>, <<uid[p], a>>}
    <2>1. /\ lists \in Lists /\ lists.registered \in Partial(Account, Registration)
          /\ lists.anonymous \in Partial(Uid, BOOLEAN)
      BY <1>1 DEF ListsSound, Lists
    <2>2. lists.anonymous[s] \in BOOLEAN
      <3>1. s \in DOMAIN lists.anonymous
        BY <1>2, PointerKinds
      <3> QED BY <2>1, <3>1, PartialFacts
    <2>3. new \in Registration
      BY <2>2 DEF Registration
    <2>4. /\ free.pState \in [Player -> Account \cup Uid \cup {NoState}]
          /\ free.anonymous \in Partial(Uid, BOOLEAN)
          /\ \A q \in Player : free.pState[q] \in DOMAIN lists.registered
               \cup DOMAIN free.anonymous \cup {NoState}
      BY <1>2, FreeStateOK
    <2> DEFINE f == With(lists.registered, a, new)
    <2> HIDE DEF free, new
    <2>5. f \in Partial(Account, Registration)
      BY <2>1, <2>3, WithType
    <2>6. DOMAIN f = DOMAIN lists.registered \cup {a}
      BY DEF With
    <2>19. l = [[lists EXCEPT !.registered = f]
                       EXCEPT !.anonymous = free.anonymous]
      <3>1. l = [lists EXCEPT !.registered = f, !.anonymous = free.anonymous]
        OBVIOUS
      <3> HIDE DEF f, l
      <3> QED BY <3>1
    <2> HIDE DEF f, l
    <2>7. l = [registered |-> f, anonymous |-> free.anonymous,
               logins |-> lists.logins]
      BY <2>1, <2>19 DEF Lists
    <2> HIDE DEF f, l
    <2>8. /\ l.registered = f /\ l.anonymous = free.anonymous
          /\ l.logins = lists.logins
      BY <2>7
    <2>9. LoginsSound(l)
      BY <1>1, <2>1, <2>4, <2>5, <2>6, <2>7
         DEF LoginsSound, Lists, ListsSound
    <2>10. a \in DOMAIN l.registered
      BY <2>6, <2>8
    <2>11. /\ LoginsSound(lists') /\ lists'.registered = f
           /\ lists'.anonymous = free.anonymous
      BY <1>2, <1>3, <1>5, <2>8, <2>9, <2>10, AddLoginSound
    <2>12. w # NoFile
      BY RegistryAssumption
    <2>13. \A b : regFile[b] # NoFile => regFile'[b] # NoFile
      BY <1>1, <1>5, <2>12 DEF FilesSound, FilesType
    <2>14. regFile'[a] = w
      BY <1>1, <1>5 DEF FilesSound, FilesType
    <2>15. ListsSound(lists)'
      BY <1>1, <2>6, <2>11, <2>12, <2>13, <2>14 DEF LoginsSound, ListsSound
    <2>16. PointersSound'
      BY <1>5, <2>4, <2>6, <2>11 DEF PointersSound, Known
    <2>17. PlayersType' /\ TrustType'
      BY <1>1, <1>2, <1>3, <1>5, <2>4 DEF PlayersType, TrustType
    <2>18. FilesSound'
      BY <1>1, <1>2, <1>3, <1>5, <2>12, <2>13, <2>14 DEF FilesSound, FilesType
    <2> QED BY <2>15, <2>16, <2>17, <2>18, Parts, PTL
  <1>6. \/ /\ lists' = GGM_GetRegistration(lists, a).lists
           /\ UNCHANGED <<pState, regFile, loginFile, trusted>>
        \/ /\ lists' = AddLogin(l, s, name[p], a)
           /\ regFile' = [regFile EXCEPT ![a] = w]
           /\ loginFile' = [loginFile EXCEPT ![<<s, name[p]>>] = a]
           /\ pState' = [free.pState EXCEPT ![p] = a]
           /\ trusted' = trusted \cup {<<s, a>>, <<uid[p], a>>}
    BY DEF GGM_Register
  <1> QED BY <1>4, <1>5, <1>6

LEMMA ChangePasswordIInv ==
  ASSUME IInv, NEW p \in Player, NEW w \in Password, GGM_ChangePassword(p, w)
  PROVE  IInv'
  <1> DEFINE a == pState[p]
             f == [lists.registered EXCEPT ![a].szPassword = w]
  <1>1. /\ PlayersType /\ PointersSound /\ ListsSound(lists) /\ FilesSound
        /\ TrustType
    BY Parts
  <1>2. /\ a \in Account /\ UNCHANGED <<players, loginFile, saved, trusted>>
        /\ regFile' = [regFile EXCEPT ![a] = w]
        /\ lists' = [lists EXCEPT !.registered[a].szPassword = w]
    BY DEF GGM_ChangePassword, Registered
  <1>3. lists \in Lists /\ lists.registered \in Partial(Account, Registration)
    BY <1>1 DEF ListsSound, Lists
  <1>4. /\ DOMAIN lists.registered \subseteq Account
        /\ lists.registered \in [DOMAIN lists.registered -> Registration]
    BY <1>3, PartialFacts
  <1>5. f \in [DOMAIN lists.registered -> Registration]
    BY <1>4 DEF Registration
  <1>6. f \in Partial(Account, Registration) /\ DOMAIN f = DOMAIN lists.registered
    BY <1>4, <1>5, PartialIs
  <1>7. lists' = [lists EXCEPT !.registered = f]
    BY <1>2, <1>3 DEF Lists
  <1> HIDE DEF f
  <1>8. w # NoFile
    BY RegistryAssumption
  <1>9. \A b : regFile[b] # NoFile => regFile'[b] # NoFile
    BY <1>1, <1>2, <1>8 DEF FilesSound, FilesType
  <1>10. ListsSound(lists)'
    BY <1>1, <1>3, <1>6, <1>7, <1>9 DEF ListsSound, Lists
  <1>11. PointersSound'
    BY <1>1, <1>2, <1>3, <1>6, <1>7 DEF PointersSound, Known, Lists, players
  <1>12. PlayersType' /\ TrustType'
    BY <1>1, <1>2 DEF PlayersType, TrustType, players
  <1>13. FilesSound'
    BY <1>1, <1>2, <1>8, <1>9 DEF FilesSound, FilesType
  <1> QED BY <1>10, <1>11, <1>12, <1>13, Parts, PTL
-----------------------------------------------------------------------------
LEMMA NextIInv == IInv /\ [Next]_vars => IInv'
  <1> SUFFICES ASSUME IInv, [Next]_vars PROVE IInv'
    OBVIOUS
  <1>1. ASSUME NEW p \in Player, ClientCommand(p) PROVE IInv'
    BY <1>1, RegisterIInv, CrashInRegisterIInv, LoginIInv, LogoutIInv,
       RestoreStateIInv, ChangePasswordIInv, SpawnPlayerIInv, WatchIInv
       DEF ClientCommand
  <1>2. ASSUME NEW p \in Player, Connection(p) PROVE IInv'
    BY <1>2, ClientConnectIInv, ClientUserInfoChangedIInv,
       ClientPutinServerIInv, WatchIInv, ClientDisconnectIInv,
       AuthArrivesIInv, LeaveLoadFixIInv DEF Connection
  <1>3. CASE GGM_Save \/ GGM_Load \/ LoadFails \/ COOP_ServerActivate
               \/ ServerRestart \/ OtherServer
    BY <1>3, SaveIInv, LoadIInv, LoadFailsIInv, ServerActivateIInv,
       ServerRestartIInv, OtherServerIInv
  <1>4. CASE UNCHANGED vars
    BY <1>4, Same, SearchStep, FilesKept, Parts
       DEF vars, players, files, PlayersType
  <1> QED BY <1>1, <1>2, <1>3, <1>4 DEF Next

LEMMA IInvAlways == Spec => []IInv
  BY InitIInv, NextIInv, PTL DEF Spec

\* In every reachable state each variable has its type, and a slot has a uid
\* and a nickname exactly while somebody is connected in it.
THEOREM TypeCorrect == Spec => []TypeOK
  <1>1. IInv => TypeOK
    BY DEF IInv
  <1> QED BY <1>1, IInvAlways, PTL

\* No pointer of a player or of a login outlives the record it points to
\* (GGM_FreeState, GGM_ClearLists), whoever shares the record.
THEOREM NothingDangles == Spec => []NoDanglingState
  <1>1. IInv => NoDanglingState
    BY DEF IInv
  <1> QED BY <1>1, IInvAlways, PTL

\* Whenever the server stops, in the middle of a registration included, the
\* account behind every record, login file and saved game is on file.
THEOREM AccountsAreOnFile == Spec => []AccountsOnFile
  <1>1. IInv => AccountsOnFile
    BY DEF IInv
  <1> QED BY <1>1, IInvAlways, PTL
=============================================================================

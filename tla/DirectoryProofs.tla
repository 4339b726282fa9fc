--------------------------- MODULE DirectoryProofs ---------------------------
(***************************************************************************)
(* Theorems about Directory, for any people, answers and number of         *)
(* requests.                                                               *)
(***************************************************************************)
EXTENDS Directory, FiniteSetTheorems, TLAPS

USE DEF google, locals, requests

\* What the properties rest on: who passed a gate has been on the list, tokens
\* name a row of their owner, and a person who chose a name is signed in.
UsersInv ==
    /\ DOMAIN users \subseteq Address
    /\ users = [a \in DOMAIN users |-> users[a]]
    /\ \A a \in DOMAIN users : a.who \in everListed
    /\ GoogleLowers => \A a \in DOMAIN users : a.lower
ListInv ==
    /\ list \subseteq People /\ everListed \subseteq People /\ list \subseteq everListed
    /\ \A a \in members : \E p \in everListed : a = [who |-> p, lower |-> TRUE]
RequestInv ==
    /\ pc \in [Requests -> {"idle", "find", "create"}]
    /\ who \in [Requests -> People \cup {None}]
    /\ \A r \in Requests : pc[r] # "idle" => who[r] \in everListed
SessionInv ==
    /\ session \in [People -> Address \cup {None}]
    /\ \A p \in People : session[p] # None =>
          session[p] \in DOMAIN users /\ session[p].who = p
ChosenInv ==
    /\ chosen \in [People -> Names \cup {None}]
    /\ \A p \in People : chosen[p] # None => session[p] # None
    /\ GoogleLowers => ChosenNameKept
DirectoryInv == UsersInv /\ ListInv /\ RequestInv /\ SessionInv /\ ChosenInv

LEMMA AddressType == \A a \in Address : /\ a.who \in People /\ a.lower \in BOOLEAN
                                        /\ a = [who |-> a.who, lower |-> a.lower]
BY DEF Address

LEMMA InsertRow ==
    ASSUME UsersInv, NEW a \in Address, NEW n, a \notin DOMAIN users, Insert(a, n),
           a.who \in everListed, GoogleLowers => a.lower, everListed' = everListed
    PROVE  /\ UsersInv'
           /\ DOMAIN users' = DOMAIN users \cup {a}
           /\ users'[a] = n
           /\ \A x \in DOMAIN users : users'[x] = users[x]
<1>1. /\ DOMAIN users' = DOMAIN users \cup {a}
      /\ users' = [x \in DOMAIN users' |-> users'[x]]
      /\ users'[a] = n
      /\ \A x \in DOMAIN users : users'[x] = users[x]
  BY DEF Insert
<1>2. QED
  BY <1>1 DEF UsersInv

\* A table that only grows keeps everybody signed in to their own row.
LEMMA Grows ==
    ASSUME DirectoryInv, UNCHANGED <<session, chosen>>,
           DOMAIN users \subseteq DOMAIN users',
           \A x \in DOMAIN users : users'[x] = users[x]
    PROVE  SessionInv' /\ ChosenInv'
<1>1. SessionInv'
  BY DEF DirectoryInv, SessionInv
<1>2. ChosenInv'
  BY DEF DirectoryInv, SessionInv, ChosenInv, ChosenNameKept
<1>3. QED
  BY <1>1, <1>2

LEMMA DirectoryInit == Init => DirectoryInv
<1> SUFFICES ASSUME Init PROVE DirectoryInv
  OBVIOUS
<1>1. UsersInv /\ ListInv
  BY DEF Init, UsersInv, ListInv
<1>2. RequestInv /\ SessionInv /\ ChosenInv
  BY DEF Init, RequestInv, SessionInv, ChosenInv, ChosenNameKept
<1>3. QED
  BY <1>1, <1>2 DEF DirectoryInv

LEMMA SeedKeeps ==
    ASSUME DirectoryInv, NEW e, OnLoginGroup(e), SeedProfile(e),
           UNCHANGED <<session, chosen, everListed>>
    PROVE  UsersInv' /\ SessionInv' /\ ChosenInv'
<1>1. PICK p \in everListed : e.email = [who |-> p, lower |-> TRUE]
  BY DEF DirectoryInv, ListInv, OnLoginGroup
<1>2. e.email \in Address /\ e.email.who \in everListed /\ e.email.lower
  BY <1>1 DEF DirectoryInv, ListInv, Address
<1>3. CASE e.email \notin DOMAIN users /\ Insert(e.email, e.name)
  BY <1>2, <1>3, InsertRow, Grows DEF DirectoryInv
<1>4. CASE users' = users
  <2>1. UsersInv'
    BY <1>4 DEF DirectoryInv, UsersInv
  <2>2. QED
    BY <1>4, <2>1, Grows
<1>5. QED
  BY <1>3, <1>4 DEF SeedProfile

LEMMA MatchingRow ==
    ASSUME DirectoryInv, NEW p \in People, NEW a \in Matching(GoogleAddress(p))
    PROVE  a \in DOMAIN users /\ a \in Address /\ a.who = p
<1>1. a \in DOMAIN users /\ a \in Address /\ Lower(a) = Lower(GoogleAddress(p))
  BY DEF Matching, SameAddress, DirectoryInv, UsersInv
<1>2. Lower(a).who = a.who /\ Lower(GoogleAddress(p)).who = p
  BY <1>1 DEF Lower, GoogleAddress, Address
<1>3. QED
  BY <1>1, <1>2

LEMMA FindKeeps == ASSUME DirectoryInv, NEW r \in Requests, Find(r)
                   PROVE  DirectoryInv'
<1> USE DirectoryAssumption
<1>1. UsersInv' /\ ListInv'
  BY DEF Find, DirectoryInv, UsersInv, ListInv
<1>2. who[r] \in People /\ who[r] \in everListed
  BY DEF Find, DirectoryInv, RequestInv, ListInv
<1>3. ASSUME NEW a \in Matching(GoogleAddress(who[r])),
             session' = [session EXCEPT ![who[r]] = a], Leave(r)
      PROVE  DirectoryInv'
  <2>1. a \in DOMAIN users /\ a \in Address /\ a.who = who[r] /\ a # None
    BY <1>2, MatchingRow DEF DirectoryInv
  <2>2. RequestInv'
    BY <1>3, <1>2 DEF Find, DirectoryInv, RequestInv, Leave
  <2>3. SessionInv'
    BY <1>3, <1>2, <2>1 DEF Find, DirectoryInv, SessionInv
  \* Of one person there is only one row, when Google writes in lower case.
  <2>4. ASSUME GoogleLowers, session[who[r]] # None PROVE session[who[r]] = a
    <3>1. /\ session[who[r]] \in DOMAIN users /\ session[who[r]] \in Address
          /\ session[who[r]].who = who[r]
      BY <1>2, <2>4 DEF DirectoryInv, UsersInv, SessionInv
    <3>2. a.lower = TRUE /\ session[who[r]].lower = TRUE
      BY <2>1, <2>4, <3>1, AddressType DEF DirectoryInv, UsersInv
    <3>3. QED
      BY <2>1, <3>1, <3>2, AddressType
  <2>5. /\ chosen' = chosen /\ users' = users
        /\ \A p \in People : p # who[r] => session'[p] = session[p]
        /\ session'[who[r]] = a
    BY <1>2, <1>3 DEF Find, DirectoryInv, SessionInv
  <2>6. \A p \in People : chosen[p] # None => session'[p] # None
    BY <2>1, <2>5 DEF DirectoryInv, ChosenInv
  <2>7. ASSUME GoogleLowers PROVE ChosenNameKept'
    <3>1. \A p \in People : chosen[p] # None => session'[p] = session[p]
      BY <2>4, <2>5, <2>7 DEF DirectoryInv, ChosenInv
    <3>2. QED
      BY <2>5, <2>7, <3>1 DEF DirectoryInv, ChosenInv, ChosenNameKept
  <2>8. ChosenInv'
    BY <2>5, <2>6, <2>7 DEF DirectoryInv, ChosenInv
  <2>9. QED
    BY <1>1, <2>2, <2>3, <2>8 DEF DirectoryInv
<1>4. ASSUME pc' = [pc EXCEPT ![r] = "create"], UNCHANGED <<session, who>>
      PROVE  DirectoryInv'
  <2>1. RequestInv'
    BY <1>2, <1>4 DEF Find, DirectoryInv, RequestInv
  <2>2. SessionInv' /\ ChosenInv'
    BY <1>4, Grows DEF Find
  <2>3. QED
    BY <1>1, <2>1, <2>2 DEF DirectoryInv
<1>5. QED
  BY <1>3, <1>4 DEF Find

LEMMA CreateKeeps == ASSUME DirectoryInv, NEW r \in Requests, Create(r)
                     PROVE  DirectoryInv'
<1> USE DirectoryAssumption
<1> DEFINE p == who[r]
           a == GoogleAddress(p)
<1>1. p \in People /\ p \in everListed
  BY DEF Create, DirectoryInv, RequestInv, ListInv
<1>2. a \in Address /\ a.who = p /\ (GoogleLowers => a.lower) /\ a # None
  BY <1>1 DEF GoogleAddress, Address
<1>3. /\ a \notin DOMAIN users /\ Insert(a, GoogleName) /\ everListed' = everListed
      /\ session' = [session EXCEPT ![p] = a] /\ Leave(r)
      /\ chosen' = chosen /\ list' = list /\ members' = members
  BY DEF Create
<1> HIDE DEF p, a
<1>4. /\ UsersInv' /\ DOMAIN users' = DOMAIN users \cup {a}
      /\ \A x \in DOMAIN users : users'[x] = users[x]
  BY <1>1, <1>2, <1>3, InsertRow DEF DirectoryInv
<1>5. ListInv'
  BY <1>3 DEF DirectoryInv, ListInv
<1>6. RequestInv'
  BY <1>3 DEF DirectoryInv, RequestInv, Leave
<1>7. SessionInv'
  BY <1>1, <1>2, <1>3, <1>4 DEF DirectoryInv, SessionInv
<1>8. ChosenInv'
  <2>1. /\ \A q \in People : q # p => session'[q] = session[q]
        /\ session'[p] = a
    BY <1>1, <1>3 DEF DirectoryInv, SessionInv
  <2>2. \A q \in People : chosen[q] # None => session'[q] # None
    BY <1>2, <2>1 DEF DirectoryInv, ChosenInv
  \* Somebody without a row is not signed in, and has chosen nothing.
  <2>3. ASSUME GoogleLowers PROVE chosen[p] = None
    <3>1. SUFFICES ASSUME chosen[p] # None PROVE FALSE
      OBVIOUS
    <3>2. session[p] \in DOMAIN users /\ session[p].who = p /\ session[p] \in Address
      BY <1>1, <3>1 DEF DirectoryInv, ChosenInv, SessionInv, UsersInv
    <3>3. session[p].lower = TRUE /\ a.lower = TRUE
      BY <1>2, <2>3, <3>2, AddressType DEF DirectoryInv, UsersInv
    <3>4. session[p] = a
      BY <1>2, <3>2, <3>3, AddressType
    <3>5. QED
      BY <1>3, <3>2, <3>4
  <2>4. ASSUME GoogleLowers PROVE ChosenNameKept'
    <3>1. SUFFICES ASSUME NEW q \in People, session'[q] # None, chosen[q] # None
                   PROVE  users'[session'[q]] = chosen[q]
      BY <1>3 DEF ChosenNameKept
    <3>2. q # p
      BY <2>3, <2>4, <3>1
    <3>3. session'[q] = session[q] /\ session[q] \in DOMAIN users
      BY <2>1, <3>1, <3>2 DEF DirectoryInv, SessionInv
    <3>4. users[session[q]] = chosen[q]
      BY <2>4, <3>1, <3>3 DEF DirectoryInv, ChosenInv, ChosenNameKept
    <3>5. QED
      BY <1>4, <3>3, <3>4
  <2>5. QED
    BY <1>3, <2>2, <2>4 DEF DirectoryInv, ChosenInv
<1>9. QED
  BY <1>4, <1>5, <1>6, <1>7, <1>8 DEF DirectoryInv

LEMMA SignInFailsKeeps == ASSUME DirectoryInv, NEW r \in Requests, SignInFails(r)
                          PROVE  DirectoryInv'
<1>1. ListInv' /\ RequestInv'
  BY DEF SignInFails, DirectoryInv, ListInv, RequestInv, Leave
<1>2. UsersInv' /\ SessionInv' /\ ChosenInv'
  <2>1. CASE users' = users
    <3>1. UsersInv'
      BY <2>1 DEF SignInFails, DirectoryInv, UsersInv
    <3>2. QED
      BY <2>1, <3>1, Grows DEF SignInFails
  <2>2. ASSUME pc[r] = "create", GoogleAddress(who[r]) \notin DOMAIN users,
               Insert(GoogleAddress(who[r]), GoogleName)
        PROVE  UsersInv' /\ SessionInv' /\ ChosenInv'
    <3>1. who[r] \in People /\ who[r] \in everListed
      BY <2>2 DEF DirectoryInv, RequestInv, ListInv
    <3>2. /\ GoogleAddress(who[r]) \in Address
          /\ GoogleAddress(who[r]).who \in everListed
          /\ GoogleLowers => GoogleAddress(who[r]).lower
      BY <3>1, DirectoryAssumption DEF GoogleAddress, Address
    <3>3. /\ UsersInv' /\ DOMAIN users' = DOMAIN users \cup {GoogleAddress(who[r])}
          /\ \A x \in DOMAIN users : users'[x] = users[x]
      BY <2>2, <3>2, InsertRow DEF SignInFails, DirectoryInv
    <3>4. QED
      BY <3>3, Grows DEF SignInFails
  <2>3. QED
    BY <2>1, <2>2 DEF SignInFails
<1>3. QED
  BY <1>1, <1>2 DEF DirectoryInv

LEMMA UpdateMeKeeps == ASSUME DirectoryInv, NEW p \in People, UpdateMe(p)
                       PROVE  DirectoryInv'
<1> USE DirectoryAssumption
<1>1. PICK n \in Names : /\ users' = [users EXCEPT ![session[p]] = n]
                         /\ chosen' = [chosen EXCEPT ![p] = n]
  BY DEF UpdateMe
<1>2. ListInv' /\ RequestInv'
  BY DEF UpdateMe, DirectoryInv, ListInv, RequestInv
<1>3. /\ session' = session /\ everListed' = everListed
      /\ session[p] # None /\ session[p] \in DOMAIN users
  BY DEF UpdateMe, DirectoryInv, SessionInv
<1>4. /\ DOMAIN users' = DOMAIN users
      /\ users'[session[p]] = n
      /\ \A x \in DOMAIN users : x # session[p] => users'[x] = users[x]
  BY <1>1, <1>3
<1>5. UsersInv'
  BY <1>1, <1>3, <1>4 DEF DirectoryInv, UsersInv
<1>6. SessionInv'
  BY <1>3, <1>4 DEF DirectoryInv, SessionInv
<1>7. ChosenInv'
  <2>1. /\ chosen' \in [People -> Names \cup {None}]
        /\ chosen'[p] = n
        /\ \A q \in People : q # p => chosen'[q] = chosen[q]
    BY <1>1 DEF DirectoryInv, ChosenInv
  <2>2. \A q \in People : chosen'[q] # None => session'[q] # None
    BY <1>3, <2>1 DEF DirectoryInv, ChosenInv
  <2>3. ASSUME GoogleLowers PROVE ChosenNameKept'
    <3>1. SUFFICES ASSUME NEW q \in People, session[q] # None, chosen'[q] # None
                   PROVE  users'[session[q]] = chosen'[q]
      BY <1>3 DEF ChosenNameKept
    <3>2. CASE q = p
      BY <1>4, <2>1, <3>2
    \* Nobody else is signed in to p's row.
    <3>3. CASE q # p
      <4>1. session[q] # session[p] /\ session[q] \in DOMAIN users
        BY <1>3, <3>1, <3>3 DEF DirectoryInv, SessionInv
      <4>2. users[session[q]] = chosen[q]
        BY <2>1, <2>3, <3>1, <3>3 DEF DirectoryInv, ChosenInv, ChosenNameKept
      <4>3. QED
        BY <1>4, <2>1, <3>3, <4>1, <4>2
    <3>4. QED
      BY <3>2, <3>3
  <2>4. QED
    BY <2>1, <2>2, <2>3 DEF ChosenInv
<1>8. QED
  BY <1>2, <1>5, <1>6, <1>7 DEF DirectoryInv

\* The steps of the sync that write no row, and the end of any.
LEMMA SyncKeepsList ==
    ASSUME DirectoryInv, SyncStep PROVE ListInv' /\ RequestInv'
<1>1. list' = list /\ everListed' = everListed /\ pc' = pc /\ who' = who
  BY DEF SyncStep, Start, ReadSheet, ListMembers, Pass, Seed, Finish, SyncFails
<1>2. members' = members \/ members' = {} \/ members' = Listed
  BY DEF SyncStep, Start, ReadSheet, ListMembers, Pass, Seed, Finish, SyncFails, Forget
<1>3. ListInv'
  BY <1>1, <1>2 DEF DirectoryInv, ListInv, Listed
<1>4. RequestInv'
  BY <1>1 DEF DirectoryInv, RequestInv
<1>5. QED
  BY <1>3, <1>4

LEMMA SyncKeeps == ASSUME DirectoryInv, SyncStep PROVE DirectoryInv'
<1>1. UNCHANGED <<session, chosen, everListed>>
  BY DEF SyncStep, Start, ReadSheet, ListMembers, Pass, Seed, Finish, SyncFails
<1>2. \/ users' = users
      \/ OnLoginGroup(Head(entries)) /\ SeedProfile(Head(entries))
  BY DEF SyncStep, Start, ReadSheet, ListMembers, Pass, Seed, Finish, SyncFails
<1>3. UsersInv' /\ SessionInv' /\ ChosenInv'
  <2>1. CASE users' = users
    <3>1. UsersInv'
      BY <1>1, <2>1 DEF DirectoryInv, UsersInv
    <3>2. QED
      BY <1>1, <2>1, <3>1, Grows
  <2>2. CASE OnLoginGroup(Head(entries)) /\ SeedProfile(Head(entries))
    BY <1>1, <2>2, SeedKeeps
  <2>3. QED
    BY <1>2, <2>1, <2>2
<1>4. QED
  BY <1>3, SyncKeepsList DEF DirectoryInv

LEMMA DirectoryStep == DirectoryInv /\ [Next]_vars => DirectoryInv'
<1> SUFFICES ASSUME DirectoryInv, [Next]_vars PROVE DirectoryInv'
  OBVIOUS
<1>1. CASE Crash
  <2>1. UsersInv' /\ ListInv'
    BY <1>1 DEF Crash, Forget, DirectoryInv, UsersInv, ListInv
  <2>2. RequestInv'
    BY <1>1 DEF Crash, DirectoryInv, RequestInv
  <2>3. SessionInv' /\ ChosenInv'
    BY <1>1, Grows DEF Crash
  <2>4. QED
    BY <2>1, <2>2, <2>3 DEF DirectoryInv
<1>2. ASSUME NEW r \in Requests, NEW p \in People, PassGate(r, p) PROVE DirectoryInv'
  <2>1. UsersInv' /\ ListInv'
    BY <1>2 DEF PassGate, DirectoryInv, UsersInv, ListInv
  <2>2. RequestInv'
    BY <1>2 DEF PassGate, DirectoryInv, ListInv, RequestInv
  <2>3. SessionInv' /\ ChosenInv'
    BY <1>2, Grows DEF PassGate
  <2>4. QED
    BY <2>1, <2>2, <2>3 DEF DirectoryInv
<1>3. CASE Submit
  <2>1. UsersInv' /\ ListInv' /\ RequestInv'
    BY <1>3 DEF Submit, DirectoryInv, UsersInv, ListInv, RequestInv
  <2>2. SessionInv' /\ ChosenInv'
    BY <1>3, Grows DEF Submit
  <2>3. QED
    BY <2>1, <2>2 DEF DirectoryInv
<1>4. ASSUME NEW p \in People, ChangeList(p) PROVE DirectoryInv'
  <2>1. everListed \subseteq everListed' /\ list' \subseteq everListed'
    BY <1>4 DEF ChangeList
  <2>2. list' \subseteq People /\ everListed' \subseteq People
    BY <1>4 DEF ChangeList, DirectoryInv, ListInv
  <2>3. UsersInv' /\ ListInv' /\ RequestInv'
    BY <1>4, <2>1, <2>2 DEF ChangeList, DirectoryInv, UsersInv, ListInv, RequestInv
  <2>4. SessionInv' /\ ChosenInv'
    BY <1>4, Grows DEF ChangeList
  <2>5. QED
    BY <2>3, <2>4 DEF DirectoryInv
<1>5. CASE UNCHANGED vars
  <2>1. UsersInv' /\ ListInv' /\ RequestInv'
    BY <1>5 DEF vars, DirectoryInv, UsersInv, ListInv, RequestInv
  <2>2. SessionInv' /\ ChosenInv'
    BY <1>5, Grows DEF vars
  <2>3. QED
    BY <2>1, <2>2 DEF DirectoryInv
<1>6. QED
  BY <1>1, <1>2, <1>3, <1>4, <1>5, SyncKeeps, FindKeeps, CreateKeeps,
     SignInFailsKeeps, UpdateMeKeeps DEF Next

THEOREM DirectoryInvariant == Spec => []DirectoryInv
<1>1. QED
  BY DirectoryInit, DirectoryStep, PTL DEF Spec

\* Only people who have been on the login group ever get a row, from the sheet
\* or by signing in, whatever fails and however requests and restarts overlap.
THEOREM NoStrangerHasRowHolds == Spec => []NoStrangerHasRow
<1>1. DirectoryInv => NoStrangerHasRow
  BY DEF DirectoryInv, UsersInv, NoStrangerHasRow
<1>2. QED
  BY <1>1, DirectoryInvariant, PTL

\* Where Google writes addresses in lower case, nobody gets a second row ...
THEOREM OneRowPerPersonHolds == GoogleLowers => (Spec => []OneRowPerPerson)
<1>1. SUFFICES ASSUME GoogleLowers PROVE Spec => []OneRowPerPerson
  OBVIOUS
<1>2. DirectoryInv => OneRowPerPerson
  <2>1. SUFFICES ASSUME DirectoryInv, NEW a \in DOMAIN users, NEW b \in DOMAIN users,
                        a.who = b.who
                 PROVE  a = b
    BY DEF OneRowPerPerson
  <2>2. a \in Address /\ b \in Address /\ a.lower = TRUE /\ b.lower = TRUE
    BY <1>1, <2>1, AddressType DEF DirectoryInv, UsersInv
  <2>3. QED
    BY <2>1, <2>2, AddressType
<1>3. QED
  BY <1>2, DirectoryInvariant, PTL

\* ... and nobody loses the name they chose.
THEOREM ChosenNameKeptHolds == GoogleLowers => (Spec => []ChosenNameKept)
<1>1. SUFFICES ASSUME GoogleLowers PROVE Spec => []ChosenNameKept
  OBVIOUS
<1>2. DirectoryInv => ChosenNameKept
  BY <1>1 DEF DirectoryInv, ChosenInv
<1>3. QED
  BY <1>2, DirectoryInvariant, PTL

------------------------------------------------------------------------------
(* What parseRows makes of the rows.  The loop is a recursive function: that *)
(* it exists, and what it has after n rows, is shown by induction, stated as *)
(* a fact about sets of natural numbers.                                     *)

LEMMA NatSet ==
    ASSUME NEW T, T \subseteq Nat, 0 \in T, \A n \in T : n + 1 \in T
    PROVE  T = Nat
<1> DEFINE R == OpToRel(<, Nat)
           U == Nat \ T
<1>1. SUFFICES ASSUME U # {} PROVE FALSE
  OBVIOUS
<1>2. IsWellFoundedOn(R, Nat)
  BY NatLessThanWellFounded
<1>3. R = {p \in Nat \X Nat : p[1] < p[2]}
  BY DEF OpToRel
<1>4. PICK x \in U : \A y \in U : <<y, x>> \notin R
  <2>1. U \subseteq Nat
    OBVIOUS
  <2> HIDE DEF R, U
  <2>2. QED
    BY <1>1, <1>2, <2>1, WFMin
<1>5. \A y \in U : ~(y < x)
  BY <1>3, <1>4
<1>6. x \in Nat /\ x # 0
  OBVIOUS
<1>7. x - 1 \in T
  BY <1>5, <1>6
<1>8. QED
  BY <1>6, <1>7

\* A function that takes no value twice takes as many values as arguments.
LEMMA CountImage ==
    ASSUME NEW S, IsFiniteSet(S), NEW f, DOMAIN f = S,
           f = [x \in S |-> f[x]], \A x, y \in S : f[x] = f[y] => x = y
    PROVE  LET T == {f[x] : x \in S} IN IsFiniteSet(T) /\ Cardinality(T) = Cardinality(S)
<1> DEFINE T == {f[x] : x \in S}
<1>1. f \in [S -> T]
  OBVIOUS
<1>2. f \in Bijection(S, T)
  BY <1>1 DEF Bijection, Injection, Surjection, IsInjective
<1>3. QED
  BY <1>2, FS_Bijection DEF ExistsBijection

NoRows == [entries |-> <<>>, duplicate |-> 0, invalid |-> 0]
Loop(rs) == CHOOSE f : f = [n \in 0..Len(rs) |->
                              IF n = 0 THEN NoRows ELSE Take(f[n - 1], rs[n])]

LEMMA LoopExists ==
    ASSUME NEW rs, Len(rs) \in Nat
    PROVE  /\ ParseRows(rs) = Loop(rs)[Len(rs)]
           /\ Loop(rs)[0] = NoRows
           /\ \A n \in 1..Len(rs) : Loop(rs)[n] = Take(Loop(rs)[n - 1], rs[n])
<1> DEFINE Upto(f, m) == f = [n \in 0..m |->
                                 IF n = 0 THEN NoRows ELSE Take(f[n - 1], rs[n])]
           T == {m \in Nat : \E f : Upto(f, m)}
<1>1. 0 \in T
  <2>1. Upto([n \in 0..0 |-> NoRows], 0)
    OBVIOUS
  <2>2. QED
    BY <2>1
<1>2. ASSUME NEW m \in T PROVE m + 1 \in T
  <2>1. m \in Nat /\ \E f : Upto(f, m)
    OBVIOUS
  <2>2. PICK f : Upto(f, m)
    BY <2>1
  <2> DEFINE g == [n \in 0..m + 1 |-> IF n = m + 1 THEN Take(f[m], rs[m + 1]) ELSE f[n]]
  <2>3. /\ f[0] = NoRows
        /\ \A n \in 1..m : f[n] = Take(f[n - 1], rs[n])
    BY <2>1, <2>2
  <2>4. ASSUME NEW n \in 0..m + 1
        PROVE  g[n] = IF n = 0 THEN NoRows ELSE Take(g[n - 1], rs[n])
    <3>1. CASE n = 0
      BY <2>1, <2>3, <3>1
    <3>2. CASE n \in 1..m
      <4>1. g[n] = f[n] /\ g[n - 1] = f[n - 1]
        BY <2>1, <3>2
      <4>2. QED
        BY <2>1, <2>3, <3>2, <4>1
    <3>3. CASE n = m + 1
      <4>1. g[n] = Take(f[m], rs[n]) /\ g[n - 1] = f[m]
        BY <2>1, <3>3
      <4>2. QED
        BY <2>1, <3>3, <4>1
    <3>4. QED
      BY <2>1, <3>1, <3>2, <3>3
  <2>5. DOMAIN g = 0..m + 1 /\ g = [n \in 0..m + 1 |-> g[n]]
    OBVIOUS
  <2>6. Upto(g, m + 1)
    <3> HIDE DEF g
    <3>1. QED
      BY <2>4, <2>5
  <2>7. \E h : Upto(h, m + 1)
    <3> HIDE DEF Upto, g
    <3>1. QED
      BY <2>6
  <2> HIDE DEF Upto
  <2>8. QED
    BY <2>1, <2>7
<1>3. T = Nat
  <2>1. T \subseteq Nat
    OBVIOUS
  <2> HIDE DEF T
  <2>2. QED
    BY <1>1, <1>2, <2>1, NatSet
<1>4. Upto(Loop(rs), Len(rs))
  <2>1. \E f : Upto(f, Len(rs))
    BY <1>3
  <2>2. QED
    BY <2>1 DEF Loop
<1>5. ParseRows(rs) = Loop(rs)[Len(rs)]
  BY DEF ParseRows, Loop, NoRows
<1>6. QED
  <2>1. \A n \in 0..Len(rs) :
            Loop(rs)[n] = IF n = 0 THEN NoRows ELSE Take(Loop(rs)[n - 1], rs[n])
    BY <1>4
  <2>2. QED
    BY <1>5, <2>1

Entry == [email : Address, name : Names]
Result == [entries : Seq(Entry), duplicate : Nat, invalid : Nat]
UsableIn(rs, n) == {i \in 1..n : ~Unusable(rs[i])}
LatestIn(rs, n) == {i \in UsableIn(rs, n) : \A j \in UsableIn(rs, n) :
                        j > i => ~SameAddress(rs[i].address, rs[j].address)}

\* Every address among the entries once; and which answers they are.
Distinct(es) == \A k, m \in DOMAIN es : es[k].email = es[m].email => k = m
Parsed(rs, n, acc) ==
    /\ acc \in Result
    /\ Distinct(acc.entries)
    /\ \A k \in DOMAIN acc.entries : \E i \in LatestIn(rs, n) : acc.entries[k] = EntryOf(rs[i])
    /\ \A i \in UsableIn(rs, n) :
          \E k \in DOMAIN acc.entries : acc.entries[k].email = Lower(rs[i].address)
    /\ \A i \in LatestIn(rs, n) : \E k \in DOMAIN acc.entries : acc.entries[k] = EntryOf(rs[i])
    /\ acc.invalid = Cardinality((1..n) \ UsableIn(rs, n))
    /\ acc.duplicate = Cardinality(UsableIn(rs, n) \ LatestIn(rs, n))
    /\ n = acc.invalid + acc.duplicate + Len(acc.entries)

LEMMA EntryType ==
    ASSUME NEW row \in Answers, ~Unusable(row)
    PROVE  EntryOf(row) \in Entry /\ EntryOf(row).email = Lower(row.address)
<1>1. row \in Row
  BY DirectoryAssumption
<1>2. row.address \in Address /\ row.name \in Names
  BY <1>1 DEF Row, Cell, Unusable
<1>3. Lower(row.address) \in Address
  BY <1>2 DEF Lower, Address
<1>4. QED
  BY <1>2, <1>3 DEF EntryOf, Entry

LEMMA ParsedNone == \A rs : Parsed(rs, 0, NoRows)
<1> TAKE rs
<1>1. UsableIn(rs, 0) = {} /\ LatestIn(rs, 0) = {}
  BY DEF UsableIn, LatestIn
<1>2. (1..0) \ UsableIn(rs, 0) = {} /\ UsableIn(rs, 0) \ LatestIn(rs, 0) = {}
  BY <1>1
<1>3. NoRows.entries = <<>> /\ NoRows.duplicate = 0 /\ NoRows.invalid = 0
  BY DEF NoRows
<1>4. NoRows \in Result
  BY DEF NoRows, Result
<1>5. Distinct(NoRows.entries)
  BY <1>3 DEF Distinct
<1>6. DOMAIN NoRows.entries = {} /\ Len(NoRows.entries) = 0
  BY <1>3
<1>7. Cardinality({}) = 0
  BY FS_EmptySet
<1>8. /\ NoRows.invalid = Cardinality((1..0) \ UsableIn(rs, 0))
      /\ NoRows.duplicate = Cardinality(UsableIn(rs, 0) \ LatestIn(rs, 0))
  BY <1>2, <1>3, <1>7
<1>9. 0 = NoRows.invalid + NoRows.duplicate + Len(NoRows.entries)
  BY <1>3, <1>6
<1>10. QED
  BY <1>1, <1>4, <1>5, <1>6, <1>8, <1>9 DEF Parsed

\* The sets of rows are finite, and those before the last one are as they were.
LEMMA IndexSets ==
    ASSUME NEW rs, NEW n \in Nat
    PROVE  /\ IsFiniteSet((1..n) \ UsableIn(rs, n)) /\ IsFiniteSet(UsableIn(rs, n))
           /\ IsFiniteSet(LatestIn(rs, n)) /\ IsFiniteSet(UsableIn(rs, n) \ LatestIn(rs, n))
           /\ UsableIn(rs, n) \subseteq 1..n /\ LatestIn(rs, n) \subseteq UsableIn(rs, n)
           /\ UsableIn(rs, n + 1) = UsableIn(rs, n) \cup
                                       (IF Unusable(rs[n + 1]) THEN {} ELSE {n + 1})
<1>1. IsFiniteSet(1..n)
  BY FS_Interval
<1>2. UsableIn(rs, n) \subseteq 1..n /\ LatestIn(rs, n) \subseteq UsableIn(rs, n)
  BY DEF UsableIn, LatestIn
<1>3. /\ (1..n) \ UsableIn(rs, n) \in SUBSET (1..n) /\ UsableIn(rs, n) \in SUBSET (1..n)
      /\ LatestIn(rs, n) \in SUBSET (1..n) /\ UsableIn(rs, n) \ LatestIn(rs, n) \in SUBSET (1..n)
  BY <1>2
<1>4. 1..n + 1 = (1..n) \cup {n + 1}
  OBVIOUS
<1>5. UsableIn(rs, n + 1) = UsableIn(rs, n) \cup
                               (IF Unusable(rs[n + 1]) THEN {} ELSE {n + 1})
  BY <1>4 DEF UsableIn
<1>6. QED
  BY <1>1, <1>2, <1>3, <1>5, FS_Subset

\* What one row makes of the result so far.
LEMMA Updates ==
    ASSUME NEW acc \in Result, NEW es \in Seq(Entry)
    PROVE  /\ LET new == [acc EXCEPT !.entries = es] IN
                 /\ new \in Result /\ new.entries = es
                 /\ new.duplicate = acc.duplicate /\ new.invalid = acc.invalid
           /\ LET new == [acc EXCEPT !.entries = es, !.duplicate = @ + 1] IN
                 /\ new \in Result /\ new.entries = es
                 /\ new.duplicate = acc.duplicate + 1 /\ new.invalid = acc.invalid
           /\ LET new == [acc EXCEPT !.invalid = @ + 1] IN
                 /\ new \in Result /\ new.entries = acc.entries
                 /\ new.duplicate = acc.duplicate /\ new.invalid = acc.invalid + 1
<1>1. /\ [acc EXCEPT !.entries = es] \in Result
      /\ [acc EXCEPT !.entries = es].entries = es
      /\ [acc EXCEPT !.entries = es].duplicate = acc.duplicate
      /\ [acc EXCEPT !.entries = es].invalid = acc.invalid
  BY DEF Result
<1>2. ASSUME NEW d \in Nat
      PROVE  /\ [acc EXCEPT !.entries = es, !.duplicate = d] \in Result
             /\ [acc EXCEPT !.entries = es, !.duplicate = d].entries = es
             /\ [acc EXCEPT !.entries = es, !.duplicate = d].duplicate = d
             /\ [acc EXCEPT !.entries = es, !.duplicate = d].invalid = acc.invalid
  BY DEF Result
<1>3. ASSUME NEW d \in Nat
      PROVE  /\ [acc EXCEPT !.invalid = d] \in Result
             /\ [acc EXCEPT !.invalid = d].entries = acc.entries
             /\ [acc EXCEPT !.invalid = d].duplicate = acc.duplicate
             /\ [acc EXCEPT !.invalid = d].invalid = d
  BY DEF Result
<1>4. acc.duplicate + 1 \in Nat /\ acc.invalid + 1 \in Nat
  BY DEF Result
<1>5. QED
  BY <1>1, <1>2, <1>3, <1>4, Zenon

LEMMA Counts ==
    ASSUME NEW rs, NEW n \in Nat, NEW acc, Parsed(rs, n, acc)
    PROVE  /\ acc \in Result /\ acc.entries \in Seq(Entry)
           /\ acc.invalid \in Nat /\ acc.duplicate \in Nat /\ Len(acc.entries) \in Nat
           /\ n = acc.invalid + acc.duplicate + Len(acc.entries)
<1>1. acc \in Result
  BY DEF Parsed, Result
<1>2. acc.entries \in Seq(Entry) /\ acc.invalid \in Nat /\ acc.duplicate \in Nat
  BY <1>1 DEF Result
<1>3. n = acc.invalid + acc.duplicate + Len(acc.entries)
  BY DEF Parsed
<1>4. QED
  BY <1>1, <1>2, <1>3

LEMMA TakeUnusable ==
    ASSUME NEW rs, NEW n \in Nat, NEW acc, Parsed(rs, n, acc), Unusable(rs[n + 1])
    PROVE  Parsed(rs, n + 1, Take(acc, rs[n + 1]))
<1> DEFINE new == Take(acc, rs[n + 1])
<1>1. /\ acc \in Result /\ acc.entries \in Seq(Entry)
      /\ acc.invalid \in Nat /\ acc.duplicate \in Nat /\ Len(acc.entries) \in Nat
      /\ n = acc.invalid + acc.duplicate + Len(acc.entries)
  BY Counts
<1>2. new = [acc EXCEPT !.invalid = @ + 1]
  BY DEF Take
<1> HIDE DEF new
<1>3. /\ new \in Result
      /\ new.entries = acc.entries /\ new.duplicate = acc.duplicate
      /\ new.invalid = acc.invalid + 1
  BY <1>1, <1>2, Updates
<1>4. UsableIn(rs, n + 1) = UsableIn(rs, n)
  BY IndexSets
<1>5. LatestIn(rs, n + 1) = LatestIn(rs, n)
  BY <1>4 DEF LatestIn
<1>6. new.invalid = Cardinality((1..n + 1) \ UsableIn(rs, n + 1))
  <2> DEFINE bad == (1..n) \ UsableIn(rs, n)
  <2>1. (1..n + 1) \ UsableIn(rs, n + 1) = bad \cup {n + 1} /\ n + 1 \notin bad
    <3>1. UsableIn(rs, n) \subseteq 1..n
      BY IndexSets
    <3>2. n + 1 \notin 1..n /\ 1..n + 1 = (1..n) \cup {n + 1}
      OBVIOUS
    <3>3. QED
      BY <1>4, <3>1, <3>2, Zenon
  <2>2. IsFiniteSet(bad) /\ acc.invalid = Cardinality(bad)
    BY IndexSets DEF Parsed
  <2> HIDE DEF bad
  <2>3. QED
    BY <1>3, <2>1, <2>2, FS_AddElement
<1>7. n + 1 = new.invalid + new.duplicate + Len(new.entries)
  <2> DEFINE L == Len(acc.entries)
  <2>1. L \in Nat /\ n = acc.invalid + acc.duplicate + L /\ Len(new.entries) = L
    BY <1>1, <1>3
  <2> HIDE DEF L
  <2>2. QED
    BY <1>1, <1>3, <2>1
<1>8. new.duplicate = Cardinality(UsableIn(rs, n + 1) \ LatestIn(rs, n + 1))
  BY <1>3, <1>4, <1>5 DEF Parsed
<1>9. Parsed(rs, n + 1, new)
  <2>1. /\ Distinct(acc.entries)
        /\ \A k \in DOMAIN acc.entries :
              \E i \in LatestIn(rs, n) : acc.entries[k] = EntryOf(rs[i])
        /\ \A i \in UsableIn(rs, n) :
              \E k \in DOMAIN acc.entries : acc.entries[k].email = Lower(rs[i].address)
        /\ \A i \in LatestIn(rs, n) :
              \E k \in DOMAIN acc.entries : acc.entries[k] = EntryOf(rs[i])
    BY DEF Parsed
  <2>2. /\ Distinct(new.entries)
        /\ \A k \in DOMAIN new.entries :
              \E i \in LatestIn(rs, n + 1) : new.entries[k] = EntryOf(rs[i])
        /\ \A i \in UsableIn(rs, n + 1) :
              \E k \in DOMAIN new.entries : new.entries[k].email = Lower(rs[i].address)
        /\ \A i \in LatestIn(rs, n + 1) :
              \E k \in DOMAIN new.entries : new.entries[k] = EntryOf(rs[i])
    <3>1. new.entries = acc.entries
      BY <1>3
    <3>2. QED
      BY <1>4, <1>5, <2>1, <3>1
  <2>3. new \in Result
    BY <1>3
  <2>4. QED
    BY <1>6, <1>7, <1>8, <2>2, <2>3, Zenon DEF Parsed
<1>10. QED
  BY <1>9 DEF new

\* A usable row whose address no entry has yet.
LEMMA TakeFirst ==
    ASSUME NEW rs, NEW n \in Nat, NEW acc, Parsed(rs, n, acc),
           rs[n + 1] \in Answers, ~Unusable(rs[n + 1]),
           \A k \in DOMAIN acc.entries : acc.entries[k].email # EntryOf(rs[n + 1]).email
    PROVE  Parsed(rs, n + 1, Take(acc, rs[n + 1]))
<1> DEFINE new == Take(acc, rs[n + 1])
           e == EntryOf(rs[n + 1])
<1>1. /\ acc \in Result /\ acc.entries \in Seq(Entry)
      /\ acc.invalid \in Nat /\ acc.duplicate \in Nat /\ Len(acc.entries) \in Nat
      /\ n = acc.invalid + acc.duplicate + Len(acc.entries)
  BY Counts
<1>2. new = [acc EXCEPT !.entries = Append(@, e)]
  <2>1. {k \in DOMAIN acc.entries : acc.entries[k].email = e.email} = {}
    OBVIOUS
  <2>2. QED
    BY <2>1 DEF Take
<1>3. e \in Entry /\ e.email = Lower(rs[n + 1].address)
  BY EntryType
<1>a. \A k \in DOMAIN acc.entries : acc.entries[k].email # e.email
  OBVIOUS
<1> DEFINE L == Len(acc.entries)
<1>b. e = EntryOf(rs[n + 1])
  OBVIOUS
<1> HIDE DEF new, e
<1>4. /\ new \in Result
      /\ new.entries = Append(acc.entries, e) /\ new.duplicate = acc.duplicate
      /\ new.invalid = acc.invalid
  <2>1. Append(acc.entries, e) \in Seq(Entry)
    BY <1>1, <1>3
  <2>2. QED
    BY <1>1, <1>2, <2>1, Updates
<1>5. /\ L \in Nat /\ DOMAIN acc.entries = 1..L /\ DOMAIN new.entries = 1..L + 1
      /\ Len(new.entries) = L + 1
      /\ new.entries[L + 1] = e /\ \A k \in 1..L : new.entries[k] = acc.entries[k]
  BY <1>1, <1>3, <1>4
<1>6. UsableIn(rs, n + 1) = UsableIn(rs, n) \cup {n + 1} /\ UsableIn(rs, n) \subseteq 1..n
  BY IndexSets
<1>7. \A i \in UsableIn(rs, n) : ~SameAddress(rs[i].address, rs[n + 1].address)
  BY <1>3, <1>a DEF Parsed, SameAddress
<1>8. LatestIn(rs, n + 1) = LatestIn(rs, n) \cup {n + 1} /\ n + 1 \notin UsableIn(rs, n)
  BY <1>6, <1>7 DEF LatestIn
<1>p. /\ Distinct(acc.entries)
      /\ \A k \in DOMAIN acc.entries :
            \E i \in LatestIn(rs, n) : acc.entries[k] = EntryOf(rs[i])
      /\ \A i \in UsableIn(rs, n) :
            \E k \in DOMAIN acc.entries : acc.entries[k].email = Lower(rs[i].address)
      /\ \A i \in LatestIn(rs, n) :
            \E k \in DOMAIN acc.entries : acc.entries[k] = EntryOf(rs[i])
  BY DEF Parsed
<1>q. /\ L + 1 \in DOMAIN new.entries /\ L + 1 \notin 1..L
      /\ \A k \in DOMAIN new.entries : k = L + 1 \/ k \in DOMAIN acc.entries
      /\ \A k \in DOMAIN acc.entries : /\ k \in DOMAIN new.entries /\ k # L + 1
                                       /\ new.entries[k] = acc.entries[k]
  <2>1. L \in Nat
    BY <1>5
  <2> HIDE DEF L
  <2>2. QED
    BY <1>5, <2>1
<1>9. Distinct(new.entries)
  <2> HIDE DEF L
  <2> SUFFICES ASSUME NEW k \in DOMAIN new.entries, NEW m \in DOMAIN new.entries,
                      new.entries[k].email = new.entries[m].email
               PROVE  k = m
    BY DEF Distinct
  <2>1. CASE k = L + 1 /\ m \in DOMAIN acc.entries
    BY <1>5, <1>a, <1>q, <2>1
  <2>2. CASE m = L + 1 /\ k \in DOMAIN acc.entries
    BY <1>5, <1>a, <1>q, <2>2
  <2>3. CASE k \in DOMAIN acc.entries /\ m \in DOMAIN acc.entries
    BY <1>p, <1>q, <2>3 DEF Distinct
  <2>4. QED
    BY <1>q, <2>1, <2>2, <2>3
<1>10. /\ \A k \in DOMAIN new.entries :
             \E i \in LatestIn(rs, n + 1) : new.entries[k] = EntryOf(rs[i])
       /\ \A i \in LatestIn(rs, n + 1) :
             \E k \in DOMAIN new.entries : new.entries[k] = EntryOf(rs[i])
  <2>1. \A k \in DOMAIN new.entries :
             \E i \in LatestIn(rs, n + 1) : new.entries[k] = EntryOf(rs[i])
    <3> SUFFICES ASSUME NEW k \in DOMAIN new.entries
                 PROVE  \E i \in LatestIn(rs, n + 1) : new.entries[k] = EntryOf(rs[i])
      OBVIOUS
    <3>1. CASE k = L + 1
      BY <1>5, <1>8, <1>b, <3>1
    <3>2. CASE k \in DOMAIN acc.entries
      BY <1>8, <1>p, <1>q, <3>2
    <3>3. QED
      BY <1>q, <3>1, <3>2
  <2>2. \A i \in LatestIn(rs, n + 1) :
             \E k \in DOMAIN new.entries : new.entries[k] = EntryOf(rs[i])
    <3> HIDE DEF L
    <3>1. QED
      BY <1>5, <1>8, <1>b, <1>p, <1>q
  <2>3. QED
    BY <2>1, <2>2
<1>11. \A i \in UsableIn(rs, n + 1) :
             \E k \in DOMAIN new.entries : new.entries[k].email = Lower(rs[i].address)
  <2> HIDE DEF L
  <2> SUFFICES ASSUME NEW i \in UsableIn(rs, n + 1)
               PROVE  \E k \in DOMAIN new.entries :
                          new.entries[k].email = Lower(rs[i].address)
    OBVIOUS
  <2>1. CASE i = n + 1
    BY <1>3, <1>5, <1>q, <2>1
  <2>2. CASE i \in UsableIn(rs, n)
    BY <1>p, <1>q, <2>2
  <2>3. QED
    BY <1>6, <2>1, <2>2
<1>12. /\ (1..n + 1) \ UsableIn(rs, n + 1) = (1..n) \ UsableIn(rs, n)
       /\ UsableIn(rs, n + 1) \ LatestIn(rs, n + 1) = UsableIn(rs, n) \ LatestIn(rs, n)
  BY <1>6, <1>8
<1>13. n + 1 = new.invalid + new.duplicate + Len(new.entries)
  <2>1. n = acc.invalid + acc.duplicate + L /\ L \in Nat
    BY <1>1
  <2> HIDE DEF L
  <2>2. QED
    BY <1>1, <1>4, <1>5, <2>1
<1>14. QED
  <2>1. /\ acc.invalid = Cardinality((1..n) \ UsableIn(rs, n))
        /\ acc.duplicate = Cardinality(UsableIn(rs, n) \ LatestIn(rs, n))
    BY DEF Parsed
  <2>2. /\ new.invalid = Cardinality((1..n + 1) \ UsableIn(rs, n + 1))
        /\ new.duplicate = Cardinality(UsableIn(rs, n + 1) \ LatestIn(rs, n + 1))
    BY <1>4, <1>12, <2>1
  <2>3. QED
    BY <1>4, <1>9, <1>10, <1>11, <1>13, <2>2 DEF Parsed, new

\* A usable row that corrects the one entry with its address.
LEMMA TakeAgain ==
    ASSUME NEW rs, NEW n \in Nat, NEW acc, Parsed(rs, n, acc),
           rs[n + 1] \in Answers, ~Unusable(rs[n + 1]),
           NEW q \in DOMAIN acc.entries, acc.entries[q].email = EntryOf(rs[n + 1]).email
    PROVE  Parsed(rs, n + 1, Take(acc, rs[n + 1]))
<1> DEFINE new == Take(acc, rs[n + 1])
           e == EntryOf(rs[n + 1])
           es == acc.entries
<1>1. /\ acc \in Result /\ acc.entries \in Seq(Entry)
      /\ acc.invalid \in Nat /\ acc.duplicate \in Nat /\ Len(acc.entries) \in Nat
      /\ n = acc.invalid + acc.duplicate + Len(acc.entries)
  BY Counts
<1>2. new = [acc EXCEPT !.entries = [@ EXCEPT ![q] = e], !.duplicate = @ + 1]
  <2> DEFINE same == {k \in DOMAIN es : es[k].email = e.email}
  <2>1. same = {q}
    BY DEF Parsed, Distinct
  <2>2. (CHOOSE k \in same : TRUE) = q
    BY <2>1
  <2>3. same # {}
    BY <2>1
  <2>4. new = [acc EXCEPT !.entries = Supersede(@, CHOOSE k \in same : TRUE, e),
                          !.duplicate = @ + 1]
    BY <2>3 DEF Take
  <2> HIDE DEF same, new, e
  <2>5. QED
    BY <2>2, <2>4 DEF Supersede
<1>3. e \in Entry /\ e.email = Lower(rs[n + 1].address) /\ e.email = es[q].email
  BY EntryType
<1>b. e = EntryOf(rs[n + 1])
  OBVIOUS
<1> HIDE DEF new, e
<1>4. /\ new \in Result
      /\ new.entries = [es EXCEPT ![q] = e] /\ new.duplicate = acc.duplicate + 1
      /\ new.invalid = acc.invalid
  <2>1. [es EXCEPT ![q] = e] \in Seq(Entry)
    BY <1>1, <1>3
  <2> DEFINE fs == [es EXCEPT ![q] = e]
  <2>2. new = [acc EXCEPT !.entries = fs, !.duplicate = @ + 1]
    BY <1>2
  <2> HIDE DEF fs
  <2>3. QED
    BY <1>1, <2>1, <2>2, Updates DEF fs
<1>5. /\ DOMAIN new.entries = DOMAIN es /\ Len(new.entries) = Len(es) /\ q \in DOMAIN es
      /\ new.entries[q] = e /\ \A k \in DOMAIN es : k # q => new.entries[k] = es[k]
      /\ \A k \in DOMAIN es : new.entries[k].email = es[k].email
  BY <1>1, <1>3, <1>4
<1>6. UsableIn(rs, n + 1) = UsableIn(rs, n) \cup {n + 1} /\ UsableIn(rs, n) \subseteq 1..n
  BY IndexSets
<1>7. PICK old \in LatestIn(rs, n) : es[q] = EntryOf(rs[old])
  BY DEF Parsed
<1>8. Lower(rs[old].address) = e.email
  BY <1>3, <1>7 DEF EntryOf
<1>9. \A i \in LatestIn(rs, n) : Lower(rs[i].address) = e.email => i = old
  BY <1>6, <1>7, <1>8 DEF LatestIn, SameAddress
<1>10. \A i \in UsableIn(rs, n + 1) : i # n + 1 => i \in UsableIn(rs, n) /\ n + 1 > i
  BY <1>6
<1>11. LatestIn(rs, n + 1) = (LatestIn(rs, n) \ {old}) \cup {n + 1}
  <2>1. \A i \in LatestIn(rs, n + 1) : i = n + 1 \/ i \in LatestIn(rs, n) \ {old}
    BY <1>3, <1>6, <1>7, <1>8, <1>10 DEF LatestIn, SameAddress
  <2>2. \A i \in LatestIn(rs, n) \ {old} : i \in LatestIn(rs, n + 1)
    BY <1>3, <1>6, <1>9, <1>10 DEF LatestIn, SameAddress
  <2>3. n + 1 \in LatestIn(rs, n + 1)
    BY <1>6, <1>10 DEF LatestIn
  <2>4. QED
    BY <2>1, <2>2, <2>3
<1>12. /\ old \in UsableIn(rs, n) /\ old \in LatestIn(rs, n) /\ n + 1 \notin UsableIn(rs, n)
       /\ LatestIn(rs, n) \subseteq UsableIn(rs, n)
  BY <1>6, <1>7 DEF LatestIn
<1>13. Distinct(new.entries)
  BY <1>5 DEF Distinct, Parsed
<1>14. \A k \in DOMAIN new.entries :
             \E i \in LatestIn(rs, n + 1) : new.entries[k] = EntryOf(rs[i])
  <2> SUFFICES ASSUME NEW k \in DOMAIN es
               PROVE  \E i \in LatestIn(rs, n + 1) : new.entries[k] = EntryOf(rs[i])
    BY <1>5
  <2>1. CASE k = q
    BY <1>5, <1>11, <1>b, <2>1
  <2>2. CASE k # q
    <3>1. PICK i \in LatestIn(rs, n) : es[k] = EntryOf(rs[i])
      BY DEF Parsed
    <3>2. es[k].email # e.email
      BY <1>3, <2>2 DEF Parsed, Distinct
    <3>3. i # old
      BY <1>3, <1>7, <3>1, <3>2
    <3>4. QED
      BY <1>5, <1>11, <2>2, <3>1, <3>3
  <2>3. QED
    BY <2>1, <2>2
<1>15. \A i \in LatestIn(rs, n + 1) :
             \E k \in DOMAIN new.entries : new.entries[k] = EntryOf(rs[i])
  <2> SUFFICES ASSUME NEW i \in LatestIn(rs, n + 1)
               PROVE  \E k \in DOMAIN es : new.entries[k] = EntryOf(rs[i])
    BY <1>5
  <2>1. CASE i = n + 1
    BY <1>5, <1>b, <2>1
  <2>2. CASE i \in LatestIn(rs, n) \ {old}
    <3>1. PICK k \in DOMAIN es : es[k] = EntryOf(rs[i])
      BY <2>2 DEF Parsed
    <3>2. es[k].email = Lower(rs[i].address)
      BY <3>1 DEF EntryOf
    <3>3. k # q
      BY <1>3, <1>9, <2>2, <3>2
    <3>4. QED
      BY <1>5, <3>1, <3>3
  <2>3. QED
    BY <1>11, <2>1, <2>2
<1>16. \A i \in UsableIn(rs, n + 1) :
             \E k \in DOMAIN new.entries : new.entries[k].email = Lower(rs[i].address)
  <2>1. \A i \in UsableIn(rs, n) :
             \E k \in DOMAIN es : es[k].email = Lower(rs[i].address)
    BY DEF Parsed
  <2>2. QED
    BY <1>3, <1>5, <1>6, <2>1
<1>17. new.invalid = Cardinality((1..n + 1) \ UsableIn(rs, n + 1))
  <2>1. (1..n + 1) \ UsableIn(rs, n + 1) = (1..n) \ UsableIn(rs, n)
    BY <1>6
  <2>2. QED
    BY <1>4, <2>1 DEF Parsed
<1>18. new.duplicate = Cardinality(UsableIn(rs, n + 1) \ LatestIn(rs, n + 1))
  <2> DEFINE twice == UsableIn(rs, n) \ LatestIn(rs, n)
  <2>1. UsableIn(rs, n + 1) \ LatestIn(rs, n + 1) = twice \cup {old} /\ old \notin twice
    BY <1>6, <1>11, <1>12
  <2>2. IsFiniteSet(twice) /\ acc.duplicate = Cardinality(twice)
    BY IndexSets DEF Parsed
  <2> HIDE DEF twice
  <2>3. QED
    BY <1>4, <2>1, <2>2, FS_AddElement
<1>19. n + 1 = new.invalid + new.duplicate + Len(new.entries)
  <2> DEFINE L == Len(es)
             d == acc.duplicate
             v == acc.invalid
  <2>1. /\ L \in Nat /\ d \in Nat /\ v \in Nat /\ n = v + d + L
        /\ Len(new.entries) = L /\ new.duplicate = d + 1 /\ new.invalid = v
    BY <1>1, <1>4, <1>5
  <2> HIDE DEF L, d, v
  <2>2. QED
    BY <2>1
<1>20. QED
  BY <1>4, <1>13, <1>14, <1>15, <1>16, <1>17, <1>18, <1>19 DEF Parsed, new

LEMMA ParseRowsResult ==
    ASSUME NEW rs \in Seq(Answers)
    PROVE  Parsed(rs, Len(rs), ParseRows(rs))
<1> DEFINE T == {n \in Nat : n <= Len(rs) => Parsed(rs, n, Loop(rs)[n])}
<1>1. Len(rs) \in Nat /\ \A i \in 1..Len(rs) : rs[i] \in Answers
  OBVIOUS
<1>2. 0 \in T
  BY <1>1, ParsedNone, LoopExists
<1>3. ASSUME NEW n \in T PROVE n + 1 \in T
  <2>1. n \in Nat
    OBVIOUS
  <2>2. SUFFICES ASSUME n + 1 <= Len(rs) PROVE Parsed(rs, n + 1, Loop(rs)[n + 1])
    BY <2>1
  <2>3. Parsed(rs, n, Loop(rs)[n])
    BY <1>1, <2>1, <2>2
  <2>4. rs[n + 1] \in Answers /\ Loop(rs)[n + 1] = Take(Loop(rs)[n], rs[n + 1])
    <3>1. n + 1 \in 1..Len(rs) /\ (n + 1) - 1 = n
      BY <1>1, <2>1, <2>2
    <3>2. QED
      BY <1>1, <3>1, LoopExists
  <2>5. QED
    BY <2>1, <2>3, <2>4, TakeUnusable, TakeFirst, TakeAgain
<1>4. T = Nat
  <2>1. T \subseteq Nat
    OBVIOUS
  <2> HIDE DEF T
  <2>2. QED
    BY <1>2, <1>3, <2>1, NatSet
<1>5. Parsed(rs, Len(rs), Loop(rs)[Len(rs)])
  BY <1>1, <1>4
<1>6. QED
  BY <1>1, <1>5, LoopExists

------------------------------------------------------------------------------
(* The sync.  What it is due to deal with are the last usable answers; what  *)
(* it has dealt with is no longer among its entries.                         *)

Due == {EntryOf(rows[i]) : i \in Latest}
Dealt == Due \ ToSet(entries)
Others == {e \in Dealt : ~OnLoginGroup(e)}
Bad == DOMAIN rows \ Usable
Again == Usable \ Latest

ReportType == [DOMAIN EmptyReport -> Nat]
SyncTypes ==
    /\ sheet \in Seq(Answers) /\ rows \in Seq(Answers)
    /\ \A a \in DOMAIN users : users[a] \in Names
    /\ phase \in {"down", "serving"} \cup Syncing
    /\ entries \in Seq(Entry) /\ report \in ReportType
    /\ settled \in BOOLEAN /\ repeat \in BOOLEAN
    /\ changes \in 0..MaxChanges /\ restarts \in 0..MaxRestarts

\* Between the list and the end of the sync.
Seeding ==
    /\ Distinct(entries) /\ ToSet(entries) \subseteq Due /\ IsFiniteSet(Due)
    /\ \A i \in Usable : \E e \in Due : e.email = Lower(rows[i].address)
    /\ \A e \in Dealt : OnLoginGroup(e) => e.email \in DOMAIN users
    /\ report.invalid = Cardinality(Bad) /\ report.duplicate = Cardinality(Again)
    /\ report.read = report.invalid + report.duplicate + Cardinality(Due)
    /\ report.notOnLoginGroup = Cardinality(Others)
    /\ Cardinality(Due) = Len(entries) + report.notOnLoginGroup
                             + report.seeded + report.skipped
SeedInv == phase = "seed" => Seeding
IdleInv == phase # "seed" => entries = <<>> /\ report = EmptyReport

\* Who has answered the sheet usably and is on the list has a row.
Covered == \A i \in DOMAIN sheet :
    ~Unusable(sheet[i]) /\ Lower(sheet[i].address) \in Listed
        => Lower(sheet[i].address) \in DOMAIN users
SettledInv == settled => Covered

\* A repeated sync reads the sheet and the list that the last one dealt with.
RepeatInv ==
    repeat => /\ settled /\ report.seeded = 0
              /\ phase \in Syncing
              /\ phase \in {"list", "seed"} => rows = sheet
              /\ phase = "seed" => members = Listed

SyncInv == SyncTypes /\ SeedInv /\ IdleInv /\ SettledInv /\ RepeatInv

LEMMA Fields ==
    DOMAIN EmptyReport = {"read", "invalid", "duplicate", "notOnLoginGroup", "seeded", "skipped"}
BY DEF EmptyReport

LEMMA NoReport == EmptyReport \in ReportType /\ EmptyReport.seeded = 0
BY DEF EmptyReport, ReportType

LEMMA ReportUpdates ==
    ASSUME NEW rep \in ReportType
    PROVE  /\ LET new == [rep EXCEPT !.notOnLoginGroup = @ + 1] IN
                 /\ new \in ReportType /\ new.notOnLoginGroup = rep.notOnLoginGroup + 1
                 /\ new.read = rep.read /\ new.invalid = rep.invalid
                 /\ new.duplicate = rep.duplicate /\ new.seeded = rep.seeded
                 /\ new.skipped = rep.skipped
           /\ LET new == [rep EXCEPT !.seeded = @ + 1] IN
                 /\ new \in ReportType /\ new.seeded = rep.seeded + 1
                 /\ new.read = rep.read /\ new.invalid = rep.invalid
                 /\ new.duplicate = rep.duplicate /\ new.skipped = rep.skipped
                 /\ new.notOnLoginGroup = rep.notOnLoginGroup
           /\ LET new == [rep EXCEPT !.skipped = @ + 1] IN
                 /\ new \in ReportType /\ new.skipped = rep.skipped + 1
                 /\ new.read = rep.read /\ new.invalid = rep.invalid
                 /\ new.duplicate = rep.duplicate /\ new.seeded = rep.seeded
                 /\ new.notOnLoginGroup = rep.notOnLoginGroup
BY Fields DEF ReportType

LEMMA IsReport ==
    ASSUME NEW new, new = [x \in DOMAIN EmptyReport |-> new[x]],
           new.read \in Nat, new.invalid \in Nat, new.duplicate \in Nat,
           new.notOnLoginGroup \in Nat, new.seeded \in Nat, new.skipped \in Nat
    PROVE  new \in ReportType
<1>1. \A x \in DOMAIN EmptyReport : new[x] \in Nat
  BY Fields
<1>2. QED
  BY <1>1 DEF ReportType

Opened(a, b, c) == [EmptyReport EXCEPT !.read = a, !.invalid = b, !.duplicate = c]

LEMMA ReportOpened ==
    ASSUME NEW a \in Nat, NEW b \in Nat, NEW c \in Nat, NEW new, new = Opened(a, b, c)
    PROVE  /\ new \in ReportType /\ new.read = a /\ new.invalid = b /\ new.duplicate = c
           /\ new.notOnLoginGroup = 0 /\ new.seeded = 0 /\ new.skipped = 0
<1>1. /\ DOMAIN new = DOMAIN EmptyReport
      /\ new = [x \in DOMAIN new |-> new[x]]
      /\ new.read = a /\ new.invalid = b /\ new.duplicate = c
      /\ new.notOnLoginGroup = 0 /\ new.seeded = 0 /\ new.skipped = 0
  BY DEF EmptyReport, Opened
<1>2. new = [x \in DOMAIN EmptyReport |-> new[x]]
  BY <1>1
<1>3. 0 \in Nat
  OBVIOUS
<1>4. new \in ReportType
  BY <1>1, <1>2, <1>3, IsReport, Zenon
<1>5. QED
  BY <1>1, <1>4

LEMMA CountTypes ==
    ASSUME NEW rep \in ReportType
    PROVE  /\ rep.read \in Nat /\ rep.invalid \in Nat /\ rep.duplicate \in Nat
           /\ rep.notOnLoginGroup \in Nat /\ rep.seeded \in Nat /\ rep.skipped \in Nat
BY Fields DEF ReportType

LEMMA TailParts ==
    ASSUME NEW es \in Seq(Entry), es # <<>>, Distinct(es)
    PROVE  /\ Tail(es) \in Seq(Entry) /\ Len(es) = Len(Tail(es)) + 1
           /\ Len(Tail(es)) \in Nat
           /\ Head(es) \in ToSet(es) /\ Head(es) \in Entry
           /\ ToSet(Tail(es)) = ToSet(es) \ {Head(es)} /\ Distinct(Tail(es))
<1>1. /\ Len(es) \in Nat /\ Len(es) > 0 /\ DOMAIN es = 1..Len(es)
      /\ Head(es) = es[1] /\ Tail(es) \in Seq(Entry) /\ Len(Tail(es)) = Len(es) - 1
      /\ DOMAIN Tail(es) = 1..(Len(es) - 1)
      /\ \A k \in 1..(Len(es) - 1) : Tail(es)[k] = es[k + 1]
  OBVIOUS
<1>2. Head(es) \in ToSet(es) /\ Head(es) \in Entry
  BY <1>1 DEF ToSet
<1>3. \A k \in 2..Len(es) : es[k] # es[1]
  BY <1>1 DEF Distinct
<1>4. ToSet(Tail(es)) = {es[k] : k \in 2..Len(es)}
  <2>1. ASSUME NEW k \in 2..Len(es) PROVE es[k] \in ToSet(Tail(es))
    <3>1. k - 1 \in 1..(Len(es) - 1) /\ Tail(es)[k - 1] = es[k]
      BY <1>1
    <3>2. QED
      BY <1>1, <3>1 DEF ToSet
  <2>2. ASSUME NEW x \in ToSet(Tail(es)) PROVE \E k \in 2..Len(es) : x = es[k]
    <3>1. PICK k \in 1..(Len(es) - 1) : x = Tail(es)[k]
      BY <1>1 DEF ToSet
    <3>2. k + 1 \in 2..Len(es) /\ x = es[k + 1]
      BY <1>1, <3>1
    <3>3. QED
      BY <3>2
  <2>3. QED
    BY <2>1, <2>2
<1>5. ToSet(es) = {es[k] : k \in 2..Len(es)} \cup {es[1]}
  <2>1. \A k \in 1..Len(es) : k = 1 \/ k \in 2..Len(es)
    BY <1>1
  <2>2. 2..Len(es) \subseteq 1..Len(es) /\ 1 \in 1..Len(es)
    BY <1>1
  <2>3. QED
    BY <1>1, <2>1, <2>2 DEF ToSet
<1>6. ToSet(Tail(es)) = ToSet(es) \ {Head(es)}
  BY <1>1, <1>3, <1>4, <1>5
<1>7. Distinct(Tail(es))
  <2> SUFFICES ASSUME NEW k \in 1..(Len(es) - 1), NEW m \in 1..(Len(es) - 1),
                      Tail(es)[k].email = Tail(es)[m].email
               PROVE  k = m
    BY <1>1 DEF Distinct
  <2>1. k + 1 \in DOMAIN es /\ m + 1 \in DOMAIN es /\ es[k + 1].email = es[m + 1].email
    BY <1>1
  <2>2. k + 1 = m + 1
    BY <2>1 DEF Distinct
  <2>3. QED
    BY <2>2
<1>8. QED
  BY <1>1, <1>2, <1>6, <1>7

\* Rows are never deleted, and carry names.
LEMMA RowsStay ==
    ASSUME DirectoryInv, SyncTypes, [Next]_vars
    PROVE  /\ DOMAIN users \subseteq DOMAIN users'
           /\ \A a \in DOMAIN users' : users'[a] \in Names
<1> DEFINE Goal == /\ DOMAIN users \subseteq DOMAIN users'
                   /\ \A a \in DOMAIN users' : users'[a] \in Names
<1>1. CASE users' = users
  BY <1>1 DEF SyncTypes
<1>2. ASSUME NEW a, NEW n \in Names, Insert(a, n) PROVE Goal
  BY <1>2 DEF Insert, SyncTypes
<1>3. ASSUME entries # <<>>, SeedProfile(Head(entries)) PROVE Goal
  <2>1. Head(entries).name \in Names
    <3>1. Head(entries) \in Entry
      BY <1>3 DEF SyncTypes
    <3>2. QED
      BY <3>1 DEF Entry
  <2>2. QED
    BY <1>1, <1>2, <1>3, <2>1 DEF SeedProfile
<1>4. CASE SyncStep
  <2>1. users' = users \/ (entries # <<>> /\ SeedProfile(Head(entries)))
    BY <1>4 DEF SyncStep, Start, ReadSheet, ListMembers, Pass, Seed, Finish, SyncFails
  <2>2. QED
    BY <1>1, <1>3, <2>1
<1>5. ASSUME NEW r \in Requests, Find(r) \/ Create(r) \/ SignInFails(r) PROVE Goal
  <2>1. users' = users \/ Insert(GoogleAddress(who[r]), GoogleName)
    BY <1>5 DEF Find, Create, SignInFails
  <2>2. QED
    BY <1>1, <1>2, <2>1, DirectoryAssumption
<1>6. ASSUME NEW p \in People, UpdateMe(p) PROVE Goal
  <2>1. PICK n \in Names : users' = [users EXCEPT ![session[p]] = n]
    BY <1>6 DEF UpdateMe
  <2>2. QED
    BY <2>1 DEF SyncTypes
<1>7. CASE UNCHANGED vars
  BY <1>1, <1>7 DEF vars
<1>8. QED
  <2>1. ASSUME NEW r \in Requests, NEW p \in People, PassGate(r, p) PROVE Goal
    BY <1>1, <2>1 DEF PassGate
  <2>2. ASSUME NEW p \in People, ChangeList(p) PROVE Goal
    BY <1>1, <2>2 DEF ChangeList
  <2>3. CASE Crash \/ Submit
    BY <1>1, <2>3 DEF Crash, Submit
  <2>4. QED
    BY <1>4, <1>5, <1>6, <1>7, <2>1, <2>2, <2>3 DEF Next

\* The sets the sync is judged by depend on what it has read, and no more.
LEMMA SetsStay ==
    ASSUME UNCHANGED <<rows, members>>
    PROVE  /\ Usable' = Usable /\ Latest' = Latest /\ Due' = Due
           /\ Bad' = Bad /\ Again' = Again
           /\ \A e : OnLoginGroup(e)' <=> OnLoginGroup(e)
<1>1. Usable' = Usable
  BY DEF Usable
<1>2. Latest' = Latest
  BY <1>1 DEF Latest
<1>3. QED
  BY <1>1, <1>2 DEF Due, Bad, Again, OnLoginGroup

LEMMA SeedingStays ==
    ASSUME Seeding, UNCHANGED <<rows, members, entries, report>>,
           DOMAIN users \subseteq DOMAIN users'
    PROVE  Seeding'
<1>1. Dealt' = Dealt
  BY SetsStay DEF Dealt
<1>2. Others' = Others
  BY <1>1, SetsStay DEF Others
<1>3. \A e \in Dealt : OnLoginGroup(e) => e.email \in DOMAIN users'
  BY DEF Seeding
<1>4. (\A e \in Dealt : OnLoginGroup(e) => e.email \in DOMAIN users)'
  BY <1>1, <1>3, SetsStay
<1>5. (\A i \in Usable : \E e \in Due : e.email = Lower(rows[i].address))'
  BY SetsStay DEF Seeding
<1>6. QED
  BY <1>1, <1>2, <1>4, <1>5, SetsStay DEF Seeding

LEMMA HeadDealt ==
    ASSUME SyncTypes, Seeding, entries # <<>>, entries' = Tail(entries),
           UNCHANGED <<rows, members>>
    PROVE  /\ Head(entries) \in Due /\ Head(entries) \notin Dealt
           /\ Dealt' = Dealt \cup {Head(entries)}
           /\ OnLoginGroup(Head(entries)) => Others' = Others
           /\ ~OnLoginGroup(Head(entries)) => Others' = Others \cup {Head(entries)}
           /\ IsFiniteSet(Others) /\ Head(entries) \notin Others
           /\ Distinct(entries') /\ ToSet(entries') \subseteq Due'
           /\ Len(entries') \in Nat /\ Len(entries) = Len(entries') + 1
<1> DEFINE h == Head(entries)
<1>1. /\ h \in ToSet(entries) /\ ToSet(Tail(entries)) = ToSet(entries) \ {h}
      /\ Distinct(Tail(entries)) /\ Len(Tail(entries)) \in Nat
      /\ Len(entries) = Len(Tail(entries)) + 1
  BY TailParts DEF SyncTypes, Seeding
<1> HIDE DEF h
<1>2. ToSet(entries) \subseteq Due /\ IsFiniteSet(Due)
  BY DEF Seeding
<1>3. h \in Due /\ h \notin Dealt
  BY <1>1, <1>2 DEF Dealt
<1>4. Dealt' = Dealt \cup {h}
  BY <1>1, <1>3, SetsStay DEF Dealt
<1>5. OnLoginGroup(h) => Others' = Others
  BY <1>4, SetsStay DEF Others
<1>6. ~OnLoginGroup(h) => Others' = Others \cup {h}
  BY <1>4, SetsStay DEF Others
<1>7. IsFiniteSet(Others) /\ h \notin Others
  <2>1. Others \in SUBSET Due
    BY DEF Others, Dealt
  <2>2. QED
    BY <1>2, <1>3, <2>1, FS_Subset DEF Others
<1>8. Distinct(entries') /\ ToSet(entries') \subseteq Due'
  BY <1>1, <1>2, SetsStay
<1>9. QED
  BY <1>1, <1>3, <1>4, <1>5, <1>6, <1>7, <1>8 DEF h

LEMMA PassSeeds ==
    ASSUME SyncTypes, Seeding, Pass
    PROVE  /\ Seeding' /\ entries' \in Seq(Entry) /\ report' \in ReportType
           /\ report'.seeded = report.seeded
<1>1. /\ entries # <<>> /\ entries' = Tail(entries) /\ UNCHANGED <<rows, members, users>>
      /\ ~OnLoginGroup(Head(entries))
      /\ report' = [report EXCEPT !.notOnLoginGroup = @ + 1]
  BY DEF Pass
<1>2. /\ Dealt' = Dealt \cup {Head(entries)} /\ Others' = Others \cup {Head(entries)}
      /\ IsFiniteSet(Others) /\ Head(entries) \notin Others
      /\ Distinct(entries') /\ ToSet(entries') \subseteq Due'
      /\ Len(entries') \in Nat /\ Len(entries) = Len(entries') + 1
  BY <1>1, HeadDealt
<1>3. entries' \in Seq(Entry)
  BY <1>1, TailParts DEF SyncTypes, Seeding
<1>4. /\ report' \in ReportType /\ report'.notOnLoginGroup = report.notOnLoginGroup + 1
      /\ report'.read = report.read /\ report'.invalid = report.invalid
      /\ report'.duplicate = report.duplicate /\ report'.seeded = report.seeded
      /\ report'.skipped = report.skipped
  BY <1>1, ReportUpdates DEF SyncTypes
<1>5. report'.notOnLoginGroup = Cardinality(Others')
  <2>1. report.notOnLoginGroup = Cardinality(Others)
    BY DEF Seeding
  <2>2. Cardinality(Others \cup {Head(entries)}) = Cardinality(Others) + 1
    BY <1>2, FS_AddElement
  <2>3. QED
    BY <1>2, <1>4, <2>1, <2>2
<1>6. (\A e \in Dealt : OnLoginGroup(e) => e.email \in DOMAIN users)'
  BY <1>1, <1>2, SetsStay DEF Seeding
<1>7. (\A i \in Usable : \E e \in Due : e.email = Lower(rows[i].address))'
  BY <1>1, SetsStay DEF Seeding
<1>8. Cardinality(Due') = Len(entries') + report'.notOnLoginGroup
                             + report'.seeded + report'.skipped
  <2>1. Cardinality(Due') = Len(entries) + report.notOnLoginGroup
                             + report.seeded + report.skipped
    BY <1>1, SetsStay DEF Seeding
  <2>2. /\ report.notOnLoginGroup \in Nat /\ report.seeded \in Nat /\ report.skipped \in Nat
    BY CountTypes DEF SyncTypes
  <2> DEFINE L == Len(entries')
             n == report.notOnLoginGroup
  <2>3. L \in Nat /\ n \in Nat /\ Cardinality(Due') = L + 1 + n + report.seeded + report.skipped
    BY <1>2, <2>1, <2>2
  <2> HIDE DEF L, n
  <2>4. Cardinality(Due') = L + report'.notOnLoginGroup + report'.seeded + report'.skipped
    BY <1>4, <2>2, <2>3 DEF n
  <2>5. QED
    BY <2>4 DEF L
<1>9. /\ report'.invalid = Cardinality(Bad') /\ report'.duplicate = Cardinality(Again')
      /\ report'.read = report'.invalid + report'.duplicate + Cardinality(Due')
      /\ IsFiniteSet(Due')
  BY <1>1, <1>4, SetsStay DEF Seeding
<1>10. Seeding'
  BY <1>2, <1>5, <1>6, <1>7, <1>8, <1>9 DEF Seeding
<1>11. QED
  BY <1>3, <1>4, <1>10

LEMMA SeedSeeds ==
    ASSUME SyncTypes, Seeding, Seed, DOMAIN users \subseteq DOMAIN users'
    PROVE  /\ Seeding' /\ entries' \in Seq(Entry) /\ report' \in ReportType
           /\ ~Seeded(Head(entries)) => report'.seeded = report.seeded
<1>1. /\ entries # <<>> /\ entries' = Tail(entries) /\ UNCHANGED <<rows, members>>
      /\ OnLoginGroup(Head(entries)) /\ SeedProfile(Head(entries))
      /\ report' = IF Seeded(Head(entries)) THEN [report EXCEPT !.seeded = @ + 1]
                   ELSE [report EXCEPT !.skipped = @ + 1]
  BY DEF Seed
<1>2. /\ Dealt' = Dealt \cup {Head(entries)} /\ Others' = Others
      /\ Distinct(entries') /\ ToSet(entries') \subseteq Due'
      /\ Len(entries') \in Nat /\ Len(entries) = Len(entries') + 1
  BY <1>1, HeadDealt
<1>3. entries' \in Seq(Entry)
  BY <1>1, TailParts DEF SyncTypes, Seeding
<1>4. /\ report' \in ReportType /\ report'.notOnLoginGroup = report.notOnLoginGroup
      /\ report'.read = report.read /\ report'.invalid = report.invalid
      /\ report'.duplicate = report.duplicate
      /\ \/ report'.seeded = report.seeded + 1 /\ report'.skipped = report.skipped
         \/ report'.seeded = report.seeded /\ report'.skipped = report.skipped + 1
      /\ ~Seeded(Head(entries)) => report'.seeded = report.seeded
  <2>1. CASE Seeded(Head(entries))
    BY <1>1, <2>1, ReportUpdates DEF SyncTypes
  <2>2. CASE ~Seeded(Head(entries))
    BY <1>1, <2>2, ReportUpdates DEF SyncTypes
  <2>3. QED
    BY <2>1, <2>2
<1>5. report'.notOnLoginGroup = Cardinality(Others')
  BY <1>2, <1>4 DEF Seeding
<1>6. (\A e \in Dealt : OnLoginGroup(e) => e.email \in DOMAIN users)'
  <2>1. Head(entries).email \in DOMAIN users'
    BY <1>1 DEF SeedProfile, Insert
  <2>2. \A e \in Dealt : OnLoginGroup(e) => e.email \in DOMAIN users'
    BY DEF Seeding
  <2>3. QED
    BY <1>1, <1>2, <2>1, <2>2, SetsStay
<1>7. (\A i \in Usable : \E e \in Due : e.email = Lower(rows[i].address))'
  BY <1>1, SetsStay DEF Seeding
<1>8. Cardinality(Due') = Len(entries') + report'.notOnLoginGroup
                             + report'.seeded + report'.skipped
  <2>1. Cardinality(Due') = Len(entries) + report.notOnLoginGroup
                             + report.seeded + report.skipped
    BY <1>1, SetsStay DEF Seeding
  <2>2. /\ report.notOnLoginGroup \in Nat /\ report.seeded \in Nat /\ report.skipped \in Nat
    BY CountTypes DEF SyncTypes
  <2> DEFINE L == Len(entries')
             n == report.notOnLoginGroup
  <2>3. L \in Nat /\ n \in Nat /\ Cardinality(Due') = L + 1 + n + report.seeded + report.skipped
    BY <1>2, <2>1, <2>2
  <2> HIDE DEF L, n
  <2>4. Cardinality(Due') = L + report'.notOnLoginGroup + report'.seeded + report'.skipped
    BY <1>4, <2>2, <2>3 DEF n
  <2>5. QED
    BY <2>4 DEF L
<1>9. /\ report'.invalid = Cardinality(Bad') /\ report'.duplicate = Cardinality(Again')
      /\ report'.read = report'.invalid + report'.duplicate + Cardinality(Due')
      /\ IsFiniteSet(Due')
  BY <1>1, <1>4, SetsStay DEF Seeding
<1>10. Seeding'
  BY <1>2, <1>5, <1>6, <1>7, <1>8, <1>9 DEF Seeding
<1>11. QED
  BY <1>3, <1>4, <1>10

\* The rows that are read, as parseRows sees them.
LEMMA RowSets ==
    ASSUME rows \in Seq(Answers)
    PROVE  /\ DOMAIN rows = 1..Len(rows) /\ Len(rows) \in Nat
           /\ Usable = UsableIn(rows, Len(rows)) /\ Latest = LatestIn(rows, Len(rows))
<1>1. DOMAIN rows = 1..Len(rows) /\ Len(rows) \in Nat
  OBVIOUS
<1>2. Usable = UsableIn(rows, Len(rows))
  BY <1>1 DEF Usable, UsableIn
<1>3. QED
  BY <1>1, <1>2 DEF Latest, LatestIn

LEMMA SeedingBegins ==
    ASSUME SyncTypes, ListMembers
    PROVE  /\ Seeding' /\ entries' \in Seq(Entry) /\ report' \in ReportType
           /\ report'.seeded = 0
<1> DEFINE acc == ParseRows(rows)
           es == acc.entries
<1>1. /\ rows' = rows /\ entries' = es
      /\ report' = [EmptyReport EXCEPT !.read = Len(rows), !.invalid = acc.invalid,
                                       !.duplicate = acc.duplicate]
  BY DEF ListMembers
<1>2. rows \in Seq(Answers) /\ Len(rows) \in Nat
  BY DEF SyncTypes
<1>3. Parsed(rows, Len(rows), acc)
  BY <1>2, ParseRowsResult
<1> HIDE DEF acc
<1>4. /\ acc \in Result /\ es \in Seq(Entry)
      /\ acc.invalid \in Nat /\ acc.duplicate \in Nat /\ Len(es) \in Nat
      /\ Len(rows) = acc.invalid + acc.duplicate + Len(es)
  BY <1>2, <1>3, Counts
<1>5. /\ report' \in ReportType /\ report'.read = Len(rows) /\ report'.invalid = acc.invalid
      /\ report'.duplicate = acc.duplicate /\ report'.notOnLoginGroup = 0
      /\ report'.seeded = 0 /\ report'.skipped = 0
  <2> DEFINE a == Len(rows)
             b == acc.invalid
             c == acc.duplicate
  <2>1. a \in Nat /\ b \in Nat /\ c \in Nat
    BY <1>2, <1>4
  <2>2. report' = Opened(a, b, c)
    BY <1>1 DEF Opened
  <2> HIDE DEF a, b, c
  <2>3. /\ report' \in ReportType /\ report'.read = a /\ report'.invalid = b
        /\ report'.duplicate = c /\ report'.notOnLoginGroup = 0
        /\ report'.seeded = 0 /\ report'.skipped = 0
    BY <2>1, <2>2, ReportOpened
  <2>4. QED
    BY <2>3 DEF a, b, c
<1>6. /\ Usable' = UsableIn(rows, Len(rows)) /\ Latest' = LatestIn(rows, Len(rows))
      /\ Due' = {EntryOf(rows[i]) : i \in Latest'} /\ DOMAIN rows = 1..Len(rows)
  <2>1. Usable' = Usable /\ Latest' = Latest
    BY <1>1 DEF Usable, Latest
  <2>2. QED
    BY <1>1, <1>2, <2>1, RowSets DEF Due
<1>7. Distinct(es) /\ DOMAIN es = 1..Len(es)
  BY <1>3, <1>4 DEF Parsed
<1>8. Due' = {es[k] : k \in DOMAIN es}
  <2>1. /\ \A k \in DOMAIN es : \E i \in Latest' : es[k] = EntryOf(rows[i])
        /\ \A i \in Latest' : \E k \in DOMAIN es : es[k] = EntryOf(rows[i])
    BY <1>3, <1>6, Zenon DEF Parsed
  <2> HIDE DEF es
  <2>2. QED
    BY <1>6, <2>1
<1>9. IsFiniteSet(Due') /\ Cardinality(Due') = Len(es)
  <2>1. IsFiniteSet(DOMAIN es) /\ Cardinality(DOMAIN es) = Len(es)
    <3> DEFINE L == Len(es)
    <3>1. L \in Nat /\ DOMAIN es = 1..L
      BY <1>4, <1>7
    <3> HIDE DEF L
    <3>2. IsFiniteSet(1..L) /\ Cardinality(1..L) = L
      BY <3>1, FS_Interval
    <3>3. QED
      BY <3>1, <3>2 DEF L
  <2> HIDE DEF es
  <2>2. es = [k \in DOMAIN es |-> es[k]]
    BY <1>4
  <2>4. \A k, m \in DOMAIN es : es[k] = es[m] => k = m
    BY <1>7 DEF Distinct
  <2>3. QED
    BY <1>8, <2>1, <2>2, <2>4, CountImage
<1>10. ToSet(es) = Due'
  BY <1>8 DEF ToSet
<1>11. Dealt' = {} /\ Others' = {}
  BY <1>1, <1>10 DEF Dealt, Others
<1>12. \A i \in Usable' : \E e \in Due' : e.email = Lower(rows[i].address)
  BY <1>3, <1>6, <1>8 DEF Parsed
<1>13. report'.invalid = Cardinality(Bad') /\ report'.duplicate = Cardinality(Again')
  BY <1>1, <1>3, <1>5, <1>6 DEF Parsed, Bad, Again
<1>14. /\ report'.read = report'.invalid + report'.duplicate + Cardinality(Due')
       /\ report'.notOnLoginGroup = Cardinality(Others')
       /\ Cardinality(Due') = Len(entries') + report'.notOnLoginGroup
                              + report'.seeded + report'.skipped
  <2>1. Cardinality({}) = 0
    BY FS_EmptySet
  <2> DEFINE L == Len(es)
  <2>2. L \in Nat /\ Len(rows) = acc.invalid + acc.duplicate + L /\ Cardinality(Due') = L
        /\ Len(entries') = L
    BY <1>1, <1>4, <1>9
  <2> HIDE DEF L, es
  <2>3. QED
    BY <1>5, <1>11, <2>1, <2>2
<1>15. Seeding'
  BY <1>1, <1>7, <1>9, <1>10, <1>11, <1>12, <1>13, <1>14 DEF Seeding
<1>16. QED
  BY <1>1, <1>4, <1>5, <1>15

\* What the sync's end says of the rows it read.
LEMMA AllDealt ==
    ASSUME Seeding, entries = <<>>
    PROVE  \A i \in Usable : Lower(rows[i].address) \in members
                                => Lower(rows[i].address) \in DOMAIN users
<1>1. ToSet(entries) = {}
  BY DEF ToSet
<1>2. Dealt = Due
  BY <1>1 DEF Dealt
<1>3. QED
  BY <1>2 DEF Seeding, OnLoginGroup

LEMMA CoveredStays ==
    ASSUME Covered, UNCHANGED <<sheet, list>>, DOMAIN users \subseteq DOMAIN users'
    PROVE  Covered'
BY DEF Covered, Listed

LEMMA RepeatSeedsNone ==
    ASSUME SyncInv, phase = "seed", repeat, entries # <<>>, OnLoginGroup(Head(entries))
    PROVE  ~Seeded(Head(entries))
<1>1. Seeding /\ Covered /\ rows = sheet /\ members = Listed /\ entries \in Seq(Entry)
  BY DEF SyncInv, SeedInv, RepeatInv, SettledInv, SyncTypes
<1>2. Head(entries) \in Due
  BY <1>1, TailParts DEF Seeding
<1>3. PICK i \in Usable : Head(entries).email = Lower(rows[i].address)
  <2>1. PICK i \in Latest : Head(entries) = EntryOf(rows[i])
    BY <1>2 DEF Due
  <2>2. i \in Usable /\ EntryOf(rows[i]).email = Lower(rows[i].address)
    BY DEF Latest, EntryOf
  <2>3. QED
    BY <2>1, <2>2
<1>4. QED
  BY <1>1, <1>3 DEF Covered, Usable, OnLoginGroup, Seeded

LEMMA SyncInit == Init => SyncInv
<1> SUFFICES ASSUME Init PROVE SyncInv
  OBVIOUS
<1>1. SyncTypes
  <2>1. 0 \in 0..MaxChanges /\ 0 \in 0..MaxRestarts
    BY DirectoryAssumption
  <2>2. \A a \in DOMAIN users : users[a] \in Names
    BY DEF Init
  <2>3. settled \in BOOLEAN /\ repeat \in BOOLEAN
    BY DEF Init
  <2>4. <<>> \in Seq(Answers) /\ <<>> \in Seq(Entry)
    OBVIOUS
  <2>5. QED
    BY <2>1, <2>2, <2>3, <2>4, NoReport DEF Init, SyncTypes
<1>2. SeedInv /\ IdleInv /\ SettledInv /\ RepeatInv
  BY DEF Init, SeedInv, IdleInv, SettledInv, RepeatInv
<1>3. QED
  BY <1>1, <1>2 DEF SyncInv

\* Requests and Google leave what the sync holds alone; a new answer or another
\* list makes the next sync a new one.
LEMMA ElsewhereStep ==
    ASSUME SyncInv, UNCHANGED <<phase, locals, restarts>>,
           DOMAIN users \subseteq DOMAIN users', \A a \in DOMAIN users' : users'[a] \in Names,
           sheet' \in Seq(Answers), changes' \in 0..MaxChanges,
           \/ UNCHANGED <<sheet, list, settled, repeat>>
           \/ settled' = FALSE /\ repeat' = FALSE
    PROVE  SyncInv'
<1>1. SyncTypes'
  <2>1. settled' \in BOOLEAN /\ repeat' \in BOOLEAN
    BY DEF SyncInv, SyncTypes
  <2>2. QED
    BY <2>1 DEF SyncInv, SyncTypes
<1>2. SeedInv'
  <2>1. SUFFICES ASSUME phase' = "seed" PROVE Seeding'
    BY DEF SeedInv
  <2>2. Seeding
    BY <2>1 DEF SyncInv, SeedInv
  <2>3. QED
    BY <2>2, SeedingStays
<1>3. IdleInv'
  BY DEF SyncInv, IdleInv
<1>4. SettledInv'
  <2>1. SUFFICES ASSUME settled' PROVE Covered'
    BY DEF SettledInv
  <2>2. UNCHANGED <<sheet, list>> /\ Covered
    BY <2>1 DEF SyncInv, SettledInv
  <2>3. QED
    BY <2>2, CoveredStays
<1>5. RepeatInv'
  <2>1. SUFFICES ASSUME repeat' PROVE RepeatInv'
    BY DEF RepeatInv
  <2>2. UNCHANGED <<sheet, list, settled, repeat>>
    BY <2>1
  <2>3. QED
    BY <2>2 DEF SyncInv, RepeatInv, Listed
<1>6. QED
  BY <1>1, <1>2, <1>3, <1>4, <1>5 DEF SyncInv

\* The sync, or its process, ends: it holds nothing, and the next is no repeat
\* until it starts.
LEMMA EndStep ==
    ASSUME SyncInv, UNCHANGED <<google>>, Forget, phase' \in {"down", "serving"}, ~repeat',
           DOMAIN users \subseteq DOMAIN users', \A a \in DOMAIN users' : users'[a] \in Names,
           settled' \in BOOLEAN, repeat' \in BOOLEAN, restarts' \in 0..MaxRestarts,
           settled' => Covered
    PROVE  SyncInv'
<1>1. SyncTypes'
  BY NoReport DEF SyncInv, SyncTypes, Forget
<1>2. SeedInv' /\ IdleInv' /\ RepeatInv'
  BY DEF SeedInv, IdleInv, RepeatInv, Forget
<1>3. SettledInv'
  BY CoveredStays DEF SettledInv
<1>4. QED
  BY <1>1, <1>2, <1>3 DEF SyncInv

LEMMA StartStep == ASSUME SyncInv, Start PROVE SyncInv'
<1>1. phase = "down" /\ phase' = "read" /\ repeat' = settled /\ users' = users
  BY DEF Start
<1>2. SyncTypes'
  BY DEF Start, SyncInv, SyncTypes, Syncing
<1>3. SeedInv' /\ IdleInv'
  BY <1>1 DEF Start, SyncInv, SeedInv, IdleInv
<1>4. SettledInv'
  BY CoveredStays DEF Start, SyncInv, SettledInv
<1>5. RepeatInv'
  <2>1. report' = report /\ report = EmptyReport /\ settled' = settled
    BY <1>1 DEF Start, SyncInv, IdleInv
  <2>2. QED
    BY <1>1, <2>1, NoReport DEF RepeatInv, Syncing
<1>6. QED
  BY <1>2, <1>3, <1>4, <1>5 DEF SyncInv

LEMMA ReadSheetStep == ASSUME SyncInv, ReadSheet PROVE SyncInv'
<1>1. phase = "read" /\ phase' = "list" /\ rows' = sheet /\ users' = users
  BY DEF ReadSheet
<1>2. SyncTypes'
  BY DEF ReadSheet, SyncInv, SyncTypes, Syncing
<1>3. SeedInv' /\ IdleInv'
  BY <1>1 DEF ReadSheet, SyncInv, SeedInv, IdleInv
<1>4. SettledInv'
  BY CoveredStays DEF ReadSheet, SyncInv, SettledInv
<1>5. RepeatInv'
  BY <1>1 DEF ReadSheet, SyncInv, RepeatInv, Syncing
<1>6. QED
  BY <1>2, <1>3, <1>4, <1>5 DEF SyncInv

LEMMA ListMembersStep == ASSUME SyncInv, ListMembers PROVE SyncInv'
<1>1. /\ phase = "list" /\ phase' = "seed" /\ members' = Listed /\ rows' = rows
      /\ UNCHANGED <<users, sheet, list, settled, repeat>>
  BY DEF ListMembers
<1>2. /\ Seeding' /\ entries' \in Seq(Entry) /\ report' \in ReportType
      /\ report'.seeded = 0
  BY SeedingBegins DEF SyncInv
<1>3. SyncTypes'
  BY <1>2 DEF ListMembers, SyncInv, SyncTypes, Syncing
<1>4. SeedInv' /\ IdleInv'
  BY <1>1, <1>2 DEF SeedInv, IdleInv
<1>5. SettledInv'
  BY <1>1, CoveredStays DEF SyncInv, SettledInv
<1>6. RepeatInv'
  BY <1>1, <1>2 DEF SyncInv, RepeatInv, Syncing, Listed
<1>7. QED
  BY <1>3, <1>4, <1>5, <1>6 DEF SyncInv

\* One entry is dealt with.
LEMMA EntryStep ==
    ASSUME SyncInv, DOMAIN users \subseteq DOMAIN users',
           \A a \in DOMAIN users' : users'[a] \in Names, Pass \/ Seed
    PROVE  SyncInv'
<1>1. /\ phase = "seed" /\ UNCHANGED <<google, phase, rows, members, settled, repeat, restarts>>
      /\ entries # <<>>
  BY DEF Pass, Seed
<1>2. SyncTypes /\ Seeding
  BY <1>1 DEF SyncInv, SeedInv
<1>3. Seeding' /\ entries' \in Seq(Entry) /\ report' \in ReportType
  BY <1>2, PassSeeds, SeedSeeds
<1>4. SyncTypes'
  BY <1>1, <1>2, <1>3 DEF SyncTypes
<1>5. SeedInv' /\ IdleInv'
  BY <1>1, <1>3 DEF SeedInv, IdleInv
<1>6. SettledInv'
  BY <1>1, CoveredStays DEF SyncInv, SettledInv
<1>7. RepeatInv'
  <2>1. SUFFICES ASSUME repeat' PROVE RepeatInv'
    BY DEF RepeatInv
  <2>2. /\ repeat /\ settled /\ report.seeded = 0 /\ phase \in Syncing
        /\ rows = sheet /\ members = Listed
    BY <1>1, <2>1 DEF SyncInv, RepeatInv
  <2>3. report'.seeded = 0
    <3>1. CASE Pass
      BY <1>2, <2>2, <3>1, PassSeeds
    <3>2. CASE Seed
      <4>1. ~Seeded(Head(entries))
        BY <1>1, <2>2, <3>2, RepeatSeedsNone DEF Seed
      <4>2. QED
        BY <1>2, <2>2, <3>2, <4>1, SeedSeeds
    <3>3. QED
      BY <3>1, <3>2
  <2>4. QED
    BY <1>1, <2>2, <2>3 DEF RepeatInv, Listed
<1>8. QED
  BY <1>4, <1>5, <1>6, <1>7 DEF SyncInv

LEMMA FinishStep == ASSUME SyncInv, Finish PROVE SyncInv'
<1>1. /\ phase = "seed" /\ entries = <<>> /\ phase' = "serving" /\ Forget /\ repeat' = FALSE
      /\ settled' = (rows = sheet /\ members = Listed)
      /\ UNCHANGED <<google, users, restarts>>
  BY DEF Finish
<1>2. Seeding
  BY <1>1 DEF SyncInv, SeedInv
<1>3. settled' => Covered
  <2>1. ASSUME rows = sheet, members = Listed PROVE Covered
    BY <1>1, <1>2, <2>1, AllDealt DEF Covered, Usable
  <2>2. QED
    BY <1>1, <2>1
<1>4. settled' \in BOOLEAN
  BY <1>1
<1>5. /\ \A a \in DOMAIN users' : users'[a] \in Names
      /\ restarts' \in 0..MaxRestarts
  BY <1>1 DEF SyncInv, SyncTypes
<1>6. QED
  BY <1>1, <1>3, <1>4, <1>5, EndStep

LEMMA SyncInvStep == DirectoryInv /\ SyncInv /\ [Next]_vars => SyncInv'
<1> SUFFICES ASSUME DirectoryInv, SyncInv, [Next]_vars PROVE SyncInv'
  OBVIOUS
<1>1. /\ DOMAIN users \subseteq DOMAIN users'
      /\ \A a \in DOMAIN users' : users'[a] \in Names
  BY RowsStay DEF SyncInv
<1>2. /\ sheet \in Seq(Answers) /\ changes \in 0..MaxChanges /\ restarts \in 0..MaxRestarts
      /\ settled \in BOOLEAN /\ repeat \in BOOLEAN
  BY DEF SyncInv, SyncTypes
<1>3. CASE SyncFails
  <2>1. /\ UNCHANGED <<google, settled, restarts>> /\ Forget /\ phase' = "serving"
        /\ repeat' = FALSE
    BY <1>3 DEF SyncFails
  <2>2. settled' => Covered
    BY <2>1 DEF SyncInv, SettledInv
  <2>3. QED
    BY <1>1, <1>2, <2>1, <2>2, EndStep
<1>4. CASE Crash
  <2>1. /\ UNCHANGED <<google, settled>> /\ Forget /\ phase' = "down" /\ repeat' = FALSE
        /\ restarts' = restarts + 1 /\ restarts < MaxRestarts
    BY <1>4 DEF Crash
  <2>2. settled' => Covered
    BY <2>1 DEF SyncInv, SettledInv
  <2>3. restarts' \in 0..MaxRestarts
    BY <1>2, <2>1, DirectoryAssumption
  <2>4. QED
    BY <1>1, <1>2, <2>1, <2>2, <2>3, EndStep
<1>5. ASSUME NEW r \in Requests, Find(r) \/ Create(r) \/ SignInFails(r) PROVE SyncInv'
  BY <1>1, <1>2, <1>5, ElsewhereStep DEF Find, Create, SignInFails
<1>6. ASSUME NEW r \in Requests, NEW p \in People, PassGate(r, p) PROVE SyncInv'
  BY <1>1, <1>2, <1>6, ElsewhereStep DEF PassGate
<1>7. ASSUME NEW p \in People, UpdateMe(p) PROVE SyncInv'
  BY <1>1, <1>2, <1>7, ElsewhereStep DEF UpdateMe
<1>8. ASSUME NEW p \in People, ChangeList(p) PROVE SyncInv'
  <2>1. changes' \in 0..MaxChanges
    BY <1>2, <1>8, DirectoryAssumption DEF ChangeList
  <2>2. QED
    BY <1>1, <1>2, <1>8, <2>1, ElsewhereStep DEF ChangeList
<1>9. CASE Submit
  <2>1. sheet' \in Seq(Answers)
    BY <1>2, <1>9 DEF Submit
  <2>2. QED
    BY <1>1, <1>2, <1>9, <2>1, ElsewhereStep DEF Submit
<1>10. CASE UNCHANGED vars
  BY <1>1, <1>2, <1>10, ElsewhereStep DEF vars
<1>11. CASE SyncStep
  BY <1>1, <1>3, <1>11, StartStep, ReadSheetStep, ListMembersStep, EntryStep, FinishStep
     DEF SyncStep
<1>12. QED
  BY <1>4, <1>5, <1>6, <1>7, <1>8, <1>9, <1>10, <1>11 DEF Next

LEMMA SyncInvariant == Spec => [](DirectoryInv /\ SyncInv)
<1>1. Init => DirectoryInv /\ SyncInv
  BY DirectoryInit, SyncInit
<1>2. DirectoryInv /\ SyncInv /\ [Next]_vars => (DirectoryInv /\ SyncInv)'
  BY DirectoryStep, SyncInvStep
<1>3. QED
  BY <1>1, <1>2, PTL DEF Spec

\* Every variable keeps its type, whatever people answer.
THEOREM DirectoryTypesCorrect == Spec => []TypeOK
<1>1. ASSUME DirectoryInv, SyncInv PROVE TypeOK
  <2>1. list \subseteq People /\ everListed \subseteq People /\ members \subseteq Address
    <3>1. \A p \in People : [who |-> p, lower |-> TRUE] \in Address
      BY DEF Address
    <3>2. QED
      BY <1>1, <3>1 DEF DirectoryInv, ListInv
  <2>2. session \in [People -> DOMAIN users \cup {None}]
    BY <1>1 DEF DirectoryInv, SessionInv
  <2>3. /\ DOMAIN users \subseteq Address /\ pc \in [Requests -> {"idle", "find", "create"}]
        /\ who \in [Requests -> People \cup {None}] /\ chosen \in [People -> Names \cup {None}]
    BY <1>1 DEF DirectoryInv, UsersInv, RequestInv, ChosenInv
  <2>4. SyncTypes
    BY <1>1 DEF SyncInv
  <2>5. QED
    BY <2>1, <2>2, <2>3, <2>4 DEF TypeOK, SyncTypes, Entry, ReportType
<1>2. QED
  BY <1>1, SyncInvariant, PTL

\* What is left to seed are the last usable answers, each address once, of
\* whatever rows the sheet has: a correction replaces, and keeps, the place of
\* the answer it corrects (directory.go, parseRows).
THEOREM LastAnswerWinsHolds == Spec => []LastAnswerWins
<1>1. ASSUME SyncInv PROVE LastAnswerWins
  <2>1. SUFFICES ASSUME phase = "seed"
                 PROVE  /\ ToSet(entries) \subseteq Due
                        /\ Cardinality(ToSet(entries)) = Len(entries)
                        /\ Cardinality(Due) = Len(entries) + report.notOnLoginGroup
                                              + report.seeded + report.skipped
    BY DEF LastAnswerWins, Due
  <2>2. Seeding /\ entries \in Seq(Entry)
    BY <1>1, <2>1 DEF SyncInv, SeedInv, SyncTypes
  <2>3. Cardinality(ToSet(entries)) = Len(entries)
    <3>1. Len(entries) \in Nat /\ DOMAIN entries = 1..Len(entries)
      BY <2>2
    <3>2. IsFiniteSet(1..Len(entries)) /\ Cardinality(1..Len(entries)) = Len(entries)
      <4> DEFINE L == Len(entries)
      <4> HIDE DEF L
      <4>1. L \in Nat
        BY <3>1 DEF L
      <4>2. IsFiniteSet(1..L) /\ Cardinality(1..L) = L
        BY <4>1, FS_Interval
      <4>3. QED
        BY <4>2 DEF L
    <3>3. entries = [k \in DOMAIN entries |-> entries[k]]
      BY <2>2
    <3>4. \A k, m \in DOMAIN entries : entries[k] = entries[m] => k = m
      BY <2>2 DEF Seeding, Distinct
    <3>5. Cardinality({entries[k] : k \in DOMAIN entries}) = Cardinality(DOMAIN entries)
      BY <3>1, <3>2, <3>3, <3>4, CountImage
    <3>6. QED
      BY <3>1, <3>2, <3>5 DEF ToSet
  <2>4. QED
    BY <2>2, <2>3 DEF Seeding
<1>2. QED
  BY <1>1, SyncInvariant, PTL

\* A sync that ends has accounted for every row (directory.go, Report).
THEOREM ReportAccountsForRowsHolds == Spec => []ReportAccountsForRows
<1>1. ASSUME SyncInv PROVE ReportAccountsForRows
  <2> DEFINE S == {i \in Latest : Lower(rows[i].address) \notin members}
  <2>1. SUFFICES ASSUME phase = "seed", entries = <<>>
                 PROVE  /\ report.read = report.invalid + report.duplicate
                                         + report.notOnLoginGroup
                                         + report.seeded + report.skipped
                        /\ report.invalid = Cardinality(Bad)
                        /\ report.duplicate = Cardinality(Again)
                        /\ report.notOnLoginGroup = Cardinality(S)
    BY DEF ReportAccountsForRows, Bad, Again
  <2>2. Seeding /\ rows \in Seq(Answers) /\ report \in ReportType
    BY <1>1, <2>1 DEF SyncInv, SeedInv, SyncTypes
  <2>3. report.read = report.invalid + report.duplicate + report.notOnLoginGroup
                      + report.seeded + report.skipped
    <3>1. /\ report.read = report.invalid + report.duplicate + Cardinality(Due)
          /\ Cardinality(Due) = 0 + report.notOnLoginGroup + report.seeded + report.skipped
      BY <2>1, <2>2 DEF Seeding
    <3>2. QED
      BY <2>2, <3>1, CountTypes
  <2>4. Cardinality(Others) = Cardinality(S)
    <3> DEFINE f == [i \in S |-> EntryOf(rows[i])]
    <3>1. Others = {f[i] : i \in S}
      <4>1. ToSet(entries) = {}
        BY <2>1 DEF ToSet
      <4>2. \A i \in Latest : EntryOf(rows[i]).email = Lower(rows[i].address)
        BY DEF EntryOf
      <4>3. QED
        BY <4>1, <4>2 DEF Others, Dealt, Due, OnLoginGroup
    <3>2. IsFiniteSet(S)
      <4>1. IsFiniteSet(Latest)
        <5>1. Len(rows) \in Nat /\ Latest = LatestIn(rows, Len(rows))
          BY <2>2, RowSets
        <5>2. QED
          BY <5>1, IndexSets
      <4>2. S \in SUBSET Latest
        OBVIOUS
      <4> HIDE DEF S
      <4>3. QED
        BY <4>1, <4>2, FS_Subset
    <3>3. \A i, j \in S : f[i] = f[j] => i = j
      <4> SUFFICES ASSUME NEW i \in S, NEW j \in S, EntryOf(rows[i]) = EntryOf(rows[j])
                   PROVE  i = j
        OBVIOUS
      <4>1. SameAddress(rows[i].address, rows[j].address)
            /\ SameAddress(rows[j].address, rows[i].address)
        BY DEF EntryOf, SameAddress
      <4>2. i \in Nat /\ j \in Nat
        <5>1. DOMAIN rows = 1..Len(rows) /\ Len(rows) \in Nat
          BY <2>2, RowSets
        <5>2. Latest \subseteq DOMAIN rows
          BY DEF Latest, Usable
        <5>3. QED
          BY <5>1, <5>2
      <4>3. ~(i < j) /\ ~(j < i)
        BY <4>1, <4>2 DEF Latest
      <4>4. QED
        BY <4>2, <4>3
    <3>4. DOMAIN f = S /\ f = [i \in S |-> f[i]]
      OBVIOUS
    <3> HIDE DEF S, f
    <3>5. QED
      BY <3>1, <3>2, <3>3, <3>4, CountImage
  <2>5. QED
    BY <2>2, <2>3, <2>4 DEF Seeding
<1>2. QED
  BY <1>1, SyncInvariant, PTL

\* When a sync comes to its end, everybody it found on the list who had answered
\* usably has a row, however sign-ins interleaved (directory.go, SyncOnce).
THEOREM SyncCoversMembersHolds == Spec => []SyncCoversMembers
<1>1. ASSUME DirectoryInv, SyncInv PROVE SyncCoversMembers
  <2>1. SUFFICES ASSUME phase = "seed", entries = <<>>, NEW i \in Usable,
                        Lower(rows[i].address) \in members
                 PROVE  Lower(rows[i].address) \in Matching(rows[i].address)
    BY DEF SyncCoversMembers
  <2>2. Lower(rows[i].address) \in DOMAIN users
    BY <1>1, <2>1, AllDealt DEF SyncInv, SeedInv
  <2>3. Lower(Lower(rows[i].address)) = Lower(rows[i].address)
    BY DEF Lower
  <2>4. QED
    BY <2>2, <2>3 DEF Matching, SameAddress
<1>2. QED
  BY <1>1, SyncInvariant, PTL

\* A restart with the same sheet and the same list creates no row, whatever
\* requests and crashes came in between (directory.go, SyncOnce).
THEOREM RestartSeedsNothingHolds == Spec => []RestartSeedsNothing
<1>1. SyncInv => RestartSeedsNothing
  BY DEF SyncInv, RepeatInv, RestartSeedsNothing
<1>2. QED
  BY <1>1, SyncInvariant, PTL
==============================================================================

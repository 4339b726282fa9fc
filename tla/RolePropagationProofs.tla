------------------------ MODULE RolePropagationProofs ------------------------
(***************************************************************************)
(* Theorems about RolePropagation, for any memberships, delays, lifetimes  *)
(* and number of requests.                                                 *)
(***************************************************************************)
EXTENDS RolePropagation, SequenceTheorems, TLAPS

USE DEF history, Job, Claim, LocalRole

Version == [says: Memberships, from: Nat]

\* Beyond the types: who profile reads and refreshes are for has a row.
TypeInv ==
    /\ TypeOK
    /\ \A r \in Requests : pc[r] \in {"load", "getUser"} => stored # NoRow

\* When things happened.
TimeInv ==
    /\ \A i, j \in 1..Len(list) : i <= j => list[i].from <= list[j].from
    /\ Current.from <= now
    /\ synced <= settled /\ settled <= now
    /\ \A r \in Requests : job[r].started <= now
    /\ \A r \in Requests : pc[r] # "idle" => now <= job[r].started + MaxRequest
    /\ \A c \in claims : now <= c.expires /\ c.expires <= now + AccessLifetime

------------------------------------------------------------------------------
(* What the list may be read to say. *)

LEMMA RoleGrantedType == \A m, row : RoleGranted(m, row) \in LocalRole
BY DEF RoleGranted, LocalRoleFor

\* What is made of a reading does not depend on the row it is compared with.
LEMMA GrantedWhateverTheRow == \A m, row : RoleGranted(m, row) = RoleGranted(m, "member")
BY DEF RoleGranted

LEMMA UsableRole == \A m : Usable(m) => LocalRoleFor(m) = RoleGranted(m, "member")
BY DEF RoleGranted

LEMMA CurrentIsAVersion ==
    ASSUME TypeOK
    PROVE  /\ Len(list) \in 1..Len(list) /\ Current = list[Len(list)]
           /\ \A i \in 1..Len(list) : list[i].from \in Nat /\ list[i].says \in Memberships
<1>1. list \in Seq(Version) /\ list # <<>>
  BY DEF TypeOK, Version
<1>2. Len(list) \in Nat \ {0}
  BY <1>1, EmptySeq, LenProperties
<1>3. \A i \in 1..Len(list) : list[i] \in Version
  BY <1>1, ElementOfSeq
<1> QED BY <1>2, <1>3 DEF Current, Version

\* Beyond the delay only what the list now says is read.
LEMMA LateReading ==
    ASSUME TypeOK, TimeInv, now > Current.from + Delay, NEW m \in Readings
    PROVE  m = Current.says
<1>1. PICK i \in 1..Len(list) :
         /\ m = list[i].says
         /\ i = Len(list) \/ now <= list[i+1].from + Delay
  BY DEF Readings
<1>2. CASE i = Len(list)
  BY <1>1, <1>2 DEF Current
<1>3. CASE i # Len(list)
  <2>1. i + 1 \in 1..Len(list) /\ Len(list) \in 1..Len(list) /\ i + 1 <= Len(list)
    BY <1>3, CurrentIsAVersion DEF TypeOK
  <2>2. list[i+1].from <= Current.from
    BY <2>1 DEF TimeInv, Current
  <2>3. list[i+1].from \in Nat /\ Current.from \in Nat /\ now \in Nat
    BY <2>1, CurrentIsAVersion DEF TypeOK
  <2> QED BY <1>1, <1>3, <2>2, <2>3, RoleAssumption
<1> QED BY <1>2, <1>3

LEMMA ReadingIsAVersion ==
    ASSUME TypeOK, NEW m \in Readings
    PROVE  \E i \in 1..Len(list) : m = list[i].says
BY DEF Readings

------------------------------------------------------------------------------
(* Types and times. *)

LEMMA TypeInit == Init => TypeInv
<1> SUFFICES ASSUME Init PROVE TypeInv
  OBVIOUS
<1>1. PICK m \in Memberships : list = << [says |-> m, from |-> 0] >>
  BY DEF Init
<1>2. list \in Seq([says: Memberships, from: Nat]) /\ list # <<>>
  BY <1>1
<1>3. /\ now \in Nat /\ synced \in Nat /\ settled \in Nat /\ signedIn \subseteq LocalRole
      /\ stored = NoRow /\ claims \subseteq Claim
  BY DEF Init
<1>4. pc \in [Requests -> RequestPC] /\ job \in [Requests -> Job]
      /\ \A r \in Requests : pc[r] = "idle"
  BY DEF Init, RequestPC
<1> QED BY <1>2, <1>3, <1>4 DEF TypeInv, TypeOK

\* A step of one request: what it does to the others, and to the row.
LEMMA TypeStep == TypeInv /\ [Next]_vars => TypeInv'
<1> SUFFICES ASSUME TypeInv, [Next]_vars PROVE TypeInv'
  OBVIOUS
<1> USE DEF TypeInv, RequestPC
<1>1. TypeOK
  OBVIOUS
<1>2. ASSUME NEW r \in Requests, NEW l \in {"roleFor", "load", "getUser"}, Start(r, l)
      PROVE  TypeInv'
  BY <1>2 DEF TypeOK, Start, Goto
<1>3. ASSUME NEW r \in Requests, RoleFor(r) PROVE TypeInv'
  <2>1. PICK m \in Readings : \/ Goto(r, "find") /\ Keep(r, LocalRoleFor(m))
                              \/ End(r)
    BY <1>3 DEF RoleFor
  <2>2. LocalRoleFor(m) \in LocalRole
    BY DEF LocalRoleFor
  <2>3. UNCHANGED <<now, list, stored, claims, history>>
    BY <1>3 DEF RoleFor
  <2>4. CASE Goto(r, "find") /\ Keep(r, LocalRoleFor(m))
    BY <2>2, <2>3, <2>4 DEF TypeOK, Goto, Keep
  <2>5. CASE End(r)
    BY <2>3, <2>5 DEF TypeOK, Goto, End
  <2> QED BY <2>1, <2>4, <2>5
<1>4. ASSUME NEW r \in Requests, Find(r) PROVE TypeInv'
  BY <1>4 DEF TypeOK, Find, Goto, SignedIn, Synced, Later
<1>5. ASSUME NEW r \in Requests, SignInWrite(r) PROVE TypeInv'
  BY <1>5, RoleAssumption DEF TypeOK, SignInWrite, Goto, SignedIn, Synced, Later
<1>6. ASSUME NEW r \in Requests, Create(r) PROVE TypeInv'
  <2>1. CASE stored = NoRow
    <3>1. /\ Goto(r, "mint") /\ job' = job /\ SignedIn(r)
          /\ stored' = job[r].role /\ UNCHANGED <<now, list, claims>>
      BY <1>6, <2>1 DEF Create
    <3>2. stored' \in LocalRole /\ stored' # NoRow
      BY <3>1, RoleAssumption DEF TypeOK
    <3> QED BY <3>1, <3>2 DEF TypeOK, Goto, SignedIn, Synced, Later
  <2>2. CASE stored # NoRow
    <3>1. End(r) /\ UNCHANGED <<stored, history, now, list, claims>>
      BY <1>6, <2>2 DEF Create
    <3> QED BY <3>1 DEF TypeOK, Goto, End
  <2> QED BY <2>1, <2>2
<1>7. ASSUME NEW r \in Requests, Load(r) PROVE TypeInv'
  BY <1>7 DEF TypeOK, Load, Goto, Keep
<1>8. ASSUME NEW r \in Requests, LocalRoles(r) PROVE TypeInv'
  <2>1. PICK m \in Readings : LET role == RoleGranted(m, job[r].role) IN
          \/ End(r) /\ ReadBy(r)
          \/ Goto(r, "writeBack") /\ Keep(r, role) /\ UNCHANGED history
    BY <1>8 DEF LocalRoles
  <2>2. RoleGranted(m, job[r].role) \in LocalRole
    BY RoleGrantedType
  <2>3. UNCHANGED <<now, list, stored, claims>>
    BY <1>8 DEF LocalRoles
  <2>4. CASE End(r) /\ ReadBy(r)
    BY <2>3, <2>4 DEF TypeOK, Goto, End, ReadBy, Synced, Later
  <2>5. CASE Goto(r, "writeBack") /\ Keep(r, RoleGranted(m, job[r].role)) /\ UNCHANGED history
    BY <2>2, <2>3, <2>5 DEF TypeOK, Goto, Keep
  <2> QED BY <2>1, <2>4, <2>5
<1>9. ASSUME NEW r \in Requests, WriteBack(r) PROVE TypeInv'
  BY <1>9, RoleAssumption DEF TypeOK, WriteBack, Goto, End, ReadBy, Synced, Later
<1>10. ASSUME NEW r \in Requests, GetUser(r) PROVE TypeInv'
  BY <1>10 DEF TypeOK, GetUser, Goto, Keep
<1>11. ASSUME NEW r \in Requests, Mint(r) PROVE TypeInv'
  <2>1. Minted(r) \in Claim
    BY RoleAssumption DEF TypeOK, Minted
  <2> QED BY <1>11, <2>1 DEF TypeOK, Mint, Goto, End
<1>12. ASSUME NEW r \in Requests, Fail(r) PROVE TypeInv'
  BY <1>12 DEF TypeOK, Fail, Goto, End
<1>13. CASE ChangeList
  BY <1>13 DEF TypeOK, ChangeList
<1>14. CASE Tick
  BY <1>14 DEF TypeOK, Tick
<1>15. CASE UNCHANGED vars
  BY <1>15 DEF TypeOK, vars
<1> QED
  BY <1>2, <1>3, <1>4, <1>5, <1>6, <1>7, <1>8, <1>9, <1>10, <1>11, <1>12, <1>13, <1>14, <1>15
     DEF Next, Step

\* Every variable keeps its type.
THEOREM RoleTypesCorrect == Spec => []TypeOK
<1>1. TypeInv => TypeOK
  BY DEF TypeInv
<1> QED BY <1>1, TypeInit, TypeStep, PTL DEF Spec

------------------------------------------------------------------------------
(* The kinds of step a request takes, whichever request it is. *)

Idle == [started |-> 0, role |-> "member"]
Writing == {"find", "signInWrite", "create", "writeBack"}

Alone(r) == /\ UNCHANGED <<now, list>>
            /\ \A q \in Requests \ {r} : pc'[q] = pc[q] /\ job'[q] = job[q]
Apart(r) == Alone(r) /\ UNCHANGED <<stored, claims, synced, settled>>

Begins(r) ==
    /\ Apart(r) /\ pc[r] = "idle" /\ pc'[r] \in {"roleFor", "load", "getUser"}
    /\ job'[r].started = now /\ job'[r].role = job[r].role
Reads(r) ==
    /\ Apart(r) /\ pc[r] \in {"roleFor", "localRoles"} /\ pc'[r] \in {"find", "writeBack"}
    /\ job'[r].started = job[r].started
    /\ \E m \in Readings : job'[r].role = RoleGranted(m, "member")
Waits(r) ==
    /\ Apart(r) /\ pc[r] = "find" /\ pc'[r] \in {"create", "signInWrite"} /\ job'[r] = job[r]
Leaves(r) ==
    /\ Apart(r) /\ pc[r] # "idle" /\ pc'[r] = "idle" /\ job'[r] = Idle
Stores(r) ==
    /\ Alone(r) /\ pc[r] \in Writing /\ stored' = job[r].role /\ Synced(r) /\ claims' = claims
    /\ \/ pc'[r] = "mint" /\ job'[r] = job[r]
       \/ pc'[r] = "idle" /\ job'[r] = Idle
Loads(r) ==
    /\ Apart(r) /\ <<pc[r], pc'[r]>> \in {<<"load", "localRoles">>, <<"getUser", "mint">>}
    /\ job'[r].started = job[r].started /\ job'[r].role = stored
Agrees(r) ==
    /\ Alone(r) /\ UNCHANGED <<stored, claims>> /\ Synced(r)
    /\ pc[r] = "localRoles" /\ pc'[r] = "idle" /\ job'[r] = Idle
    /\ \E m \in Readings : job[r].role = RoleGranted(m, "member")
Mints(r) ==
    /\ Alone(r) /\ UNCHANGED <<stored, synced, settled>>
    /\ pc[r] = "mint" /\ pc'[r] = "idle" /\ job'[r] = Idle
    /\ claims' = claims \cup {Minted(r)}

LEMMA StepKinds ==
    ASSUME TypeInv, NEW r \in Requests, Step(r)
    PROVE  \/ Begins(r) \/ Reads(r) \/ Waits(r) \/ Leaves(r)
           \/ Stores(r) \/ Loads(r) \/ Agrees(r) \/ Mints(r)
<1> USE DEF TypeInv, TypeOK, Alone, Apart, Idle, Writing
<1>0. ASSUME pc[r] \in Writing, stored' = job[r].role, Goto(r, "mint"), SignedIn(r),
             UNCHANGED <<now, list, claims, job>>
      PROVE  Stores(r)
  <2>1. Alone(r)
    BY <1>0 DEF Goto
  <2>2. pc'[r] = "mint" /\ job'[r] = job[r]
    BY <1>0 DEF Goto
  <2>3. Synced(r)
    BY <1>0 DEF SignedIn
  <2> HIDE DEF Alone
  <2> QED BY <1>0, <2>1, <2>2, <2>3 DEF Stores
<1>1. ASSUME NEW l \in {"roleFor", "load", "getUser"}, Start(r, l) PROVE Begins(r)
  BY <1>1 DEF Start, Goto, Begins
<1>2. ASSUME RoleFor(r) PROVE Reads(r) \/ Leaves(r)
  <2>1. PICK m \in Readings : \/ Goto(r, "find") /\ Keep(r, RoleGranted(m, "member"))
                              \/ End(r)
    BY <1>2, UsableRole DEF RoleFor
  <2>2. pc[r] = "roleFor" /\ UNCHANGED <<now, list, stored, claims, history>>
    BY <1>2 DEF RoleFor
  <2>3. CASE Goto(r, "find") /\ Keep(r, RoleGranted(m, "member"))
    BY <2>2, <2>3 DEF Goto, Keep, Reads
  <2>4. CASE End(r)
    BY <2>2, <2>4 DEF Goto, End, Leaves
  <2> QED BY <2>1, <2>3, <2>4
<1>3. ASSUME Find(r) PROVE Waits(r) \/ Stores(r)
  <2>1. pc[r] = "find" /\ UNCHANGED <<now, list, stored, claims, job>>
    BY <1>3 DEF Find
  <2>2. \/ Goto(r, "create") /\ UNCHANGED history
        \/ stored = job[r].role /\ Goto(r, "mint") /\ SignedIn(r)
        \/ Goto(r, "signInWrite") /\ UNCHANGED history
    BY <1>3 DEF Find
  <2>3. CASE Goto(r, "create") /\ UNCHANGED history
    BY <2>1, <2>3 DEF Goto, Waits
  <2>4. CASE Goto(r, "signInWrite") /\ UNCHANGED history
    BY <2>1, <2>4 DEF Goto, Waits
  <2>5. CASE stored = job[r].role /\ Goto(r, "mint") /\ SignedIn(r)
    BY <1>0, <2>1, <2>5
  <2> QED BY <2>2, <2>3, <2>4, <2>5
<1>4. ASSUME SignInWrite(r) PROVE Stores(r)
  BY <1>0, <1>4 DEF SignInWrite
<1>5. ASSUME Create(r) PROVE Stores(r) \/ Leaves(r)
  <2>1. CASE stored = NoRow /\ stored' = job[r].role /\ Goto(r, "mint") /\ job' = job /\ SignedIn(r)
    BY <1>0, <1>5, <2>1 DEF Create
  <2>2. CASE End(r) /\ UNCHANGED <<stored, history>>
    BY <1>5, <2>2 DEF Create, Goto, End, Leaves
  <2> QED BY <1>5, <2>1, <2>2 DEF Create
<1>6. ASSUME Load(r) PROVE Loads(r)
  BY <1>6 DEF Load, Goto, Keep, Loads
<1>7. ASSUME LocalRoles(r) PROVE Reads(r) \/ Agrees(r)
  <2>1. PICK m \in Readings : LET role == RoleGranted(m, "member") IN
          \/ role = job[r].role /\ End(r) /\ ReadBy(r)
          \/ Goto(r, "writeBack") /\ Keep(r, role) /\ UNCHANGED history
    BY <1>7, GrantedWhateverTheRow DEF LocalRoles
  <2>2. pc[r] = "localRoles" /\ UNCHANGED <<now, list, stored, claims>>
    BY <1>7 DEF LocalRoles
  <2>3. CASE RoleGranted(m, "member") = job[r].role /\ End(r) /\ ReadBy(r)
    BY <2>2, <2>3 DEF Goto, End, ReadBy, Agrees
  <2>4. CASE Goto(r, "writeBack") /\ Keep(r, RoleGranted(m, "member")) /\ UNCHANGED history
    BY <2>2, <2>4 DEF Goto, Keep, Reads
  <2> QED BY <2>1, <2>3, <2>4
<1>8. ASSUME WriteBack(r) PROVE Stores(r)
  BY <1>8 DEF WriteBack, Goto, End, ReadBy, Stores
<1>9. ASSUME GetUser(r) PROVE Loads(r)
  BY <1>9 DEF GetUser, Goto, Keep, Loads
<1>10. ASSUME Mint(r) PROVE Mints(r)
  BY <1>10 DEF Mint, Goto, End, Mints
<1>11. ASSUME Fail(r) PROVE Leaves(r)
  BY <1>11 DEF Fail, Goto, End, Leaves
<1> QED
  BY <1>1, <1>2, <1>3, <1>4, <1>5, <1>6, <1>7, <1>8, <1>9, <1>10, <1>11 DEF Step

LEMMA TimeInit == Init => TimeInv
<1> SUFFICES ASSUME Init PROVE TimeInv
  OBVIOUS
<1>1. PICK m \in Memberships : list = << [says |-> m, from |-> 0] >>
  BY DEF Init
<1>2. Len(list) = 1 /\ list[1].from = 0
  BY <1>1
<1>3. now = 0 /\ synced = 0 /\ settled = 0 /\ claims = {} /\ \A r \in Requests : job[r].started = 0
      /\ pc[r] = "idle"
  BY DEF Init
<1>4. \A i, j \in 1..Len(list) : i <= j => list[i].from <= list[j].from
  BY <1>2
<1>5. Current.from <= now
  BY <1>2, <1>3 DEF Current
<1> QED BY <1>3, <1>4, <1>5 DEF TimeInv

LEMMA TimeStep == TypeInv /\ TimeInv /\ [Next]_vars => TimeInv'
<1> SUFFICES ASSUME TypeInv, TimeInv, [Next]_vars PROVE TimeInv'
  OBVIOUS
<1> USE RoleAssumption
<1>0. /\ now \in Nat /\ synced \in Nat /\ settled \in Nat /\ Current.from \in Nat
      /\ \A r \in Requests : job[r].started \in Nat
      /\ \A c \in claims : c.expires \in Nat
  BY CurrentIsAVersion DEF TypeInv, TypeOK
<1>1. ASSUME NEW r \in Requests, Step(r) PROVE TimeInv'
  <2>1. UNCHANGED <<now, list>>
        /\ \A q \in Requests \ {r} : pc'[q] = pc[q] /\ job'[q] = job[q]
    BY <1>1, StepKinds DEF Begins, Reads, Waits, Leaves, Stores, Loads, Agrees, Mints, Apart, Alone
  <2>2. Current' = Current
    BY <2>1 DEF Current
  <2>3. \/ pc'[r] = "idle" /\ job'[r].started = 0
        \/ pc[r] = "idle" /\ job'[r].started = now
        \/ pc[r] # "idle" /\ job'[r].started = job[r].started
    BY <1>1, StepKinds
       DEF Begins, Reads, Waits, Leaves, Stores, Loads, Agrees, Mints, Idle, Writing
  <2>4. UNCHANGED <<synced, settled>> \/ Synced(r)
    BY <1>1, StepKinds DEF Begins, Reads, Waits, Leaves, Stores, Loads, Agrees, Mints, Apart
  <2>5. synced' <= settled' /\ settled' <= now
    BY <1>0, <2>4 DEF Synced, Later, TimeInv
  <2>6. claims' = claims \/ claims' = claims \cup {Minted(r)}
    BY <1>1, StepKinds DEF Begins, Reads, Waits, Leaves, Stores, Loads, Agrees, Mints, Apart
  <2>7. \A c \in claims' : now <= c.expires /\ c.expires <= now + AccessLifetime
    BY <1>0, <2>6 DEF Minted, TimeInv
  <2>8. \A q \in Requests : /\ job'[q].started <= now
                            /\ pc'[q] # "idle" => now <= job'[q].started + MaxRequest
    BY <1>0, <2>1, <2>3 DEF TimeInv
  <2> QED BY <2>1, <2>2, <2>5, <2>7, <2>8 DEF TimeInv
<1>2. CASE ChangeList
  <2>1. PICK m \in Memberships : list' = Append(list, [says |-> m, from |-> now])
    BY <1>2 DEF ChangeList
  <2> DEFINE new == [says |-> m, from |-> now]
  <2>2. list \in Seq([says: Memberships, from: Nat])
    BY DEF TypeInv, TypeOK
  <2>3. Len(list) \in Nat
    BY <2>2, LenProperties
  <2>4. /\ Len(list') = Len(list) + 1 /\ list'[Len(list')].from = now
        /\ \A i \in 1..Len(list) : list'[i] = list[i] /\ list[i].from <= now /\ list[i].from \in Nat
    <3>1. new \in [says: Memberships, from: Nat] /\ new.from = now
      BY <1>0
    <3>2. /\ Len(list') = Len(list) + 1 /\ list'[Len(list')] = new
          /\ \A i \in 1..Len(list) : list'[i] = list[i]
      <4> HIDE DEF new
      <4> QED BY <2>1, <2>2, <2>3, <3>1 DEF new
    <3>3. \A i \in 1..Len(list) : list[i].from <= now /\ list[i].from \in Nat
      BY <1>0, CurrentIsAVersion DEF TimeInv, TypeInv, Current
    <3> QED BY <3>1, <3>2, <3>3
  <2>5. \A i, j \in 1..Len(list') : i <= j => list'[i].from <= list'[j].from
    BY <1>0, <2>3, <2>4 DEF TimeInv
  <2>6. Current'.from <= now'
    BY <1>0, <1>2, <2>4 DEF ChangeList, Current
  <2> QED BY <1>2, <2>5, <2>6 DEF ChangeList, TimeInv
<1>3. CASE Tick
  <2>1. Current' = Current
    BY <1>3 DEF Tick, Current
  <2> QED BY <1>0, <1>3, <2>1 DEF Tick, TimeInv
<1>4. CASE UNCHANGED vars
  <2>1. Current' = Current
    BY <1>4 DEF vars, Current
  <2> QED BY <1>4, <2>1 DEF vars, TimeInv
<1> QED BY <1>1, <1>2, <1>3, <1>4 DEF Next

------------------------------------------------------------------------------
(* Authority. *)

WasGranted == \E i \in 1..Len(list) : RoleGranted(list[i].says, "member") = "admin"

\* Who administers, in the row, in a request's hands or in a token, was granted it.
GrantedInv ==
    /\ stored = "admin" => WasGranted
    /\ \A r \in Requests : job[r].role = "admin" => WasGranted
    /\ ClaimsWereGranted

LEMMA GrantedInit == Init => GrantedInv
BY RoleAssumption DEF Init, GrantedInv, ClaimsWereGranted

LEMMA GrantedStep == TypeInv /\ GrantedInv /\ [Next]_vars => GrantedInv'
<1> SUFFICES ASSUME TypeInv, GrantedInv, [Next]_vars PROVE GrantedInv'
  OBVIOUS
<1>1. ASSUME WasGranted => WasGranted',
             stored' = "admin" => WasGranted,
             \A r \in Requests : job'[r].role = "admin" => WasGranted,
             \A c \in claims' : c.role = "admin" => WasGranted
      PROVE  GrantedInv'
  BY <1>1 DEF GrantedInv, ClaimsWereGranted, WasGranted
<1>2. \A c \in claims : c.role = "admin" => WasGranted
  BY DEF GrantedInv, ClaimsWereGranted, WasGranted
<1>3. \A m \in Readings : RoleGranted(m, "member") = "admin" => WasGranted
  BY ReadingIsAVersion DEF TypeInv, WasGranted
<1>4. ASSUME NEW r \in Requests, Step(r) PROVE GrantedInv'
  <2>1. WasGranted => WasGranted'
    BY <1>4, StepKinds DEF Begins, Reads, Waits, Leaves, Stores, Loads, Agrees, Mints, Apart, Alone,
                           WasGranted
  <2>2. stored' \in {stored, job[r].role}
    BY <1>4, StepKinds DEF Begins, Reads, Waits, Leaves, Stores, Loads, Agrees, Mints, Apart
  <2>3. \/ job'[r].role \in {job[r].role, "member", stored}
        \/ \E m \in Readings : job'[r].role = RoleGranted(m, "member")
    BY <1>4, StepKinds DEF Begins, Reads, Waits, Leaves, Stores, Loads, Agrees, Mints, Idle
  <2>4. \A q \in Requests \ {r} : job'[q] = job[q]
    BY <1>4, StepKinds DEF Begins, Reads, Waits, Leaves, Stores, Loads, Agrees, Mints, Apart, Alone
  <2>5. \A c \in claims' : c \in claims \/ c.role = job[r].role
    BY <1>4, StepKinds DEF Begins, Reads, Waits, Leaves, Stores, Loads, Agrees, Mints, Apart, Minted
  <2>6. \A q \in Requests : job'[q].role = "admin" => WasGranted
    BY <1>3, <2>3, <2>4 DEF GrantedInv
  <2> QED BY <1>1, <1>2, <2>1, <2>2, <2>5, <2>6 DEF GrantedInv
<1>5. CASE ChangeList
  <2>1. PICK m \in Memberships : list' = Append(list, [says |-> m, from |-> now])
    BY <1>5 DEF ChangeList
  <2>2. list \in Seq([says: Memberships, from: Nat])
    BY DEF TypeInv, TypeOK
  <2>3. Len(list') = Len(list) + 1 /\ Len(list) \in Nat /\ \A i \in 1..Len(list) : list'[i] = list[i]
    BY <2>1, <2>2, LenProperties
  <2>4. WasGranted => WasGranted'
    BY <2>3 DEF WasGranted
  <2> QED BY <1>1, <1>2, <1>5, <2>4 DEF ChangeList, GrantedInv
<1>6. CASE Tick
  BY <1>1, <1>2, <1>6 DEF Tick, GrantedInv, WasGranted
<1>7. CASE UNCHANGED vars
  BY <1>1, <1>2, <1>7 DEF vars, GrantedInv, WasGranted
<1> QED BY <1>4, <1>5, <1>6, <1>7 DEF Next

\* Authority is never invented, for any memberships and any interleaving of
\* sign-ins, profile reads and refreshes.
THEOREM ClaimsWereGrantedHolds == Spec => []ClaimsWereGranted
<1>1. GrantedInv => ClaimsWereGranted
  BY DEF GrantedInv
<1> QED BY <1>1, TypeInit, TypeStep, GrantedInit, GrantedStep, PTL DEF Spec

------------------------------------------------------------------------------
(* What settles. *)

\* Who has started too late to be told anything but what the list now says is
\* about to write that, and has loaded the row since it was last wrong.
HeldRoles ==
    \A r \in Requests : pc[r] \in Writing /\ job[r].started > Current.from + Delay
        => job[r].role = RoleNow
LoadedRoles ==
    \A r \in Requests : pc[r] = "localRoles" /\ Quiet(job[r].started)
        => (job[r].role = RoleNow => stored = RoleNow)
\* The same of the tokens minted once the row is settled.
MintingRoles ==
    \A r \in Requests : pc[r] = "mint" /\ Quiet(synced) /\ job[r].started > settled
        => job[r].role = RoleNow
MintedRoles ==
    \A c \in claims : Quiet(synced) /\ c.expires > settled + MaxRequest + AccessLifetime
        => c.role = RoleNow

SettledInv == HeldRoles /\ LoadedRoles /\ SyncSettles /\ MintingRoles /\ MintedRoles

\* Once nothing that read an older list is still going, nothing writes an older role.
LEMMA LateWrite ==
    ASSUME TypeInv, TimeInv, HeldRoles, NEW r \in Requests, pc[r] \in Writing,
           NEW t \in Nat, t <= now, Quiet(t)
    PROVE  job[r].role = RoleNow
<1>1. /\ now \in Nat /\ Current.from \in Nat /\ job[r].started \in Nat
      /\ now <= job[r].started + MaxRequest
  BY CurrentIsAVersion DEF TypeInv, TypeOK, TimeInv, Writing
<1>2. job[r].started > Current.from + Delay
  BY <1>1, RoleAssumption DEF Quiet
<1> QED BY <1>2 DEF HeldRoles

LEMMA SettledInit == Init => SettledInv
<1> SUFFICES ASSUME Init PROVE SettledInv
  OBVIOUS
<1>1. PICK m \in Memberships : list = << [says |-> m, from |-> 0] >>
  BY DEF Init
<1>2. Current.from = 0
  BY <1>1 DEF Current
<1>3. ~Quiet(synced)
  BY <1>2, RoleAssumption DEF Init, Quiet
<1>4. claims = {} /\ \A r \in Requests : pc[r] = "idle"
  BY DEF Init
<1> QED
  BY <1>3, <1>4
     DEF SettledInv, HeldRoles, LoadedRoles, SyncSettles, MintingRoles, MintedRoles, Writing

LEMMA SettledStep == TypeInv /\ TimeInv /\ SettledInv /\ [Next]_vars => SettledInv'
<1> SUFFICES ASSUME TypeInv, TimeInv, SettledInv, [Next]_vars PROVE SettledInv'
  OBVIOUS
<1> USE RoleAssumption
<1>0. /\ now \in Nat /\ synced \in Nat /\ settled \in Nat /\ Current.from \in Nat
      /\ \A r \in Requests : job[r].started \in Nat
      /\ \A c \in claims : c.expires \in Nat
      /\ Current.from <= now /\ synced <= settled /\ settled <= now
      /\ \A r \in Requests : job[r].started <= now
  BY CurrentIsAVersion DEF TypeInv, TypeOK, TimeInv
<1>1. ASSUME NEW r \in Requests, Step(r) PROVE SettledInv'
  <2>1. /\ UNCHANGED <<now, list>>
        /\ \A q \in Requests \ {r} : pc'[q] = pc[q] /\ job'[q] = job[q]
    BY <1>1, StepKinds DEF Begins, Reads, Waits, Leaves, Stores, Loads, Agrees, Mints, Apart, Alone
  <2>2. Current' = Current /\ RoleNow' = RoleNow
    BY <2>1 DEF Current, RoleNow
  <2>3. ASSUME NEW m \in Readings, now > Current.from + Delay
        PROVE  RoleGranted(m, "member") = RoleNow
    BY <2>3, LateReading DEF TypeInv, RoleNow
  \* When the row is brought up to date, if it is.
  <2>4. \/ UNCHANGED <<synced, settled>>
        \/ Synced(r) /\ pc[r] # "idle" /\ synced' = job[r].started /\ settled' = now
    <3>1. UNCHANGED <<synced, settled>> \/ (Synced(r) /\ pc[r] # "idle")
      BY <1>1, StepKinds
         DEF Begins, Reads, Waits, Leaves, Stores, Loads, Agrees, Mints, Apart, Writing
    <3> QED BY <1>0, <3>1 DEF Synced, Later
  <2>5. synced' \in Nat /\ synced' <= now /\ settled' \in Nat /\ settled <= settled'
    BY <1>0, <2>4
  <2>6. HeldRoles'
    <3> SUFFICES ASSUME NEW q \in Requests, pc'[q] \in Writing,
                        job'[q].started > Current.from + Delay
                 PROVE  job'[q].role = RoleNow
      BY <2>2 DEF HeldRoles
    <3>1. CASE q # r
      BY <2>1, <3>1 DEF SettledInv, HeldRoles
    <3>2. CASE q = r /\ Reads(r)
      <4>1. now > Current.from + Delay
        BY <1>0, <3>2 DEF Reads
      <4> QED BY <2>3, <3>2, <4>1 DEF Reads
    <3>3. CASE q = r /\ Waits(r)
      BY <3>3 DEF Waits, SettledInv, HeldRoles, Writing
    <3> QED BY <1>1, <3>1, <3>2, <3>3, StepKinds
            DEF Begins, Leaves, Stores, Loads, Agrees, Mints, Writing
  <2>7. LoadedRoles'
    <3> SUFFICES ASSUME NEW q \in Requests, pc'[q] = "localRoles", Quiet(job'[q].started),
                        job'[q].role = RoleNow
                 PROVE  stored' = RoleNow
      BY <2>2 DEF LoadedRoles, Quiet
    <3>1. CASE q = r
      BY <1>1, <3>1, StepKinds DEF Begins, Reads, Waits, Leaves, Stores, Loads, Agrees, Mints, Apart
    <3>2. CASE q # r /\ Stores(r)
      BY <1>0, <2>1, <3>2, LateWrite DEF Stores, SettledInv
    <3>3. CASE q # r /\ stored' = stored
      BY <2>1, <3>3 DEF SettledInv, LoadedRoles
    <3> QED BY <1>1, <3>1, <3>2, <3>3, StepKinds
            DEF Begins, Reads, Waits, Leaves, Loads, Agrees, Mints, Apart
  <2>8. SyncSettles'
    <3> SUFFICES ASSUME Quiet(synced') PROVE stored' = RoleNow
      BY <2>2 DEF SyncSettles, Quiet
    <3>1. CASE Stores(r)
      BY <2>5, <3>1, LateWrite DEF Stores, SettledInv
    <3>2. CASE Agrees(r) /\ synced' # synced
      <4>1. Quiet(job[r].started) /\ pc[r] = "localRoles" /\ stored' = stored
        BY <2>4, <3>2 DEF Agrees
      <4>2. now > Current.from + Delay
        BY <1>0, <4>1 DEF Quiet
      <4>3. job[r].role = RoleNow
        BY <2>3, <3>2, <4>2 DEF Agrees
      <4> QED BY <4>1, <4>3 DEF SettledInv, LoadedRoles
    <3>3. CASE stored' = stored /\ synced' = synced
      BY <3>3 DEF SettledInv, SyncSettles
    <3> QED BY <1>1, <3>1, <3>2, <3>3, StepKinds
            DEF Begins, Reads, Waits, Leaves, Loads, Agrees, Mints, Apart
  <2>9. MintingRoles'
    <3> SUFFICES ASSUME NEW q \in Requests, pc'[q] = "mint", Quiet(synced'),
                        job'[q].started > settled'
                 PROVE  job'[q].role = RoleNow
      BY <2>2 DEF MintingRoles, Quiet
    <3>1. job'[q].started = job[q].started
      BY <1>1, <2>1, StepKinds
         DEF Begins, Reads, Waits, Leaves, Stores, Loads, Agrees, Mints
    <3>2. UNCHANGED <<synced, settled>>
      BY <1>0, <2>4, <3>1
    <3>3. CASE q # r
      BY <2>1, <3>2, <3>3 DEF SettledInv, MintingRoles
    <3>4. CASE q = r /\ Loads(r)
      BY <3>2, <3>4 DEF Loads, SettledInv, SyncSettles
    <3>5. CASE q = r /\ Stores(r)
      <4>1. job[r].started <= synced
        BY <1>0, <3>2, <3>5 DEF Stores, Synced, Later
      <4> QED BY <1>0, <3>1, <3>2, <3>5, <4>1
    <3> QED BY <1>1, <3>3, <3>4, <3>5, StepKinds DEF Begins, Reads, Waits, Leaves, Agrees, Mints
  <2>10. MintedRoles'
    <3> SUFFICES ASSUME NEW c \in claims', Quiet(synced'),
                        c.expires > settled' + MaxRequest + AccessLifetime
                 PROVE  c.role = RoleNow
      BY <2>2 DEF MintedRoles, Quiet
    <3>1. c \in claims \/ (Mints(r) /\ c = Minted(r))
      BY <1>1, StepKinds DEF Begins, Reads, Waits, Leaves, Stores, Loads, Agrees, Mints, Apart
    <3>2. c.expires \in Nat /\ c.expires <= now + AccessLifetime
      BY <1>0, <3>1 DEF TimeInv, Minted
    <3>3. UNCHANGED <<synced, settled>>
      BY <1>0, <2>4, <3>2
    <3>4. CASE c \in claims
      BY <3>3, <3>4 DEF SettledInv, MintedRoles
    <3>5. CASE Mints(r) /\ c = Minted(r)
      <4>1. now <= job[r].started + MaxRequest
        BY <3>5 DEF Mints, TimeInv
      <4>2. job[r].started > settled
        BY <1>0, <3>3, <3>5, <4>1 DEF Minted
      <4> QED BY <3>3, <3>5, <4>2 DEF Mints, Minted, SettledInv, MintingRoles
    <3> QED BY <3>1, <3>4, <3>5
  <2> QED BY <2>6, <2>7, <2>8, <2>9, <2>10 DEF SettledInv
\* After a change of the list nothing has been settled yet.
<1>2. CASE ChangeList
  <2>1. Current'.from = now /\ UNCHANGED <<now, stored, claims, pc, job, synced, settled>>
    <3>1. PICK m \in Memberships : list' = Append(list, [says |-> m, from |-> now])
      BY <1>2 DEF ChangeList
    <3>2. list \in Seq([says: Memberships, from: Nat])
      BY DEF TypeInv, TypeOK
    <3> QED BY <1>2, <3>1, <3>2, LenProperties DEF ChangeList, Current
  <2>2. \A t \in Nat : t <= now => ~Quiet(t)'
    BY <1>0, <2>1 DEF Quiet
  <2>3. ~Quiet(synced)' /\ \A r \in Requests : ~Quiet(job[r].started)'
    BY <1>0, <2>1, <2>2 DEF Quiet
  <2>4. \A r \in Requests : ~(job[r].started > Current.from + Delay)'
    BY <1>0, <2>1
  <2> QED BY <2>3, <2>4
          DEF SettledInv, HeldRoles, LoadedRoles, SyncSettles, MintingRoles, MintedRoles
<1>3. CASE Tick \/ UNCHANGED vars
  <2>1. UNCHANGED <<list, stored, pc, job, synced, settled>> /\ claims' \subseteq claims
    BY <1>3 DEF Tick, vars
  <2> QED BY <2>1 DEF SettledInv, HeldRoles, LoadedRoles, SyncSettles, MintingRoles, MintedRoles,
                      Current, RoleNow, Quiet
<1> QED BY <1>1, <1>2, <1>3 DEF Next

\* Once the old list can no longer be read, a profile read or a sign-in brings
\* the row in line for good, whatever the delay of readings and the length of
\* requests.
THEOREM SyncSettlesHolds == Spec => []SyncSettles
<1>1. SettledInv => SyncSettles
  BY DEF SettledInv
<1> QED BY <1>1, TypeInit, TypeStep, TimeInit, TimeStep, SettledInit, SettledStep, PTL DEF Spec

\* And every access token, one request and one token lifetime later.
THEOREM ClaimsFollowSyncHolds == Spec => []ClaimsFollowSync
<1>1. TypeInv /\ TimeInv /\ SettledInv => ClaimsFollowSync
  <2> SUFFICES ASSUME TypeInv, TimeInv, SettledInv, Quiet(synced),
                      now > settled + MaxRequest + AccessLifetime, NEW c \in claims
               PROVE  c.role = RoleNow
    BY DEF ClaimsFollowSync
  <2>1. c.expires \in Nat /\ now <= c.expires /\ now \in Nat /\ settled \in Nat
    BY DEF TypeInv, TypeOK, TimeInv
  <2>2. c.expires > settled + MaxRequest + AccessLifetime
    BY <2>1, RoleAssumption
  <2> QED BY <2>2 DEF SettledInv, MintedRoles
<1> QED BY <1>1, TypeInit, TypeStep, TimeInit, TimeStep, SettledInit, SettledStep, PTL DEF Spec
==============================================================================

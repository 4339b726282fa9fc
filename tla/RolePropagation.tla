--------------------------- MODULE RolePropagation ---------------------------
(***************************************************************************)
(* How one person's role in the login mailing list reaches users.role and  *)
(* from there the role claim of their access tokens: the OAuth callback    *)
(* (internal/auth), the reads of a profile, which write drift back         *)
(* (internal/user), POST /auth/refresh and RequireRole (internal/jwt).     *)
(*                                                                         *)
(* Every SQL statement and every reading of the list is one atomic step.   *)
(* The list is read through the caches of GroupCaches, so what is read may *)
(* have been superseded up to Delay ago.  People do not affect each        *)
(* other's roles: the model follows one.                                   *)
(***************************************************************************)
EXTENDS Integers, Sequences

CONSTANTS
    Requests,        \* requests being served at one time
    Memberships,     \* what the list may say: [role, status], or Absent
    Absent, NoRow,
    Delay,           \* how old a reading of the list may be
    MaxRequest,      \* bound on the time a request takes
    AccessLifetime,  \* of an access token
    MaxNow, MaxChanges   \* bounds of the model

ASSUME RoleAssumption ==
    /\ Delay \in Nat /\ MaxRequest \in Nat /\ AccessLifetime \in Nat
    /\ MaxNow \in Nat /\ MaxChanges \in Nat
    /\ Absent \in Memberships
    /\ \A m \in Memberships \ {Absent} : {"role", "status"} \subseteq DOMAIN m
    /\ NoRow \notin {"member", "admin"}

VARIABLES
    now,
    list,        \* what the list has said so far, and from when
    stored,      \* users.role, or NoRow
    claims,      \* the access tokens not yet expired
    pc, job,     \* each request: where it is, and its local variables
    \* Read by no guard: of the profile reads and sign-ins that brought the row
    \* up to date, when the latest to start did, and when one so late ended.
    \* And the roles people were given when they signed in.
    synced, settled, signedIn

history == <<synced, settled, signedIn>>
vars == <<now, list, stored, claims, pc, job, history>>

LocalRole == {"member", "admin"}
Claim == [role: LocalRole, expires: Nat]
Job == [started: Nat, role: LocalRole]
RequestPC == {"idle", "roleFor", "find", "signInWrite", "create",
              "load", "localRoles", "writeBack", "getUser", "mint"}

Init ==
    /\ now = 0
    /\ \E m \in Memberships : list = << [says |-> m, from |-> 0] >>
    /\ stored = NoRow /\ claims = {}
    /\ pc = [r \in Requests |-> "idle"]
    /\ job = [r \in Requests |-> [started |-> 0, role |-> "member"]]
    /\ synced = 0 /\ settled = 0 /\ signedIn = {}

------------------------------------------------------------------------------
(* What the list means. *)

\* Google leaves the status of outside members empty.
Usable(m) == m # Absent /\ m.status \in {"", "ACTIVE"}

RoleUnmapped(m) == m.role
LocalRoleFor(m) == IF m.role \in {"OWNER", "MANAGER"} THEN "admin" ELSE "member"

RoleKeptWhenAbsent(m, row) == IF Usable(m) THEN LocalRoleFor(m) ELSE row
\* What syncRole makes of a row: off the list, no privileges.
RoleGranted(m, row) == IF Usable(m) THEN LocalRoleFor(m) ELSE "member"

Current == list[Len(list)]

\* The versions of the list a cached read may return.
Readings ==
    {list[i].says : i \in {j \in 1..Len(list) :
                              j = Len(list) \/ now <= list[j+1].from + Delay}}

------------------------------------------------------------------------------
(* The requests. *)

Later(a, b) == IF a < b THEN b ELSE a
Goto(r, l) == pc' = [pc EXCEPT ![r] = l]
Keep(r, role) == job' = [job EXCEPT ![r].role = role]
End(r) == Goto(r, "idle") /\ job' = [job EXCEPT ![r] = [started |-> 0, role |-> "member"]]

\* The row agrees with what r has read of the list.
Synced(r) ==
    /\ synced' = Later(synced, job[r].started)
    /\ settled' = IF job[r].started > synced THEN now ELSE settled
SignedIn(r) == Synced(r) /\ signedIn' = signedIn \cup {job[r].role}
ReadBy(r) == Synced(r) /\ UNCHANGED signedIn

\* Profile reads and refreshes come from somebody who has signed in.
Start(r, l) ==
    /\ pc[r] = "idle" /\ (l \in {"load", "getUser"} => stored # NoRow)
    /\ Goto(r, l) /\ job' = [job EXCEPT ![r].started = now]
    /\ UNCHANGED <<now, list, stored, claims, history>>

RoleForAnyStatus(r) ==
    /\ pc[r] = "roleFor"
    /\ \E m \in Readings \ {Absent} : Goto(r, "find") /\ Keep(r, LocalRoleFor(m))
    /\ UNCHANGED <<now, list, stored, claims, history>>

\* The login gate and the role, from one reading.
RoleFor(r) ==
    /\ pc[r] = "roleFor"
    /\ \E m \in Readings :
          \/ Usable(m) /\ Goto(r, "find") /\ Keep(r, LocalRoleFor(m))
          \/ ~Usable(m) /\ End(r)
    /\ UNCHANGED <<now, list, stored, claims, history>>

\* GetByEmail.
Find(r) ==
    /\ pc[r] = "find"
    /\ \/ stored = NoRow /\ Goto(r, "create") /\ UNCHANGED history
       \/ stored = job[r].role /\ Goto(r, "mint") /\ SignedIn(r)
       \/ stored \notin {NoRow, job[r].role} /\ Goto(r, "signInWrite") /\ UNCHANGED history
    /\ UNCHANGED <<now, list, stored, claims, job>>

SignInWrite(r) ==
    /\ pc[r] = "signInWrite"
    /\ stored' = job[r].role /\ Goto(r, "mint") /\ SignedIn(r)
    /\ UNCHANGED <<now, list, claims, job>>

\* The address is unique: of two first sign-ins, one fails.
Create(r) ==
    /\ pc[r] = "create"
    /\ \/ /\ stored = NoRow /\ stored' = job[r].role
          /\ Goto(r, "mint") /\ job' = job /\ SignedIn(r)
       \/ stored # NoRow /\ End(r) /\ UNCHANGED <<stored, history>>
    /\ UNCHANGED <<now, list, claims>>

\* GetByID or UpdateProfile returns the row, role included.
Load(r) ==
    /\ pc[r] = "load"
    /\ Goto(r, "localRoles") /\ Keep(r, stored)
    /\ UNCHANGED <<now, list, stored, claims, history>>

\* syncRole compares what the list says with the row as it was loaded.
LocalRoles(r) ==
    /\ pc[r] = "localRoles"
    /\ \E m \in Readings : LET role == RoleGranted(m, job[r].role) IN
          \/ role = job[r].role /\ End(r) /\ ReadBy(r)
          \/ /\ role # job[r].role
             /\ Goto(r, "writeBack") /\ Keep(r, role) /\ UNCHANGED history
    /\ UNCHANGED <<now, list, stored, claims>>

WriteBack(r) ==
    /\ pc[r] = "writeBack"
    /\ stored' = job[r].role /\ End(r) /\ ReadBy(r)
    /\ UNCHANGED <<now, list, claims>>

\* The refresh reads the row, and not the list.
GetUser(r) ==
    /\ pc[r] = "getUser"
    /\ Goto(r, "mint") /\ Keep(r, stored)
    /\ UNCHANGED <<now, list, stored, claims, history>>

MintedTooLong(r) == [role |-> job[r].role,
                     expires |-> now + 2 * AccessLifetime + MaxRequest]
Minted(r) == [role |-> job[r].role, expires |-> now + AccessLifetime]

Mint(r) ==
    /\ pc[r] = "mint"
    /\ claims' = claims \cup {Minted(r)}
    /\ End(r)
    /\ UNCHANGED <<now, list, stored, history>>

\* A statement fails, Google cannot be read, the process dies.
Fail(r) ==
    /\ pc[r] # "idle"
    /\ End(r)
    /\ UNCHANGED <<now, list, stored, claims, history>>

------------------------------------------------------------------------------

\* Somebody edits the list.
ChangeList ==
    /\ Len(list) <= MaxChanges
    /\ \E m \in Memberships \ {Current.says} :
          list' = Append(list, [says |-> m, from |-> now])
    /\ UNCHANGED <<now, stored, claims, pc, job, history>>

\* Time passes, but never beyond what a request is allowed.
Tick ==
    /\ now < MaxNow
    /\ \A r \in Requests : pc[r] # "idle" => now < job[r].started + MaxRequest
    /\ now' = now + 1
    /\ claims' = {c \in claims : now' < c.expires}
    /\ UNCHANGED <<list, stored, pc, job, history>>

Step(r) ==
    \/ \E l \in {"roleFor", "load", "getUser"} : Start(r, l)
    \/ RoleFor(r) \/ Find(r) \/ SignInWrite(r) \/ Create(r)
    \/ Load(r) \/ LocalRoles(r) \/ WriteBack(r)
    \/ GetUser(r) \/ Mint(r) \/ Fail(r)

Next == (\E r \in Requests : Step(r)) \/ ChangeList \/ Tick

Spec == Init /\ [][Next]_vars

------------------------------------------------------------------------------
(* Properties. *)

\* Every variable keeps its type.
TypeOK ==
    /\ now \in Nat /\ synced \in Nat /\ settled \in Nat /\ signedIn \subseteq LocalRole
    /\ list \in Seq([says: Memberships, from: Nat]) /\ list # <<>>
    /\ stored \in LocalRole \cup {NoRow}
    /\ claims \subseteq Claim
    /\ pc \in [Requests -> RequestPC] /\ job \in [Requests -> Job]

\* Nothing that read the list as it was before the last change is still going.
Quiet(t) == t > Current.from + Delay + MaxRequest

RoleNow == RoleGranted(Current.says, "member")

\* Once the old list can no longer be read by anybody, a profile read or a
\* sign-in that starts brings users.role in line with the list, and there it
\* stays: no slower request writes an older role over it (user/service.go,
\* FindOrCreateByEmail; user/handler.go, syncRole).
SyncSettles == Quiet(synced) => stored = RoleNow

\* A change of role reaches every access token at the latest one request and
\* one token lifetime after such a read or sign-in (jwt/middleware.go,
\* RequireRole).
ClaimsFollowSync ==
    Quiet(synced) /\ now > settled + MaxRequest + AccessLifetime
        => \A c \in claims : c.role = RoleNow

\* Authority is never invented: an administrator's token goes back to a time
\* when the list named its holder as one, in good standing (auth/rolesync.go).
ClaimsWereGranted ==
    \A c \in claims : c.role = "admin" =>
        \E i \in 1..Len(list) : RoleGranted(list[i].says, "member") = "admin"

\* "A promotion or demotion made in Google Groups reaches this check only when
\* that person signs in again" (jwt/middleware.go, RequireRole).
ClaimsComeFromSignIns == \A c \in claims : c.role \in signedIn
==============================================================================

---------------------------- MODULE RefreshTokens ----------------------------
(***************************************************************************)
(* The refresh_tokens table and the requests that use it: the end of a     *)
(* sign-in (internal/auth), POST /auth/refresh and POST /auth/logout       *)
(* (internal/jwt).  Every SQL statement is one atomic step; between two    *)
(* statements of one request any other request may run.                    *)
(*                                                                         *)
(* One clock serves the server and the database.  Minting the access token *)
(* touches no state and is part of the step before it.                     *)
(***************************************************************************)
EXTENDS Integers

CONSTANTS
    Requests,       \* requests being served at one time
    Users, Tokens,  \* Tokens: the row IDs gen_random_uuid may hand out
    None,           \* no token, no user
    Lifetime,       \* refreshTokenExpiration, in ticks
    MaxNow          \* bound of the model

ASSUME LifetimeAssumption ==
    Lifetime \in Nat /\ MaxNow \in Nat /\ None \notin Tokens \cup Users

VARIABLES
    now,
    rows,           \* the table: a function on the IDs that have a row
    pc, job,        \* each request: where it is, and its local variables
    \* Read by no guard but the client's: the IDs ever issued, those a client
    \* has been given, those exchanged or logged out, and how often exchanged.
    issued, held, spent, uses

history == <<issued, held, spent, uses>>
vars == <<now, rows, pc, job, history>>

Row == [user: Users, active: BOOLEAN, expires: Nat]

\* accepted: the presented token had not been spent when it was looked up.
Job == [user: Users \cup {None}, presented: Tokens \cup {None},
        created: Tokens \cup {None}, unspent: BOOLEAN]

\* Where a request may be: before the statement of that name, or resting.
Exchanging == {"getUser", "cleanup", "create", "inactivate", "respond"}
RequestPC == {"idle", "failed", "getToken", "inactivateAll"} \cup Exchanging
Resting == {"idle", "failed"}

NewJob(u, t) == [user |-> u, presented |-> t, created |-> None, unspent |-> TRUE]
NoJob == NewJob(None, None)

Init ==
    /\ now = 0
    /\ rows = [t \in {} |-> 0]
    /\ pc = [r \in Requests |-> "idle"]
    /\ job = [r \in Requests |-> NoJob]
    /\ issued = {} /\ held = {} /\ spent = {}
    /\ uses = [t \in Tokens |-> 0]

------------------------------------------------------------------------------
(* The queries. *)

UsableUntilDeleted(t) == t \in DOMAIN rows /\ rows[t].expires >= now
\* What GetUserByRefreshToken accepts: a row, active, not past its date.
Usable(t) == t \in DOMAIN rows /\ rows[t].active /\ rows[t].expires >= now

RemovableEarly(t) == rows[t].expires <= now \/ ~rows[t].active
\* The WHERE clause of DeleteExpiredRefreshTokens.
Removable(t) == rows[t].expires < now \/ ~rows[t].active

DeactivateToNull(S) ==
    rows' = [t \in DOMAIN rows |->
                IF t \in S THEN [rows[t] EXCEPT !.active = None] ELSE rows[t]]
\* is_active = FALSE in the rows of S.
Deactivate(S) ==
    rows' = [t \in DOMAIN rows |->
                IF t \in S THEN [rows[t] EXCEPT !.active = FALSE] ELSE rows[t]]

Goto(r, l) == pc' = [pc EXCEPT ![r] = l]
Begin(r, l, new) == Goto(r, l) /\ job' = [job EXCEPT ![r] = new]
End(r, l) == Goto(r, l) /\ job' = [job EXCEPT ![r] = NoJob]

------------------------------------------------------------------------------
(* The requests. *)

\* The callback has found or created the user and asks for a token.
SignIn(r, u) ==
    /\ pc[r] \in Resting
    /\ Begin(r, "cleanup", NewJob(u, None))
    /\ UNCHANGED <<now, rows, history>>

\* A client presents a token it was given.
Present(r, t) ==
    /\ pc[r] \in Resting /\ t \in held
    /\ Begin(r, "getToken", NewJob(None, t))
    /\ UNCHANGED <<now, rows, history>>

\* An access token says who logs out; no refresh token is involved.
Logout(r, u) ==
    /\ pc[r] \in Resting
    /\ Begin(r, "inactivateAll", NewJob(u, None))
    /\ UNCHANGED <<now, rows, history>>

\* GetRefreshTokenByID and the checks on its row.
GetToken(r) == LET t == job[r].presented IN
    /\ pc[r] = "getToken"
    /\ \/ Usable(t) /\ Begin(r, "getUser", [job[r] EXCEPT !.unspent = t \notin spent])
       \/ ~Usable(t) /\ End(r, "failed")
    /\ UNCHANGED <<now, rows, history>>

\* The join finds nothing if the row has been deleted since.
GetUser(r) == LET t == job[r].presented IN
    /\ pc[r] = "getUser"
    /\ \/ /\ t \in DOMAIN rows
          /\ Begin(r, "cleanup", [job[r] EXCEPT !.user = rows[t].user])
       \/ t \notin DOMAIN rows /\ End(r, "failed")
    /\ UNCHANGED <<now, rows, history>>

\* Opportunistic: a failure is logged and the request goes on.
Cleanup(r) ==
    /\ pc[r] = "cleanup"
    /\ Goto(r, "create")
    /\ \/ rows' = [t \in {x \in DOMAIN rows : ~Removable(x)} |-> rows[t]]
       \/ UNCHANGED rows
    /\ UNCHANGED <<now, job, history>>

Create(r) ==
    /\ pc[r] = "create"
    /\ \E t \in Tokens \ issued :
          /\ rows' = [x \in DOMAIN rows \cup {t} |->
                        IF x = t THEN [user |-> job[r].user, active |-> TRUE,
                                       expires |-> now + Lifetime]
                        ELSE rows[x]]
          /\ job' = [job EXCEPT ![r].created = t]
          /\ issued' = issued \cup {t}
    /\ Goto(r, IF job[r].presented = None THEN "respond" ELSE "inactivate")
    /\ UNCHANGED <<now, held, spent, uses>>

RotatedNothing(r) == {}
Rotated(r) == {job[r].presented}

\* InactivateRefreshToken returns the row it changed, and errors without one.
Inactivate(r) == LET t == job[r].presented IN
    /\ pc[r] = "inactivate"
    /\ \/ t \in DOMAIN rows /\ Deactivate(Rotated(r)) /\ Goto(r, "respond") /\ UNCHANGED job
       \/ t \notin DOMAIN rows /\ UNCHANGED rows /\ End(r, "failed")
    /\ UNCHANGED <<now, history>>

\* The client has its new pair: the token it presented is spent.
Respond(r) == LET t == job[r].presented IN
    /\ pc[r] = "respond"
    /\ End(r, "idle")
    /\ held' = held \cup {job[r].created}
    /\ \/ t = None /\ UNCHANGED <<spent, uses>>
       \/ /\ t # None
          /\ spent' = spent \cup {t} /\ uses' = [uses EXCEPT ![t] = @ + 1]
    /\ UNCHANGED <<now, rows, issued>>

OwnedBy(u) == {t \in DOMAIN rows : rows[t].user = u}

InactivateAll(r) ==
    /\ pc[r] = "inactivateAll"
    /\ Deactivate(OwnedBy(job[r].user))
    /\ spent' = spent \cup OwnedBy(job[r].user)
    /\ End(r, "idle")
    /\ UNCHANGED <<now, issued, held, uses>>

\* A statement fails without effect and the handler answers with the error.
Fail(r) ==
    /\ pc[r] \in {"getToken", "getUser", "create", "inactivate", "inactivateAll"}
    /\ End(r, "failed")
    /\ UNCHANGED <<now, rows, history>>

\* The process dies, or the connection does: nobody hears how it ended.
Vanish(r) ==
    /\ pc[r] \notin Resting
    /\ End(r, "idle")
    /\ UNCHANGED <<now, rows, history>>

Tick == now < MaxNow /\ now' = now + 1 /\ UNCHANGED <<rows, pc, job, history>>

Start(r) == \/ \E u \in Users : SignIn(r, u) \/ Logout(r, u)
            \/ \E t \in Tokens : Present(r, t)

Statement(r) == \/ GetToken(r) \/ GetUser(r) \/ Cleanup(r) \/ Create(r)
                \/ Inactivate(r) \/ Respond(r) \/ InactivateAll(r)

Next == (\E r \in Requests : Start(r) \/ Statement(r) \/ Fail(r) \/ Vanish(r)) \/ Tick

Spec == Init /\ [][Next]_vars

------------------------------------------------------------------------------
(* Properties. *)

\* Every variable keeps its type, and a row's ID has been issued.
TypeOK ==
    /\ now \in Nat
    /\ DOMAIN rows \subseteq issued /\ \A t \in DOMAIN rows : rows[t] \in Row
    /\ pc \in [Requests -> RequestPC] /\ job \in [Requests -> Job]
    /\ issued \subseteq Tokens /\ held \subseteq issued /\ spent \subseteq issued
    /\ uses \in [Tokens -> Nat]

\* A token that has been exchanged, or was in the table when its owner logged
\* out, is never accepted again, whatever other requests were half-way through
\* (handler.go, RefreshHandler and LogoutHandler).
AcceptedUnspent == \A r \in Requests : pc[r] \in Exchanging => job[r].unspent

\* The tokens a request may take away from their holders: the one it presented,
\* or, at a logout, all of one user's.
Taken(r) ==
    IF pc[r] = "inactivate" THEN {job[r].presented}
    ELSE IF pc[r] = "inactivateAll" THEN OwnedBy(job[r].user) ELSE {}

\* A usable token stops being usable only by its own exchange, its owner's
\* logout or the passing of its date: the cleanup that every new token triggers
\* takes no one's token (queries.sql, DeleteExpiredRefreshTokens).
CleanupTakesNothing ==
    [][now' = now =>
        \A t \in DOMAIN rows :
            Usable(t) /\ ~Usable(t)' => \E r \in Requests : t \in Taken(r)]_vars

\* A refresh token is exchanged once ("valid for 24 hours and single-use",
\* docs/api/service/auth.tsp).
SingleUse == \A t \in Tokens : uses[t] <= 1
==============================================================================

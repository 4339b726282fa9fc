------------------------- MODULE RefreshTokensProofs -------------------------
(***************************************************************************)
(* Theorems about RefreshTokens, for any number of requests, users, tokens *)
(* and any lifetime.                                                       *)
(***************************************************************************)
EXTENDS RefreshTokens, TLAPS

USE DEF history

\* What a request holds was issued, and its job is on its way somewhere.
JobInv ==
    \A r \in Requests :
        /\ job[r].presented \in issued \cup {None}
        /\ job[r].created \in issued \cup {None}
        /\ pc[r] \in {"cleanup", "create"} => job[r].user \in Users
        /\ pc[r] \in {"getToken", "getUser", "inactivate"} => job[r].presented \in issued
        /\ pc[r] \in {"inactivate", "respond"} => job[r].created \in issued

\* No row of t could be accepted, now or later.
Dead(t) == t \in DOMAIN rows => ~rows[t].active

\* What has been exchanged or logged out is dead, and so is what is about to be
\* reported as exchanged.
SpentInv ==
    /\ \A t \in spent : Dead(t)
    /\ \A r \in Requests : pc[r] = "respond" /\ job[r].presented # None
                              => Dead(job[r].presented)

TokenInv == TypeOK /\ JobInv /\ SpentInv /\ AcceptedUnspent

LEMMA NewJobType ==
    ASSUME NEW u \in Users \cup {None}, NEW t \in Tokens \cup {None}
    PROVE  /\ NewJob(u, t) \in Job
           /\ NewJob(u, t).presented = t /\ NewJob(u, t).created = None
           /\ NewJob(u, t).user = u /\ NewJob(u, t).unspent = TRUE
BY DEF NewJob, Job

LEMMA TokenInit == Init => TokenInv
<1> SUFFICES ASSUME Init PROVE TokenInv
  OBVIOUS
<1>1. NoJob \in Job /\ NoJob.presented = None /\ NoJob.created = None
  BY NewJobType DEF NoJob
<1>2. TypeOK
  BY <1>1, LifetimeAssumption DEF Init, TypeOK, RequestPC
<1>3. JobInv /\ SpentInv /\ AcceptedUnspent
  BY <1>1 DEF Init, JobInv, SpentInv, Dead, AcceptedUnspent, Exchanging
<1>4. QED
  BY <1>2, <1>3 DEF TokenInv

\* A request that goes somewhere with a job of its own disturbs no other.
LEMMA MoveStep ==
    ASSUME TokenInv, NEW r \in Requests, NEW l \in RequestPC, NEW new \in Job,
           Begin(r, l, new), UNCHANGED <<now, rows, history>>,
           new.presented \in issued \cup {None}, new.created \in issued \cup {None},
           l \in {"cleanup", "create"} => new.user \in Users,
           l \in {"getToken", "getUser", "inactivate"} => new.presented \in issued,
           l \notin {"inactivate", "respond"}, l \in Exchanging => new.unspent
    PROVE  TokenInv'
<1>1. /\ pc \in [Requests -> RequestPC] /\ job \in [Requests -> Job]
      /\ pc' = [pc EXCEPT ![r] = l] /\ job' = [job EXCEPT ![r] = new]
  BY DEF TokenInv, TypeOK, Begin, Goto
<1>2. TypeOK'
  BY <1>1 DEF TokenInv, TypeOK
<1>3. JobInv'
  BY <1>1 DEF TokenInv, JobInv
<1>4. SpentInv'
  BY <1>1 DEF TokenInv, SpentInv, Dead
<1>5. AcceptedUnspent'
  BY <1>1 DEF TokenInv, AcceptedUnspent
<1>6. QED
  BY <1>2, <1>3, <1>4, <1>5 DEF TokenInv

LEMMA EndStep ==
    ASSUME TokenInv, NEW r \in Requests, NEW l \in Resting, End(r, l),
           UNCHANGED <<now, rows, history>>
    PROVE  TokenInv'
<1>1. /\ NoJob \in Job /\ NoJob.presented = None /\ NoJob.created = None
  BY NewJobType DEF NoJob
<1>2. l \in RequestPC /\ l \notin Exchanging /\ l \notin {"getToken"}
  BY DEF Resting, RequestPC, Exchanging
<1>3. Begin(r, l, NoJob)
  BY DEF End, Begin
<1>4. QED
  BY <1>1, <1>2, <1>3, MoveStep DEF Exchanging

\* The rows may change under the requests, as long as no dead token revives.
LEMMA RowsStep ==
    ASSUME TokenInv, DOMAIN rows' \subseteq DOMAIN rows,
           \A t \in DOMAIN rows' : rows'[t] \in Row,
           \A t \in DOMAIN rows' : rows'[t].active => rows[t].active
    PROVE  /\ DOMAIN rows' \subseteq issued
           /\ \A t : Dead(t) => Dead(t)'
BY DEF TokenInv, TypeOK, Dead, Row

LEMMA DeactivateStep ==
    ASSUME TokenInv, NEW S, Deactivate(S)
    PROVE  /\ DOMAIN rows' = DOMAIN rows
           /\ \A t \in DOMAIN rows' : rows'[t] \in Row
           /\ \A t \in DOMAIN rows' : rows'[t].active => rows[t].active
           /\ \A t \in S : Dead(t)'
<1>1. \A t \in DOMAIN rows : rows[t] \in Row
  BY DEF TokenInv, TypeOK
<1>2. /\ DOMAIN rows' = DOMAIN rows
      /\ \A t \in DOMAIN rows :
            rows'[t] = IF t \in S THEN [rows[t] EXCEPT !.active = FALSE] ELSE rows[t]
  BY DEF Deactivate
<1>3. \A t \in DOMAIN rows : /\ [rows[t] EXCEPT !.active = FALSE] \in Row
                             /\ ~[rows[t] EXCEPT !.active = FALSE].active
  BY <1>1 DEF Row
<1>4. QED
  BY <1>1, <1>2, <1>3 DEF Dead

LEMMA StartStep == ASSUME TokenInv, NEW r \in Requests, Start(r) PROVE TokenInv'
<1>t. issued \subseteq Tokens
  BY DEF TokenInv, TypeOK
<1>1. ASSUME NEW u \in Users, SignIn(r, u) PROVE TokenInv'
  <2>1. Begin(r, "cleanup", NewJob(u, None)) /\ UNCHANGED <<now, rows, history>>
    BY <1>1 DEF SignIn
  <2> DEFINE new == NewJob(u, None)
  <2>2. /\ new \in Job /\ new.presented = None /\ new.created = None
        /\ new.user \in Users /\ new.unspent
    BY DEF NewJob, Job
  <2> HIDE DEF new
  <2>3. QED
    BY <2>1, <2>2, MoveStep DEF RequestPC, Exchanging, new
<1>2. ASSUME NEW u \in Users, Logout(r, u) PROVE TokenInv'
  <2>1. Begin(r, "inactivateAll", NewJob(u, None)) /\ UNCHANGED <<now, rows, history>>
    BY <1>2 DEF Logout
  <2> DEFINE new == NewJob(u, None)
  <2>2. /\ new \in Job /\ new.presented = None /\ new.created = None
        /\ new.user \in Users /\ new.unspent
    BY DEF NewJob, Job
  <2> HIDE DEF new
  <2>3. QED
    BY <2>1, <2>2, MoveStep DEF RequestPC, Exchanging, new
<1>3. ASSUME NEW t \in Tokens, Present(r, t) PROVE TokenInv'
  <2>1. Begin(r, "getToken", NewJob(None, t)) /\ UNCHANGED <<now, rows, history>>
    BY <1>3 DEF Present
  <2>2. t \in issued
    BY <1>3 DEF Present, TokenInv, TypeOK
  <2> DEFINE new == NewJob(None, t)
  <2>3. /\ new \in Job /\ new.presented = t /\ new.created = None
        /\ new.unspent
    BY <2>2, <1>t DEF NewJob, Job
  <2> HIDE DEF new
  <2>4. QED
    BY <2>1, <2>2, <2>3, MoveStep DEF RequestPC, Exchanging, new
<1>4. QED
  BY <1>1, <1>2, <1>3 DEF Start

LEMMA StatementStep == ASSUME TokenInv, NEW r \in Requests, Statement(r) PROVE TokenInv'
<1> DEFINE t == job[r].presented
<1>t. /\ pc \in [Requests -> RequestPC] /\ job \in [Requests -> Job]
      /\ job[r] \in Job /\ now \in Nat
      /\ job[r].presented \in issued \cup {None} /\ job[r].created \in issued \cup {None}
      /\ issued \subseteq Tokens
  BY DEF TokenInv, TypeOK, JobInv
<1>1. CASE GetToken(r)
  <2>1. CASE End(r, "failed") /\ UNCHANGED <<now, rows, history>>
    BY <2>1, EndStep DEF Resting
  <2>2. CASE Usable(t)
    <3> DEFINE new == [job[r] EXCEPT !.unspent = t \notin spent]
    <3>1. Begin(r, "getUser", new) \/ End(r, "failed")
      BY <1>1 DEF GetToken
    <3>2. /\ new \in Job /\ new.presented = t /\ new.created = job[r].created
          /\ new.unspent = (t \notin spent)
      BY <1>t DEF Job
    <3>3. t \notin spent
      BY <2>2 DEF Usable, TokenInv, SpentInv, Dead
    <3>4. t \in issued
      BY <1>1 DEF GetToken, TokenInv, JobInv
    <3>5. CASE Begin(r, "getUser", new)
      <4>1. new.unspent
        BY <3>2, <3>3
      <4> HIDE DEF new
      <4>2. UNCHANGED <<now, rows, history>> /\ "getUser" \in RequestPC
        BY <1>1 DEF GetToken, RequestPC, Exchanging
      <4>3. QED
        BY <1>t, <3>2, <3>4, <3>5, <4>1, <4>2, MoveStep
    <3>6. QED
      BY <1>1, <2>1, <3>1, <3>5 DEF GetToken
  <2>3. QED
    BY <1>1, <2>1, <2>2 DEF GetToken
<1>2. CASE GetUser(r)
  <2>1. CASE t \in DOMAIN rows
    <3> DEFINE new == [job[r] EXCEPT !.user = rows[t].user]
    <3>1. Begin(r, "cleanup", new)
      BY <1>2, <2>1 DEF GetUser
    <3>2. rows[t].user \in Users
      BY <2>1 DEF TokenInv, TypeOK, Row
    <3>3. /\ new \in Job /\ new.presented = t /\ new.created = job[r].created
          /\ new.unspent = job[r].unspent /\ new.user \in Users
      BY <1>t, <3>2 DEF Job
    <3>4. job[r].unspent
      BY <1>2 DEF GetUser, TokenInv, AcceptedUnspent, Exchanging
    <3> HIDE DEF new
    <3>5. UNCHANGED <<now, rows, history>> /\ "cleanup" \in RequestPC
      BY <1>2 DEF GetUser, RequestPC, Exchanging
    <3>6. QED
      BY <1>t, <3>1, <3>3, <3>4, <3>5, MoveStep
  <2>2. CASE t \notin DOMAIN rows
    BY <1>2, <2>2, EndStep DEF GetUser, Resting
  <2>3. QED
    BY <2>1, <2>2
<1>3. CASE Cleanup(r)
  <2>1. /\ pc' = [pc EXCEPT ![r] = "create"] /\ pc[r] = "cleanup"
        /\ UNCHANGED <<now, job, history>>
    BY <1>3 DEF Cleanup, Goto
  <2>2. /\ DOMAIN rows' \subseteq DOMAIN rows
        /\ \A x \in DOMAIN rows' : rows'[x] = rows[x]
    BY <1>3 DEF Cleanup
  <2>3. TypeOK'
    BY <2>1, <2>2 DEF TokenInv, TypeOK, RequestPC, Exchanging
  <2>4. JobInv'
    BY <1>t, <2>1 DEF TokenInv, JobInv
  <2>5. SpentInv'
    BY <1>t, <2>1, <2>2 DEF TokenInv, SpentInv, Dead
  <2>6. AcceptedUnspent'
    BY <1>t, <2>1 DEF TokenInv, AcceptedUnspent, Exchanging
  <2>7. QED
    BY <2>3, <2>4, <2>5, <2>6 DEF TokenInv
<1>4. CASE Create(r)
  <2>1. PICK n \in Tokens \ issued :
          /\ rows' = [x \in DOMAIN rows \cup {n} |->
                        IF x = n THEN [user |-> job[r].user, active |-> TRUE,
                                       expires |-> now + Lifetime]
                        ELSE rows[x]]
          /\ job' = [job EXCEPT ![r].created = n]
          /\ issued' = issued \cup {n}
    BY <1>4 DEF Create
  <2> DEFINE l == IF t = None THEN "respond" ELSE "inactivate"
  <2>2. /\ pc[r] = "create" /\ pc' = [pc EXCEPT ![r] = l]
        /\ UNCHANGED <<now, held, spent, uses>>
    BY <1>4 DEF Create, Goto
  <2>3. [user |-> job[r].user, active |-> TRUE, expires |-> now + Lifetime] \in Row
    BY <1>t, <2>2, LifetimeAssumption DEF TokenInv, JobInv, Row
  <2>4. /\ [job[r] EXCEPT !.created = n] \in Job
        /\ [job[r] EXCEPT !.created = n].presented = t
        /\ [job[r] EXCEPT !.created = n].created = n
        /\ [job[r] EXCEPT !.created = n].unspent = job[r].unspent
    BY <1>t DEF Job
  <2>5. job' = [job EXCEPT ![r] = [job[r] EXCEPT !.created = n]]
    BY <2>1
  <2>6. TypeOK'
    <3>1. DOMAIN rows' \subseteq issued' /\ \A x \in DOMAIN rows' : rows'[x] \in Row
      BY <2>1, <2>3 DEF TokenInv, TypeOK
    <3>2. pc' \in [Requests -> RequestPC] /\ job' \in [Requests -> Job]
      BY <1>t, <2>2, <2>4, <2>5 DEF RequestPC, Exchanging
    <3>3. QED
      BY <2>1, <2>2, <3>1, <3>2 DEF TokenInv, TypeOK
  <2>7. JobInv'
    BY <1>t, <2>1, <2>2, <2>4, <2>5 DEF TokenInv, JobInv
  <2>8. n \notin spent
    BY <2>1 DEF TokenInv, TypeOK
  <2>9. SpentInv'
    <3>1. \A x \in issued : Dead(x) => Dead(x)'
      BY <2>1 DEF Dead
    <3>2. \A x \in spent' : Dead(x)'
      BY <2>2, <3>1 DEF TokenInv, TypeOK, SpentInv
    <3>3. ASSUME NEW q \in Requests, pc'[q] = "respond", job'[q].presented # None
          PROVE  Dead(job[q].presented)'
      <4>1. q # r
        BY <1>t, <2>2, <2>4, <2>5, <3>3
      <4>2. pc[q] = "respond" /\ job'[q].presented = job[q].presented
        BY <1>t, <2>2, <2>5, <3>3, <4>1
      <4>3. job[q].presented \in issued
        BY <3>3, <4>2 DEF TokenInv, JobInv
      <4>4. Dead(job[q].presented)
        BY <3>3, <4>2 DEF TokenInv, SpentInv
      <4>5. QED
        BY <2>1, <4>2, <4>3, <4>4 DEF Dead
    <3>4. QED
      BY <3>2, <3>3 DEF SpentInv
  <2>10. AcceptedUnspent'
    BY <1>t, <2>2, <2>4, <2>5 DEF TokenInv, AcceptedUnspent, Exchanging
  <2>11. QED
    BY <2>6, <2>7, <2>9, <2>10 DEF TokenInv
<1>5. CASE Inactivate(r)
  <2>1. CASE t \notin DOMAIN rows
    BY <1>5, <2>1, EndStep DEF Inactivate, Resting
  <2>2. CASE t \in DOMAIN rows
    <3>1. /\ Deactivate({t}) /\ pc[r] = "inactivate" /\ pc' = [pc EXCEPT ![r] = "respond"]
          /\ UNCHANGED <<now, job, history>>
      BY <1>5, <2>2 DEF Inactivate, Rotated, Goto
    <3>2. TypeOK'
      BY <1>t, <3>1, DeactivateStep DEF TokenInv, TypeOK, RequestPC, Exchanging
    <3>3. JobInv'
      <4>1. job[r].created \in issued
        BY <1>5 DEF Inactivate, TokenInv, JobInv
      <4>2. QED
        BY <1>t, <3>1, <4>1 DEF TokenInv, JobInv
    <3>4. \A x : Dead(x) => Dead(x)'
      BY <3>1, DeactivateStep DEF Dead
    <3>5. SpentInv'
      BY <1>t, <3>1, <3>4, DeactivateStep DEF TokenInv, SpentInv
    <3>6. AcceptedUnspent'
      BY <1>t, <3>1 DEF TokenInv, AcceptedUnspent, Exchanging
    <3>7. QED
      BY <3>2, <3>3, <3>5, <3>6 DEF TokenInv
  <2>3. QED
    BY <2>1, <2>2
<1>6. CASE Respond(r)
  <2>1. /\ pc[r] = "respond" /\ pc' = [pc EXCEPT ![r] = "idle"]
        /\ job' = [job EXCEPT ![r] = NoJob] /\ held' = held \cup {job[r].created}
        /\ UNCHANGED <<now, rows, issued>>
    BY <1>6 DEF Respond, End, Goto
  <2>2. /\ spent' \subseteq spent \cup ({t} \ {None})
        /\ uses' \in [Tokens -> Nat]
    BY <1>6, <1>t DEF Respond, TokenInv, TypeOK
  <2>3. NoJob \in Job /\ NoJob.presented = None /\ NoJob.created = None
    BY NewJobType DEF NoJob
  <2>4. TypeOK'
    <3>1. job[r].created \in issued
      BY <2>1 DEF TokenInv, JobInv
    <3>2. QED
      BY <1>t, <2>1, <2>2, <2>3, <3>1 DEF TokenInv, TypeOK, RequestPC
  <2>5. JobInv'
    BY <1>t, <2>1, <2>3 DEF TokenInv, JobInv
  <2>6. \A x : Dead(x) => Dead(x)'
    BY <2>1 DEF Dead
  <2>7. SpentInv'
    BY <1>t, <2>1, <2>2, <2>3, <2>6 DEF TokenInv, SpentInv
  <2>8. AcceptedUnspent'
    BY <1>t, <2>1 DEF TokenInv, AcceptedUnspent, Exchanging
  <2>9. QED
    BY <2>4, <2>5, <2>7, <2>8 DEF TokenInv
<1>7. CASE InactivateAll(r)
  <2> DEFINE S == OwnedBy(job[r].user)
  <2>1. /\ Deactivate(S) /\ pc' = [pc EXCEPT ![r] = "idle"]
        /\ job' = [job EXCEPT ![r] = NoJob] /\ spent' = spent \cup S
        /\ UNCHANGED <<now, issued, held, uses>>
    BY <1>7 DEF InactivateAll, End, Goto
  <2>2. S \subseteq issued
    BY DEF OwnedBy, TokenInv, TypeOK
  <2>3. NoJob \in Job /\ NoJob.presented = None /\ NoJob.created = None
    BY NewJobType DEF NoJob
  <2> HIDE DEF S
  <2>4. TypeOK'
    BY <1>t, <2>1, <2>2, <2>3, DeactivateStep DEF TokenInv, TypeOK, RequestPC
  <2>5. JobInv'
    BY <1>t, <2>1, <2>3 DEF TokenInv, JobInv
  <2>6. \A x : Dead(x) => Dead(x)'
    BY <2>1, DeactivateStep DEF Dead
  <2>7. SpentInv'
    BY <1>t, <2>1, <2>3, <2>6, DeactivateStep DEF TokenInv, SpentInv
  <2>8. AcceptedUnspent'
    BY <1>t, <2>1 DEF TokenInv, AcceptedUnspent, Exchanging
  <2>9. QED
    BY <2>4, <2>5, <2>7, <2>8 DEF TokenInv
<1>8. QED
  BY <1>1, <1>2, <1>3, <1>4, <1>5, <1>6, <1>7 DEF Statement

LEMMA TokenStep == TokenInv /\ [Next]_vars => TokenInv'
<1> SUFFICES ASSUME TokenInv, [Next]_vars PROVE TokenInv'
  OBVIOUS
<1>1. ASSUME NEW r \in Requests, Start(r) \/ Statement(r) PROVE TokenInv'
  BY <1>1, StartStep, StatementStep
<1>2. ASSUME NEW r \in Requests, Fail(r) PROVE TokenInv'
  BY <1>2, EndStep DEF Fail, Resting
<1>3. ASSUME NEW r \in Requests, Vanish(r) PROVE TokenInv'
  BY <1>3, EndStep DEF Vanish, Resting
<1>4. CASE Tick
  BY <1>4, LifetimeAssumption DEF Tick, TokenInv, TypeOK, JobInv, SpentInv, Dead, AcceptedUnspent
<1>5. CASE UNCHANGED vars
  BY <1>5 DEF vars, TokenInv, TypeOK, JobInv, SpentInv, Dead, AcceptedUnspent
<1>6. QED
  BY <1>1, <1>2, <1>3, <1>4, <1>5 DEF Next

LEMMA TokenInvariant == Spec => []TokenInv
BY TokenInit, TokenStep, PTL DEF Spec

\* Every variable keeps its type, for every pool of requests, users and tokens.
THEOREM TokenTypesCorrect == Spec => []TypeOK
<1>1. TokenInv => TypeOK
  BY DEF TokenInv
<1>2. QED
  BY <1>1, TokenInvariant, PTL

\* No request ever passes the look-up (GetUserByRefreshToken) with a token that
\* an earlier answered refresh had exchanged or a logout had taken.
THEOREM AcceptedUnspentHolds == Spec => []AcceptedUnspent
<1>1. TokenInv => AcceptedUnspent
  BY DEF TokenInv
<1>2. QED
  BY <1>1, TokenInvariant, PTL

------------------------------------------------------------------------------
(* An action property: who may take a token away.                            *)

\* A row that is left alone stays usable as long as the clock stands still.
LEMMA UntouchedStep ==
    ASSUME now' = now, NEW t \in DOMAIN rows, Usable(t),
           t \in DOMAIN rows', rows'[t] = rows[t]
    PROVE  Usable(t)'
BY DEF Usable

LEMMA TakenStep ==
    ASSUME TokenInv, [Next]_vars, now' = now, NEW t \in DOMAIN rows,
           Usable(t), ~Usable(t)'
    PROVE  \E r \in Requests : t \in Taken(r)
<1> DEFINE Goal == \E r \in Requests : t \in Taken(r)
<1>0. ~(t \in DOMAIN rows' /\ rows'[t] = rows[t])
  BY UntouchedStep
<1>1. CASE UNCHANGED rows
  BY <1>0, <1>1
<1>2. ASSUME NEW r \in Requests, NEW S, Deactivate(S), S \subseteq Taken(r) PROVE Goal
  <2>1. t \in S
    BY <1>0, <1>2 DEF Deactivate
  <2>2. QED
    BY <1>2, <2>1
<1>3. ASSUME NEW r \in Requests, Statement(r) PROVE Goal
  <2>1. CASE GetToken(r) \/ GetUser(r) \/ Respond(r)
    BY <1>1, <2>1 DEF GetToken, GetUser, Respond
  <2>2. CASE Cleanup(r)
    <3>1. ~Removable(t)
      BY DEF Usable, Removable, TokenInv, TypeOK, Row
    <3>2. QED
      BY <1>0, <1>1, <2>2, <3>1 DEF Cleanup
  <2>3. CASE Create(r)
    <3>1. t \in issued
      BY DEF TokenInv, TypeOK
    <3>2. QED
      BY <1>0, <2>3, <3>1 DEF Create
  <2>4. CASE Inactivate(r)
    <3>1. Rotated(r) \subseteq Taken(r)
      BY <2>4 DEF Inactivate, Rotated, Taken
    <3>2. QED
      BY <1>1, <1>2, <2>4, <3>1 DEF Inactivate
  <2>5. CASE InactivateAll(r)
    <3>1. OwnedBy(job[r].user) \subseteq Taken(r)
      BY <2>5 DEF InactivateAll, Taken
    <3>2. QED
      BY <1>2, <2>5, <3>1 DEF InactivateAll
  <2>6. QED
    BY <1>3, <2>1, <2>2, <2>3, <2>4, <2>5 DEF Statement
<1>4. ASSUME NEW r \in Requests, Start(r) \/ Fail(r) \/ Vanish(r) PROVE Goal
  BY <1>1, <1>4 DEF Start, SignIn, Logout, Present, Fail, Vanish
<1>5. CASE Tick \/ UNCHANGED vars
  BY <1>1, <1>5 DEF Tick, vars
<1>6. QED
  BY <1>3, <1>4, <1>5 DEF Next

\* Only the exchange of a token, its owner's logout or its date takes a usable
\* token away; the cleanup that any user's refresh runs over the whole table
\* takes none (queries.sql, DeleteExpiredRefreshTokens).
THEOREM CleanupTakesNothingHolds == Spec => CleanupTakesNothing
<1>1. TokenInv /\ [Next]_vars =>
        [now' = now => \A t \in DOMAIN rows :
            Usable(t) /\ ~Usable(t)' => \E r \in Requests : t \in Taken(r)]_vars
  BY TakenStep
<1>2. QED
  BY <1>1, TokenInvariant, PTL DEF Spec, CleanupTakesNothing
==============================================================================

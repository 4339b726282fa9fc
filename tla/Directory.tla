------------------------------ MODULE Directory ------------------------------
(***************************************************************************)
(* Who gets a row in table users, and what name it carries: the sync that  *)
(* seeds profiles from the form's spreadsheet when the process starts      *)
(* (internal/directory, cmd/backend/main.go), the first sign-in            *)
(* (auth.CallbackHandler, user.FindOrCreateByEmail) and the edits people   *)
(* make to their own profile (user.UpdateMeHandler).                       *)
(*                                                                         *)
(* Data.  An address is a person and a spelling, lower case or not.  The   *)
(* spreadsheet holds its data rows, in the order they were answered.  The  *)
(* column email is UNIQUE, so users is a function from addresses, exactly  *)
(* as spelled, to names; an address stands for the row's ID.  Nickname and *)
(* department travel with the name and are left out.                       *)
(***************************************************************************)
EXTENDS Integers, FiniteSets, SequencesExt

CONSTANTS
    People, Names, Requests,
    NoAddress, Blank, TooLong,   \* answers the form lets through
    None,
    Answers,         \* the rows people may add to the spreadsheet
    GoogleName,      \* the display name Google gives
    GoogleLowers,    \* does Google give a person's address in lower case?
    OtherInstance,   \* may another instance serve while this one starts?
    MaxRows, MaxChanges, MaxRestarts    \* bounds of the model

Address == [who: People, lower: BOOLEAN]
Cell == Names \cup {Blank, TooLong}
Row == [address: Address \cup {NoAddress}, name: Cell, nickname: Cell]

ASSUME DirectoryAssumption ==
    /\ Answers \subseteq Row /\ GoogleName \in Names
    /\ {GoogleLowers, OtherInstance} \subseteq BOOLEAN
    /\ {MaxRows, MaxChanges, MaxRestarts} \subseteq Nat
    /\ None \notin Address \cup Names
    /\ NoAddress \notin Address
    /\ Cardinality({Blank, TooLong}) = 2 /\ {Blank, TooLong} \cap Names = {}

VARIABLES
    sheet,            \* the spreadsheet's rows
    list,             \* the people on the login group
    users,            \* table users: address -> name
    phase,            \* where the process is
    rows, members, entries, report,   \* locals of seed
    pc, who,          \* sign-in requests: where each is, and whose
    session,          \* per person, the row the tokens it holds are for
    \* History, read by no guard: the name each person last chose; who has been
    \* on the list; whether the sheet and the list are as the last sync that ran
    \* to its end found them (settled), and were so since this one began (repeat).
    chosen, everListed, settled, repeat,
    changes, restarts

google   == <<sheet, list, everListed, changes>>
locals   == <<rows, members, entries, report>>
requests == <<pc, who>>
vars == <<google, users, phase, locals, requests, session, chosen,
          settled, repeat, restarts>>

Lower(a) == [a EXCEPT !.lower = TRUE]
SameAddress(a, b) == Lower(a) = Lower(b)
GoogleAddress(p) == [who |-> p, lower |-> GoogleLowers]

EmptyReport == [read |-> 0, invalid |-> 0, duplicate |-> 0,
                notOnLoginGroup |-> 0, seeded |-> 0, skipped |-> 0]

Init ==
    /\ sheet = <<>> /\ list \in SUBSET People /\ everListed = list /\ changes = 0
    /\ users = [a \in {} |-> None]
    /\ phase = "down" /\ restarts = 0
    /\ rows = <<>> /\ members = {} /\ entries = <<>> /\ report = EmptyReport
    /\ pc = [r \in Requests |-> "idle"] /\ who \in [Requests -> {None}]
    /\ session = [p \in People |-> None] /\ chosen = [p \in People |-> None]
    /\ settled = FALSE /\ repeat = FALSE

------------------------------------------------------------------------------
(* The rows of the spreadsheet. *)

UnusableButForName(row) ==
    \/ row.address = NoAddress
    \/ TooLong \in {row.name, row.nickname}
Unusable(row) ==
    \/ row.address = NoAddress
    \/ row.name = Blank
    \/ TooLong \in {row.name, row.nickname}

EntryOf(row) == [email |-> Lower(row.address), name |-> row.name]

KeepEarlier(es, i, e) == es
Supersede(es, i, e) == [es EXCEPT ![i] = e]

TakeUncounted(acc, row) ==
    LET e == EntryOf(row)
        same == {i \in DOMAIN acc.entries : acc.entries[i].email = e.email}
    IN  IF Unusable(row) THEN [acc EXCEPT !.invalid = @ + 1]
        ELSE IF same = {} THEN [acc EXCEPT !.entries = Append(@, e)]
        ELSE [acc EXCEPT !.entries = Supersede(@, CHOOSE i \in same : TRUE, e)]

\* One row.  A repeated address keeps its place and takes the later answer.
Take(acc, row) ==
    LET e == EntryOf(row)
        same == {i \in DOMAIN acc.entries : acc.entries[i].email = e.email}
    IN  IF Unusable(row) THEN [acc EXCEPT !.invalid = @ + 1]
        ELSE IF same = {} THEN [acc EXCEPT !.entries = Append(@, e)]
        ELSE [acc EXCEPT !.entries = Supersede(@, CHOOSE i \in same : TRUE, e),
                         !.duplicate = @ + 1]

\* parsed[n] is what the loop has after n rows.
ParseRows(rs) ==
    LET parsed[n \in 0..Len(rs)] ==
            IF n = 0 THEN [entries |-> <<>>, duplicate |-> 0, invalid |-> 0]
            ELSE Take(parsed[n - 1], rs[n])
    IN  parsed[Len(rs)]

------------------------------------------------------------------------------
(* The sync, before the process serves. *)

Syncing == {"read", "list", "seed"}
Serving == phase = "serving" \/ OtherInstance

Forget == rows' = <<>> /\ members' = {} /\ entries' = <<>> /\ report' = EmptyReport

Start ==
    /\ phase = "down"
    /\ phase' = "read"
    /\ repeat' = settled
    /\ UNCHANGED <<google, users, locals, requests, session, chosen, settled, restarts>>

\* The addresses of the login group's members, lowered.
Listed == {[who |-> p, lower |-> TRUE] : p \in list}

ReadSheet ==
    /\ phase = "read"
    /\ phase' = "list" /\ rows' = sheet
    /\ UNCHANGED <<google, users, members, entries, report, requests, session,
                   chosen, settled, repeat, restarts>>

\* The list is read before anything is written.
ListMembers ==
    /\ phase = "list"
    /\ phase' = "seed"
    /\ members' = Listed
    /\ LET parsed == ParseRows(rows) IN
          /\ entries' = parsed.entries
          /\ report' = [EmptyReport EXCEPT !.read = Len(rows),
                                           !.invalid = parsed.invalid,
                                           !.duplicate = parsed.duplicate]
    /\ UNCHANGED <<google, users, rows, requests, session, chosen, settled, repeat, restarts>>

OnLoginGroupOrNot(e) == TRUE
OnLoginGroup(e) == e.email \in members

Pass == /\ phase = "seed" /\ entries # <<>> /\ ~OnLoginGroup(Head(entries))
        /\ entries' = Tail(entries)
        /\ report' = [report EXCEPT !.notOnLoginGroup = @ + 1]
        /\ UNCHANGED <<google, users, phase, rows, members, requests, session,
                       chosen, settled, repeat, restarts>>

Insert(a, n) == users' = [x \in DOMAIN users \cup {a} |->
                             IF x = a THEN n ELSE users[x]]

SeedEmptyTable(e) ==
    \/ DOMAIN users = {} /\ Insert(e.email, e.name)
    \/ DOMAIN users # {} /\ users' = users
\* INSERT ... ON CONFLICT (email) DO NOTHING compares email exactly.
SeedOverwriting(e) == Insert(e.email, e.name)
SeedProfile(e) ==
    \/ e.email \notin DOMAIN users /\ Insert(e.email, e.name)
    \/ e.email \in DOMAIN users /\ users' = users

SeededUnlessError(e) == TRUE
\* RowsAffected > 0.
Seeded(e) == e.email \notin DOMAIN users

Seed == /\ phase = "seed" /\ entries # <<>> /\ OnLoginGroup(Head(entries))
        /\ SeedProfile(Head(entries))
        /\ entries' = Tail(entries)
        /\ report' = IF Seeded(Head(entries))
                     THEN [report EXCEPT !.seeded = @ + 1]
                     ELSE [report EXCEPT !.skipped = @ + 1]
        /\ UNCHANGED <<google, phase, rows, members, requests, session, chosen,
                       settled, repeat, restarts>>

Finish ==
    /\ phase = "seed" /\ entries = <<>>
    /\ phase' = "serving" /\ Forget /\ repeat' = FALSE
    /\ settled' = (rows = sheet /\ members = Listed)
    /\ UNCHANGED <<google, users, requests, session, chosen, restarts>>

\* A read fails, or an insert does, after or before it took effect; or the
\* sync's 30 seconds are over.  main logs the error and goes on to serve.
SyncFails ==
    /\ phase \in Syncing /\ phase' = "serving"
    /\ Forget /\ repeat' = FALSE
    /\ \/ users' = users
       \/ /\ phase = "seed" /\ entries # <<>> /\ OnLoginGroup(Head(entries))
          /\ SeedProfile(Head(entries))
    /\ UNCHANGED <<google, requests, session, chosen, settled, restarts>>

SyncStep == Start \/ ReadSheet \/ ListMembers \/ Pass \/ Seed \/ Finish \/ SyncFails

\* The process dies; another instance's requests live on.
Crash ==
    /\ phase # "down" /\ restarts < MaxRestarts
    /\ phase' = "down" /\ restarts' = restarts + 1 /\ Forget /\ repeat' = FALSE
    /\ \/ OtherInstance /\ UNCHANGED requests
       \/ ~OtherInstance /\ pc' = [r \in Requests |-> "idle"]
                         /\ who' = [r \in Requests |-> None]
    /\ UNCHANGED <<google, users, session, chosen, settled>>

------------------------------------------------------------------------------
(* Requests. *)

\* Google vouches for the address, and the login group has it.
PassGate(r, p) ==
    /\ Serving /\ pc[r] = "idle" /\ p \in list
    /\ pc' = [pc EXCEPT ![r] = "find"] /\ who' = [who EXCEPT ![r] = p]
    /\ UNCHANGED <<google, users, phase, locals, session, chosen, settled, repeat, restarts>>

Leave(r) == pc' = [pc EXCEPT ![r] = "idle"] /\ who' = [who EXCEPT ![r] = None]

Matching(a) == {x \in DOMAIN users : SameAddress(x, a)}

\* GetByEmail compares lower(email), and of several rows returns any.
Find(r) ==
    /\ pc[r] = "find"
    /\ \/ \E a \in Matching(GoogleAddress(who[r])) :
             /\ session' = [session EXCEPT ![who[r]] = a]
             /\ Leave(r)
       \/ /\ Matching(GoogleAddress(who[r])) = {}
          /\ pc' = [pc EXCEPT ![r] = "create"]
          /\ UNCHANGED <<session, who>>
    /\ UNCHANGED <<google, users, phase, locals, chosen, settled,
                   repeat, restarts>>

\* The name is Google's.
Create(r) == LET a == GoogleAddress(who[r]) IN
    /\ pc[r] = "create" /\ a \notin DOMAIN users
    /\ Insert(a, GoogleName)
    /\ session' = [session EXCEPT ![who[r]] = a]
    /\ Leave(r)
    /\ UNCHANGED <<google, phase, locals, chosen, settled,
                   repeat, restarts>>

\* A statement fails (an insert that meets the row somebody else just made
\* always does), or its answer is lost.
SignInFails(r) ==
    /\ pc[r] # "idle" /\ Leave(r)
    /\ \/ users' = users
       \/ /\ pc[r] = "create" /\ GoogleAddress(who[r]) \notin DOMAIN users
          /\ Insert(GoogleAddress(who[r]), GoogleName)
    /\ UNCHANGED <<google, phase, locals, session, chosen, settled, repeat, restarts>>

\* UpdateMeHandler writes the row the caller's token names.
UpdateMe(p) ==
    /\ Serving /\ session[p] # None
    /\ \E n \in Names : /\ users' = [users EXCEPT ![session[p]] = n]
                        /\ chosen' = [chosen EXCEPT ![p] = n]
    /\ UNCHANGED <<google, phase, locals, requests, session, settled,
                   repeat, restarts>>

------------------------------------------------------------------------------
(* Google: somebody answers the form; somebody joins or leaves the club. *)

Submit ==
    /\ Len(sheet) < MaxRows
    /\ \E row \in Answers : sheet' = Append(sheet, row)
    /\ settled' = FALSE /\ repeat' = FALSE
    /\ UNCHANGED <<list, everListed, changes, users, phase, locals, requests,
                   session, chosen, restarts>>

ChangeList(p) ==
    /\ changes < MaxChanges /\ changes' = changes + 1
    /\ list' = IF p \in list THEN list \ {p} ELSE list \cup {p}
    /\ everListed' = everListed \cup list'
    /\ settled' = FALSE /\ repeat' = FALSE
    /\ UNCHANGED <<sheet, users, phase, locals, requests, session, chosen, restarts>>

Next ==
    \/ SyncStep \/ Crash
    \/ \E r \in Requests : Find(r) \/ Create(r) \/ SignInFails(r)
    \/ \E r \in Requests, p \in People : PassGate(r, p)
    \/ \E p \in People : UpdateMe(p) \/ ChangeList(p)
    \/ Submit

Spec == Init /\ [][Next]_vars

------------------------------------------------------------------------------
(* Properties. *)

\* Every variable keeps its type; in particular a usable entry has a name.
TypeOK ==
    /\ sheet \in Seq(Answers) /\ rows \in Seq(Answers)
    /\ list \subseteq People /\ everListed \subseteq People
    /\ DOMAIN users \subseteq Address /\ \A a \in DOMAIN users : users[a] \in Names
    /\ phase \in {"down", "serving"} \cup Syncing
    /\ members \subseteq Address
    /\ entries \in Seq([email: Address, name: Names])
    /\ report \in [DOMAIN EmptyReport -> Nat]
    /\ pc \in [Requests -> {"idle", "find", "create"}]
    /\ who \in [Requests -> People \cup {None}]
    /\ session \in [People -> DOMAIN users \cup {None}]
    /\ chosen \in [People -> Names \cup {None}]
    /\ {settled, repeat} \subseteq BOOLEAN
    /\ changes \in 0..MaxChanges /\ restarts \in 0..MaxRestarts

\* Nobody has two rows: the sync creates rows "for people who do not have one
\* yet" (directory.go, package comment).  It does so for people Google writes
\* in lower case; see the run directory_spelling for the others.
OneRowPerPerson ==
    \A a, b \in DOMAIN users : a.who = b.who => a = b

\* The row a person is signed in to carries the name they last chose for
\* themselves: no sync and no later sign-in puts another in its place
\* (user/service.go, FindOrCreateByEmail and SeedProfile).
ChosenNameKept ==
    \A p \in People : session[p] # None /\ chosen[p] # None
                          => users[session[p]] = chosen[p]

\* Only people who have been on the login group have rows: neither an applicant
\* on the sheet nor a failed read of the list lets a stranger in
\* (directory.go, seed).
NoStrangerHasRow == \A a \in DOMAIN users : a.who \in everListed

Usable == {i \in DOMAIN rows : ~Unusable(rows[i])}
Latest == {i \in Usable : \A j \in Usable : j > i =>
                              ~SameAddress(rows[i].address, rows[j].address)}
\* What is left to seed are the last usable answers, each once, of the people
\* who have not been dealt with (directory.go, parseRows).
LastAnswerWins ==
    phase = "seed" =>
        LET latest == {EntryOf(rows[i]) : i \in Latest} IN
        /\ ToSet(entries) \subseteq latest
        /\ Cardinality(ToSet(entries)) = Len(entries)
        /\ Cardinality(latest) = Len(entries) + report.notOnLoginGroup
                                 + report.seeded + report.skipped

\* A sync that comes to its end has accounted for every row it read, and what it
\* counts as invalid, superseded and not on the list is so (directory.go,
\* Report).
ReportAccountsForRows ==
    phase = "seed" /\ entries = <<>> =>
        /\ report.read = report.invalid + report.duplicate + report.notOnLoginGroup
                         + report.seeded + report.skipped
        /\ report.invalid = Cardinality(DOMAIN rows \ Usable)
        /\ report.duplicate = Cardinality(Usable \ Latest)
        /\ report.notOnLoginGroup =
              Cardinality({i \in Latest : Lower(rows[i].address) \notin members})

\* When a sync comes to its end, everybody it found on the list who had answered
\* the form usably has a row (directory.go, SyncOnce).
SyncCoversMembers ==
    phase = "seed" /\ entries = <<>> =>
        \A i \in Usable : Lower(rows[i].address) \in members =>
                              Matching(rows[i].address) # {}

\* A restart with the same sheet and the same list creates nothing, however
\* many requests and crashes came between (directory.go, SyncOnce: "a restart
\* costs one read and changes nothing").
RestartSeedsNothing == repeat => report.seeded = 0
==============================================================================

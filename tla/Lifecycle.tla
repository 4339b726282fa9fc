------------------------------ MODULE Lifecycle ------------------------------
(***************************************************************************)
(* The process, from main's first line to its last, and again after a      *)
(* restart: configuration, migrations, services, the one-off directory     *)
(* sync, serving, and the shutdown a signal starts.                        *)
(*                                                                         *)
(* What a request does is reduced to what the shutdown can cut it off      *)
(* from: some statements, one after the other, each holding a connection   *)
(* of the database pool while it runs, and an answer that may carry a      *)
(* token.                                                                  *)
(***************************************************************************)
EXTENDS ConfigLayers, SheetColumns, OrgChart

CONSTANTS
    Deployments,    \* what operators and committers may have set up
    Letters,        \* the text of a column setting, as SheetColumns reads it
    Requests,
    MaxStatements,  \* bounds the statements of a request
    MaxBoots        \* bounds the times the process is started

ASSUME LifecycleAssumption ==
    /\ MaxStatements \in Nat /\ MaxBoots \in Nat \ {0}
    /\ Letters \in [DOMAIN Letters -> Seq(0..26)]
    /\ \A d \in Deployments :
          /\ \A s \in {d.file, d.dotenv, d.flags} : /\ s.state \in {"ok", "missing", "malformed"}
                                                    /\ DOMAIN s.says \subseteq Fields
          /\ DOMAIN d.environ \subseteq Fields
          /\ d.migrations \in {"applied", "none", "failing"}
          /\ d.port \in {"free", "taken"} /\ IsChart(d.chart)
          /\ \A f \in {"email_column", "name_column", "nickname_column"} :
                Effective(d, f) \in DOMAIN Letters

VARIABLES
    deployment,  \* the one this process is started from
    pc,          \* how far main has come, or how the process ended
    cfg,         \* the merged configuration
    secret,      \* what access tokens are signed with
    directory,   \* "off", "on", or "broken": the directory sync
    forced,      \* whether Shutdown ran into its deadline
    req,         \* each request
    issued,      \* the tokens ever answered: what signed them, and in which boot
    boots

vars == <<deployment, pc, cfg, secret, directory, forced, req, issued, boots>>
config == <<deployment, cfg, secret, directory>>
rest == <<forced, req, issued, boots>>

NoRequest == [pc |-> "none", left |-> 0]
NoSecret == [text |-> "", boot |-> 0]

Init ==
    /\ deployment \in Deployments
    /\ pc = "load" /\ cfg = NoSettings /\ secret = NoSecret /\ directory = "off"
    /\ forced = FALSE /\ req = [r \in Requests |-> NoRequest]
    /\ issued = {} /\ boots = 1

------------------------------------------------------------------------------
(* Startup. *)

LoadConfig ==
    /\ pc = "load"
    /\ IF LoadOutcome(deployment) = "loaded"
       THEN pc' = "validate" /\ cfg' = Load(deployment)
       ELSE pc' = LoadOutcome(deployment) /\ cfg' = cfg
    /\ UNCHANGED <<deployment, secret, directory>> /\ UNCHANGED rest

SecretKept == [text |-> cfg["secret"], boot |-> 0]

\* Outside debug mode nothing is signed with the published default.
Secret == IF cfg["secret"] = DefaultSecret /\ cfg["debug"] = ""
          THEN [text |-> "", boot |-> boots] ELSE SecretKept

Validate ==
    /\ pc = "validate"
    /\ pc' = IF cfg["database_url"] = "" THEN "fatal" ELSE "migrate"
    /\ secret' = IF cfg["database_url"] = "" THEN secret ELSE Secret
    /\ UNCHANGED <<deployment, cfg, directory>> /\ UNCHANGED rest

\* Having no migrations at all is let pass.
MigrationUp ==
    /\ pc = "migrate"
    /\ pc' = IF deployment.migrations = "failing" THEN "fatal" ELSE "pool"
    /\ UNCHANGED config /\ UNCHANGED rest

\* The pool connects when first used; only its URL can be wrong here.
initDatabasePool ==
    /\ pc = "pool"
    /\ pc' = IF cfg["database_url"] = "malformed" THEN "fatal" ELSE "group"
    /\ UNCHANGED config /\ UNCHANGED rest

KeyWorks(key) == key = "a service account"

\* googlegroup.NewService: without a key it starts, and refuses every call.
GroupServiceStarts(c) ==
    /\ c["cache_ttl"] # "not a duration"
    /\ c["service_account_key"] # "" =>
          KeyWorks(c["service_account_key"]) /\ c["impersonate_subject"] # ""

NewGroupService ==
    /\ pc = "group"
    /\ pc' = IF GroupServiceStarts(cfg) THEN "chart" ELSE "fatal"
    /\ UNCHANGED config /\ UNCHANGED rest

LoadOrgChart ==
    /\ pc = "chart"
    /\ pc' = IF LoadChart(deployment.chart).error THEN "fatal" ELSE "directory"
    /\ UNCHANGED config /\ UNCHANGED rest

ColumnFields == {"email_column", "name_column", "nickname_column"}
Column(c, f) == columnIndex(Letters[c[f]])

\* directory.NewService.
DirectoryService(c) ==
    IF c["spreadsheet_id"] = "" THEN "off"
    ELSE IF c["sheet_name"] = "" \/ \E f \in ColumnFields : ~IsColumn(Letters[c[f]]) THEN "broken"
    ELSE IF c["service_account_key"] = "" \/ c["login_group"] = "" THEN "off"
    ELSE IF KeyWorks(c["service_account_key"]) THEN "on" ELSE "broken"

\* A directory service that cannot be made is only warned of.
NewDirectoryService ==
    /\ pc = "directory"
    /\ directory' = DirectoryService(cfg)
    /\ pc' = IF directory' = "on" THEN "sheetToken" ELSE "listen"
    /\ UNCHANGED <<deployment, cfg, secret>> /\ UNCHANGED rest

AfterSyncOrFatal(outcome) == IF outcome = "failed" THEN "fatal" ELSE "listen"
AfterSync(outcome) == "listen"

\* The sync reads the sheet, then seeds from the login group's list; for either
\* its client first exchanges the service account's key for a token.
Syncing == {"sheetToken", "sheet", "groupToken", "seed"}
Exchanging == {"sheetToken", "groupToken"}
AfterPhase == [sheetToken |-> "sheet", sheet |-> "groupToken", groupToken |-> "seed",
               seed |-> AfterSync("complete")]

\* SyncOnce goes on when Google and the database have answered, if they do, and
\* ends at the first error.
SyncOnce ==
    /\ pc \in Syncing /\ pc' \in {AfterPhase[pc], AfterSync("failed")}
    /\ UNCHANGED config /\ UNCHANGED rest

SyncNeverTimesOut == FALSE
\* The context it runs under ends, which ends its requests, and not an exchange:
\* both clients are built on a context of their own, which never ends.
SyncTimesOut ==
    /\ pc \in Syncing \ Exchanging /\ pc' = AfterSync("failed")
    /\ UNCHANGED config /\ UNCHANGED rest

\* Signals are caught from here on; a port that is taken ends the process.
Listen ==
    /\ pc = "listen"
    /\ pc' = IF deployment.port = "free" THEN "serving" ELSE "fatal"
    /\ UNCHANGED config /\ UNCHANGED rest

Startup ==
    \/ LoadConfig \/ Validate \/ MigrationUp \/ initDatabasePool \/ NewGroupService
    \/ LoadOrgChart \/ NewDirectoryService \/ SyncTimesOut \/ Listen

------------------------------------------------------------------------------
(* Requests. *)

Alive == pc \in {"serving", "draining", "closing"}
Running == {r \in Requests : req[r].pc \in {"running", "query"}}
Stay == UNCHANGED <<config, pc, forced, boots>>

Accept(r, n) ==
    /\ pc = "serving" /\ req[r].pc = "none"
    /\ req' = [req EXCEPT ![r] = [pc |-> "running", left |-> n]]
    /\ UNCHANGED issued /\ Stay

\* A statement takes a connection, unless the pool is being closed.
Query(r) ==
    /\ Alive /\ req[r].pc = "running" /\ req[r].left > 0 /\ pc # "closing"
    /\ req' = [req EXCEPT ![r].pc = "query"]
    /\ UNCHANGED issued /\ Stay

Answered(r) ==
    /\ Alive /\ req[r].pc = "query"
    /\ req' = [req EXCEPT ![r].pc = "running", ![r].left = @ - 1]
    /\ UNCHANGED issued /\ Stay

RespondAndGoOn(r) ==
    /\ Alive /\ req[r].pc = "running"
    /\ req' = [req EXCEPT ![r].left = @ - 1]
    /\ issued' = IF req[r].left = 0 THEN issued \cup {[by |-> secret, boot |-> boots]} ELSE issued
    /\ Stay

\* The response, with a token once all statements are through; a statement
\* refused, or one that failed, is answered with an error.
Respond(r) ==
    /\ Alive /\ req[r].pc = "running"
    /\ req' = [req EXCEPT ![r] = NoRequest]
    /\ issued' = IF req[r].left = 0 THEN issued \cup {[by |-> secret, boot |-> boots]} ELSE issued
    /\ Stay

Handle(r) == Query(r) \/ Answered(r) \/ Respond(r)

------------------------------------------------------------------------------
(* Shutdown. *)

\* The process is gone, and what it was doing with it.
Gone(state) ==
    /\ pc' = state
    /\ req' = [r \in Requests |->
                  IF r \in Running
                  THEN [req[r] EXCEPT !.pc = IF req[r].pc = "query" THEN "torn" ELSE "cut"]
                  ELSE req[r]]

InterruptReturns ==
    /\ pc = "serving"
    /\ pc' = "closing"
    /\ UNCHANGED config /\ UNCHANGED rest

\* An interrupt or SIGTERM once signals are caught: no request is accepted any
\* more.
Interrupt ==
    /\ pc = "serving"
    /\ pc' = "draining"
    /\ UNCHANGED config /\ UNCHANGED rest

Drained == Running = {}

ShutdownWithoutDeadline ==
    /\ pc = "draining" /\ Drained
    /\ forced' = FALSE /\ pc' = "closing"
    /\ UNCHANGED config /\ UNCHANGED <<req, issued, boots>>

\* Shutdown returns when every request has been answered, or at its deadline.
Shutdown ==
    /\ pc = "draining"
    /\ \/ Drained /\ forced' = FALSE
       \/ ~Drained /\ forced' = TRUE
    /\ pc' = "closing"
    /\ UNCHANGED config /\ UNCHANGED <<req, issued, boots>>

\* Close blocks until every connection is back.
PoolIdle == \A r \in Requests : req[r].pc # "query"

\* The deferred Close; then main returns.
CloseAndReturn ==
    /\ pc = "closing" /\ PoolIdle
    /\ Gone("exited")
    /\ UNCHANGED config /\ UNCHANGED <<forced, issued, boots>>

Ended == {"exited", "killed", "fatal", "panicked"}

\* The process is killed, or is interrupted where signals are not caught, or
\* its listener fails.
Kill ==
    /\ pc \notin Ended
    /\ Gone("killed")
    /\ UNCHANGED config /\ UNCHANGED <<forced, issued, boots>>

Restart ==
    /\ pc \in Ended /\ boots < MaxBoots
    /\ boots' = boots + 1
    /\ pc' = "load" /\ cfg' = NoSettings /\ secret' = NoSecret /\ directory' = "off"
    /\ forced' = FALSE /\ req' = [r \in Requests |-> NoRequest]
    /\ UNCHANGED <<deployment, issued>>

Next ==
    \/ Startup \/ SyncOnce
    \/ \E r \in Requests : (\E n \in 0..MaxStatements : Accept(r, n)) \/ Handle(r)
    \/ Interrupt \/ Shutdown \/ CloseAndReturn
    \/ Kill \/ Restart

\* main goes on, Shutdown and the requests of the sync for no longer than their
\* timeouts; the database answers the statements of requests.  Google need not
\* answer the sync, not even grant it a token, nobody has to send a request, a signal or a restart, and a handler may
\* take as long as it likes between its statements.
Fairness ==
    /\ WF_vars(Startup) /\ WF_vars(Shutdown) /\ WF_vars(CloseAndReturn)
    /\ \A r \in Requests : WF_vars(Answered(r))

Spec == Init /\ [][Next]_vars /\ Fairness

------------------------------------------------------------------------------
(* Properties. *)

Requested(r) == req[r].pc \in {"none", "running", "query", "cut", "torn"} /\ req[r].left \in 0..MaxStatements

\* Every variable keeps its type.
TypeOK ==
    /\ deployment \in Deployments
    /\ pc \in {"load", "validate", "migrate", "pool", "group", "chart", "directory", "listen"}
              \cup Syncing \cup {"serving", "draining", "closing"} \cup Ended
    /\ DOMAIN cfg = Fields /\ directory \in {"off", "on", "broken"} /\ forced \in BOOLEAN
    /\ \A r \in Requests : Requested(r)
    /\ secret.boot \in 0..boots /\ \A t \in issued : t.by.boot \in {0, t.boot} /\ t.boot <= boots

\* Every setting is the last usable value it was given, wherever its
\* neighbours were set (config.go, mergeConfig: "keeps per-field layering").
LayersKept == cfg # NoSettings => \A f \in Fields : cfg[f] = Effective(deployment, f)

\* What a process needs in order to serve.  Nothing of the sheet is among it.
Sound(d) ==
    /\ LoadOutcome(d) = "loaded" /\ d.migrations # "failing" /\ d.port = "free"
    /\ Effective(d, "database_url") \notin {"", "malformed"}
    /\ Effective(d, "cache_ttl") # "not a duration"
    /\ Effective(d, "service_account_key") # "" =>
          /\ KeyWorks(Effective(d, "service_account_key"))
          /\ Effective(d, "impersonate_subject") # ""
    /\ Consistent(d.chart)

\* The process gives up only on a deployment that is not sound, and serves only
\* one that is: a chart that contradicts itself is caught before any request,
\* and no failure of the sync or of its settings is fatal (main.go: "this never
\* stops startup").
SoundToServe ==
    /\ pc \in {"fatal", "panicked"} => ~Sound(deployment)
    /\ Alive => Sound(deployment)

\* The chart that is served orders the lists as its file writes them down, and
\* every list it names is in exactly the section that lists it (orgchart.go,
\* index).
ChartMeansItsFile ==
    LET file == deployment.chart
        chart == LoadChart(file)
    IN  pc = "directory" =>
            /\ \A i \in DOMAIN Listed(file) : Order(chart, Listed(file)[i]) = i - 1
            /\ \A k \in file.groups : \A i \in DOMAIN file.sections :
                  SectionOf(chart, k) = file.sections[i] <=> k \in Range(file.sections[i].groups)
            /\ \A i \in DOMAIN file.roles : \A k \in Range(file.roles[i].owns) :
                  chart.ownerOf[k] = file.roles[i]

\* The range a sync asks for reaches exactly as far as the last of its three
\* columns (directory.go, columnLetter: "columnIndex's inverse").
RangeCoversColumns ==
    pc \in Syncing => LET columns == [f \in ColumnFields |-> Column(cfg, f)]
                      IN  Width(LastLetter(columns)) = Max(Range(columns)) + 1

\* A process that was asked to stop leaves no statement half done, and cuts off
\* a request only at the deadline of its shutdown (main.go, the order of
\* Shutdown and the deferred Close).
GracefulExit ==
    pc = "exited" => \A r \in Requests : /\ req[r].pc # "torn"
                                         /\ req[r].pc = "cut" => forced

\* A secret somebody configured outlives the process: the tokens it signed are
\* good after a restart.  Outside debug mode, where none is configured no token
\* is good in any process but the one that signed it (main.go, the replacement
\* of the default).
TokensAcrossRestarts ==
    Alive => \A t \in issued :
        IF Effective(deployment, "secret") # DefaultSecret \/ Effective(deployment, "debug") # ""
        THEN t.by = secret
        ELSE t.by = secret <=> t.boot = boots

\* A sound deployment comes to serve, whatever Google does to its sync, unless
\* Google leaves the sync waiting for a token for ever (main.go: "the timeout is
\* what keeps a slow or hanging Google from turning that into a startup that
\* never finishes").
StartsServing ==
    []<>(pc \notin Exchanging) =>
        ((pc = "load" /\ Sound(deployment)) ~> pc \in {"serving", "killed"})

\* A shutdown ends, however long its requests would still have taken.
ShutdownEnds == pc = "draining" ~> pc \in {"exited", "killed"}

\* An operator who sets the domain empty gets full addresses (config.go: "set
\* it empty to keep full addresses").
DomainCanBeEmptied ==
    cfg # NoSettings /\ Emptied(deployment, "domain") => cfg["domain"] = ""
==============================================================================

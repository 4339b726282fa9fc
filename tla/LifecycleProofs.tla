--------------------------- MODULE LifecycleProofs ---------------------------
(***************************************************************************)
(* Proofs about Lifecycle, for every deployment and any number of requests *)
(* and boots.                                                              *)
(***************************************************************************)
EXTENDS Lifecycle, OrgChartProofs

------------------------------------------------------------------------------
(* The layers. *)

\* mergeConfig merges setting by setting, nested or not.
LEMMA Fieldwise ==
    ASSUME NEW base, NEW override, DOMAIN base = Fields, NEW f \in Fields
    PROVE  mergeConfig(base, override)[f] = IF override[f] # "" THEN override[f] ELSE base[f]
<1>1. CASE f \in TopFields
  <2>1. ASSUME NEW part \in TopLevel, f \in part PROVE part = {f}
    BY <1>1, <2>1 DEF TopLevel, TopFields, GroupFields, SheetFields
  <2>2. {f} \in TopLevel
    BY <1>1 DEF TopLevel
  <2>3. Merge(TopLevel, base, override)[f] = IF override[f] # "" THEN override[f] ELSE base[f]
    BY <2>1, <2>2 DEF Merge
  <2> QED BY <1>1, <2>3 DEF mergeConfig
<1>2. CASE f \notin TopFields
  <2>1. f \in GroupFields \cup SheetFields
    BY <1>2 DEF Fields
  <2>2. ASSUME NEW part \in Nested, f \in part PROVE part = {f}
    BY <2>2 DEF Nested
  <2>3. {f} \in Nested
    BY <2>1 DEF Nested
  <2>4. Merge(Nested, base, override)[f] = IF override[f] # "" THEN override[f] ELSE base[f]
    BY <2>2, <2>3 DEF Merge
  <2> QED BY <1>2, <2>4 DEF mergeConfig
<1> QED BY <1>1, <1>2

LEMMA MergeDomain ==
    ASSUME NEW base, NEW override PROVE DOMAIN mergeConfig(base, override) = Fields
BY DEF mergeConfig

\* The greatest member of a set of layers.
LEMMA GreatestOf ==
    ASSUME NEW S, NEW m \in S, \A j \in S : j \in 1..4 /\ j <= m
    PROVE  (CHOOSE i \in S : \A j \in S : j <= i) = m
<1>1. m \in 1..4 /\ \A j \in S : j <= m
  OBVIOUS
<1>2. \E i \in S : \A j \in S : j <= i
  BY <1>1
<1> DEFINE c == CHOOSE i \in S : \A j \in S : j <= i
<1>3. c \in S /\ \A j \in S : j <= c
  BY <1>2
<1> HIDE DEF c
<1>4. c \in 1..4 /\ c <= m /\ m <= c
  BY <1>3
<1> QED BY <1>1, <1>4 DEF c

\* The last of four layers that says anything, looked for from either end.
LEMMA LastSaid ==
    ASSUME NEW s, NEW by, NEW e,
           \A j \in by : j \in 1..4 /\ s[j] # e,
           \A j \in 1..4 : j \notin by => s[j] = e
    PROVE  (IF by = {} THEN e ELSE s[CHOOSE i \in by : \A j \in by : j <= i])
            = IF s[4] # e THEN s[4] ELSE IF s[3] # e THEN s[3]
              ELSE IF s[2] # e THEN s[2] ELSE s[1]
<1> DEFINE last == CHOOSE i \in by : \A j \in by : j <= i
<1>1. ASSUME NEW m \in by, \A j \in by : j <= m PROVE last = m
  BY <1>1, GreatestOf
<1> HIDE DEF last
<1>2. CASE s[4] # e
  <2>1. 4 \in by /\ \A j \in by : j <= 4
    BY <1>2
  <2>2. last = 4
    BY <1>1, <2>1
  <2> QED BY <1>2, <2>1, <2>2 DEF last
<1>3. CASE s[4] = e /\ s[3] # e
  <2>1. 3 \in by /\ \A j \in by : j <= 3
    BY <1>3
  <2>2. last = 3
    BY <1>1, <2>1
  <2> QED BY <1>3, <2>1, <2>2 DEF last
<1>4. CASE s[4] = e /\ s[3] = e /\ s[2] # e
  <2>1. 2 \in by /\ \A j \in by : j <= 2
    BY <1>4
  <2>2. last = 2
    BY <1>1, <2>1
  <2> QED BY <1>4, <2>1, <2>2 DEF last
<1>5. CASE s[4] = e /\ s[3] = e /\ s[2] = e /\ s[1] # e
  <2>1. 1 \in by /\ \A j \in by : j <= 1
    BY <1>5
  <2>2. last = 1
    BY <1>1, <2>1
  <2> QED BY <1>5, <2>1, <2>2 DEF last
<1>6. CASE s[4] = e /\ s[3] = e /\ s[2] = e /\ s[1] = e
  <2>1. by = {}
    BY <1>6
  <2> QED BY <1>6, <2>1
<1> QED BY <1>2, <1>3, <1>4, <1>5, <1>6

\* Without merging: a setting is the last usable value it was given.
LEMMA LoadIsEffective ==
    ASSUME NEW d, d.dotenv.state # "malformed", NEW f \in Fields
    PROVE  Load(d)[f] = Effective(d, f)
<1> DEFINE env == EnvSays(d.dotenv, d.environ)
           flag == [Decoded(d.flags.says) EXCEPT !["allow_origins"] = ""]
           one == FromFile(d.file, Defaults)
           two == mergeConfig(one, env)
           Over(a, b) == IF b # "" THEN b ELSE a
<1>1. DOMAIN Defaults = Fields
  BY DEF Defaults, NoSettings
<1>2. DOMAIN one = Fields
  BY <1>1, MergeDomain DEF FromFile
<1>3. DOMAIN two = Fields
  BY MergeDomain
<1>4. one[f] = Over(Defaults[f], IF Decodes(d.file) THEN Decoded(d.file.says)[f] ELSE "")
  <2>1. CASE Decodes(d.file)
    <3>1. one = mergeConfig(Defaults, Decoded(d.file.says))
      BY <2>1 DEF FromFile
    <3> DEFINE file == Decoded(d.file.says)
    <3>2. one = mergeConfig(Defaults, file)
      BY <3>1
    <3> HIDE DEF one, file
    <3>3. one[f] = Over(Defaults[f], file[f])
      BY <1>1, <3>2, Fieldwise
    <3> QED BY <2>1, <3>3 DEF file
  <2>2. CASE ~Decodes(d.file)
    BY <2>2 DEF FromFile
  <2> QED BY <2>1, <2>2
<1>5. two[f] = Over(one[f], env[f])
  BY <1>2, Fieldwise
<1>6. flag[f] = IF f = "allow_origins" THEN "" ELSE Decoded(d.flags.says)[f]
  BY DEF Decoded
<1>7. Load(d) = mergeConfig(two, flag)
  BY DEF Load, FromFlags, FileLoaded, FromEnv
<1>8. Load(d)[f] = Over(two[f], flag[f])
  <2> HIDE DEF two, flag
  <2>1. mergeConfig(two, flag)[f] = Over(two[f], flag[f])
    BY <1>3, Fieldwise
  <2> QED BY <1>7, <2>1
<1> DEFINE s == Said(d, f)
<1>9. /\ s[1] = Defaults[f] /\ s[3] = env[f] /\ s[4] = flag[f]
      /\ s[2] = IF Decodes(d.file) THEN Decoded(d.file.says)[f] ELSE ""
  BY <1>6 DEF Said
<1>10. Load(d)[f] = Over(Over(Over(s[1], s[2]), s[3]), s[4])
  BY <1>4, <1>5, <1>8, <1>9
<1> DEFINE by == {i \in 1..4 : Said(d, f)[i] # ""}
           empty == ""
<1>11. Effective(d, f) =
         IF by = {} THEN empty ELSE s[CHOOSE i \in by : \A j \in by : j <= i]
  BY DEF Effective
<1>12. /\ \A j \in by : j \in 1..4 /\ s[j] # empty
       /\ \A j \in 1..4 : j \notin by => s[j] = empty
  OBVIOUS
<1> HIDE DEF s, by, empty
<1>13. Effective(d, f) = IF s[4] # empty THEN s[4] ELSE IF s[3] # empty THEN s[3]
                         ELSE IF s[2] # empty THEN s[2] ELSE s[1]
  BY <1>11, <1>12, LastSaid
<1> QED BY <1>10, <1>13 DEF empty

------------------------------------------------------------------------------
(* Types. *)

RequestType == [pc : {"none", "running", "query", "cut", "torn"}, left : 0..MaxStatements]

\* TypeOK, and why a count of statements never runs out below zero.
TypeInv ==
    /\ TypeOK /\ boots \in Nat /\ secret.boot \in {0, boots}
    /\ \A t \in issued : t.boot \in Nat
    /\ req \in [Requests -> RequestType]
    /\ \A r \in Requests : req[r].pc = "query" => req[r].left > 0

LEMMA SettingsDomain ==
    ASSUME NEW d PROVE DOMAIN Load(d) = Fields
BY DEF Load, FromFlags, mergeConfig

LEMMA SignerInRange ==
    ASSUME NEW n \in Nat, NEW k \in {0, n} PROVE k \in 0..n
OBVIOUS

\* The sync goes from phase to phase, and on to the listener.
LEMMA Phases ==
    SyncOnce \/ SyncTimesOut =>
        pc \in Syncing /\ pc' \in Syncing \cup {"listen"} /\ UNCHANGED config /\ UNCHANGED rest
<1>1. pc = "sheetToken" => AfterPhase[pc] = "sheet"
  BY DEF AfterPhase
<1>2. pc = "sheet" => AfterPhase[pc] = "groupToken"
  BY DEF AfterPhase
<1>3. pc = "groupToken" => AfterPhase[pc] = "seed"
  BY DEF AfterPhase
<1>4. pc = "seed" => AfterPhase[pc] = "listen"
  BY DEF AfterPhase, AfterSync
<1> QED BY <1>1, <1>2, <1>3, <1>4 DEF SyncOnce, SyncTimesOut, Syncing, AfterSync

LEMMA TypeInit == Init => TypeInv
<1> SUFFICES ASSUME Init PROVE TypeInv
  OBVIOUS
<1>1. DOMAIN NoSettings = Fields
  BY DEF NoSettings
<1>2. req \in [Requests -> RequestType] /\ \A r \in Requests : req[r].pc = "none"
  BY LifecycleAssumption DEF Init, NoRequest, RequestType
<1>3. \A r \in Requests : Requested(r)
  BY <1>2 DEF Requested, RequestType
<1>4. secret.boot = 0 /\ boots = 1 /\ issued = {}
  BY DEF Init, NoSecret
<1>5. TypeOK
  <2>1. deployment \in Deployments /\ DOMAIN cfg = Fields
    BY <1>1 DEF Init
  <2>2. pc = "load" /\ directory = "off" /\ forced = FALSE
    BY DEF Init
  <2>3. secret.boot \in 0..boots
    BY <1>4
  <2>4. \A t \in issued : t.by.boot \in {0, t.boot} /\ t.boot <= boots
    BY <1>4
  <2> QED BY <1>3, <2>1, <2>2, <2>3, <2>4 DEF TypeOK
<1> QED BY <1>2, <1>4, <1>5 DEF TypeInv

LEMMA TypeStep == TypeInv /\ [Next]_vars => TypeInv'
<1> SUFFICES ASSUME TypeInv, [Next]_vars PROVE TypeInv'
  OBVIOUS
<1> USE DEF TypeInv
<1>1. TypeOK
  OBVIOUS
<1>2. ASSUME req' \in [Requests -> RequestType] PROVE (\A r \in Requests : Requested(r))'
  BY <1>2 DEF Requested, RequestType
<1>3. ASSUME UNCHANGED <<req, issued, boots, deployment>>, secret' = secret,
             DOMAIN cfg' = Fields, directory' \in {"off", "on", "broken"}, forced' \in BOOLEAN,
             pc' \in {"load", "validate", "migrate", "pool", "group", "chart", "directory", "listen",
                      "serving", "draining", "closing"} \cup Syncing \cup Ended
      PROVE  TypeInv'
  BY <1>2, <1>3 DEF TypeOK
<1>4. CASE LoadConfig
  <2>1. LoadOutcome(deployment) \in {"fatal", "panicked", "loaded"}
    BY DEF LoadOutcome
  <2>2. DOMAIN cfg' = Fields
    BY <1>4, SettingsDomain DEF LoadConfig, TypeOK
  <2> QED BY <1>3, <1>4, <2>1, <2>2 DEF LoadConfig, rest, TypeOK, Ended
<1>5. CASE Validate
  <2>1. secret'.boot \in {0, boots}
    <3>1. Secret.boot \in {0, boots}
      BY DEF Secret, SecretKept
    <3> QED BY <1>5, <3>1 DEF Validate
  <2>2. pc' \in {"fatal", "migrate"}
    BY <1>5 DEF Validate
  <2>3. secret'.boot \in 0..boots
    BY <2>1, SignerInRange
  <2>4. UNCHANGED <<deployment, cfg, directory, forced, req, issued, boots>>
    BY <1>5 DEF Validate, rest
  <2> QED BY <1>2, <2>1, <2>2, <2>3, <2>4 DEF TypeOK, Ended
<1>6. CASE MigrationUp \/ initDatabasePool \/ NewGroupService \/ LoadOrgChart
  BY <1>3, <1>6 DEF MigrationUp, initDatabasePool, NewGroupService, LoadOrgChart, config, rest, TypeOK, Ended
<1>7. CASE NewDirectoryService
  <2>1. DirectoryService(cfg) \in {"off", "on", "broken"}
    BY DEF DirectoryService
  <2> QED BY <1>3, <1>7, <2>1 DEF NewDirectoryService, rest, TypeOK, Syncing
<1>8. CASE SyncTimesOut \/ SyncOnce \/ Listen \/ Interrupt
  BY <1>3, <1>8 DEF SyncTimesOut, SyncOnce, AfterSync, AfterPhase, Syncing, Listen, Interrupt, config, rest, TypeOK, Ended
<1>9. ASSUME NEW r \in Requests, req' \in [Requests -> RequestType],
             \A q \in Requests : req'[q].pc = "query" => req'[q].left > 0,
             issued' = issued, Stay
      PROVE  TypeInv'
  BY <1>2, <1>9 DEF Stay, config, TypeOK
<1>10. ASSUME NEW r \in Requests, NEW n \in 0..MaxStatements, Accept(r, n) PROVE TypeInv'
  <2>1. req' \in [Requests -> RequestType]
        /\ \A q \in Requests : req'[q].pc = "query" => req'[q].left > 0
    BY <1>10 DEF Accept, RequestType
  <2> QED BY <1>9, <1>10, <2>1 DEF Accept
<1>11. ASSUME NEW r \in Requests, Query(r) PROVE TypeInv'
  <2>1. req' \in [Requests -> RequestType]
        /\ \A q \in Requests : req'[q].pc = "query" => req'[q].left > 0
    BY <1>11 DEF Query, RequestType
  <2> QED BY <1>9, <1>11, <2>1 DEF Query
<1>12. ASSUME NEW r \in Requests, Answered(r) PROVE TypeInv'
  <2>1. req[r].left - 1 \in 0..MaxStatements
    BY <1>12, LifecycleAssumption DEF Answered, RequestType
  <2>2. req' \in [Requests -> RequestType]
        /\ \A q \in Requests : req'[q].pc = "query" => req'[q].left > 0
    BY <1>12, <2>1 DEF Answered, RequestType
  <2> QED BY <1>9, <1>12, <2>2 DEF Answered
<1>13. ASSUME NEW r \in Requests, Respond(r) PROVE TypeInv'
  <2>1. NoRequest \in RequestType
    BY LifecycleAssumption DEF NoRequest, RequestType
  <2>2. req' \in [Requests -> RequestType]
        /\ \A q \in Requests : req'[q].pc = "query" => req'[q].left > 0
    BY <1>13, <2>1 DEF Respond, NoRequest, RequestType
  <2> DEFINE token == [by |-> secret, boot |-> boots]
  <2>3. token.by = secret /\ token.boot = boots
    OBVIOUS
  <2>4. issued' \subseteq issued \cup {token}
    BY <1>13 DEF Respond
  <2>5. UNCHANGED <<config, pc, forced, boots>>
    BY <1>13 DEF Respond, Stay
  <2> HIDE DEF token
  <2>6. \A t \in issued' : t.by.boot \in {0, t.boot} /\ t.boot <= boots /\ t.boot \in Nat
    <3>1. token.by.boot \in {0, token.boot} /\ token.boot <= boots /\ token.boot \in Nat
      BY <2>3
    <3> QED BY <1>1, <2>4, <3>1 DEF TypeOK
  <2> QED BY <1>1, <1>2, <2>2, <2>5, <2>6 DEF config, TypeOK
<1>14. CASE Shutdown
  BY <1>3, <1>14 DEF Shutdown, config, TypeOK
<1>15. CASE CloseAndReturn \/ Kill
  <2>1. req' \in [Requests -> RequestType]
        /\ \A q \in Requests : req'[q].pc = "query" => req'[q].left > 0
    BY <1>15 DEF CloseAndReturn, Kill, Gone, Running, RequestType
  <2> QED BY <1>2, <1>15, <2>1 DEF CloseAndReturn, Kill, Gone, config, TypeOK, Ended
<1>16. CASE Restart
  <2>1. req' \in [Requests -> RequestType]
        /\ \A q \in Requests : req'[q].pc = "query" => req'[q].left > 0
    BY <1>16, LifecycleAssumption DEF Restart, NoRequest, RequestType
  <2>2. DOMAIN cfg' = Fields
    BY <1>16 DEF Restart, NoSettings
  <2>3. boots' \in Nat /\ secret'.boot = 0 /\ issued' = issued /\ boots <= boots'
    <3>1. boots' = boots + 1 /\ secret' = NoSecret /\ issued' = issued
      BY <1>16 DEF Restart
    <3>2. NoSecret.boot = 0
      BY DEF NoSecret
    <3> QED BY <3>1, <3>2
  <2>4. ASSUME NEW t \in issued'
        PROVE  t.by.boot \in {0, t.boot} /\ t.boot <= boots' /\ t.boot \in Nat
    <3>1. t.by.boot \in {0, t.boot} /\ t.boot <= boots /\ t.boot \in Nat
      BY <1>1, <2>3 DEF TypeOK
    <3> QED BY <2>3, <3>1
  <2>5. secret'.boot \in 0..boots'
    BY <2>3, SignerInRange
  <2>6. deployment' \in Deployments /\ pc' = "load" /\ directory' = "off" /\ forced' = FALSE
    <3>1. deployment' = deployment /\ deployment \in Deployments
      BY <1>1, <1>16 DEF Restart, TypeOK
    <3>2. pc' = "load" /\ directory' = "off" /\ forced' = FALSE
      BY <1>16 DEF Restart
    <3> QED BY <3>1, <3>2
  <2>7. /\ \A t \in issued' : t.by.boot \in {0, t.boot} /\ t.boot <= boots'
        /\ \A t \in issued' : t.boot \in Nat
    BY <2>4
  <2>8. TypeOK'
    BY <1>2, <2>1, <2>2, <2>5, <2>6, <2>7 DEF TypeOK
  <2> QED BY <2>1, <2>3, <2>7, <2>8
<1>17. CASE UNCHANGED vars
  BY <1>3, <1>17 DEF vars, TypeOK
<1> QED
  BY <1>4, <1>5, <1>6, <1>7, <1>8, <1>10, <1>11, <1>12, <1>13, <1>14, <1>15, <1>16, <1>17
     DEF Next, Startup, Handle

\* Every variable keeps its type, for any deployment and any number of requests.
THEOREM LifecycleTypesCorrect == Spec => []TypeOK
<1>1. TypeInv => TypeOK
  BY DEF TypeInv
<1> QED BY <1>1, TypeInit, TypeStep, PTL DEF Spec

------------------------------------------------------------------------------
(* The settings of a process. *)

\* A process has no settings or those of its deployment, which it never loses
\* once it is past loading them.
Loaded ==
    /\ deployment \in Deployments
    /\ pc # "load" /\ cfg # NoSettings =>
          LoadOutcome(deployment) = "loaded" /\ cfg = Load(deployment)
    /\ pc = "load" => cfg = NoSettings
    /\ pc \notin {"load"} \cup Ended =>
          LoadOutcome(deployment) = "loaded" /\ cfg = Load(deployment)

LEMMA LoadedInit == Init => Loaded
BY DEF Init, Loaded

LEMMA LoadedStep == Loaded /\ [Next]_vars => Loaded'
<1> SUFFICES ASSUME Loaded, [Next]_vars PROVE Loaded'
  OBVIOUS
<1> USE DEF Loaded, Ended
<1>1. CASE LoadConfig
  <2>1. LoadOutcome(deployment) \in {"fatal", "panicked", "loaded"}
    BY DEF LoadOutcome
  <2> QED BY <1>1, <2>1 DEF LoadConfig
<1>2. CASE Validate
  BY <1>2 DEF Validate
<1>3. CASE MigrationUp \/ initDatabasePool \/ NewGroupService \/ LoadOrgChart
  BY <1>3 DEF MigrationUp, initDatabasePool, NewGroupService, LoadOrgChart, config
<1>4. CASE NewDirectoryService \/ SyncTimesOut \/ SyncOnce \/ Listen
  BY <1>4 DEF NewDirectoryService, SyncTimesOut, SyncOnce, AfterSync, AfterPhase, Syncing, Listen, config
<1>5. ASSUME NEW r \in Requests, NEW n \in 0..MaxStatements, Accept(r, n) PROVE Loaded'
  BY <1>5 DEF Accept, Stay, config
<1>6. ASSUME NEW r \in Requests, Handle(r) PROVE Loaded'
  BY <1>6 DEF Handle, Query, Answered, Respond, Stay, config
<1>7. CASE Interrupt \/ Shutdown
  BY <1>7 DEF Interrupt, Shutdown, config
<1>8. CASE CloseAndReturn \/ Kill
  BY <1>8 DEF CloseAndReturn, Kill, Gone, config
<1>9. CASE Restart
  BY <1>9 DEF Restart
<1>10. CASE UNCHANGED vars
  BY <1>10 DEF vars
<1> QED
  BY <1>1, <1>2, <1>3, <1>4, <1>5, <1>6, <1>7, <1>8, <1>9, <1>10 DEF Next, Startup

LEMMA AlwaysLoaded == Spec => []Loaded
BY LoadedInit, LoadedStep, PTL DEF Spec

\* A .env that cannot be read leaves no config to be loaded.
LEMMA LoadedReadsDotenv ==
    ASSUME NEW d, LoadOutcome(d) = "loaded" PROVE d.dotenv.state # "malformed"
BY DEF LoadOutcome, FileLoaded, FromEnv

\* Every setting of every process is the last usable value it was given
\* (config.go, Load and mergeConfig).
THEOREM EverySettingKept == Spec => []LayersKept
<1>1. Loaded => LayersKept
  <2> SUFFICES ASSUME Loaded, cfg # NoSettings, NEW f \in Fields
               PROVE  cfg[f] = Effective(deployment, f)
    BY DEF LayersKept
  <2>1. LoadOutcome(deployment) = "loaded" /\ cfg = Load(deployment)
    BY DEF Loaded
  <2> QED BY <2>1, LoadedReadsDotenv, LoadIsEffective
<1> QED BY <1>1, AlwaysLoaded, PTL

------------------------------------------------------------------------------
(* Requests and the end of the process. *)

Part == {"none", "running", "query"}

\* The requests of a process that has not ended are whole; once its Shutdown
\* has returned before the deadline there are none; what an exit cuts off it
\* cuts off between two statements.
Unhurt ==
    /\ req \in [Requests -> [pc : Part \cup {"cut", "torn"}, left : Int]]
    /\ pc \notin Ended => \A r \in Requests : req[r].pc \in Part
    /\ pc = "closing" => forced \/ Running = {}
    /\ GracefulExit

LEMMA UnhurtInit == Init => Unhurt
BY DEF Init, Unhurt, NoRequest, Part, GracefulExit

LEMMA UnhurtStep == Unhurt /\ [Next]_vars => Unhurt'
<1> SUFFICES ASSUME Unhurt, [Next]_vars PROVE Unhurt'
  OBVIOUS
<1> USE DEF Unhurt, Ended, Part, GracefulExit, Running
<1>1. CASE LoadConfig
  <2>1. LoadOutcome(deployment) \in {"fatal", "panicked", "loaded"}
    BY DEF LoadOutcome
  <2> QED BY <1>1, <2>1 DEF LoadConfig, rest
<1>2. CASE Validate \/ MigrationUp \/ initDatabasePool \/ NewGroupService \/ LoadOrgChart
  BY <1>2 DEF Validate, MigrationUp, initDatabasePool, NewGroupService, LoadOrgChart, rest
<1>3. CASE NewDirectoryService \/ SyncTimesOut \/ SyncOnce \/ Listen \/ Interrupt
  BY <1>3 DEF NewDirectoryService, SyncTimesOut, SyncOnce, AfterSync, AfterPhase, Syncing, Listen, Interrupt, rest
<1>4. ASSUME NEW r \in Requests, NEW n \in 0..MaxStatements, Accept(r, n) PROVE Unhurt'
  BY <1>4 DEF Accept, Stay
<1>5. ASSUME NEW r \in Requests, Query(r) PROVE Unhurt'
  BY <1>5 DEF Query, Stay
<1>6. ASSUME NEW r \in Requests, Answered(r) PROVE Unhurt'
  BY <1>6 DEF Answered, Stay, Alive
<1>7. ASSUME NEW r \in Requests, Respond(r) PROVE Unhurt'
  BY <1>7 DEF Respond, Stay, Alive, NoRequest
<1>8. CASE Shutdown
  BY <1>8 DEF Shutdown, Drained
<1>9. CASE CloseAndReturn
  BY <1>9 DEF CloseAndReturn, PoolIdle, Gone
<1>10. CASE Kill
  BY <1>10 DEF Kill, Gone
<1>11. CASE Restart
  BY <1>11 DEF Restart, NoRequest
<1>12. CASE UNCHANGED vars
  BY <1>12 DEF vars
<1> QED
  BY <1>1, <1>2, <1>3, <1>4, <1>5, <1>6, <1>7, <1>8, <1>9, <1>10, <1>11, <1>12
     DEF Next, Startup, Handle

\* However many requests are under way when the process is asked to stop, none
\* of their statements is torn, and none is cut off but at the deadline
\* (main.go, Shutdown before the deferred Close of the pool).
THEOREM ExitIsGraceful == Spec => []GracefulExit
<1>1. Unhurt => GracefulExit
  BY DEF Unhurt
<1> QED BY <1>1, UnhurtInit, UnhurtStep, PTL DEF Spec

------------------------------------------------------------------------------
(* The signing secret. *)

\* What a process with these settings signs with in this boot.
SecretAt(c, boot) ==
    IF c["secret"] = DefaultSecret /\ c["debug"] = ""
    THEN [text |-> "", boot |-> boot] ELSE [text |-> c["secret"], boot |-> 0]

\* Two random secrets are the same only in the same boot.
LEMMA RandomSecrets ==
    ASSUME NEW a, NEW b
    PROVE  [text |-> "", boot |-> a] = [text |-> "", boot |-> b] <=> a = b
<1> DEFINE at(x) == [text |-> "", boot |-> x]
<1>1. at(a).boot = a /\ at(b).boot = b
  OBVIOUS
<1> HIDE DEF at
<1>2. at(a) = at(b) => a = b
  BY <1>1
<1> QED BY <1>2 DEF at

\* Every token was signed with the secret of its boot, and the deployment says
\* what that was.
Signed ==
    /\ pc \notin {"load", "validate"} \cup Ended => secret = SecretAt(Load(deployment), boots)
    /\ \A t \in issued : t.by = SecretAt(Load(deployment), t.boot)

LEMMA SignedInit == Init => Signed
BY DEF Init, Signed

LEMMA SignedStep == Loaded /\ Signed /\ [Next]_vars => Signed'
<1> SUFFICES ASSUME Loaded, Signed, [Next]_vars PROVE Signed'
  OBVIOUS
<1> USE DEF Signed, Ended
<1>1. CASE LoadConfig
  <2>1. LoadOutcome(deployment) \in {"fatal", "panicked", "loaded"}
    BY DEF LoadOutcome
  <2> QED BY <1>1, <2>1 DEF LoadConfig, rest
<1>2. CASE Validate
  <2>1. Secret = SecretAt(cfg, boots)
    BY DEF Secret, SecretKept, SecretAt
  <2>2. cfg = Load(deployment)
    BY <1>2 DEF Loaded, Validate
  <2> QED BY <1>2, <2>1, <2>2 DEF Validate, rest
<1>3. CASE MigrationUp \/ initDatabasePool \/ NewGroupService \/ LoadOrgChart
  BY <1>3 DEF MigrationUp, initDatabasePool, NewGroupService, LoadOrgChart, config, rest
<1>4. CASE NewDirectoryService \/ SyncTimesOut \/ SyncOnce \/ Listen \/ Interrupt
  BY <1>4 DEF NewDirectoryService, SyncTimesOut, SyncOnce, AfterSync, AfterPhase, Syncing, Listen, Interrupt, config, rest
<1>5. ASSUME NEW r \in Requests, NEW n \in 0..MaxStatements, Accept(r, n) PROVE Signed'
  BY <1>5 DEF Accept, Stay, config
<1>6. ASSUME NEW r \in Requests, Query(r) \/ Answered(r) PROVE Signed'
  BY <1>6 DEF Query, Answered, Stay, config
<1>7. ASSUME NEW r \in Requests, Respond(r) PROVE Signed'
  <2> DEFINE token == [by |-> secret, boot |-> boots]
  <2>1. secret = SecretAt(Load(deployment), boots)
    BY <1>7 DEF Respond, Alive
  <2>2. token.by = SecretAt(Load(deployment), token.boot)
    BY <2>1
  <2>3. issued' \subseteq issued \cup {token}
    BY <1>7 DEF Respond
  <2>4. UNCHANGED <<pc, secret, deployment, boots>>
    BY <1>7 DEF Respond, Stay, config
  <2> HIDE DEF token
  <2>5. \A t \in issued' : t.by = SecretAt(Load(deployment), t.boot)
    BY <2>2, <2>3
  <2> QED BY <2>4, <2>5
<1>8. CASE Shutdown
  BY <1>8 DEF Shutdown, config
<1>9. CASE CloseAndReturn \/ Kill
  BY <1>9 DEF CloseAndReturn, Kill, Gone, config
<1>10. CASE Restart
  BY <1>10 DEF Restart
<1>11. CASE UNCHANGED vars
  BY <1>11 DEF vars
<1> QED
  BY <1>1, <1>2, <1>3, <1>4, <1>5, <1>6, <1>7, <1>8, <1>9, <1>10, <1>11
     DEF Next, Startup, Handle

\* Whatever is configured and however often the process is started: tokens
\* survive a restart exactly where somebody chose the secret (main.go, the
\* replacement of the default).
THEOREM TokensOutliveOnlyChosenSecrets == Spec => []TokensAcrossRestarts
<1>1. Loaded /\ Signed => TokensAcrossRestarts
  <2> SUFFICES ASSUME Loaded, Signed, Alive, NEW t \in issued
               PROVE  IF Effective(deployment, "secret") # DefaultSecret
                         \/ Effective(deployment, "debug") # ""
                      THEN t.by = secret
                      ELSE t.by = secret <=> t.boot = boots
    BY DEF TokensAcrossRestarts
  <2> DEFINE c == Load(deployment)
  <2>1. LoadOutcome(deployment) = "loaded"
    BY DEF Loaded, Alive, Ended
  <2>2. c["secret"] = Effective(deployment, "secret") /\ c["debug"] = Effective(deployment, "debug")
    BY <2>1, LoadedReadsDotenv, LoadIsEffective DEF Fields, TopFields
  <2>3. secret = SecretAt(c, boots) /\ t.by = SecretAt(c, t.boot)
    BY DEF Signed, Alive, Ended
  <2> HIDE DEF c
  <2> DEFINE chosen == Effective(deployment, "secret") # DefaultSecret
                       \/ Effective(deployment, "debug") # ""
  <2>4. chosen <=> ~(c["secret"] = DefaultSecret /\ c["debug"] = "")
    BY <2>2
  <2> HIDE DEF chosen
  <2>5. CASE chosen
    <3>1. t.by = secret
      BY <2>3, <2>4, <2>5 DEF SecretAt
    <3> QED BY <2>5, <3>1 DEF chosen
  <2>6. CASE ~chosen
    <3>1. secret = [text |-> "", boot |-> boots] /\ t.by = [text |-> "", boot |-> t.boot]
      BY <2>3, <2>4, <2>6 DEF SecretAt
    <3>2. t.by = secret <=> t.boot = boots
      BY <3>1, RandomSecrets
    <3> QED BY <2>6, <3>2 DEF chosen
  <2> QED BY <2>5, <2>6
<1> QED BY <1>1, AlwaysLoaded, SignedInit, SignedStep, PTL DEF Spec

------------------------------------------------------------------------------
(* What has been checked by the time the process serves. *)

\* Where main still has to pass a check.
UpToValidate == {"load", "validate"}
UpToMigrate == UpToValidate \cup {"migrate"}
UpToPool == UpToMigrate \cup {"pool"}
UpToGroup == UpToPool \cup {"group"}
UpToChart == UpToGroup \cup {"chart"}
UpToListen == UpToChart \cup {"directory", "listen"} \cup Syncing

\* What is behind main has been found sound, and what ended it was not.
Checked ==
    /\ pc \in UpToListen \cup {"serving", "draining", "closing"} \cup Ended
    /\ pc \notin UpToValidate \cup Ended => cfg["database_url"] # ""
    /\ pc \notin UpToMigrate \cup Ended => deployment.migrations # "failing"
    /\ pc \notin UpToPool \cup Ended => cfg["database_url"] # "malformed"
    /\ pc \notin UpToGroup \cup Ended => GroupServiceStarts(cfg)
    /\ pc \notin UpToChart \cup Ended => ~LoadChart(deployment.chart).error
    /\ pc \notin UpToListen \cup Ended => deployment.port = "free"
    /\ pc \in {"fatal", "panicked"} => ~Sound(deployment)

\* The settings a deployment is sound by are those its process has.
LEMMA SoundByConfig ==
    ASSUME deployment \in Deployments, LoadOutcome(deployment) = "loaded", cfg = Load(deployment)
    PROVE  Sound(deployment) <=>
             /\ deployment.migrations # "failing" /\ deployment.port = "free"
             /\ cfg["database_url"] # "" /\ cfg["database_url"] # "malformed"
             /\ GroupServiceStarts(cfg) /\ ~LoadChart(deployment.chart).error
<1> DEFINE same(f) == cfg[f] = Effective(deployment, f)
<1>1. ASSUME NEW f \in Fields PROVE same(f)
  BY <1>1, LoadedReadsDotenv, LoadIsEffective
<1>2. {"database_url", "cache_ttl", "service_account_key", "impersonate_subject"} \subseteq Fields
  BY DEF Fields, TopFields, GroupFields
<1>3. /\ same("database_url") /\ same("cache_ttl")
      /\ same("service_account_key") /\ same("impersonate_subject")
  BY <1>1, <1>2
<1>4. LoadChart(deployment.chart).error <=> ~Consistent(deployment.chart)
  BY LifecycleAssumption, ChartRefused
<1> QED BY <1>3, <1>4 DEF Sound, GroupServiceStarts

LEMMA CheckedInit == Init => Checked
BY DEF Init, Checked, UpToListen, UpToChart, UpToGroup, UpToPool, UpToMigrate, UpToValidate, Ended

LEMMA CheckedStep == Loaded /\ Checked /\ [Next]_vars => Checked'
<1> SUFFICES ASSUME Loaded, Checked, [Next]_vars PROVE Checked'
  OBVIOUS
<1> USE DEF Checked, UpToListen, UpToChart, UpToGroup, UpToPool, UpToMigrate, UpToValidate, Ended, Syncing
<1>1. CASE LoadConfig
  <2>1. LoadOutcome(deployment) \in {"fatal", "panicked", "loaded"}
    BY DEF LoadOutcome
  <2>2. LoadOutcome(deployment) # "loaded" => ~Sound(deployment)
    BY DEF Sound
  <2> QED BY <1>1, <2>1, <2>2 DEF LoadConfig
<1>2. pc \notin {"load"} \cup Ended =>
        (Sound(deployment) <=>
             /\ deployment.migrations # "failing" /\ deployment.port = "free"
             /\ cfg["database_url"] # "" /\ cfg["database_url"] # "malformed"
             /\ GroupServiceStarts(cfg) /\ ~LoadChart(deployment.chart).error)
  BY SoundByConfig DEF Loaded
<1>3. CASE Validate
  BY <1>2, <1>3 DEF Validate
<1>4. CASE MigrationUp \/ initDatabasePool
  BY <1>2, <1>4 DEF MigrationUp, initDatabasePool, config
<1>5. CASE NewGroupService \/ LoadOrgChart
  BY <1>2, <1>5 DEF NewGroupService, LoadOrgChart, config
<1>6. CASE NewDirectoryService \/ SyncTimesOut \/ SyncOnce
  BY <1>6, Phases DEF NewDirectoryService, config
<1>7. CASE Listen
  BY <1>2, <1>7 DEF Listen, config
<1>8. ASSUME NEW r \in Requests, NEW n \in 0..MaxStatements, Accept(r, n) PROVE Checked'
  BY <1>8 DEF Accept, Stay, config
<1>9. ASSUME NEW r \in Requests, Handle(r) PROVE Checked'
  BY <1>9 DEF Handle, Query, Answered, Respond, Stay, config
<1>10. CASE Interrupt \/ Shutdown
  BY <1>10 DEF Interrupt, Shutdown, config
<1>11. CASE CloseAndReturn \/ Kill
  BY <1>11 DEF CloseAndReturn, Kill, Gone, config
<1>12. CASE Restart
  BY <1>12 DEF Restart
<1>13. CASE UNCHANGED vars
  BY <1>13 DEF vars
<1> QED
  BY <1>1, <1>3, <1>4, <1>5, <1>6, <1>7, <1>8, <1>9, <1>10, <1>11, <1>12, <1>13
     DEF Next, Startup

\* What is served is sound and what is refused is not, whatever the chart and
\* the settings say (main.go, from the configuration to the listener).
THEOREM OnlySoundIsServed == Spec => []SoundToServe
<1>1. Loaded /\ Checked => SoundToServe
  <2> SUFFICES ASSUME Loaded, Checked PROVE SoundToServe
    OBVIOUS
  <2>1. ASSUME Alive PROVE Sound(deployment)
    <3>1. /\ LoadOutcome(deployment) = "loaded" /\ cfg = Load(deployment)
          /\ deployment \in Deployments
      BY <2>1 DEF Alive, Loaded, Ended
    <3>2. /\ deployment.migrations # "failing" /\ deployment.port = "free"
          /\ cfg["database_url"] # "" /\ cfg["database_url"] # "malformed"
          /\ GroupServiceStarts(cfg) /\ ~LoadChart(deployment.chart).error
      BY <2>1 DEF Alive, Checked, Ended, UpToListen, UpToChart, UpToGroup, UpToPool,
                  UpToMigrate, UpToValidate, Syncing
    <3> QED BY <3>1, <3>2, SoundByConfig
  <2>2. pc \in {"fatal", "panicked"} => ~Sound(deployment)
    BY DEF Checked
  <2> QED BY <2>1, <2>2 DEF SoundToServe
<1>2. Loaded /\ Checked /\ [Next]_vars => Checked'
  BY CheckedStep
<1> QED BY <1>1, <1>2, AlwaysLoaded, CheckedInit, PTL DEF Spec

------------------------------------------------------------------------------
(* The chart. *)

\* Every chart that is let past means what its file says, whichever file it is
\* (orgchart.go, index).
THEOREM ServedChartMeansItsFile == Spec => []ChartMeansItsFile
<1>1. Loaded /\ Checked => ChartMeansItsFile
  <2> SUFFICES ASSUME Loaded, Checked, pc = "directory" PROVE ChartMeansItsFile
    BY DEF ChartMeansItsFile
  <2> DEFINE file == deployment.chart
  <2>1. ~LoadChart(file).error
    BY DEF Checked, UpToChart, UpToGroup, UpToPool, UpToMigrate, UpToValidate, Ended
  <2>2. IsChart(file)
    BY LifecycleAssumption DEF Loaded
  <2>3. MeansItsFile(file, LoadChart(file))
    BY <2>1, <2>2, ChartMeans
  <2> QED BY <2>3 DEF MeansItsFile, ChartMeansItsFile
<1>2. Loaded /\ Checked /\ [Next]_vars => Checked'
  BY CheckedStep
<1> QED BY <1>1, <1>2, AlwaysLoaded, CheckedInit, PTL DEF Spec

------------------------------------------------------------------------------
(* Column letters. *)

\* columnIndex's loop, round by round.
LEMMA IndexLoop ==
    ASSUME NEW s \in Seq(Nat)
    PROVE  \E f \in [0..Len(s) -> Nat] :
              /\ f[0] = 0 /\ \A n \in 1..Len(s) : f[n] = f[n - 1] * 26 + s[n]
              /\ columnIndex(s) = f[Len(s)] - 1
<1> DEFINE m == Len(s)
           G == [p \in Nat \X (1..m) |-> p[1] * 26 + s[p[2]]]
           Loop(f) == f = [n \in 0..m |-> IF n = 0 THEN 0 ELSE f[n - 1] * 26 + s[n]]
           index == CHOOSE f : Loop(f)
<1>1. m \in Nat /\ \A n \in 1..m : s[n] \in Nat
  OBVIOUS
<1> HIDE DEF m
<1>2. G \in [Nat \X (1..m) -> Nat]
  BY <1>1
<1>3. PICK f : f \in Runs(Nat, m, 0, G)
  <2> HIDE DEF G
  <2>1. Runs(Nat, m, 0, G) # {}
    BY <1>1, <1>2, Recursion
  <2> QED BY <2>1
<1>4. ASSUME NEW n \in 1..m
      PROVE  n - 1 \in 0..m /\ f[n] = f[n - 1] * 26 + s[n]
  <2>1. n - 1 \in 0..m
    BY <1>1
  <2>2. <<f[n - 1], n>> \in Nat \X (1..m)
    BY <1>3, <2>1 DEF Runs
  <2> QED BY <1>3, <2>1, <2>2 DEF Runs
<1>5. f \in [0..m -> Nat] /\ f[0] = 0 /\ Loop(f)
  <2>1. f \in [0..m -> Nat] /\ f[0] = 0
    BY <1>3 DEF Runs
  <2> QED BY <1>1, <1>4, <2>1
<1>6. Loop(index)
  <2> HIDE DEF Loop
  <2> QED BY <1>5
<1>7. \A n \in 0..m : n \in {k \in 0..m : index[k] = f[k]}
  <2> HIDE DEF index
  <2> DEFINE T == {k \in 0..m : index[k] = f[k]}
  <2>1. 0 \in T
    BY <1>1, <1>5, <1>6
  <2>2. ASSUME NEW n \in 1..m, n - 1 \in T PROVE n \in T
    BY <1>1, <1>4, <1>6, <2>2
  <2> HIDE DEF T
  <2>3. \A n \in 0..m : n \in T
    BY <1>1, <2>1, <2>2, Upto
  <2> QED BY <2>3 DEF T
<1>8. columnIndex(s) = index[m] - 1
  BY DEF columnIndex, m
<1>9. index[m] = f[m]
  BY <1>1, <1>7
<1> HIDE DEF index, Loop
<1> QED BY <1>4, <1>5, <1>8, <1>9 DEF m

\* One letter more.
LEMMA IndexExtends ==
    ASSUME NEW s \in Seq(Nat), NEW x \in Nat
    PROVE  Width(s) \in Nat /\ Width(s \o <<x>>) = Width(s) * 26 + x
<1> DEFINE t == s \o <<x>>
           m == Len(s)
<1>1. /\ m \in Nat /\ t \in Seq(Nat) /\ Len(t) = m + 1 /\ t[m + 1] = x
      /\ \A n \in 1..m : t[n] = s[n]
  OBVIOUS
<1>2. PICK f \in [0..m -> Nat] : /\ f[0] = 0 /\ \A n \in 1..m : f[n] = f[n - 1] * 26 + s[n]
                                 /\ columnIndex(s) = f[m] - 1
  BY IndexLoop
<1> HIDE DEF t
<1>3. PICK g \in [0..Len(t) -> Nat] :
          /\ g[0] = 0 /\ \A n \in 1..Len(t) : g[n] = g[n - 1] * 26 + t[n]
          /\ columnIndex(t) = g[Len(t)] - 1
  BY <1>1, IndexLoop
<1> HIDE DEF m
<1>4. \A n \in 0..m : n \in {k \in 0..m : g[k] = f[k]}
  <2> DEFINE T == {k \in 0..m : g[k] = f[k]}
  <2>1. 0 \in T
    BY <1>1, <1>2, <1>3
  <2>2. ASSUME NEW n \in 1..m, n - 1 \in T PROVE n \in T
    BY <1>1, <1>2, <1>3, <2>2
  <2> HIDE DEF T
  <2>3. \A n \in 0..m : n \in T
    BY <1>1, <2>1, <2>2, Upto
  <2> QED BY <2>3 DEF T
<1>5. g[m] = f[m] /\ f[m] \in Nat
  BY <1>1, <1>2, <1>4
<1>6. g[m + 1] = g[m] * 26 + x
  BY <1>1, <1>3
<1>7. Width(s) = f[m]
  BY <1>2, <1>5 DEF Width
<1>8. g[m + 1] \in Nat /\ columnIndex(t) = g[m + 1] - 1
  BY <1>1, <1>3, <1>5, <1>6
<1>9. Width(t) = g[m + 1]
  BY <1>8 DEF Width
<1> QED BY <1>5, <1>6, <1>7, <1>9 DEF t

LEMMA NoLetters == Width(<<>>) = 0
<1>1. <<>> \in Seq(Nat) /\ Len(<<>>) = 0
  OBVIOUS
<1>2. PICK f \in [0..0 -> Nat] : f[0] = 0 /\ columnIndex(<<>>) = f[0] - 1
  BY <1>1, IndexLoop
<1> QED BY <1>2 DEF Width

LEMMA Digits ==
    ASSUME NEW i \in Nat
    PROVE  /\ i \div 26 - 1 \in Int /\ i \div 26 - 1 < i /\ i \div 26 \in Nat
           /\ (i % 26) + 1 \in 1..26 /\ i = (i \div 26) * 26 + (i % 26)
OBVIOUS

\* A column's last letter, and the column that the letters before it name.
Digit(i) == (i % 26) + 1
Rest(i) == i \div 26 - 1

Words == Seq(1..26)

\* A function that is columnLetter as far as k.
Spells(g, k) ==
    /\ g \in [Int -> Words]
    /\ \A i \in Int : /\ i < 0 => g[i] = <<>>
                      /\ i \in Nat /\ i < k => g[i] = g[Rest(i)] \o <<Digit(i)>>

LEMMA DigitsAre ==
    ASSUME NEW i \in Nat
    PROVE  /\ Rest(i) \in Int /\ Rest(i) < i /\ (Rest(i) < 0 \/ Rest(i) \in Nat)
           /\ Digit(i) \in 1..26 /\ i + 1 = (Rest(i) + 1) * 26 + Digit(i)
BY Digits DEF Rest, Digit

\* Two such functions agree as far as both go.
LEMMA SpelledAlike ==
    ASSUME NEW g, NEW h, NEW j \in Nat, NEW k \in Nat, Spells(g, j), Spells(h, k)
    PROVE  \A i \in Int : i < j /\ i < k => g[i] = h[i]
<1> DEFINE T == {n \in Nat : \A i \in Int : i < n /\ i < j /\ i < k => g[i] = h[i]}
<1>1. 0 \in T
  BY DEF Spells
<1>2. ASSUME NEW n \in T PROVE n + 1 \in T
  <2>1. n \in Nat
    OBVIOUS
  <2>2. ASSUME n < j, n < k PROVE g[n] = h[n]
    <3>1. Rest(n) \in Int /\ Rest(n) < n
      BY <2>1, DigitsAre
    <3>2. g[Rest(n)] = h[Rest(n)]
      BY <2>1, <2>2, <3>1
    <3>3. g[n] = g[Rest(n)] \o <<Digit(n)>> /\ h[n] = h[Rest(n)] \o <<Digit(n)>>
      BY <2>1, <2>2 DEF Spells
    <3> QED BY <3>2, <3>3
  <2>3. ASSUME NEW i \in Int, i < n + 1, i < j, i < k PROVE g[i] = h[i]
    <3>1. CASE i = n
      BY <2>2, <2>3, <3>1
    <3>2. CASE i < n
      BY <2>3, <3>2
    <3> QED BY <2>1, <2>3, <3>1, <3>2
  <2> QED BY <2>1, <2>3
<1> HIDE DEF T
<1>3. T = Nat
  <2>1. T \subseteq Nat
    BY DEF T
  <2> QED BY <1>1, <1>2, <2>1, NatSet
<1> QED BY <1>3 DEF T

LEMMA SpelledSoFar == ASSUME NEW k \in Nat PROVE \E g : Spells(g, k)
<1> DEFINE T == {n \in Nat : \E g : Spells(g, n)}
<1>1. 0 \in T
  <2> DEFINE g == [i \in Int |-> <<>>]
  <2>1. g \in [Int -> Words]
    BY DEF Words
  <2>2. Spells(g, 0)
    BY <2>1 DEF Spells
  <2> QED BY <2>2
<1>2. ASSUME NEW n \in T PROVE n + 1 \in T
  <2>1. PICK g : Spells(g, n)
    OBVIOUS
  <2>0. n \in Nat
    OBVIOUS
  <2> HIDE DEF T
  <2>2. /\ n \in Nat /\ Rest(n) \in Int /\ Rest(n) < n /\ Digit(n) \in 1..26
        /\ \A i \in Nat : Rest(i) \in Int /\ Rest(i) < i
    BY <2>0, DigitsAre
  <2> DEFINE h == [g EXCEPT ![n] = g[Rest(n)] \o <<Digit(n)>>]
  <2>3. g[Rest(n)] \o <<Digit(n)>> \in Words
    BY <2>1, <2>2 DEF Spells, Words
  <2>4. h \in [Int -> Words] /\ h[n] = g[Rest(n)] \o <<Digit(n)>>
        /\ \A i \in Int : i # n => h[i] = g[i]
    BY <2>1, <2>2, <2>3 DEF Spells
  <2> HIDE DEF h
  <2>5. ASSUME NEW i \in Nat, i < n + 1 PROVE h[i] = h[Rest(i)] \o <<Digit(i)>>
    <3>1. Rest(i) \in Int /\ Rest(i) < i /\ Rest(i) # n
      BY <2>2, <2>5
    <3>2. h[Rest(i)] = g[Rest(i)]
      BY <2>4, <3>1
    <3>3. CASE i = n
      BY <2>4, <3>2, <3>3
    <3>4. CASE i < n
      <4>1. g[i] = g[Rest(i)] \o <<Digit(i)>>
        BY <2>1, <3>4 DEF Spells
      <4>2. h[i] = g[i]
        BY <2>4, <3>4, <2>2
      <4> QED BY <3>2, <4>1, <4>2
    <3>5. i = n \/ i < n
      BY <2>2, <2>5
    <3> QED BY <3>3, <3>4, <3>5
  <2>6. ASSUME NEW i \in Int, i < 0 PROVE h[i] = <<>>
    <3>1. g[i] = <<>>
      BY <2>1, <2>6 DEF Spells
    <3>2. i # n
      BY <2>2, <2>6
    <3> QED BY <2>4, <3>1, <3>2
  <2>7. Spells(h, n + 1)
    BY <2>2, <2>4, <2>5, <2>6 DEF Spells
  <2> QED BY <2>2, <2>7 DEF T
<1> HIDE DEF T
<1>3. T = Nat
  <2>1. T \subseteq Nat
    BY DEF T
  <2> QED BY <1>1, <1>2, <2>1, NatSet
<1> QED BY <1>3 DEF T

\* columnLetter is what its recursion says.
LEMMA LettersLoop ==
    /\ \A i \in Int : i < 0 => columnLetter[i] = <<>>
    /\ \A i \in Nat : columnLetter[i] = columnLetter[Rest(i)] \o <<Digit(i)>>
<1> DEFINE upto(k) == CHOOSE g : Spells(g, k)
           F == [i \in Int |-> IF i < 0 THEN <<>> ELSE upto(i + 1)[i]]
           Loop(f) == f = [i \in Int |-> IF i < 0 THEN <<>>
                                         ELSE f[Rest(i)] \o <<Digit(i)>>]
<1>1. ASSUME NEW k \in Nat PROVE Spells(upto(k), k)
  BY SpelledSoFar
<1> HIDE DEF upto
<1>2. ASSUME NEW i \in Nat
      PROVE  F[i] \in Words /\ F[i] = F[Rest(i)] \o <<Digit(i)>>
  <2>1. i + 1 \in Nat /\ Spells(upto(i + 1), i + 1) /\ F[i] = upto(i + 1)[i]
    BY <1>1
  <2>2. Rest(i) \in Int /\ Rest(i) < i /\ (Rest(i) < 0 \/ Rest(i) \in Nat)
    BY DigitsAre
  <2>3. upto(i + 1)[Rest(i)] = F[Rest(i)]
    <3>1. CASE Rest(i) < 0
      BY <2>1, <2>2, <3>1 DEF Spells
    <3>2. CASE Rest(i) \in Nat
      <4> DEFINE j == Rest(i)
      <4>1. j \in Nat /\ j + 1 \in Nat /\ j < j + 1 /\ j < i + 1
        BY <2>2, <3>2
      <4> HIDE DEF j
      <4>2. Spells(upto(j + 1), j + 1) /\ F[j] = upto(j + 1)[j]
        BY <1>1, <4>1
      <4>3. \A x \in Int : x < i + 1 /\ x < j + 1 => upto(i + 1)[x] = upto(j + 1)[x]
        BY <2>1, <4>1, <4>2, SpelledAlike
      <4> QED BY <4>1, <4>2, <4>3 DEF j
    <3> QED BY <2>2, <3>1, <3>2
  <2>4. upto(i + 1)[i] = upto(i + 1)[Rest(i)] \o <<Digit(i)>> /\ upto(i + 1)[i] \in Words
    BY <2>1 DEF Spells
  <2> HIDE DEF F
  <2> QED BY <2>1, <2>3, <2>4
<1>3. \A i \in Int : i < 0 => F[i] = <<>>
  OBVIOUS
<1>4. Loop(F)
  <2>1. F = [i \in Int |-> F[i]]
    OBVIOUS
  <2> HIDE DEF F
  <2>2. ASSUME NEW i \in Int
        PROVE  F[i] = IF i < 0 THEN <<>> ELSE F[Rest(i)] \o <<Digit(i)>>
    <3>1. CASE i < 0
      BY <1>3, <3>1
    <3>2. CASE ~(i < 0)
      <4>1. i \in Nat
        BY <3>2
      <4> QED BY <1>2, <3>2, <4>1
    <3> QED BY <3>1, <3>2
  <2> QED BY <2>1, <2>2
<1> HIDE DEF F, Loop
<1>5. columnLetter = CHOOSE f : Loop(f)
  BY DEF columnLetter, Loop, Rest, Digit
<1>6. Loop(columnLetter)
  BY <1>4, <1>5
<1>7. ASSUME NEW i \in Int
      PROVE  columnLetter[i] = IF i < 0 THEN <<>> ELSE columnLetter[Rest(i)] \o <<Digit(i)>>
  BY <1>6 DEF Loop
<1>8. ASSUME NEW i \in Nat PROVE columnLetter[i] = columnLetter[Rest(i)] \o <<Digit(i)>>
  <2>1. i \in Int /\ ~(i < 0)
    OBVIOUS
  <2> QED BY <1>7, <2>1
<1>9. ASSUME NEW i \in Int, i < 0 PROVE columnLetter[i] = <<>>
  BY <1>7, <1>9
<1> QED BY <1>8, <1>9

\* columnLetter is columnIndex's inverse.
LEMMA InverseOfIndex ==
    ASSUME NEW column \in Nat PROVE Width(columnLetter[column]) = column + 1
<1> DEFINE Right(i) == columnLetter[i] \in Seq(Nat) /\ Width(columnLetter[i]) = i + 1
           T == {n \in Nat : \A i \in Nat : i < n => Right(i)}
<1>1. 0 \in T
  OBVIOUS
<1>2. ASSUME NEW n \in T PROVE n + 1 \in T
  <2>1. n \in Nat /\ \A i \in Nat : i < n => Right(i)
    OBVIOUS
  <2> HIDE DEF T
  <2> DEFINE j == Rest(n)
             d == Digit(n)
  <2>2. j \in Int /\ j < n /\ (j < 0 \/ j \in Nat) /\ d \in 1..26 /\ n + 1 = (j + 1) * 26 + d
    BY <2>1, DigitsAre
  <2>3. columnLetter[n] = columnLetter[j] \o <<d>>
    BY <2>1, LettersLoop
  <2>4. j >= -1
    BY <2>1, Digits DEF Rest
  <2> HIDE DEF j, d
  <2>5. columnLetter[j] \in Seq(Nat) /\ Width(columnLetter[j]) = j + 1
    <3>1. CASE j < 0
      <4>1. columnLetter[j] = <<>> /\ j = -1
        BY <2>2, <2>4, <3>1, LettersLoop
      <4> QED BY <4>1, NoLetters
    <3>2. CASE j \in Nat
      BY <2>1, <2>2, <3>2
    <3> QED BY <2>2, <3>1, <3>2
  <2> DEFINE s == columnLetter[j]
  <2> HIDE DEF s
  <2>6. s \in Seq(Nat) /\ Width(s) = j + 1 /\ d \in Nat
    BY <2>2, <2>5 DEF s
  <2>7. Width(s \o <<d>>) = Width(s) * 26 + d
    BY <2>6, IndexExtends
  <2>8. s \o <<d>> \in Seq(Nat)
    BY <2>6
  <2>9. Right(n)
    BY <2>2, <2>3, <2>6, <2>7, <2>8 DEF s
  <2>10. ASSUME NEW i \in Nat, i < n + 1 PROVE Right(i)
    <3> HIDE DEF Right
    <3>1. CASE i = n
      BY <2>9, <3>1
    <3>2. CASE i < n
      BY <2>1, <3>2
    <3> QED BY <2>1, <2>10, <3>1, <3>2
  <2> HIDE DEF Right
  <2> QED BY <2>1, <2>10 DEF T
<1>3. T = Nat
  <2>1. T \subseteq Nat
    OBVIOUS
  <2> HIDE DEF T
  <2> QED BY <1>1, <1>2, <2>1, NatSet
<1>4. column \in Nat /\ column < column + 1 /\ column + 1 \in Nat
  OBVIOUS
<1> HIDE DEF Right
<1>5. \A i \in Nat : i < column + 1 => Right(i)
  BY <1>3, <1>4
<1>6. Right(column)
  BY <1>4, <1>5
<1> QED BY <1>6 DEF Right

------------------------------------------------------------------------------
(* The range the sync asks for. *)

\* A column that a letter text names has a number.
LEMMA ColumnsAreNumbers ==
    ASSUME NEW s \in Seq(0..26) PROVE columnIndex(s) \in Int /\ (IsColumn(s) => columnIndex(s) \in Nat)
<1>1. s \in Seq(Nat)
  OBVIOUS
<1>2. PICK f \in [0..Len(s) -> Nat] :
          /\ f[0] = 0 /\ \A n \in 1..Len(s) : f[n] = f[n - 1] * 26 + s[n]
          /\ columnIndex(s) = f[Len(s)] - 1
  BY <1>1, IndexLoop
<1> DEFINE m == Len(s)
<1>3. m \in Nat /\ DOMAIN s = 1..m /\ f[m] \in Nat
  OBVIOUS
<1>4. ASSUME IsColumn(s) PROVE f[m] >= 1
  <2>1. s # <<>> /\ \A i \in DOMAIN s : s[i] \in 1..26
    BY <1>4 DEF IsColumn
  <2>2. m # 0
    BY <2>1
  <2>3. f \in [0..m -> Nat] /\ \A n \in 1..m : f[n] = f[n - 1] * 26 + s[n]
    BY <1>2
  <2> HIDE DEF m
  <2>4. m \in 1..m /\ m - 1 \in 0..m
    BY <1>3, <2>2
  <2>5. s[m] \in 1..26 /\ f[m - 1] \in Nat /\ f[m] = f[m - 1] * 26 + s[m]
    BY <1>3, <2>1, <2>3, <2>4
  <2> DEFINE u == f[m - 1]
             v == s[m]
  <2>6. u \in Nat /\ v \in 1..26 /\ f[m] = u * 26 + v
    BY <2>5
  <2> HIDE DEF u, v
  <2> QED BY <2>6
<1>5. columnIndex(s) = f[m] - 1
  BY <1>2
<1> HIDE DEF m
<1> QED BY <1>3, <1>4, <1>5

\* The sync runs only when the directory service could be made.
Directed == pc \in Syncing => DirectoryService(cfg) = "on"

LEMMA DirectedStep == Directed /\ [Next]_vars => Directed'
<1> SUFFICES ASSUME Directed, [Next]_vars PROVE Directed'
  OBVIOUS
<1> USE DEF Directed, Syncing
<1>1. CASE LoadConfig
  <2>1. LoadOutcome(deployment) \in {"fatal", "panicked", "loaded"}
    BY DEF LoadOutcome
  <2> QED BY <1>1, <2>1 DEF LoadConfig
<1>2. CASE NewDirectoryService
  <2>1. cfg' = cfg /\ (pc' \in Syncing => directory' = "on") /\ directory' = DirectoryService(cfg)
    BY <1>2 DEF NewDirectoryService
  <2>2. DirectoryService(cfg)' = DirectoryService(cfg)
    BY <2>1 DEF DirectoryService, ColumnFields
  <2> QED BY <2>1, <2>2
<1>3. CASE Validate \/ MigrationUp \/ initDatabasePool \/ NewGroupService \/ LoadOrgChart
  BY <1>3 DEF Validate, MigrationUp, initDatabasePool, NewGroupService, LoadOrgChart
<1>4. ASSUME pc' = pc \/ (pc \in Syncing /\ pc' \in Syncing \cup {"listen"}), cfg' = cfg
      PROVE  Directed'
  BY <1>4 DEF DirectoryService, ColumnFields
<1>5. CASE SyncTimesOut \/ SyncOnce
  BY <1>5, <1>4, Phases DEF config
<1>6. CASE Listen
  BY <1>6 DEF Listen
<1>7. ASSUME NEW r \in Requests, NEW n \in 0..MaxStatements, Accept(r, n) PROVE Directed'
  BY <1>4, <1>7 DEF Accept, Stay, config
<1>8. ASSUME NEW r \in Requests, Handle(r) PROVE Directed'
  BY <1>4, <1>8 DEF Handle, Query, Answered, Respond, Stay, config
<1>9. CASE Interrupt \/ Shutdown \/ CloseAndReturn \/ Kill \/ Restart
  BY <1>9 DEF Interrupt, Shutdown, CloseAndReturn, Kill, Gone, Restart
<1>10. CASE UNCHANGED vars
  BY <1>4, <1>10 DEF vars
<1> QED
  BY <1>1, <1>2, <1>3, <1>5, <1>7, <1>8, <1>9, <1>10, <1>6 DEF Next, Startup

\* However far to the right a column is, the range that is asked for ends with
\* the last of them (directory.go, read and columnLetter).
THEOREM RangeCovers == Spec => []RangeCoversColumns
<1>1. Loaded /\ Directed => RangeCoversColumns
  <2> SUFFICES ASSUME Loaded, Directed, pc \in Syncing PROVE RangeCoversColumns
    BY DEF RangeCoversColumns
  <2> DEFINE columns == [f \in ColumnFields |-> Column(cfg, f)]
             last == Max(Range(columns))
  <2>1. ASSUME NEW f \in ColumnFields PROVE columns[f] \in Nat
    <3>1. /\ LoadOutcome(deployment) = "loaded" /\ cfg = Load(deployment)
          /\ deployment \in Deployments /\ deployment.dotenv.state # "malformed"
      BY LoadedReadsDotenv DEF Loaded, Ended, Syncing
    <3>2. f \in Fields
      BY DEF ColumnFields, Fields, TopFields, GroupFields, SheetFields
    <3>3. cfg[f] = Effective(deployment, f)
      BY <3>1, <3>2, LoadIsEffective
    <3>4. cfg[f] \in DOMAIN Letters
      BY <3>1, <3>3, LifecycleAssumption DEF ColumnFields
    <3>5. Letters[cfg[f]] \in Seq(0..26)
      BY <3>4, LifecycleAssumption
    <3>6. IsColumn(Letters[cfg[f]])
      BY DEF Directed, DirectoryService
    <3> QED BY <3>5, <3>6, ColumnsAreNumbers DEF Column
  <2>2. last \in Nat
    <3> DEFINE a == columns["email_column"]
               b == columns["name_column"]
               c == columns["nickname_column"]
    <3>1. Range(columns) = {a, b, c}
      BY DEF Range, ColumnFields
    <3>2. a \in Nat /\ b \in Nat /\ c \in Nat
      BY <2>1 DEF ColumnFields
    <3> HIDE DEF a, b, c
    <3>3. \E x \in {a, b, c} : \A y \in {a, b, c} : x >= y
      <4>1. CASE a >= b /\ a >= c
        BY <3>2, <4>1
      <4>2. CASE b >= a /\ b >= c
        BY <3>2, <4>2
      <4>3. CASE c >= a /\ c >= b
        BY <3>2, <4>3
      <4> QED BY <3>2, <4>1, <4>2, <4>3
    <3> DEFINE top == CHOOSE x \in {a, b, c} : \A y \in {a, b, c} : x >= y
    <3>4. top \in {a, b, c}
      BY <3>3
    <3>5. last = top
      BY <3>1 DEF Max
    <3> HIDE DEF top, last, columns
    <3> QED BY <3>2, <3>4, <3>5
  <2> HIDE DEF columns, last
  <2>3. Width(columnLetter[last]) = last + 1
    BY <2>2, InverseOfIndex
  <2> QED BY <2>3 DEF RangeCoversColumns, LastLetter, columns, last
<1>2. Init => Directed
  BY DEF Init, Directed, Syncing
<1> QED BY <1>1, <1>2, AlwaysLoaded, DirectedStep, PTL DEF Spec
==============================================================================

# nexmin-backend, specified

TLA+ models of the backend under `src/`, the TLC runs that check them, and the
theorems TLAPS proves about them.  The backend keeps almost no state of its own:
who is in the club is a Google mailing list (the *login group*), reached through
an eventually consistent API and two in-memory caches; PostgreSQL holds profiles
and refresh tokens.  Its hard part is keeping caches, cached roles, tokens and
multi-call edits coherent with lists that change behind its back.

## The system

| part | state | operations | talks to |
|---|---|---|---|
| list cache (`googlegroup/cache.go`) | entries, generation, suppression deadline | `begin get clear set` | used by the groups service |
| groups service (`googlegroup/service.go`) | two caches, the current singleflight group | `ListMembers ListGroups ListGroupsForUser AddMember UpdateMemberRole RemoveMember` | Google's Directory API |
| club roster (`membership/service.go`) | none | `AddToRoster RemoveFromRoster ForEmail RosterGroupKeys` | groups service, chart |
| refresh tokens (`jwt/service.go`, `handler.go`) | table `refresh_tokens` | issue, exchange, log out, clean up | PostgreSQL |
| access tokens (`jwt/service.go`, `middleware.go`) | the tokens clients hold | mint, check the role | - |
| sign-in and roles (`auth/`) | none | OAuth callback, `RoleFor`, `LocalRoles` | groups service, users, tokens |
| users (`user/`) | table `users` | find or create, profile, role write-back, roster handlers | PostgreSQL, roles, roster |
| directory sync (`directory/`) | none | seed profiles from a spreadsheet at startup | Sheets API, groups, users |
| reports (`user/`, `membership/`, `googlegroup/` handlers) | none | the roster, the lists on a profile, the caller's lists, the list of lists, a list's members | groups service, chart, users |
| organization chart (`orgchart/`) | constant tables | load, order, section, owner | - |
| configuration (`config/`) | settings | defaults, file, environment, flags | - |
| process (`cmd/backend/main.go`) | how far it has come, the signing secret | start, sync, serve, shut down | all of the above |
| CORS, tracing, error rendering | none | - | - |

Requests run concurrently, each in its own goroutine; nothing locks a person or
a row across statements.  What is hard, and what makes each part correct:

* **Caches.** Fetches overlap invalidations, joined calls outlive writes, Google
  answers with old lists.  Correct: after a write returns nobody is served the
  list from before it; nothing pre-write is cached; staleness has a bound;
  every read returns.
* **Refresh tokens.** Each statement of a refresh interleaves with other
  refreshes, logouts and the cleanup any new token triggers.  Correct: a spent
  token stays spent; nobody loses a good token to somebody else's request.
* **Roles.** A list, a cache of it, a cached column and a token claim, updated
  by racing requests.  Correct: the column settles, claims follow within a
  bound, authority is never invented.
* **Roster.** Edits of many Google calls, failing anywhere, without rollback,
  over lists with several names.  Correct: the order of the calls never leaves
  a person on lists but off the club; success means what it says.
* **Directory.** A sync that may die between two rows and runs at every start,
  over a sheet anybody can answer, into a table sign-ins write too.  Correct: only
  club members get rows, one each; the last answer counts; a name somebody chose
  stays; a repeated sync does nothing.
* **Reports.** One answer from many reads, of caches of different age, while the
  lists change, and from reads any of which may fail.  Correct: what did not
  change is reported as it is, the different views agree with each other and with
  the sign-in gate.
* **Process.** Settings from four layers, a committed chart, migrations, and a
  sync that may hang, before the port opens; running requests, a deadline and a
  pool at the end.  Correct: a setting is never lost to a neighbour; what is
  unsound is refused before it is served and nothing else is; a stop tears no
  statement; tokens outlive a restart when they should.

`PROJECT.json` lists every hazard at its line, with the properties that cover it
or the reason none does.

## Modules

| module | models | proofs |
|---|---|---|
| `GroupCaches` | cache, cached reads, writes and invalidation | `GroupCachesProofs` |
| `ReadAfterWrite` | what the cached reads promise (abstract) | `GroupCachesProofs` |
| `RefreshTokens` | `refresh_tokens` under sign-in, refresh, logout | `RefreshTokensProofs` |
| `RolePropagation` | login group -> `users.role` -> token claim, for one person | `RolePropagationProofs` |
| `GroupKeys` | the names of a mailing list and how they are compared | `RosterProofs` |
| `Roster` | `AddToRoster`, `RemoveFromRoster` for one person | `RosterProofs` |
| `Directory` | the startup sync, first sign-ins and profile edits on table `users` | `DirectoryProofs` |
| `OrgChart` | `chart.yaml`: what `Load` and `index` make of it, order and sections | `OrgChartProofs` |
| `Reports` | the five reporting requests; extends `OrgChart` | `ReportsProofs` |
| `ConfigLayers` | defaults, file, `.env` and environment, flags | `LifecycleProofs` |
| `SheetColumns` | column letters, positions, the range a sync asks for | `LifecycleProofs` |
| `Lifecycle` | `main`; extends `ConfigLayers`, `SheetColumns`, `OrgChart` | `LifecycleProofs` |

Each `MC...` module instantiates the one it names for TLC.  `RolePropagation`
reads the list through the caches and sees of them only how old a reading may be
(`Delay`), which is what `StaleAtMostTTL` bounds: propagation, lifetime and one
call.  `Roster` extends `GroupKeys`.

**GroupCaches.**  A list is its *version*, the number of writes Google has
applied; `entries` holds the version, when it was given out and when it expires.
A reader's `pc` follows `listMembers` and `fetchMembers` lock by lock: `get`
releases its read lock before it takes the write lock (`Get`, `DropExpired`), the
flight group is read (`TakeFlight`) before the call is joined (`Join`), `begin`,
Google's answer and `set` are separate steps, and the leader hands its result to
all who joined (`Deliver`).  `ListGroups` takes the same path without a flight.
A writer clears the member cache, the group cache and swaps the flight group in
three steps.  `LoseResponse` is a write whose call fails after it took effect, or
a change made in Google's console.  `Restart` loses all of the process's memory.
The member slots are different spellings of one list's key: this is why `clear`
drops everything.

**RefreshTokens.**  One action per SQL statement of `RefreshHandler`,
`GenerateRefreshToken` and `LogoutHandler`; `rows` is the table.  A sign-in joins
at `GenerateRefreshToken`.  A statement may fail (`Fail`), the process or the
connection may die (`Vanish`), the cleanup may fail and be ignored.

**RolePropagation.**  Three requests: the callback (`RoleFor`, then
`FindOrCreateByEmail`: `Find`, `SignInWrite` or `Create`, then `Mint`), a profile
read (`Load`, `LocalRoles`, `WriteBack`: `respondAll` and `syncRole`), a refresh
(`GetUser`, `Mint`).  A membership is a role and a status, or `Absent`.

**Roster.**  `Plan` is `planWrites` with `NormalizeRole` and `validateGroupKeys`
(an empty role means `MEMBER`, letter case does not matter); `Write` one
`AddMember` (`Insert`, or `Skip` on a conflict), `Report` and `TellRole` the
answer; `Expand`, `Drop` and `DropLogin` are `RemoveFromRoster`.  Every Google
call may fail with or without effect.  `shows` is what Google's reads return,
behind `on` for the lists in `Lagging`, which may be any.  `Remove` keeps the retry
of `withGroupKey` with the key as given.  History, read by no guard: `unshown`, the
lists the person was on that `Expand` was not shown, and `overlooked`, those of the
removal that last took them off the login group.

**Directory.**  `users` maps addresses, spelled as stored (the UNIQUE column),
to names.  `Start`, `ReadSheet`, `ListMembers`, then `Pass` or `Seed` for each entry
and `Finish` are `SyncOnce`; `ParseRows` goes through the sheet's rows one by one
as `parseRows` does.  A sync fails or the process dies at any step (`SyncFails`, `Crash`), an
insert with or without effect.  A sign-in is `PassGate`, `Find`, `Create`; its
lookup compares `lower(email)`, the sync's insert the exact address.  A profile
edit writes the row the caller's token names (`session`).

**Reports.**  A request is its local variables (`req`); each read is an action, a
`ListMembers` from the cache or from Google and into the cache.  The roster is
`DirectIndex`, one `ReadList` or `ReadFails` per list in any order, `Wait`,
`RosterGroupKeys` (the login group again), `Profiles`, and `ListHandler` (the
login group a third time, for the roles).  The other four are `GroupKeysForEmail`
or `WithoutGroups`, `ForEmail`, `ListGroupsHandler`, and `ReadMembers` with
`Profiles` or `lookupProfiles`.  Changes come through this service (`WriteHere`
empties the caches at once: the steps of an invalidation are `GroupCaches`'
subject), from elsewhere, or expire an entry.  `touched` records what changed
since a request began, and what a stale cache was hiding when it did: the
properties speak of the rest.  Lists are told apart by name, and by their place
in the chart of the run.

**OrgChart, ConfigLayers, SheetColumns.**  Pure operators, each beside a
definition of what it should amount to: `Consistent` says without running
`Index` what a chart has to satisfy; `Effective` says of one setting what it
should be, without merging.  `Merge` is `configutil.Merge` (a zero field keeps
what was there; a nested struct is one field), `mergeConfig` what the code makes
of it.  What a layer says is a function on the settings it mentions, so that
mentioning with an empty value and not mentioning differ until they are read.

**Lifecycle.**  `pc` follows `main` from `LoadConfig` to `Listen`; every fatal
exit is a `pc`; the sync's phases are those in which it waits (two exchanges of a
token, the two reads, the seeding).  A deployment is what an operator and the committers set up: the
four layers, the chart, what the migrations and the port will do.  A request runs
some statements, each of which holds a connection of the pool, and is answered,
with a token when all went through.  `Interrupt`, `Shutdown` (drained, or at its
deadline), `CloseAndReturn` (the pool waits for its connections) end the process;
`Kill` ends it anywhere, and `Restart` starts the same deployment again.

## Runs

| run | question | bounds |
|---|---|---|
| `caches` | `FreshAfterWrite`, `EntriesPostdateClears` under every interleaving; `ReadsReturn`; implements `ReadAfterWrite` | 2 readers, 1 writer, 2 spellings + the group list, 1 write, 1 restart, no clock |
| `caches_time` | `NoPreWriteListCached`, `StaleAtMostTTL`, `LiveEntryKept` | 2 readers, 1 writer, clock to 4, window 2 = propagation 1 + call 1, lifetime 1 |
| `tokens_rotation` | `AcceptedUnspent`, `CleanupTakesNothing` | 2 requests, 2 users, 3 tokens, lifetime 1, clock to 2 |
| `tokens_single_use` | finding: two overlapping refreshes | 2 requests, 1 user |
| `roles_propagation` | `SyncSettles`, `ClaimsFollowSync`, `ClaimsWereGranted` | 2 requests, 4 memberships, 1 change, clock to 6 |
| `roles_sign_in` | finding: a role reaches claims without a sign-in | 1 request, 1 change |
| `roster` | `RosterCoversLists`, `RemovedMeansGone`, `AddedMeansListed`, `PlannedListsExist` | 2 requests, 3 lists (one hidden, one with an alias), 7 wishes (by alias, by ID, of another domain, misspelt), reads of the login group and of another list lag |
| `directory` | `ChosenNameKept`, `NoStrangerHasRow`, `LastAnswerWins`, `ReportAccountsForRows`, `SyncCoversMembers`, `RestartSeedsNothing` | 2 people, 2 requests, sheets of up to 2 of 5 answers, 1 join or departure, 1 restart |
| `directory_spelling` | finding: a second row for an address with capitals | 1 request, 1 answer, 1 restart |
| `reports` | `StableReported`, `ViewsAgree`, `AdminsAgree` | the roster beside one of the others, 2 people, 3 lists (one hidden, one unknown to the chart, one nested), cold or stale caches, 1 change |
| `lifecycle` | `LayersKept`, `SoundToServe`, `ChartMeansItsFile`, `RangeCoversColumns`, `GracefulExit`, `TokensAcrossRestarts`; `StartsServing`, `ShutdownEnds` | 50 deployments, 2 requests of up to 2 statements, 2 starts |
| `lifecycle_domain` | finding: a domain set empty stays the default | 4 deployments |

Why the bounds suffice: every race in this code is between two requests over one
list, row or token (a third can only repeat what one of the two does), so two
actors reach each; a write and two spellings are what it takes to be read under
another name (that any number of writers behave is proved, below); a restart
repeats from a state like the first.  Clocks run past the last deadline a run can
set (propagation + lifetime + call, or delay + request + token lifetime), so each
window can open and close: `StaleAtMostTTL` needs a read at 4 of a write at 0,
`ClaimsFollowSync` a sync at 3 after a change at 0 and a token check at 6.
`caches` has `Suppress = 0`, so that the generation and not the window has to do
the work.  Two answers are what it takes for one to supersede another, be skipped
beside it or be somebody else's; one restart, for a sync to meet its own work.
In `reports` every pair of answers that `ViewsAgree` can compare occurs but two
rosters, whose reads are the same; a change and an entry that already hides one
make two versions of every list that matters.  The deployments of `lifecycle` are
one that works and those that differ from it by one setting in one layer, by one
flaw of the chart, or in the environment: layers are merged setting by setting, so
two differences meet only where the run has them meet (a secret emptied by `.env`
over the process's, debug over a default secret).  Columns at Z, AZ, ZZ and AAA
are where base 26 without a zero carries.  With nobody on the list and the bounds
used up the server of `directory` idles, and a process of `lifecycle` may have
ended for the last time, so these do not check for deadlock.

Four runs show where the code and its comments or documents part; `PROJECT.json`
quotes them.  `tokens_single_use`: check and inactivation are separate
statements.  `roles_sign_in`: profile reads write the role back, and refreshes
mint it.  `directory_spelling`: the sync's conflict is on the exact address, every
lookup on the lowered one.  `lifecycle_domain`: to every layer an empty value is
one that was not set.  Three more disagreements are among the hazards.  A fetch
slower than the suppression window escapes it, because the window is compared at
the store (`cache.go:129`).  A removal right after an add misses the list just
written when reads of that list lag (`membership/service.go:378`, where 258-261
say that a membership just created may not show): `RosterCoversLists` and
`RemovedMeansGone` therefore say that what may be left is what Google did not show
the removal, and nothing else.  And `main.go:53-56` bounds the sync with a timeout
that does not reach the exchange of its tokens: both clients are built on a context
that does not end (`directory.go:167-168`, `googlegroup/service.go:179-180`).

**Fairness.**  `GroupCaches`: weak fairness of the steps the process itself takes,
`OwnStep` of each reader and `WriterStep`: a goroutine inside the service is always
scheduled again.  Nothing makes Google answer a read: its client has no timeout
(`googlegroup/service.go:179-180`), the server sets none (`main.go:274-277`), and
who joins a call in flight does not look at its own context.  So `ReadsReturn` is
about a read whose question Google does not leave unanswered for ever
(`[]<>~Asking(r)`): a joiner is not left behind by a call that has ended, and a call
that hangs from before a write holds up no read that starts after it, which is what
giving each write a new flight is for.  No reader or writer ever has to start, and
time need not pass.

`Lifecycle`: weak fairness of `main`'s own steps, among them the end of the sync's
context and the return of `Shutdown`, which both have a timeout, and of the database
answering a statement already sent, without which the pool never closes.  The end of
the context ends the sync's requests to Google (`SyncTimesOut` outside `Exchanging`)
but not the exchange of a token; `StartsServing` holds of a startup that does not
stay in one for ever (`[]<>(pc \notin Exchanging)`).  Otherwise Google need not
answer the sync, a handler need not go on, and nobody has to send a request or a
signal; a kill may come at any time, so the two liveness properties allow for it.
All the other properties are safety.

## Proofs

Each theorem holds for every value of the constants that satisfies the module's
`ASSUME`; TLC evaluates those on every run.  A theorem with a further hypothesis
says so below.

* `GroupCachesProofs`, freshness: `TypeCorrect`, `FreshAfterWriteHolds`,
  `EntriesPostdateClearsHolds`.  `FreshAfterWrite` alone is not inductive: that a
  finished read is fresh depends on the call it joined.  `FreshInv` adds that a
  returned write has been cleared from both caches and the flight group swapped
  since, that what a call in the current flight asked for is at least as new as
  any write returned when its members started, that a fetch still carrying the
  current generation began after the last clear, and that an entry does too.
  From the same invariant `KeepsPromiseHolds`: every step is one of
  `ReadAfterWrite` or changes nothing a client sees (`Seen`).
* Time: `StaleAtMostTTLHolds`, and `NoPreWriteListCachedHolds` under
  `Lag + MaxCall <= Suppress`.  `AgeInv` dates every list: an answer contains each
  write older than `Lag` at the moment it was given; an answer waits at most
  `MaxCall` for its store; an entry lives at most `TTL`; and a clear's window
  outlasts every answer that may still miss its write.  `LiveEntryKeptHolds` is an
  action property: a `get` finds an entry expired under one lock and drops it
  under another, where it looks again, as another may have been stored.
* `RefreshTokensProofs`: `TokenTypesCorrect`, `AcceptedUnspentHolds`,
  `CleanupTakesNothingHolds` (an action property).  `TokenInv` adds that a spent
  token's row, if it is still there, is inactive, and that a request about to
  inactivate or to answer presents a token that was issued.
* `RolePropagationProofs`: `RoleTypesCorrect`; `ClaimsWereGrantedHolds`
  (`GrantedInv`: an administrator's role, wherever it is held, is one the list has
  given); `SyncSettlesHolds` and `ClaimsFollowSyncHolds`.  `SettledInv` adds that
  a request begun after the list settled holds the role of now, that one begun
  before cannot outlive `MaxRequest`, and so what either writes or mints.
  `TimeInv` says that the list's versions are dated in order.  A step is first
  classed by what it does (`Begins`, `Reads`, `Stores`, `Mints`...), whichever of
  the three requests takes it.
* `RosterProofs`: `RosterTypesCorrect`; `PlannedListsExistHolds` (lemmas on
  `GroupKeys`: qualifying, shortening and `knownGroup` agree on what a key can
  reach in the account's domain); `AddedMeansListedHolds` (`Planned`: what is left
  to write is what was asked; `Done`: what is not left is on Google already);
  `RosterCoversListsHolds` and `RemovedMeansGoneHolds`, whichever lists lag: `Kept`
  says that the login group is not among what a removal drops one by one, `Gone`
  that a list no longer to be dropped is empty of the person or was not shown to
  the removal, unless an add has run.
* `DirectoryProofs`: `NoStrangerHasRowHolds`; and where Google writes addresses in
  lower case (`GoogleLowers`), `OneRowPerPersonHolds` and `ChosenNameKeptHolds`.
  `DirectoryInv` adds that whoever passed the gate, or is in the list the sync
  read, has been on the list; that a token names a row of its owner; that who
  chose a name is signed in; and, under `GoogleLowers`, that every stored address
  is in lower case, so that a sign-in cannot land on another row.
  `LastAnswerWinsHolds`, `ReportAccountsForRowsHolds`, `SyncCoversMembersHolds` and
  `RestartSeedsNothingHolds` rest on what `parseRows` makes of a sheet of any length
  (`Parsed`, for each prefix of the sheet), and on `SyncInv`: while entries are
  seeded, those dealt with are the `Due` ones no longer in the list, each counted
  once; what a finished sync covered stays `Covered` while nothing changes.
* `OrgChartProofs`: lemmas.  `IndexResult`: `index` ends without an error exactly
  when the file is `Consistent`.  `ChartMeans`: order, section and owner are then
  those of the file.  One loop at a time: an error is kept, and without one the
  tables hold what was placed so far (`PlaceGroupsResult`, `PlaceSectionsResult`,
  `OwnGroupsResult`, `PlaceRolesResult`).
* `LifecycleProofs`: `LifecycleTypesCorrect` (`TypeInv` adds that a request with
  a statement running has one left); `EverySettingKept` (`LayersKept` for any contents of the
  layers: `Fieldwise` shows that merging the nested configs on their own is
  merging setting by setting, `LoadIsEffective` that four merges leave the last
  usable value); `OnlySoundIsServed` (`Checked` adds which of the deployment's parts
  each stage of startup has found good) and `ServedChartMeansItsFile`, both by the
  lemmas on `index`; `ExitIsGraceful` (`Unhurt` adds that a living process has no
  request cut off, and that one whose shutdown drained has none at all) and
  `TokensOutliveOnlyChosenSecrets` (`Signed` adds that the deployment and the boot
  determine the secret of every token); and `RangeCovers`: `columnLetter`, which
  is base 26 without a zero, is `columnIndex`'s inverse at every number
  (`InverseOfIndex`), and the sync runs only on columns that are letters (`Directed`).
* `ReportsProofs`: `ReportsTypesCorrect`, `StableIsReported`, `ViewsNeverDisagree`,
  `RosterNamesAdmins`.
  `Truthful` says of every local variable of a request that what it knows is so,
  but for what was touched since the request began (`SaysLists`, `SaysPeople`,
  `SaysRole`...: one for each kind of knowledge); `Honest` says the same of the
  caches, which is why `Hiding` counts as touched at the start.  A handler keeps it
  (one lemma `...Moves` each); a change touches what it changes (`Frame`).
  `SortedKeeps` and `SectionedKeeps` show that sorting and sectioning lose and
  invent no list and that what they make is `InOrder`: sections in the chart's
  order hold lists in the chart's order, because `index` numbers the lists section
  by section (`SectionsAscend`) and those it does not number come last.

The library's induction theorems take an operator as a parameter, which the
provers cannot instantiate.  Where a loop has to be followed, the induction is
over a set instead: the loop is a recursive function, the set holds the positions
at which its invariant is true, and a set that holds 0 and with each number the
next holds all of them (`NatSet`, `Upto`, `Recursion`).

Only model-checked: liveness (`ReadsReturn`, `StartsServing`, `ShutdownEnds`),
which is out of the prover's reach.  Every other property of the passing runs is
stated by a theorem; the hypotheses some of them have are above, and the runs
meet them, but for `directory_spelling`, which shows one to be needed.

## Assumptions and what is left out

* One clock serves the process, Google and the database.
* `MaxCall`, `MaxRequest`: a bound on a call or a request.  The server sets no
  timeout of its own on requests: the first is the hypothesis of
  `NoPreWriteListCachedHolds`, and without it the property does not hold.
* One process.  Another replica looks to this one like Google's console:
  `LoseResponse`, `ChangeList`.  The run `directory` lets another instance serve
  while this one starts, as in a rolling deployment.
* `Directory`: Google's display names and spellings of a person do not change,
  and the sheet only grows.
* `google_group.domain` is set, and the account has one domain
  (`googlegroup/service.go:525`); wishes may still name another.  No ID that Google
  makes up reads like an address's local part, and the login group is configured
  by its address.
* `Lifecycle`: migrations fail or not whatever the URL; a database URL is
  malformed when the pool cannot parse it; a column setting is read as a sequence
  of letters and of what is none.  Google's answers to the sync and what
  it writes are `Directory`'s.
* `Reports`: nobody is on a list that does not exist; the chart is one `Load`
  accepts, none of its sections is called `unsectioned`, and it names at most 2^30
  lists, the number the code keeps for those it does not name.  A read that reaches
  Google sees the lists as they are (the delay is in `GroupCaches` and `Roster`),
  and one edit is one membership.
* In `Roster`, nobody edits the same person through the group routes meanwhile,
  and the set of lists is constant.
* A suspended member of the login group is on the roster but cannot sign in; the
  comment at `membership/service.go:173` says these cannot drift apart.  No
  property takes the comment's side: `AdminsAgree` says what authority the roster
  reports for them.

Not modelled: the OAuth exchange, signatures and audiences of tokens and the OAuth
state parameter, which are cryptography and library code; validation of request
bodies and of profile fields; rendering of answers, the order of the roster's
entries, HTTP status codes and the translation of Google's errors into them; CORS
and tracing.  None of them keeps state that the modelled parts read.

## Plan

Done: every component with state of its own, and their proofs as listed above.
Next, in this order:

1. Proofs: the weakest hypothesis that will do in place of `GoogleLowers` in the
   theorems of `Directory`.
2. The sign-in from the redirect on: the state parameter's life, and what a user
   whose callback is repeated or late is told.

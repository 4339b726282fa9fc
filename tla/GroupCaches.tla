----------------------------- MODULE GroupCaches -----------------------------
(***************************************************************************)
(* The cached read path and the write path of internal/googlegroup: the    *)
(* list cache (cache.go), ListMembers with its singleflight, ListGroups,   *)
(* and the three member writes with the invalidation that follows them     *)
(* (service.go).                                                           *)
(*                                                                         *)
(* Data.  A Google list is represented by its version: the number of       *)
(* writes Google has applied.  All the member slots are spellings of one   *)
(* list (its address, its immutable ID), which is why an invalidation      *)
(* drops the whole cache and not one key.  Time is a counter of ticks.     *)
(*                                                                         *)
(* Processes.  Readers are requests inside ListMembers or ListGroups;      *)
(* writers are requests inside AddMember, UpdateMemberRole or              *)
(* RemoveMember, which differ only in the Google call they make.           *)
(***************************************************************************)
EXTENDS Integers, Sequences

CONSTANTS
    Readers, Writers,
    MemberSlots,   \* spellings of the mailing list's key
    AllGroups,     \* the one slot of the group cache (allGroupsCacheKey)
    Suppress,      \* writeSuppression, in ticks
    TTL,           \* cache lifetime of an entry, in ticks
    Lag,           \* a write is visible to every Google read this long after it
    MaxCall,       \* bound on the ticks from Google's answer to its set
    MaxNow, MaxWrites, MaxRestarts    \* bounds of the model

ASSUME ConstantsAssumption ==
    /\ {Suppress, TTL, Lag, MaxCall, MaxNow, MaxWrites, MaxRestarts} \subseteq Nat
    /\ AllGroups \notin MemberSlots

VARIABLES
    now,            \* the clock
    applied,        \* Google: applied[v] is when write v was applied
    entries,        \* both caches' maps: a function on the slots now cached
    generation,     \* per cache
    suppressUntil,  \* per cache
    flightId,       \* identity of the current memberFlight group
    pc, rd,         \* readers: where each is, and its local variables
    wpc, wver,      \* writers: where each is, and the version it wrote
    \* History, read by no guard: per cache the newest write whose clear has
    \* run, the newest write that returned, the version at the last start.
    cleared, returned, boot, restarts

google  == <<now, applied>>
process == <<entries, generation, suppressUntil, flightId>>
history == <<cleared, returned, boot, restarts>>
vars == <<google, process, pc, rd, wpc, wver, history>>

Caches == {"members", "groups"}
Slots == MemberSlots \cup {AllGroups}
CacheOf(k) == IF k = AllGroups THEN "groups" ELSE "members"
Larger(a, b) == IF a < b THEN b ELSE a
Version == Len(applied)

\* Where a reader may be.  A reader in Leading runs the function singleflight
\* was given (or, for ListGroups, is on its own); one in "wait" has joined.
Resting == {"idle", "done", "failed"}
Leading == {"recheck", "redrop", "begin", "fetch", "store", "deliver"}
ReaderPC == Resting \cup {"get", "drop", "flight", "join", "wait"} \cup Leading
WriterPC == {"idle", "clearMembers", "clearGroups", "swap"}

\* What a reader knows: the slot it reads; the newest write that had returned
\* when it started; its flight group; the generation it took; the version at
\* Google when it took it; the list it has, when Google gave that list out, and
\* when this reader took it.
Read == [slot: Slots, floor: Nat, flight: Nat, gen: Nat,
         since: Nat, list: Nat, seen: Nat, at: Nat]
Entry == [list: Nat, since: Nat, seen: Nat, expires: Nat]

StartOf(k) == [slot |-> k, floor |-> returned, flight |-> 0, gen |-> 0,
               since |-> 0, list |-> 0, seen |-> 0, at |-> 0]
Nothing == [StartOf(AllGroups) EXCEPT !.floor = 0]

Init ==
    /\ now = 0 /\ applied = <<>>
    /\ entries = [k \in {} |-> 0]
    /\ generation = [c \in Caches |-> 0]
    /\ suppressUntil = [c \in Caches |-> 0]
    /\ flightId = 1
    /\ returned = 0
    /\ pc = [r \in Readers |-> "idle"] /\ rd = [r \in Readers |-> Nothing]
    /\ wpc = [w \in Writers |-> "idle"] /\ wver = [w \in Writers |-> 0]
    /\ cleared = [c \in Caches |-> 0]
    /\ boot = 0 /\ restarts = 0

------------------------------------------------------------------------------
(* The cache. *)

NeverExpired(k) == FALSE
Expired(k) == now > entries[k].expires
Live(k) == k \in DOMAIN entries /\ ~Expired(k)

MayStoreAnyGeneration(c, g) == now >= suppressUntil[c]
MayStoreAtOnce(c, g) == g = generation[c]
\* set refuses a result fetched before the last clear, and any result inside
\* the suppression window.
MayStore(c, g) == g = generation[c] /\ now >= suppressUntil[c]

Drop(S) == entries' = [k \in DOMAIN entries \ S |-> entries[k]]
PutUnderCacheName(k, e) ==
    entries' = [x \in DOMAIN entries \cup {CacheOf(k)} |->
                   IF x = CacheOf(k) THEN e ELSE entries[x]]
Put(k, e) == entries' = [x \in DOMAIN entries \cup {k} |->
                            IF x = k THEN e ELSE entries[x]]

Clear(c) ==
    /\ Drop({k \in Slots : CacheOf(k) = c})
    /\ generation' = [generation EXCEPT ![c] = @ + 1]
    /\ suppressUntil' = [suppressUntil EXCEPT ![c] = now + Suppress]

------------------------------------------------------------------------------
(* Reads. *)

Goto(r, l) == pc' = [pc EXCEPT ![r] = l]
Update(r, new) == rd' = [rd EXCEPT ![r] = new]

StartRead(r, k) ==
    /\ pc[r] \in Resting
    /\ Goto(r, "get") /\ Update(r, StartOf(k))
    /\ UNCHANGED <<google, process, wpc, wver, history>>

\* A live entry is copied out.
Hit(r) == LET e == entries[rd[r].slot] IN
    /\ Live(rd[r].slot)
    /\ Update(r, [rd[r] EXCEPT !.since = e.since, !.list = e.list,
                               !.seen = e.seen, !.at = now])

\* After a miss: ListMembers takes the flight group, ListGroups fetches.
AfterMiss(r) == IF CacheOf(rd[r].slot) = "members" THEN "flight" ELSE "begin"

\* get, up to the release of the read lock.
Get(r) ==
    /\ pc[r] = "get"
    /\ \/ Hit(r) /\ Goto(r, "done")
       \/ rd[r].slot \notin DOMAIN entries /\ Goto(r, AfterMiss(r)) /\ rd' = rd
       \/ /\ rd[r].slot \in DOMAIN entries /\ Expired(rd[r].slot)
          /\ Goto(r, "drop") /\ rd' = rd
    /\ UNCHANGED <<google, process, wpc, wver, history>>

\* The same call at the top of fetchMembers, under the flight.
Recheck(r) ==
    /\ pc[r] = "recheck"
    /\ \/ Hit(r) /\ Goto(r, "deliver")
       \/ rd[r].slot \notin DOMAIN entries /\ Goto(r, "begin") /\ rd' = rd
       \/ /\ rd[r].slot \in DOMAIN entries /\ Expired(rd[r].slot)
          /\ Goto(r, "redrop") /\ rd' = rd
    /\ UNCHANGED <<google, process, wpc, wver, history>>

DroppedUnchecked(k) == {k} \cap DOMAIN entries

\* The expired entry is looked at again under the write lock: by now another
\* reader may have stored a live one.
DroppedBy(k) == {k} \cap {x \in DOMAIN entries : Expired(x)}

DropExpired(r) ==
    /\ pc[r] \in {"drop", "redrop"}
    /\ Drop(DroppedBy(rd[r].slot))
    /\ Goto(r, IF pc[r] = "drop" THEN AfterMiss(r) ELSE "begin")
    /\ UNCHANGED <<google, generation, suppressUntil, flightId, rd, wpc, wver, history>>

TakeFlight(r) ==
    /\ pc[r] = "flight"
    /\ Goto(r, "join") /\ Update(r, [rd[r] EXCEPT !.flight = flightId])
    /\ UNCHANGED <<google, process, wpc, wver, history>>

SameCall(i, j) == rd[i].slot = rd[j].slot /\ rd[i].flight = rd[j].flight

\* singleflight.Do: join the call in flight for this key, or lead a new one.
Join(r) ==
    /\ pc[r] = "join"
    /\ \/ (\E l \in Readers : pc[l] \in Leading /\ SameCall(l, r)) /\ Goto(r, "wait")
       \/ ~(\E l \in Readers : pc[l] \in Leading /\ SameCall(l, r)) /\ Goto(r, "recheck")
    /\ UNCHANGED <<google, process, rd, wpc, wver, history>>

Begin(r) ==
    /\ pc[r] = "begin"
    /\ Goto(r, "fetch")
    /\ Update(r, [rd[r] EXCEPT !.gen = generation[CacheOf(rd[r].slot)],
                               !.since = Version])
    /\ UNCHANGED <<google, process, wpc, wver, history>>

\* Google's directory is eventually consistent: a read may miss the writes
\* applied less than Lag ago.
Readable == {v \in 0..Version : \A u \in v+1..Version : now < applied[u] + Lag}

Answer(r) ==
    /\ pc[r] = "fetch"
    /\ Goto(r, "store")
    /\ \E v \in Readable :
          Update(r, [rd[r] EXCEPT !.list = v, !.seen = now, !.at = now])
    /\ UNCHANGED <<google, process, wpc, wver, history>>

Store(r) == LET k == rd[r].slot IN
    /\ pc[r] = "store"
    /\ Goto(r, "deliver")
    /\ \/ /\ MayStore(CacheOf(k), rd[r].gen)
          /\ Put(k, [list |-> rd[r].list, since |-> rd[r].since,
                     seen |-> rd[r].seen, expires |-> now + TTL])
       \/ ~MayStore(CacheOf(k), rd[r].gen) /\ entries' = entries
    /\ UNCHANGED <<google, generation, suppressUntil, flightId, rd, wpc, wver, history>>

\* The leader, and everybody who joined its call.
Sharing(r) == {r} \cup {j \in Readers : pc[j] = "wait" /\ SameCall(j, r)}

\* singleflight hands one result to them all.
Deliver(r) ==
    /\ pc[r] = "deliver"
    /\ pc' = [j \in Readers |-> IF j \in Sharing(r) THEN "done" ELSE pc[j]]
    /\ rd' = [j \in Readers |->
                IF j \in Sharing(r)
                THEN [rd[r] EXCEPT !.floor = rd[j].floor, !.flight = 0, !.gen = 0]
                ELSE rd[j]]
    /\ UNCHANGED <<google, process, wpc, wver, history>>

FetchRetried(r) ==
    /\ pc[r] = "fetch"
    /\ Goto(r, "begin") /\ UNCHANGED rd
    /\ UNCHANGED <<google, process, wpc, wver, history>>

FetchFailsAsEmpty(r) ==
    /\ pc[r] = "fetch"
    /\ pc' = [j \in Readers |-> IF j \in Sharing(r) THEN "done" ELSE pc[j]]
    /\ rd' = [j \in Readers |-> IF j \in Sharing(r) THEN Nothing ELSE rd[j]]
    /\ UNCHANGED <<google, process, wpc, wver, history>>

\* Google's error, or the end of the leader's context, fails them all.
FetchFails(r) ==
    /\ pc[r] = "fetch"
    /\ pc' = [j \in Readers |-> IF j \in Sharing(r) THEN "failed" ELSE pc[j]]
    /\ rd' = [j \in Readers |-> IF j \in Sharing(r) THEN Nothing ELSE rd[j]]
    /\ UNCHANGED <<google, process, wpc, wver, history>>

\* What the service does by itself, and what it waits for Google to do.
OwnStep(r) ==
    \/ Get(r) \/ Recheck(r) \/ DropExpired(r) \/ TakeFlight(r) \/ Join(r)
    \/ Begin(r) \/ Store(r) \/ Deliver(r)
ReaderStep(r) == OwnStep(r) \/ Answer(r) \/ FetchFails(r)

------------------------------------------------------------------------------
(* Writes. *)

\* Google applies the write and says so.
ApplyWrite(w) ==
    /\ wpc[w] = "idle" /\ Version < MaxWrites
    /\ applied' = Append(applied, now)
    /\ wpc' = [wpc EXCEPT ![w] = "clearMembers"]
    /\ wver' = [wver EXCEPT ![w] = Version + 1]
    /\ UNCHANGED <<now, process, pc, rd, history>>

\* Google applies the write but the call errors: the service returns without
\* invalidating.  A change made by another replica, or in Google's own console,
\* looks the same from here.
LoseResponse(w) ==
    /\ wpc[w] = "idle" /\ Version < MaxWrites
    /\ applied' = Append(applied, now)
    /\ UNCHANGED <<now, process, pc, rd, wpc, wver, history>>

ClearMembers(w) ==
    /\ wpc[w] = "clearMembers"
    /\ Clear("members")
    /\ wpc' = [wpc EXCEPT ![w] = "clearGroups"]
    /\ cleared' = [cleared EXCEPT !["members"] = Larger(@, wver[w])]
    /\ UNCHANGED <<google, flightId, pc, rd, wver, returned, boot, restarts>>

ClearGroups(w) ==
    /\ wpc[w] = "clearGroups"
    /\ Clear("groups")
    /\ wpc' = [wpc EXCEPT ![w] = "swap"]
    /\ cleared' = [cleared EXCEPT !["groups"] = Larger(@, wver[w])]
    /\ UNCHANGED <<google, flightId, pc, rd, wver, returned, boot, restarts>>

FlightKept == flightId
SwappedFlight == flightId + 1

\* The last step of invalidateCaches; then the write returns to its caller.
SwapFlight(w) ==
    /\ wpc[w] = "swap"
    /\ flightId' = SwappedFlight
    /\ returned' = Larger(returned, wver[w])
    /\ wpc' = [wpc EXCEPT ![w] = "idle"]
    /\ wver' = [wver EXCEPT ![w] = 0]
    /\ UNCHANGED <<google, entries, generation, suppressUntil, pc, rd, cleared, boot, restarts>>

WriterStep(w) == ClearMembers(w) \/ ClearGroups(w) \/ SwapFlight(w)

------------------------------------------------------------------------------
(* The environment. *)

\* Time passes, but never beyond what a call in progress is allowed.
Tick ==
    /\ now < MaxNow
    /\ \A r \in Readers : pc[r] = "store" => now < rd[r].seen + MaxCall
    /\ now' = now + 1
    /\ UNCHANGED <<applied, process, pc, rd, wpc, wver, history>>

\* The process dies and starts again: its caches are empty, its requests gone.
Restart ==
    /\ restarts < MaxRestarts
    /\ restarts' = restarts + 1 /\ boot' = Version
    /\ entries' = [k \in {} |-> 0]
    /\ generation' = [c \in Caches |-> 0]
    /\ suppressUntil' = [c \in Caches |-> 0]
    /\ flightId' = flightId + 1
    /\ pc' = [r \in Readers |-> "idle"] /\ rd' = [r \in Readers |-> Nothing]
    /\ wpc' = [w \in Writers |-> "idle"] /\ wver' = [w \in Writers |-> 0]
    /\ UNCHANGED <<google, cleared, returned>>

Next ==
    \/ \E r \in Readers : ReaderStep(r) \/ \E k \in Slots : StartRead(r, k)
    \/ \E w \in Writers : ApplyWrite(w) \/ LoseResponse(w) \/ WriterStep(w)
    \/ Tick
    \/ Restart

\* A goroutine inside the service keeps running.  Nobody has to start a read or
\* a write, and nothing makes Google answer: its client is built without a
\* timeout, the server sets none, and a joiner does not watch its own context.
Fairness == /\ \A r \in Readers : WF_vars(OwnStep(r))
            /\ \A w \in Writers : WF_vars(WriterStep(w))

Spec == Init /\ [][Next]_vars /\ Fairness

------------------------------------------------------------------------------
(* Properties. *)

GoogleType == now \in Nat /\ applied \in Seq(Nat)
CacheType ==
    /\ DOMAIN entries \subseteq Slots
    /\ \A k \in DOMAIN entries : entries[k] \in Entry
    /\ generation \in [Caches -> Nat] /\ suppressUntil \in [Caches -> Nat]
    /\ flightId \in Nat
ReaderType == pc \in [Readers -> ReaderPC] /\ rd \in [Readers -> Read]
WriterType == wpc \in [Writers -> WriterPC] /\ wver \in [Writers -> Nat]
HistoryType ==
    /\ cleared \in [Caches -> Nat]
    /\ returned \in Nat /\ boot \in Nat /\ restarts \in Nat

\* Every variable keeps its type; the caches hold entries only under slots.
TypeOK == GoogleType /\ CacheType /\ ReaderType /\ WriterType /\ HistoryType

\* A read that starts after a write has returned is never answered with what
\* Google was asked before that write: not from the cache, not by joining a
\* call that was already in flight (service.go, memberFlight and
\* invalidateCaches).
FreshAfterWrite ==
    \A r \in Readers : pc[r] = "done" => rd[r].since >= rd[r].floor

\* Nothing in a cache was asked of Google before the last write that cleared
\* it: a fetch overtaken by an invalidation does not resurrect the old list
\* (cache.go, generation).
EntriesPostdateClears ==
    \A k \in DOMAIN entries : entries[k].since >= cleared[CacheOf(k)]

\* A cached list contains every write this process has invalidated for, even
\* though Google may answer with a list that does not (cache.go,
\* writeSuppression).
NoPreWriteListCached ==
    \A k \in DOMAIN entries :
        cleared[CacheOf(k)] > boot => entries[k].list >= cleared[CacheOf(k)]

\* A change whose invalidation never ran - its response was lost, it was made
\* elsewhere - is hidden from a reader no longer than the propagation, one
\* lifetime and one call (cache.go, expiresAt).
StaleAtMostTTL ==
    \A r \in Readers : pc[r] = "done" =>
        \A v \in 1..Version :
            applied[v] + Lag + TTL + MaxCall < rd[r].at => rd[r].list >= v

\* A live entry leaves the cache only when its cache is cleared or the process
\* restarts: the reader that comes to delete an expired entry never deletes the
\* one another reader has just stored (cache.go, the re-check in get).
LiveEntryKept ==
    [][\A k \in DOMAIN entries :
          Live(k) => \/ k \in DOMAIN entries'
                     \/ generation'[CacheOf(k)] # generation[CacheOf(k)]
                     \/ restarts' # restarts]_vars

\* Google has been asked for r, by r or by the leader it joined, after the last
\* write that had returned when r started, and has not answered.
Asking(r) ==
    \E l \in Readers :
        /\ pc[l] = "fetch" /\ rd[l].since >= rd[r].floor
        /\ l = r \/ (pc[r] = "wait" /\ SameCall(r, l))

\* Every read comes back, with a list or an error, unless Google leaves the very
\* question it asks unanswered for ever: no joiner is left waiting for a call
\* that has ended, and a call that hangs from before a write holds up no read
\* that starts after it (service.go, listMembers, memberFlight).
ReadsReturn ==
    \A r \in Readers : []<>~Asking(r) => ((pc[r] \notin Resting) ~> (pc[r] \in Resting))

------------------------------------------------------------------------------
(* The cached reads implement reads of a directory that has no cache. *)

AbstractStatus(l) ==
    IF l = "done" THEN "answered" ELSE IF l \in Resting THEN "resting" ELSE "reading"

Promise == INSTANCE ReadAfterWrite WITH
    version <- Version,
    acknowledged <- returned,
    status <- [r \in Readers |-> AbstractStatus(pc[r])],
    floor <- [r \in Readers |-> rd[r].floor],
    since <- [r \in Readers |-> IF pc[r] = "done" THEN rd[r].since ELSE 0]

\* Whatever cache, joined call or fetch an answer comes from, the caller sees
\* only what ReadAfterWrite allows (service.go, ListMembers and ListGroups).
KeepsPromise == Promise!Spec
==============================================================================

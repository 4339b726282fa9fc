-------------------------- MODULE GroupCachesProofs --------------------------
(***************************************************************************)
(* Theorems about GroupCaches, for any number of readers, writers, slots   *)
(* and any timing constants.                                               *)
(***************************************************************************)
EXTENDS GroupCaches, TLAPS

USE DEF Caches, Slots, Version, google, process, history

LEMMA CacheOfType == \A k : CacheOf(k) \in Caches
BY DEF CacheOf

LEMMA LargerType == \A a, b \in Nat : /\ Larger(a, b) \in Nat
                                      /\ Larger(a, b) >= a /\ Larger(a, b) >= b
                                      /\ Larger(a, b) \in {a, b}
BY DEF Larger

LEMMA StartType == ASSUME HistoryType, NEW k \in Slots
                   PROVE  StartOf(k) \in Read /\ Nothing \in Read
BY DEF HistoryType, Nothing, StartOf, Read

\* What a reader takes from an entry, from the generation, from Google.
LEMMA UpdateType ==
    ASSUME NEW old \in Read, NEW a \in Nat, NEW b \in Nat, NEW c \in Nat, NEW d \in Nat
    PROVE  /\ [old EXCEPT !.since = a, !.list = b, !.seen = c, !.at = d] \in Read
           /\ [old EXCEPT !.flight = a] \in Read
           /\ [old EXCEPT !.gen = a, !.since = b] \in Read
           /\ [old EXCEPT !.list = a, !.seen = b, !.at = c] \in Read
           /\ [old EXCEPT !.floor = a, !.flight = b, !.gen = c] \in Read
BY DEF Read

LEMMA TypeInit == Init => TypeOK
<1> SUFFICES ASSUME Init PROVE TypeOK
  OBVIOUS
<1>1. GoogleType /\ CacheType /\ WriterType /\ HistoryType
  BY DEF Init, GoogleType, CacheType, WriterType, WriterPC, HistoryType
<1>2. Nothing \in Read
  BY <1>1, StartType
<1>3. QED
  BY <1>1, <1>2 DEF Init, TypeOK, ReaderType, ReaderPC, Resting

LEMMA HitType ==
    ASSUME TypeOK, NEW r \in Readers, Hit(r)
    PROVE  rd' \in [Readers -> Read]
<1> DEFINE e == entries[rd[r].slot]
<1>1. e \in Entry /\ rd \in [Readers -> Read] /\ now \in Nat
  BY DEF TypeOK, GoogleType, CacheType, ReaderType, Hit, Live
<1>2. e.since \in Nat /\ e.list \in Nat /\ e.seen \in Nat
  BY <1>1 DEF Entry
<1>3. [rd[r] EXCEPT !.since = e.since, !.list = e.list, !.seen = e.seen, !.at = now] \in Read
  BY <1>1, <1>2, UpdateType
<1>4. QED
  BY <1>1, <1>3 DEF Hit, Update

LEMMA ClearType ==
    ASSUME CacheType, now \in Nat, NEW c \in Caches, Clear(c), UNCHANGED flightId
    PROVE  CacheType'
<1>1. /\ DOMAIN entries' \subseteq DOMAIN entries
      /\ \A k \in DOMAIN entries' : entries'[k] = entries[k]
  BY DEF Clear, Drop
<1>2. generation' \in [Caches -> Nat]
  BY DEF Clear, CacheType
<1>3. suppressUntil' \in [Caches -> Nat]
  <2>1. now + Suppress \in Nat
    BY ConstantsAssumption
  <2>2. QED
    BY <2>1 DEF Clear, CacheType
<1>4. QED
  BY <1>1, <1>2, <1>3 DEF CacheType

LEMMA TypeStep == TypeOK /\ [Next]_vars => TypeOK'
<1> SUFFICES ASSUME TypeOK, [Next]_vars PROVE TypeOK'
  OBVIOUS
<1> USE ConstantsAssumption, CacheOfType
<1> USE DEF TypeOK, GoogleType, CacheType, ReaderType, WriterType, HistoryType
<1> USE DEF Goto, Update, ReaderPC, Resting, Leading
<1>1. ASSUME NEW r \in Readers, NEW k \in Slots, StartRead(r, k) PROVE TypeOK'
  BY <1>1, StartType DEF StartRead
<1>2. ASSUME NEW r \in Readers, Get(r) PROVE TypeOK'
  <2>1. rd' \in [Readers -> Read]
    BY <1>2, HitType DEF Get
  <2>2. QED
    BY <1>2, <2>1 DEF Get, AfterMiss
<1>3. ASSUME NEW r \in Readers, Recheck(r) PROVE TypeOK'
  <2>1. rd' \in [Readers -> Read]
    BY <1>3, HitType DEF Recheck
  <2>2. QED
    BY <1>3, <2>1 DEF Recheck
<1>4. ASSUME NEW r \in Readers, DropExpired(r) PROVE TypeOK'
  BY <1>4 DEF DropExpired, Drop, AfterMiss
<1>5. ASSUME NEW r \in Readers, TakeFlight(r) PROVE TypeOK'
  BY <1>5, UpdateType DEF TakeFlight
<1>6. ASSUME NEW r \in Readers, Join(r) PROVE TypeOK'
  BY <1>6 DEF Join
<1>7. ASSUME NEW r \in Readers, Begin(r) PROVE TypeOK'
  <2>1. rd[r] \in Read /\ generation[CacheOf(rd[r].slot)] \in Nat /\ Len(applied) \in Nat
    OBVIOUS
  <2>2. [rd[r] EXCEPT !.gen = generation[CacheOf(rd[r].slot)], !.since = Len(applied)] \in Read
    BY <2>1, UpdateType
  <2>3. QED
    BY <1>7, <2>2 DEF Begin
<1>8. ASSUME NEW r \in Readers, Answer(r) PROVE TypeOK'
  <2>1. PICK v \in Readable : Update(r, [rd[r] EXCEPT !.list = v, !.seen = now, !.at = now])
    BY <1>8 DEF Answer
  <2>2. rd[r] \in Read /\ v \in Nat
    BY DEF Readable
  <2>3. [rd[r] EXCEPT !.list = v, !.seen = now, !.at = now] \in Read
    BY <2>2, UpdateType
  <2>4. QED
    BY <1>8, <2>1, <2>3 DEF Answer
<1>9. ASSUME NEW r \in Readers, Store(r) PROVE TypeOK'
  <2>1. rd[r] \in Read /\ now + TTL \in Nat
    OBVIOUS
  <2>2. [list |-> rd[r].list, since |-> rd[r].since,
         seen |-> rd[r].seen, expires |-> now + TTL] \in Entry
    BY <2>1 DEF Read, Entry
  <2>3. rd[r].slot \in Slots
    BY <2>1 DEF Read
  <2>4. /\ DOMAIN entries' \subseteq Slots
        /\ \A k \in DOMAIN entries' : entries'[k] \in Entry
    BY <1>9, <2>2, <2>3 DEF Store, Put
  <2>5. QED
    BY <1>9, <2>4 DEF Store
<1>10. ASSUME NEW r \in Readers, Deliver(r) PROVE TypeOK'
  <2>1. \A j \in Readers :
          [rd[r] EXCEPT !.floor = rd[j].floor, !.flight = 0, !.gen = 0] \in Read
    <3>1. rd[r] \in Read /\ \A j \in Readers : rd[j].floor \in Nat
      BY DEF Read
    <3>2. QED
      BY <3>1, UpdateType
  <2>2. rd' \in [Readers -> Read]
    BY <1>10, <2>1 DEF Deliver
  <2>3. QED
    BY <1>10, <2>2 DEF Deliver
<1>11. ASSUME NEW r \in Readers, FetchFails(r) PROVE TypeOK'
  <2>1. Nothing \in Read
    BY StartType
  <2>2. pc' \in [Readers -> ReaderPC]
    BY <1>11 DEF FetchFails
  <2>3. rd' \in [Readers -> Read]
    BY <1>11, <2>1 DEF FetchFails
  <2>4. UNCHANGED <<google, process, wpc, wver, history>>
    BY <1>11 DEF FetchFails
  <2>5. QED
    BY <2>2, <2>3, <2>4
<1>12. ASSUME NEW w \in Writers, ApplyWrite(w) PROVE TypeOK'
  <2>1. applied' \in Seq(Nat)
    BY <1>12 DEF ApplyWrite
  <2>2. wpc' \in [Writers -> WriterPC]
    BY <1>12 DEF ApplyWrite, WriterPC
  <2>3. wver' \in [Writers -> Nat]
    <3>1. Version + 1 \in Nat
      OBVIOUS
    <3>2. QED
      BY <1>12, <3>1 DEF ApplyWrite
  <2>4. UNCHANGED <<now, process, pc, rd, history>>
    BY <1>12 DEF ApplyWrite
  <2>5. QED
    BY <2>1, <2>2, <2>3, <2>4
<1>13. ASSUME NEW w \in Writers, LoseResponse(w) PROVE TypeOK'
  BY <1>13 DEF LoseResponse
<1>14. ASSUME NEW w \in Writers, ClearMembers(w) PROVE TypeOK'
  <2>1. Larger(cleared["members"], wver[w]) \in Nat
    BY LargerType
  <2>2. QED
    BY <1>14, <2>1, ClearType DEF ClearMembers, WriterPC
<1>15. ASSUME NEW w \in Writers, ClearGroups(w) PROVE TypeOK'
  <2>1. Larger(cleared["groups"], wver[w]) \in Nat
    BY LargerType
  <2>2. QED
    BY <1>15, <2>1, ClearType DEF ClearGroups, WriterPC
<1>16. ASSUME NEW w \in Writers, SwapFlight(w) PROVE TypeOK'
  <2>1. Larger(returned, wver[w]) \in Nat
    BY LargerType
  <2>2. QED
    BY <1>16, <2>1 DEF SwapFlight, SwappedFlight, WriterPC
<1>17. CASE Tick
  BY <1>17 DEF Tick
<1>18. CASE Restart
  BY <1>18, StartType DEF Restart, WriterPC
<1>19. CASE UNCHANGED vars
  BY <1>19 DEF vars
<1>20. QED
  BY <1>1, <1>2, <1>3, <1>4, <1>5, <1>6, <1>7, <1>8, <1>9, <1>10, <1>11, <1>12,
     <1>13, <1>14, <1>15, <1>16, <1>17, <1>18, <1>19
     DEF Next, ReaderStep, OwnStep, WriterStep

\* Every reachable state is well typed: the state of GroupCaches, that is of
\* both caches, the flight group and every request in progress.
THEOREM TypeCorrect == Spec => []TypeOK
BY TypeInit, TypeStep, PTL DEF Spec

------------------------------------------------------------------------------
(* Freshness.  The generation and the flight group are what make an answer  *)
(* new enough; neither is visible in FreshAfterWrite, so the invariant says *)
(* what each of them guarantees.                                            *)

\* Readers whose question to Google, or whose cache hit, is settled.
Settled == {"fetch", "store", "deliver"}

\* A write's version is cleared from each cache once it is past that clear.
WritersInv ==
    \A w \in Writers :
        /\ wver[w] <= Version
        /\ wpc[w] \in {"clearGroups", "swap"} => wver[w] <= cleared["members"]
        /\ wpc[w] = "swap" => wver[w] <= cleared["groups"]

ClearedInv == \A c \in Caches : returned <= cleared[c] /\ cleared[c] <= Version

EntriesInv ==
    \A k \in DOMAIN entries :
        /\ cleared[CacheOf(k)] <= entries[k].since
        /\ entries[k].since <= Version

\* A fetch that carries the current generation began after the last clear.
FetchInv ==
    \A r \in Readers : pc[r] \in {"fetch", "store"} =>
        /\ rd[r].gen <= generation[CacheOf(rd[r].slot)]
        /\ rd[r].gen = generation[CacheOf(rd[r].slot)]
              => cleared[CacheOf(rd[r].slot)] <= rd[r].since

ReadersInv ==
    \A r \in Readers :
        /\ rd[r].floor <= returned
        /\ pc[r] \in Settled \cup {"done"} =>
              rd[r].floor <= rd[r].since /\ rd[r].since <= Version

\* A call led in the current flight group began after every returned write.
FlightInv ==
    /\ flightId >= 1
    /\ \A r \in Readers :
          /\ rd[r].flight <= flightId
          /\ pc[r] \in Settled /\ rd[r].flight = flightId => returned <= rd[r].since

\* A call is new enough for everybody who has joined it, or is about to.
JoinInv ==
    \A l, j \in Readers :
        pc[l] \in Settled /\ pc[j] \in {"join", "wait"} /\ SameCall(l, j)
            => rd[j].floor <= rd[l].since

FreshInv == /\ WritersInv /\ ClearedInv /\ EntriesInv /\ FetchInv
            /\ ReadersInv /\ FlightInv /\ JoinInv

LEMMA FreshInit == Init => FreshInv
<1> SUFFICES ASSUME Init PROVE FreshInv
  OBVIOUS
<1> USE DEF Init
<1>1. WritersInv /\ ClearedInv /\ EntriesInv
  BY DEF WritersInv, ClearedInv, EntriesInv, CacheOf
<1>2. FetchInv /\ ReadersInv /\ FlightInv /\ JoinInv
  BY DEF FetchInv, ReadersInv, FlightInv, JoinInv, Settled, Nothing, StartOf
<1>3. QED
  BY <1>1, <1>2 DEF FreshInv

\* The part of the invariant that says nothing of readers, and the part that
\* is only about them.
LEMMA SameProcess ==
    ASSUME FreshInv, UNCHANGED <<google, entries, wpc, wver, history>>
    PROVE  (WritersInv /\ ClearedInv /\ EntriesInv)'
BY DEF FreshInv, WritersInv, ClearedInv, EntriesInv

LEMMA SameReaders ==
    ASSUME FreshInv, UNCHANGED <<pc, rd, generation, flightId, cleared, returned>>,
           Len(applied) \in Nat, Len(applied') \in Nat, Len(applied) <= Len(applied'),
           TypeOK
    PROVE  (FetchInv /\ ReadersInv /\ FlightInv /\ JoinInv)'
<1>1. FetchInv' /\ FlightInv' /\ JoinInv'
  BY DEF FreshInv, FetchInv, FlightInv, JoinInv, SameCall
<1>2. ReadersInv'
  BY DEF FreshInv, ReadersInv, TypeOK, ReaderType, Read
<1>3. QED
  BY <1>1, <1>2

\* What a hit gives the reader is at least as new as the last clear of its
\* cache, and so as every write that has returned.
LEMMA HitFresh ==
    ASSUME TypeOK, FreshInv, NEW r \in Readers, Hit(r)
    PROVE  /\ rd'[r].slot = rd[r].slot /\ rd'[r].floor = rd[r].floor
           /\ rd'[r].flight = rd[r].flight
           /\ returned <= rd'[r].since /\ rd'[r].since <= Version
           /\ rd'[r].since \in Nat
           /\ \A j \in Readers \ {r} : rd'[j] = rd[j]
<1> DEFINE e == entries[rd[r].slot]
<1>1. e \in Entry /\ rd \in [Readers -> Read] /\ rd[r].slot \in DOMAIN entries
  BY DEF TypeOK, CacheType, ReaderType, Hit, Live
<1>2. cleared[CacheOf(rd[r].slot)] <= e.since /\ e.since <= Version
  BY <1>1 DEF FreshInv, EntriesInv
<1>3. returned <= cleared[CacheOf(rd[r].slot)]
  BY CacheOfType DEF FreshInv, ClearedInv
<1>4. e.since \in Nat /\ returned \in Nat /\ cleared[CacheOf(rd[r].slot)] \in Nat /\ Version \in Nat
  BY <1>1, CacheOfType DEF Entry, TypeOK, GoogleType, HistoryType
<1>5. returned <= e.since
  BY <1>2, <1>3, <1>4
<1>6. rd'[r] = [rd[r] EXCEPT !.since = e.since, !.list = e.list, !.seen = e.seen, !.at = now]
  BY <1>1 DEF Hit, Update
<1>7. \A j \in Readers \ {r} : rd'[j] = rd[j]
  BY DEF Hit, Update, TypeOK, ReaderType
<1>8. rd[r] \in Read
  BY <1>1
<1>9. QED
  BY <1>2, <1>4, <1>5, <1>6, <1>7, <1>8 DEF Read

LEMMA FreshStep == TypeOK /\ TypeOK' /\ FreshInv /\ [Next]_vars => FreshInv'
<1> SUFFICES ASSUME TypeOK, TypeOK', FreshInv, [Next]_vars PROVE FreshInv'
  OBVIOUS
<1> USE CacheOfType DEF Goto, Update, Settled
<1>t. /\ rd \in [Readers -> Read] /\ pc \in [Readers -> ReaderPC]
      /\ rd' \in [Readers -> Read] /\ pc' \in [Readers -> ReaderPC]
      /\ generation \in [Caches -> Nat] /\ cleared \in [Caches -> Nat]
      /\ wpc \in [Writers -> WriterPC] /\ wver \in [Writers -> Nat]
      /\ returned \in Nat /\ flightId \in Nat
      /\ Len(applied) \in Nat /\ Len(applied') \in Nat
  <2>1. applied \in Seq(Nat) /\ applied' \in Seq(Nat)
    BY DEF TypeOK, GoogleType
  <2>2. Len(applied) \in Nat /\ Len(applied') \in Nat
    BY <2>1
  <2>3. QED
    BY <2>2 DEF TypeOK, CacheType, ReaderType, WriterType, HistoryType
<1>f. \A r \in Readers : /\ rd[r].slot \in Slots /\ rd[r].floor \in Nat
                         /\ rd[r].flight \in Nat /\ rd[r].gen \in Nat /\ rd[r].since \in Nat
  BY <1>t DEF Read
<1>1. ASSUME NEW r \in Readers, NEW k \in Slots, StartRead(r, k) PROVE FreshInv'
  <2>1. (WritersInv /\ ClearedInv /\ EntriesInv)'
    BY <1>1, SameProcess DEF StartRead
  <2>2. /\ \A j \in Readers \ {r} : rd'[j] = rd[j] /\ pc'[j] = pc[j]
        /\ rd'[r].floor = returned /\ rd'[r].flight = 0 /\ pc'[r] = "get"
    BY <1>1, <1>t DEF StartRead, StartOf
  <2>3. FetchInv' /\ ReadersInv' /\ FlightInv' /\ JoinInv'
    BY <1>1, <1>t, <2>2 DEF StartRead, FreshInv, FetchInv, ReadersInv, FlightInv, JoinInv, SameCall
  <2>4. QED
    BY <2>1, <2>3 DEF FreshInv
<1>2. ASSUME NEW r \in Readers, Get(r) PROVE FreshInv'
  <2>1. (WritersInv /\ ClearedInv /\ EntriesInv)'
    BY <1>2, SameProcess DEF Get
  <2>2. \A j \in Readers \ {r} : rd'[j] = rd[j] /\ pc'[j] = pc[j]
    BY <1>2, <1>t, HitFresh DEF Get
  <2>3. \/ Hit(r) /\ pc'[r] = "done"
        \/ rd' = rd /\ pc'[r] \in {"flight", "begin", "drop"}
    BY <1>2, <1>t DEF Get, AfterMiss
  <2>4. /\ rd'[r].floor = rd[r].floor /\ rd'[r].flight = rd[r].flight
        /\ pc'[r] = "done" => returned <= rd'[r].since /\ rd'[r].since <= Version
        /\ rd'[r].since \in Nat
    BY <2>3, <1>f, HitFresh
  <2>5. UNCHANGED <<applied, generation, cleared, returned, flightId>>
    BY <1>2 DEF Get
  <2>6. pc'[r] \in {"done", "flight", "begin", "drop"}
    BY <2>3
  <2>7. FetchInv' /\ FlightInv' /\ JoinInv'
    BY <2>2, <2>4, <2>5, <2>6 DEF FreshInv, FetchInv, FlightInv, JoinInv, SameCall
  <2>8. ReadersInv'
    BY <1>t, <1>f, <2>2, <2>4, <2>5, <2>6 DEF FreshInv, ReadersInv
  <2>9. QED
    BY <2>1, <2>7, <2>8 DEF FreshInv
<1>3. ASSUME NEW r \in Readers, Recheck(r) PROVE FreshInv'
  <2>1. (WritersInv /\ ClearedInv /\ EntriesInv)'
    BY <1>3, SameProcess DEF Recheck
  <2>2. \A j \in Readers \ {r} : rd'[j] = rd[j] /\ pc'[j] = pc[j]
    BY <1>3, <1>t, HitFresh DEF Recheck
  <2>3. \/ Hit(r) /\ pc'[r] = "deliver"
        \/ rd' = rd /\ pc'[r] \in {"begin", "redrop"}
    BY <1>3, <1>t DEF Recheck
  <2>4. /\ rd'[r].floor = rd[r].floor /\ rd'[r].flight = rd[r].flight
        /\ rd'[r].slot = rd[r].slot
        /\ pc'[r] = "deliver" => returned <= rd'[r].since /\ rd'[r].since <= Version
        /\ rd'[r].since \in Nat
    BY <2>3, <1>f, HitFresh
  <2>5. UNCHANGED <<applied, generation, cleared, returned, flightId>>
    BY <1>3 DEF Recheck
  <2>6. pc'[r] \in {"deliver", "begin", "redrop"}
    BY <2>3
  <2>7. FetchInv'
    BY <2>2, <2>5, <2>6 DEF FreshInv, FetchInv
  <2>8. ReadersInv' /\ FlightInv'
    <3>1. pc'[r] \in Settled \cup {"done"} =>
             returned <= rd'[r].since /\ rd'[r].since <= Version
      BY <2>4, <2>6
    <3>2. ReadersInv'
      BY <1>t, <1>f, <2>2, <2>4, <2>5, <3>1, SMTT(30) DEF FreshInv, ReadersInv
    <3>3. FlightInv'
      BY <2>2, <2>4, <2>5, <3>1 DEF FreshInv, FlightInv
    <3>4. QED
      BY <3>2, <3>3
  \* The hit is as new as what had returned when any joiner started.
  <2>9. JoinInv'
    <3>1. \A j \in Readers : rd'[j].floor <= returned /\ rd'[j].floor \in Nat
      BY <1>f, <2>2, <2>4 DEF FreshInv, ReadersInv
    <3>2. \A j \in Readers : pc'[r] = "deliver" => rd'[j].floor <= rd'[r].since
      BY <1>t, <2>4, <3>1
    <3>3. pc[r] = "recheck"
      BY <1>3 DEF Recheck
    <3>4. QED
      BY <2>2, <2>6, <3>2 DEF FreshInv, JoinInv, SameCall
  <2>10. QED
    BY <2>1, <2>7, <2>8, <2>9 DEF FreshInv
<1>4. ASSUME NEW r \in Readers, DropExpired(r) PROVE FreshInv'
  <2>1. /\ \A j \in Readers \ {r} : pc'[j] = pc[j]
        /\ pc'[r] \in {"flight", "begin"}
    BY <1>4, <1>t DEF DropExpired, AfterMiss
  <2>2. (WritersInv /\ ClearedInv /\ EntriesInv)'
    BY <1>4 DEF DropExpired, Drop, FreshInv, WritersInv, ClearedInv, EntriesInv
  <2>3. FetchInv' /\ ReadersInv' /\ FlightInv' /\ JoinInv'
    BY <1>4, <2>1 DEF DropExpired, FreshInv, FetchInv, ReadersInv, FlightInv, JoinInv, SameCall
  <2>4. QED
    BY <2>2, <2>3 DEF FreshInv
<1>5. ASSUME NEW r \in Readers, TakeFlight(r) PROVE FreshInv'
  <2>1. (WritersInv /\ ClearedInv /\ EntriesInv)'
    BY <1>5, SameProcess DEF TakeFlight
  <2>2. /\ \A j \in Readers \ {r} : rd'[j] = rd[j] /\ pc'[j] = pc[j]
        /\ pc'[r] = "join" /\ rd'[r].flight = flightId
        /\ rd'[r].floor = rd[r].floor /\ rd'[r].slot = rd[r].slot
    BY <1>5, <1>t DEF TakeFlight, Read
  <2>3. FetchInv' /\ ReadersInv' /\ FlightInv'
    BY <1>5, <1>t, <1>f, <2>2 DEF TakeFlight, FreshInv, FetchInv, ReadersInv, FlightInv
  \* A call in the current group began after all that r had seen returned.
  <2>4. JoinInv'
    BY <1>5, <1>t, <1>f, <2>2 DEF TakeFlight, FreshInv, ReadersInv, FlightInv, JoinInv, SameCall
  <2>5. QED
    BY <2>1, <2>3, <2>4 DEF FreshInv
<1>6. ASSUME NEW r \in Readers, Join(r) PROVE FreshInv'
  <2>1. /\ \A j \in Readers \ {r} : pc'[j] = pc[j]
        /\ pc[r] = "join" /\ pc'[r] \in {"wait", "recheck"}
    BY <1>6, <1>t DEF Join
  <2>2. (WritersInv /\ ClearedInv /\ EntriesInv)'
    BY <1>6, SameProcess DEF Join
  <2>3. FetchInv' /\ ReadersInv' /\ FlightInv' /\ JoinInv'
    BY <1>6, <2>1 DEF Join, FreshInv, FetchInv, ReadersInv, FlightInv, JoinInv, SameCall
  <2>4. QED
    BY <2>2, <2>3 DEF FreshInv
<1>7. ASSUME NEW r \in Readers, Begin(r) PROVE FreshInv'
  <2>1. (WritersInv /\ ClearedInv /\ EntriesInv)'
    BY <1>7, SameProcess DEF Begin
  <2>2. /\ \A j \in Readers \ {r} : rd'[j] = rd[j] /\ pc'[j] = pc[j]
        /\ pc'[r] = "fetch" /\ rd'[r].slot = rd[r].slot
        /\ rd'[r].gen = generation[CacheOf(rd[r].slot)] /\ rd'[r].since = Len(applied)
        /\ rd'[r].floor = rd[r].floor /\ rd'[r].flight = rd[r].flight
    BY <1>7, <1>t DEF Begin, Read
  <2>3. returned <= Len(applied) /\ cleared[CacheOf(rd[r].slot)] <= Len(applied)
    BY <1>t DEF FreshInv, ClearedInv
  <2>4. FetchInv' /\ ReadersInv' /\ FlightInv'
    BY <1>7, <1>t, <1>f, <2>2, <2>3 DEF Begin, FreshInv, FetchInv, ReadersInv, FlightInv
  <2>5. JoinInv'
    BY <1>7, <1>t, <1>f, <2>2, <2>3 DEF Begin, FreshInv, ReadersInv, JoinInv, SameCall
  <2>6. QED
    BY <2>1, <2>4, <2>5 DEF FreshInv
<1>8. ASSUME NEW r \in Readers, Answer(r) PROVE FreshInv'
  <2>1. (WritersInv /\ ClearedInv /\ EntriesInv)'
    BY <1>8, SameProcess DEF Answer
  <2>2. /\ \A j \in Readers \ {r} : rd'[j] = rd[j] /\ pc'[j] = pc[j]
        /\ pc[r] = "fetch" /\ pc'[r] = "store" /\ rd'[r].slot = rd[r].slot
        /\ rd'[r].gen = rd[r].gen /\ rd'[r].since = rd[r].since
        /\ rd'[r].floor = rd[r].floor /\ rd'[r].flight = rd[r].flight
    BY <1>8, <1>t DEF Answer, Read
  <2>3. FetchInv' /\ ReadersInv' /\ FlightInv'
    BY <1>8, <2>2 DEF Answer, FreshInv, FetchInv, ReadersInv, FlightInv
  <2>4. JoinInv'
    BY <1>8, <2>2 DEF Answer, FreshInv, JoinInv, SameCall
  <2>5. QED
    BY <2>1, <2>3, <2>4 DEF FreshInv
<1>9. ASSUME NEW r \in Readers, Store(r) PROVE FreshInv'
  <2> DEFINE k == rd[r].slot
  <2>1. /\ \A j \in Readers \ {r} : pc'[j] = pc[j]
        /\ pc[r] = "store" /\ pc'[r] = "deliver"
    BY <1>9, <1>t DEF Store
  \* Stored or not: what is stored carries the current generation.
  <2>2. EntriesInv'
    <3>1. CASE entries' = entries
      BY <1>9, <3>1 DEF Store, FreshInv, EntriesInv
    <3>2. CASE MayStore(CacheOf(k), rd[r].gen)
      <4>1. cleared[CacheOf(k)] <= rd[r].since /\ rd[r].since <= Version
        BY <2>1, <3>2 DEF MayStore, FreshInv, FetchInv, ReadersInv
      <4>2. /\ DOMAIN entries' = DOMAIN entries \cup {k}
            /\ entries'[k].since = rd[r].since
            /\ \A x \in DOMAIN entries \ {k} : entries'[x] = entries[x]
        BY <1>9, <3>2 DEF Store, Put
      <4>3. QED
        BY <1>9, <4>1, <4>2 DEF Store, FreshInv, EntriesInv
    <3>3. QED
      BY <1>9, <3>1, <3>2 DEF Store
  <2>3. WritersInv' /\ ClearedInv'
    BY <1>9 DEF Store, FreshInv, WritersInv, ClearedInv
  <2>4. FetchInv' /\ ReadersInv' /\ FlightInv' /\ JoinInv'
    BY <1>9, <2>1 DEF Store, FreshInv, FetchInv, ReadersInv, FlightInv, JoinInv, SameCall
  <2>5. QED
    BY <2>2, <2>3, <2>4 DEF FreshInv
<1>10. ASSUME NEW r \in Readers, Deliver(r) PROVE FreshInv'
  <2>1. (WritersInv /\ ClearedInv /\ EntriesInv)'
    BY <1>10, SameProcess DEF Deliver
  <2>2. \A j \in Readers :
           \/ /\ j \notin Sharing(r)
              /\ rd'[j] = rd[j] /\ pc'[j] = pc[j]
           \/ /\ j \in Sharing(r)
              /\ pc'[j] = "done" /\ rd'[j].since = rd[r].since
              /\ rd'[j].floor = rd[j].floor /\ rd'[j].flight = 0
    BY <1>10, <1>t DEF Deliver, Read
  <2>3. \A j \in Sharing(r) : rd[j].floor <= rd[r].since /\ rd[r].since <= Version
    BY <1>10 DEF Deliver, Sharing, FreshInv, ReadersInv, JoinInv, SameCall
  <2>4. UNCHANGED <<applied, generation, cleared, returned, flightId>>
    BY <1>10 DEF Deliver
  <2>5. FetchInv' /\ FlightInv' /\ JoinInv'
    <3>1. \A j \in Readers : \/ rd'[j] = rd[j] /\ pc'[j] = pc[j]
                             \/ rd'[j].flight = 0 /\ pc'[j] = "done"
      BY <2>2
    <3>2. FetchInv'
      BY <2>4, <3>1 DEF FreshInv, FetchInv
    <3>3. FlightInv'
      BY <1>t, <2>4, <3>1 DEF FreshInv, FlightInv
    <3>4. JoinInv'
      BY <3>1 DEF FreshInv, JoinInv, SameCall
    <3>5. QED
      BY <3>2, <3>3, <3>4
  <2>6. ReadersInv'
    BY <2>2, <2>3, <2>4 DEF FreshInv, ReadersInv
  <2>7. QED
    BY <2>1, <2>5, <2>6 DEF FreshInv
<1>11. ASSUME NEW r \in Readers, FetchFails(r) PROVE FreshInv'
  <2>1. (WritersInv /\ ClearedInv /\ EntriesInv)'
    BY <1>11, SameProcess DEF FetchFails
  <2>2. \A j \in Readers :
           \/ rd'[j] = rd[j] /\ pc'[j] = pc[j]
           \/ rd'[j].floor = 0 /\ rd'[j].flight = 0 /\ pc'[j] = "failed"
    BY <1>11, <1>t DEF FetchFails, Nothing, StartOf
  <2>3. FetchInv' /\ ReadersInv' /\ FlightInv' /\ JoinInv'
    BY <1>11, <1>t, <2>2 DEF FetchFails, FreshInv, FetchInv, ReadersInv, FlightInv, JoinInv, SameCall
  <2>4. QED
    BY <2>1, <2>3 DEF FreshInv
<1>12. ASSUME NEW w \in Writers, ApplyWrite(w) PROVE FreshInv'
  <2>1. Len(applied') = Len(applied) + 1
    BY <1>12 DEF ApplyWrite, TypeOK, GoogleType
  <2>2. (FetchInv /\ ReadersInv /\ FlightInv /\ JoinInv)'
    BY <1>12, <1>t, <2>1, SameReaders DEF ApplyWrite
  <2>3. (WritersInv /\ ClearedInv /\ EntriesInv)'
    BY <1>12, <1>t, <2>1 DEF ApplyWrite, FreshInv, WritersInv, ClearedInv, EntriesInv,
                            TypeOK, CacheType, Entry
  <2>4. QED
    BY <2>2, <2>3 DEF FreshInv
<1>13. ASSUME NEW w \in Writers, LoseResponse(w) PROVE FreshInv'
  <2>1. Len(applied') = Len(applied) + 1
    BY <1>13 DEF LoseResponse, TypeOK, GoogleType
  <2>2. (FetchInv /\ ReadersInv /\ FlightInv /\ JoinInv)'
    BY <1>13, <1>t, <2>1, SameReaders DEF LoseResponse
  <2>3. (WritersInv /\ ClearedInv /\ EntriesInv)'
    BY <1>13, <1>t, <2>1 DEF LoseResponse, FreshInv, WritersInv, ClearedInv, EntriesInv,
                            TypeOK, CacheType, Entry
  <2>4. QED
    BY <2>2, <2>3 DEF FreshInv
<1>14. ASSUME NEW w \in Writers, ClearMembers(w) PROVE FreshInv'
  <2>1. /\ Clear("members") /\ pc' = pc /\ rd' = rd /\ applied' = applied
        /\ wver' = wver /\ returned' = returned /\ flightId' = flightId
        /\ wpc[w] = "clearMembers" /\ wpc' = [wpc EXCEPT ![w] = "clearGroups"]
        /\ cleared' = [cleared EXCEPT !["members"] = Larger(@, wver[w])]
    BY <1>14 DEF ClearMembers
  <2>2. /\ \A c \in Caches : cleared[c] <= cleared'[c] /\ cleared'[c] <= Version
        /\ wver[w] <= cleared'["members"]
        /\ \A c \in Caches \ {"members"} : cleared'[c] = cleared[c]
    <3>1. cleared'["members"] = Larger(cleared["members"], wver[w])
      BY <1>t, <2>1
    <3>2. \A c \in Caches \ {"members"} : cleared'[c] = cleared[c]
      BY <1>t, <2>1
    <3>3. \A c \in Caches : cleared[c] \in Nat /\ cleared[c] <= Version
      BY <1>t DEF FreshInv, ClearedInv
    <3>4. wver[w] \in Nat /\ wver[w] <= Version
      BY <1>t DEF FreshInv, WritersInv
    <3>5. /\ cleared["members"] <= cleared'["members"] /\ wver[w] <= cleared'["members"]
          /\ cleared'["members"] <= Version
      BY <3>1, <3>3, <3>4, LargerType
    <3>6. QED
      BY <3>2, <3>3, <3>5
  <2>3. /\ \A c \in Caches \ {"members"} : generation'[c] = generation[c]
        /\ generation'["members"] = generation["members"] + 1
    BY <1>t, <2>1 DEF Clear
  <2>4. EntriesInv'
    <3>1. /\ DOMAIN entries' \subseteq {k \in DOMAIN entries : CacheOf(k) # "members"}
          /\ \A k \in DOMAIN entries' : entries'[k] = entries[k]
      BY <2>1 DEF Clear, Drop, TypeOK, CacheType
    <3>2. QED
      BY <2>1, <2>2, <3>1 DEF FreshInv, EntriesInv
  <2>5. WritersInv' /\ ClearedInv'
    <3>1. \A c \in Caches : cleared'[c] \in Nat
      BY DEF TypeOK, HistoryType
    <3>2. ClearedInv'
      BY <1>t, <2>1, <2>2, <3>1 DEF FreshInv, ClearedInv
    <3>3. WritersInv'
      BY <1>t, <2>1, <2>2, <3>1 DEF FreshInv, WritersInv
    <3>4. QED
      BY <3>2, <3>3
  \* What was being fetched for this cache now carries an old generation.
  <2>6. FetchInv'
    BY <1>t, <1>f, <2>1, <2>2, <2>3 DEF FreshInv, FetchInv
  <2>7. ReadersInv' /\ FlightInv' /\ JoinInv'
    BY <2>1 DEF FreshInv, ReadersInv, FlightInv, JoinInv, SameCall
  <2>8. QED
    BY <2>4, <2>5, <2>6, <2>7 DEF FreshInv
<1>15. ASSUME NEW w \in Writers, ClearGroups(w) PROVE FreshInv'
  <2>1. /\ Clear("groups") /\ pc' = pc /\ rd' = rd /\ applied' = applied
        /\ wver' = wver /\ returned' = returned /\ flightId' = flightId
        /\ wpc[w] = "clearGroups" /\ wpc' = [wpc EXCEPT ![w] = "swap"]
        /\ cleared' = [cleared EXCEPT !["groups"] = Larger(@, wver[w])]
    BY <1>15 DEF ClearGroups
  <2>2. /\ \A c \in Caches : cleared[c] <= cleared'[c] /\ cleared'[c] <= Version
        /\ wver[w] <= cleared'["groups"]
        /\ \A c \in Caches \ {"groups"} : cleared'[c] = cleared[c]
    <3>1. cleared'["groups"] = Larger(cleared["groups"], wver[w])
      BY <1>t, <2>1
    <3>2. \A c \in Caches \ {"groups"} : cleared'[c] = cleared[c]
      BY <1>t, <2>1
    <3>3. \A c \in Caches : cleared[c] \in Nat /\ cleared[c] <= Version
      BY <1>t DEF FreshInv, ClearedInv
    <3>4. wver[w] \in Nat /\ wver[w] <= Version
      BY <1>t DEF FreshInv, WritersInv
    <3>5. /\ cleared["groups"] <= cleared'["groups"] /\ wver[w] <= cleared'["groups"]
          /\ cleared'["groups"] <= Version
      BY <3>1, <3>3, <3>4, LargerType
    <3>6. QED
      BY <3>2, <3>3, <3>5
  <2>3. /\ \A c \in Caches \ {"groups"} : generation'[c] = generation[c]
        /\ generation'["groups"] = generation["groups"] + 1
    BY <1>t, <2>1 DEF Clear
  <2>4. EntriesInv'
    <3>1. /\ DOMAIN entries' \subseteq {k \in DOMAIN entries : CacheOf(k) # "groups"}
          /\ \A k \in DOMAIN entries' : entries'[k] = entries[k]
      BY <2>1 DEF Clear, Drop, TypeOK, CacheType
    <3>2. QED
      BY <2>1, <2>2, <3>1 DEF FreshInv, EntriesInv
  <2>5. WritersInv' /\ ClearedInv'
    <3>1. \A c \in Caches : cleared'[c] \in Nat
      BY DEF TypeOK, HistoryType
    <3>2. ClearedInv'
      BY <1>t, <2>1, <2>2, <3>1 DEF FreshInv, ClearedInv
    <3>3. WritersInv'
      BY <1>t, <2>1, <2>2, <3>1 DEF FreshInv, WritersInv
    <3>4. QED
      BY <3>2, <3>3
  \* What was being fetched for this cache now carries an old generation.
  <2>6. FetchInv'
    BY <1>t, <1>f, <2>1, <2>2, <2>3 DEF FreshInv, FetchInv
  <2>7. ReadersInv' /\ FlightInv' /\ JoinInv'
    BY <2>1 DEF FreshInv, ReadersInv, FlightInv, JoinInv, SameCall
  <2>8. QED
    BY <2>4, <2>5, <2>6, <2>7 DEF FreshInv
<1>16. ASSUME NEW w \in Writers, SwapFlight(w) PROVE FreshInv'
  <2>1. /\ applied' = applied /\ entries' = entries /\ generation' = generation
        /\ pc' = pc /\ rd' = rd /\ cleared' = cleared
        /\ flightId' = flightId + 1 /\ returned' = Larger(returned, wver[w])
        /\ wpc[w] = "swap" /\ wpc' = [wpc EXCEPT ![w] = "idle"]
        /\ wver' = [wver EXCEPT ![w] = 0]
    BY <1>16 DEF SwapFlight, SwappedFlight
  <2>2. /\ returned <= returned' /\ returned' \in Nat
        /\ \A c \in Caches : returned' <= cleared[c]
    BY <1>t, <2>1, LargerType DEF FreshInv, WritersInv, ClearedInv
  <2>3. WritersInv' /\ ClearedInv' /\ EntriesInv'
    BY <1>t, <2>1, <2>2 DEF FreshInv, WritersInv, ClearedInv, EntriesInv
  <2>4. FetchInv' /\ ReadersInv' /\ JoinInv'
    BY <1>t, <1>f, <2>1, <2>2 DEF FreshInv, FetchInv, ReadersInv, JoinInv, SameCall
  \* No call is led in the new group yet.
  <2>5. FlightInv'
    BY <1>t, <1>f, <2>1 DEF FreshInv, FlightInv
  <2>6. QED
    BY <2>3, <2>4, <2>5 DEF FreshInv
<1>17. CASE Tick
  <2>1. (WritersInv /\ ClearedInv /\ EntriesInv)'
    BY <1>17 DEF Tick, FreshInv, WritersInv, ClearedInv, EntriesInv
  <2>2. (FetchInv /\ ReadersInv /\ FlightInv /\ JoinInv)'
    BY <1>17, <1>t, SameReaders DEF Tick
  <2>3. QED
    BY <2>1, <2>2 DEF FreshInv
<1>18. CASE Restart
  <2>1. (WritersInv /\ ClearedInv /\ EntriesInv)'
    BY <1>18, <1>t DEF Restart, FreshInv, WritersInv, ClearedInv, EntriesInv
  <2>2. \A r \in Readers : pc'[r] = "idle" /\ rd'[r].floor = 0 /\ rd'[r].flight = 0
    BY <1>18 DEF Restart, Nothing, StartOf
  <2>3. returned' = returned /\ flightId' = flightId + 1
    BY <1>18 DEF Restart
  <2>4. (FetchInv /\ ReadersInv /\ FlightInv /\ JoinInv)'
    BY <1>t, <2>2, <2>3 DEF FreshInv, FetchInv, ReadersInv, FlightInv, JoinInv
  <2>5. QED
    BY <2>1, <2>4 DEF FreshInv
<1>19. CASE UNCHANGED vars
  <2>1. (WritersInv /\ ClearedInv /\ EntriesInv)'
    BY <1>19, SameProcess DEF vars
  <2>2. (FetchInv /\ ReadersInv /\ FlightInv /\ JoinInv)'
    BY <1>19, <1>t, SameReaders DEF vars
  <2>3. QED
    BY <2>1, <2>2 DEF FreshInv
<1>20. QED
  BY <1>1, <1>2, <1>3, <1>4, <1>5, <1>6, <1>7, <1>8, <1>9, <1>10, <1>11, <1>12,
     <1>13, <1>14, <1>15, <1>16, <1>17, <1>18, <1>19
     DEF Next, ReaderStep, OwnStep, WriterStep

LEMMA FreshInvariant == Spec => [](TypeOK /\ FreshInv)
<1>1. Init => TypeOK /\ FreshInv
  BY TypeInit, FreshInit
<1>2. TypeOK /\ FreshInv /\ [Next]_vars => (TypeOK /\ FreshInv)'
  BY TypeStep, FreshStep
<1>3. QED
  BY <1>1, <1>2, PTL DEF Spec

\* For any number of readers, writers and spellings, across restarts: a read
\* that starts after a write returned is answered with what Google was asked
\* after that write (ListMembers, ListGroups, invalidateCaches).
THEOREM FreshAfterWriteHolds == Spec => []FreshAfterWrite
<1>1. FreshInv => FreshAfterWrite
  BY DEF FreshInv, ReadersInv, FreshAfterWrite
<1>2. QED
  BY <1>1, FreshInvariant, PTL

\* No entry of either cache was asked of Google before the last write that
\* cleared that cache (begin, set, clear).
THEOREM EntriesPostdateClearsHolds == Spec => []EntriesPostdateClears
<1>1. FreshInv => EntriesPostdateClears
  BY DEF FreshInv, EntriesInv, EntriesPostdateClears
<1>2. QED
  BY <1>1, FreshInvariant, PTL

------------------------------------------------------------------------------
(* The refinement: every step of the caches is a step of ReadAfterWrite, or  *)
(* leaves it where it was.                                                   *)

\* What a reader looks like to its caller.
Seen(r) == <<AbstractStatus(pc[r]), rd[r].floor, IF pc[r] = "done" THEN rd[r].since ELSE 0>>

LEMMA Stutters ==
    ASSUME UNCHANGED <<applied, returned>>, \A r \in Readers : Seen(r)' = Seen(r)
    PROVE  UNCHANGED Promise!vars
<1>1. UNCHANGED <<[r \in Readers |-> AbstractStatus(pc[r])],
                  [r \in Readers |-> rd[r].floor],
                  [r \in Readers |-> IF pc[r] = "done" THEN rd[r].since ELSE 0]>>
  BY DEF Seen
<1>2. QED
  BY <1>1 DEF Promise!vars, Version

LEMMA PromiseInit == Init => Promise!Init
BY DEF Init, Promise!Init, Version, AbstractStatus, Resting, Nothing, StartOf

\* Time, Google and the writers do not disturb what the readers have.
LEMMA ReadersAsBefore ==
    ASSUME UNCHANGED <<pc, rd>>
    PROVE  \A r \in Readers : Seen(r)' = Seen(r)
BY DEF Seen

\* A reader that moves on without an answer is still reading.
LEMMA StillReading ==
    ASSUME TypeOK, NEW r \in Readers, NEW l \in ReaderPC \ Resting,
           pc[r] \notin Resting, pc' = [pc EXCEPT ![r] = l],
           rd' \in [Readers -> Read], rd'[r].floor = rd[r].floor,
           \A j \in Readers \ {r} : rd'[j] = rd[j], UNCHANGED <<applied, returned>>
    PROVE  UNCHANGED Promise!vars
<1>1. pc \in [Readers -> ReaderPC]
  BY DEF TypeOK, ReaderType
<1>2. \A j \in Readers : Seen(j)' = Seen(j)
  BY <1>1 DEF Seen, AbstractStatus, Resting
<1>3. QED
  BY <1>2, Stutters

\* One answer, new enough for everybody it is given to.
LEMMA Answers ==
    ASSUME TypeOK, NEW S \in SUBSET Readers, NEW s \in 0..Version,
           \A j \in S : pc[j] \notin Resting /\ rd[j].floor <= s,
           pc' = [j \in Readers |-> IF j \in S THEN "done" ELSE pc[j]],
           \A j \in S : rd'[j].floor = rd[j].floor /\ rd'[j].since = s,
           \A j \in Readers \ S : rd'[j] = rd[j], UNCHANGED <<applied, returned>>
    PROVE  Promise!Next
<1>1. Promise!Tell(S, s)
  BY DEF Promise!Tell, AbstractStatus, Resting, Version
<1>2. QED
  BY <1>1 DEF Promise!Next

\* An error, or the end of the process, for everybody in S.
LEMMA GivesUp ==
    ASSUME NEW S \in SUBSET Readers, NEW l \in Resting \ {"done"},
           pc' = [j \in Readers |-> IF j \in S THEN l ELSE pc[j]],
           rd' = [j \in Readers |-> IF j \in S THEN Nothing ELSE rd[j]],
           UNCHANGED <<applied, returned>>
    PROVE  Promise!Next
<1>1. Nothing.floor = 0
  BY DEF Nothing, StartOf
<1>2. Promise!Fail(S)
  BY <1>1 DEF Promise!Fail, AbstractStatus, Resting, Version
<1>3. QED
  BY <1>2 DEF Promise!Next

LEMMA PromiseStep ==
    TypeOK /\ TypeOK' /\ FreshInv /\ [Next]_vars => [Promise!Next]_(Promise!vars)
<1> SUFFICES ASSUME TypeOK, TypeOK', FreshInv, [Next]_vars
             PROVE  Promise!Next \/ UNCHANGED Promise!vars
  OBVIOUS
<1> DEFINE Goal == Promise!Next \/ UNCHANGED Promise!vars
<1>t. /\ pc \in [Readers -> ReaderPC] /\ rd \in [Readers -> Read]
      /\ rd' \in [Readers -> Read] /\ Version \in Nat /\ returned \in Nat
      /\ wver \in [Writers -> Nat] /\ applied \in Seq(Nat)
  BY DEF TypeOK, GoogleType, ReaderType, WriterType, HistoryType, Version
<1>1. ASSUME NEW r \in Readers, NEW k \in Slots, StartRead(r, k) PROVE Goal
  <2>1. /\ StartOf(k).floor = returned /\ pc[r] \in Resting
        /\ pc' = [pc EXCEPT ![r] = "get"] /\ rd' = [rd EXCEPT ![r] = StartOf(k)]
        /\ UNCHANGED <<applied, returned>>
    BY <1>1 DEF StartRead, StartOf, Goto, Update
  <2>2. Promise!Ask(r)
    BY <1>t, <2>1 DEF Promise!Ask, AbstractStatus, Resting, Version
  <2>3. QED
    BY <2>2 DEF Promise!Next
<1>2. ASSUME NEW r \in Readers, Get(r) PROVE Goal
  <2>1. CASE Hit(r) /\ Goto(r, "done")
    <3>1. /\ rd'[r].floor = rd[r].floor /\ returned <= rd'[r].since
          /\ rd'[r].since <= Version /\ rd'[r].since \in Nat
          /\ \A j \in Readers \ {r} : rd'[j] = rd[j]
      BY <2>1, HitFresh
    <3>2. rd[r].floor <= returned /\ rd[r].floor \in Nat
      BY <1>t DEF FreshInv, ReadersInv, Read
    <3>3. /\ pc' = [j \in Readers |-> IF j \in {r} THEN "done" ELSE pc[j]]
          /\ pc[r] \notin Resting /\ UNCHANGED <<applied, returned>>
      BY <1>2, <1>t, <2>1 DEF Get, Goto, Resting
    <3>4. rd'[r].since \in 0..Version
      BY <1>t, <3>1
    <3>5. rd[r].floor <= rd'[r].since
      BY <1>t, <3>1, <3>2
    <3> DEFINE S == {r}
               s == rd'[r].since
    <3>6. /\ S \in SUBSET Readers /\ s \in 0..Version
          /\ \A j \in S : pc[j] \notin Resting /\ rd[j].floor <= s
          /\ pc' = [j \in Readers |-> IF j \in S THEN "done" ELSE pc[j]]
          /\ \A j \in S : rd'[j].floor = rd[j].floor /\ rd'[j].since = s
          /\ \A j \in Readers \ S : rd'[j] = rd[j]
      BY <3>1, <3>3, <3>4, <3>5
    <3> HIDE DEF S, s
    <3>7. QED
      BY <3>3, <3>6, Answers
  <2>2. CASE ~(Hit(r) /\ Goto(r, "done"))
    <3>1. rd' = rd /\ \E l \in {"flight", "begin", "drop"} : pc' = [pc EXCEPT ![r] = l]
      BY <1>2, <2>2 DEF Get, Goto, AfterMiss
    <3>2. QED
      BY <1>2, <1>t, <3>1, StillReading DEF Get, ReaderPC, Resting, Leading
  <2>3. QED
    BY <1>2, <2>1, <2>2 DEF Get
<1>3. ASSUME NEW r \in Readers, Recheck(r) PROVE Goal
  <2>1. CASE Hit(r) /\ Goto(r, "deliver")
    <3>1. rd'[r].floor = rd[r].floor /\ \A j \in Readers \ {r} : rd'[j] = rd[j]
      BY <2>1, HitFresh
    <3>2. QED
      BY <1>3, <1>t, <2>1, <3>1, StillReading DEF Recheck, Goto, ReaderPC, Resting, Leading
  <2>2. CASE ~(Hit(r) /\ Goto(r, "deliver"))
    <3>1. rd' = rd /\ \E l \in {"begin", "redrop"} : pc' = [pc EXCEPT ![r] = l]
      BY <1>3, <2>2 DEF Recheck, Goto
    <3>2. QED
      BY <1>3, <1>t, <3>1, StillReading DEF Recheck, ReaderPC, Resting, Leading
  <2>3. QED
    BY <1>3, <2>1, <2>2 DEF Recheck
<1>4. ASSUME NEW r \in Readers, DropExpired(r) PROVE Goal
  <2>1. PICK l \in {"flight", "begin"} : pc' = [pc EXCEPT ![r] = l]
    BY <1>4 DEF DropExpired, Goto, AfterMiss
  <2>2. QED
    BY <1>4, <1>t, <2>1, StillReading DEF DropExpired, ReaderPC, Resting, Leading
<1>5. ASSUME NEW r \in Readers, TakeFlight(r) \/ Begin(r) \/ Answer(r) PROVE Goal
  <2>1. /\ pc[r] \notin Resting /\ UNCHANGED <<applied, returned>>
        /\ \E l \in {"join", "fetch", "store"} : pc' = [pc EXCEPT ![r] = l]
    BY <1>5 DEF TakeFlight, Begin, Answer, Goto, Resting
  <2>2. rd'[r].floor = rd[r].floor /\ \A j \in Readers \ {r} : rd'[j] = rd[j]
    BY <1>5, <1>t DEF TakeFlight, Begin, Answer, Update, Read
  <2>3. QED
    BY <1>t, <2>1, <2>2, StillReading DEF ReaderPC, Resting, Leading
<1>6. ASSUME NEW r \in Readers, Join(r) \/ Store(r) PROVE Goal
  <2>1. /\ pc[r] \notin Resting /\ UNCHANGED <<applied, returned, rd>>
        /\ \E l \in {"wait", "recheck", "deliver"} : pc' = [pc EXCEPT ![r] = l]
    BY <1>6 DEF Join, Store, Goto, Resting
  <2>2. QED
    BY <1>t, <2>1, StillReading DEF ReaderPC, Resting, Leading
<1>7. ASSUME NEW r \in Readers, Deliver(r) PROVE Goal
  <2> DEFINE S == Sharing(r)
             s == rd[r].since
  <2>1. /\ pc[r] = "deliver" /\ UNCHANGED <<applied, returned>>
        /\ pc' = [j \in Readers |-> IF j \in S THEN "done" ELSE pc[j]]
        /\ \A j \in Readers \ S : rd'[j] = rd[j]
    BY <1>7 DEF Deliver
  <2>2. \A j \in S : rd'[j] = [rd[r] EXCEPT !.floor = rd[j].floor, !.flight = 0, !.gen = 0]
    BY <1>7 DEF Deliver, Sharing
  <2>3. \A j \in S : rd'[j].floor = rd[j].floor /\ rd'[j].since = s
    <3>1. rd[r] \in Read
      BY <1>t
    <3> SUFFICES ASSUME NEW j \in S PROVE rd'[j].floor = rd[j].floor /\ rd'[j].since = s
      OBVIOUS
    <3> DEFINE f == rd[j].floor
    <3>2. rd'[j] = [rd[r] EXCEPT !.floor = f, !.flight = 0, !.gen = 0]
      BY <2>2
    <3> HIDE DEF f
    <3>3. rd'[j].floor = f /\ rd'[j].since = s
      BY <3>1, <3>2 DEF Read
    <3>4. QED
      BY <3>3 DEF f
  <2>4. \A j \in S : pc[j] \notin Resting /\ rd[j].floor <= s
    BY <2>1 DEF Sharing, SameCall, Resting, FreshInv, JoinInv, ReadersInv, Settled
  <2>5. s \in 0..Version
    BY <1>t, <2>1 DEF Read, FreshInv, ReadersInv, Settled
  <2>6. S \subseteq Readers
    BY DEF Sharing
  <2> HIDE DEF S, s
  <2>7. QED
    BY <2>1, <2>3, <2>4, <2>5, <2>6, Answers
<1>8. ASSUME NEW r \in Readers, FetchFails(r) PROVE Goal
  <2>1. Sharing(r) \subseteq Readers /\ "failed" \in Resting \ {"done"}
    BY DEF Sharing, Resting
  <2>2. QED
    BY <1>8, <2>1, GivesUp DEF FetchFails
<1>9. ASSUME NEW w \in Writers, ApplyWrite(w) \/ LoseResponse(w) PROVE Goal
  <2>1. applied' = Append(applied, now) /\ UNCHANGED <<pc, rd, returned>>
    BY <1>9 DEF ApplyWrite, LoseResponse
  <2>2. Version' = Version + 1
    BY <1>t, <2>1 DEF Version
  <2>3. Promise!Apply
    BY <2>1, <2>2 DEF Promise!Apply
  <2>4. QED
    BY <2>3 DEF Promise!Next
<1>10. ASSUME NEW w \in Writers, SwapFlight(w) PROVE Goal
  <2>1. /\ UNCHANGED <<applied, pc, rd>> /\ returned' = Larger(returned, wver[w])
        /\ wver[w] \in Nat /\ wver[w] <= Version
    BY <1>10, <1>t DEF SwapFlight, FreshInv, WritersInv
  <2>2. CASE wver[w] = 0
    <3>1. returned' = returned
      BY <1>t, <2>1, <2>2 DEF Larger
    <3>2. QED
      BY <2>1, <3>1, ReadersAsBefore, Stutters
  <2>3. CASE wver[w] # 0
    <3>1. wver[w] \in 1..Version
      BY <1>t, <2>1, <2>3
    <3>2. returned' = IF wver[w] > returned THEN wver[w] ELSE returned
      BY <1>t, <2>1 DEF Larger
    <3>3. Promise!Acknowledge
      BY <2>1, <3>1, <3>2 DEF Promise!Acknowledge, Version
    <3>4. QED
      BY <3>3 DEF Promise!Next
  <2>4. QED
    BY <2>2, <2>3
<1>11. CASE Restart
  <2>1. /\ pc' = [j \in Readers |-> IF j \in Readers THEN "idle" ELSE pc[j]]
        /\ rd' = [j \in Readers |-> IF j \in Readers THEN Nothing ELSE rd[j]]
        /\ UNCHANGED <<applied, returned>> /\ "idle" \in Resting \ {"done"}
    BY <1>11 DEF Restart, Resting
  <2>2. QED
    BY <2>1, GivesUp
<1>12. CASE UNCHANGED <<applied, pc, rd, returned>>
  BY <1>12, ReadersAsBefore, Stutters
<1>13. QED
  <2>1. ASSUME NEW r \in Readers, ReaderStep(r) PROVE Goal
    BY <1>2, <1>3, <1>4, <1>5, <1>6, <1>7, <1>8, <2>1 DEF ReaderStep, OwnStep
  <2>2. ASSUME NEW w \in Writers, WriterStep(w) PROVE Goal
    BY <1>10, <1>12, <2>2 DEF WriterStep, ClearMembers, ClearGroups
  <2>3. CASE Tick \/ UNCHANGED vars
    BY <1>12, <2>3 DEF Tick, vars
  <2>4. QED
    BY <1>1, <1>9, <1>11, <2>1, <2>2, <2>3 DEF Next

\* The two caches, the joined calls and the invalidation, for any number of
\* readers and writers and whatever the lifetimes: callers see what they would
\* see of a directory without a cache, asked no earlier than ReadAfterWrite
\* allows (service.go, ListMembers, ListGroups and invalidateCaches).
THEOREM KeepsPromiseHolds == Spec => KeepsPromise
BY FreshInvariant, PromiseInit, PromiseStep, PTL DEF Spec, KeepsPromise, Promise!Spec

------------------------------------------------------------------------------
(* Time: how old an answer may be, and when the suppression window does its  *)
(* work.                                                                     *)

\* Google has applied nothing in the future.
ClockInv == \A v \in 1..Version : applied[v] <= now

\* list, given out at seen, misses only writes that were still propagating.
Faithful(list, seen) ==
    /\ seen <= now
    /\ \A v \in 1..Version : applied[v] + Lag < seen => v <= list

\* The same, said of the next state.
FaithfulNext(list, seen) ==
    /\ seen <= now'
    /\ \A v \in 1..Len(applied') : applied'[v] + Lag < seen => v <= list

HeldInv ==
    \A r \in Readers : pc[r] \in {"store", "deliver", "done"} =>
        /\ Faithful(rd[r].list, rd[r].seen)
        /\ rd[r].at <= rd[r].seen + MaxCall + TTL

EntryAgeInv ==
    \A k \in DOMAIN entries :
        /\ Faithful(entries[k].list, entries[k].seen)
        /\ entries[k].expires <= entries[k].seen + MaxCall + TTL

\* Of the writes its fetch could know of, an answer on its way to the cache
\* misses only those still propagating; and it is no older than MaxCall.
AnswerInv ==
    \A r \in Readers : pc[r] = "store" =>
        /\ now <= rd[r].seen + MaxCall
        /\ \A v \in 1..rd[r].since : v > rd[r].list => rd[r].seen < applied[v] + Lag

\* The window outlasts the write it was opened for by the whole suppression.
WindowInv ==
    \A c \in Caches : cleared[c] > boot =>
        applied[cleared[c]] + Suppress <= suppressUntil[c]

AgeInv == ClockInv /\ HeldInv /\ EntryAgeInv /\ AnswerInv /\ WindowInv

------------------------------------------------------------------------------
(* What a step may do to Google, to an entry, to what a reader holds.        *)

LEMMA GoogleStep ==
    ASSUME TypeOK, TypeOK', [Next]_vars
    PROVE  /\ now <= now' /\ Len(applied) <= Len(applied')
           /\ \A v \in 1..Len(applied) : applied'[v] = applied[v]
           /\ \A v \in 1..Len(applied') : v > Len(applied) => applied'[v] = now
<1>1. now \in Nat /\ applied \in Seq(Nat)
  BY DEF TypeOK, GoogleType
<1> DEFINE Goal == \/ now <= now' /\ applied' = applied
                   \/ now' = now /\ applied' = Append(applied, now)
<1>2. ASSUME NEW r \in Readers, ReaderStep(r) PROVE Goal
  <2>1. UNCHANGED <<now, applied>>
    BY <1>2 DEF ReaderStep, OwnStep, Get, Recheck, DropExpired, TakeFlight, Join, Begin,
                Answer, Store, Deliver, FetchFails
  <2>2. QED
    BY <1>1, <2>1
<1>3. ASSUME NEW r \in Readers, NEW k \in Slots, StartRead(r, k) PROVE Goal
  BY <1>1, <1>3 DEF StartRead
<1>4. ASSUME NEW w \in Writers, ApplyWrite(w) \/ LoseResponse(w) \/ WriterStep(w) PROVE Goal
  BY <1>1, <1>4 DEF ApplyWrite, LoseResponse, WriterStep, ClearMembers, ClearGroups, SwapFlight
<1>5. ASSUME Tick \/ Restart \/ UNCHANGED vars PROVE Goal
  BY <1>1, <1>5 DEF Tick, Restart, vars
<1>6. Goal
  BY <1>2, <1>3, <1>4, <1>5 DEF Next
<1>7. CASE now <= now' /\ applied' = applied
  BY <1>1, <1>7
<1>8. CASE now' = now /\ applied' = Append(applied, now)
  BY <1>1, <1>8
<1>9. QED
  BY <1>6, <1>7, <1>8

LEMMA FaithfulStep ==
    ASSUME TypeOK, TypeOK', [Next]_vars, NEW list \in Nat, NEW seen \in Nat,
           Faithful(list, seen)
    PROVE  FaithfulNext(list, seen)
<1>1. now \in Nat /\ now' \in Nat /\ Len(applied) \in Nat /\ Len(applied') \in Nat
      /\ \A v \in 1..Len(applied) : applied[v] \in Nat
  BY DEF TypeOK, GoogleType
<1>2. seen <= now'
  BY <1>1, GoogleStep DEF Faithful
<1>3. ASSUME NEW v \in 1..Len(applied'), applied'[v] + Lag < seen PROVE v <= list
  <2>1. v \in 1..Len(applied)
    BY <1>1, <1>3, GoogleStep, ConstantsAssumption DEF Faithful
  <2>2. QED
    BY <1>1, <1>3, <2>1, GoogleStep DEF Faithful
<1>4. QED
  BY <1>2, <1>3 DEF FaithfulNext

\* The entry under k is the one r has just been allowed to store.
JustStored(r, k) ==
    /\ pc[r] = "store" /\ k = rd[r].slot
    /\ MayStore(CacheOf(k), rd[r].gen)
    /\ entries'[k] = [list |-> rd[r].list, since |-> rd[r].since,
                      seen |-> rd[r].seen, expires |-> now + TTL]
    /\ UNCHANGED <<google, generation, suppressUntil, cleared, boot>>

Kept(k) == k \in DOMAIN entries /\ entries'[k] = entries[k]

LEMMA EntryStep ==
    ASSUME TypeOK, [Next]_vars, NEW k \in DOMAIN entries'
    PROVE  Kept(k) \/ \E r \in Readers : JustStored(r, k)
<1> DEFINE Goal == Kept(k) \/ \E r \in Readers : JustStored(r, k)
<1>1. ASSUME NEW r \in Readers, Store(r) PROVE Goal
  <2>1. CASE k \in DOMAIN entries /\ entries'[k] = entries[k]
    BY <2>1 DEF Kept
  <2>2. CASE MayStore(CacheOf(rd[r].slot), rd[r].gen)
    BY <1>1, <2>2 DEF Store, Put, Kept, JustStored
  <2>3. QED
    BY <1>1, <2>1, <2>2 DEF Store
<1>2. ASSUME NEW r \in Readers, DropExpired(r) PROVE Goal
  BY <1>2 DEF DropExpired, Drop, Kept
<1>3. ASSUME NEW w \in Writers, ClearMembers(w) \/ ClearGroups(w) PROVE Goal
  BY <1>3 DEF ClearMembers, ClearGroups, Clear, Drop, Kept
<1>4. CASE Restart
  BY <1>4 DEF Restart
<1>5. CASE UNCHANGED entries
  BY <1>5 DEF Kept
<1>6. QED
  <2>1. ASSUME NEW r \in Readers, ReaderStep(r) PROVE Goal
    BY <1>1, <1>2, <1>5, <2>1 DEF ReaderStep, OwnStep, Get, Recheck, TakeFlight, Join, Begin,
                                 Answer, Deliver, FetchFails
  <2>2. ASSUME NEW r \in Readers, NEW x \in Slots, StartRead(r, x) PROVE Goal
    BY <1>5, <2>2 DEF StartRead
  <2>3. ASSUME NEW w \in Writers, ApplyWrite(w) \/ LoseResponse(w) \/ WriterStep(w) PROVE Goal
    BY <1>3, <1>5, <2>3 DEF ApplyWrite, LoseResponse, WriterStep, SwapFlight
  <2>4. CASE Tick \/ UNCHANGED vars
    BY <1>5, <2>4 DEF Tick, vars
  <2>5. QED
    BY <1>4, <2>1, <2>2, <2>3, <2>4 DEF Next

\* The list j holds after the step is the one it held; or comes from the cache,
\* from Google, from the leader of its call.
SameList(i, j) == /\ rd'[j].list = rd[i].list /\ rd'[j].seen = rd[i].seen
                  /\ rd'[j].at = rd[i].at
Holding == {"store", "deliver", "done"}
KeptList(j) == /\ pc[j] \in Holding /\ SameList(j, j)
               /\ pc'[j] = "store" => pc[j] = "store" /\ rd'[j].since = rd[j].since
FromCache(j) == LET e == entries[rd[j].slot] IN
    /\ rd[j].slot \in DOMAIN entries /\ now <= e.expires
    /\ rd'[j].list = e.list /\ rd'[j].seen = e.seen /\ rd'[j].at = now
    /\ pc'[j] # "store" /\ UNCHANGED google
FromGoogle(j) ==
    /\ pc[j] = "fetch" /\ rd'[j].list \in Readable
    /\ rd'[j].seen = now /\ rd'[j].at = now /\ rd'[j].since = rd[j].since
    /\ UNCHANGED google
FromLeader(i, j) == pc[i] = "deliver" /\ SameList(i, j) /\ pc'[j] = "done" /\ UNCHANGED google

LEMMA ListStep ==
    ASSUME TypeOK, TypeOK', [Next]_vars, NEW j \in Readers, pc'[j] \in Holding
    PROVE  \/ KeptList(j) \/ FromCache(j) \/ FromGoogle(j)
           \/ \E i \in Readers : FromLeader(i, j)
<1> DEFINE Goal == \/ KeptList(j) \/ FromCache(j) \/ FromGoogle(j)
                   \/ \E i \in Readers : FromLeader(i, j)
<1> USE DEF Holding, Goto, Update
<1>t. /\ pc \in [Readers -> ReaderPC] /\ rd \in [Readers -> Read]
      /\ \A k \in DOMAIN entries : entries[k] \in Entry
      /\ now \in Nat
  BY DEF TypeOK, GoogleType, CacheType, ReaderType
<1>0. CASE UNCHANGED <<pc, rd>>
  BY <1>0 DEF KeptList, SameList
<1>1. ASSUME NEW r \in Readers, NEW k \in Slots, StartRead(r, k) PROVE Goal
  BY <1>1, <1>t DEF StartRead, KeptList, SameList
<1>2. ASSUME NEW r \in Readers, Get(r) \/ Recheck(r) PROVE Goal
  <2>1. CASE j # r
    <3>1. pc'[j] = pc[j]
      BY <1>2, <1>t, <2>1 DEF Get, Recheck
    <3>2. rd'[j] = rd[j]
      BY <1>2, <1>t, <2>1 DEF Get, Recheck, Hit
    <3>3. QED
      BY <3>1, <3>2 DEF KeptList, SameList
  <2>2. CASE j = r
    <3>1. Hit(r) /\ pc'[r] # "store" /\ UNCHANGED google
      BY <1>2, <1>t, <2>2 DEF Get, Recheck, AfterMiss
    <3>2. rd[r].slot \in DOMAIN entries /\ now <= entries[rd[r].slot].expires
      BY <1>t, <3>1 DEF Hit, Live, Expired, Entry
    <3>3. /\ rd'[r].list = entries[rd[r].slot].list
          /\ rd'[r].seen = entries[rd[r].slot].seen /\ rd'[r].at = now
      BY <1>t, <3>1 DEF Hit, Read
    <3>4. QED
      BY <2>2, <3>1, <3>2, <3>3 DEF FromCache
  <2>3. QED
    BY <2>1, <2>2
<1>3. ASSUME NEW r \in Readers,
             DropExpired(r) \/ TakeFlight(r) \/ Join(r) \/ Begin(r) \/ FetchFails(r)
      PROVE  Goal
  <2>1. pc'[j] = pc[j]
    BY <1>3, <1>t DEF DropExpired, TakeFlight, Join, Begin, FetchFails, AfterMiss
  <2>2. rd'[j] = rd[j]
    BY <1>3, <1>t, <2>1 DEF DropExpired, TakeFlight, Join, Begin, FetchFails
  <2>3. QED
    BY <2>1, <2>2 DEF KeptList, SameList
<1>4. ASSUME NEW r \in Readers, Answer(r) PROVE Goal
  <2>1. CASE j # r
    BY <1>4, <1>t, <2>1 DEF Answer, KeptList, SameList
  <2>2. CASE j = r
    BY <1>4, <1>t, <2>2 DEF Answer, FromGoogle, Read
  <2>3. QED
    BY <2>1, <2>2
<1>5. ASSUME NEW r \in Readers, Store(r) PROVE Goal
  BY <1>5, <1>t DEF Store, KeptList, SameList
<1>6. ASSUME NEW r \in Readers, Deliver(r) PROVE Goal
  <2>1. CASE j \in Sharing(r)
    <3>1. SameList(r, j)
      BY <1>6, <1>t, <2>1 DEF Deliver, SameList, Read
    <3>2. QED
      BY <1>6, <2>1, <3>1 DEF Deliver, FromLeader
  <2>2. CASE j \notin Sharing(r)
    BY <1>6, <1>t, <2>2 DEF Deliver, KeptList, SameList
  <2>3. QED
    BY <2>1, <2>2
<1>7. ASSUME NEW w \in Writers,
             ApplyWrite(w) \/ LoseResponse(w) \/ WriterStep(w)
      PROVE  Goal
  BY <1>0, <1>7 DEF ApplyWrite, LoseResponse, WriterStep, ClearMembers, ClearGroups, SwapFlight
<1>8. CASE Tick
  BY <1>0, <1>8 DEF Tick
<1>9. CASE Restart
  BY <1>9 DEF Restart
<1>10. CASE UNCHANGED vars
  BY <1>0, <1>10 DEF vars
<1>11. QED
  BY <1>1, <1>2, <1>3, <1>4, <1>5, <1>6, <1>7, <1>8, <1>9, <1>10 DEF Next, ReaderStep, OwnStep
------------------------------------------------------------------------------
(* The invariant. *)

LEMMA AgeInit == Init => AgeInv
BY DEF Init, AgeInv, ClockInv, HeldInv, EntryAgeInv, AnswerInv, WindowInv

LEMMA Types ==
    ASSUME TypeOK
    PROVE  /\ now \in Nat /\ applied \in Seq(Nat) /\ Len(applied) \in Nat
           /\ \A v \in 1..Len(applied) : applied[v] \in Nat
           /\ \A k \in DOMAIN entries :
                 /\ entries[k].list \in Nat /\ entries[k].since \in Nat
                 /\ entries[k].seen \in Nat /\ entries[k].expires \in Nat
           /\ \A r \in Readers :
                 /\ rd[r].slot \in Slots /\ rd[r].gen \in Nat
                 /\ rd[r].since \in Nat /\ rd[r].list \in Nat
                 /\ rd[r].seen \in Nat /\ rd[r].at \in Nat
           /\ Suppress \in Nat /\ TTL \in Nat /\ Lag \in Nat /\ MaxCall \in Nat
<1>1. /\ now \in Nat /\ applied \in Seq(Nat) /\ Len(applied) \in Nat
      /\ \A v \in 1..Len(applied) : applied[v] \in Nat
  BY DEF TypeOK, GoogleType
<1>2. ASSUME NEW k \in DOMAIN entries
      PROVE  /\ entries[k].list \in Nat /\ entries[k].since \in Nat
             /\ entries[k].seen \in Nat /\ entries[k].expires \in Nat
  BY <1>2 DEF TypeOK, CacheType, Entry
<1>3. ASSUME NEW r \in Readers
      PROVE  /\ rd[r].slot \in Slots /\ rd[r].gen \in Nat
             /\ rd[r].since \in Nat /\ rd[r].list \in Nat
             /\ rd[r].seen \in Nat /\ rd[r].at \in Nat
  BY <1>3 DEF TypeOK, ReaderType, Read
<1>4. QED
  BY <1>1, <1>2, <1>3, ConstantsAssumption

LEMMA AgeStep == TypeOK /\ TypeOK' /\ FreshInv /\ FreshInv' /\ AgeInv /\ [Next]_vars => AgeInv'
<1> SUFFICES ASSUME TypeOK, TypeOK', FreshInv, FreshInv', AgeInv, [Next]_vars PROVE AgeInv'
  OBVIOUS
<1>t. /\ now \in Nat /\ now' \in Nat /\ Len(applied) \in Nat /\ Len(applied') \in Nat
      /\ Suppress \in Nat /\ TTL \in Nat /\ Lag \in Nat /\ MaxCall \in Nat
  BY Types DEF TypeOK, GoogleType
<1>1. ClockInv'
  BY <1>t, Types, GoogleStep DEF AgeInv, ClockInv
<1>2. EntryAgeInv'
  <2> SUFFICES ASSUME NEW k \in DOMAIN entries'
               PROVE  /\ FaithfulNext(entries'[k].list, entries'[k].seen)
                      /\ entries'[k].expires <= entries'[k].seen + MaxCall + TTL
    BY DEF EntryAgeInv, Faithful, FaithfulNext
  <2>1. CASE Kept(k)
    BY <2>1, Types, FaithfulStep DEF Kept, AgeInv, EntryAgeInv
  <2>2. ASSUME NEW r \in Readers, JustStored(r, k)
        PROVE  /\ FaithfulNext(entries'[k].list, entries'[k].seen)
               /\ entries'[k].expires <= entries'[k].seen + MaxCall + TTL
    <3>1. pc[r] = "store" /\ Faithful(rd[r].list, rd[r].seen) /\ now <= rd[r].seen + MaxCall
      BY <2>2 DEF JustStored, AgeInv, HeldInv, AnswerInv
    <3>2. /\ entries'[k].list = rd[r].list /\ entries'[k].seen = rd[r].seen
          /\ entries'[k].expires = now + TTL
      BY <2>2 DEF JustStored
    <3>3. QED
      BY <1>t, <3>1, <3>2, Types, FaithfulStep
  <2>3. QED
    BY <2>1, <2>2, EntryStep
<1>3. HeldInv'
  <2> SUFFICES ASSUME NEW j \in Readers, pc'[j] \in Holding
               PROVE  /\ FaithfulNext(rd'[j].list, rd'[j].seen)
                      /\ rd'[j].at <= rd'[j].seen + MaxCall + TTL
    BY DEF HeldInv, Holding, Faithful, FaithfulNext
  <2>1. ASSUME NEW i \in Readers, pc[i] \in Holding, SameList(i, j)
        PROVE  /\ FaithfulNext(rd'[j].list, rd'[j].seen)
               /\ rd'[j].at <= rd'[j].seen + MaxCall + TTL
    BY <2>1, Types, FaithfulStep DEF Holding, SameList, AgeInv, HeldInv
  <2>2. CASE FromCache(j)
    BY <1>t, <2>2, Types, FaithfulStep DEF FromCache, AgeInv, EntryAgeInv
  <2>3. CASE FromGoogle(j)
    <3>1. rd'[j].list \in 0..Len(applied) /\ rd'[j].seen = now /\ rd'[j].at = now
      BY <2>3 DEF FromGoogle, Readable
    <3>2. \A v \in 1..Len(applied) : v > rd'[j].list => now < applied[v] + Lag
      BY <1>t, <2>3, Types DEF FromGoogle, Readable
    <3>3. ASSUME NEW v \in 1..Len(applied), applied[v] + Lag < now PROVE v <= rd'[j].list
      <4>1. applied[v] \in Nat /\ rd'[j].list \in Nat /\ v \in Nat
        BY <1>t, <3>1, Types
      <4>2. ~(v > rd'[j].list)
        BY <1>t, <3>2, <3>3, <4>1
      <4>3. QED
        BY <4>1, <4>2
    <3>4. FaithfulNext(rd'[j].list, rd'[j].seen)
      BY <1>t, <2>3, <3>1, <3>3 DEF FromGoogle, FaithfulNext
    <3>5. QED
      BY <1>t, <3>1, <3>4
  <2>4. QED
    BY <2>1, <2>2, <2>3, ListStep DEF KeptList, FromLeader, Holding
\* The clock does not pass what a call in progress is allowed.
<1>4. AnswerInv'
  <2> SUFFICES ASSUME NEW j \in Readers, pc'[j] = "store"
               PROVE  /\ now' <= rd'[j].seen + MaxCall
                      /\ \A v \in 1..rd'[j].since :
                            v > rd'[j].list => rd'[j].seen < applied'[v] + Lag
    BY DEF AnswerInv
  <2>1. CASE KeptList(j)
    <3>1. /\ pc[j] = "store" /\ rd'[j].since = rd[j].since
          /\ rd'[j].list = rd[j].list /\ rd'[j].seen = rd[j].seen
      BY <2>1 DEF KeptList, SameList
    <3>2. now' <= rd[j].seen + MaxCall
      <4>1. now <= rd[j].seen + MaxCall
        BY <3>1 DEF AgeInv, AnswerInv
      <4>2. now' = now \/ Tick
        BY DEF Next, vars, ReaderStep, OwnStep, WriterStep, StartRead, Get, Recheck, DropExpired,
           TakeFlight, Join, Begin, Answer, Store, Deliver, FetchFails, ApplyWrite,
           LoseResponse, ClearMembers, ClearGroups, SwapFlight, Restart
      <4>3. QED
        BY <1>t, <3>1, <4>1, <4>2, Types DEF Tick
    <3>3. rd[j].since <= Len(applied)
      BY <3>1 DEF FreshInv, ReadersInv, Settled
    <3>4. ASSUME NEW v \in 1..rd[j].since, v > rd[j].list
          PROVE  rd[j].seen < applied'[v] + Lag
      <4>1. v \in 1..Len(applied)
        BY <1>t, <3>3, Types
      <4>2. applied'[v] = applied[v]
        BY <4>1, GoogleStep
      <4>3. QED
        BY <3>1, <3>4, <4>2 DEF AgeInv, AnswerInv
    <3>5. QED
      BY <3>1, <3>2, <3>4
  <2>2. CASE FromGoogle(j)
    <3>1. /\ rd'[j].seen = now /\ now' = now /\ applied' = applied
          /\ rd'[j].since = rd[j].since /\ rd[j].since <= Len(applied)
      BY <2>2 DEF FromGoogle, FreshInv, ReadersInv, Settled
    <3>2. \A v \in 1..Len(applied) : v > rd'[j].list => now < applied[v] + Lag
      BY <1>t, <2>2, Types DEF FromGoogle, Readable
    <3>3. QED
      BY <1>t, <3>1, <3>2, Types
  <2>3. QED
    BY <2>1, <2>2, ListStep DEF Holding, FromCache, FromLeader
<1>5. WindowInv'
  <2> SUFFICES ASSUME NEW c \in Caches, cleared'[c] > boot'
               PROVE  applied'[cleared'[c]] + Suppress <= suppressUntil'[c]
    BY DEF WindowInv
  <2>1. /\ cleared[c] \in Nat /\ cleared'[c] \in Nat /\ boot \in Nat /\ boot' \in Nat
        /\ cleared[c] <= Len(applied) /\ cleared'[c] <= Len(applied')
        /\ suppressUntil \in [Caches -> Nat]
    BY DEF TypeOK, CacheType, HistoryType, FreshInv, ClearedInv
  <2>2. CASE UNCHANGED <<cleared, suppressUntil, boot>>
    BY <1>t, <2>1, <2>2, Types, GoogleStep DEF AgeInv, WindowInv
  <2>3. ASSUME NEW w \in Writers, ClearMembers(w) \/ ClearGroups(w)
        PROVE  applied'[cleared'[c]] + Suppress <= suppressUntil'[c]
    <3>1. applied' = applied /\ now' = now /\ boot' = boot
      BY <2>3 DEF ClearMembers, ClearGroups
    <3>2. CASE suppressUntil'[c] = now + Suppress
      BY <1>t, <2>1, <3>1, <3>2, Types DEF AgeInv, ClockInv
    <3>3. CASE suppressUntil'[c] = suppressUntil[c] /\ cleared'[c] = cleared[c]
      BY <1>t, <2>1, <3>1, <3>3, Types DEF AgeInv, WindowInv
    <3>4. QED
      BY <2>1, <2>3, <3>2, <3>3 DEF ClearMembers, ClearGroups, Clear, TypeOK, HistoryType
  <2>4. CASE Restart
    BY <2>1, <2>4 DEF Restart
  <2>5. QED
    <3>1. ASSUME NEW r \in Readers, ReaderStep(r)
          PROVE  UNCHANGED <<cleared, suppressUntil, boot>>
      BY <3>1 DEF ReaderStep, OwnStep, Get, Recheck, DropExpired, TakeFlight, Join, Begin,
                  Answer, Store, Deliver, FetchFails
    <3>2. ASSUME NEW r \in Readers, NEW k \in Slots, StartRead(r, k)
          PROVE  UNCHANGED <<cleared, suppressUntil, boot>>
      BY <3>2 DEF StartRead
    <3>3. ASSUME NEW w \in Writers, ApplyWrite(w) \/ LoseResponse(w) \/ SwapFlight(w)
          PROVE  UNCHANGED <<cleared, suppressUntil, boot>>
      BY <3>3 DEF ApplyWrite, LoseResponse, SwapFlight
    <3>4. ASSUME Tick \/ UNCHANGED vars
          PROVE  UNCHANGED <<cleared, suppressUntil, boot>>
      BY <3>4 DEF Tick, vars
    <3>5. QED
      BY <2>2, <2>3, <2>4, <3>1, <3>2, <3>3, <3>4 DEF Next, WriterStep
<1>6. QED
  BY <1>1, <1>2, <1>3, <1>4, <1>5 DEF AgeInv

LEMMA AgeInvariant == Spec => []AgeInv
<1>1. Init => AgeInv
  BY AgeInit
<1>2. QED
  BY <1>1, AgeStep, FreshInvariant, PTL DEF Spec

\* Whatever the propagation, the lifetime and the length of calls: an answer
\* misses a write only if it was applied within Lag + TTL + MaxCall before,
\* even when nothing invalidated for that write (get, set, expiresAt).
THEOREM StaleAtMostTTLHolds == Spec => []StaleAtMostTTL
<1>1. ASSUME TypeOK, AgeInv PROVE StaleAtMostTTL
  <2> SUFFICES ASSUME NEW r \in Readers, pc[r] = "done", NEW v \in 1..Version,
                      applied[v] + Lag + TTL + MaxCall < rd[r].at
               PROVE  rd[r].list >= v
    BY DEF StaleAtMostTTL
  <2>1. Faithful(rd[r].list, rd[r].seen) /\ rd[r].at <= rd[r].seen + MaxCall + TTL
    BY <1>1 DEF AgeInv, HeldInv
  <2>2. /\ applied[v] \in Nat /\ rd[r].at \in Nat /\ rd[r].seen \in Nat
        /\ rd[r].list \in Nat /\ v \in Nat
        /\ Lag \in Nat /\ TTL \in Nat /\ MaxCall \in Nat
    BY <1>1, Types
  <2>3. applied[v] + Lag < rd[r].seen
    <3> DEFINE a == applied[v]  at == rd[r].at  seen == rd[r].seen
    <3>1. a + Lag + TTL + MaxCall < at /\ at <= seen + MaxCall + TTL
      BY <2>1
    <3>2. a \in Nat /\ at \in Nat /\ seen \in Nat
      BY <2>2
    <3> HIDE DEF a, at, seen
    <3>3. a + Lag < seen
      BY <2>2, <3>1, <3>2
    <3>4. QED
      BY <3>3 DEF a, seen
  <2>4. QED
    BY <2>1, <2>2, <2>3 DEF Faithful
<1>2. QED
  BY <1>1, AgeInvariant, TypeCorrect, PTL

------------------------------------------------------------------------------
(* What the suppression window buys, and its price. *)

LEMMA CurrentStep ==
    ASSUME Lag + MaxCall <= Suppress,
           TypeOK, TypeOK', FreshInv, FreshInv', AgeInv, NoPreWriteListCached, [Next]_vars
    PROVE  NoPreWriteListCached'
<1>t. /\ now \in Nat /\ Len(applied) \in Nat
      /\ Suppress \in Nat /\ TTL \in Nat /\ Lag \in Nat /\ MaxCall \in Nat
  BY Types
<1> SUFFICES ASSUME NEW k \in DOMAIN entries', cleared'[CacheOf(k)] > boot'
             PROVE  entries'[k].list >= cleared'[CacheOf(k)]
  BY DEF NoPreWriteListCached
<1> DEFINE c == CacheOf(k)
<1>c. /\ c \in Caches /\ cleared[c] \in Nat /\ boot \in Nat /\ suppressUntil[c] \in Nat
      /\ cleared[c] <= Len(applied)
  BY CacheOfType DEF TypeOK, CacheType, HistoryType, FreshInv, ClearedInv
<1>1. ASSUME NEW r \in Readers, JustStored(r, k) PROVE entries'[k].list >= cleared'[c]
  <2>1. /\ pc[r] = "store" /\ k = rd[r].slot /\ rd[r].gen = generation[c]
        /\ now >= suppressUntil[c] /\ entries'[k].list = rd[r].list
        /\ cleared' = cleared /\ boot' = boot
    BY <1>1 DEF JustStored, MayStore
  <2>2. cleared[c] <= rd[r].since
    BY <2>1 DEF FreshInv, FetchInv
  <2>t. /\ cleared[c] \in 1..Len(applied) /\ applied[cleared[c]] \in Nat
        /\ rd[r].list \in Nat /\ rd[r].seen \in Nat /\ rd[r].since \in Nat
    <3>1. cleared[c] \in 1..Len(applied)
      BY <1>t, <1>c, <2>1
    <3>2. QED
      BY <2>1, <3>1, Types
  <2>3. applied[cleared[c]] + Suppress <= now
    <3>1. applied[cleared[c]] + Suppress <= suppressUntil[c]
      BY <1>c, <2>1 DEF AgeInv, WindowInv
    <3>2. QED
      BY <1>t, <1>c, <2>t, <2>1, <3>1
  <2>4. now <= rd[r].seen + MaxCall
    BY <2>1 DEF AgeInv, AnswerInv
  <2>5. applied[cleared[c]] + Lag <= rd[r].seen
    BY <1>t, <2>t, <2>3, <2>4
  <2>6. ~(cleared[c] > rd[r].list)
    <3>1. cleared[c] \in 1..rd[r].since
      BY <2>t, <2>2
    <3>2. cleared[c] > rd[r].list => rd[r].seen < applied[cleared[c]] + Lag
      BY <2>1, <3>1 DEF AgeInv, AnswerInv
    <3>3. QED
      BY <1>t, <2>t, <2>5, <3>2
  <2>7. QED
    BY <2>t, <2>1, <2>6
<1>2. CASE Kept(k) /\ UNCHANGED <<cleared, boot>>
  BY <1>2 DEF Kept, NoPreWriteListCached
<1>3. ASSUME NEW w \in Writers, ClearMembers(w) \/ ClearGroups(w), Kept(k)
      PROVE  entries'[k].list >= cleared'[c]
  <2>1. cleared'[c] = cleared[c] /\ boot' = boot
    <3>t. cleared \in [Caches -> Nat] /\ k \in Slots
      BY <1>3 DEF Kept, TypeOK, CacheType, HistoryType
    <3>1. CASE ClearMembers(w)
      <4>1. c # "members"
        BY <3>1, <3>t DEF ClearMembers, Clear, Drop
      <4>2. QED
        BY <1>c, <3>1, <3>t, <4>1 DEF ClearMembers
    <3>2. CASE ClearGroups(w)
      <4>1. c # "groups"
        BY <3>2, <3>t DEF ClearGroups, Clear, Drop
      <4>2. QED
        BY <1>c, <3>2, <3>t, <4>1 DEF ClearGroups
    <3>3. QED
      BY <1>3, <3>1, <3>2
  <2>2. QED
    BY <1>3, <2>1 DEF Kept, NoPreWriteListCached
<1>4. ASSUME Restart PROVE FALSE
  BY <1>4 DEF Restart
<1>5. QED
  <2>1. ASSUME NEW r \in Readers, ReaderStep(r) PROVE UNCHANGED <<cleared, boot>>
    BY <2>1 DEF ReaderStep, OwnStep, Get, Recheck, DropExpired, TakeFlight, Join, Begin,
                Answer, Store, Deliver, FetchFails
  <2>2. ASSUME NEW r \in Readers, NEW x \in Slots, StartRead(r, x)
        PROVE  UNCHANGED <<cleared, boot>>
    BY <2>2 DEF StartRead
  <2>3. ASSUME NEW w \in Writers, ApplyWrite(w) \/ LoseResponse(w) \/ SwapFlight(w)
        PROVE  UNCHANGED <<cleared, boot>>
    BY <2>3 DEF ApplyWrite, LoseResponse, SwapFlight
  <2>4. ASSUME Tick \/ UNCHANGED vars PROVE UNCHANGED <<cleared, boot>>
    BY <2>4 DEF Tick, vars
  <2>5. \/ UNCHANGED <<cleared, boot>>
        \/ \E w \in Writers : ClearMembers(w) \/ ClearGroups(w)
    BY <1>4, <2>1, <2>2, <2>3, <2>4 DEF Next, WriterStep
  <2>6. QED
    BY <1>1, <1>2, <1>3, <2>5, EntryStep

\* If propagation and the longest call fit in the suppression window, nothing
\* cached ever misses a write the process has invalidated for (cache.go,
\* writeSuppression).  When they do not fit, a fetch answered just after the write
\* and stored once the window has passed caches the list as it was before.
THEOREM NoPreWriteListCachedHolds ==
    ASSUME Lag + MaxCall <= Suppress
    PROVE  Spec => []NoPreWriteListCached
<1>1. Init => NoPreWriteListCached
  BY DEF Init, NoPreWriteListCached
<1>2. /\ TypeOK /\ TypeOK' /\ FreshInv /\ FreshInv' /\ AgeInv
      /\ NoPreWriteListCached /\ [Next]_vars
      => NoPreWriteListCached'
  BY CurrentStep
<1>3. QED
  BY <1>1, <1>2, FreshInvariant, AgeInvariant, PTL DEF Spec

------------------------------------------------------------------------------
(* An action property: what an entry leaves the cache for.                   *)

LEMMA ClearCounts ==
    ASSUME TypeOK, NEW c \in Caches, Clear(c)
    PROVE  \A k \in DOMAIN entries :
              k \in DOMAIN entries' \/ generation'[CacheOf(k)] # generation[CacheOf(k)]
<1>1. generation \in [Caches -> Nat] /\ DOMAIN entries \subseteq Slots
  BY DEF TypeOK, CacheType
<1>2. generation'[c] = generation[c] + 1 /\ generation[c] \in Nat
  BY <1>1 DEF Clear
<1>3. \A k \in DOMAIN entries : k \in DOMAIN entries' \/ CacheOf(k) = c
  BY <1>1 DEF Clear, Drop
<1>4. QED
  BY <1>2, <1>3

LEMMA LeaveStep ==
    ASSUME TypeOK, [Next]_vars, NEW k \in DOMAIN entries, Live(k)
    PROVE  \/ k \in DOMAIN entries'
           \/ generation'[CacheOf(k)] # generation[CacheOf(k)]
           \/ restarts' # restarts
<1> DEFINE Goal == \/ k \in DOMAIN entries'
                   \/ generation'[CacheOf(k)] # generation[CacheOf(k)]
                   \/ restarts' # restarts
<1>1. CASE DOMAIN entries \subseteq DOMAIN entries'
  BY <1>1
<1>2. ASSUME NEW r \in Readers, Store(r) PROVE Goal
  BY <1>1, <1>2 DEF Store, Put
<1>3. ASSUME NEW r \in Readers, DropExpired(r) PROVE Goal
  BY <1>3 DEF DropExpired, Drop, DroppedBy, Live
<1>4. ASSUME NEW w \in Writers, ClearMembers(w) \/ ClearGroups(w) PROVE Goal
  BY <1>4, ClearCounts DEF ClearMembers, ClearGroups
<1>5. CASE Restart
  BY <1>5 DEF Restart, TypeOK, HistoryType
<1>6. CASE UNCHANGED entries
  BY <1>1, <1>6
<1>7. QED
  <2>1. ASSUME NEW r \in Readers, ReaderStep(r) PROVE Goal
    BY <1>2, <1>3, <1>6, <2>1 DEF ReaderStep, OwnStep, Get, Recheck, TakeFlight, Join, Begin,
                                 Answer, Deliver, FetchFails
  <2>2. ASSUME NEW r \in Readers, NEW x \in Slots, StartRead(r, x) PROVE Goal
    BY <1>6, <2>2 DEF StartRead
  <2>3. ASSUME NEW w \in Writers, ApplyWrite(w) \/ LoseResponse(w) \/ WriterStep(w) PROVE Goal
    BY <1>4, <1>6, <2>3 DEF ApplyWrite, LoseResponse, WriterStep, SwapFlight
  <2>4. CASE Tick \/ UNCHANGED vars
    BY <1>6, <2>4 DEF Tick, vars
  <2>5. QED
    BY <1>5, <2>1, <2>2, <2>3, <2>4 DEF Next

\* No reader that comes to delete an expired entry deletes the live one that
\* another reader has stored in the meantime (cache.go, the re-check in get).
THEOREM LiveEntryKeptHolds == Spec => LiveEntryKept
<1>1. TypeOK /\ [Next]_vars =>
        [\A k \in DOMAIN entries :
            Live(k) => \/ k \in DOMAIN entries'
                       \/ generation'[CacheOf(k)] # generation[CacheOf(k)]
                       \/ restarts' # restarts]_vars
  BY LeaveStep
<1>2. QED
  BY <1>1, TypeCorrect, PTL DEF Spec, LiveEntryKept
==============================================================================

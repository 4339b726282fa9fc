--------------------------- MODULE ReadAfterWrite ---------------------------
(***************************************************************************)
(* What the cached lists promise their callers, with no cache in sight: a  *)
(* read may be answered with anything Google was asked for after the last  *)
(* write that had been acknowledged when the read began, and with nothing  *)
(* older.  Writes are numbered in the order Google applies them.           *)
(***************************************************************************)
EXTENDS Integers

CONSTANT Readers

VARIABLES
    version,        \* writes applied
    acknowledged,   \* the newest write whose caller has been told
    status,         \* of each reader: "resting", "reading" or "answered"
    floor,          \* what was acknowledged when its read began
    since           \* what was applied when its answer was asked for

vars == <<version, acknowledged, status, floor, since>>

Init ==
    /\ version = 0 /\ acknowledged = 0
    /\ status = [r \in Readers |-> "resting"]
    /\ floor = [r \in Readers |-> 0] /\ since = [r \in Readers |-> 0]

Apply ==
    /\ version' = version + 1
    /\ UNCHANGED <<acknowledged, status, floor, since>>

\* Acknowledgements may come out of order; a later write's covers the earlier.
Acknowledge ==
    /\ \E v \in 1..version : acknowledged' = IF v > acknowledged THEN v ELSE acknowledged
    /\ UNCHANGED <<version, status, floor, since>>

Ask(r) ==
    /\ status[r] # "reading"
    /\ status' = [status EXCEPT ![r] = "reading"]
    /\ floor' = [floor EXCEPT ![r] = acknowledged]
    /\ since' = [since EXCEPT ![r] = 0]
    /\ UNCHANGED <<version, acknowledged>>

\* Some readers get one answer, new enough for each of them.
Tell(S, s) ==
    /\ \A r \in S : status[r] = "reading" /\ floor[r] <= s
    /\ status' = [r \in Readers |-> IF r \in S THEN "answered" ELSE status[r]]
    /\ since' = [r \in Readers |-> IF r \in S THEN s ELSE since[r]]
    /\ UNCHANGED <<version, acknowledged, floor>>

\* Some readers get an error, or die with their process.
Fail(S) ==
    /\ status' = [r \in Readers |-> IF r \in S THEN "resting" ELSE status[r]]
    /\ floor' = [r \in Readers |-> IF r \in S THEN 0 ELSE floor[r]]
    /\ since' = [r \in Readers |-> IF r \in S THEN 0 ELSE since[r]]
    /\ UNCHANGED <<version, acknowledged>>

Next ==
    \/ Apply
    \/ Acknowledge
    \/ \E r \in Readers : Ask(r)
    \/ \E S \in SUBSET Readers : (\E s \in 0..version : Tell(S, s)) \/ Fail(S)

Spec == Init /\ [][Next]_vars
==============================================================================

------------------------------ MODULE GroupKeys ------------------------------
(***************************************************************************)
(* How a mailing list is named.  Google knows it by an address, by aliases *)
(* and by an immutable ID; this API speaks bare names, qualifies them on   *)
(* the way in and shortens them on the way out (googlegroup/service.go),   *)
(* and compares keys by the part before the "@" (membership/service.go).   *)
(*                                                                         *)
(* A key is a local part and a domain, "" when it has no "@".  Letter case *)
(* is left out: every comparison of the code folds it.                     *)
(***************************************************************************)
CONSTANTS
    Groups,    \* the account's lists: [id, address, aliases]
    Domain     \* google_group.domain

\* Every name a list has that is not its ID.
Addresses(g) == {g.address} \cup g.aliases

IsKey(k) == k = [local |-> k.local, domain |-> k.domain]

\* Addresses and aliases carry a domain; no two lists answer to one name, and
\* no ID, which Google makes up, reads like one.
ASSUME GroupsAssumption ==
    /\ Domain # ""
    /\ \A g \in Groups : \A a \in Addresses(g) : IsKey(a) /\ a.domain # ""
    /\ \A g, h \in Groups :
          /\ g # h => g.id # h.id /\ Addresses(g) \cap Addresses(h) = {}
          /\ \A a \in Addresses(h) : g.id # a.local

Bare(l) == [local |-> l, domain |-> ""]

\* qualifyGroupKey and shortGroupKey.
Qualified(k) == IF k.domain = "" THEN [k EXCEPT !.domain = Domain] ELSE k
Short(k) == IF k.domain = Domain THEN [k EXCEPT !.domain = ""] ELSE k

\* sameGroupKey.
Same(a, b) == a.local = b.local

KnownAnything(k) == TRUE
\* knownGroup, over the lists as toGroup shows them.
Known(k) ==
    \E g \in Groups : \/ k = Bare(g.id)
                      \/ \E a \in Addresses(g) : Same(Short(a), k)

\* Google's own resolution of a key.
Named(k) == {g \in Groups : k = Bare(g.id) \/ k \in Addresses(g)}

\* withGroupKey: the qualified key, or the key as given if that finds nothing.
Reached(k) == IF Named(Qualified(k)) # {} THEN Named(Qualified(k)) ELSE Named(k)
==============================================================================

--------------------------- MODULE OrgChartProofs ---------------------------
(***************************************************************************)
(* What index does with any chart file: it refuses exactly the files that  *)
(* contradict themselves, and of the others it makes what they say.        *)
(*                                                                         *)
(* index is four loops.  Each is a recursive function; that it is one, and *)
(* what it returns, is shown by induction over sets of numbers, because an *)
(* induction theorem with an operator for its parameter cannot be used.    *)
(***************************************************************************)
EXTENDS OrgChart, FiniteSetTheorems, TLAPS

------------------------------------------------------------------------------
(* Induction and recursion up to a number. *)

\* A set with 0 and every successor is all of Nat.
LEMMA NatSet ==
    ASSUME NEW T, T \subseteq Nat, 0 \in T, \A n \in T : n + 1 \in T
    PROVE  T = Nat
<1> DEFINE R == OpToRel(<, Nat)
           U == Nat \ T
<1>1. SUFFICES ASSUME U # {} PROVE FALSE
  OBVIOUS
<1>2. IsWellFoundedOn(R, Nat)
  BY NatLessThanWellFounded
<1>3. R = {p \in Nat \X Nat : p[1] < p[2]}
  BY DEF OpToRel
<1>4. PICK x \in U : \A y \in U : <<y, x>> \notin R
  <2>1. U \subseteq Nat
    OBVIOUS
  <2> HIDE DEF R, U
  <2>2. QED
    BY <1>1, <1>2, <2>1, WFMin
<1>5. \A y \in U : ~(y < x)
  BY <1>3, <1>4
<1>6. x \in Nat /\ x # 0
  OBVIOUS
<1>7. x - 1 \in T
  BY <1>5, <1>6
<1>8. QED
  BY <1>6, <1>7

\* The same up to a bound.
LEMMA Upto ==
    ASSUME NEW m \in Nat, NEW T, 0 \in T, \A n \in 1..m : n - 1 \in T => n \in T
    PROVE  \A n \in 0..m : n \in T
<1> DEFINE U == {n \in Nat : n <= m => n \in T}
<1>1. U \subseteq Nat /\ 0 \in U
  OBVIOUS
<1>2. ASSUME NEW n \in U PROVE n + 1 \in U
  <2>1. n \in Nat /\ n + 1 \in Nat /\ (n + 1) - 1 = n
    OBVIOUS
  <2>2. CASE n + 1 <= m
    <3>1. n + 1 \in 1..m /\ n \in T
      BY <2>1, <2>2
    <3> QED BY <2>1, <3>1
  <2> QED BY <2>1, <2>2
<1> HIDE DEF U
<1>3. U = Nat
  BY <1>1, <1>2, NatSet
<1> QED BY <1>3 DEF U

\* A loop whose body keeps to a set has a value after every number of rounds.
Runs(D, m, base, G) ==
    {f \in [0..m -> D] : f[0] = base /\ \A n \in 1..m : f[n] = G[<<f[n - 1], n>>]}

LEMMA Recursion ==
    ASSUME NEW D, NEW m \in Nat, NEW base \in D, NEW G \in [D \X (1..m) -> D]
    PROVE  Runs(D, m, base, G) # {}
<1> DEFINE Is(f, k) == /\ f \in [0..k -> D] /\ f[0] = base
                       /\ \A n \in 1..k : f[n] = G[<<f[n - 1], n>>]
           T == {k \in 0..m : \E f : Is(f, k)}
<1>1. 0 \in T
  <2> DEFINE g == [n \in {0} |-> base]
  <2>1. 0..0 = {0} /\ 1..0 = {} /\ 0 \in 0..m
    OBVIOUS
  <2>2. g \in [{0} -> D] /\ g[0] = base
    OBVIOUS
  <2>3. Is(g, 0)
    <3> HIDE DEF g
    <3> QED BY <2>1, <2>2
  <2> HIDE DEF Is, g
  <2> QED BY <2>1, <2>3
<1>2. ASSUME NEW k \in 1..m, k - 1 \in T PROVE k \in T
  <2>1. PICK f : Is(f, k - 1)
    BY <1>2
  <2> DEFINE g == [n \in 0..k |-> IF n = k THEN G[<<f[k - 1], k>>] ELSE f[n]]
  <2>2. k \in Nat /\ k # 0 /\ f[k - 1] \in D /\ G[<<f[k - 1], k>>] \in D
    BY <2>1
  <2>3. g \in [0..k -> D]
    BY <2>1, <2>2
  <2>4. g[0] = base
    BY <2>1, <2>2
  <2>5. ASSUME NEW n \in 1..k PROVE g[n] = G[<<g[n - 1], n>>]
    <3>1. CASE n = k
      <4>1. k \in 0..k /\ k - 1 \in 0..k /\ k - 1 # k
        BY <2>2
      <4>2. g[k] = G[<<f[k - 1], k>>] /\ g[k - 1] = f[k - 1]
        BY <4>1
      <4> HIDE DEF g
      <4> QED BY <3>1, <4>2
    <3>2. CASE n # k
      <4>1. n \in 1..(k - 1) /\ n \in 0..k /\ n - 1 \in 0..k /\ n - 1 # k
        BY <2>2, <3>2
      <4>2. g[n] = f[n] /\ g[n - 1] = f[n - 1]
        BY <3>2, <4>1
      <4> HIDE DEF g
      <4> QED BY <2>1, <4>1, <4>2
    <3> QED BY <3>1, <3>2
  <2>6. Is(g, k)
    <3> HIDE DEF g
    <3> QED BY <2>3, <2>4, <2>5
  <2> HIDE DEF Is, g
  <2> QED BY <2>6
<1>3. \E f : Is(f, m)
  <2> HIDE DEF T
  <2>1. \A n \in 0..m : n \in T
    BY <1>1, <1>2, Upto
  <2>2. m \in T
    BY <2>1
  <2> QED BY <2>2 DEF T
<1>4. PICK f : Is(f, m)
  BY <1>3
<1>5. f \in Runs(D, m, base, G)
  BY <1>4 DEF Runs
<1> QED BY <1>5

------------------------------------------------------------------------------
(* The tables, and each loop's body. *)

Placing(keys, values) == UNION {[K -> values] : K \in SUBSET keys}

SectionKeys(file) == {file.sections[i].key : i \in DOMAIN file.sections}
RoleKeys(file) == {file.roles[i].key : i \in DOMAIN file.roles}

IndexSet(file) ==
    [error : BOOLEAN, sections : SUBSET SectionKeys(file), placed : Seq(file.groups),
     sectionOf : Placing(file.groups, Range(file.sections)),
     roles : SUBSET RoleKeys(file), ownerOf : Placing(file.groups, Range(file.roles))]

With(f, key, v) == [k \in DOMAIN f \cup {key} |-> IF k = key THEN v ELSE f[k]]

LEMMA WithPlaces ==
    ASSUME NEW keys, NEW values, NEW f \in Placing(keys, values), NEW key \in keys,
           NEW v \in values
    PROVE  With(f, key, v) \in Placing(keys, values)
<1>1. PICK K \in SUBSET keys : f \in [K -> values]
  BY DEF Placing
<1>2. K \cup {key} \in SUBSET keys
  OBVIOUS
<1>3. With(f, key, v) \in [K \cup {key} -> values]
  BY <1>1 DEF With
<1> QED BY <1>2, <1>3 DEF Placing

\* What putting one list into a section does.
GroupPlaced(file, s, ix, key, next) ==
    /\ next.sections = ix.sections /\ next.roles = ix.roles /\ next.ownerOf = ix.ownerOf
    /\ ~next.error <=> ~ix.error /\ key \in file.groups /\ key \notin DOMAIN ix.sectionOf
    /\ ~next.error => /\ next.placed = Append(ix.placed, key)
                      /\ next.sectionOf = With(ix.sectionOf, key, s)

LEMMA PlaceGroupEffect ==
    ASSUME NEW file, NEW s \in Range(file.sections), NEW ix \in IndexSet(file), NEW key
    PROVE  /\ PlaceGroup(file, s, ix, key) \in IndexSet(file)
           /\ GroupPlaced(file, s, ix, key, PlaceGroup(file, s, ix, key))
<1>1. CASE key \notin file.groups \/ key \in DOMAIN ix.sectionOf
  <2>1. PlaceGroup(file, s, ix, key) = [ix EXCEPT !.error = TRUE]
    BY <1>1 DEF PlaceGroup, Refused
  <2> QED BY <1>1, <2>1 DEF IndexSet, GroupPlaced
<1>2. CASE key \in file.groups /\ key \notin DOMAIN ix.sectionOf
  <2>1. PlaceGroup(file, s, ix, key) =
            [ix EXCEPT !.placed = Append(ix.placed, key),
                       !.sectionOf = With(ix.sectionOf, key, s)]
    BY <1>2 DEF PlaceGroup, With, IndexSet
  <2>2. With(ix.sectionOf, key, s) \in Placing(file.groups, Range(file.sections))
    BY <1>2, WithPlaces DEF IndexSet
  <2>3. Append(ix.placed, key) \in Seq(file.groups)
    BY <1>2 DEF IndexSet
  <2> QED BY <1>2, <2>1, <2>2, <2>3 DEF IndexSet, GroupPlaced
<1> QED BY <1>1, <1>2

\* What giving one list its owner does.
GroupOwned(file, r, ix, key, next) ==
    /\ next.sections = ix.sections /\ next.roles = ix.roles
    /\ next.placed = ix.placed /\ next.sectionOf = ix.sectionOf
    /\ ~next.error <=> ~ix.error /\ key \in file.groups /\ key \notin DOMAIN ix.ownerOf
    /\ ~next.error => next.ownerOf = With(ix.ownerOf, key, r)

LEMMA OwnGroupEffect ==
    ASSUME NEW file, NEW r \in Range(file.roles), NEW ix \in IndexSet(file), NEW key
    PROVE  /\ OwnGroup(file, r, ix, key) \in IndexSet(file)
           /\ GroupOwned(file, r, ix, key, OwnGroup(file, r, ix, key))
<1>1. CASE key \notin file.groups \/ key \in DOMAIN ix.ownerOf
  <2>1. OwnGroup(file, r, ix, key) = [ix EXCEPT !.error = TRUE]
    BY <1>1 DEF OwnGroup, Refused
  <2> QED BY <1>1, <2>1 DEF IndexSet, GroupOwned
<1>2. CASE key \in file.groups /\ key \notin DOMAIN ix.ownerOf
  <2>1. OwnGroup(file, r, ix, key) = [ix EXCEPT !.ownerOf = With(ix.ownerOf, key, r)]
    BY <1>2 DEF OwnGroup, With, IndexSet
  <2>2. With(ix.ownerOf, key, r) \in Placing(file.groups, Range(file.roles))
    BY <1>2, WithPlaces DEF IndexSet
  <2> QED BY <1>2, <2>1, <2>2 DEF IndexSet, GroupOwned
<1> QED BY <1>1, <1>2

------------------------------------------------------------------------------
(* The four loops, as functions of the rounds gone through. *)

LEMMA GroupsLoop ==
    ASSUME NEW file, IsChart(file), NEW s \in Range(file.sections), NEW ix \in IndexSet(file)
    PROVE  \E f \in [0..Len(s.groups) -> IndexSet(file)] :
              /\ f[0] = ix
              /\ \A n \in 1..Len(s.groups) : f[n] = PlaceGroup(file, s, f[n - 1], s.groups[n])
              /\ PlaceGroups(file, s, ix) = f[Len(s.groups)]
<1> DEFINE m == Len(s.groups)
           D == IndexSet(file)
           G == [p \in D \X (1..m) |-> PlaceGroup(file, s, p[1], s.groups[p[2]])]
           Loop(f) == f = [n \in 0..m |-> IF n = 0 THEN ix
                                          ELSE PlaceGroup(file, s, f[n - 1], s.groups[n])]
           after == CHOOSE f : Loop(f)
<1>1. m \in Nat
  BY DEF IsChart
<1> HIDE DEF m
<1>2. \A d \in D, n \in 1..m : PlaceGroup(file, s, d, s.groups[n]) \in D
  BY PlaceGroupEffect
<1> HIDE DEF D
<1>3. G \in [D \X (1..m) -> D]
  BY <1>2
<1>4. ix \in D
  BY DEF D
<1>5. PICK f : f \in Runs(D, m, ix, G)
  <2> HIDE DEF G
  <2>1. Runs(D, m, ix, G) # {}
    BY <1>1, <1>3, <1>4, Recursion
  <2> QED BY <2>1
<1>6. ASSUME NEW n \in 1..m
      PROVE  n - 1 \in 0..m /\ f[n] = PlaceGroup(file, s, f[n - 1], s.groups[n])
  <2>1. n - 1 \in 0..m
    BY <1>1
  <2>2. <<f[n - 1], n>> \in D \X (1..m)
    BY <1>5, <2>1 DEF Runs
  <2> QED BY <1>5, <2>1, <2>2 DEF Runs
<1>7. f \in [0..m -> D] /\ f[0] = ix /\ Loop(f)
  <2>1. f \in [0..m -> D] /\ f[0] = ix
    BY <1>5 DEF Runs
  <2> QED BY <1>1, <1>6, <2>1
<1>8. Loop(after)
  <2> HIDE DEF Loop
  <2> QED BY <1>7
<1>9. \A n \in 0..m : n \in {k \in 0..m : after[k] = f[k]}
  <2> HIDE DEF after
  <2> DEFINE T == {k \in 0..m : after[k] = f[k]}
  <2>1. 0 \in T
    BY <1>1, <1>7, <1>8
  <2>2. ASSUME NEW n \in 1..m, n - 1 \in T PROVE n \in T
    BY <1>1, <1>6, <1>8, <2>2
  <2> HIDE DEF T
  <2>3. \A n \in 0..m : n \in T
    BY <1>1, <2>1, <2>2, Upto
  <2> QED BY <2>3 DEF T
<1>10. PlaceGroups(file, s, ix) = after[m]
  BY DEF PlaceGroups, m
<1>11. after[m] = f[m]
  BY <1>1, <1>9
<1> HIDE DEF after
<1> HIDE DEF Loop
<1> QED BY <1>6, <1>7, <1>10, <1>11 DEF m, D

LEMMA OwnsLoop ==
    ASSUME NEW file, IsChart(file), NEW r \in Range(file.roles), NEW ix \in IndexSet(file)
    PROVE  \E f \in [0..Len(r.owns) -> IndexSet(file)] :
              /\ f[0] = ix
              /\ \A n \in 1..Len(r.owns) : f[n] = OwnGroup(file, r, f[n - 1], r.owns[n])
              /\ OwnGroups(file, r, ix) = f[Len(r.owns)]
<1> DEFINE m == Len(r.owns)
           D == IndexSet(file)
           G == [p \in D \X (1..m) |-> OwnGroup(file, r, p[1], r.owns[p[2]])]
           Loop(f) == f = [n \in 0..m |-> IF n = 0 THEN ix
                                          ELSE OwnGroup(file, r, f[n - 1], r.owns[n])]
           after == CHOOSE f : Loop(f)
<1>1. m \in Nat
  BY DEF IsChart
<1> HIDE DEF m
<1>2. \A d \in D, n \in 1..m : OwnGroup(file, r, d, r.owns[n]) \in D
  BY OwnGroupEffect
<1> HIDE DEF D
<1>3. G \in [D \X (1..m) -> D]
  BY <1>2
<1>4. ix \in D
  BY DEF D
<1>5. PICK f : f \in Runs(D, m, ix, G)
  <2> HIDE DEF G
  <2>1. Runs(D, m, ix, G) # {}
    BY <1>1, <1>3, <1>4, Recursion
  <2> QED BY <2>1
<1>6. ASSUME NEW n \in 1..m
      PROVE  n - 1 \in 0..m /\ f[n] = OwnGroup(file, r, f[n - 1], r.owns[n])
  <2>1. n - 1 \in 0..m
    BY <1>1
  <2>2. <<f[n - 1], n>> \in D \X (1..m)
    BY <1>5, <2>1 DEF Runs
  <2> QED BY <1>5, <2>1, <2>2 DEF Runs
<1>7. f \in [0..m -> D] /\ f[0] = ix /\ Loop(f)
  <2>1. f \in [0..m -> D] /\ f[0] = ix
    BY <1>5 DEF Runs
  <2> QED BY <1>1, <1>6, <2>1
<1>8. Loop(after)
  <2> HIDE DEF Loop
  <2> QED BY <1>7
<1>9. \A n \in 0..m : n \in {k \in 0..m : after[k] = f[k]}
  <2> HIDE DEF after
  <2> DEFINE T == {k \in 0..m : after[k] = f[k]}
  <2>1. 0 \in T
    BY <1>1, <1>7, <1>8
  <2>2. ASSUME NEW n \in 1..m, n - 1 \in T PROVE n \in T
    BY <1>1, <1>6, <1>8, <2>2
  <2> HIDE DEF T
  <2>3. \A n \in 0..m : n \in T
    BY <1>1, <2>1, <2>2, Upto
  <2> QED BY <2>3 DEF T
<1>10. OwnGroups(file, r, ix) = after[m]
  BY DEF OwnGroups, m
<1>11. after[m] = f[m]
  BY <1>1, <1>9
<1> HIDE DEF after
<1> HIDE DEF Loop
<1> QED BY <1>6, <1>7, <1>10, <1>11 DEF m, D

------------------------------------------------------------------------------
(* What one section, and one role, does to the tables. *)

\* The first elements of a sequence.
First(s, n) == {s[j] : j \in 1..n}

LEMMA FirstOnes ==
    ASSUME NEW s, Len(s) \in Nat, DOMAIN s = 1..Len(s)
    PROVE  /\ First(s, 0) = {} /\ First(s, Len(s)) = Range(s)
           /\ \A n \in 1..Len(s) : First(s, n) = First(s, n - 1) \cup {s[n]}
<1> DEFINE m == Len(s)
<1>1. First(s, 0) = {}
  BY DEF First
<1>2. First(s, Len(s)) = Range(s)
  BY DEF First, Range
<1>3. ASSUME NEW n \in 1..m PROVE First(s, n) = First(s, n - 1) \cup {s[n]}
  <2>1. m \in Nat
    OBVIOUS
  <2> HIDE DEF m
  <2>2. 1..n = (1..(n - 1)) \cup {n}
    BY <2>1
  <2> QED BY <2>2 DEF First
<1> QED BY <1>1, <1>2, <1>3

\* Two sequences with the same elements in the same places are one.
LEMMA SameElements ==
    ASSUME NEW X, NEW s \in Seq(X), NEW t \in Seq(X), Len(s) = Len(t),
           \A i \in 1..Len(s) : s[i] = t[i]
    PROVE  s = t
<1>1. DOMAIN s = 1..Len(s) /\ DOMAIN t = 1..Len(s)
  OBVIOUS
<1>2. s \in [1..Len(s) -> X] /\ t \in [1..Len(s) -> X]
  OBVIOUS
<1> QED BY <1>1, <1>2

\* What none of which repeats an earlier one, all together.
LEMMA Injective ==
    ASSUME NEW s, Len(s) \in Nat, DOMAIN s = 1..Len(s)
    PROVE  IsInjective(s) <=> \A j \in 1..Len(s) : s[j] \notin First(s, j - 1)
<1> DEFINE m == Len(s)
<1>1. m \in Nat /\ DOMAIN s = 1..m
  OBVIOUS
<1> HIDE DEF m
<1>2. ASSUME IsInjective(s), NEW j \in 1..m PROVE s[j] \notin First(s, j - 1)
  <2>1. ASSUME NEW i \in 1..(j - 1), s[i] = s[j] PROVE FALSE
    <3>1. i \in 1..m /\ i # j
      BY <1>1
    <3> QED BY <1>1, <1>2, <2>1, <3>1 DEF IsInjective
  <2> QED BY <2>1 DEF First
<1>3. ASSUME \A j \in 1..m : s[j] \notin First(s, j - 1) PROVE IsInjective(s)
  <2>1. ASSUME NEW i \in 1..m, NEW j \in 1..m, s[i] = s[j], i < j PROVE FALSE
    <3>1. i \in 1..(j - 1)
      BY <1>1, <2>1
    <3> QED BY <1>3, <2>1, <3>1 DEF First
  <2>2. ASSUME NEW i \in 1..m, NEW j \in 1..m, s[i] = s[j] PROVE i = j
    <3>1. i < j \/ j < i \/ i = j
      BY <1>1
    <3> QED BY <2>1, <2>2, <3>1
  <2> QED BY <1>1, <2>2 DEF IsInjective
<1> QED BY <1>2, <1>3 DEF m

\* A section is let in exactly when all its lists are named, elsewhere nowhere,
\* and once each.
GroupsPlaced(file, s, ix, next) ==
    /\ next.sections = ix.sections /\ next.roles = ix.roles /\ next.ownerOf = ix.ownerOf
    /\ ~next.error <=> /\ ~ix.error /\ Range(s.groups) \subseteq file.groups
                       /\ Range(s.groups) \cap DOMAIN ix.sectionOf = {}
                       /\ IsInjective(s.groups)
    /\ ~next.error =>
          /\ next.placed = ix.placed \o s.groups
          /\ DOMAIN next.sectionOf = DOMAIN ix.sectionOf \cup Range(s.groups)
          /\ \A k \in DOMAIN next.sectionOf :
                next.sectionOf[k] = IF k \in Range(s.groups) THEN s ELSE ix.sectionOf[k]

LEMMA PlaceGroupsResult ==
    ASSUME NEW file, IsChart(file), NEW s \in Range(file.sections), NEW ix \in IndexSet(file)
    PROVE  /\ PlaceGroups(file, s, ix) \in IndexSet(file)
           /\ GroupsPlaced(file, s, ix, PlaceGroups(file, s, ix))
<1> DEFINE gs == s.groups
           m == Len(gs)
           p == Len(ix.placed)
<1>1. PICK f \in [0..m -> IndexSet(file)] :
          /\ f[0] = ix
          /\ \A n \in 1..m : f[n] = PlaceGroup(file, s, f[n - 1], gs[n])
          /\ PlaceGroups(file, s, ix) = f[m]
  BY GroupsLoop
<1>2. m \in Nat /\ DOMAIN gs = 1..m /\ gs \in Seq(Range(gs))
  BY DEF IsChart
<1>3. p \in Nat /\ ix.placed \in Seq(file.groups)
  BY DEF IndexSet
<1> DEFINE Kept(n) == /\ f[n].sections = ix.sections /\ f[n].roles = ix.roles
                      /\ f[n].ownerOf = ix.ownerOf
           Good(n) == \A j \in 1..n : /\ gs[j] \in file.groups
                                      /\ gs[j] \notin DOMAIN ix.sectionOf
                                      /\ gs[j] \notin First(gs, j - 1)
           Order1(n) == /\ Len(f[n].placed) = p + n
                        /\ \A i \in 1..p : f[n].placed[i] = ix.placed[i]
                        /\ \A j \in 1..n : f[n].placed[p + j] = gs[j]
           Table(n) == /\ DOMAIN f[n].sectionOf = DOMAIN ix.sectionOf \cup First(gs, n)
                       /\ \A k \in DOMAIN f[n].sectionOf :
                            f[n].sectionOf[k] = IF k \in First(gs, n) THEN s ELSE ix.sectionOf[k]
           T == {n \in 0..m : /\ Kept(n) /\ (~f[n].error <=> ~ix.error /\ Good(n))
                              /\ (~f[n].error => Order1(n) /\ Table(n))}
<1> HIDE DEF m, p, gs
<1>4. 0 \in T
  <2>1. First(gs, 0) = {} /\ f[0] = ix /\ 0 \in 0..m
    BY <1>1, <1>2, FirstOnes DEF m
  <2>2. Kept(0) /\ Good(0) /\ Order1(0) /\ Table(0)
    BY <1>3, <2>1 DEF p
  <2> QED BY <2>1, <2>2
<1>5. ASSUME NEW n \in 1..m, n - 1 \in T PROVE n \in T
  <2>1. n - 1 \in 0..m /\ n \in 0..m /\ f[n - 1] \in IndexSet(file)
    BY <1>1, <1>2
  <2>2. f[n] = PlaceGroup(file, s, f[n - 1], gs[n])
    BY <1>1
  <2>3. First(gs, n) = First(gs, n - 1) \cup {gs[n]}
    BY <1>2, FirstOnes DEF m
  <2> DEFINE old == f[n - 1]
             new == f[n]
  <2>4. /\ Kept(n - 1) /\ (~old.error <=> ~ix.error /\ Good(n - 1))
        /\ (~old.error => Order1(n - 1) /\ Table(n - 1))
    BY <1>5
  <2>5. /\ new.sections = old.sections /\ new.roles = old.roles /\ new.ownerOf = old.ownerOf
        /\ ~new.error <=> (~old.error /\ gs[n] \in file.groups /\ gs[n] \notin DOMAIN old.sectionOf)
        /\ ~new.error => /\ new.placed = Append(old.placed, gs[n])
                         /\ new.sectionOf = With(old.sectionOf, gs[n], s)
    <3> HIDE DEF old, new
    <3>1. old \in IndexSet(file) /\ new = PlaceGroup(file, s, old, gs[n])
      BY <2>1, <2>2 DEF old, new
    <3>2. GroupPlaced(file, s, old, gs[n], new)
      BY <3>1, PlaceGroupEffect
    <3> QED BY <3>2 DEF GroupPlaced
  <2>6. Kept(n)
    BY <2>4, <2>5
  <2>7. Good(n) <=> /\ Good(n - 1) /\ gs[n] \in file.groups
                    /\ gs[n] \notin DOMAIN ix.sectionOf /\ gs[n] \notin First(gs, n - 1)
    <3>1. 1..n = (1..(n - 1)) \cup {n}
      BY <1>2
    <3> QED BY <3>1
  <2>8. ~new.error <=> ~ix.error /\ Good(n)
    <3> HIDE DEF Good, old, new, Order1
    <3>1. ~old.error => DOMAIN old.sectionOf = DOMAIN ix.sectionOf \cup First(gs, n - 1)
      BY <2>4 DEF old
    <3> HIDE DEF Table, Kept
    <3> QED BY <2>4, <2>5, <2>7, <3>1
  <2>9. ASSUME ~new.error PROVE Order1(n)
    <3>1. new.placed = Append(old.placed, gs[n]) /\ Order1(n - 1)
      BY <2>4, <2>5, <2>9
    <3>2. old.placed \in Seq(file.groups) /\ Len(old.placed) = p + (n - 1)
      BY <2>1, <3>1 DEF IndexSet
    <3>3. /\ Len(new.placed) = p + n /\ new.placed[p + n] = gs[n]
          /\ \A i \in 1..(p + (n - 1)) : new.placed[i] = old.placed[i]
      <4> DEFINE q == p + (n - 1)
      <4>1. q \in Nat /\ q + 1 = p + n
        BY <1>2, <1>3
      <4> HIDE DEF old, new
      <4>2. Len(new.placed) = q + 1 /\ new.placed[q + 1] = gs[n]
            /\ \A i \in 1..q : new.placed[i] = old.placed[i]
        BY <3>1, <3>2, <4>1
      <4> QED BY <4>1, <4>2
    <3>4. \A i \in 1..p : i \in 1..(p + (n - 1))
      BY <1>2, <1>3
    <3>5. \A j \in 1..n : j = n \/ (j \in 1..(n - 1) /\ p + j \in 1..(p + (n - 1)))
      BY <1>2, <1>3
    <3> HIDE DEF old, new
    <3> QED BY <3>1, <3>3, <3>4, <3>5 DEF old, new
  <2>10. ASSUME ~new.error PROVE Table(n)
    <3>1. new.sectionOf = With(old.sectionOf, gs[n], s) /\ Table(n - 1)
      BY <2>4, <2>5, <2>10
    <3> HIDE DEF Good, Order1, Kept
    <3> QED BY <2>3, <3>1 DEF With
  <2> QED BY <2>1, <2>6, <2>8, <2>9, <2>10
<1>6. m \in T
  <2> HIDE DEF T
  <2>1. \A n \in 0..m : n \in T
    BY <1>2, <1>4, <1>5, Upto
  <2> QED BY <1>2, <2>1
<1> DEFINE next == f[m]
<1>7. First(gs, m) = Range(gs)
  BY <1>2, FirstOnes DEF m
<1>8. ~next.error <=> /\ ~ix.error /\ Range(gs) \subseteq file.groups
                      /\ Range(gs) \cap DOMAIN ix.sectionOf = {} /\ IsInjective(gs)
  <2>1. ~next.error <=> ~ix.error /\ Good(m)
    BY <1>6
  <2>2. IsInjective(gs) <=> \A j \in 1..m : gs[j] \notin First(gs, j - 1)
    BY <1>2, Injective DEF m
  <2>3. Range(gs) = {gs[j] : j \in 1..m}
    BY <1>7 DEF First
  <2> QED BY <2>1, <2>2, <2>3
<1>9. ASSUME ~next.error PROVE next.placed = ix.placed \o gs
  <2>1. Order1(m) /\ Range(gs) \subseteq file.groups
    BY <1>6, <1>8, <1>9
  <2>2. next \in IndexSet(file)
    BY <1>1, <1>2
  <2>3. next.placed \in Seq(file.groups) /\ gs \in Seq(file.groups)
    BY <1>2, <2>1, <2>2 DEF IndexSet
  <2>4. ix.placed \o gs \in Seq(file.groups) /\ Len(ix.placed \o gs) = p + m
    <3> DEFINE a == ix.placed
    <3>1. a \in Seq(file.groups) /\ gs \in Seq(file.groups)
      BY <1>3, <2>3
    <3> HIDE DEF a
    <3>2. a \o gs \in Seq(file.groups) /\ Len(a \o gs) = Len(a) + Len(gs)
      BY <3>1
    <3> QED BY <3>2 DEF a, p, m
  <2>5. \A i \in 1..(p + m) : next.placed[i] = (ix.placed \o gs)[i]
    <3> SUFFICES ASSUME NEW i \in 1..(p + m) PROVE next.placed[i] = (ix.placed \o gs)[i]
      OBVIOUS
    <3>1. CASE i \in 1..p
      <4>1. (ix.placed \o gs)[i] = ix.placed[i]
        BY <1>2, <1>3, <2>3, <3>1 DEF p, m
      <4> QED BY <2>1, <3>1, <4>1
    <3>2. CASE i \notin 1..p
      <4>1. i - p \in 1..m /\ p + (i - p) = i
        BY <1>2, <1>3, <3>2
      <4>2. (ix.placed \o gs)[i] = gs[i - p]
        BY <1>2, <1>3, <2>3, <3>2 DEF p, m
      <4>3. next.placed[p + (i - p)] = gs[i - p]
        BY <2>1, <4>1
      <4> QED BY <4>1, <4>2, <4>3
    <3> QED BY <3>1, <3>2
  <2>6. Len(next.placed) = p + m
    BY <2>1
  <2> HIDE DEF next
  <2> QED BY <2>3, <2>4, <2>5, <2>6, SameElements
<1>10. Kept(m) /\ (~next.error => Table(m)) /\ next \in IndexSet(file)
  BY <1>1, <1>2, <1>6
<1>11. /\ next.sections = ix.sections /\ next.roles = ix.roles /\ next.ownerOf = ix.ownerOf
       /\ next = PlaceGroups(file, s, ix)
  BY <1>1, <1>10
<1>12. ~next.error =>
          /\ DOMAIN next.sectionOf = DOMAIN ix.sectionOf \cup Range(gs)
          /\ \A k \in DOMAIN next.sectionOf :
                next.sectionOf[k] = IF k \in Range(gs) THEN s ELSE ix.sectionOf[k]
  BY <1>7, <1>10
<1> HIDE DEF next
<1>13. GroupsPlaced(file, s, ix, next)
  BY <1>8, <1>9, <1>11, <1>12 DEF GroupsPlaced, gs
<1> QED BY <1>10, <1>11, <1>13

\* A role is let in exactly when all the lists it owns are named, owned by no
\* other, and once each.
GroupsOwned(file, r, ix, next) ==
    /\ next.sections = ix.sections /\ next.roles = ix.roles
    /\ next.placed = ix.placed /\ next.sectionOf = ix.sectionOf
    /\ ~next.error <=> /\ ~ix.error /\ Range(r.owns) \subseteq file.groups
                       /\ Range(r.owns) \cap DOMAIN ix.ownerOf = {}
                       /\ IsInjective(r.owns)
    /\ ~next.error =>
          /\ DOMAIN next.ownerOf = DOMAIN ix.ownerOf \cup Range(r.owns)
          /\ \A k \in DOMAIN next.ownerOf :
                next.ownerOf[k] = IF k \in Range(r.owns) THEN r ELSE ix.ownerOf[k]

LEMMA OwnGroupsResult ==
    ASSUME NEW file, IsChart(file), NEW r \in Range(file.roles), NEW ix \in IndexSet(file)
    PROVE  /\ OwnGroups(file, r, ix) \in IndexSet(file)
           /\ GroupsOwned(file, r, ix, OwnGroups(file, r, ix))
<1> DEFINE gs == r.owns
           m == Len(gs)
<1>1. PICK f \in [0..m -> IndexSet(file)] :
          /\ f[0] = ix
          /\ \A n \in 1..m : f[n] = OwnGroup(file, r, f[n - 1], gs[n])
          /\ OwnGroups(file, r, ix) = f[m]
  BY OwnsLoop
<1>2. m \in Nat /\ DOMAIN gs = 1..m /\ gs \in Seq(Range(gs))
  BY DEF IsChart
<1> DEFINE Kept(n) == /\ f[n].sections = ix.sections /\ f[n].roles = ix.roles
                      /\ f[n].placed = ix.placed /\ f[n].sectionOf = ix.sectionOf
           Good(n) == \A j \in 1..n : /\ gs[j] \in file.groups
                                      /\ gs[j] \notin DOMAIN ix.ownerOf
                                      /\ gs[j] \notin First(gs, j - 1)
           Table(n) == /\ DOMAIN f[n].ownerOf = DOMAIN ix.ownerOf \cup First(gs, n)
                       /\ \A k \in DOMAIN f[n].ownerOf :
                            f[n].ownerOf[k] = IF k \in First(gs, n) THEN r ELSE ix.ownerOf[k]
           T == {n \in 0..m : /\ Kept(n) /\ (~f[n].error <=> ~ix.error /\ Good(n))
                              /\ (~f[n].error => Table(n))}
<1> HIDE DEF m, gs
<1>4. 0 \in T
  <2>1. First(gs, 0) = {} /\ f[0] = ix /\ 0 \in 0..m
    BY <1>1, <1>2, FirstOnes DEF m
  <2>2. Kept(0) /\ Good(0) /\ Table(0)
    BY <2>1
  <2> QED BY <2>1, <2>2
<1>5. ASSUME NEW n \in 1..m, n - 1 \in T PROVE n \in T
  <2>1. n - 1 \in 0..m /\ n \in 0..m /\ f[n - 1] \in IndexSet(file)
    BY <1>1, <1>2
  <2>2. f[n] = OwnGroup(file, r, f[n - 1], gs[n])
    BY <1>1
  <2>3. First(gs, n) = First(gs, n - 1) \cup {gs[n]}
    BY <1>2, FirstOnes DEF m
  <2> DEFINE old == f[n - 1]
             new == f[n]
  <2>4. /\ Kept(n - 1) /\ (~old.error <=> ~ix.error /\ Good(n - 1))
        /\ (~old.error => Table(n - 1))
    BY <1>5
  <2>5. /\ new.sections = old.sections /\ new.roles = old.roles
        /\ new.placed = old.placed /\ new.sectionOf = old.sectionOf
        /\ ~new.error <=> (~old.error /\ gs[n] \in file.groups /\ gs[n] \notin DOMAIN old.ownerOf)
        /\ ~new.error => new.ownerOf = With(old.ownerOf, gs[n], r)
    <3> HIDE DEF old, new
    <3>1. old \in IndexSet(file) /\ new = OwnGroup(file, r, old, gs[n])
      BY <2>1, <2>2 DEF old, new
    <3>2. GroupOwned(file, r, old, gs[n], new)
      BY <3>1, OwnGroupEffect
    <3> QED BY <3>2 DEF GroupOwned
  <2>6. Kept(n)
    BY <2>4, <2>5
  <2>7. Good(n) <=> /\ Good(n - 1) /\ gs[n] \in file.groups
                    /\ gs[n] \notin DOMAIN ix.ownerOf /\ gs[n] \notin First(gs, n - 1)
    <3>1. 1..n = (1..(n - 1)) \cup {n}
      BY <1>2
    <3> QED BY <3>1
  <2>8. ~new.error <=> ~ix.error /\ Good(n)
    <3> HIDE DEF Good, old, new
    <3>1. ~old.error => DOMAIN old.ownerOf = DOMAIN ix.ownerOf \cup First(gs, n - 1)
      BY <2>4 DEF old
    <3> HIDE DEF Table, Kept
    <3> QED BY <2>4, <2>5, <2>7, <3>1
  <2>10. ASSUME ~new.error PROVE Table(n)
    <3>1. new.ownerOf = With(old.ownerOf, gs[n], r) /\ Table(n - 1)
      BY <2>4, <2>5, <2>10
    <3> HIDE DEF Good, Kept
    <3> QED BY <2>3, <3>1 DEF With
  <2> QED BY <2>1, <2>6, <2>8, <2>10
<1>6. m \in T
  <2> HIDE DEF T
  <2>1. \A n \in 0..m : n \in T
    BY <1>2, <1>4, <1>5, Upto
  <2> QED BY <1>2, <2>1
<1> DEFINE next == f[m]
<1>7. First(gs, m) = Range(gs)
  BY <1>2, FirstOnes DEF m
<1>8. ~next.error <=> /\ ~ix.error /\ Range(gs) \subseteq file.groups
                      /\ Range(gs) \cap DOMAIN ix.ownerOf = {} /\ IsInjective(gs)
  <2>1. ~next.error <=> ~ix.error /\ Good(m)
    BY <1>6
  <2>2. IsInjective(gs) <=> \A j \in 1..m : gs[j] \notin First(gs, j - 1)
    BY <1>2, Injective DEF m
  <2>3. Range(gs) = {gs[j] : j \in 1..m}
    BY <1>7 DEF First
  <2> QED BY <2>1, <2>2, <2>3
<1>10. Kept(m) /\ (~next.error => Table(m)) /\ next \in IndexSet(file)
  BY <1>1, <1>2, <1>6
<1>11. /\ next.sections = ix.sections /\ next.roles = ix.roles
    /\ next.placed = ix.placed /\ next.sectionOf = ix.sectionOf
       /\ next = OwnGroups(file, r, ix)
  BY <1>1, <1>10
<1>12. ~next.error =>
          /\ DOMAIN next.ownerOf = DOMAIN ix.ownerOf \cup Range(gs)
          /\ \A k \in DOMAIN next.ownerOf :
                next.ownerOf[k] = IF k \in Range(gs) THEN r ELSE ix.ownerOf[k]
  BY <1>7, <1>10
<1> HIDE DEF next
<1>13. GroupsOwned(file, r, ix, next)
  BY <1>8, <1>11, <1>12 DEF GroupsOwned, gs
<1> QED BY <1>10, <1>11, <1>13

------------------------------------------------------------------------------
(* What FlattenSeq puts together. *)

LEMMA Concat ==
    ASSUME NEW K, NEW a \in Seq(K), NEW b \in Seq(K)
    PROVE  /\ Range(a \o b) = Range(a) \cup Range(b)
           /\ IsInjective(a \o b) <=>
                 IsInjective(a) /\ IsInjective(b) /\ Range(a) \cap Range(b) = {}
<1> DEFINE p == Len(a)
           q == Len(b)
           c == a \o b
<1>1. /\ p \in Nat /\ q \in Nat
      /\ DOMAIN a = 1..p /\ DOMAIN b = 1..q /\ DOMAIN c = 1..(p + q)
  OBVIOUS
<1>2. /\ \A i \in 1..p : c[i] = a[i]
      /\ \A i \in 1..(p + q) : i \notin 1..p => c[i] = b[i - p]
  OBVIOUS
<1> HIDE DEF p, q, c
<1>3. \A i \in 1..q : p + i \in 1..(p + q) /\ p + i \notin 1..p /\ (p + i) - p = i
  BY <1>1
<1>4. \A i \in 1..q : c[p + i] = b[i]
  BY <1>2, <1>3
<1>5. \A i \in 1..(p + q) : i \in 1..p \/ (i - p \in 1..q /\ i = p + (i - p))
  BY <1>1
<1>6. \A i \in 1..p : i \in 1..(p + q)
  BY <1>1
<1>7. Range(c) = Range(a) \cup Range(b)
  <2>1. ASSUME NEW x \in Range(c) PROVE x \in Range(a) \cup Range(b)
    <3>1. PICK i \in 1..(p + q) : c[i] = x
      BY <1>1 DEF Range
    <3>2. CASE i \in 1..p
      BY <1>1, <1>2, <3>1, <3>2 DEF Range
    <3>3. CASE i - p \in 1..q /\ i \notin 1..p
      BY <1>1, <1>2, <3>1, <3>3 DEF Range
    <3> QED BY <1>5, <3>2, <3>3
  <2>2. ASSUME NEW x \in Range(a) PROVE x \in Range(c)
    BY <1>1, <1>2, <1>6 DEF Range
  <2>3. ASSUME NEW x \in Range(b) PROVE x \in Range(c)
    <3>1. PICK i \in 1..q : b[i] = x
      BY <1>1 DEF Range
    <3> QED BY <1>1, <1>3, <1>4, <3>1 DEF Range
  <2> QED BY <2>1, <2>2, <2>3
<1>8. ASSUME IsInjective(c) PROVE IsInjective(a) /\ IsInjective(b) /\ Range(a) \cap Range(b) = {}
  <2>1. \A i, j \in 1..(p + q) : c[i] = c[j] => i = j
    BY <1>1, <1>8 DEF IsInjective
  <2>2. IsInjective(a)
    BY <1>1, <1>2, <1>6, <2>1 DEF IsInjective
  <2>3. ASSUME NEW i \in 1..q, NEW j \in 1..q, b[i] = b[j] PROVE i = j
    <3>1. p + i = p + j
      BY <1>3, <1>4, <2>1, <2>3
    <3> QED BY <1>1, <3>1
  <2>4. ASSUME NEW i \in 1..p, NEW j \in 1..q, a[i] = b[j] PROVE FALSE
    <3>1. i = p + j
      BY <1>2, <1>3, <1>4, <1>6, <2>1, <2>4
    <3> QED BY <1>1, <1>3, <3>1
  <2> QED BY <1>1, <2>2, <2>3, <2>4 DEF IsInjective, Range
<1>9. ASSUME IsInjective(a), IsInjective(b), Range(a) \cap Range(b) = {} PROVE IsInjective(c)
  <2>1. ASSUME NEW i \in 1..(p + q), NEW j \in 1..(p + q), c[i] = c[j] PROVE i = j
    <3>1. CASE i \in 1..p /\ j \in 1..p
      BY <1>1, <1>2, <1>9, <2>1, <3>1 DEF IsInjective
    <3>2. CASE i \notin 1..p /\ j \notin 1..p
      <4>1. i - p \in 1..q /\ j - p \in 1..q /\ b[i - p] = b[j - p]
        BY <1>2, <1>5, <2>1, <3>2
      <4>2. i - p = j - p
        BY <1>1, <1>9, <4>1 DEF IsInjective
      <4> QED BY <1>1, <4>2
    <3>3. ASSUME NEW x \in 1..(p + q), NEW y \in 1..(p + q), x \in 1..p, y \notin 1..p,
                 c[x] = c[y]
          PROVE  FALSE
      <4>1. y - p \in 1..q /\ a[x] = b[y - p]
        BY <1>2, <1>5, <3>3
      <4> QED BY <1>1, <1>9, <3>3, <4>1 DEF Range
    <3> QED BY <2>1, <3>1, <3>2, <3>3
  <2> QED BY <1>1, <2>1 DEF IsInjective
<1> QED BY <1>7, <1>8, <1>9 DEF c

LEMMA FlattenLoop ==
    ASSUME NEW K, NEW seqs, seqs \in Seq(Seq(K))
    PROVE  \E f \in [0..Len(seqs) -> Seq(K)] :
              /\ f[0] = <<>>
              /\ \A n \in 1..Len(seqs) : f[n] = f[n - 1] \o seqs[n]
              /\ FlattenSeq(seqs) = f[Len(seqs)]
<1> DEFINE m == Len(seqs)
           D == Seq(K)
           G == [p \in D \X (1..m) |-> p[1] \o seqs[p[2]]]
<1>1. m \in Nat /\ \A n \in 1..m : seqs[n] \in D
  OBVIOUS
<1>2. m = 0 => seqs = <<>>
  OBVIOUS
<1> HIDE DEF m
<1>3. <<>> \in D /\ \A d \in D, n \in 1..m : d \o seqs[n] \in D
  BY <1>1
<1>4. \A n \in 1..m : n = 1 => <<>> \o seqs[n] = seqs[n]
  BY <1>1
<1> HIDE DEF D
<1>5. G \in [D \X (1..m) -> D]
  BY <1>3
<1>6. PICK f : f \in Runs(D, m, <<>>, G)
  <2> HIDE DEF G
  <2>1. Runs(D, m, <<>>, G) # {}
    BY <1>1, <1>3, <1>5, Recursion
  <2> QED BY <2>1
<1>7. f \in [0..m -> D] /\ f[0] = <<>>
  BY <1>6 DEF Runs
<1>8. ASSUME NEW n \in 1..m PROVE n - 1 \in 0..m /\ f[n] = f[n - 1] \o seqs[n]
  <2>1. n - 1 \in 0..m
    BY <1>1
  <2>2. <<f[n - 1], n>> \in D \X (1..m)
    BY <1>7, <2>1
  <2> QED BY <1>6, <2>1, <2>2 DEF Runs
<1>9. FlattenSeq(seqs) = f[m]
  <2>1. CASE m = 0
    BY <1>2, <1>7, <2>1 DEF FlattenSeq, m
  <2>2. CASE m # 0
    <3> DEFINE Loop(h) == h = [i \in 1..m |-> IF i = 1 THEN seqs[i] ELSE h[i - 1] \o seqs[i]]
               flatten == CHOOSE h : Loop(h)
               g == [i \in 1..m |-> f[i]]
    <3>1. FlattenSeq(seqs) = flatten[m]
      BY <2>2 DEF FlattenSeq, m
    <3>2. ASSUME NEW i \in 1..m
          PROVE  g[i] = IF i = 1 THEN seqs[i] ELSE g[i - 1] \o seqs[i]
      <4>1. CASE i = 1
        <5>1. i - 1 = 0
          BY <4>1
        <5> QED BY <1>4, <1>7, <1>8, <4>1, <5>1
      <4>2. CASE i # 1
        <5>1. i - 1 \in 1..m
          BY <1>1, <4>2
        <5> QED BY <1>8, <4>2, <5>1
      <4> QED BY <4>1, <4>2
    <3>3. Loop(g)
      <4>1. g = [i \in 1..m |-> g[i]]
        OBVIOUS
      <4> HIDE DEF g
      <4> QED BY <3>2, <4>1
    <3>4. Loop(flatten)
      <4> HIDE DEF Loop, g
      <4> QED BY <3>3
    <3> HIDE DEF flatten, g
    <3> DEFINE T == {n \in 0..m : n = 0 \/ flatten[n] = f[n]}
    <3>5. 0 \in T
      BY <1>1
    <3>6. ASSUME NEW n \in 1..m, n - 1 \in T PROVE n \in T
      <4> DEFINE value == [i \in 1..m |-> IF i = 1 THEN seqs[i] ELSE flatten[i - 1] \o seqs[i]]
      <4>0. flatten = value
        BY <3>4
      <4>1. n \in 0..m /\ flatten[n] = IF n = 1 THEN seqs[n] ELSE flatten[n - 1] \o seqs[n]
        <5>1. value[n] = IF n = 1 THEN seqs[n] ELSE flatten[n - 1] \o seqs[n]
          OBVIOUS
        <5> HIDE DEF value
        <5> QED BY <1>1, <4>0, <5>1
      <4>2. CASE n = 1
        <5>1. n - 1 = 0
          BY <4>2
        <5> QED BY <1>4, <1>7, <1>8, <4>1, <4>2, <5>1
      <4>3. CASE n # 1
        <5>1. n - 1 # 0
          BY <4>3
        <5> QED BY <1>8, <3>6, <4>1, <4>3, <5>1
      <4> QED BY <4>2, <4>3
    <3> HIDE DEF T
    <3>7. \A n \in 0..m : n \in T
      BY <1>1, <3>5, <3>6, Upto
    <3>8. m \in T
      BY <1>1, <3>7
    <3> QED BY <2>2, <3>1, <3>8 DEF T
  <2> QED BY <2>1, <2>2
<1> HIDE DEF G
<1> QED BY <1>7, <1>8, <1>9 DEF m, D

\* A flattened sequence has the elements of its parts.
LEMMA FlattenRange ==
    ASSUME NEW K, NEW seqs, seqs \in Seq(Seq(K))
    PROVE  /\ FlattenSeq(seqs) \in Seq(K)
           /\ Range(FlattenSeq(seqs)) = UNION {Range(seqs[i]) : i \in DOMAIN seqs}
<1> DEFINE m == Len(seqs)
<1>1. PICK f \in [0..Len(seqs) -> Seq(K)] :
          /\ f[0] = <<>>
          /\ \A n \in 1..Len(seqs) : f[n] = f[n - 1] \o seqs[n]
          /\ FlattenSeq(seqs) = f[Len(seqs)]
  BY FlattenLoop
<1>2. m \in Nat /\ DOMAIN seqs = 1..m /\ \A n \in 1..m : seqs[n] \in Seq(K)
  OBVIOUS
<1>3. f \in [0..m -> Seq(K)] /\ \A n \in 1..m : f[n] = f[n - 1] \o seqs[n]
  BY <1>1
<1> HIDE DEF m
<1> DEFINE T == {n \in 0..m : Range(f[n]) = UNION {Range(seqs[i]) : i \in 1..n}}
<1>4. 0 \in T
  <2>1. Range(<<>>) = {} /\ 1..0 = {} /\ 0 \in 0..m
    BY <1>2 DEF Range
  <2> QED BY <1>1, <2>1
<1>5. ASSUME NEW n \in 1..m, n - 1 \in T PROVE n \in T
  <2> DEFINE a == f[n - 1]
             b == seqs[n]
  <2>0. n - 1 \in 0..m /\ n \in 0..m
    BY <1>2
  <2>1. n - 1 \in 0..m /\ n \in 0..m /\ a \in Seq(K) /\ b \in Seq(K) /\ f[n] = a \o b
    BY <1>2, <1>3, <2>0
  <2>2. Range(a) = UNION {Range(seqs[i]) : i \in 1..(n - 1)}
    BY <1>5
  <2>3. 1..n = (1..(n - 1)) \cup {n}
    BY <1>2
  <2> HIDE DEF a
  <2>4. Range(a \o b) = Range(a) \cup Range(b)
    <3> HIDE DEF b
    <3> QED BY <2>1, Concat
  <2> QED BY <2>1, <2>2, <2>3, <2>4
<1>6. m \in T
  <2> HIDE DEF T
  <2>1. \A n \in 0..m : n \in T
    BY <1>2, <1>4, <1>5, Upto
  <2> QED BY <1>2, <2>1
<1>7. FlattenSeq(seqs) = f[m] /\ f[m] \in Seq(K)
  BY <1>1, <1>2, <1>3 DEF m
<1> QED BY <1>2, <1>6, <1>7

\* Whatever comes first in a sequence is related to what comes after it.
Ascends(s, R) == \A i, j \in DOMAIN s : i < j => <<s[i], s[j]>> \in R

LEMMA ConcatAscends ==
    ASSUME NEW K, NEW R, NEW a \in Seq(K), NEW b \in Seq(K), Ascends(a, R), Ascends(b, R),
           \A x \in Range(a), y \in Range(b) : <<x, y>> \in R
    PROVE  Ascends(a \o b, R)
<1> DEFINE p == Len(a)
           q == Len(b)
           c == a \o b
<1>1. /\ p \in Nat /\ q \in Nat
      /\ DOMAIN a = 1..p /\ DOMAIN b = 1..q /\ DOMAIN c = 1..(p + q)
  OBVIOUS
<1>2. /\ \A i \in 1..p : c[i] = a[i]
      /\ \A i \in 1..(p + q) : i \notin 1..p => c[i] = b[i - p]
  OBVIOUS
<1> HIDE DEF p, q, c
<1>3. \A i \in 1..(p + q) : i \in 1..p \/ (i - p \in 1..q /\ i \notin 1..p)
  BY <1>1
<1>4. ASSUME NEW i \in 1..(p + q), NEW j \in 1..(p + q), i < j PROVE <<c[i], c[j]>> \in R
  <2>1. CASE i \in 1..p /\ j \in 1..p
    BY <1>1, <1>2, <1>4, <2>1 DEF Ascends
  <2>2. CASE i \in 1..p /\ j \notin 1..p
    <3>1. j - p \in DOMAIN b /\ c[j] = b[j - p] /\ c[i] = a[i] /\ i \in DOMAIN a
      BY <1>1, <1>2, <1>3, <2>2
    <3> QED BY <3>1 DEF Range
  <2>3. CASE i \notin 1..p /\ j \notin 1..p
    <3>1. /\ i - p \in DOMAIN b /\ j - p \in DOMAIN b
          /\ c[i] = b[i - p] /\ c[j] = b[j - p]
      BY <1>1, <1>2, <1>3, <2>3
    <3>2. i - p < j - p
      BY <1>1, <1>4
    <3> QED BY <3>1, <3>2 DEF Ascends
  <2>4. ~(i \notin 1..p /\ j \in 1..p)
    BY <1>1, <1>4
  <2> QED BY <2>1, <2>2, <2>3, <2>4
<1> QED BY <1>1, <1>4 DEF Ascends, c

\* A flattened sequence ascends if its parts do, one by one and one after another.
LEMMA FlattenAscends ==
    ASSUME NEW K, NEW R, NEW seqs, seqs \in Seq(Seq(K)),
           \A i \in DOMAIN seqs : Ascends(seqs[i], R),
           \A i, j \in DOMAIN seqs : i < j =>
               \A x \in Range(seqs[i]), y \in Range(seqs[j]) : <<x, y>> \in R
    PROVE  Ascends(FlattenSeq(seqs), R)
<1> DEFINE m == Len(seqs)
<1>1. PICK f \in [0..Len(seqs) -> Seq(K)] :
          /\ f[0] = <<>>
          /\ \A n \in 1..Len(seqs) : f[n] = f[n - 1] \o seqs[n]
          /\ FlattenSeq(seqs) = f[Len(seqs)]
  BY FlattenLoop
<1>2. m \in Nat /\ DOMAIN seqs = 1..m /\ \A n \in 1..m : seqs[n] \in Seq(K)
  OBVIOUS
<1>3. f \in [0..m -> Seq(K)] /\ \A n \in 1..m : f[n] = f[n - 1] \o seqs[n]
  BY <1>1
<1> HIDE DEF m
<1> DEFINE In(n) == UNION {Range(seqs[i]) : i \in 1..n}
           T == {n \in 0..m : Range(f[n]) \subseteq In(n) /\ Ascends(f[n], R)}
<1>4. 0 \in T
  <2>1. Range(<<>>) = {} /\ Ascends(<<>>, R) /\ 0 \in 0..m
    BY <1>2 DEF Range, Ascends
  <2> QED BY <1>1, <2>1
<1>5. ASSUME NEW n \in 1..m, n - 1 \in T PROVE n \in T
  <2> DEFINE a == f[n - 1]
             b == seqs[n]
  <2>0. n - 1 \in 0..m /\ n \in 0..m
    BY <1>2
  <2>1. n - 1 \in 0..m /\ n \in 0..m /\ a \in Seq(K) /\ b \in Seq(K) /\ f[n] = a \o b
    BY <1>2, <1>3, <2>0
  <2>2. Range(a) \subseteq In(n - 1) /\ Ascends(a, R)
    BY <1>5
  <2>3. 1..n = (1..(n - 1)) \cup {n} /\ \A i \in 1..(n - 1) : i \in 1..m /\ i < n
    BY <1>2
  <2>4. Ascends(b, R)
    BY <1>2
  <2> HIDE DEF a
  <2>5. ASSUME NEW x \in Range(a), NEW y \in Range(b) PROVE <<x, y>> \in R
    <3>1. PICK i \in 1..(n - 1) : x \in Range(seqs[i])
      BY <2>2
    <3> QED BY <1>2, <2>3, <3>1
  <2> HIDE DEF b
  <2>6. Ascends(a \o b, R)
    BY <2>1, <2>2, <2>4, <2>5, ConcatAscends
  <2>7. Range(a \o b) = Range(a) \cup Range(b)
    BY <2>1, Concat
  <2>8. Range(a \o b) \subseteq In(n)
    BY <2>2, <2>3, <2>7 DEF b
  <2> QED BY <2>1, <2>6, <2>8
<1>6. m \in T
  <2> HIDE DEF T
  <2>1. \A n \in 0..m : n \in T
    BY <1>2, <1>4, <1>5, Upto
  <2> QED BY <1>2, <2>1
<1>7. FlattenSeq(seqs) = f[m]
  BY <1>1 DEF m
<1> QED BY <1>6, <1>7

------------------------------------------------------------------------------
(* The sections. *)

LEMMA BlankIsIndex == ASSUME NEW file PROVE Blank \in IndexSet(file)
<1>1. Empty \in [{} -> Range(file.sections)] /\ Empty \in [{} -> Range(file.roles)]
  BY DEF Empty
<1>2. /\ Empty \in Placing(file.groups, Range(file.sections))
      /\ Empty \in Placing(file.groups, Range(file.roles))
  BY <1>1 DEF Placing
<1> QED BY <1>2 DEF Blank, IndexSet

SectionPlaced(file, s, ix, next) ==
    /\ next.roles = ix.roles /\ next.ownerOf = ix.ownerOf
    /\ ~next.error <=> /\ ~ix.error /\ s.key # "" /\ s.key \notin ix.sections
                       /\ Range(s.groups) \subseteq file.groups
                       /\ Range(s.groups) \cap DOMAIN ix.sectionOf = {}
                       /\ IsInjective(s.groups)
    /\ ~next.error =>
          /\ next.sections = ix.sections \cup {s.key}
          /\ next.placed = ix.placed \o s.groups
          /\ DOMAIN next.sectionOf = DOMAIN ix.sectionOf \cup Range(s.groups)
          /\ \A k \in DOMAIN next.sectionOf :
                next.sectionOf[k] = IF k \in Range(s.groups) THEN s ELSE ix.sectionOf[k]

LEMMA PlaceSectionEffect ==
    ASSUME NEW file, IsChart(file), NEW s \in Range(file.sections), NEW ix \in IndexSet(file)
    PROVE  /\ PlaceSection(file, ix, s) \in IndexSet(file)
           /\ SectionPlaced(file, s, ix, PlaceSection(file, ix, s))
<1>1. CASE s.key = "" \/ s.key \in ix.sections
  <2>1. PlaceSection(file, ix, s) = [ix EXCEPT !.error = TRUE]
    BY <1>1 DEF PlaceSection, Refused
  <2> QED BY <1>1, <2>1 DEF IndexSet, SectionPlaced
<1>2. CASE s.key # "" /\ s.key \notin ix.sections
  <2> DEFINE mid == [ix EXCEPT !.sections = ix.sections \cup {s.key}]
             next == PlaceGroups(file, s, mid)
  <2>1. PlaceSection(file, ix, s) = next
    BY <1>2 DEF PlaceSection, IndexSet
  <2>2. s.key \in SectionKeys(file)
    BY DEF SectionKeys, Range
  <2>3. mid \in IndexSet(file)
    BY <2>2 DEF IndexSet
  <2>4. /\ mid.error = ix.error /\ mid.placed = ix.placed /\ mid.sectionOf = ix.sectionOf
        /\ mid.roles = ix.roles /\ mid.ownerOf = ix.ownerOf
        /\ mid.sections = ix.sections \cup {s.key}
    BY DEF IndexSet
  <2> HIDE DEF mid
  <2>5. next \in IndexSet(file) /\ GroupsPlaced(file, s, mid, next)
    BY <2>3, PlaceGroupsResult
  <2> HIDE DEF next
  <2>6. SectionPlaced(file, s, ix, next)
    BY <1>2, <2>4, <2>5 DEF SectionPlaced, GroupsPlaced
  <2> QED BY <2>1, <2>5, <2>6
<1> QED BY <1>1, <1>2

LEMMA SectionsLoop ==
    ASSUME NEW file, IsChart(file)
    PROVE  \E f \in [0..Len(file.sections) -> IndexSet(file)] :
              /\ f[0] = Blank
              /\ \A n \in 1..Len(file.sections) : f[n] = PlaceSection(file, f[n - 1], file.sections[n])
              /\ PlaceSections(file) = f[Len(file.sections)]
<1> DEFINE m == Len(file.sections)
           D == IndexSet(file)
           G == [p \in D \X (1..m) |-> PlaceSection(file, p[1], file.sections[p[2]])]
           Loop(f) == f = [n \in 0..m |-> IF n = 0 THEN Blank
                                          ELSE PlaceSection(file, f[n - 1], file.sections[n])]
           after == CHOOSE f : Loop(f)
<1>1. m \in Nat
  BY DEF IsChart
<1> HIDE DEF m
<1>2. \A d \in D, n \in 1..m : PlaceSection(file, d, file.sections[n]) \in D
  BY PlaceSectionEffect, <1>1 DEF Range, m
<1> HIDE DEF D
<1>3. G \in [D \X (1..m) -> D]
  BY <1>2
<1>4. Blank \in D
  BY BlankIsIndex DEF D
<1>5. PICK f : f \in Runs(D, m, Blank, G)
  <2> HIDE DEF G
  <2>1. Runs(D, m, Blank, G) # {}
    BY <1>1, <1>3, <1>4, Recursion
  <2> QED BY <2>1
<1>6. ASSUME NEW n \in 1..m
      PROVE  n - 1 \in 0..m /\ f[n] = PlaceSection(file, f[n - 1], file.sections[n])
  <2>1. n - 1 \in 0..m
    BY <1>1
  <2>2. <<f[n - 1], n>> \in D \X (1..m)
    BY <1>5, <2>1 DEF Runs
  <2> QED BY <1>5, <2>1, <2>2 DEF Runs
<1>7. f \in [0..m -> D] /\ f[0] = Blank /\ Loop(f)
  <2>1. f \in [0..m -> D] /\ f[0] = Blank
    BY <1>5 DEF Runs
  <2> QED BY <1>1, <1>6, <2>1
<1>8. Loop(after)
  <2> HIDE DEF Loop
  <2> QED BY <1>7
<1>9. \A n \in 0..m : n \in {k \in 0..m : after[k] = f[k]}
  <2> HIDE DEF after
  <2> DEFINE T == {k \in 0..m : after[k] = f[k]}
  <2>1. 0 \in T
    BY <1>1, <1>7, <1>8
  <2>2. ASSUME NEW n \in 1..m, n - 1 \in T PROVE n \in T
    BY <1>1, <1>6, <1>8, <2>2
  <2> HIDE DEF T
  <2>3. \A n \in 0..m : n \in T
    BY <1>1, <2>1, <2>2, Upto
  <2> QED BY <2>3 DEF T
<1>10. PlaceSections(file) = after[m]
  BY DEF PlaceSections, m
<1>11. after[m] = f[m]
  BY <1>1, <1>9
<1> HIDE DEF after
<1> HIDE DEF Loop
<1> QED BY <1>6, <1>7, <1>10, <1>11 DEF m, D

\* The lists of all sections, in order, are let in exactly when no key is empty
\* or repeated and every list is named, and in one place only.
SectionsSound(file) ==
    /\ \A i \in DOMAIN file.sections : file.sections[i].key # ""
    /\ IsInjective([i \in DOMAIN file.sections |-> file.sections[i].key])
    /\ IsInjective(Listed(file)) /\ Range(Listed(file)) \subseteq file.groups

SectionsFiled(file, next) ==
    /\ next.roles = {} /\ next.ownerOf = Empty
    /\ ~next.error <=> SectionsSound(file)
    /\ ~next.error =>
          /\ next.placed = Listed(file) /\ DOMAIN next.sectionOf = Range(Listed(file))
          /\ \A i \in DOMAIN file.sections : \A k \in Range(file.sections[i].groups) :
                k \in DOMAIN next.sectionOf /\ next.sectionOf[k] = file.sections[i]

LEMMA PlaceSectionsResult ==
    ASSUME NEW file, IsChart(file)
    PROVE  /\ PlaceSections(file) \in IndexSet(file)
           /\ SectionsFiled(file, PlaceSections(file))
<1> DEFINE ss == file.sections
           m == Len(ss)
           keys == [i \in DOMAIN ss |-> ss[i].key]
           seqs == [i \in DOMAIN ss |-> ss[i].groups]
           K == UNION {Range(ss[i].groups) : i \in DOMAIN ss}
<1>1. PICK f \in [0..m -> IndexSet(file)] :
          /\ f[0] = Blank
          /\ \A n \in 1..m : f[n] = PlaceSection(file, f[n - 1], ss[n])
          /\ PlaceSections(file) = f[m]
  BY SectionsLoop
<1>2. m \in Nat /\ DOMAIN ss = 1..m
  BY DEF IsChart
<1>3. \A n \in 1..m : ss[n] \in Range(ss) /\ ss[n].groups \in Seq(Range(ss[n].groups))
  BY <1>2 DEF IsChart, Range
<1>4. \A n \in 1..m : ss[n].groups \in Seq(K)
  BY <1>2, <1>3
<1>5. /\ DOMAIN keys = 1..m /\ DOMAIN seqs = 1..m
      /\ \A n \in 1..m : keys[n] = ss[n].key /\ seqs[n] = ss[n].groups
  BY <1>2
<1>6. /\ seqs \in Seq(Seq(K)) /\ Len(seqs) = m /\ Len(keys) = m
  BY <1>2, <1>4
<1> HIDE DEF m, keys, seqs, K
<1>70. PICK fl \in [0..Len(seqs) -> Seq(K)] :
          /\ fl[0] = <<>>
          /\ \A n \in 1..Len(seqs) : fl[n] = fl[n - 1] \o seqs[n]
          /\ FlattenSeq(seqs) = fl[Len(seqs)]
  BY <1>6, FlattenLoop
<1>7. /\ fl \in [0..m -> Seq(K)] /\ fl[0] = <<>>
      /\ \A n \in 1..m : fl[n] = fl[n - 1] \o seqs[n]
      /\ FlattenSeq(seqs) = fl[m]
  BY <1>6, <1>70
<1>8. Listed(file) = fl[m]
  BY <1>7 DEF Listed, seqs
<1> DEFINE Sound(n) == /\ \A j \in 1..n : keys[j] # "" /\ keys[j] \notin First(keys, j - 1)
                       /\ IsInjective(fl[n]) /\ Range(fl[n]) \subseteq file.groups
           Kept(n) == f[n].roles = {} /\ f[n].ownerOf = Empty
           Table(n) == /\ f[n].sections = First(keys, n) /\ f[n].placed = fl[n]
                       /\ DOMAIN f[n].sectionOf = Range(fl[n])
           Filed(n) == \A i \in 1..n : \A k \in Range(ss[i].groups) :
                          k \in DOMAIN f[n].sectionOf /\ f[n].sectionOf[k] = ss[i]
           T == {n \in 0..m : /\ Kept(n) /\ (~f[n].error <=> Sound(n))
                              /\ (~f[n].error => Table(n) /\ Filed(n))}
<1>9. 0 \in T
  <2>0. First(keys, 0) = {}
    BY DEF First
  <2>1. First(keys, 0) = {} /\ f[0] = Blank /\ fl[0] = <<>> /\ 0 \in 0..m
    BY <1>1, <1>2, <1>7, <2>0
  <2>2. Range(<<>>) = {} /\ IsInjective(<<>>)
    BY DEF Range, IsInjective
  <2>3. Kept(0) /\ ~f[0].error
    BY <2>1 DEF Blank
  <2>4. Sound(0) /\ Filed(0)
    BY <2>1, <2>2
  <2>5. Table(0)
    BY <2>1, <2>2 DEF Blank, Empty
  <2> HIDE DEF Kept, Sound, Table, Filed
  <2> QED BY <2>1, <2>3, <2>4, <2>5
<1>10. ASSUME NEW n \in 1..m, n - 1 \in T PROVE n \in T
  <2> DEFINE old == f[n - 1]
             new == f[n]
             s == ss[n]
  <2>1. n - 1 \in 0..m /\ n \in 0..m /\ old \in IndexSet(file) /\ s \in Range(ss)
    BY <1>1, <1>2, <1>3
  <2>2. new = PlaceSection(file, old, s)
    BY <1>1
  <2>3. First(keys, n) = First(keys, n - 1) \cup {keys[n]} /\ keys[n] = s.key
    BY <1>2, <1>5, <1>6, FirstOnes
  <2>4. Kept(n - 1) /\ (~old.error <=> Sound(n - 1)) /\ (~old.error => Table(n - 1) /\ Filed(n - 1))
    BY <1>10
  <2>5. SectionPlaced(file, s, old, new)
    <3> HIDE DEF old, new, s
    <3> QED BY <2>1, <2>2, PlaceSectionEffect
  <2>6. /\ Range(fl[n]) = Range(fl[n - 1]) \cup Range(s.groups)
        /\ IsInjective(fl[n]) <=> /\ IsInjective(fl[n - 1]) /\ IsInjective(s.groups)
                                  /\ Range(fl[n - 1]) \cap Range(s.groups) = {}
    <3> DEFINE a == fl[n - 1]
               b == s.groups
    <3>1. a \in Seq(K) /\ b \in Seq(K) /\ fl[n] = a \o b
      BY <1>4, <1>5, <1>7, <2>1
    <3> HIDE DEF a, b
    <3>2. /\ Range(a \o b) = Range(a) \cup Range(b)
          /\ IsInjective(a \o b) <=>
                IsInjective(a) /\ IsInjective(b) /\ Range(a) \cap Range(b) = {}
      BY <3>1, Concat
    <3> QED BY <3>1, <3>2 DEF a, b
  <2>7. Sound(n) <=> /\ Sound(n - 1) /\ s.key # "" /\ s.key \notin First(keys, n - 1)
                     /\ Range(s.groups) \subseteq file.groups
                     /\ Range(s.groups) \cap Range(fl[n - 1]) = {}
                     /\ IsInjective(s.groups)
    <3>1. 1..n = (1..(n - 1)) \cup {n}
      BY <1>2
    <3>2. (\A j \in 1..n : keys[j] # "" /\ keys[j] \notin First(keys, j - 1)) <=>
             /\ \A j \in 1..(n - 1) : keys[j] # "" /\ keys[j] \notin First(keys, j - 1)
             /\ s.key # "" /\ s.key \notin First(keys, n - 1)
      BY <2>3, <3>1
    <3> HIDE DEF s
    <3> QED BY <2>6, <3>2
  <2>8. Kept(n)
    BY <2>4, <2>5 DEF SectionPlaced
  <2>9. ~new.error <=> Sound(n)
    <3>1. ~new.error <=> /\ ~old.error /\ s.key # "" /\ s.key \notin old.sections
                         /\ Range(s.groups) \subseteq file.groups
                         /\ Range(s.groups) \cap DOMAIN old.sectionOf = {}
                         /\ IsInjective(s.groups)
      BY <2>5 DEF SectionPlaced
    <3>2. ~old.error => /\ old.sections = First(keys, n - 1)
                        /\ DOMAIN old.sectionOf = Range(fl[n - 1])
      BY <2>4
    <3> HIDE DEF Sound, old, new, s, Kept, Table, Filed
    <3> QED BY <2>4, <2>7, <3>1, <3>2
  <2>10. ASSUME ~new.error PROVE Table(n) /\ Filed(n)
    <3>1. /\ ~old.error
          /\ Range(s.groups) \cap DOMAIN old.sectionOf = {}
          /\ new.sections = old.sections \cup {s.key}
          /\ new.placed = old.placed \o s.groups
          /\ DOMAIN new.sectionOf = DOMAIN old.sectionOf \cup Range(s.groups)
          /\ \A k \in DOMAIN new.sectionOf :
                new.sectionOf[k] = IF k \in Range(s.groups) THEN s ELSE old.sectionOf[k]
      BY <2>5, <2>10 DEF SectionPlaced
    <3>2. Table(n - 1) /\ Filed(n - 1)
      BY <2>4, <3>1
    <3>3. fl[n] = fl[n - 1] \o s.groups
      BY <1>5, <1>7
    <3>4. Table(n)
      <4> HIDE DEF s
      <4> QED BY <2>3, <2>6, <3>1, <3>2, <3>3
    <3>5. Filed(n)
      <4> SUFFICES ASSUME NEW i \in 1..n, NEW k \in Range(ss[i].groups)
                   PROVE  k \in DOMAIN new.sectionOf /\ new.sectionOf[k] = ss[i]
        OBVIOUS
      <4>1. CASE i = n
        BY <3>1, <4>1
      <4>2. CASE i # n
        <5>1. i \in 1..(n - 1)
          BY <1>2, <4>2
        <5>2. k \in DOMAIN old.sectionOf /\ old.sectionOf[k] = ss[i]
          BY <3>2, <5>1
        <5> HIDE DEF old, new, s
        <5> QED BY <3>1, <5>2
      <4> QED BY <4>1, <4>2
    <3> QED BY <3>4, <3>5
  <2> HIDE DEF Sound, Kept, Table, Filed
  <2> QED BY <2>1, <2>8, <2>9, <2>10
<1>11. m \in T
  <2> HIDE DEF T
  <2>1. \A n \in 0..m : n \in T
    BY <1>2, <1>9, <1>10, Upto
  <2> QED BY <1>2, <2>1
<1> DEFINE next == f[m]
<1>12. ~next.error <=> SectionsSound(file)
  <2>1. IsInjective(keys) <=> \A j \in 1..m : keys[j] \notin First(keys, j - 1)
    BY <1>2, <1>5, <1>6, Injective
  <2>2. (\A i \in DOMAIN ss : ss[i].key # "") <=> \A j \in 1..m : keys[j] # ""
    BY <1>2, <1>5
  <2>3. IsInjective([i \in DOMAIN ss |-> ss[i].key]) <=> IsInjective(keys)
    BY DEF keys
  <2> HIDE DEF next
  <2>4. ~next.error <=> Sound(m)
    BY <1>11 DEF next
  <2> QED BY <1>8, <2>1, <2>2, <2>3, <2>4 DEF SectionsSound
<1>13. ~next.error => /\ next.placed = Listed(file) /\ DOMAIN next.sectionOf = Range(Listed(file))
                      /\ \A i \in DOMAIN ss : \A k \in Range(ss[i].groups) :
                            k \in DOMAIN next.sectionOf /\ next.sectionOf[k] = ss[i]
  BY <1>2, <1>8, <1>11
<1>14. Kept(m) /\ next \in IndexSet(file) /\ next = PlaceSections(file)
  BY <1>1, <1>2, <1>11
<1> HIDE DEF next
<1>15. next.roles = {} /\ next.ownerOf = Empty
  BY <1>14 DEF next
<1>16. SectionsFiled(file, next)
  BY <1>12, <1>13, <1>15 DEF SectionsFiled
<1> QED BY <1>14, <1>16

------------------------------------------------------------------------------
(* The roles. *)

RoleOwned(file, r, ix, next) ==
    /\ next.placed = ix.placed /\ next.sectionOf = ix.sectionOf
    /\ ~next.error <=> /\ ~ix.error /\ r.key \notin ix.roles /\ r.group \in file.groups
                       /\ Range(r.owns) \subseteq file.groups
                       /\ Range(r.owns) \cap DOMAIN ix.ownerOf = {}
                       /\ IsInjective(r.owns)
    /\ ~next.error =>
          /\ next.roles = ix.roles \cup {r.key}
          /\ DOMAIN next.ownerOf = DOMAIN ix.ownerOf \cup Range(r.owns)
          /\ \A k \in DOMAIN next.ownerOf :
                next.ownerOf[k] = IF k \in Range(r.owns) THEN r ELSE ix.ownerOf[k]

LEMMA PlaceRoleEffect ==
    ASSUME NEW file, IsChart(file), NEW r \in Range(file.roles), NEW ix \in IndexSet(file)
    PROVE  /\ PlaceRole(file, ix, r) \in IndexSet(file)
           /\ RoleOwned(file, r, ix, PlaceRole(file, ix, r))
<1>1. CASE r.key \in ix.roles \/ r.group \notin file.groups
  <2>1. PlaceRole(file, ix, r) = [ix EXCEPT !.error = TRUE]
    BY <1>1 DEF PlaceRole, Refused
  <2> QED BY <1>1, <2>1 DEF IndexSet, RoleOwned
<1>2. CASE r.key \notin ix.roles /\ r.group \in file.groups
  <2> DEFINE mid == [ix EXCEPT !.roles = ix.roles \cup {r.key}]
             next == OwnGroups(file, r, mid)
  <2>1. PlaceRole(file, ix, r) = next
    BY <1>2 DEF PlaceRole, IndexSet
  <2>2. r.key \in RoleKeys(file)
    BY DEF RoleKeys, Range
  <2>3. mid \in IndexSet(file)
    BY <2>2 DEF IndexSet
  <2>4. /\ mid.error = ix.error /\ mid.placed = ix.placed /\ mid.sectionOf = ix.sectionOf
        /\ mid.ownerOf = ix.ownerOf /\ mid.roles = ix.roles \cup {r.key}
    BY DEF IndexSet
  <2> HIDE DEF mid
  <2>5. next \in IndexSet(file) /\ GroupsOwned(file, r, mid, next)
    BY <2>3, OwnGroupsResult
  <2> HIDE DEF next
  <2>6. RoleOwned(file, r, ix, next)
    BY <1>2, <2>4, <2>5 DEF RoleOwned, GroupsOwned
  <2> QED BY <2>1, <2>5, <2>6
<1> QED BY <1>1, <1>2

LEMMA RolesLoop ==
    ASSUME NEW file, IsChart(file), NEW ix \in IndexSet(file)
    PROVE  \E f \in [0..Len(file.roles) -> IndexSet(file)] :
              /\ f[0] = ix
              /\ \A n \in 1..Len(file.roles) : f[n] = PlaceRole(file, f[n - 1], file.roles[n])
              /\ PlaceRoles(file, ix) = f[Len(file.roles)]
<1> DEFINE m == Len(file.roles)
           D == IndexSet(file)
           G == [p \in D \X (1..m) |-> PlaceRole(file, p[1], file.roles[p[2]])]
           Loop(f) == f = [n \in 0..m |-> IF n = 0 THEN ix
                                          ELSE PlaceRole(file, f[n - 1], file.roles[n])]
           after == CHOOSE f : Loop(f)
<1>1. m \in Nat
  BY DEF IsChart
<1> HIDE DEF m
<1>2. \A d \in D, n \in 1..m : PlaceRole(file, d, file.roles[n]) \in D
  BY PlaceRoleEffect, <1>1 DEF Range, m
<1> HIDE DEF D
<1>3. G \in [D \X (1..m) -> D]
  BY <1>2
<1>4. ix \in D
  BY DEF D
<1>5. PICK f : f \in Runs(D, m, ix, G)
  <2> HIDE DEF G
  <2>1. Runs(D, m, ix, G) # {}
    BY <1>1, <1>3, <1>4, Recursion
  <2> QED BY <2>1
<1>6. ASSUME NEW n \in 1..m
      PROVE  n - 1 \in 0..m /\ f[n] = PlaceRole(file, f[n - 1], file.roles[n])
  <2>1. n - 1 \in 0..m
    BY <1>1
  <2>2. <<f[n - 1], n>> \in D \X (1..m)
    BY <1>5, <2>1 DEF Runs
  <2> QED BY <1>5, <2>1, <2>2 DEF Runs
<1>7. f \in [0..m -> D] /\ f[0] = ix /\ Loop(f)
  <2>1. f \in [0..m -> D] /\ f[0] = ix
    BY <1>5 DEF Runs
  <2> QED BY <1>1, <1>6, <2>1
<1>8. Loop(after)
  <2> HIDE DEF Loop
  <2> QED BY <1>7
<1>9. \A n \in 0..m : n \in {k \in 0..m : after[k] = f[k]}
  <2> HIDE DEF after
  <2> DEFINE T == {k \in 0..m : after[k] = f[k]}
  <2>1. 0 \in T
    BY <1>1, <1>7, <1>8
  <2>2. ASSUME NEW n \in 1..m, n - 1 \in T PROVE n \in T
    BY <1>1, <1>6, <1>8, <2>2
  <2> HIDE DEF T
  <2>3. \A n \in 0..m : n \in T
    BY <1>1, <2>1, <2>2, Upto
  <2> QED BY <2>3 DEF T
<1>10. PlaceRoles(file, ix) = after[m]
  BY DEF PlaceRoles, m
<1>11. after[m] = f[m]
  BY <1>1, <1>9
<1> HIDE DEF after
<1> HIDE DEF Loop
<1> QED BY <1>6, <1>7, <1>10, <1>11 DEF m, D

\* The roles are let in exactly when no key is repeated and every list is named
\* and owned once.
RolesSound(file) ==
    /\ \A i \in DOMAIN file.roles : file.roles[i].group \in file.groups
    /\ IsInjective([i \in DOMAIN file.roles |-> file.roles[i].key])
    /\ IsInjective(Owned(file)) /\ Range(Owned(file)) \subseteq file.groups

RolesFiled(file, ix, next) ==
    /\ next.placed = ix.placed /\ next.sectionOf = ix.sectionOf
    /\ ~next.error <=> ~ix.error /\ RolesSound(file)
    /\ ~next.error =>
          \A i \in DOMAIN file.roles : \A k \in Range(file.roles[i].owns) :
             k \in DOMAIN next.ownerOf /\ next.ownerOf[k] = file.roles[i]

LEMMA PlaceRolesResult ==
    ASSUME NEW file, IsChart(file), NEW ix \in IndexSet(file),
           ix.roles = {}, ix.ownerOf = Empty
    PROVE  /\ PlaceRoles(file, ix) \in IndexSet(file)
           /\ RolesFiled(file, ix, PlaceRoles(file, ix))
<1> DEFINE rs == file.roles
           m == Len(rs)
           keys == [i \in DOMAIN rs |-> rs[i].key]
           seqs == [i \in DOMAIN rs |-> rs[i].owns]
           K == UNION {Range(rs[i].owns) : i \in DOMAIN rs}
<1>1. PICK f \in [0..m -> IndexSet(file)] :
          /\ f[0] = ix
          /\ \A n \in 1..m : f[n] = PlaceRole(file, f[n - 1], rs[n])
          /\ PlaceRoles(file, ix) = f[m]
  BY RolesLoop
<1>2. m \in Nat /\ DOMAIN rs = 1..m
  BY DEF IsChart
<1>3. \A n \in 1..m : rs[n] \in Range(rs) /\ rs[n].owns \in Seq(Range(rs[n].owns))
  BY <1>2 DEF IsChart, Range
<1>4. \A n \in 1..m : rs[n].owns \in Seq(K)
  BY <1>2, <1>3
<1>5. /\ DOMAIN keys = 1..m /\ DOMAIN seqs = 1..m
      /\ \A n \in 1..m : keys[n] = rs[n].key /\ seqs[n] = rs[n].owns
  BY <1>2
<1>6. /\ seqs \in Seq(Seq(K)) /\ Len(seqs) = m /\ Len(keys) = m
  BY <1>2, <1>4
<1> HIDE DEF m, keys, seqs, K
<1>70. PICK fl \in [0..Len(seqs) -> Seq(K)] :
          /\ fl[0] = <<>>
          /\ \A n \in 1..Len(seqs) : fl[n] = fl[n - 1] \o seqs[n]
          /\ FlattenSeq(seqs) = fl[Len(seqs)]
  BY <1>6, FlattenLoop
<1>7. /\ fl \in [0..m -> Seq(K)] /\ fl[0] = <<>>
      /\ \A n \in 1..m : fl[n] = fl[n - 1] \o seqs[n]
      /\ FlattenSeq(seqs) = fl[m]
  BY <1>6, <1>70
<1>8. Owned(file) = fl[m]
  BY <1>7 DEF Owned, seqs
<1> DEFINE Sound(n) == /\ ~ix.error
                       /\ \A j \in 1..n : rs[j].group \in file.groups /\ keys[j] \notin First(keys, j - 1)
                       /\ IsInjective(fl[n]) /\ Range(fl[n]) \subseteq file.groups
           Kept(n) == f[n].placed = ix.placed /\ f[n].sectionOf = ix.sectionOf
           Table(n) == /\ f[n].roles = First(keys, n)
                       /\ DOMAIN f[n].ownerOf = Range(fl[n])
           Filed(n) == \A i \in 1..n : \A k \in Range(rs[i].owns) :
                          k \in DOMAIN f[n].ownerOf /\ f[n].ownerOf[k] = rs[i]
           T == {n \in 0..m : /\ Kept(n) /\ (~f[n].error <=> Sound(n))
                              /\ (~f[n].error => Table(n) /\ Filed(n))}
<1>9. 0 \in T
  <2>0. First(keys, 0) = {}
    BY DEF First
  <2>1. First(keys, 0) = {} /\ f[0] = ix /\ fl[0] = <<>> /\ 0 \in 0..m
    BY <1>1, <1>2, <1>7, <2>0
  <2>2. Range(<<>>) = {} /\ IsInjective(<<>>)
    BY DEF Range, IsInjective
  <2>3. Kept(0) /\ f[0].error = ix.error
    BY <2>1
  <2>4. (~ix.error <=> Sound(0)) /\ Filed(0)
    BY <2>1, <2>2
  <2>5. Table(0)
    BY <2>1, <2>2 DEF Empty
  <2> HIDE DEF Kept, Sound, Table, Filed
  <2> QED BY <2>1, <2>3, <2>4, <2>5
<1>10. ASSUME NEW n \in 1..m, n - 1 \in T PROVE n \in T
  <2> DEFINE old == f[n - 1]
             new == f[n]
             r == rs[n]
  <2>1. n - 1 \in 0..m /\ n \in 0..m /\ old \in IndexSet(file) /\ r \in Range(rs)
    BY <1>1, <1>2, <1>3
  <2>2. new = PlaceRole(file, old, r)
    BY <1>1
  <2>3. First(keys, n) = First(keys, n - 1) \cup {keys[n]} /\ keys[n] = r.key
    BY <1>2, <1>5, <1>6, FirstOnes
  <2>4. Kept(n - 1) /\ (~old.error <=> Sound(n - 1)) /\ (~old.error => Table(n - 1) /\ Filed(n - 1))
    BY <1>10
  <2>5. RoleOwned(file, r, old, new)
    <3> HIDE DEF old, new, r
    <3> QED BY <2>1, <2>2, PlaceRoleEffect
  <2>6. /\ Range(fl[n]) = Range(fl[n - 1]) \cup Range(r.owns)
        /\ IsInjective(fl[n]) <=> /\ IsInjective(fl[n - 1]) /\ IsInjective(r.owns)
                                  /\ Range(fl[n - 1]) \cap Range(r.owns) = {}
    <3> DEFINE a == fl[n - 1]
               b == r.owns
    <3>1. a \in Seq(K) /\ b \in Seq(K) /\ fl[n] = a \o b
      BY <1>4, <1>5, <1>7, <2>1
    <3> HIDE DEF a, b
    <3>2. /\ Range(a \o b) = Range(a) \cup Range(b)
          /\ IsInjective(a \o b) <=>
                IsInjective(a) /\ IsInjective(b) /\ Range(a) \cap Range(b) = {}
      BY <3>1, Concat
    <3> QED BY <3>1, <3>2 DEF a, b
  <2>7. Sound(n) <=> /\ Sound(n - 1) /\ r.group \in file.groups /\ r.key \notin First(keys, n - 1)
                     /\ Range(r.owns) \subseteq file.groups
                     /\ Range(r.owns) \cap Range(fl[n - 1]) = {}
                     /\ IsInjective(r.owns)
    <3>1. 1..n = (1..(n - 1)) \cup {n}
      BY <1>2
    <3>2. (\A j \in 1..n : rs[j].group \in file.groups /\ keys[j] \notin First(keys, j - 1)) <=>
             /\ \A j \in 1..(n - 1) : rs[j].group \in file.groups /\ keys[j] \notin First(keys, j - 1)
             /\ r.group \in file.groups /\ r.key \notin First(keys, n - 1)
      BY <2>3, <3>1
    <3> HIDE DEF r
    <3> QED BY <2>6, <3>2
  <2>8. Kept(n)
    BY <2>4, <2>5 DEF RoleOwned
  <2>9. ~new.error <=> Sound(n)
    <3>1. ~new.error <=> /\ ~old.error /\ r.group \in file.groups /\ r.key \notin old.roles
                         /\ Range(r.owns) \subseteq file.groups
                         /\ Range(r.owns) \cap DOMAIN old.ownerOf = {}
                         /\ IsInjective(r.owns)
      BY <2>5 DEF RoleOwned
    <3>2. ~old.error => /\ old.roles = First(keys, n - 1)
                        /\ DOMAIN old.ownerOf = Range(fl[n - 1])
      BY <2>4
    <3> HIDE DEF Sound, old, new, r, Kept, Table, Filed
    <3> QED BY <2>4, <2>7, <3>1, <3>2
  <2>10. ASSUME ~new.error PROVE Table(n) /\ Filed(n)
    <3>1. /\ ~old.error
          /\ Range(r.owns) \cap DOMAIN old.ownerOf = {}
          /\ new.roles = old.roles \cup {r.key}
          /\ DOMAIN new.ownerOf = DOMAIN old.ownerOf \cup Range(r.owns)
          /\ \A k \in DOMAIN new.ownerOf :
                new.ownerOf[k] = IF k \in Range(r.owns) THEN r ELSE old.ownerOf[k]
      BY <2>5, <2>10 DEF RoleOwned
    <3>2. Table(n - 1) /\ Filed(n - 1)
      BY <2>4, <3>1
    <3>3. fl[n] = fl[n - 1] \o r.owns
      BY <1>5, <1>7
    <3>4. Table(n)
      <4> HIDE DEF r
      <4> QED BY <2>3, <2>6, <3>1, <3>2, <3>3
    <3>5. Filed(n)
      <4> SUFFICES ASSUME NEW i \in 1..n, NEW k \in Range(rs[i].owns)
                   PROVE  k \in DOMAIN new.ownerOf /\ new.ownerOf[k] = rs[i]
        OBVIOUS
      <4>1. CASE i = n
        BY <3>1, <4>1
      <4>2. CASE i # n
        <5>1. i \in 1..(n - 1)
          BY <1>2, <4>2
        <5>2. k \in DOMAIN old.ownerOf /\ old.ownerOf[k] = rs[i]
          BY <3>2, <5>1
        <5> HIDE DEF old, new, r
        <5> QED BY <3>1, <5>2
      <4> QED BY <4>1, <4>2
    <3> QED BY <3>4, <3>5
  <2> HIDE DEF Sound, Kept, Table, Filed
  <2> QED BY <2>1, <2>8, <2>9, <2>10
<1>11. m \in T
  <2> HIDE DEF T
  <2>1. \A n \in 0..m : n \in T
    BY <1>2, <1>9, <1>10, Upto
  <2> QED BY <1>2, <2>1
<1> DEFINE next == f[m]
<1>12. ~next.error <=> ~ix.error /\ RolesSound(file)
  <2>1. IsInjective(keys) <=> \A j \in 1..m : keys[j] \notin First(keys, j - 1)
    BY <1>2, <1>5, <1>6, Injective
  <2>2. (\A i \in DOMAIN rs : rs[i].group \in file.groups) <=> \A j \in 1..m : rs[j].group \in file.groups
    BY <1>2
  <2>3. IsInjective([i \in DOMAIN rs |-> rs[i].key]) <=> IsInjective(keys)
    BY DEF keys
  <2> HIDE DEF next
  <2>4. ~next.error <=> Sound(m)
    BY <1>11 DEF next
  <2> QED BY <1>8, <2>1, <2>2, <2>3, <2>4 DEF RolesSound
<1>13. ~next.error => \A i \in DOMAIN rs : \A k \in Range(rs[i].owns) :
                            k \in DOMAIN next.ownerOf /\ next.ownerOf[k] = rs[i]
  BY <1>2, <1>8, <1>11
<1>14. Kept(m) /\ next \in IndexSet(file) /\ next = PlaceRoles(file, ix)
  BY <1>1, <1>2, <1>11
<1> HIDE DEF next
<1>15. next.placed = ix.placed /\ next.sectionOf = ix.sectionOf
  BY <1>14 DEF next
<1>16. RolesFiled(file, ix, next)
  BY <1>12, <1>13, <1>15 DEF RolesFiled
<1> QED BY <1>14, <1>16

------------------------------------------------------------------------------
(* The whole of index. *)

\* What index makes of a file: an error or, of every list, its number, its
\* section and its owner.
Filed(file, ix) ==
    /\ ix.error <=> ~Consistent(file)
    /\ ~ix.error =>
          /\ ix.placed = Listed(file) /\ DOMAIN ix.sectionOf = file.groups
          /\ \A i \in DOMAIN file.sections : \A k \in Range(file.sections[i].groups) :
                k \in file.groups /\ ix.sectionOf[k] = file.sections[i]
          /\ \A i \in DOMAIN file.roles : \A k \in Range(file.roles[i].owns) :
                k \in DOMAIN ix.ownerOf /\ ix.ownerOf[k] = file.roles[i]

LEMMA IndexResult ==
    ASSUME NEW file, IsChart(file)
    PROVE  Index(file) \in IndexSet(file) /\ Filed(file, Index(file))
<1> DEFINE one == PlaceSections(file)
           two == AllPlaced(file, one)
           ix == PlaceRoles(file, two)
<1>1. one \in IndexSet(file) /\ SectionsFiled(file, one)
  BY PlaceSectionsResult
<1>2. Index(file) = ix
  BY DEF Index
<1> HIDE DEF one
<1>3. /\ two \in IndexSet(file) /\ two.roles = one.roles /\ two.ownerOf = one.ownerOf
      /\ two.placed = one.placed /\ two.sectionOf = one.sectionOf
      /\ ~two.error <=> ~one.error /\ file.groups \subseteq DOMAIN one.sectionOf
  BY <1>1 DEF AllPlaced, Refused, IndexSet
<1> HIDE DEF two
<1>4. two.roles = {} /\ two.ownerOf = Empty
  BY <1>1, <1>3 DEF SectionsFiled
<1>5. ix \in IndexSet(file) /\ RolesFiled(file, two, ix)
  BY <1>3, <1>4, PlaceRolesResult
<1> HIDE DEF ix
<1>6. ix.error \in BOOLEAN
  BY <1>5 DEF IndexSet
<1>7. ~ix.error <=> ~two.error /\ RolesSound(file)
  BY <1>5 DEF RolesFiled
<1>8. ~two.error <=> SectionsSound(file) /\ file.groups \subseteq Range(Listed(file))
  BY <1>1, <1>3 DEF SectionsFiled
<1>9. ~ix.error <=> Consistent(file)
  BY <1>7, <1>8 DEF Consistent, SectionsSound, RolesSound
<1>10. ASSUME ~ix.error
       PROVE  /\ ix.placed = Listed(file) /\ DOMAIN ix.sectionOf = file.groups
              /\ \A i \in DOMAIN file.sections : \A k \in Range(file.sections[i].groups) :
                    k \in file.groups /\ ix.sectionOf[k] = file.sections[i]
              /\ \A i \in DOMAIN file.roles : \A k \in Range(file.roles[i].owns) :
                    k \in DOMAIN ix.ownerOf /\ ix.ownerOf[k] = file.roles[i]
  <2>1. ~two.error /\ ~one.error
    BY <1>3, <1>7, <1>10
  <2>2. Range(Listed(file)) = file.groups
    BY <1>9, <1>10 DEF Consistent
  <2>3. ix.placed = one.placed /\ ix.sectionOf = one.sectionOf
    BY <1>3, <1>5 DEF RolesFiled
  <2>4. /\ one.placed = Listed(file) /\ DOMAIN one.sectionOf = Range(Listed(file))
        /\ \A i \in DOMAIN file.sections : \A k \in Range(file.sections[i].groups) :
              k \in DOMAIN one.sectionOf /\ one.sectionOf[k] = file.sections[i]
    BY <1>1, <2>1 DEF SectionsFiled
  <2>5. \A i \in DOMAIN file.roles : \A k \in Range(file.roles[i].owns) :
           k \in DOMAIN ix.ownerOf /\ ix.ownerOf[k] = file.roles[i]
    BY <1>5, <1>10 DEF RolesFiled
  <2> QED BY <2>2, <2>3, <2>4, <2>5
<1>11. Filed(file, ix)
  BY <1>6, <1>9, <1>10 DEF Filed
<1> QED BY <1>2, <1>5, <1>11

\* The numbers, sections and owners the chart answers with are those its file
\* writes down.
MeansItsFile(file, chart) ==
    /\ \A i \in DOMAIN Listed(file) : Order(chart, Listed(file)[i]) = i - 1
    /\ \A k \in file.groups : \A i \in DOMAIN file.sections :
          SectionOf(chart, k) = file.sections[i] <=> k \in Range(file.sections[i].groups)
    /\ \A i \in DOMAIN file.roles : \A k \in Range(file.roles[i].owns) :
          chart.ownerOf[k] = file.roles[i]

LEMMA ListedElements ==
    ASSUME NEW file, IsChart(file)
    PROVE  /\ Listed(file) \in Seq(Range(Listed(file)))
           /\ Range(Listed(file)) = UNION {Range(file.sections[i].groups) : i \in DOMAIN file.sections}
<1> DEFINE ss == file.sections
           seqs == [i \in DOMAIN ss |-> ss[i].groups]
           K == UNION {Range(ss[i].groups) : i \in DOMAIN ss}
<1>1. /\ \A i \in DOMAIN ss : ss[i].groups \in Seq(Range(ss[i].groups))
      /\ DOMAIN ss = 1..Len(ss) /\ Len(ss) \in Nat
  <2>1. DOMAIN ss = 1..Len(ss) /\ Len(ss) \in Nat
    BY DEF IsChart
  <2>2. \A i \in DOMAIN ss : ss[i] \in Range(ss)
    BY DEF Range
  <2> QED BY <2>1, <2>2 DEF IsChart
<1>2. \A i \in DOMAIN ss : ss[i].groups \in Seq(K)
  BY <1>1
<1> HIDE DEF K
<1>3. seqs \in Seq(Seq(K)) /\ DOMAIN seqs = DOMAIN ss
  BY <1>1, <1>2
<1>4. \A i \in DOMAIN ss : seqs[i] = ss[i].groups
  OBVIOUS
<1> HIDE DEF seqs
<1>5. /\ FlattenSeq(seqs) \in Seq(K)
      /\ Range(FlattenSeq(seqs)) = UNION {Range(seqs[i]) : i \in DOMAIN seqs}
  BY <1>3, FlattenRange
<1>6. Range(FlattenSeq(seqs)) = K
  BY <1>3, <1>4, <1>5 DEF K
<1> QED BY <1>5, <1>6 DEF Listed, seqs, K

LEMMA ChartMeans ==
    ASSUME NEW file, IsChart(file), ~LoadChart(file).error
    PROVE  MeansItsFile(file, LoadChart(file))
<1> DEFINE ix == Index(file)
           chart == LoadChart(file)
           all == Listed(file)
<1>1. ix \in IndexSet(file) /\ Filed(file, ix)
  BY IndexResult
<1>2. chart.error = ix.error /\ chart.placed = ix.placed /\ chart.sectionOf = ix.sectionOf
      /\ chart.ownerOf = ix.ownerOf
  BY DEF LoadChart
<1> HIDE DEF ix, chart
<1>3. ~ix.error
  BY <1>2 DEF chart
<1>4. Consistent(file)
  BY <1>1, <1>3 DEF Filed
<1>5. chart.placed = all /\ DOMAIN chart.sectionOf = file.groups
  BY <1>1, <1>2, <1>3 DEF Filed
<1>6. ASSUME NEW i \in DOMAIN all PROVE Order(chart, all[i]) = i - 1
  <2>1. IsInjective(all)
    BY <1>4 DEF Consistent
  <2>2. \E j \in DOMAIN chart.placed : chart.placed[j] = all[i]
    BY <1>5
  <2> DEFINE c == CHOOSE j \in DOMAIN chart.placed : chart.placed[j] = all[i]
  <2>3. c \in DOMAIN chart.placed /\ chart.placed[c] = all[i]
    BY <2>2
  <2>4. c = i
    <3> HIDE DEF c
    <3> QED BY <1>5, <2>1, <2>3 DEF IsInjective
  <2>5. Order(chart, all[i]) = c - 1
    <3> HIDE DEF all
    <3> QED BY <2>2 DEF Order
  <2> QED BY <2>4, <2>5
<1>7. ASSUME NEW k \in file.groups, NEW i \in DOMAIN file.sections
      PROVE  SectionOf(chart, k) = file.sections[i] <=> k \in Range(file.sections[i].groups)
  <2>1. \A j \in DOMAIN file.sections :
           k \in Range(file.sections[j].groups) => chart.sectionOf[k] = file.sections[j]
    BY <1>1, <1>2, <1>3 DEF Filed
  <2>2. SectionOf(chart, k) = chart.sectionOf[k]
    BY <1>5 DEF SectionOf
  <2>3. Range(all) = file.groups
    BY <1>4 DEF Consistent
  <2>4. PICK j \in DOMAIN file.sections : k \in Range(file.sections[j].groups)
    <3> HIDE DEF all
    <3>1. Range(all) = UNION {Range(file.sections[j].groups) : j \in DOMAIN file.sections}
      BY ListedElements DEF all
    <3> QED BY <2>3, <3>1
  <2> QED BY <2>1, <2>2, <2>4
<1>8. \A i \in DOMAIN file.roles : \A k \in Range(file.roles[i].owns) :
         chart.ownerOf[k] = file.roles[i]
  BY <1>1, <1>2, <1>3 DEF Filed
<1> QED BY <1>6, <1>7, <1>8 DEF MeansItsFile, chart

\* index refuses exactly the files that contradict themselves.
LEMMA ChartRefused ==
    ASSUME NEW file, IsChart(file)
    PROVE  LoadChart(file).error <=> ~Consistent(file)
BY IndexResult DEF LoadChart, Filed
==============================================================================

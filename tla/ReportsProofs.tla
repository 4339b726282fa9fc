---------------------------- MODULE ReportsProofs ----------------------------
(***************************************************************************)
(* Proofs about Reports, for any people, lists, chart and number of        *)
(* requests and changes.                                                   *)
(***************************************************************************)
EXTENDS Reports, OrgChartProofs

------------------------------------------------------------------------------
(* The order of the lists. *)

LEMMA Given == Alphabet \in Seq(Lists) /\ IsChart(File) /\ Consistent(File)
BY ReportsAssumption, Zenon

LEMMA SectionsNamed == \A i \in DOMAIN File.sections : File.sections[i].key # Unsectioned.key
BY ReportsAssumption, Zenon

LEMMA ChartNumbers == /\ \A k \in Lists : Order(Chart, k) \in Nat
                      /\ Chart.sections = File.sections
                      /\ \A k \in DOMAIN Chart.sectionOf : Chart.sectionOf[k] \in Range(File.sections)
<1>1. Index(File) \in IndexSet(File)
  BY Given, IndexResult
<1>2. /\ Chart.placed = Index(File).placed /\ Chart.sectionOf = Index(File).sectionOf
      /\ Chart.sections = File.sections
  BY DEF Chart, LoadChart
<1> DEFINE placed == Chart.placed
<1>3. placed \in Seq(File.groups)
  BY <1>1, <1>2 DEF IndexSet
<1>4. ASSUME NEW k \in Lists PROVE Order(Chart, k) \in Nat
  <2>1. CASE \E i \in DOMAIN placed : placed[i] = k
    <3> DEFINE c == CHOOSE i \in DOMAIN placed : placed[i] = k
    <3>1. c \in DOMAIN placed
      BY <2>1
    <3>2. Order(Chart, k) = c - 1
      BY <2>1 DEF Order
    <3>3. DOMAIN placed = 1..Len(placed) /\ Len(placed) \in Nat
      BY <1>3
    <3> HIDE DEF c, placed
    <3> QED BY <3>1, <3>2, <3>3
  <2>2. CASE ~\E i \in DOMAIN placed : placed[i] = k
    BY <2>2 DEF Order, unlistedOrder
  <2> QED BY <2>1, <2>2
<1>5. \A k \in DOMAIN Chart.sectionOf : Chart.sectionOf[k] \in Range(File.sections)
  BY <1>1, <1>2 DEF IndexSet, Placing
<1> QED BY <1>2, <1>4, <1>5

LEMMA Positions ==
    /\ IsFiniteSet(Lists)
    /\ \A k \in Lists : Position(k) \in Nat
    /\ \A j, k \in Lists : Position(j) = Position(k) => j = k
<1>1. Alphabet \in Seq(Lists) /\ DOMAIN Alphabet = 1..Len(Alphabet) /\ Len(Alphabet) \in Nat
  BY Given
<1>2. \A k \in Lists : \E i \in DOMAIN Alphabet : Alphabet[i] = k
  BY DEF Lists, Range
<1>3. \A k \in Lists : Position(k) \in DOMAIN Alphabet /\ Alphabet[Position(k)] = k
  BY <1>2 DEF Position
<1>4. IsFiniteSet(Lists)
  <2> DEFINE f == [k \in Lists |-> Position(k)]
  <2>1. f \in [Lists -> 1..Len(Alphabet)]
    BY <1>1, <1>3
  <2>2. \A j, k \in Lists : f[j] = f[k] => j = k
    BY <1>3
  <2> HIDE DEF f
  <2>3. f \in Injection(Lists, 1..Len(Alphabet))
    <3>1. DOMAIN f = Lists
      BY <2>1
    <3> QED BY <2>1, <2>2, <3>1 DEF Injection, IsInjective
  <2>4. IsFiniteSet(1..Len(Alphabet))
    BY <1>1, FS_Interval
  <2> QED BY <2>3, <2>4, FS_Injection
<1> QED BY <1>1, <1>3, <1>4

\* Lists come one before the other.
LEMMA LessOrders ==
    /\ \A a \in Lists : ~Less(a, a)
    /\ \A a, b \in Lists : a # b => Less(a, b) \/ Less(b, a)
    /\ \A a, b, c \in Lists : Less(a, b) /\ Less(b, c) => Less(a, c)
<1> DEFINE o == [k \in Lists |-> Order(Chart, k)]
           p == [k \in Lists |-> Position(k)]
<1>1. \A k \in Lists : o[k] \in Nat /\ p[k] \in Nat
  BY ChartNumbers, Positions
<1>2. \A j, k \in Lists : p[j] = p[k] => j = k
  BY Positions
<1>3. \A a, b \in Lists : Less(a, b) <=> o[a] < o[b] \/ (o[a] = o[b] /\ p[a] < p[b])
  BY DEF Less
<1> HIDE DEF o, p
<1> QED BY <1>1, <1>2, <1>3

------------------------------------------------------------------------------
(* Sorting. *)

Before(S, k) == {j \in S : Less(j, k)}

LEMMA Ranks ==
    ASSUME NEW S, S \subseteq Lists
    PROVE  /\ IsFiniteSet(S) /\ Cardinality(S) \in Nat
           /\ \A k \in S : Cardinality(Before(S, k)) \in 0..(Cardinality(S) - 1)
           /\ \A j, k \in S : Cardinality(Before(S, j)) = Cardinality(Before(S, k)) => j = k
           /\ \A j, k \in S : Less(j, k) => Cardinality(Before(S, j)) < Cardinality(Before(S, k))
<1>1. IsFiniteSet(S) /\ Cardinality(S) \in Nat
  BY Positions, FS_Subset, FS_CardinalityType
<1>2. ASSUME NEW k \in S
      PROVE  IsFiniteSet(Before(S, k)) /\ Cardinality(Before(S, k)) \in Nat
  BY <1>1, FS_Subset, FS_CardinalityType DEF Before
<1>3. ASSUME NEW k \in S PROVE Cardinality(Before(S, k)) \in 0..(Cardinality(S) - 1)
  <2>1. Before(S, k) \in SUBSET (S \ {k})
    BY LessOrders DEF Before
  <2>2. IsFiniteSet(S \ {k}) /\ Cardinality(S \ {k}) = Cardinality(S) - 1
    BY <1>1, FS_RemoveElement
  <2>3. Cardinality(Before(S, k)) <= Cardinality(S \ {k})
    BY <2>1, <2>2, FS_Subset
  <2> QED BY <1>1, <1>2, <2>2, <2>3
<1>4. ASSUME NEW j \in S, NEW k \in S, Less(j, k)
      PROVE  Cardinality(Before(S, j)) < Cardinality(Before(S, k))
  <2>1. j \notin Before(S, j)
    BY LessOrders DEF Before
  <2>2. Before(S, j) \cup {j} \in SUBSET Before(S, k)
    BY <1>4, LessOrders DEF Before
  <2>3. Cardinality(Before(S, j) \cup {j}) = Cardinality(Before(S, j)) + 1
    BY <1>2, <2>1, FS_AddElement
  <2>4. Cardinality(Before(S, j) \cup {j}) <= Cardinality(Before(S, k))
    BY <1>2, <2>2, FS_Subset
  <2> QED BY <1>2, <2>3, <2>4
<1>5. ASSUME NEW j \in S, NEW k \in S, Cardinality(Before(S, j)) = Cardinality(Before(S, k))
      PROVE  j = k
  BY <1>2, <1>4, <1>5, LessOrders
<1> QED BY <1>1, <1>3, <1>4, <1>5

LessPairs == {pair \in Lists \X Lists : Less(pair[1], pair[2])}

\* Lists in the chart's order, none of them twice.
InOrder(keys) == keys \in Seq(Lists) /\ Ascends(keys, LessPairs)

\* What is in order has each place where its list's place in the order puts it.
LEMMA OrderedByPlace ==
    ASSUME NEW keys, InOrder(keys), NEW i \in DOMAIN keys, NEW j \in DOMAIN keys
    PROVE  i < j <=> Less(keys[i], keys[j])
<1>1. /\ keys \in Seq(Lists)
      /\ \A m, n \in DOMAIN keys : m < n => <<keys[m], keys[n]>> \in LessPairs
  BY DEF InOrder, Ascends
<1>2. i \in Nat /\ j \in Nat /\ keys[i] \in Lists /\ keys[j] \in Lists
  BY <1>1
<1>3. \A a, b : <<a, b>> \in LessPairs => Less(a, b)
  BY DEF LessPairs
<1>4. i < j \/ i = j \/ j < i
  BY <1>2
<1>5. i < j => Less(keys[i], keys[j])
  BY <1>1, <1>3
<1>6. j < i => Less(keys[j], keys[i])
  BY <1>1, <1>3
<1>7. ~Less(keys[i], keys[i]) /\ ~(Less(keys[i], keys[j]) /\ Less(keys[j], keys[i]))
  BY <1>2, LessOrders
<1> QED BY <1>2, <1>4, <1>5, <1>6, <1>7

\* Sorting keeps every list, adds none, and puts them in order.
LEMMA SortedKeeps ==
    ASSUME NEW S, S \subseteq Lists
    PROVE  Sorted(S) \in Seq(S) /\ Range(Sorted(S)) = S /\ InOrder(Sorted(S))
<1> DEFINE n == Cardinality(S)
           rank == [k \in S |-> Cardinality(Before(S, k))]
           s == Sorted(S)
<1>1. /\ IsFiniteSet(S) /\ n \in Nat
      /\ \A k \in S : rank[k] \in 0..(n - 1)
      /\ \A j, k \in S : rank[j] = rank[k] => j = k
      /\ \A j, k \in S : Less(j, k) => rank[j] < rank[k]
  BY Ranks
<1>2. s = [i \in 1..n |-> CHOOSE k \in S : rank[k] = i - 1]
  <2>1. s = [i \in 1..n |-> CHOOSE k \in S : Cardinality({j \in S : Less(j, k)}) = i - 1]
    BY DEF Sorted
  <2>2. \A i \in 1..n : (CHOOSE k \in S : Cardinality({j \in S : Less(j, k)}) = i - 1)
                        = CHOOSE k \in S : rank[k] = i - 1
    BY DEF Before
  <2> QED BY <2>1, <2>2
<1> HIDE DEF s, rank, n
<1>3. \A v \in 0..(n - 1) : \E k \in S : rank[k] = v
  <2>0. rank \in [S -> 0..(n - 1)]
    BY <1>1 DEF rank
  <2>1. rank \in Injection(S, 0..(n - 1))
    <3>1. DOMAIN rank = S
      BY <2>0
    <3> QED BY <1>1, <2>0, <3>1 DEF Injection, IsInjective
  <2>2. IsFiniteSet(0..(n - 1)) /\ Cardinality(0..(n - 1)) = n
    BY <1>1, FS_Interval
  <2>3. Cardinality(S) = Cardinality(0..(n - 1))
    BY <2>2 DEF n
  <2>4. rank \in Surjection(S, 0..(n - 1))
    BY <2>1, <2>2, <2>3, FS_Injection
  <2> QED BY <2>4 DEF Surjection
<1>4. ASSUME NEW i \in 1..n PROVE s[i] \in S /\ rank[s[i]] = i - 1
  <2>1. i - 1 \in 0..(n - 1)
    BY <1>1
  <2>2. \E k \in S : rank[k] = i - 1
    BY <1>3, <2>1
  <2> QED BY <1>2, <2>2
<1>5. DOMAIN s = 1..n
  BY <1>2
<1>6. s \in [1..n -> S]
  BY <1>2, <1>4
<1>7. ASSUME NEW k \in S PROVE k \in Range(s)
  <2>1. rank[k] + 1 \in 1..n /\ (rank[k] + 1) - 1 = rank[k]
    BY <1>1
  <2>2. rank[s[rank[k] + 1]] = rank[k] /\ s[rank[k] + 1] \in S
    BY <1>4, <2>1
  <2>3. s[rank[k] + 1] = k
    BY <1>1, <2>2
  <2> QED BY <1>5, <2>1, <2>3 DEF Range
<1>8. Range(s) = S
  <2>1. Range(s) = {s[i] : i \in 1..n}
    BY <1>5 DEF Range
  <2>2. Range(s) \subseteq S
    BY <1>4, <2>1
  <2> QED BY <1>7, <2>2
<1>9. s \in Seq(S)
  BY <1>1, <1>6
<1>10. ASSUME NEW i \in 1..n, NEW j \in 1..n, i < j PROVE Less(s[i], s[j])
  <2>1. s[i] \in S /\ s[j] \in S /\ rank[s[i]] = i - 1 /\ rank[s[j]] = j - 1
    BY <1>4
  <2>2. ~(rank[s[j]] < rank[s[i]]) /\ rank[s[i]] # rank[s[j]]
    BY <1>1, <1>10, <2>1
  <2> QED BY <1>1, <2>1, <2>2, LessOrders
<1>11. InOrder(s)
  <2>1. s \in Seq(Lists)
    BY <1>1, <1>6
  <2>2. \A i \in 1..n : s[i] \in Lists
    BY <1>4
  <2> QED BY <1>5, <1>10, <2>1, <2>2 DEF InOrder, Ascends, LessPairs
<1> QED BY <1>8, <1>9, <1>11 DEF s

Visible(S) == {k \in S : ~Hidden(Chart, k)}

LEMMA VisibleKeysShown ==
    ASSUME NEW S, S \subseteq Lists
    PROVE  InOrder(visibleKeys(S)) /\ Range(visibleKeys(S)) = Visible(S)
<1> DEFINE V == Visible(S)
<1>1. V \subseteq Lists /\ visibleKeys(S) = Sorted(V)
  BY DEF Visible, visibleKeys
<1> HIDE DEF V
<1>2. InOrder(Sorted(V)) /\ Range(Sorted(V)) = V
  BY <1>1, SortedKeeps
<1> QED BY <1>1, <1>2 DEF V

\* The headings are the chart's sections, in order, and the one for the lists
\* no section mentions; every list comes under one of them.
LEMMA HeadingsCover ==
    /\ DOMAIN Headings = 1..Len(Headings) /\ Len(Headings) \in Nat
    /\ Len(Headings) = Len(File.sections) + 1
    /\ \A i \in DOMAIN File.sections : Headings[i] = File.sections[i].key
    /\ Headings[Len(File.sections) + 1] = Unsectioned.key
    /\ \A k : SectionOf(Chart, k).key \in Range(Headings)
<1> DEFINE ss == File.sections
           keys == [i \in DOMAIN ss |-> ss[i].key]
           K == Range(keys)
<1>1. DOMAIN ss = 1..Len(ss) /\ Len(ss) \in Nat /\ Chart.sections = ss
  <2>1. Chart.sections = ss /\ ss \in Seq(Range(ss))
    BY Given, ChartNumbers DEF IsChart
  <2> QED BY <2>1
<1>2. DOMAIN keys = 1..Len(ss) /\ \A i \in DOMAIN ss : keys[i] = ss[i].key
  BY <1>1
<1>3. Headings = Append(keys, Unsectioned.key)
  BY <1>1 DEF Headings
<1> HIDE DEF keys
<1>4. keys \in Seq(K)
  <2>1. keys \in [1..Len(ss) -> K]
    <3>1. keys = [i \in 1..Len(ss) |-> ss[i].key]
      BY <1>1 DEF keys
    <3>2. \A i \in 1..Len(ss) : keys[i] \in K
      BY <1>2 DEF Range
    <3> QED BY <3>1, <3>2
  <2> QED BY <1>1, <2>1
<1> HIDE DEF K
<1>5. Len(keys) = Len(ss)
  BY <1>1, <1>2, <1>4
<1>6. /\ DOMAIN Headings = 1..(Len(ss) + 1) /\ Len(Headings) = Len(ss) + 1
      /\ \A i \in 1..Len(ss) : Headings[i] = keys[i]
      /\ Headings[Len(ss) + 1] = Unsectioned.key
  <2>1. Headings \in Seq(K \cup {Unsectioned.key})
    <3>1. keys \in Seq(K \cup {Unsectioned.key})
      BY <1>4
    <3> HIDE DEF Unsectioned
    <3> QED BY <1>3, <3>1
  <2> QED BY <1>1, <1>3, <1>4, <1>5, <2>1
<1>7. ASSUME NEW k PROVE SectionOf(Chart, k).key \in Range(Headings)
  <2>1. CASE k \in DOMAIN Chart.sectionOf
    <3>1. Chart.sectionOf[k] \in Range(ss)
      BY <2>1, ChartNumbers
    <3>2. PICK i \in DOMAIN ss : Chart.sectionOf[k] = ss[i]
      BY <3>1 DEF Range
    <3>3. SectionOf(Chart, k) = ss[i]
      BY <2>1, <3>2 DEF SectionOf
    <3>4. i \in DOMAIN Headings /\ Headings[i] = ss[i].key
      BY <1>1, <1>2, <1>6
    <3> QED BY <3>3, <3>4 DEF Range
  <2>2. CASE k \notin DOMAIN Chart.sectionOf
    <3>1. SectionOf(Chart, k) = Unsectioned
      BY <2>2 DEF SectionOf
    <3>2. Len(ss) + 1 \in DOMAIN Headings
      BY <1>1, <1>6
    <3> QED BY <1>6, <3>1, <3>2 DEF Range
  <2> QED BY <2>1, <2>2
<1>8. /\ DOMAIN Headings = 1..Len(Headings) /\ Len(Headings) \in Nat
      /\ Len(Headings) = Len(ss) + 1
      /\ \A i \in DOMAIN ss : Headings[i] = ss[i].key
      /\ Headings[Len(ss) + 1] = Unsectioned.key
  BY <1>1, <1>2, <1>6
<1> QED BY <1>7, <1>8

\* A list is in the section whose groups name it, and in no other.
LEMMA SectionsHold ==
    /\ \A i \in DOMAIN File.sections : \A k \in Range(File.sections[i].groups) :
          SectionOf(Chart, k) = File.sections[i]
    /\ \A k : \/ \E i \in DOMAIN File.sections : k \in Range(File.sections[i].groups)
              \/ SectionOf(Chart, k) = Unsectioned /\ k \notin Range(Listed(File))
    /\ \A i, j \in DOMAIN File.sections : File.sections[i].key = File.sections[j].key => i = j
    /\ \A i \in DOMAIN File.sections : File.sections[i].key # Unsectioned.key
    /\ Chart.placed = Listed(File) /\ MeansItsFile(File, Chart)
<1> DEFINE ss == File.sections
           all == Listed(File)
           keys == [i \in DOMAIN ss |-> ss[i].key]
<1>1. IsChart(File) /\ Consistent(File)
  BY Given
<1>2. ~Index(File).error /\ Filed(File, Index(File))
  BY <1>1, IndexResult DEF Filed
<1>3. /\ Chart.placed = all /\ DOMAIN Chart.sectionOf = File.groups
      /\ \A i \in DOMAIN ss : \A k \in Range(ss[i].groups) :
            k \in File.groups /\ Chart.sectionOf[k] = ss[i]
      /\ ~LoadChart(File).error
  BY <1>2 DEF Chart, LoadChart, Filed
<1>4. MeansItsFile(File, Chart)
  BY <1>1, <1>3, ChartMeans DEF Chart
<1>5. Range(all) = File.groups /\ IsInjective(keys)
  BY <1>1 DEF Consistent
<1>6. Range(all) = UNION {Range(ss[i].groups) : i \in DOMAIN ss}
  BY <1>1, ListedElements
<1>7. \A i \in DOMAIN ss : \A k \in Range(ss[i].groups) : SectionOf(Chart, k) = ss[i]
  BY <1>3 DEF SectionOf
<1>8. ASSUME NEW k, \A i \in DOMAIN ss : k \notin Range(ss[i].groups)
      PROVE  SectionOf(Chart, k) = Unsectioned /\ k \notin Range(all)
  <2>1. k \notin Range(all)
    BY <1>6, <1>8
  <2> QED BY <1>3, <1>5, <2>1 DEF SectionOf
<1>9. \A i, j \in DOMAIN ss : ss[i].key = ss[j].key => i = j
  <2>1. DOMAIN keys = DOMAIN ss /\ \A i \in DOMAIN ss : keys[i] = ss[i].key
    OBVIOUS
  <2> HIDE DEF keys
  <2> QED BY <1>5, <2>1 DEF IsInjective
<1>10. \A i \in DOMAIN ss : ss[i].key # Unsectioned.key
  BY SectionsNamed
<1> QED BY <1>3, <1>4, <1>7, <1>8, <1>9, <1>10

\* The chart's numbers follow its sections: what an earlier one holds comes
\* before what a later one does.
LEMMA SectionsAscend ==
    ASSUME NEW a \in DOMAIN File.sections, NEW b \in DOMAIN File.sections, a < b,
           NEW k \in Range(File.sections[a].groups), NEW l \in Range(File.sections[b].groups)
    PROVE  Order(Chart, k) < Order(Chart, l)
<1> DEFINE ss == File.sections
           seqs == [i \in DOMAIN ss |-> ss[i].groups]
           K == UNION {Range(ss[i].groups) : i \in DOMAIN ss}
           R == {x \in K \X K : \E c, d \in DOMAIN ss :
                    c <= d /\ x[1] \in Range(ss[c].groups) /\ x[2] \in Range(ss[d].groups)}
           all == Listed(File)
<1>1. IsChart(File)
  BY Given
<1>2. DOMAIN ss = 1..Len(ss) /\ Len(ss) \in Nat
  BY <1>1 DEF IsChart
<1>3. ASSUME NEW i \in DOMAIN ss PROVE ss[i].groups \in Seq(Range(ss[i].groups))
  <2>1. ss[i] \in Range(ss)
    BY DEF Range
  <2> QED BY <1>1, <2>1 DEF IsChart
<1>4. \A i \in DOMAIN ss : ss[i].groups \in Seq(K)
  BY <1>3
<1> HIDE DEF K
<1>5. seqs \in Seq(Seq(K)) /\ DOMAIN seqs = DOMAIN ss /\ \A i \in DOMAIN ss : seqs[i] = ss[i].groups
  BY <1>2, <1>4
<1> HIDE DEF seqs
<1>6. ASSUME NEW c \in DOMAIN ss, NEW d \in DOMAIN ss, c <= d,
             NEW x \in Range(ss[c].groups), NEW y \in Range(ss[d].groups)
      PROVE  <<x, y>> \in R
  BY <1>6 DEF K
<1> HIDE DEF R
<1>7. \A i \in DOMAIN seqs : Ascends(seqs[i], R)
  <2> SUFFICES ASSUME NEW i \in DOMAIN ss, NEW m \in DOMAIN ss[i].groups, NEW n \in DOMAIN ss[i].groups
               PROVE  <<ss[i].groups[m], ss[i].groups[n]>> \in R
    BY <1>5 DEF Ascends
  <2>1. i <= i
    BY <1>2
  <2>2. ss[i].groups[m] \in Range(ss[i].groups) /\ ss[i].groups[n] \in Range(ss[i].groups)
    BY DEF Range
  <2> QED BY <1>6, <2>1, <2>2
<1>8. \A i, j \in DOMAIN seqs : i < j =>
         \A x \in Range(seqs[i]), y \in Range(seqs[j]) : <<x, y>> \in R
  <2>1. \A i, j \in DOMAIN ss : i < j => i <= j
    BY <1>2
  <2> QED BY <1>5, <1>6, <2>1
<1>9. Ascends(all, R)
  <2>1. Ascends(FlattenSeq(seqs), R)
    BY <1>5, <1>7, <1>8, FlattenAscends
  <2> QED BY <2>1 DEF Listed, seqs
<1>10. k \in Range(all) /\ l \in Range(all)
  <2>1. Range(all) = K
    BY <1>1, ListedElements DEF K
  <2> QED BY <2>1 DEF K
<1>11. PICK i \in DOMAIN all, j \in DOMAIN all : all[i] = k /\ all[j] = l
  BY <1>10 DEF Range
<1>12. Order(Chart, k) = i - 1 /\ Order(Chart, l) = j - 1
  BY <1>11, SectionsHold DEF MeansItsFile
<1>13. \A c \in DOMAIN ss : \A x \in Range(ss[c].groups) :
          (x = k => c = a) /\ (x = l => c = b)
  <2>1. SectionOf(Chart, k) = ss[a] /\ SectionOf(Chart, l) = ss[b]
    BY SectionsHold
  <2> QED BY <2>1, SectionsHold
<1>14. k # l
  BY <1>2, <1>13
<1>15. <<l, k>> \notin R
  <2> SUFFICES ASSUME <<l, k>> \in R PROVE FALSE
    OBVIOUS
  <2>1. PICK c \in DOMAIN ss, d \in DOMAIN ss :
            c <= d /\ l \in Range(ss[c].groups) /\ k \in Range(ss[d].groups)
    BY DEF R
  <2>2. c = b /\ d = a
    BY <1>13, <2>1
  <2> QED BY <1>2, <2>1, <2>2
<1>16. i \in Nat /\ j \in Nat
  <2>1. all \in Seq(Range(all))
    BY <1>1, ListedElements
  <2> HIDE DEF all
  <2> QED BY <2>1
<1>17. ~(j < i)
  BY <1>9, <1>11, <1>15 DEF Ascends
<1>18. i # j
  BY <1>11, <1>14
<1> QED BY <1>12, <1>16, <1>17, <1>18

LEMMA HeadingsAscend ==
    ASSUME NEW a \in DOMAIN Headings, NEW b \in DOMAIN Headings, a < b,
           NEW k \in Lists, SectionOf(Chart, k).key = Headings[a],
           NEW l \in Lists, SectionOf(Chart, l).key = Headings[b]
    PROVE  Less(k, l)
<1> DEFINE ss == File.sections
           n == Len(ss)
           all == Listed(File)
<1>1. /\ DOMAIN Headings = 1..(n + 1) /\ Headings[n + 1] = Unsectioned.key
      /\ \A i \in DOMAIN ss : Headings[i] = ss[i].key
  BY HeadingsCover
<1>2. DOMAIN ss = 1..n /\ n \in Nat
  BY Given DEF IsChart
<1>3. \A i \in DOMAIN ss : \A x : SectionOf(Chart, x).key = ss[i].key => x \in Range(ss[i].groups)
  <2> SUFFICES ASSUME NEW i \in DOMAIN ss, NEW x, SectionOf(Chart, x).key = ss[i].key
               PROVE  x \in Range(ss[i].groups)
    OBVIOUS
  <2>1. SectionOf(Chart, x) # Unsectioned
    BY SectionsHold
  <2>2. PICK j \in DOMAIN ss : x \in Range(ss[j].groups)
    BY <2>1, SectionsHold
  <2>3. SectionOf(Chart, x) = ss[j]
    BY <2>2, SectionsHold
  <2> QED BY <2>2, <2>3, SectionsHold
<1>4. a \in DOMAIN ss /\ k \in Range(ss[a].groups)
  <2>1. a \in DOMAIN ss
    BY <1>1, <1>2
  <2> QED BY <1>1, <1>3, <2>1
<1>5. CASE b \in DOMAIN ss
  <2>1. l \in Range(ss[b].groups)
    BY <1>1, <1>3, <1>5
  <2> QED BY <1>4, <1>5, <2>1, SectionsAscend DEF Less
<1>6. CASE b \notin DOMAIN ss
  <2>1. SectionOf(Chart, l).key = Unsectioned.key
    <3>1. b = n + 1
      BY <1>1, <1>2, <1>6
    <3> QED BY <1>1, <3>1
  <2>2. \A i \in DOMAIN ss : l \notin Range(ss[i].groups)
    BY <2>1, SectionsHold
  <2>3. l \notin Range(all)
    BY <2>2, SectionsHold
  <2>4. Chart.placed = all
    BY SectionsHold
  <2>5. Order(Chart, l) = unlistedOrder
    BY <2>3, <2>4 DEF Order, Range
  <2>6. k \in Range(all)
    <3>1. Range(all) = UNION {Range(ss[i].groups) : i \in DOMAIN ss}
      BY Given, ListedElements
    <3> QED BY <1>4, <3>1
  <2>7. PICK i \in DOMAIN all : all[i] = k
    BY <2>6 DEF Range
  <2>8. Order(Chart, k) = i - 1
    BY <2>7, SectionsHold DEF MeansItsFile
  <2>9. Len(all) <= unlistedOrder
    BY ReportsAssumption, Zenon
  <2>10. i \in 1..Len(all) /\ Len(all) \in Nat
    <3>1. all \in Seq(Range(all))
      BY Given, ListedElements
    <3> HIDE DEF all
    <3> QED BY <3>1
  <2>11. Order(Chart, k) < Order(Chart, l)
    BY <2>5, <2>8, <2>9, <2>10 DEF unlistedOrder
  <2> QED BY <2>11 DEF Less
<1> QED BY <1>5, <1>6

Sections == Seq([key : Range(Headings), items : Seq(Lists)])
Items(sections) == FlattenSeq([i \in DOMAIN sections |-> sections[i].items])

\* The sections a member is shown hold the lists that are not hidden, each of
\* them, in order.
LEMMA SectionedKeeps ==
    ASSUME NEW S, S \subseteq Lists
    PROVE  /\ sectioned(S) \in Sections /\ Range(Items(sectioned(S))) = Visible(S)
           /\ InOrder(Items(sectioned(S)))
<1> DEFINE H == Headings
           Of(h) == {k \in S : SectionOf(Chart, k).key = h /\ ~Hidden(Chart, k)}
           K == [key : Range(H), items : Seq(Lists)]
           Shown(h) == IF Bucket(S, h) = <<>> THEN <<>>
                       ELSE <<[key |-> h, items |-> Bucket(S, h)]>>
           shown == [i \in DOMAIN H |-> Shown(H[i])]
           result == FlattenSeq(shown)
<1>1. DOMAIN H = 1..Len(H) /\ Len(H) \in Nat /\ \A i \in DOMAIN H : H[i] \in Range(H)
  BY HeadingsCover DEF Range
<1>2. sectioned(S) = result
  BY DEF sectioned
<1>3. ASSUME NEW h
      PROVE  /\ Bucket(S, h) \in Seq(Lists) /\ Range(Bucket(S, h)) = Of(h)
             /\ Ascends(Bucket(S, h), LessPairs)
  <2>1. Of(h) \subseteq Lists /\ Bucket(S, h) = Sorted(Of(h))
    BY DEF Bucket
  <2> HIDE DEF Of
  <2>2. InOrder(Sorted(Of(h))) /\ Range(Sorted(Of(h))) = Of(h)
    BY <2>1, SortedKeeps
  <2> QED BY <2>1, <2>2 DEF InOrder
<1> HIDE DEF H, Of
<1>4. ASSUME NEW h \in Range(H)
      PROVE  /\ Shown(h) \in Seq(K)
             /\ Range(Shown(h)) = {s \in {[key |-> h, items |-> Bucket(S, h)]} : Bucket(S, h) # <<>>}
             /\ DOMAIN Shown(h) \subseteq {1}
  <2>1. CASE Bucket(S, h) = <<>>
    <3>1. Shown(h) = <<>>
      BY <2>1
    <3> HIDE DEF K
    <3> QED BY <2>1, <3>1 DEF Range
  <2>2. CASE Bucket(S, h) # <<>>
    <3> DEFINE s == [key |-> h, items |-> Bucket(S, h)]
    <3>1. Shown(h) = <<s>> /\ s \in K
      BY <1>3, <2>2
    <3> HIDE DEF K, s
    <3>2. <<s>> \in Seq(K) /\ DOMAIN <<s>> = {1} /\ <<s>>[1] = s
      BY <3>1
    <3>3. Range(<<s>>) = {s}
      BY <3>2 DEF Range
    <3> HIDE DEF Shown
    <3> QED BY <2>2, <3>1, <3>2, <3>3 DEF s
  <2> QED BY <2>1, <2>2
<1> HIDE DEF Shown
<1>5. shown \in Seq(Seq(K)) /\ DOMAIN shown = DOMAIN H /\ \A i \in DOMAIN H : shown[i] = Shown(H[i])
  <2> HIDE DEF K
  <2>1. \A i \in DOMAIN H : Shown(H[i]) \in Seq(K)
    BY <1>1, <1>4
  <2> QED BY <1>1, <2>1
<1> HIDE DEF shown
<1>6. result \in Seq(K) /\ Range(result) = UNION {Range(shown[i]) : i \in DOMAIN shown}
  <2> HIDE DEF K
  <2> QED BY <1>5, FlattenRange
<1> HIDE DEF result
<1> DEFINE items == [i \in DOMAIN result |-> result[i].items]
<1>7. items \in Seq(Seq(Lists)) /\ DOMAIN items = DOMAIN result
      /\ \A i \in DOMAIN result : items[i] = result[i].items /\ result[i] \in Range(result)
  <2>1. DOMAIN result = 1..Len(result) /\ Len(result) \in Nat
    <3> HIDE DEF K
    <3> QED BY <1>6
  <2>2. \A i \in DOMAIN result : result[i] \in K
    <3> HIDE DEF K
    <3> QED BY <1>6, <2>1
  <2>3. \A i \in DOMAIN result : result[i].items \in Seq(Lists)
    BY <2>2
  <2>4. items \in Seq(Seq(Lists))
    BY <2>1, <2>3
  <2> QED BY <2>4 DEF Range
<1>8. Items(result) = FlattenSeq(items)
  BY DEF Items
<1> HIDE DEF items
<1>9. Range(FlattenSeq(items)) = UNION {Range(items[i]) : i \in DOMAIN items}
  BY <1>7, FlattenRange
<1>10. ASSUME NEW k \in Visible(S) PROVE k \in Range(FlattenSeq(items))
  <2> DEFINE h == SectionOf(Chart, k).key
  <2>1. h \in Range(H) /\ k \in Of(h)
    BY HeadingsCover DEF Visible, H, Of
  <2> HIDE DEF h
  <2>2. k \in Range(Bucket(S, h))
    BY <1>3, <2>1
  <2>3. Bucket(S, h) # <<>>
    BY <2>2 DEF Range
  <2> DEFINE s == [key |-> h, items |-> Bucket(S, h)]
  <2>4. s \in Range(Shown(h)) /\ s.items = Bucket(S, h)
    BY <1>4, <2>1, <2>3
  <2> HIDE DEF s
  <2>5. PICK j \in DOMAIN H : H[j] = h
    BY <2>1 DEF Range
  <2>6. s \in Range(result)
    BY <1>5, <1>6, <2>4, <2>5
  <2>7. PICK i \in DOMAIN result : result[i] = s
    BY <2>6 DEF Range
  <2>8. items[i] = Bucket(S, h)
    BY <1>7, <2>4, <2>7
  <2> QED BY <1>7, <1>9, <2>2, <2>7, <2>8
<1>11. ASSUME NEW k \in Range(FlattenSeq(items)) PROVE k \in Visible(S)
  <2>1. PICK i \in DOMAIN result : k \in Range(result[i].items)
    BY <1>7, <1>9
  <2>2. PICK j \in DOMAIN H : result[i] \in Range(Shown(H[j]))
    BY <1>5, <1>6, <1>7
  <2>3. result[i].items = Bucket(S, H[j])
    BY <1>1, <1>4, <2>2
  <2>4. k \in Of(H[j])
    BY <1>3, <2>1, <2>3
  <2> QED BY <2>4 DEF Of, Visible
<1>12. sectioned(S) \in Sections
  BY <1>2, <1>6 DEF Sections, H, K
<1> DEFINE R == {x \in K \X K : \A y \in Range(x[1].items), z \in Range(x[2].items) : Less(y, z)}
<1>13. Ascends(result, R)
  <2>1. ASSUME NEW i \in DOMAIN shown, NEW j \in DOMAIN shown, i < j,
               NEW x \in Range(shown[i]), NEW y \in Range(shown[j])
        PROVE  <<x, y>> \in R
    <3>1. H[i] \in Range(H) /\ H[j] \in Range(H) /\ shown[i] = Shown(H[i]) /\ shown[j] = Shown(H[j])
      BY <1>1, <1>5
    <3>2. x.items = Bucket(S, H[i]) /\ y.items = Bucket(S, H[j])
      BY <1>4, <2>1, <3>1
    <3>3. x \in K /\ y \in K
      <4>1. shown[i] \in Seq(K) /\ shown[j] \in Seq(K)
        BY <1>4, <3>1
      <4> HIDE DEF K
      <4> QED BY <2>1, <4>1 DEF Range
    <3>4. \A k \in Of(H[i]), l \in Of(H[j]) : Less(k, l)
      <4> SUFFICES ASSUME NEW k \in Of(H[i]), NEW l \in Of(H[j]) PROVE Less(k, l)
        OBVIOUS
      <4>1. k \in Lists /\ l \in Lists /\ SectionOf(Chart, k).key = H[i] /\ SectionOf(Chart, l).key = H[j]
        BY DEF Of
      <4>2. i \in DOMAIN H /\ j \in DOMAIN H
        BY <1>5
      <4> QED BY <2>1, <4>1, <4>2, HeadingsAscend DEF H
    <3>5. \A k \in Range(x.items), l \in Range(y.items) : Less(k, l)
      BY <1>3, <3>2, <3>4
    <3> HIDE DEF K
    <3> QED BY <3>3, <3>5
  <2> HIDE DEF K, R
  <2>2. ASSUME NEW i \in DOMAIN shown PROVE Ascends(shown[i], R)
    <3>1. DOMAIN shown[i] \subseteq {1}
      BY <1>1, <1>4, <1>5
    <3>2. \A m, n \in DOMAIN shown[i] : ~(m < n)
      BY <3>1
    <3> QED BY <3>2 DEF Ascends
  <2> QED BY <1>5, <2>1, <2>2, FlattenAscends DEF result
<1>14. Ascends(FlattenSeq(items), LessPairs)
  <2>1. ASSUME NEW i \in DOMAIN items PROVE Ascends(items[i], LessPairs)
    <3>1. PICK j \in DOMAIN H : result[i] \in Range(Shown(H[j]))
      BY <1>5, <1>6, <1>7
    <3>2. result[i].items = Bucket(S, H[j])
      BY <1>1, <1>4, <3>1
    <3> QED BY <1>3, <1>7, <3>2
  <2>2. ASSUME NEW i \in DOMAIN items, NEW j \in DOMAIN items, i < j,
               NEW x \in Range(items[i]), NEW y \in Range(items[j])
        PROVE  <<x, y>> \in LessPairs
    <3>1. <<result[i], result[j]>> \in R
      <4> HIDE DEF R
      <4> QED BY <1>7, <1>13, <2>2 DEF Ascends
    <3>2. items[i] = result[i].items /\ items[j] = result[j].items
      BY <1>7
    <3>3. Less(x, y)
      <4>1. \A u \in Range(result[i].items), v \in Range(result[j].items) : Less(u, v)
        <5> HIDE DEF K
        <5> QED BY <3>1
      <4> QED BY <2>2, <3>2, <4>1
    <3>4. x \in Lists /\ y \in Lists
      <4>1. items[i] \in Seq(Lists) /\ items[j] \in Seq(Lists)
        BY <1>7
      <4> QED BY <2>2, <4>1 DEF Range
    <3> QED BY <3>3, <3>4 DEF LessPairs
  <2> QED BY <1>7, <2>1, <2>2, FlattenAscends
<1>15. FlattenSeq(items) \in Seq(Lists)
  BY <1>7, FlattenRange
<1>16. InOrder(Items(sectioned(S)))
  BY <1>2, <1>8, <1>14, <1>15 DEF InOrder
<1> QED BY <1>2, <1>8, <1>10, <1>11, <1>12, <1>16

------------------------------------------------------------------------------
(* What a request may have found out.  O, L and T stand for on, lists and    *)
(* what has been touched since it began.                                     *)

Has(O, L, l, p) == l \in L /\ O[l][p] # NotOn

SaysLists(O, L, T, p, keys) ==
    /\ InOrder(keys)
    /\ \A l \in Lists : <<l, p>> \notin T =>
          (l \in Range(keys) <=> Has(O, L, l, p) /\ ~Hidden(Chart, l))

SaysDirect(O, L, T, p, direct) ==
    \A l \in Lists : <<l, p>> \notin T => (<<Plain(p), l>> \in direct <=> Has(O, L, l, p))

Plains == {Plain(p) : p \in Persons}

SaysPeople(O, L, T, people) ==
    /\ people \subseteq Plains
    /\ \A p \in Persons : <<Login, p>> \notin T =>
          (Plain(p) \in people <=> Has(O, L, Login, p))

SaysMembers(O, L, T, l, people) ==
    \A m \in Members : <<l, m>> \notin T => (Address(l, m) \in people <=> Has(O, L, l, m))

SaysRole(O, T, p, role) ==
    <<Login, p>> \notin T =>
        (role = "admin" <=> /\ usableMemberStatus(O[Login][p].status)
                            /\ localRoleFor(O[Login][p].role) = "admin")

SaysLeader(O, L, T, p, leader) ==
    (\A l \in LeadershipGroups(Chart) \cap Lists : <<l, p>> \notin T) =>
        (leader <=> \E l \in LeadershipGroups(Chart) : Has(O, L, l, p))

SaysExist(L, T, keys) ==
    \A l \in Lists : <<l, "exists">> \notin T => (l \in Range(keys) <=> l \in L)

\* An index under construction: what it holds is so, and what it misses is
\* still to be read, or the index is going to fail.
SaysSoFar(O, L, T, q) ==
    \A p \in Persons, l \in Lists : <<l, p>> \notin T =>
        /\ <<Plain(p), l>> \in q.direct => Has(O, L, l, p)
        /\ Has(O, L, l, p) => l \in q.todo \/ q.broken \/ <<Plain(p), l>> \in q.direct

Asked(q) ==
    /\ q.pc = "idle" => q.kind = ""
    /\ q.pc = "groups" => q.kind \in {"roster", "groups"} /\ q.direct = {}
    /\ q.pc = "own" => q.kind \in {"me", "mine"}
    /\ q.pc \in {"lists", "login", "roles"} => q.kind = "roster"
    /\ q.pc = "members" => q.kind = "members"
    /\ q.pc = "profiles" => q.kind \in {"roster", "members"}
    /\ q.kind \in {"me", "mine"} => q.subject \in Persons
    /\ q.kind = "members" => q.subject \in Lists

Indexing(O, L, T, q) ==
    /\ q.pc = "lists" => SaysSoFar(O, L, T, q)
    /\ q.pc = "login" => \A p \in Persons : SaysDirect(O, L, T, p, q.direct)
    /\ q.pc \in {"profiles", "roles"} /\ q.kind = "roster" =>
          /\ SaysPeople(O, L, T, q.people)
          /\ \A p \in Persons : Plain(p) \in q.people => SaysDirect(O, L, T, p, q.direct)
    /\ q.pc = "profiles" /\ q.kind = "members" => SaysMembers(O, L, T, q.subject, q.people)

Answering(O, L, T, q) ==
    /\ q.kind = "roster" =>
          /\ SaysPeople(O, L, T, DOMAIN q.entries)
          /\ \A p \in Persons : Plain(p) \in DOMAIN q.entries =>
                /\ SaysLists(O, L, T, p, q.entries[Plain(p)].groups)
                /\ SaysRole(O, T, p, q.entries[Plain(p)].role)
    /\ q.kind = "me" /\ q.known => SaysLists(O, L, T, q.subject, q.keys)
    /\ q.kind = "mine" /\ q.known =>
          /\ SaysLists(O, L, T, q.subject, Items(q.sections))
          /\ SaysLeader(O, L, T, q.subject, q.leader)
    /\ q.kind = "mine" => q.known
    /\ q.kind = "members" => SaysMembers(O, L, T, q.subject, DOMAIN q.entries)
    /\ q.kind = "groups" => SaysExist(L, T, q.keys)

Truthful(O, L, T, q) ==
    Asked(q) /\ Indexing(O, L, T, q) /\ (q.pc = "done" => Answering(O, L, T, q))

\* From one state to the next, what is not touched stays.
Frame(O, L, T, O2, L2, T2) ==
    \A l \in Lists, x \in Members \cup {"exists"} : <<l, x>> \notin T2 =>
        /\ <<l, x>> \notin T /\ (l \in L2 <=> l \in L)
        /\ x \in Members => O2[l][x] = O[l][x]

LEMMA HasKept ==
    ASSUME NEW O, NEW L, NEW T, NEW O2, NEW L2, NEW T2, Frame(O, L, T, O2, L2, T2),
           NEW l \in Lists, NEW p \in Members, <<l, p>> \notin T2
    PROVE  /\ <<l, p>> \notin T /\ O2[l][p] = O[l][p]
           /\ Has(O2, L2, l, p) <=> Has(O, L, l, p)
BY DEF Frame, Has

\* What was found out stays so, as far as it is not touched.
LEMMA TruthKept ==
    ASSUME NEW O, NEW L \in SUBSET Lists, NEW T, NEW O2, NEW L2 \in SUBSET Lists, NEW T2,
           Frame(O, L, T, O2, L2, T2), NEW q, Truthful(O, L, T, q)
    PROVE  Truthful(O2, L2, T2, q)
<1>1. Persons \subseteq Members /\ Login \in Lists
  BY ReportsAssumption, Zenon DEF Members
<1>2. ASSUME NEW p \in Persons, NEW keys, SaysLists(O, L, T, p, keys)
      PROVE  SaysLists(O2, L2, T2, p, keys)
  BY <1>1, <1>2, HasKept DEF SaysLists
<1>3. ASSUME NEW p \in Persons, NEW direct, SaysDirect(O, L, T, p, direct)
      PROVE  SaysDirect(O2, L2, T2, p, direct)
  BY <1>1, <1>3, HasKept DEF SaysDirect
<1>4. ASSUME NEW people, SaysPeople(O, L, T, people) PROVE SaysPeople(O2, L2, T2, people)
  BY <1>1, <1>4, HasKept DEF SaysPeople
<1>5. ASSUME NEW l \in Lists, NEW people, SaysMembers(O, L, T, l, people)
      PROVE  SaysMembers(O2, L2, T2, l, people)
  BY <1>1, <1>5, HasKept DEF SaysMembers
<1>6. ASSUME NEW p \in Persons, NEW role, SaysRole(O, T, p, role) PROVE SaysRole(O2, T2, p, role)
  BY <1>1, <1>6, HasKept DEF SaysRole
<1>7. ASSUME NEW p \in Persons, NEW leader, SaysLeader(O, L, T, p, leader)
      PROVE  SaysLeader(O2, L2, T2, p, leader)
  <2> DEFINE officers == LeadershipGroups(Chart)
  <2> SUFFICES ASSUME \A l \in officers \cap Lists : <<l, p>> \notin T2
               PROVE  leader <=> \E l \in officers : Has(O2, L2, l, p)
    BY DEF SaysLeader
  <2> HIDE DEF officers
  <2>1. p \in Members
    BY <1>1
  <2>2. ASSUME NEW l \in officers \cap Lists
        PROVE  <<l, p>> \notin T /\ (Has(O2, L2, l, p) <=> Has(O, L, l, p))
    BY <2>1, HasKept
  <2>3. leader <=> \E l \in officers : Has(O, L, l, p)
    BY <1>7, <2>2 DEF SaysLeader, officers
  <2>4. \A l : Has(O, L, l, p) \/ Has(O2, L2, l, p) => l \in Lists
    BY DEF Has
  <2> QED BY <2>2, <2>3, <2>4
<1>8. ASSUME NEW keys, SaysExist(L, T, keys) PROVE SaysExist(L2, T2, keys)
  BY <1>8 DEF SaysExist, Frame
<1>9. ASSUME SaysSoFar(O, L, T, q) PROVE SaysSoFar(O2, L2, T2, q)
  BY <1>1, <1>9, HasKept DEF SaysSoFar
<1>10. Asked(q)
  BY DEF Truthful
<1>11. Indexing(O2, L2, T2, q)
  BY <1>3, <1>4, <1>5, <1>9, <1>10 DEF Truthful, Indexing, Asked
<1>12. ASSUME q.pc = "done" PROVE Answering(O2, L2, T2, q)
  <2>1. Answering(O, L, T, q)
    BY <1>12 DEF Truthful
  <2> QED BY <1>2, <1>4, <1>5, <1>6, <1>7, <1>8, <1>10, <2>1 DEF Answering, Asked
<1> QED BY <1>10, <1>11, <1>12 DEF Truthful

------------------------------------------------------------------------------
(* What one read tells. *)

Content == [Members -> Membership \cup {NotOn}]
Addresses == [who : Members, mixed : BOOLEAN]

\* A list's members, as far as they are not touched.
Faithful(O, T, l, content) ==
    content \in Content /\ \A m \in Members : <<l, m>> \notin T => content[m] = O[l][m]

\* Nobody is on a list that does not exist.
Existing(O, L) == \A l \in Lists \ L : \A m \in Members : O[l][m] = NotOn

LEMMA Names == /\ Persons \subseteq Members /\ Login \in Lists /\ Registered \subseteq Persons
               /\ "exists" \in Members \cup {"exists"}
BY ReportsAssumption, Zenon DEF Members

LEMMA PlainIs ==
    /\ \A l, m : Lower(Address(l, m)) = Plain(m) /\ Address(l, m).who = m
    /\ \A l : \A m \in Members : Address(l, m) \in Addresses
    /\ \A p, q : Plain(p) = Plain(q) => p = q
    /\ \A p : Plain(p).who = p /\ ~Plain(p).mixed
    /\ Plains \subseteq Addresses
<1>1. ASSUME NEW l, NEW m PROVE Lower(Address(l, m)) = Plain(m) /\ Address(l, m).who = m
  <2> DEFINE a == Address(l, m)
             b == <<l, m>> \in MixedCase
  <2>1. a = [who |-> m, mixed |-> b]
    BY DEF Address
  <2> HIDE DEF b, a
  <2>2. a.who = m /\ DOMAIN a = {"who", "mixed"}
    BY <2>1
  <2> DEFINE no == FALSE
  <2>3. Lower(a) = [a EXCEPT !.mixed = no] /\ Plain(m) = [who |-> m, mixed |-> no]
    BY DEF Lower, Plain
  <2> HIDE DEF no
  <2>4. [a EXCEPT !.mixed = no] = [who |-> m, mixed |-> no]
    BY <2>1
  <2> QED BY <2>2, <2>3, <2>4 DEF a
<1>2. \A l : \A m \in Members : Address(l, m) \in Addresses
  BY DEF Address, Addresses
<1>3. \A p, q : Plain(p) = Plain(q) => p = q
  BY DEF Plain
<1>4. Plains \subseteq Addresses
  <2>1. ASSUME NEW p \in Persons PROVE Plain(p) \in Addresses
    <3>1. p \in Members
      BY Names
    <3> QED BY <3>1 DEF Plain, Addresses
  <2> QED BY <2>1 DEF Plains
<1>5. \A p : Plain(p).who = p /\ ~Plain(p).mixed
  BY DEF Plain
<1> QED BY <1>1, <1>2, <1>3, <1>4, <1>5

LEMMA UsersOnIs ==
    ASSUME NEW l, NEW content
    PROVE  UsersOn(l, content) = {Plain(m) : m \in {n \in Persons : content[n] # NotOn}}
<1>1. {n \in On(content) : IsUser(n)} = {n \in Persons : content[n] # NotOn}
  BY Names DEF On, IsUser
<1>2. UsersOn(l, content) = {Lower(Address(l, m)) : m \in {n \in On(content) : IsUser(n)}}
  BY DEF UsersOn
<1> QED BY <1>1, <1>2, PlainIs

LEMMA UsersOnSays ==
    ASSUME NEW O, NEW L, NEW T, Existing(O, L), NEW l \in Lists, NEW content,
           Faithful(O, T, l, content)
    PROVE  /\ UsersOn(l, content) \subseteq Plains
           /\ \A p \in Persons : <<l, p>> \notin T =>
                 (Plain(p) \in UsersOn(l, content) <=> Has(O, L, l, p))
<1>1. UsersOn(l, content) \subseteq Plains
  BY UsersOnIs DEF Plains
<1>2. ASSUME NEW p \in Persons, <<l, p>> \notin T
      PROVE  Plain(p) \in UsersOn(l, content) <=> Has(O, L, l, p)
  <2>1. p \in Members /\ content[p] = O[l][p]
    BY <1>2, Names DEF Faithful
  <2>2. Plain(p) \in UsersOn(l, content) <=> content[p] # NotOn
    BY UsersOnIs, PlainIs
  <2> QED BY <2>1, <2>2 DEF Has, Existing
<1> QED BY <1>1, <1>2

LEMMA MembersSay ==
    ASSUME NEW O, NEW L, NEW T, Existing(O, L), NEW l \in Lists, NEW content,
           Faithful(O, T, l, content)
    PROVE  /\ {Address(l, m) : m \in On(content)} \subseteq Addresses
           /\ SaysMembers(O, L, T, l, {Address(l, m) : m \in On(content)})
<1>1. {Address(l, m) : m \in On(content)} \subseteq Addresses
  BY PlainIs DEF On
<1>2. ASSUME NEW m \in Members, <<l, m>> \notin T
      PROVE  Address(l, m) \in {Address(l, n) : n \in On(content)} <=> Has(O, L, l, m)
  <2>1. content[m] = O[l][m]
    BY <1>2 DEF Faithful
  <2>2. Address(l, m) \in {Address(l, n) : n \in On(content)} <=> m \in On(content)
    BY PlainIs
  <2> QED BY <2>1, <2>2 DEF On, Has, Existing
<1> QED BY <1>1, <1>2 DEF SaysMembers

LEMMA RolesSay ==
    ASSUME NEW O, NEW T, NEW content, Faithful(O, T, Login, content), NEW p \in Persons
    PROVE  SaysRole(O, T, p, IF <<Plain(p), "admin">> \in LocalRoles(content)
                             THEN "admin" ELSE "member")
<1> SUFFICES ASSUME <<Login, p>> \notin T
             PROVE  <<Plain(p), "admin">> \in LocalRoles(content) <=>
                       /\ usableMemberStatus(O[Login][p].status)
                       /\ localRoleFor(O[Login][p].role) = "admin"
  BY DEF SaysRole
<1>1. p \in Members /\ content[p] = O[Login][p]
  BY Names DEF Faithful
<1>2. LocalRoles(content) =
        {<<Plain(m), localRoleFor(content[m].role)>> :
            m \in {n \in On(content) : usableMemberStatus(content[n].status)}}
  BY PlainIs DEF LocalRoles
<1>3. <<Plain(p), "admin">> \in LocalRoles(content) <=>
        /\ p \in On(content) /\ usableMemberStatus(content[p].status)
        /\ localRoleFor(content[p].role) = "admin"
  <2> DEFINE able == {n \in On(content) : usableMemberStatus(content[n].status)}
             role(m) == localRoleFor(content[m].role)
             admin == "admin"
  <2>1. LocalRoles(content) = {<<Plain(m), role(m)>> : m \in able}
    BY <1>2
  <2>2. p \in able <=> p \in On(content) /\ usableMemberStatus(content[p].status)
    OBVIOUS
  <2> HIDE DEF able, role, admin
  <2>3. <<Plain(p), admin>> \in LocalRoles(content) <=> p \in able /\ role(p) = admin
    BY <2>1, PlainIs
  <2> QED BY <2>2, <2>3 DEF role, admin
<1>4. content[p] = NotOn => localRoleFor(content[p].role) # "admin"
  <2>1. NotOn.role = ""
    BY DEF NotOn
  <2>2. localRoleFor("") = "member"
    BY DEF localRoleFor
  <2> QED BY <2>1, <2>2
<1>5. p \in On(content) <=> content[p] # NotOn
  BY <1>1 DEF On
<1> QED BY <1>1, <1>3, <1>4, <1>5

------------------------------------------------------------------------------
(* Types. *)

EntryType == [role : {"", "member", "admin"}, groups : Seq(Lists), profile : BOOLEAN]

Phases == {"idle", "groups", "own", "members", "lists", "login", "profiles", "roles", "done",
           "failed"}

Queries ==
    [kind : Kinds \cup {""}, pc : Phases, subject : Persons \cup Lists \cup {""},
     todo : SUBSET Lists, broken : BOOLEAN, direct : SUBSET (Plains \X Lists),
     people : SUBSET Addresses, profiles : SUBSET Addresses,
     entries : Placing(Addresses, EntryType), keys : Seq(Lists), sections : Sections,
     leader : BOOLEAN, known : BOOLEAN]

Touchable == Lists \X (Members \cup {"exists"})

WorldInv ==
    /\ on \in [Lists -> Content] /\ lists \subseteq Lists /\ Login \in lists
    /\ Existing(on, lists)
    /\ changes \in 0..MaxChanges /\ touched \in [Requests -> SUBSET Touchable]

CacheTypes(M, G) ==
    /\ DOMAIN M \subseteq Lists /\ \A l \in DOMAIN M : M[l] \in Content
    /\ G = {} \/ \E g \in SUBSET Lists : G = {g}

ReqInv ==
    /\ req \in [Requests -> Queries]
    /\ \A r \in Requests : Truthful(on, lists, touched[r], req[r])

\* Caches hold nothing else than what is so, as far as it is not touched.
Honest(O, L, T, M, G) ==
    /\ \A l \in DOMAIN M : Faithful(O, T, l, M[l])
    /\ \A g \in G : \A l \in Lists, x \in Members \cup {"exists"} :
          <<l, x>> \notin T => (l \in g <=> l \in L)

CacheInv ==
    /\ CacheTypes(memberCache, groupCache)
    /\ \A r \in Requests : req[r].pc # "idle" =>
          Honest(on, lists, touched[r], memberCache, groupCache)

Inv == WorldInv /\ CacheInv /\ ReqInv

LEMMA NothingSaid ==
    /\ NoRequest \in Queries
    /\ NoRequest.kind = "" /\ NoRequest.pc = "idle" /\ NoRequest.direct = {}
    /\ ~NoRequest.known /\ NoRequest.todo = {} /\ DOMAIN NoRequest.entries = {}
    /\ DOMAIN NoRequest = {"kind", "pc", "subject", "todo", "broken", "direct", "people",
                           "profiles", "entries", "keys", "sections", "leader", "known"}
<1>1. Nobody \in Placing(Addresses, EntryType) /\ DOMAIN Nobody = {}
  <2>1. Nobody \in [{} -> EntryType] /\ DOMAIN Nobody = {}
    BY DEF Nobody
  <2> QED BY <2>1 DEF Placing
<1>2. <<>> \in Seq(Lists) /\ <<>> \in Sections
  BY DEF Sections
<1> HIDE DEF Nobody
<1>3. "" \in Kinds \cup {""} /\ "idle" \in Phases /\ "" \in Persons \cup Lists \cup {""}
  BY DEF Phases
<1> QED BY <1>1, <1>2, <1>3 DEF NoRequest, Queries

\* A request's step: it leaves the others alone, and knows only what is so.
Moved(r) ==
    /\ req' \in [Requests -> Queries]
    /\ \A s \in Requests \ {r} : req'[s] = req[s]
    /\ req[r].pc # "idle" /\ req'[r].pc # "idle"
    /\ Truthful(on, lists, touched[r], req'[r])

LEMMA MovesTo ==
    ASSUME NEW r \in Requests, NEW next \in Queries, ReqInv, req' = [req EXCEPT ![r] = next],
           req[r].pc # "idle", next.pc # "idle", Truthful(on, lists, touched[r], next)
    PROVE  Moved(r)
BY DEF ReqInv, Moved

\* A read of a member list, cached or not.
LEMMA ReadSays ==
    ASSUME WorldInv, CacheInv, NEW r \in Requests, req[r].pc # "idle", NEW l \in Lists,
           NEW content, content = IF l \in DOMAIN memberCache THEN memberCache[l] ELSE on[l]
    PROVE  Faithful(on, touched[r], l, content)
<1>1. CASE l \in DOMAIN memberCache
  BY <1>1 DEF CacheInv, Honest
<1>2. CASE l \notin DOMAIN memberCache
  BY <1>2 DEF WorldInv, Faithful
<1> QED BY <1>1, <1>2

LEMMA DirectIndexMoves ==
    ASSUME Inv, NEW r \in Requests, DirectIndex(r)
    PROVE  Moved(r)
<1> DEFINE q == req[r]
<1>1. PICK answer \in SUBSET Lists :
          ListGroups(answer) /\ req' = [req EXCEPT ![r].pc = "lists", ![r].todo = answer]
  BY DEF DirectIndex
<1> DEFINE next == [q EXCEPT !.pc = "lists", !.todo = answer]
<1>2. q \in Queries /\ q.pc = "groups" /\ q.kind = "roster" /\ Truthful(on, lists, touched[r], q)
  BY DEF Inv, ReqInv, DirectIndex
<1>3. req' = [req EXCEPT ![r] = next]
  BY <1>1 DEF Inv, ReqInv
<1>4. next \in Queries
  BY <1>2 DEF Queries, Phases
<1>5. /\ next.pc = "lists" /\ next.kind = "roster" /\ next.todo = answer /\ next.direct = q.direct
  BY <1>2 DEF Queries
<1>6. q.direct = {}
  BY <1>2 DEF Truthful, Asked
<1> HIDE DEF next
<1>7. SaysSoFar(on, lists, touched[r], next)
  <2> SUFFICES ASSUME NEW p \in Persons, NEW l \in Lists, <<l, p>> \notin touched[r],
                      Has(on, lists, l, p)
               PROVE  l \in answer
    BY <1>5, <1>6 DEF SaysSoFar
  <2>1. l \in lists /\ p \in Members \cup {"exists"}
    BY Names DEF Has
  <2>2. CASE groupCache = {}
    BY <1>1, <2>1, <2>2 DEF ListGroups
  <2>3. CASE groupCache # {}
    <3>1. answer \in groupCache
      BY <1>1, <2>3 DEF ListGroups
    <3>2. Honest(on, lists, touched[r], memberCache, groupCache)
      BY <1>2 DEF Inv, CacheInv
    <3> QED BY <2>1, <3>1, <3>2 DEF Honest
  <2> QED BY <2>2, <2>3
<1>8. Truthful(on, lists, touched[r], next)
  BY <1>5, <1>7 DEF Truthful, Asked, Indexing
<1> QED BY <1>2, <1>3, <1>4, <1>5, <1>8, MovesTo DEF Inv

LEMMA ListGroupsHandlerMoves ==
    ASSUME Inv, NEW r \in Requests, ListGroupsHandler(r)
    PROVE  Moved(r)
<1> DEFINE q == req[r]
<1>1. PICK answer \in SUBSET Lists :
          ListGroups(answer) /\ req' = [req EXCEPT ![r].pc = "done", ![r].keys = Sorted(answer)]
  BY DEF ListGroupsHandler
<1> DEFINE keys == Sorted(answer)
           next == [q EXCEPT !.pc = "done", !.keys = keys]
<1>2. q \in Queries /\ q.pc = "groups" /\ q.kind = "groups" /\ Truthful(on, lists, touched[r], q)
  BY DEF Inv, ReqInv, ListGroupsHandler
<1>3. req' = [req EXCEPT ![r] = next]
  BY <1>1 DEF Inv, ReqInv
<1>4. keys \in Seq(Lists) /\ Range(keys) = answer
  <2>1. keys \in Seq(answer) /\ Range(keys) = answer
    BY SortedKeeps
  <2> HIDE DEF keys
  <2> QED BY <2>1
<1> HIDE DEF keys
<1>5. next \in Queries
  BY <1>2, <1>4 DEF Queries, Phases
<1>6. next.pc = "done" /\ next.kind = "groups" /\ next.keys = keys
  BY <1>2 DEF Queries
<1> HIDE DEF next
<1>7. SaysExist(lists, touched[r], keys)
  <2> SUFFICES ASSUME NEW l \in Lists, <<l, "exists">> \notin touched[r]
               PROVE  l \in answer <=> l \in lists
    BY <1>4 DEF SaysExist
  <2>1. CASE groupCache = {}
    BY <1>1, <2>1 DEF ListGroups
  <2>2. CASE groupCache # {}
    <3>1. answer \in groupCache
      BY <1>1, <2>2 DEF ListGroups
    <3>2. Honest(on, lists, touched[r], memberCache, groupCache)
      BY <1>2 DEF Inv, CacheInv
    <3> QED BY <3>1, <3>2 DEF Honest
  <2> QED BY <2>1, <2>2
<1>8. Truthful(on, lists, touched[r], next)
  BY <1>6, <1>7 DEF Truthful, Asked, Indexing, Answering
<1> QED BY <1>2, <1>3, <1>5, <1>6, <1>8, MovesTo DEF Inv

LEMMA ReadListMoves ==
    ASSUME Inv, NEW r \in Requests, NEW l \in Lists, ReadList(r, l)
    PROVE  Moved(r)
<1> DEFINE q == req[r]
           content == IF l \in DOMAIN memberCache THEN memberCache[l] ELSE on[l]
           found == Indexed(l, content)
           next == [q EXCEPT !.todo = q.todo \ {l}, !.direct = q.direct \cup found]
<1>1. req' = [req EXCEPT ![r].todo = @ \ {l}, ![r].direct = @ \cup found]
  BY DEF ReadList
<1>2. q \in Queries /\ q.pc = "lists" /\ Truthful(on, lists, touched[r], q)
  BY DEF Inv, ReqInv, ReadList
<1>3. Faithful(on, touched[r], l, content) /\ Existing(on, lists)
  BY <1>2, ReadSays DEF Inv, WorldInv
<1> HIDE DEF content
<1>4. found = {<<a, l>> : a \in UsersOn(l, content)}
  BY DEF Indexed
<1>5. found \subseteq Plains \X Lists
  <2>1. UsersOn(l, content) \subseteq Plains
    BY <1>3, UsersOnSays
  <2> HIDE DEF found
  <2> QED BY <1>4, <2>1
<1>6. \A p \in Persons, k \in Lists : <<Plain(p), k>> \in found <=> k = l /\ Plain(p) \in UsersOn(l, content)
  BY <1>4
<1> HIDE DEF found
<1>7. req' = [req EXCEPT ![r] = next]
  BY <1>1 DEF Inv, ReqInv
<1>8. next \in Queries
  BY <1>2, <1>5 DEF Queries
<1>9. /\ next.pc = "lists" /\ next.kind = q.kind /\ next.todo = q.todo \ {l}
      /\ next.direct = q.direct \cup found /\ next.broken = q.broken
  BY <1>2 DEF Queries
<1> HIDE DEF next
<1>10. q.kind = "roster" /\ SaysSoFar(on, lists, touched[r], q)
  BY <1>2 DEF Truthful, Asked, Indexing
<1>11. SaysSoFar(on, lists, touched[r], next)
  <2> SUFFICES ASSUME NEW p \in Persons, NEW k \in Lists, <<k, p>> \notin touched[r]
               PROVE  /\ <<Plain(p), k>> \in next.direct => Has(on, lists, k, p)
                      /\ Has(on, lists, k, p) => \/ k \in next.todo \/ next.broken
                                                 \/ <<Plain(p), k>> \in next.direct
    BY DEF SaysSoFar
  <2>1. /\ <<Plain(p), k>> \in q.direct => Has(on, lists, k, p)
        /\ Has(on, lists, k, p) => k \in q.todo \/ q.broken \/ <<Plain(p), k>> \in q.direct
    BY <1>10 DEF SaysSoFar
  <2>2. k = l => (Plain(p) \in UsersOn(l, content) <=> Has(on, lists, k, p))
    BY <1>3, UsersOnSays
  <2> QED BY <1>6, <1>9, <2>1, <2>2
<1>12. Truthful(on, lists, touched[r], next)
  BY <1>9, <1>10, <1>11 DEF Truthful, Asked, Indexing
<1> QED BY <1>2, <1>7, <1>8, <1>9, <1>12, MovesTo DEF Inv

LEMMA ReadFailsMoves ==
    ASSUME Inv, NEW r \in Requests, NEW l \in Lists, ReadFails(r, l)
    PROVE  Moved(r)
<1> DEFINE q == req[r]
           next == [q EXCEPT !.todo = q.todo \ {l}, !.broken = TRUE]
<1>1. q \in Queries /\ q.pc = "lists" /\ Truthful(on, lists, touched[r], q)
  BY DEF Inv, ReqInv, ReadFails
<1>2. req' = [req EXCEPT ![r] = next]
  BY DEF ReadFails, Inv, ReqInv
<1>3. next \in Queries
  BY <1>1 DEF Queries
<1>4. /\ next.pc = "lists" /\ next.kind = q.kind /\ next.direct = q.direct /\ next.broken
  BY <1>1 DEF Queries
<1> HIDE DEF next
<1>5. q.kind = "roster" /\ SaysSoFar(on, lists, touched[r], q)
  BY <1>1 DEF Truthful, Asked, Indexing
<1>6. SaysSoFar(on, lists, touched[r], next)
  BY <1>4, <1>5 DEF SaysSoFar
<1>7. Truthful(on, lists, touched[r], next)
  BY <1>4, <1>5, <1>6 DEF Truthful, Asked, Indexing
<1> QED BY <1>1, <1>2, <1>3, <1>4, <1>7, MovesTo DEF Inv

\* What remains of a request that has its answer.
LEMMA FinishedIs ==
    ASSUME Inv, NEW r \in Requests, NEW phase \in {"done", "failed"}
    PROVE  LET f == Finished(r, phase) IN
              /\ f \in Queries /\ f.pc = phase /\ f.kind = req[r].kind /\ ~f.known
              /\ f.subject = req[r].subject
<1>1. req[r] \in Queries
  BY DEF Inv, ReqInv
<1>2. req[r].kind \in Kinds \cup {""} /\ req[r].subject \in Persons \cup Lists \cup {""}
  BY <1>1 DEF Queries
<1> DEFINE base == NoRequest
           f == [base EXCEPT !.kind = req[r].kind, !.subject = req[r].subject, !.pc = phase]
<1>3. f = Finished(r, phase)
  BY DEF Finished
<1>4. base \in Queries /\ ~base.known
  BY NothingSaid
<1> HIDE DEF base
<1>5. phase \in Phases
  BY DEF Phases
<1>6. f \in Queries /\ f.pc = phase /\ f.kind = req[r].kind /\ f.subject = req[r].subject /\ ~f.known
  BY <1>2, <1>4, <1>5 DEF Queries
<1> QED BY <1>3, <1>6

LEMMA FailedMoves ==
    ASSUME Inv, NEW r \in Requests, req[r].pc # "idle",
           req' = [req EXCEPT ![r] = Finished(r, "failed")]
    PROVE  Moved(r)
<1> DEFINE next == Finished(r, "failed")
<1>1. /\ next \in Queries /\ next.pc = "failed" /\ next.kind = req[r].kind
      /\ next.subject = req[r].subject
  BY FinishedIs
<1> HIDE DEF next
<1>2. Asked(req[r])
  BY DEF Inv, ReqInv, Truthful
<1>3. Truthful(on, lists, touched[r], next)
  BY <1>1, <1>2 DEF Truthful, Asked, Indexing
<1> QED BY <1>1, <1>3, MovesTo DEF Inv, next

LEMMA WaitMoves ==
    ASSUME Inv, NEW r \in Requests, Wait(r)
    PROVE  Moved(r)
<1> DEFINE q == req[r]
<1>1. q \in Queries /\ q.pc = "lists" /\ q.todo = {} /\ Truthful(on, lists, touched[r], q)
  BY DEF Inv, ReqInv, Wait
<1>2. CASE Rejected(r)
  <2>1. req' = [req EXCEPT ![r] = Finished(r, "failed")]
    BY <1>2 DEF Wait
  <2> QED BY <1>1, <2>1, FailedMoves
<1>3. CASE ~Rejected(r)
  <2> DEFINE next == [q EXCEPT !.pc = "login"]
  <2>1. req' = [req EXCEPT ![r] = next] /\ ~q.broken
    BY <1>3 DEF Wait, Rejected, Inv, ReqInv
  <2>2. next \in Queries
    BY <1>1 DEF Queries, Phases
  <2>3. next.pc = "login" /\ next.kind = q.kind /\ next.direct = q.direct
    BY <1>1 DEF Queries
  <2> HIDE DEF next
  <2>4. q.kind = "roster" /\ SaysSoFar(on, lists, touched[r], q)
    BY <1>1 DEF Truthful, Asked, Indexing
  <2>5. \A p \in Persons : SaysDirect(on, lists, touched[r], p, next.direct)
    BY <1>1, <2>1, <2>3, <2>4 DEF SaysSoFar, SaysDirect
  <2>6. Truthful(on, lists, touched[r], next)
    BY <2>3, <2>4, <2>5 DEF Truthful, Asked, Indexing
  <2> QED BY <1>1, <2>1, <2>2, <2>3, <2>6, MovesTo DEF Inv
<1> QED BY <1>2, <1>3

LEMMA RosterGroupKeysMoves ==
    ASSUME Inv, NEW r \in Requests, RosterGroupKeys(r)
    PROVE  Moved(r)
<1> DEFINE q == req[r]
           content == IF Login \in DOMAIN memberCache THEN memberCache[Login] ELSE on[Login]
           people == UsersOn(Login, content)
           direct == {d \in q.direct : d[1] \in people}
           next == [q EXCEPT !.pc = "profiles", !.people = people, !.direct = direct]
<1>1. req' = [req EXCEPT ![r].pc = "profiles", ![r].people = people,
                         ![r].direct = {d \in @ : d[1] \in people}]
  BY DEF RosterGroupKeys
<1>2. q \in Queries /\ q.pc = "login" /\ Truthful(on, lists, touched[r], q)
  BY DEF Inv, ReqInv, RosterGroupKeys
<1>3. Faithful(on, touched[r], Login, content) /\ Existing(on, lists)
  BY <1>2, ReadSays, Names DEF Inv, WorldInv
<1> HIDE DEF content
<1>4. SaysPeople(on, lists, touched[r], people)
  BY <1>3, UsersOnSays, Names DEF SaysPeople
<1> HIDE DEF people
<1>5. req' = [req EXCEPT ![r] = next]
  BY <1>1 DEF Inv, ReqInv
<1>6. people \subseteq Addresses
  BY <1>4, PlainIs DEF SaysPeople
<1>7. direct \subseteq q.direct
  OBVIOUS
<1>8. q.kind = "roster" /\ \A p \in Persons : SaysDirect(on, lists, touched[r], p, q.direct)
  BY <1>2 DEF Truthful, Asked, Indexing
<1>9. ASSUME NEW p \in Persons, Plain(p) \in people
      PROVE  SaysDirect(on, lists, touched[r], p, direct)
  <2>1. \A l : <<Plain(p), l>> \in direct <=> <<Plain(p), l>> \in q.direct
    BY <1>9
  <2> HIDE DEF direct
  <2> QED BY <1>8, <2>1 DEF SaysDirect
<1> HIDE DEF direct
<1>10. next \in Queries
  BY <1>2, <1>6, <1>7 DEF Queries, Phases
<1>11. next.pc = "profiles" /\ next.kind = q.kind /\ next.people = people /\ next.direct = direct
  BY <1>2 DEF Queries
<1> HIDE DEF next
<1>12. Truthful(on, lists, touched[r], next)
  BY <1>4, <1>8, <1>9, <1>11 DEF Truthful, Asked, Indexing
<1> QED BY <1>2, <1>5, <1>10, <1>11, <1>12, MovesTo DEF Inv

LEMMA ReadMembersMoves ==
    ASSUME Inv, NEW r \in Requests, ReadMembers(r)
    PROVE  Moved(r)
<1> DEFINE q == req[r]
           l == q.subject
           content == IF l \in DOMAIN memberCache THEN memberCache[l] ELSE on[l]
           people == {Address(l, m) : m \in On(content)}
           next == [q EXCEPT !.pc = "profiles", !.people = people]
<1>1. req' = [req EXCEPT ![r].pc = "profiles", ![r].people = people]
  BY DEF ReadMembers
<1>2. q \in Queries /\ q.pc = "members" /\ Truthful(on, lists, touched[r], q)
  BY DEF Inv, ReqInv, ReadMembers
<1>3. q.kind = "members" /\ l \in Lists
  BY <1>2 DEF Truthful, Asked
<1>4. Faithful(on, touched[r], l, content) /\ Existing(on, lists)
  BY <1>2, <1>3, ReadSays DEF Inv, WorldInv
<1> HIDE DEF content
<1>5. people \subseteq Addresses /\ SaysMembers(on, lists, touched[r], l, people)
  BY <1>3, <1>4, MembersSay
<1> HIDE DEF people
<1>6. req' = [req EXCEPT ![r] = next]
  BY <1>1 DEF Inv, ReqInv
<1>7. next \in Queries
  BY <1>2, <1>5 DEF Queries, Phases
<1>8. next.pc = "profiles" /\ next.kind = q.kind /\ next.people = people /\ next.subject = l
  BY <1>2 DEF Queries
<1> HIDE DEF next
<1>9. Truthful(on, lists, touched[r], next)
  BY <1>3, <1>5, <1>8 DEF Truthful, Asked, Indexing
<1> QED BY <1>2, <1>6, <1>7, <1>8, <1>9, MovesTo DEF Inv

LEMMA DecoratedIs ==
    ASSUME Inv, NEW r \in Requests, NEW profiles
    PROVE  /\ Decorated(r, profiles) \in Placing(Addresses, EntryType)
           /\ DOMAIN Decorated(r, profiles) = req[r].people
<1> DEFINE people == req[r].people
           Of(a) == [role |-> "", groups |-> <<>>, profile |-> Lower(a) \in profiles]
<1>1. people \subseteq Addresses
  BY DEF Inv, ReqInv, Queries
<1>2. Decorated(r, profiles) = [a \in people |-> Of(a)]
  BY DEF Decorated
<1>3. <<>> \in Seq(Lists)
  OBVIOUS
<1>4. \A a \in people : Of(a) \in EntryType
  BY <1>3 DEF EntryType
<1> HIDE DEF people, Of
<1>5. Decorated(r, profiles) \in [people -> EntryType]
  BY <1>2, <1>4
<1> QED BY <1>1, <1>2, <1>5 DEF Placing, people

\* Both ways a list of members is answered.
LEMMA MembersAnswered ==
    ASSUME Inv, NEW r \in Requests, NEW profiles, req[r].pc = "profiles", req[r].kind = "members",
           req' = [req EXCEPT ![r] = [Finished(r, "done") EXCEPT !.entries = Decorated(r, profiles)]]
    PROVE  Moved(r)
<1> DEFINE q == req[r]
           f == Finished(r, "done")
           entries == Decorated(r, profiles)
           next == [f EXCEPT !.entries = entries]
<1>1. q \in Queries /\ Truthful(on, lists, touched[r], q)
  BY DEF Inv, ReqInv
<1>2. f \in Queries /\ f.pc = "done" /\ f.kind = q.kind /\ f.subject = q.subject
  BY FinishedIs
<1>3. entries \in Placing(Addresses, EntryType) /\ DOMAIN entries = q.people
  BY DecoratedIs
<1> HIDE DEF f, entries
<1>4. next \in Queries
  BY <1>2, <1>3 DEF Queries
<1>5. /\ next.pc = "done" /\ next.kind = "members" /\ next.subject = q.subject
      /\ next.entries = entries
  BY <1>2 DEF Queries
<1>6. req' = [req EXCEPT ![r] = next]
  BY DEF f, entries
<1> HIDE DEF next
<1>7. SaysMembers(on, lists, touched[r], q.subject, q.people) /\ q.subject \in Lists
  BY <1>1 DEF Truthful, Asked, Indexing
<1>8. Truthful(on, lists, touched[r], next)
  BY <1>3, <1>5, <1>7 DEF Truthful, Asked, Indexing, Answering
<1> QED BY <1>4, <1>5, <1>6, <1>8, MovesTo DEF Inv

LEMMA ListByEmailsType ==
    ASSUME NEW addresses \in SUBSET Addresses PROVE ListByEmails(addresses) \subseteq Addresses
<1>1. ASSUME NEW a \in Addresses PROVE Lower(a) \in Addresses
  BY DEF Lower, Addresses
<1> QED BY <1>1 DEF ListByEmails

LEMMA ProfilesMoves ==
    ASSUME Inv, NEW r \in Requests, Profiles(r)
    PROVE  Moved(r)
<1> DEFINE q == req[r]
           profiles == ListByEmails(q.people)
<1>1. q \in Queries /\ q.pc = "profiles" /\ Truthful(on, lists, touched[r], q)
  BY DEF Inv, ReqInv, Profiles
<1>2. q.kind \in {"roster", "members"}
  BY <1>1 DEF Truthful, Asked
<1>3. CASE q.kind = "members"
  <2>1. req' = [req EXCEPT ![r] = [Finished(r, "done") EXCEPT !.entries = Decorated(r, profiles)]]
    BY <1>3 DEF Profiles
  <2> HIDE DEF profiles
  <2> QED BY <1>1, <1>3, <2>1, MembersAnswered
<1>4. CASE q.kind = "roster"
  <2> DEFINE next == [q EXCEPT !.pc = "roles", !.profiles = profiles]
  <2>1. req' = [req EXCEPT ![r].pc = "roles", ![r].profiles = profiles]
    BY <1>4 DEF Profiles
  <2>2. profiles \subseteq Addresses
    BY <1>1, ListByEmailsType DEF Queries
  <2> HIDE DEF profiles
  <2>3. req' = [req EXCEPT ![r] = next]
    BY <2>1 DEF Inv, ReqInv
  <2>4. next \in Queries
    BY <1>1, <2>2 DEF Queries, Phases
  <2>5. next.pc = "roles" /\ next.kind = q.kind /\ next.people = q.people /\ next.direct = q.direct
    BY <1>1 DEF Queries
  <2> HIDE DEF next
  <2>6. Truthful(on, lists, touched[r], next)
    BY <1>1, <1>4, <2>5 DEF Truthful, Asked, Indexing
  <2> QED BY <1>1, <2>3, <2>4, <2>5, <2>6, MovesTo DEF Inv
<1> QED BY <1>2, <1>3, <1>4

LEMMA lookupProfilesMoves ==
    ASSUME Inv, NEW r \in Requests, lookupProfiles(r)
    PROVE  Moved(r)
BY MembersAnswered DEF lookupProfiles

\* Somebody's entry on the roster.
LEMMA EntrySays ==
    ASSUME Inv, NEW r \in Requests, req[r].pc = "roles", NEW content,
           Faithful(on, touched[r], Login, content), NEW p \in Persons, Plain(p) \in req[r].people
    PROVE  LET e == Entry(r, Plain(p), LocalRoles(content)) IN
              /\ e \in EntryType
              /\ SaysLists(on, lists, touched[r], p, e.groups)
              /\ SaysRole(on, touched[r], p, e.role)
<1> DEFINE S == {l \in Lists : <<Plain(p), l>> \in req[r].direct}
           keys == visibleKeys(S)
           role == IF <<Plain(p), "admin">> \in LocalRoles(content) THEN "admin" ELSE "member"
           known == Plain(p) \in req[r].profiles
           e == [role |-> role, groups |-> keys, profile |-> known]
<1>1. Entry(r, Plain(p), LocalRoles(content)) = e
  BY DEF Entry
<1>2. SaysRole(on, touched[r], p, role)
  BY RolesSay
<1>3. role \in {"", "member", "admin"}
  OBVIOUS
<1>4. InOrder(keys) /\ keys \in Seq(Lists) /\ Range(keys) = Visible(S)
  BY VisibleKeysShown DEF InOrder
<1>5. SaysDirect(on, lists, touched[r], p, req[r].direct)
  BY DEF Inv, ReqInv, Truthful, Asked, Indexing
<1>6. SaysLists(on, lists, touched[r], p, keys)
  <2> SUFFICES ASSUME NEW l \in Lists, <<l, p>> \notin touched[r]
               PROVE  l \in Range(keys) <=> Has(on, lists, l, p) /\ ~Hidden(Chart, l)
    BY <1>4 DEF SaysLists
  <2>1. l \in Visible(S) <=> l \in S /\ ~Hidden(Chart, l)
    BY DEF Visible
  <2>2. l \in S <=> Has(on, lists, l, p)
    BY <1>5 DEF SaysDirect
  <2> HIDE DEF S, keys
  <2> QED BY <1>4, <2>1, <2>2
<1>7. known \in BOOLEAN
  OBVIOUS
<1> HIDE DEF role, keys, known
<1>8. e \in EntryType /\ e.groups = keys /\ e.role = role
  BY <1>3, <1>4, <1>7 DEF EntryType
<1> HIDE DEF e
<1> QED BY <1>1, <1>2, <1>6, <1>8

LEMMA ListHandlerMoves ==
    ASSUME Inv, NEW r \in Requests, ListHandler(r)
    PROVE  Moved(r)
<1> DEFINE q == req[r]
           content == IF Login \in DOMAIN memberCache THEN memberCache[Login] ELSE on[Login]
           roles == LocalRoles(content)
           entries == [a \in q.people |-> Entry(r, a, roles)]
           f == Finished(r, "done")
           next == [f EXCEPT !.entries = entries]
<1>1. req' = [req EXCEPT ![r] = next]
  BY DEF ListHandler
<1>2. q \in Queries /\ q.pc = "roles" /\ Truthful(on, lists, touched[r], q)
  BY DEF Inv, ReqInv, ListHandler
<1>3. Faithful(on, touched[r], Login, content)
  BY <1>2, ReadSays, Names DEF Inv
<1>4. q.kind = "roster" /\ SaysPeople(on, lists, touched[r], q.people)
  BY <1>2 DEF Truthful, Asked, Indexing
<1>5. ASSUME NEW p \in Persons, Plain(p) \in q.people
      PROVE  /\ Entry(r, Plain(p), roles) \in EntryType
             /\ SaysLists(on, lists, touched[r], p, Entry(r, Plain(p), roles).groups)
             /\ SaysRole(on, touched[r], p, Entry(r, Plain(p), roles).role)
  <2> HIDE DEF content
  <2> QED BY <1>2, <1>3, <1>5, EntrySays
<1> HIDE DEF roles
<1>6. entries \in Placing(Addresses, EntryType) /\ DOMAIN entries = q.people
  <2>1. \A a \in q.people : Entry(r, a, roles) \in EntryType
    BY <1>4, <1>5 DEF SaysPeople, Plains
  <2>2. q.people \subseteq Addresses
    BY <1>4, PlainIs DEF SaysPeople
  <2>3. entries \in [q.people -> EntryType]
    BY <2>1
  <2> QED BY <2>2, <2>3 DEF Placing
<1>7. \A p \in Persons : Plain(p) \in DOMAIN entries =>
          /\ SaysLists(on, lists, touched[r], p, entries[Plain(p)].groups)
          /\ SaysRole(on, touched[r], p, entries[Plain(p)].role)
  BY <1>5
<1> HIDE DEF entries
<1>8. f \in Queries /\ f.pc = "done" /\ f.kind = q.kind
  BY FinishedIs
<1> HIDE DEF f
<1>9. next \in Queries
  BY <1>6, <1>8 DEF Queries
<1>10. next.pc = "done" /\ next.kind = "roster" /\ next.entries = entries
  BY <1>4, <1>8 DEF Queries
<1> HIDE DEF next
<1>11. Truthful(on, lists, touched[r], next)
  BY <1>4, <1>6, <1>7, <1>10 DEF Truthful, Asked, Indexing, Answering
<1> QED BY <1>1, <1>2, <1>9, <1>10, <1>11, MovesTo DEF Inv

\* What Google answers about one person is so.
LEMMA ExpandSays ==
    ASSUME Inv, NEW p
    PROVE  expand(p) \subseteq Lists /\ \A l : l \in expand(p) <=> Has(on, lists, l, p)
BY DEF Inv, WorldInv, expand, Has

LEMMA GroupKeysForEmailMoves ==
    ASSUME Inv, NEW r \in Requests, GroupKeysForEmail(r)
    PROVE  Moved(r)
<1> DEFINE q == req[r]
           p == q.subject
           keys == visibleKeys(expand(p))
           f == Finished(r, "done")
           next == [f EXCEPT !.keys = keys, !.known = TRUE]
<1>1. req' = [req EXCEPT ![r] = next]
  BY DEF GroupKeysForEmail
<1>2. q \in Queries /\ q.pc = "own" /\ q.kind = "me" /\ Asked(q)
  BY DEF Inv, ReqInv, Truthful, GroupKeysForEmail
<1>3. p \in Persons
  BY <1>2 DEF Asked
<1>4. InOrder(keys) /\ keys \in Seq(Lists) /\ Range(keys) = Visible(expand(p))
  BY ExpandSays, VisibleKeysShown DEF InOrder
<1> HIDE DEF keys
<1>5. SaysLists(on, lists, touched[r], p, keys)
  BY <1>4, ExpandSays DEF SaysLists, Visible
<1>6. f \in Queries /\ f.pc = "done" /\ f.kind = q.kind /\ f.subject = p
  BY FinishedIs
<1> HIDE DEF f
<1>7. next \in Queries
  BY <1>4, <1>6 DEF Queries
<1>8. next.pc = "done" /\ next.kind = "me" /\ next.keys = keys /\ next.subject = p
  BY <1>2, <1>6 DEF Queries
<1> HIDE DEF next
<1>9. Truthful(on, lists, touched[r], next)
  BY <1>3, <1>5, <1>8 DEF Truthful, Asked, Indexing, Answering
<1> QED BY <1>1, <1>2, <1>7, <1>8, <1>9, MovesTo DEF Inv

LEMMA WithoutGroupsMoves ==
    ASSUME Inv, NEW r \in Requests, WithoutGroups(r)
    PROVE  Moved(r)
<1> DEFINE q == req[r]
           next == Finished(r, "done")
<1>1. req' = [req EXCEPT ![r] = next]
  BY DEF WithoutGroups
<1>2. q.pc = "own" /\ q.kind = "me" /\ Asked(q)
  BY DEF Inv, ReqInv, Truthful, WithoutGroups
<1>3. /\ next \in Queries /\ next.pc = "done" /\ next.kind = q.kind /\ ~next.known
      /\ next.subject = q.subject
  BY FinishedIs
<1> HIDE DEF next
<1>4. Truthful(on, lists, touched[r], next)
  BY <1>2, <1>3 DEF Truthful, Asked, Indexing, Answering
<1> QED BY <1>1, <1>2, <1>3, <1>4, MovesTo DEF Inv

LEMMA ForEmailMoves ==
    ASSUME Inv, NEW r \in Requests, ForEmail(r)
    PROVE  Moved(r)
<1> DEFINE q == req[r]
           p == q.subject
           direct == expand(p)
           sections == sectioned(direct)
           leader == isLeadership(direct)
           f == Finished(r, "done")
           next == [f EXCEPT !.sections = sections, !.leader = leader, !.known = TRUE]
<1>1. req' = [req EXCEPT ![r] = next]
  BY DEF ForEmail
<1>2. q \in Queries /\ q.pc = "own" /\ q.kind = "mine" /\ Asked(q)
  BY DEF Inv, ReqInv, Truthful, ForEmail
<1>3. p \in Persons
  BY <1>2 DEF Asked
<1>4. direct \subseteq Lists /\ \A l : l \in direct <=> Has(on, lists, l, p)
  BY ExpandSays
<1> HIDE DEF direct
<1>5. /\ sections \in Sections /\ Range(Items(sections)) = Visible(direct)
      /\ InOrder(Items(sections))
  BY <1>4, SectionedKeeps
<1>6. leader <=> \E l \in LeadershipGroups(Chart) : Has(on, lists, l, p)
  BY <1>4 DEF isLeadership
<1>7. leader \in BOOLEAN
  BY DEF isLeadership
<1> HIDE DEF sections, leader
<1>8. SaysLists(on, lists, touched[r], p, Items(sections)) /\ SaysLeader(on, lists, touched[r], p, leader)
  BY <1>4, <1>5, <1>6 DEF SaysLists, Visible, SaysLeader
<1>9. f \in Queries /\ f.pc = "done" /\ f.kind = q.kind /\ f.subject = p
  BY FinishedIs
<1> HIDE DEF f
<1>10. next \in Queries
  BY <1>5, <1>7, <1>9 DEF Queries
<1>11. /\ next.pc = "done" /\ next.kind = "mine" /\ next.sections = sections
       /\ next.leader = leader /\ next.known /\ next.subject = p
  BY <1>2, <1>9 DEF Queries
<1> HIDE DEF next
<1>12. Truthful(on, lists, touched[r], next)
  BY <1>3, <1>8, <1>11 DEF Truthful, Asked, Indexing, Answering
<1> QED BY <1>1, <1>2, <1>10, <1>11, <1>12, MovesTo DEF Inv

LEMMA FailMoves ==
    ASSUME Inv, NEW r \in Requests, Fail(r)
    PROVE  Moved(r)
<1>1. req[r].pc # "idle" /\ req' = [req EXCEPT ![r] = Finished(r, "failed")]
  BY DEF Fail
<1> QED BY <1>1, FailedMoves

LEMMA StepMoves ==
    ASSUME Inv, NEW r \in Requests, Step(r)
    PROVE  Moved(r)
BY DirectIndexMoves, ListGroupsHandlerMoves, ReadListMoves, ReadFailsMoves, WaitMoves,
   RosterGroupKeysMoves, ReadMembersMoves, ProfilesMoves, lookupProfilesMoves,
   ListHandlerMoves, GroupKeysForEmailMoves, WithoutGroupsMoves, ForEmailMoves, FailMoves
   DEF Step

------------------------------------------------------------------------------
(* The caches. *)

CachesStay ==
    /\ CacheTypes(memberCache', groupCache')
    /\ \A s \in Requests : req[s].pc # "idle" =>
          Honest(on, lists, touched[s], memberCache', groupCache')

LEMMA ReadCached ==
    ASSUME WorldInv, CacheInv, NEW l \in Lists, NEW content,
           content = IF l \in DOMAIN memberCache THEN memberCache[l] ELSE on[l],
           ListMembers(l, content)
    PROVE  CachesStay
<1> DEFINE M == [k \in DOMAIN memberCache \cup {l} |->
                    IF k = l THEN content ELSE memberCache[k]]
<1>1. memberCache' = M /\ groupCache' = groupCache
  BY DEF ListMembers
<1>2. content \in Content
  BY DEF WorldInv, CacheInv, CacheTypes
<1>3. DOMAIN M = DOMAIN memberCache \cup {l}
      /\ \A k \in DOMAIN M : M[k] = IF k = l THEN content ELSE memberCache[k]
  OBVIOUS
<1> HIDE DEF M
<1>4. CacheTypes(M, groupCache)
  BY <1>2, <1>3 DEF CacheInv, CacheTypes
<1>5. ASSUME NEW s \in Requests, req[s].pc # "idle"
      PROVE  Honest(on, lists, touched[s], M, groupCache)
  <2>1. Honest(on, lists, touched[s], memberCache, groupCache)
    BY <1>5 DEF CacheInv
  <2>2. Faithful(on, touched[s], l, content)
    BY <1>5, ReadSays
  <2>3. \A k \in DOMAIN M : Faithful(on, touched[s], k, M[k])
    BY <1>3, <2>1, <2>2 DEF Honest
  <2> QED BY <2>1, <2>3 DEF Honest
<1> QED BY <1>1, <1>4, <1>5 DEF CachesStay

LEMMA GroupsCached ==
    ASSUME WorldInv, CacheInv, NEW answer \in SUBSET Lists, ListGroups(answer)
    PROVE  CachesStay
<1>1. memberCache' = memberCache /\ groupCache' = {answer}
  BY DEF ListGroups
<1>2. CacheTypes(memberCache, {answer})
  BY DEF CacheInv, CacheTypes
<1>3. ASSUME NEW s \in Requests, req[s].pc # "idle"
      PROVE  Honest(on, lists, touched[s], memberCache, {answer})
  <2>1. Honest(on, lists, touched[s], memberCache, groupCache)
    BY <1>3 DEF CacheInv
  <2>2. answer \in groupCache \/ answer = lists
    BY DEF ListGroups
  <2> QED BY <2>1, <2>2 DEF Honest
<1> QED BY <1>1, <1>2, <1>3 DEF CachesStay

LEMMA CachesAfter ==
    ASSUME Inv, \/ memberCache' = memberCache /\ groupCache' = groupCache
                \/ memberCache' = Nobody /\ groupCache' = {}
    PROVE  CacheTypes(memberCache', groupCache')
<1>1. CASE memberCache' = memberCache /\ groupCache' = groupCache
  BY <1>1 DEF Inv, CacheInv
<1>2. CASE memberCache' = Nobody /\ groupCache' = {}
  <2>1. DOMAIN Nobody = {}
    BY DEF Nobody
  <2> QED BY <1>2, <2>1 DEF CacheTypes
<1> QED BY <1>1, <1>2

LEMMA StepCaches ==
    ASSUME Inv, NEW r \in Requests, Step(r)
    PROVE  Quiet /\ CachesStay
<1>1. WorldInv /\ CacheInv /\ Login \in Lists
  BY Names DEF Inv
<1>2. ASSUME UNCHANGED caches PROVE CachesStay
  <2>1. memberCache' = memberCache /\ groupCache' = groupCache
    BY <1>2 DEF caches
  <2>2. CacheTypes(memberCache', groupCache')
    BY <2>1, CachesAfter
  <2>3. ASSUME NEW s \in Requests, req[s].pc # "idle"
        PROVE  Honest(on, lists, touched[s], memberCache', groupCache')
    <3>1. Honest(on, lists, touched[s], memberCache, groupCache)
      BY <1>1, <2>3 DEF CacheInv
    <3> QED BY <2>1, <3>1
  <2> QED BY <2>2, <2>3 DEF CachesStay
<1>3. CASE DirectIndex(r) \/ ListGroupsHandler(r)
  BY <1>1, <1>3, GroupsCached DEF DirectIndex, ListGroupsHandler
<1>4. ASSUME NEW l \in Lists, ReadList(r, l) PROVE CachesStay
  BY <1>1, <1>4, ReadCached DEF ReadList
<1>5. CASE RosterGroupKeys(r) \/ ListHandler(r)
  BY <1>1, <1>5, ReadCached DEF RosterGroupKeys, ListHandler
<1>6. CASE ReadMembers(r)
  <2>1. req[r].subject \in Lists
    BY <1>6 DEF ReadMembers, Inv, ReqInv, Truthful, Asked
  <2> QED BY <1>1, <1>6, <2>1, ReadCached DEF ReadMembers
<1>7. UNCHANGED caches \/ DirectIndex(r) \/ ListGroupsHandler(r) \/ (\E l \in Lists : ReadList(r, l))
      \/ RosterGroupKeys(r) \/ ListHandler(r) \/ ReadMembers(r)
  BY DEF Step, ReadFails, Wait, Profiles, lookupProfiles, GroupKeysForEmail, WithoutGroups,
         ForEmail, Fail
<1>8. Quiet
  BY DEF Step, DirectIndex, ListGroupsHandler, ReadList, ReadFails, Wait, RosterGroupKeys,
         ReadMembers, Profiles, lookupProfiles, ListHandler, GroupKeysForEmail, WithoutGroups,
         ForEmail, Fail
<1> QED BY <1>2, <1>3, <1>4, <1>5, <1>6, <1>7, <1>8

LEMMA HonestKept ==
    ASSUME NEW O, NEW L, NEW T, NEW O2, NEW L2, NEW T2, Frame(O, L, T, O2, L2, T2),
           NEW M, NEW G, CacheTypes(M, G), Honest(O, L, T, M, G)
    PROVE  Honest(O2, L2, T2, M, G)
<1>1. ASSUME NEW l \in DOMAIN M PROVE Faithful(O2, T2, l, M[l])
  <2>1. l \in Lists /\ Faithful(O, T, l, M[l])
    BY DEF CacheTypes, Honest
  <2> QED BY <2>1, HasKept DEF Faithful
<1>2. \A g \in G : \A l \in Lists, x \in Members \cup {"exists"} :
          <<l, x>> \notin T2 => (l \in g <=> l \in L2)
  BY DEF Frame, Honest
<1> QED BY <1>1, <1>2 DEF Honest

\* A request nobody has made says nothing.
LEMMA IdleSays ==
    ASSUME NEW q, Asked(q), q.pc = "idle", NEW O, NEW L, NEW T
    PROVE  Truthful(O, L, T, q)
BY DEF Truthful, Indexing

------------------------------------------------------------------------------
(* The invariant. *)

LEMMA InvInit == Init => Inv
<1> SUFFICES ASSUME Init PROVE Inv
  OBVIOUS
<1>1. /\ Login \in InitialLists /\ InitialLists \subseteq Lists /\ MaxChanges \in Nat
      /\ InitialOn \in [Lists -> [Members -> Membership \cup {NotOn}]]
      /\ \A l \in Lists \ InitialLists : \A m \in Members : InitialOn[l][m] = NotOn
      /\ EarlierLists \subseteq Lists /\ DOMAIN EarlierOn \subseteq EarlierLists
      /\ \A l \in DOMAIN EarlierOn : EarlierOn[l] \in [Members -> Membership \cup {NotOn}]
  BY ReportsAssumption, Zenon
<1>2. /\ on = InitialOn /\ lists = InitialLists /\ changes = 0
      /\ touched = [r \in Requests |-> {}] /\ req = [r \in Requests |-> NoRequest]
  BY DEF Init
<1>3. WorldInv
  <2>1. on \in [Lists -> Content] /\ lists \subseteq Lists /\ Login \in lists
    BY <1>1, <1>2 DEF Content
  <2>2. Existing(on, lists)
    BY <1>1, <1>2 DEF Existing
  <2>3. changes \in 0..MaxChanges
    BY <1>1, <1>2
  <2>4. touched \in [Requests -> SUBSET Touchable]
    BY <1>2
  <2> QED BY <2>1, <2>2, <2>3, <2>4 DEF WorldInv
<1>4. CacheTypes(memberCache, groupCache)
  <2>1. CASE memberCache = Nobody /\ groupCache = {}
    <3>1. DOMAIN Nobody = {}
      BY DEF Nobody
    <3> QED BY <2>1, <3>1 DEF CacheTypes
  <2>2. CASE memberCache = EarlierOn /\ groupCache = {EarlierLists}
    BY <1>1, <2>2 DEF CacheTypes, Content
  <2> QED BY <2>1, <2>2 DEF Init
<1>5. \A r \in Requests : req[r] = NoRequest
  BY <1>2
<1>6. CacheInv
  BY <1>4, <1>5, NothingSaid DEF CacheInv
<1>7. Asked(NoRequest)
  BY NothingSaid DEF Asked
<1>8. \A r \in Requests : Truthful(on, lists, touched[r], req[r])
  BY <1>5, <1>7, NothingSaid, IdleSays
<1>9. ReqInv
  BY <1>2, <1>8, NothingSaid DEF ReqInv
<1> QED BY <1>3, <1>6, <1>9 DEF Inv

LEMMA StepKeeps ==
    ASSUME Inv, NEW r \in Requests, Step(r)
    PROVE  Inv'
<1>1. Moved(r) /\ Quiet /\ CachesStay
  BY StepMoves, StepCaches
<1>2. on' = on /\ lists' = lists /\ changes' = changes /\ touched' = touched
  BY <1>1 DEF Quiet, google
<1>3. WorldInv'
  BY <1>2 DEF Inv, WorldInv
<1>4. ASSUME NEW s \in Requests PROVE Truthful(on', lists', touched'[s], req'[s])
  <2>1. CASE s = r
    BY <1>1, <1>2, <2>1 DEF Moved
  <2>2. CASE s # r
    BY <1>1, <1>2, <2>2 DEF Moved, Inv, ReqInv
  <2> QED BY <2>1, <2>2
<1>5. ReqInv'
  BY <1>1, <1>4 DEF Moved, ReqInv
<1>6. ASSUME NEW s \in Requests, req'[s].pc # "idle"
      PROVE  Honest(on', lists', touched'[s], memberCache', groupCache')
  <2>1. req[s].pc # "idle"
    BY <1>1, <1>6 DEF Moved
  <2> QED BY <1>1, <1>2, <2>1 DEF CachesStay
<1>7. CacheInv'
  BY <1>1, <1>6 DEF CacheInv, CachesStay
<1> QED BY <1>3, <1>5, <1>7 DEF Inv

\* What a new request finds in the caches may be wrong only where it is hiding
\* something.
LEMMA HidingIsAll ==
    ASSUME Inv
    PROVE  Hiding \subseteq Touchable /\ Honest(on, lists, Hiding, memberCache, groupCache)
<1> DEFINE Wrong == {e \in Lists \X Members : e[1] \in DOMAIN memberCache
                                              /\ memberCache[e[1]][e[2]] # on[e[1]][e[2]]}
           Old == UNION {((g \cup lists) \ (g \cap lists)) \X (Members \cup {"exists"}) :
                             g \in groupCache}
<1>1. Hiding = Wrong \cup Old
  BY DEF Hiding
<1>2. \A g \in groupCache : g \subseteq Lists
  BY DEF Inv, CacheInv, CacheTypes
<1>3. Wrong \subseteq Touchable /\ Old \subseteq Touchable
  <2>1. Wrong \subseteq Touchable
    BY DEF Touchable
  <2>2. Old \subseteq Touchable
    BY <1>2 DEF Touchable, Inv, WorldInv
  <2> QED BY <2>1, <2>2
<1>4. ASSUME NEW l \in DOMAIN memberCache PROVE Faithful(on, Hiding, l, memberCache[l])
  <2>1. l \in Lists /\ memberCache[l] \in Content
    BY DEF Inv, CacheInv, CacheTypes
  <2>2. ASSUME NEW m \in Members, <<l, m>> \notin Hiding PROVE memberCache[l][m] = on[l][m]
    BY <1>1, <2>1, <2>2
  <2> QED BY <2>1, <2>2 DEF Faithful
<1>5. ASSUME NEW g \in groupCache, NEW l \in Lists, NEW x \in Members \cup {"exists"},
             <<l, x>> \notin Hiding
      PROVE  l \in g <=> l \in lists
  <2>1. <<l, x>> \notin ((g \cup lists) \ (g \cap lists)) \X (Members \cup {"exists"})
    BY <1>1, <1>5
  <2> QED BY <2>1
<1> QED BY <1>1, <1>3, <1>4, <1>5 DEF Honest

LEMMA StartKeeps ==
    ASSUME Inv, NEW r \in Requests, NEW ask \in Serves[r], Start(r, ask[1], ask[2])
    PROVE  Inv'
<1> DEFINE kind == ask[1]
           subject == ask[2]
           base == NoRequest
           next == [base EXCEPT !.kind = kind, !.subject = subject, !.pc = FirstStep[kind]]
<1>1. \/ kind \in {"roster", "groups"} /\ subject = ""
      \/ kind \in {"me", "mine"} /\ subject \in Persons
      \/ kind = "members" /\ subject \in Lists
  BY ReportsAssumption, Zenon
<1>2. /\ req' = [req EXCEPT ![r] = next] /\ touched' = [touched EXCEPT ![r] = Hiding]
      /\ on' = on /\ lists' = lists /\ changes' = changes
      /\ memberCache' = memberCache /\ groupCache' = groupCache /\ req[r].pc = "idle"
  BY DEF Start, google, caches
<1>3. base \in Queries /\ base.direct = {}
  BY NothingSaid
<1>4. /\ kind \in Kinds /\ subject \in Persons \cup Lists \cup {""}
      /\ kind \in {"roster", "groups"} => FirstStep[kind] = "groups"
      /\ kind \in {"me", "mine"} => FirstStep[kind] = "own"
      /\ kind = "members" => FirstStep[kind] = "members"
  <2>1. /\ FirstStep["roster"] = "groups" /\ FirstStep["groups"] = "groups"
        /\ FirstStep["me"] = "own" /\ FirstStep["mine"] = "own"
        /\ FirstStep["members"] = "members"
    BY DEF FirstStep
  <2> HIDE DEF kind, subject
  <2> QED BY <1>1, <2>1 DEF Kinds
<1> HIDE DEF kind, subject, base
<1>5. FirstStep[kind] \in Phases
  BY <1>1, <1>4 DEF Phases
<1>6. next \in Queries
  BY <1>3, <1>4, <1>5 DEF Queries
<1>7. next.kind = kind /\ next.subject = subject /\ next.pc = FirstStep[kind] /\ next.direct = {}
  BY <1>3 DEF Queries
<1> HIDE DEF next
<1>8. Truthful(on, lists, Hiding, next)
  <2>1. CASE kind \in {"roster", "groups"}
    BY <1>4, <1>7, <2>1 DEF Truthful, Asked, Indexing
  <2>2. CASE kind \in {"me", "mine"}
    BY <1>1, <1>4, <1>7, <2>2 DEF Truthful, Asked, Indexing
  <2>3. CASE kind = "members"
    BY <1>1, <1>4, <1>7, <2>3 DEF Truthful, Asked, Indexing
  <2> QED BY <1>1, <2>1, <2>2, <2>3
<1>9. Hiding \in SUBSET Touchable /\ Honest(on, lists, Hiding, memberCache, groupCache)
  BY HidingIsAll
<1> HIDE DEF Hiding
<1>10. /\ touched \in [Requests -> SUBSET Touchable] /\ req \in [Requests -> Queries]
  BY DEF Inv, WorldInv, ReqInv
<1>11. /\ touched' \in [Requests -> SUBSET Touchable] /\ req' \in [Requests -> Queries]
       /\ touched'[r] = Hiding /\ req'[r] = next
       /\ \A s \in Requests \ {r} : touched'[s] = touched[s] /\ req'[s] = req[s]
  BY <1>2, <1>6, <1>9, <1>10
<1>12. WorldInv'
  BY <1>2, <1>11 DEF Inv, WorldInv
<1>13. ASSUME NEW s \in Requests PROVE Truthful(on', lists', touched'[s], req'[s])
  <2>1. CASE s = r
    BY <1>2, <1>8, <1>11, <2>1
  <2>2. CASE s # r
    BY <1>2, <1>11, <2>2 DEF Inv, ReqInv
  <2> QED BY <2>1, <2>2
<1>14. ReqInv'
  BY <1>11, <1>13 DEF ReqInv
<1>15. ASSUME NEW s \in Requests, req'[s].pc # "idle"
       PROVE  Honest(on', lists', touched'[s], memberCache', groupCache')
  <2>1. CASE s = r
    BY <1>2, <1>9, <1>11, <2>1
  <2>2. CASE s # r
    BY <1>2, <1>11, <1>15, <2>2 DEF Inv, CacheInv
  <2> QED BY <2>1, <2>2
<1>16. CacheTypes(memberCache', groupCache')
  BY <1>2 DEF Inv, CacheInv
<1>17. CacheInv'
  BY <1>15, <1>16 DEF CacheInv
<1> QED BY <1>12, <1>14, <1>17 DEF Inv

LEMMA LeaveKeeps ==
    ASSUME Inv, NEW r \in Requests, Leave(r)
    PROVE  Inv'
<1>1. /\ req' = [req EXCEPT ![r] = NoRequest] /\ touched' = [touched EXCEPT ![r] = {}]
      /\ on' = on /\ lists' = lists /\ changes' = changes
      /\ memberCache' = memberCache /\ groupCache' = groupCache
  BY DEF Leave, google, caches
<1>2. /\ touched \in [Requests -> SUBSET Touchable] /\ req \in [Requests -> Queries]
  BY DEF Inv, WorldInv, ReqInv
<1>3. /\ touched' \in [Requests -> SUBSET Touchable] /\ req' \in [Requests -> Queries]
      /\ req'[r] = NoRequest
      /\ \A s \in Requests \ {r} : touched'[s] = touched[s] /\ req'[s] = req[s]
  BY <1>1, <1>2, NothingSaid
<1>4. WorldInv'
  BY <1>1, <1>3 DEF Inv, WorldInv
<1>5. ASSUME NEW s \in Requests PROVE Truthful(on', lists', touched'[s], req'[s])
  <2>1. CASE s = r
    <3>1. Asked(NoRequest)
      BY NothingSaid DEF Asked
    <3> QED BY <1>3, <2>1, <3>1, NothingSaid, IdleSays
  <2>2. CASE s # r
    BY <1>1, <1>3, <2>2 DEF Inv, ReqInv
  <2> QED BY <2>1, <2>2
<1>6. ReqInv'
  BY <1>3, <1>5 DEF ReqInv
<1>7. ASSUME NEW s \in Requests, req'[s].pc # "idle"
      PROVE  Honest(on', lists', touched'[s], memberCache', groupCache')
  BY <1>1, <1>3, <1>7, NothingSaid DEF Inv, CacheInv
<1>8. CacheTypes(memberCache', groupCache')
  BY <1>1 DEF Inv, CacheInv
<1>9. CacheInv'
  BY <1>7, <1>8 DEF CacheInv
<1> QED BY <1>4, <1>6, <1>9 DEF Inv

\* Whatever changes, what is not touched stays.
LEMMA ChangeKeeps ==
    ASSUME Inv, WorldInv', req' = req, CacheTypes(memberCache', groupCache'),
           \A s \in Requests : req[s].pc # "idle" =>
               Frame(on, lists, touched[s], on', lists', touched'[s]),
           \/ memberCache' = memberCache /\ groupCache' = groupCache
           \/ memberCache' = Nobody /\ groupCache' = {}
    PROVE  Inv'
<1>1. lists \in SUBSET Lists /\ lists' \in SUBSET Lists
  BY DEF Inv, WorldInv
<1>2. ASSUME NEW s \in Requests PROVE Truthful(on', lists', touched'[s], req'[s])
  <2>1. Truthful(on, lists, touched[s], req[s])
    BY DEF Inv, ReqInv
  <2>2. CASE req[s].pc = "idle"
    <3>1. Asked(req[s])
      BY <2>1 DEF Truthful
    <3> QED BY <2>2, <3>1, IdleSays
  <2>3. CASE req[s].pc # "idle"
    BY <1>1, <2>1, <2>3, TruthKept
  <2> QED BY <2>2, <2>3
<1>3. ReqInv'
  BY <1>2 DEF Inv, ReqInv
<1>4. ASSUME NEW s \in Requests, req'[s].pc # "idle"
      PROVE  Honest(on', lists', touched'[s], memberCache', groupCache')
  <2>1. CASE memberCache' = memberCache /\ groupCache' = groupCache
    <3>1. Honest(on, lists, touched[s], memberCache, groupCache)
      BY <1>4 DEF Inv, CacheInv
    <3>2. CacheTypes(memberCache, groupCache)
      BY DEF Inv, CacheInv
    <3>3. Honest(on', lists', touched'[s], memberCache, groupCache)
      BY <1>4, <3>1, <3>2, HonestKept
    <3> QED BY <2>1, <3>3
  <2>2. CASE memberCache' = Nobody /\ groupCache' = {}
    <3>1. DOMAIN Nobody = {}
      BY DEF Nobody
    <3> QED BY <2>2, <3>1 DEF Honest
  <2> QED BY <2>1, <2>2
<1>5. CacheInv'
  BY <1>4 DEF CacheInv
<1> QED BY <1>3, <1>5 DEF Inv

LEMMA WriteKeeps ==
    ASSUME Inv, NEW e \in Edits,
           WriteHere(e[1], e[2], e[3]) \/ WriteElsewhere(e[1], e[2], e[3])
    PROVE  Inv'
<1> DEFINE l == e[1]
           p == e[2]
           m == e[3]
<1>1. l \in Lists /\ p \in Persons /\ m \in Membership \cup {NotOn}
  <2>1. Edits \subseteq Lists \X Persons \X (Membership \cup {NotOn})
    BY ReportsAssumption, Zenon
  <2>2. e \in Lists \X Persons \X (Membership \cup {NotOn})
    BY <2>1
  <2> QED BY <2>2
<1>2. p \in Members
  BY <1>1, Names
<1> HIDE DEF l, p, m
<1>3. /\ l \in lists /\ changes < MaxChanges /\ changes' = changes + 1
      /\ on' = [on EXCEPT ![l][p] = m] /\ lists' = lists /\ req' = req
      /\ touched' = [r \in Requests |-> IF req[r].pc = "idle" THEN {}
                                        ELSE touched[r] \cup {<<l, p>>}]
  BY DEF WriteHere, WriteElsewhere, ChangeMembership, Disturb, l, p, m
<1>4. \/ memberCache' = memberCache /\ groupCache' = groupCache
      \/ memberCache' = Nobody /\ groupCache' = {}
  BY DEF WriteHere, WriteElsewhere, caches
<1>5. WorldInv
  BY DEF Inv
<1>6. /\ on' \in [Lists -> Content]
      /\ \A k \in Lists : \A x \in Members : on'[k][x] = IF k = l /\ x = p THEN m ELSE on[k][x]
  BY <1>1, <1>2, <1>3, <1>5 DEF WorldInv, Content
<1>7. Existing(on', lists')
  BY <1>3, <1>5, <1>6 DEF WorldInv, Existing
<1>8. changes' \in 0..MaxChanges
  <2>1. MaxChanges \in Nat
    BY ReportsAssumption, Zenon
  <2> QED BY <1>3, <1>5, <2>1 DEF WorldInv
<1>9. touched' \in [Requests -> SUBSET Touchable]
  <2>1. <<l, p>> \in Touchable
    BY <1>1, <1>2 DEF Touchable
  <2> QED BY <1>3, <1>5, <2>1 DEF WorldInv
<1>10. WorldInv'
  BY <1>3, <1>5, <1>6, <1>7, <1>8, <1>9 DEF WorldInv
<1>11. ASSUME NEW s \in Requests, req[s].pc # "idle"
       PROVE  Frame(on, lists, touched[s], on', lists', touched'[s])
  <2>1. touched'[s] = touched[s] \cup {<<l, p>>}
    BY <1>3, <1>11
  <2> QED BY <1>3, <1>6, <2>1 DEF Frame
<1> QED BY <1>3, <1>4, <1>10, <1>11, CachesAfter, ChangeKeeps

LEMMA EditKeeps ==
    ASSUME Inv, NEW l \in Lists, EditLists(l)
    PROVE  Inv'
<1> DEFINE pairs == {l} \X (Members \cup {"exists"})
<1>1. /\ l # Login /\ changes < MaxChanges /\ changes' = changes + 1
      /\ lists' = (IF l \in lists THEN lists \ {l} ELSE lists \cup {l})
      /\ on' = [on EXCEPT ![l] = [m \in Members |-> NotOn]] /\ req' = req
      /\ memberCache' = memberCache /\ groupCache' = groupCache
      /\ touched' = [r \in Requests |-> IF req[r].pc = "idle" THEN {} ELSE touched[r] \cup pairs]
  BY DEF EditLists, Disturb, caches
<1>2. WorldInv
  BY DEF Inv
<1>3. [m \in Members |-> NotOn] \in Content
  BY DEF Content
<1>4. /\ on' \in [Lists -> Content]
      /\ \A k \in Lists : \A x \in Members : on'[k][x] = IF k = l THEN NotOn ELSE on[k][x]
  BY <1>1, <1>2, <1>3 DEF WorldInv
<1>5. Existing(on', lists') /\ lists' \subseteq Lists /\ Login \in lists'
  BY <1>1, <1>2, <1>4 DEF WorldInv, Existing
<1>6. changes' \in 0..MaxChanges
  <2>1. MaxChanges \in Nat
    BY ReportsAssumption, Zenon
  <2> QED BY <1>1, <1>2, <2>1 DEF WorldInv
<1>7. touched' \in [Requests -> SUBSET Touchable]
  <2>1. pairs \subseteq Touchable
    BY DEF Touchable
  <2> HIDE DEF pairs
  <2> QED BY <1>1, <1>2, <2>1 DEF WorldInv
<1>8. WorldInv'
  BY <1>2, <1>4, <1>5, <1>6, <1>7 DEF WorldInv
<1>9. ASSUME NEW s \in Requests, req[s].pc # "idle"
      PROVE  Frame(on, lists, touched[s], on', lists', touched'[s])
  <2>1. touched'[s] = touched[s] \cup pairs
    BY <1>1, <1>9
  <2> SUFFICES ASSUME NEW k \in Lists, NEW x \in Members \cup {"exists"}, <<k, x>> \notin touched'[s]
               PROVE  /\ <<k, x>> \notin touched[s] /\ (k \in lists' <=> k \in lists)
                      /\ x \in Members => on'[k][x] = on[k][x]
    BY DEF Frame
  <2>2. k # l
    BY <2>1
  <2> QED BY <1>1, <1>4, <2>1, <2>2
<1> QED BY <1>1, <1>8, <1>9, CachesAfter, ChangeKeeps

LEMMA ExpireKeeps ==
    ASSUME Inv, Expire
    PROVE  Inv'
<1>1. /\ on' = on /\ lists' = lists /\ changes' = changes /\ touched' = touched /\ req' = req
  BY DEF Expire, google
<1>2. WorldInv' /\ ReqInv'
  BY <1>1 DEF Inv, WorldInv, ReqInv
<1>3. /\ DOMAIN memberCache' \subseteq DOMAIN memberCache
      /\ \A k \in DOMAIN memberCache' : memberCache'[k] = memberCache[k]
      /\ groupCache' = groupCache \/ groupCache' = {}
  BY DEF Expire
<1>4. CacheTypes(memberCache', groupCache')
  BY <1>3 DEF Inv, CacheInv, CacheTypes
<1>5. ASSUME NEW s \in Requests, req'[s].pc # "idle"
      PROVE  Honest(on', lists', touched'[s], memberCache', groupCache')
  <2>1. Honest(on, lists, touched[s], memberCache, groupCache)
    BY <1>1, <1>5 DEF Inv, CacheInv
  <2> QED BY <1>1, <1>3, <2>1 DEF Honest
<1>6. CacheInv'
  BY <1>4, <1>5 DEF CacheInv
<1> QED BY <1>2, <1>6 DEF Inv

LEMMA InvStep == Inv /\ [Next]_vars => Inv'
<1> SUFFICES ASSUME Inv, [Next]_vars PROVE Inv'
  OBVIOUS
<1>1. ASSUME NEW r \in Requests, NEW ask \in Serves[r], Start(r, ask[1], ask[2]) PROVE Inv'
  BY <1>1, StartKeeps
<1>2. ASSUME NEW r \in Requests, Step(r) \/ Leave(r) PROVE Inv'
  BY <1>2, StepKeeps, LeaveKeeps
<1>3. ASSUME NEW e \in Edits, WriteHere(e[1], e[2], e[3]) \/ WriteElsewhere(e[1], e[2], e[3])
      PROVE  Inv'
  BY <1>3, WriteKeeps
<1>4. ASSUME NEW l \in Lists, EditLists(l) PROVE Inv'
  BY <1>4, EditKeeps
<1>5. CASE Expire
  BY <1>5, ExpireKeeps
<1>6. CASE UNCHANGED vars
  BY <1>6 DEF vars, Inv, WorldInv, CacheInv, ReqInv
<1> QED BY <1>1, <1>2, <1>3, <1>4, <1>5, <1>6 DEF Next

LEMMA AlwaysInv == Spec => []Inv
BY InvInit, InvStep, PTL DEF Spec

------------------------------------------------------------------------------
(* The theorems. *)

\* Every variable keeps its type, whatever is asked and changed (user/handler.go,
\* membership/, googlegroup/handler.go).
THEOREM ReportsTypesCorrect == Spec => []TypeOK
<1>1. Inv => TypeOK
  <2> SUFFICES ASSUME Inv PROVE TypeOK
    OBVIOUS
  <2>1. /\ on \in [Lists -> [Members -> Membership \cup {NotOn}]] /\ lists \subseteq Lists
        /\ changes \in 0..MaxChanges
    BY DEF Inv, WorldInv, Content
  <2>2. /\ DOMAIN memberCache \subseteq Lists
        /\ \A l \in DOMAIN memberCache : memberCache[l] \in [Members -> Membership \cup {NotOn}]
        /\ groupCache \subseteq SUBSET Lists
    BY DEF Inv, CacheInv, CacheTypes, Content
  <2>3. Cardinality(groupCache) <= 1
    <3>1. groupCache = {} \/ \E g : groupCache = {g}
      BY DEF Inv, CacheInv, CacheTypes
    <3>2. Cardinality(groupCache) = 0 \/ Cardinality(groupCache) = 1
      BY <3>1, FS_EmptySet, FS_Singleton, Zenon
    <3> QED BY <3>2
  <2>4. ASSUME NEW r \in Requests
        PROVE  /\ touched[r] \subseteq Lists \X (Members \cup {"exists"})
               /\ req[r].todo \subseteq Lists
               /\ \A d \in req[r].direct : d[1].who \in Persons /\ ~d[1].mixed /\ d[2] \in Lists
               /\ \A a \in DOMAIN req[r].entries :
                     req[r].entries[a].role \in {"", "member", "admin"}
    <3>1. req[r] \in Queries /\ touched[r] \subseteq Touchable
      BY DEF Inv, ReqInv, WorldInv
    <3>2. \A a \in Plains : a.who \in Persons /\ ~a.mixed
      BY PlainIs DEF Plains
    <3>3. req[r].direct \subseteq Plains \X Lists /\ req[r].todo \subseteq Lists
          /\ req[r].entries \in Placing(Addresses, EntryType)
      BY <3>1 DEF Queries
    <3>4. \A d \in req[r].direct : d[1].who \in Persons /\ ~d[1].mixed /\ d[2] \in Lists
      BY <3>2, <3>3
    <3>5. \A a \in DOMAIN req[r].entries : req[r].entries[a] \in EntryType
      BY <3>3 DEF Placing
    <3>6. \A a \in DOMAIN req[r].entries : req[r].entries[a].role \in {"", "member", "admin"}
      BY <3>5 DEF EntryType
    <3> QED BY <3>1, <3>3, <3>4, <3>6 DEF Touchable
  <2> QED BY <2>1, <2>2, <2>3, <2>4 DEF TypeOK
<1> QED BY <1>1, AlwaysInv, PTL

LEMMA HasHolds == \A l, p : Has(on, lists, l, p) <=> Holds(l, p)
BY DEF Has, Holds

\* What is told of a person's lists, by whichever view tells it.
LEMMA ToldIsSaid ==
    ASSUME Inv, NEW r \in Requests, NEW p \in Persons, NEW keys \in Told(r, p)
    PROVE  SaysLists(on, lists, touched[r], p, keys)
<1> DEFINE q == req[r]
<1>1. Truthful(on, lists, touched[r], q)
  BY DEF Inv, ReqInv
<1>2. CASE Done(r, "roster")
  <2> DEFINE told == {q.entries[a].groups : a \in DOMAIN q.entries \cap {Plain(p)}}
  <2>0. Told(r, p) = told
    <3> HIDE DEF told
    <3>1. q.kind = "roster" /\ q.pc = "done"
      BY <1>2 DEF Done
    <3> QED BY <3>1 DEF Told, Done, told
  <2>1. keys \in {q.entries[a].groups : a \in DOMAIN q.entries \cap {Plain(p)}}
    BY <2>0
  <2>2. Plain(p) \in DOMAIN q.entries /\ keys = q.entries[Plain(p)].groups
    BY <2>1
  <2>3. q.pc = "done" /\ q.kind = "roster"
    BY <1>2 DEF Done
  <2> QED BY <1>1, <2>2, <2>3 DEF Truthful, Answering
<1>3. CASE Done(r, "me")
  <2>1. keys \in IF q.known /\ q.subject = p THEN {q.keys} ELSE {}
    BY <1>3 DEF Told, Done
  <2>2. q.pc = "done" /\ q.kind = "me" /\ q.known /\ q.subject = p /\ keys = q.keys
    BY <1>3, <2>1 DEF Done
  <2> QED BY <1>1, <2>2 DEF Truthful, Answering
<1>4. CASE Done(r, "mine")
  <2>1. keys \in IF q.subject # p THEN {} ELSE {Items(q.sections)}
    BY <1>4 DEF Told, Done, Items
  <2>2. q.pc = "done" /\ q.kind = "mine" /\ q.subject = p /\ keys = Items(q.sections)
    BY <1>4, <2>1 DEF Done
  <2> QED BY <1>1, <2>2 DEF Truthful, Answering
<1>5. CASE ~Done(r, "roster") /\ ~Done(r, "me") /\ ~Done(r, "mine")
  BY <1>5 DEF Told
<1> QED BY <1>2, <1>3, <1>4, <1>5

\* Whatever stays as it is while a request runs is reported as it is, however
\* many people, lists and changes there are and whatever the chart says
\* (membership/service.go, directIndex and RosterGroupKeys; the handlers).
THEOREM StableIsReported == Spec => []StableReported
<1>1. Inv => StableReported
  <2> SUFFICES ASSUME Inv, NEW r \in Requests
               PROVE  /\ ListsTold(r)
                      /\ Done(r, "roster") => RosterTold(r)
                      /\ Done(r, "members") => MembersTold(r)
                      /\ Done(r, "mine") => LeaderTold(r)
                      /\ Done(r, "groups") => ListTold(r)
    BY DEF StableReported
  <2> DEFINE q == req[r]
  <2>1. Asked(q) /\ (q.pc = "done" => Answering(on, lists, touched[r], q))
    BY DEF Inv, ReqInv, Truthful
  <2>2. ListsTold(r)
    BY ToldIsSaid, HasHolds DEF ListsTold, SaysLists, Stable
  <2>3. ASSUME Done(r, "roster") PROVE RosterTold(r)
    <3>1. SaysPeople(on, lists, touched[r], DOMAIN q.entries)
      BY <2>1, <2>3 DEF Done, Answering
    <3>2. ASSUME NEW a \in DOMAIN q.entries PROVE a.who \in Persons /\ a = Plain(a.who)
      <4>1. PICK p \in Persons : a = Plain(p)
        BY <3>1 DEF SaysPeople, Plains
      <4> QED BY <4>1, PlainIs
    <3>3. \A p \in Persons : Stable(r, Login, p) =>
              (Plain(p) \in DOMAIN q.entries <=> Holds(Login, p))
      BY <3>1, HasHolds DEF SaysPeople, Stable
    <3> QED BY <3>2, <3>3 DEF RosterTold
  <2>4. ASSUME Done(r, "members") PROVE MembersTold(r)
    <3>1. SaysMembers(on, lists, touched[r], q.subject, DOMAIN q.entries)
      BY <2>1, <2>4 DEF Done, Answering
    <3> QED BY <3>1, HasHolds DEF SaysMembers, MembersTold, Stable
  <2>5. ASSUME Done(r, "mine") PROVE LeaderTold(r)
    <3>1. SaysLeader(on, lists, touched[r], q.subject, q.leader)
      BY <2>1, <2>5 DEF Done, Answering
    <3> QED BY <3>1, HasHolds DEF SaysLeader, LeaderTold, Stable
  <2>6. ASSUME Done(r, "groups") PROVE ListTold(r)
    <3>1. SaysExist(lists, touched[r], q.keys)
      BY <2>1, <2>6 DEF Done, Answering
    <3> QED BY <3>1 DEF SaysExist, ListTold, Stable
  <2> QED BY <2>2, <2>3, <2>4, <2>5, <2>6
<1> QED BY <1>1, AlwaysInv, PTL

\* Two views of one person's lists agree, about what is on them as about the
\* order, whichever requests give them, however often the lists change in
\* between and whatever the chart says: each is in the chart's order, which is a
\* total one (membership/service.go, visibleKeys and sectioned).
THEOREM ViewsNeverDisagree == Spec => []ViewsAgree
<1>1. Inv => ViewsAgree
  <2> SUFFICES ASSUME Inv, NEW r \in Requests, NEW s \in Requests, NEW p \in Persons,
                      NEW v \in Told(r, p), NEW w \in Told(s, p)
               PROVE  /\ \A l \in Lists : Stable(r, l, p) /\ Stable(s, l, p) =>
                            (l \in Range(v) <=> l \in Range(w))
                      /\ \A i, j \in DOMAIN v, m, n \in DOMAIN w :
                            v[i] = w[m] /\ v[j] = w[n] => (i < j <=> m < n)
    BY DEF ViewsAgree
  <2>1. SaysLists(on, lists, touched[r], p, v) /\ SaysLists(on, lists, touched[s], p, w)
    BY ToldIsSaid
  <2>2. \A l \in Lists : Stable(r, l, p) /\ Stable(s, l, p) => (l \in Range(v) <=> l \in Range(w))
    BY <2>1 DEF SaysLists, Stable
  <2>3. InOrder(v) /\ InOrder(w)
    BY <2>1 DEF SaysLists
  <2>4. \A keys : InOrder(keys) => \A i, j \in DOMAIN keys : i < j <=> Less(keys[i], keys[j])
    BY OrderedByPlace
  <2> QED BY <2>2, <2>3, <2>4
<1> QED BY <1>1, AlwaysInv, PTL

\* The roster names as admins exactly those whom signing in would make one
\* (rolesync.go, LocalRoles; user/handler.go, ListHandler).
THEOREM RosterNamesAdmins == Spec => []AdminsAgree
<1>1. Inv => AdminsAgree
  <2> SUFFICES ASSUME Inv, NEW r \in Requests, Done(r, "roster"),
                      NEW a \in DOMAIN req[r].entries, Stable(r, Login, a.who)
               PROVE  req[r].entries[a].role = "admin" <=>
                         /\ usableMemberStatus(on[Login][a.who].status)
                         /\ localRoleFor(on[Login][a.who].role) = "admin"
    BY DEF AdminsAgree
  <2> DEFINE q == req[r]
  <2>1. Answering(on, lists, touched[r], q) /\ q.kind = "roster"
    BY DEF Inv, ReqInv, Truthful, Done
  <2>2. PICK p \in Persons : a = Plain(p)
    BY <2>1 DEF Answering, SaysPeople, Plains
  <2>3. SaysRole(on, touched[r], p, q.entries[Plain(p)].role)
    BY <2>1, <2>2 DEF Answering
  <2>4. a.who = p
    BY <2>2, PlainIs
  <2> QED BY <2>2, <2>3, <2>4 DEF SaysRole, Stable
<1> QED BY <1>1, AlwaysInv, PTL
==============================================================================

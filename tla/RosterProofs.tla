----------------------------- MODULE RosterProofs -----------------------------
(***************************************************************************)
(* Theorems about Roster and GroupKeys, for any account, any spelling of   *)
(* the wishes and any number of requests.                                  *)
(***************************************************************************)
EXTENDS Roster, SequenceTheorems, TLAPS

------------------------------------------------------------------------------
(* Names of lists. *)

LEMMA BareKey == \A l : IsKey(Bare(l)) /\ Bare(l).local = l /\ Bare(l).domain = ""
BY DEF IsKey, Bare

LEMMA QualifiedKey ==
    ASSUME NEW k, IsKey(k), k.domain \in {"", Domain}
    PROVE  Qualified(k) = [local |-> k.local, domain |-> Domain]
BY DEF IsKey, Qualified

LEMMA ShortKey ==
    ASSUME NEW k, IsKey(k)
    PROVE  Short(k).local = k.local /\ (k.domain = Domain => Short(k) = Bare(k.local))
BY DEF IsKey, Short, Bare

LEMMA AddressKey ==
    ASSUME NEW g \in Groups, NEW a \in Addresses(g)
    PROVE  IsKey(a) /\ a = [local |-> a.local, domain |-> Domain] /\ a.domain = Domain
BY GroupsAssumption, RosterAssumption DEF IsKey

\* A key in the account's own domain that is known is resolved.
LEMMA KnownIsReached ==
    ASSUME NEW k, IsKey(k), k.domain \in {"", Domain}, Known(k)
    PROVE  Reached(k) # {}
<1>1. PICK g \in Groups : k = Bare(g.id) \/ \E a \in Addresses(g) : Same(Short(a), k)
  BY DEF Known
<1>2. CASE k = Bare(g.id)
  <2>1. g \in Named(k)
    BY <1>2 DEF Named
  <2> QED BY <2>1 DEF Reached
<1>3. CASE \E a \in Addresses(g) : Same(Short(a), k)
  <2>1. PICK a \in Addresses(g) : Same(Short(a), k)
    BY <1>3
  <2>2. Qualified(k) = a
    BY <2>1, AddressKey, ShortKey, QualifiedKey DEF Same
  <2>3. g \in Named(Qualified(k))
    BY <2>2 DEF Named
  <2> QED BY <2>3 DEF Reached
<1> QED BY <1>1, <1>2, <1>3

\* A list's shortened address names it, and nothing else by any resolution.
LEMMA ShortNames ==
    ASSUME NEW g \in Groups
    PROVE  LET k == Short(g.address) IN Named(Qualified(k)) = {g} /\ Named(k) = {}
<1> DEFINE k == Short(g.address)
<1>1. g.address \in Addresses(g)
  BY DEF Addresses
<1>2. k = Bare(g.address.local) /\ IsKey(k) /\ k.domain = "" /\ k.local = g.address.local
  <2>1. k = Bare(g.address.local)
    BY <1>1, AddressKey, ShortKey
  <2> QED BY <2>1, BareKey
<1>3. Qualified(k) = g.address
  BY <1>1, <1>2, AddressKey, QualifiedKey
<1>4. Named(Qualified(k)) = {g}
  <2>1. \A h \in Groups : g.address # Bare(h.id)
    BY <1>1, AddressKey, BareKey, GroupsAssumption
  <2>2. \A h \in Groups : g.address \in Addresses(h) => h = g
    BY <1>1, GroupsAssumption
  <2> QED BY <1>1, <1>3, <2>1, <2>2 DEF Named
<1>5. Named(k) = {}
  <2>1. ASSUME NEW h \in Groups PROVE k # Bare(h.id)
    <3>1. h.id # g.address.local
      BY <1>1, GroupsAssumption
    <3>2. Bare(h.id).local = h.id
      BY BareKey
    <3> QED BY <1>2, <3>1, <3>2
  <2>2. \A h \in Groups : k \notin Addresses(h)
    BY <1>2, GroupsAssumption
  <2> QED BY <2>1, <2>2 DEF Named
<1> QED BY <1>4, <1>5

LEMMA ShortInjective ==
    ASSUME NEW g \in Groups, NEW h \in Groups, Short(g.address) = Short(h.address)
    PROVE  g = h
BY ShortNames

\* However the configuration spells it, the login group answers to its key alone.
LEMMA LoginNames ==
    /\ Login.address \in Addresses(Login) /\ Login.address.local = LoginKey.local
    /\ \/ Named(Qualified(LoginKey)) = {Login} /\ Named(LoginKey) \subseteq {Login}
       \/ Named(Qualified(LoginKey)) = {} /\ Named(LoginKey) = {Login}
<1>1. Login.address \in Addresses(Login) /\ Login.address.local = LoginKey.local
  BY RosterAssumption DEF Addresses, Same
<1>2. CASE Named(Qualified(LoginKey)) = {}
  BY <1>1, <1>2, RosterAssumption DEF Reached
<1>3. CASE Named(Qualified(LoginKey)) # {}
  <2>1. Named(Qualified(LoginKey)) = {Login}
    BY <1>3, RosterAssumption DEF Reached
  <2>2. ASSUME NEW g \in Named(LoginKey) PROVE g = Login
    <3>1. g \in Groups /\ (LoginKey = Bare(g.id) \/ LoginKey \in Addresses(g))
      BY <2>2 DEF Named
    <3>2. LoginKey # Bare(g.id)
      <4>1. Login \in Groups
        BY RosterAssumption
      <4>2. g.id # LoginKey.local
        BY <1>1, <3>1, <4>1, GroupsAssumption
      <4>3. Bare(g.id).local = g.id
        BY BareKey
      <4> QED BY <4>2, <4>3
    <3> QED BY <3>1, <3>2, RosterAssumption DEF Same
  <2> QED BY <1>1, <2>1, <2>2
<1> QED BY <1>1, <1>2, <1>3

------------------------------------------------------------------------------
(* What an add writes. *)

Normal == {Normalized(wish) : wish \in Wishes}
WishSet == Wishes \cup {<<>>} \cup Normal
Asked == UNION {{wish[i] : i \in DOMAIN wish} : wish \in Wishes \cup Normal}
LoginEntry == [key : {LoginKey}, role : GroupRoles]
Entry == Asked \cup LoginEntry

\* Normalising leaves the keys alone, and a normalised wish as it is.
LEMMA NormalizedEntries ==
    ASSUME NEW wish
    PROVE  /\ DOMAIN Normalized(wish) = DOMAIN wish
           /\ \A i \in DOMAIN wish : Normalized(wish)[i].key = wish[i].key
BY DEF Normalized

LEMMA NormalizeTwice == \A role : NormalizeRole(NormalizeRole(role)) = NormalizeRole(role)
<1> DEFINE Meant(role) == {g \in GroupRoles : role \in Spellings[g]}
<1>1. \A g \in GroupRoles : Meant(g) = {}
  <2>1. /\ Spellings["MEMBER"] = {"", "member"} /\ Spellings["MANAGER"] = {"manager"}
        /\ Spellings["OWNER"] = {"owner"}
    BY DEF Spellings
  <2>2. \A g, h \in GroupRoles : g \notin Spellings[h]
    BY <2>1 DEF GroupRoles
  <2> QED BY <2>2
<1>2. \A role : Meant(role) # {} => NormalizeRole(role) \in GroupRoles
  BY DEF NormalizeRole
<1>3. \A role : Meant(role) = {} => NormalizeRole(role) = role
  BY DEF NormalizeRole
<1> HIDE DEF Meant
<1> QED BY <1>1, <1>2, <1>3

LEMMA NormalizedWish ==
    ASSUME NEW wish \in WishSet
    PROVE  Normalized(wish) \in WishSet
<1>1. CASE wish \in Wishes
  BY <1>1 DEF WishSet, Normal
<1>2. CASE wish = <<>>
  <2>1. Normalized(wish) = <<>>
    BY <1>2 DEF Normalized
  <2> QED BY <2>1 DEF WishSet
<1>3. CASE wish \in Normal
  <2>1. PICK asked \in Wishes : wish = Normalized(asked)
    BY <1>3 DEF Normal
  <2>2. DOMAIN wish = DOMAIN asked
    BY <2>1, NormalizedEntries
  <2>3. \A i \in DOMAIN asked :
           wish[i] = [key |-> asked[i].key, role |-> NormalizeRole(asked[i].role)]
    BY <2>1 DEF Normalized
  <2>4. ASSUME NEW i \in DOMAIN asked
        PROVE  [key |-> wish[i].key, role |-> NormalizeRole(wish[i].role)] = wish[i]
    <3> DEFINE role == NormalizeRole(asked[i].role)
    <3>1. wish[i].key = asked[i].key /\ wish[i].role = role
      <4>1. wish[i] = [key |-> asked[i].key, role |-> role]
        BY <2>3
      <4> HIDE DEF role
      <4> QED BY <4>1
    <3>2. NormalizeRole(wish[i].role) = NormalizeRole(asked[i].role)
      BY <3>1, NormalizeTwice
    <3> QED BY <2>3, <3>1, <3>2
  <2>5. Normalized(wish) = [i \in DOMAIN asked |-> wish[i]]
    BY <2>2, <2>4 DEF Normalized
  <2>6. wish = [i \in DOMAIN asked |-> wish[i]]
    BY <2>1 DEF Normalized
  <2> QED BY <2>5, <2>6, <1>3 DEF WishSet
<1> QED BY <1>1, <1>2, <1>3 DEF WishSet

LEMMA WishType ==
    ASSUME NEW wish \in WishSet
    PROVE  /\ wish \in Seq(Entry) /\ Len(wish) \in Nat /\ DOMAIN wish = 1..Len(wish)
           /\ \A i \in DOMAIN wish : wish[i] \in Entry /\ IsKey(wish[i].key)
<1>1. CASE wish \in Wishes
  <2> DEFINE own == {wish[i] : i \in DOMAIN wish}
  <2>1. wish \in Seq(own) /\ own \subseteq Entry
    BY <1>1, RosterAssumption DEF Entry, Asked
  <2>2. wish \in Seq(Entry)
    <3> HIDE DEF own
    <3> QED BY <2>1, SeqMonotonic
  <2> QED BY <1>1, <2>2, RosterAssumption, LenProperties, ElementOfSeq
<1>2. CASE wish = <<>>
  BY <1>2
<1>3. CASE wish \in Normal
  <2>1. PICK asked \in Wishes : wish = Normalized(asked)
    BY <1>3 DEF Normal
  <2> DEFINE own == {asked[i] : i \in DOMAIN asked}
  <2>2. asked \in Seq(own) /\ \A i \in DOMAIN asked : IsKey(asked[i].key)
    BY RosterAssumption
  <2>3. Len(asked) \in Nat /\ DOMAIN asked = 1..Len(asked)
    <3> HIDE DEF own
    <3> QED BY <2>2, LenProperties
  <2>4. DOMAIN wish = 1..Len(asked) /\ \A i \in DOMAIN wish : IsKey(wish[i].key)
    BY <2>1, <2>2, <2>3, NormalizedEntries
  <2>5. \A i \in DOMAIN wish : wish[i] \in Entry
    BY <1>3 DEF Entry, Asked
  <2>6. wish = [i \in 1..Len(asked) |-> wish[i]]
    BY <2>1, <2>3 DEF Normalized
  <2>7. wish \in Seq(Entry) /\ Len(wish) = Len(asked)
    <3> HIDE DEF own
    <3>1. wish \in [1..Len(asked) -> Entry]
      BY <2>4, <2>5, <2>6
    <3> QED BY <2>3, <3>1
  <2> QED BY <2>3, <2>4, <2>5, <2>7
<1> QED BY <1>1, <1>2, <1>3 DEF WishSet

LEMMA TailEntries ==
    ASSUME NEW S, NEW s \in Seq(S), s # <<>>
    PROVE  /\ \A i \in 1..Len(Tail(s)) : i + 1 \in 1..Len(s) /\ Tail(s)[i] = s[i + 1]
           /\ \A n \in 2..Len(s) : \E i \in 1..Len(Tail(s)) : Tail(s)[i] = s[n]
           /\ Head(s) = s[1]
<1> DEFINE t == Tail(s)
<1>1. Len(s) \in Nat \ {0} /\ Len(t) = Len(s) - 1 /\ \A i \in 1..Len(t) : t[i] = s[i + 1]
  BY HeadTailProperties, EmptySeq
<1> HIDE DEF t
<1>2. ASSUME NEW i \in 1..Len(t) PROVE i + 1 \in 1..Len(s)
  BY <1>1
<1>3. ASSUME NEW n \in 2..Len(s) PROVE \E i \in 1..Len(t) : t[i] = s[n]
  <2>1. n - 1 \in 1..Len(t) /\ (n - 1) + 1 = n
    BY <1>1
  <2> QED BY <1>1, <2>1
<1>4. Head(s) = s[1]
  OBVIOUS
<1> QED BY <1>1, <1>2, <1>3, <1>4 DEF t

\* A wish names the login group at most once.
LEMMA OneLogin ==
    ASSUME NEW wish \in WishSet, ~Repeats(wish), NamesLogin(wish)
    PROVE  /\ LoginAt(wish) \in DOMAIN wish /\ ForLogin(wish[LoginAt(wish)])
           /\ \A i \in DOMAIN wish : ForLogin(wish[i]) => i = LoginAt(wish)
<1>1. LoginAt(wish) \in DOMAIN wish /\ ForLogin(wish[LoginAt(wish)])
  BY DEF NamesLogin, LoginAt
<1>2. ASSUME NEW i \in DOMAIN wish, ForLogin(wish[i]), i # LoginAt(wish) PROVE FALSE
  <2>1. Same(wish[i].key, wish[LoginAt(wish)].key) /\ Same(wish[LoginAt(wish)].key, wish[i].key)
    BY <1>1, <1>2 DEF ForLogin, Same
  <2>2. i < LoginAt(wish) \/ LoginAt(wish) < i
    BY <1>1, <1>2, WishType
  <2> QED BY <1>1, <1>2, <2>1, <2>2 DEF Repeats
<1> QED BY <1>1, <1>2

\* Others leaves out the login group's entry, and nothing else.
LEMMA OthersProperties ==
    ASSUME NEW wish \in WishSet, ~Repeats(wish)
    PROVE  /\ Others(wish) \in Seq(Entry) /\ Len(Others(wish)) \in Nat
           /\ \A j \in 1..Len(Others(wish)) :
                 \E i \in DOMAIN wish : Others(wish)[j] = wish[i] /\ ~ForLogin(wish[i])
           /\ \A i \in DOMAIN wish : ~ForLogin(wish[i]) =>
                 \E j \in 1..Len(Others(wish)) : Others(wish)[j] = wish[i]
<1>1. wish \in Seq(Entry) /\ Len(wish) \in Nat /\ DOMAIN wish = 1..Len(wish)
      /\ \A i \in 1..Len(wish) : wish[i] \in Entry
  BY WishType
<1>2. CASE ~NamesLogin(wish)
  BY <1>1, <1>2 DEF Others, NamesLogin
<1>3. CASE NamesLogin(wish)
  <2> DEFINE n == LoginAt(wish)
             a == SubSeq(wish, 1, n - 1)
             b == SubSeq(wish, n + 1, Len(wish))
  <2>1. n \in 1..Len(wish) /\ \A i \in DOMAIN wish : ForLogin(wish[i]) <=> i = n
    BY <1>1, <1>3, OneLogin
  <2>2. /\ a \in Seq(Entry) /\ Len(a) = n - 1
        /\ \A i \in 1..(n - 1) : a[i] = wish[i]
    <3>1. \A i \in 1..(n - 1) : wish[i] \in Entry
      BY <1>1, <2>1
    <3> HIDE DEF n
    <3> QED BY <2>1, <3>1, SubSeqProperties
  <2>3. /\ b \in Seq(Entry) /\ Len(b) = Len(wish) - n
        /\ \A i \in 1..(Len(wish) - n) : b[i] = wish[n + i]
    <3>1. \A i \in (n + 1)..Len(wish) : wish[i] \in Entry
      BY <1>1, <2>1
    <3> HIDE DEF n
    <3> QED BY <1>1, <2>1, <3>1, SubSeqProperties
  <2>4. Others(wish) = a \o b
    BY <1>3 DEF Others
  <2> HIDE DEF n, a, b
  <2>5. /\ a \o b \in Seq(Entry) /\ Len(a \o b) = Len(wish) - 1
        /\ \A j \in 1..(Len(wish) - 1) : (a \o b)[j] = IF j <= n - 1 THEN a[j] ELSE b[j - (n - 1)]
    <3>1. /\ a \o b \in Seq(Entry) /\ Len(a \o b) = Len(a) + Len(b)
          /\ \A j \in 1..(Len(a) + Len(b)) : (a \o b)[j] = IF j <= Len(a) THEN a[j] ELSE b[j - Len(a)]
      BY <2>2, <2>3, ConcatProperties
    <3>2. Len(a) + Len(b) = Len(wish) - 1
      BY <1>1, <2>1, <2>2, <2>3
    <3> QED BY <2>2, <3>1, <3>2
  <2>6. \A j \in 1..(Len(wish) - 1) : (a \o b)[j] = IF j < n THEN wish[j] ELSE wish[j + 1]
    BY <1>1, <2>1, <2>2, <2>3, <2>5
  <2>7. ASSUME NEW j \in 1..Len(a \o b)
        PROVE  \E i \in DOMAIN wish : (a \o b)[j] = wish[i] /\ ~ForLogin(wish[i])
    <3>1. (IF j < n THEN j ELSE j + 1) \in 1..Len(wish) \ {n}
      BY <1>1, <2>1, <2>5
    <3> QED BY <1>1, <2>1, <2>5, <2>6, <3>1
  <2>8. ASSUME NEW i \in DOMAIN wish, ~ForLogin(wish[i])
        PROVE  \E j \in 1..Len(a \o b) : (a \o b)[j] = wish[i]
    <3>1. i # n /\ i \in 1..Len(wish)
      BY <1>1, <2>1, <2>8
    <3>2. CASE i < n
      <4>1. i \in 1..(Len(wish) - 1)
        BY <1>1, <2>1, <3>1, <3>2
      <4> QED BY <2>5, <2>6, <3>2, <4>1
    <3>3. CASE i > n
      <4>1. i - 1 \in 1..(Len(wish) - 1) /\ ~(i - 1 < n) /\ (i - 1) + 1 = i
        BY <1>1, <2>1, <3>1, <3>3
      <4> QED BY <2>5, <2>6, <4>1
    <3> QED BY <1>1, <2>1, <3>1, <3>2, <3>3
  <2>9. Len(a \o b) \in Nat
    BY <1>1, <2>1, <2>5
  <2> DEFINE o == a \o b
  <2>10. o = Others(wish) /\ o \in Seq(Entry) /\ Len(o) \in Nat
    BY <2>4, <2>5, <2>9
  <2>11. \A j \in 1..Len(o) : \E i \in DOMAIN wish : o[j] = wish[i] /\ ~ForLogin(wish[i])
    BY <2>7
  <2>12. \A i \in DOMAIN wish : ~ForLogin(wish[i]) => \E j \in 1..Len(o) : o[j] = wish[i]
    BY <2>8
  <2> HIDE DEF o
  <2> QED BY <2>10, <2>11, <2>12
<1> QED BY <1>2, <1>3

\* What an add that is not refused writes: the login group, then each other list named.
LEMMA WritesProperties ==
    ASSUME NEW wish \in WishSet, ~Refused(wish)
    PROVE  /\ Writes(wish) \in Seq(Entry) /\ Len(Writes(wish)) \in Nat \ {0}
           /\ Writes(wish)[1] = LoginWrite(wish) /\ LoginWrite(wish).key = LoginKey
           /\ LoginWrite(wish).role \in GroupRoles
           /\ \A j \in 2..Len(Writes(wish)) :
                 \E i \in DOMAIN wish : Writes(wish)[j] = wish[i] /\ ~ForLogin(wish[i])
           /\ \A i \in DOMAIN wish : ~ForLogin(wish[i]) =>
                 \E j \in 2..Len(Writes(wish)) : Writes(wish)[j] = wish[i]
<1>1. ~Repeats(wish) /\ ~Malformed(wish)
  BY DEF Refused
<1>2. LoginWrite(wish).key = LoginKey /\ LoginWrite(wish).role \in GroupRoles
      /\ LoginWrite(wish) \in Entry
  <2>1. ASSUME NamesLogin(wish) PROVE LoginWrite(wish).role \in GroupRoles
    <3>1. wish[LoginAt(wish)].role \in GroupRoles
      BY <1>1, <2>1, OneLogin DEF Malformed
    <3> QED BY <2>1, <3>1 DEF LoginWrite
  <2>2. ASSUME ~NamesLogin(wish) PROVE LoginWrite(wish).role \in GroupRoles
    <3>1. "MEMBER" \in GroupRoles
      BY DEF GroupRoles
    <3> QED BY <2>2, <3>1 DEF LoginWrite
  <2>3. LoginWrite(wish).key = LoginKey /\ LoginWrite(wish).role \in GroupRoles
    BY <2>1, <2>2 DEF LoginWrite
  <2>4. LoginWrite(wish) = [key |-> LoginKey, role |-> LoginWrite(wish).role]
    BY DEF LoginWrite
  <2>5. LoginWrite(wish) \in LoginEntry
    BY <2>3, <2>4 DEF LoginEntry
  <2> QED BY <2>3, <2>5 DEF Entry
<1> DEFINE l == LoginWrite(wish)
           o == Others(wish)
<1>3. o \in Seq(Entry) /\ Len(o) \in Nat /\ <<l>> \in Seq(Entry) /\ Len(<<l>>) = 1 /\ <<l>>[1] = l
  BY <1>1, <1>2, OthersProperties
<1>4. Writes(wish) = <<l>> \o o
  BY DEF Writes
<1> HIDE DEF l, o
<1>5. /\ Writes(wish) \in Seq(Entry) /\ Len(Writes(wish)) = 1 + Len(o)
      /\ \A j \in 1..(1 + Len(o)) : Writes(wish)[j] = IF j <= 1 THEN <<l>>[j] ELSE o[j - 1]
  BY <1>3, <1>4, ConcatProperties
<1>6. Writes(wish)[1] = l
  BY <1>3, <1>5
<1>7. \A j \in 1..Len(o) : Writes(wish)[j + 1] = o[j]
  BY <1>3, <1>5
<1>8. ASSUME NEW j \in 2..Len(Writes(wish))
      PROVE  \E i \in DOMAIN wish : Writes(wish)[j] = wish[i] /\ ~ForLogin(wish[i])
  <2>1. j - 1 \in 1..Len(o) /\ Writes(wish)[j] = o[j - 1]
    BY <1>3, <1>5, <1>8
  <2> QED BY <1>1, <2>1, OthersProperties DEF o
<1>9. ASSUME NEW i \in DOMAIN wish, ~ForLogin(wish[i])
      PROVE  \E j \in 2..Len(Writes(wish)) : Writes(wish)[j] = wish[i]
  <2>1. PICK j \in 1..Len(o) : o[j] = wish[i]
    BY <1>1, <1>9, OthersProperties DEF o
  <2>2. j + 1 \in 2..Len(Writes(wish))
    BY <1>3, <1>5, <2>1
  <2> QED BY <1>7, <2>1, <2>2
<1> QED BY <1>2, <1>3, <1>5, <1>6, <1>8, <1>9 DEF l

\* An add's answer names whatever the wish names, in the login group's own
\* spelling too.
LEMMA WrittenNamesProperties ==
    ASSUME NEW wish \in WishSet, ~Refused(wish), NEW i \in DOMAIN wish
    PROVE  wish[i].key.local \in WrittenNames(wish)
<1>1. DOMAIN Writes(wish) = 1..Len(Writes(wish)) /\ Len(Writes(wish)) \in Nat \ {0}
  BY WritesProperties, LenProperties
<1>2. CASE ForLogin(wish[i])
  BY <1>1, <1>2, WritesProperties DEF WrittenNames, ForLogin, Same
<1>3. CASE ~ForLogin(wish[i])
  <2>1. PICK j \in 2..Len(Writes(wish)) : Writes(wish)[j] = wish[i]
    BY <1>3, WritesProperties
  <2> QED BY <1>1, <2>1 DEF WrittenNames
<1> QED BY <1>2, <1>3

------------------------------------------------------------------------------
(* The inductive invariant. *)

Locals == {g.address.local : g \in Groups} \cup {e.key.local : e \in Entry}

Job == [wish : WishSet, writes : Seq(Entry), first : BOOLEAN,
        role : GroupRoles \cup {""}, shown : SUBSET Locals,
        told : {"", "member", "admin"},
        lists : SUBSET {Short(g.address) : g \in Groups},
        undisturbed : BOOLEAN, unshown : SUBSET Groups]

TypeInv == TypeOK /\ job \in [Requests -> Job]

\* What "mixed" and "undisturbed" record.
MixInv ==
    /\ ~mixed => \A r \in Requests :
          /\ pc[r] \in Adding => \A q \in Requests : pc[q] \notin Removing
          /\ pc[r] \in Adding \cup Removing => job[r].undisturbed
    /\ \A r \in Requests : job[r].undisturbed =>
          /\ pc[r] \in Removing \cup {"removed"} => \A q \in Requests : pc[q] \notin Adding
          /\ pc[r] \in Adding \cup {"added"} => \A q \in Requests : pc[q] \notin Removing

\* What an add has left to write, and what it answers.
Planned(r) ==
    /\ pc[r] = "plan" => job[r].first /\ job[r].role = ""
    /\ pc[r] \in {"write", "tellRole", "added"} => ~Refused(job[r].wish)
    /\ pc[r] = "write" =>
          /\ \A i \in 1..Len(job[r].writes) : LET w == job[r].writes[i] IN
                /\ w.role \in GroupRoles
                /\ IsKey(w.key) /\ (w.key = LoginKey \/ Known(w.key))
          /\ job[r].first => job[r].writes = Writes(job[r].wish) /\ job[r].role = ""
    /\ pc[r] \in {"tellRole", "added"} =>
          \A i \in DOMAIN job[r].wish : job[r].wish[i].key.local \in job[r].shown \cup HiddenNames
    /\ pc[r] = "added" /\ job[r].role # "" => job[r].told = LocalRoleFor(job[r].role)

\* What an add has done, as long as no removal has run beside it.
Wrote(r) == pc[r] \in {"tellRole", "added"} \/ (pc[r] = "write" /\ ~job[r].first)
Done(r) ==
    job[r].undisturbed /\ Wrote(r) =>
        /\ on[Login] # "none"
        /\ job[r].role # "" => on[Login] = job[r].role
        /\ \A i \in DOMAIN job[r].wish : LET w == job[r].wish[i] IN
              \/ ForLogin(w)
              \/ pc[r] = "write" /\ \E n \in 1..Len(job[r].writes) : job[r].writes[n] = w
              \/ \E g \in Reached(w.key) : on[g] # "none"

\* The login group is kept for last.
Kept(r) == pc[r] = "drop" => Short(Login.address) \notin job[r].lists

\* What a removal has done, as long as no add has run beside it.
Gone(r) ==
    job[r].undisturbed =>
        /\ pc[r] = "drop" =>
              \A g \in Groups \ {Login} : on[g] # "none" =>
                 Short(g.address) \in job[r].lists \/ g \in job[r].unshown
        /\ pc[r] = "dropLogin" =>
              \A g \in Groups \ {Login} : on[g] # "none" => g \in job[r].unshown
        /\ pc[r] = "removed" =>
              on[Login] = "none" /\ \A g \in Groups : on[g] # "none" => g \in job[r].unshown

AddInv == MixInv /\ \A r \in Requests : Planned(r) /\ Done(r)
RemoveInv == RosterCoversLists /\ \A r \in Requests : Kept(r) /\ Gone(r)

------------------------------------------------------------------------------
(* Types. *)

Level == GroupRoles \cup {"none"}
Places == Adding \cup Removing \cup Resting

LEMMA TypeParts ==
    TypeInv <=> /\ on \in [Groups -> Level] /\ shows \in [Groups -> Level]
                /\ pc \in [Requests -> Places] /\ mixed \in BOOLEAN
                /\ job \in [Requests -> Job] /\ overlooked \in SUBSET Groups
<1>1. ASSUME job \in [Requests -> Job], NEW r \in Requests
      PROVE  /\ job[r].wish \in Wishes \cup {<<>>} \cup {Normalized(wish) : wish \in Wishes}
             /\ job[r].lists \subseteq {Short(g.address) : g \in Groups}
             /\ job[r].unshown \subseteq Groups
             /\ job[r].role \in GroupRoles \cup {""}
             /\ job[r].told \in {"", "member", "admin"}
             /\ {job[r].first, job[r].undisturbed} \subseteq BOOLEAN
  <2>1. job[r] \in Job
    BY <1>1
  <2> QED BY <2>1 DEF Job, WishSet, Normal
<1> QED BY <1>1 DEF TypeInv, TypeOK, Level, Places

LEMMA TypePartsNext ==
    TypeInv' <=> /\ on' \in [Groups -> Level] /\ shows' \in [Groups -> Level]
                 /\ pc' \in [Requests -> Places] /\ mixed' \in BOOLEAN
                 /\ job' \in [Requests -> Job] /\ overlooked' \in SUBSET Groups
<1> DEFINE Typed == /\ on \in [Groups -> Level] /\ shows \in [Groups -> Level]
                    /\ pc \in [Requests -> Places] /\ mixed \in BOOLEAN
                    /\ job \in [Requests -> Job] /\ overlooked \in SUBSET Groups
<1>1. TypeInv <=> Typed
  BY TypeParts
<1> HIDE DEF Typed
<1>2. TypeInv' <=> Typed'
  BY <1>1, PTL
<1> QED BY <1>2 DEF Typed

LEMMA RoleNames == "MEMBER" \in GroupRoles /\ "none" \notin GroupRoles /\ "" \notin GroupRoles
BY DEF GroupRoles

LEMMA NoJobType == NoJob \in Job /\ \A wish \in Wishes : [NoJob EXCEPT !.wish = wish] \in Job
<1>1. <<>> \in Seq(Entry) /\ <<>> \in WishSet /\ \A wish \in Wishes : wish \in WishSet
  BY EmptySeq DEF WishSet
<1>2. {} \in SUBSET Locals /\ {} \in SUBSET {Short(g.address) : g \in Groups} /\ {} \in SUBSET Groups
  OBVIOUS
<1> QED BY <1>1, <1>2 DEF NoJob, Job

\* How a request changes what it remembers.
LEMMA JobUpdates ==
    ASSUME NEW j \in Job
    PROVE  /\ \A wish \in WishSet, s \in Seq(Entry) : [j EXCEPT !.wish = wish, !.writes = s] \in Job
           /\ \A s \in Seq(Entry), role \in GroupRoles \cup {""} :
                 [j EXCEPT !.writes = s, !.first = FALSE, !.role = role] \in Job
           /\ \A s \in Seq(Entry) : [j EXCEPT !.writes = s, !.first = FALSE] \in Job
           /\ \A shown \in SUBSET Locals : [j EXCEPT !.shown = shown] \in Job
           /\ \A told \in {"member", "admin"} : [j EXCEPT !.told = told] \in Job
           /\ \A lists \in SUBSET {Short(g.address) : g \in Groups} :
                 /\ [j EXCEPT !.lists = lists] \in Job
                 /\ \A gs \in SUBSET Groups : [j EXCEPT !.lists = lists, !.unshown = gs] \in Job
           /\ \A b \in BOOLEAN : [j EXCEPT !.undisturbed = b] \in Job
<1> DEFINE Lists == SUBSET {Short(g.address) : g \in Groups}
           Names == SUBSET Locals
           Lines == Seq(Entry)
<1>1. j \in [wish : WishSet, writes : Lines, first : BOOLEAN, role : GroupRoles \cup {""},
             shown : Names, told : {"", "member", "admin"}, lists : Lists,
             undisturbed : BOOLEAN, unshown : SUBSET Groups]
  BY DEF Job
<1> HIDE DEF Lists, Names, Lines
<1> SUFFICES
      LET J == [wish : WishSet, writes : Lines, first : BOOLEAN, role : GroupRoles \cup {""},
                shown : Names, told : {"", "member", "admin"}, lists : Lists,
                undisturbed : BOOLEAN, unshown : SUBSET Groups]
      IN   /\ \A wish \in WishSet, s \in Lines : [j EXCEPT !.wish = wish, !.writes = s] \in J
           /\ \A s \in Lines, role \in GroupRoles \cup {""} :
                 [j EXCEPT !.writes = s, !.first = FALSE, !.role = role] \in J
           /\ \A s \in Lines : [j EXCEPT !.writes = s, !.first = FALSE] \in J
           /\ \A shown \in Names : [j EXCEPT !.shown = shown] \in J
           /\ \A told \in {"member", "admin"} : [j EXCEPT !.told = told] \in J
           /\ \A lists \in Lists :
                 /\ [j EXCEPT !.lists = lists] \in J
                 /\ \A gs \in SUBSET Groups : [j EXCEPT !.lists = lists, !.unshown = gs] \in J
           /\ \A b \in BOOLEAN : [j EXCEPT !.undisturbed = b] \in J
  BY DEF Job, Lists, Names, Lines
<1> QED BY <1>1

\* The effect of writing or removing one membership.
LEMMA SetEffect ==
    ASSUME TypeInv, NEW g \in Groups, NEW role \in Level, Set(g, role)
    PROVE  /\ on' \in [Groups -> Level] /\ shows' \in [Groups -> Level]
           /\ \A h \in Groups : on'[h] = IF h = g THEN role ELSE on[h]
BY TypeParts DEF Set

\* Removing by a name that resolves to one list changes that list alone.
LEMMA RemoveEffect ==
    ASSUME TypeInv, NEW g \in Groups, NEW k, Remove(k),
           \/ Named(Qualified(k)) = {g} /\ Named(k) \subseteq {g}
           \/ Named(Qualified(k)) = {} /\ Named(k) = {g}
    PROVE  /\ on' \in [Groups -> Level] /\ shows' \in [Groups -> Level]
           /\ \A h \in Groups : on'[h] = IF h = g THEN "none" ELSE on[h]
<1> DEFINE direct == {h \in Named(Qualified(k)) : on[h] # "none"}
           found == IF direct # {} THEN direct ELSE {h \in Named(k) : on[h] # "none"}
<1>1. found = IF on[g] # "none" THEN {g} ELSE {}
  OBVIOUS
<1>2. (\E h \in found : Set(h, "none")) \/ (found = {} /\ UNCHANGED <<on, shows>>)
  BY DEF Remove
<1> HIDE DEF found
<1>3. CASE on[g] # "none"
  <2>1. Set(g, "none")
    BY <1>1, <1>2, <1>3
  <2>2. "none" \in Level
    BY DEF Level
  <2> QED BY <2>1, <2>2, SetEffect
<1>4. CASE on[g] = "none"
  BY <1>1, <1>2, <1>4, TypeParts
<1> QED BY <1>3, <1>4

------------------------------------------------------------------------------
(* What each action does, to the request that takes it and to the others. *)

\* A request that another one's step leaves alone, except for disturbing it.
Keeps(q) ==
    /\ pc'[q] = pc[q]
    /\ job'[q] = job[q] \/ (job'[q] = [job[q] EXCEPT !.undisturbed = FALSE])
OthersKeep(r) == \A q \in Requests \ {r} : pc'[q] = pc[q] /\ job'[q] = job[q]

LEMMA StartEffect ==
    ASSUME TypeInv, NEW r \in Requests, NEW l \in {"plan", "expand"}, NEW new \in Job,
           NEW opposite, Start(r, l, new, opposite)
    PROVE  /\ TypeInv' /\ UNCHANGED <<on, shows, overlooked>>
           /\ pc[r] \in Resting /\ pc'[r] = l
           /\ job'[r].role = new.role /\ job'[r].first = new.first
           /\ ~mixed' => ~mixed
           /\ job'[r].undisturbed \/ ~mixed' =>
                 \A q \in Requests : pc[q] \in opposite => pc[q] \in Resting
           /\ ~mixed' => job'[r].undisturbed
           /\ \A q \in Requests \ {r} :
                 Keeps(q) /\ (pc[q] \in opposite => ~job'[q].undisturbed)
                          /\ (pc[q] \notin opposite => job'[q] = job[q])
<1> DEFINE others == {q \in Requests : pc[q] \in opposite}
           served == {q \in others : pc[q] \notin Resting}
<1>1. /\ pc[r] \in Resting /\ pc' = [pc EXCEPT ![r] = l] /\ UNCHANGED <<on, shows, overlooked>>
      /\ job' = [q \in Requests |->
                   IF q = r THEN [new EXCEPT !.undisturbed = served = {}]
                   ELSE [job[q] EXCEPT !.undisturbed = @ /\ q \notin others]]
      /\ mixed' = (mixed \/ served # {})
  BY DEF Start, Goto
<1>2. /\ on \in [Groups -> Level] /\ shows \in [Groups -> Level]
      /\ pc \in [Requests -> Places] /\ mixed \in BOOLEAN /\ job \in [Requests -> Job]
      /\ overlooked \in SUBSET Groups
  BY TypeParts
<1>3. job'[r] = [new EXCEPT !.undisturbed = (served = {})] /\ job'[r] \in Job
      /\ (job'[r].undisturbed <=> served = {})
      /\ job'[r].role = new.role /\ job'[r].first = new.first
  <2>1. job'[r] = [new EXCEPT !.undisturbed = (served = {})]
    BY <1>1
  <2>2. (served = {}) \in BOOLEAN
    OBVIOUS
  <2> HIDE DEF served
  <2>3. [new EXCEPT !.undisturbed = (served = {})] \in Job
    BY <2>2, JobUpdates
  <2>4. /\ [new EXCEPT !.undisturbed = (served = {})].undisturbed = (served = {})
        /\ [new EXCEPT !.undisturbed = (served = {})].role = new.role
        /\ [new EXCEPT !.undisturbed = (served = {})].first = new.first
    BY DEF Job
  <2> QED BY <2>1, <2>3, <2>4
<1>4. ASSUME NEW q \in Requests \ {r}
      PROVE  /\ job'[q] \in Job
             /\ pc[q] \in opposite => job'[q] = [job[q] EXCEPT !.undisturbed = FALSE] /\ ~job'[q].undisturbed
             /\ pc[q] \notin opposite => job'[q] = job[q]
  <2>1. job[q] \in Job /\ job[q].undisturbed \in BOOLEAN
    BY <1>2 DEF Job
  <2>2. job'[q] = [job[q] EXCEPT !.undisturbed = (job[q].undisturbed /\ q \notin others)]
    BY <1>1
  <2>3. CASE pc[q] \in opposite
    <3>1. job'[q] = [job[q] EXCEPT !.undisturbed = FALSE]
      BY <2>2, <2>3
    <3>2. [job[q] EXCEPT !.undisturbed = FALSE] \in Job
      BY <2>1, JobUpdates
    <3>3. ~[job[q] EXCEPT !.undisturbed = FALSE].undisturbed
      BY <2>1 DEF Job
    <3> QED BY <2>3, <3>1, <3>2, <3>3
  <2>4. CASE pc[q] \notin opposite
    <3>1. job'[q] = [job[q] EXCEPT !.undisturbed = job[q].undisturbed]
      BY <2>1, <2>2, <2>4
    <3>2. [job[q] EXCEPT !.undisturbed = job[q].undisturbed] = job[q]
      BY <2>1 DEF Job
    <3> QED BY <2>1, <2>4, <3>1, <3>2
  <2> QED BY <2>3, <2>4
<1>5. job' \in [Requests -> Job]
  <2>1. DOMAIN job' = Requests /\ job' = [q \in Requests |-> job'[q]]
    BY <1>1
  <2> QED BY <1>3, <1>4, <2>1
<1>6. TypeInv'
  <2>1. pc' \in [Requests -> Places]
    BY <1>1, <1>2 DEF Places, Adding, Removing
  <2>2. /\ mixed' \in BOOLEAN /\ on' \in [Groups -> Level] /\ shows' \in [Groups -> Level]
        /\ overlooked' \in SUBSET Groups
    BY <1>1, <1>2
  <2> QED BY <1>5, <2>1, <2>2, TypePartsNext
<1>7. \A q \in Requests \ {r} : pc'[q] = pc[q]
  BY <1>1, <1>2
<1>8. served = {} => \A q \in Requests : pc[q] \in opposite => pc[q] \in Resting
  OBVIOUS
<1>9. pc'[r] = l
  BY <1>1, <1>2
<1> HIDE DEF served, others
<1> QED BY <1>1, <1>3, <1>4, <1>6, <1>7, <1>8, <1>9 DEF Keeps

\* How a step changes the memberships.
Grows == \A g \in Groups : on[g] # "none" => on'[g] = on[g]
Shrinks == \A g \in Groups : on'[g] = on[g] \/ on'[g] = "none"

\* A request that ends without success.
LEMMA EndEffect ==
    ASSUME TypeInv, NEW r \in Requests, NEW l \in {"refused", "failed"}, End(r, l)
    PROVE  /\ pc' \in [Requests -> Places] /\ job' \in [Requests -> Job]
           /\ OthersKeep(r) /\ pc'[r] = l
<1>1. /\ pc \in [Requests -> Places] /\ job \in [Requests -> Job] /\ NoJob \in Job /\ l \in Places
  BY TypeParts, NoJobType DEF Places, Resting
<1>2. pc' = [pc EXCEPT ![r] = l] /\ job' = [job EXCEPT ![r] = NoJob]
  BY DEF End, Goto
<1> QED BY <1>1, <1>2 DEF OthersKeep

LEMMA PlanEffect ==
    ASSUME TypeInv, NEW r \in Requests, Plan(r)
    PROVE  LET wish == Normalized(job[r].wish) IN
           /\ TypeInv' /\ OthersKeep(r) /\ UNCHANGED <<on, shows, history>>
           /\ pc[r] = "plan" /\ wish \in WishSet
           /\ \/ pc'[r] = "refused"
              \/ /\ pc'[r] = "write" /\ ~Refused(wish)
                 /\ job'[r] = [job[r] EXCEPT !.wish = wish, !.writes = Writes(wish)]
<1> DEFINE wish == Normalized(job[r].wish)
<1>1. /\ on \in [Groups -> Level] /\ shows \in [Groups -> Level]
      /\ pc \in [Requests -> Places] /\ mixed \in BOOLEAN /\ job \in [Requests -> Job]
      /\ overlooked \in SUBSET Groups
  BY TypeParts
<1>2. pc[r] = "plan" /\ UNCHANGED <<on, shows, mixed, overlooked>>
  BY DEF Plan, history
<1>3. job[r] \in Job /\ wish \in WishSet
  BY <1>1, NormalizedWish DEF Job
<1>4. CASE End(r, "refused")
  <2>1. TypeInv'
    BY <1>1, <1>2, <1>4, EndEffect, TypePartsNext
  <2> QED BY <1>2, <1>3, <1>4, <2>1, EndEffect DEF history
<1>5. CASE ~Refused(wish) /\ Goto(r, "write")
           /\ job' = [job EXCEPT ![r].wish = wish, ![r].writes = Writes(wish)]
  <2> HIDE DEF wish
  <2> DEFINE next == [job[r] EXCEPT !.wish = wish, !.writes = Writes(wish)]
  <2>1. pc' = [pc EXCEPT ![r] = "write"] /\ job' = [job EXCEPT ![r] = next]
    BY <1>5 DEF Goto
  <2>2. next \in Job
    BY <1>3, <1>5, JobUpdates, WritesProperties
  <2> HIDE DEF next
  <2>3. TypeInv'
    BY <1>1, <1>2, <2>1, <2>2, TypePartsNext DEF Places, Adding
  <2>4. OthersKeep(r) /\ pc'[r] = "write" /\ job'[r] = next
    BY <1>1, <2>1 DEF OthersKeep
  <2> QED BY <1>2, <1>3, <1>5, <2>3, <2>4 DEF history, next, wish
<1> QED BY <1>4, <1>5 DEF Plan

LEMMA WriteEffect ==
    ASSUME TypeInv, NEW r \in Requests, Planned(r), Write(r)
    PROVE  LET w == Head(job[r].writes) IN
           /\ TypeInv' /\ OthersKeep(r) /\ UNCHANGED history /\ Grows
           /\ pc[r] = "write" /\ job[r].writes # <<>>
           /\ \A g \in Groups : on'[g] # on[g] => g \in Reached(w.key)
           /\ \/ pc'[r] = "failed"
              \/ \E g \in Reached(w.key), role \in GroupRoles \cup {""} :
                    /\ pc'[r] = "write" /\ on'[g] # "none"
                    /\ job'[r] = [job[r] EXCEPT !.writes = Tail(job[r].writes),
                                                !.first = FALSE, !.role = role]
                    /\ role = job[r].role \/ (job[r].first /\ on'[g] = role)
<1> DEFINE w == Head(job[r].writes)
<1>1. /\ on \in [Groups -> Level] /\ shows \in [Groups -> Level]
      /\ pc \in [Requests -> Places] /\ mixed \in BOOLEAN /\ job \in [Requests -> Job]
      /\ overlooked \in SUBSET Groups
  BY TypeParts
<1>2. /\ pc[r] = "write" /\ job[r].writes # <<>>
      /\ UNCHANGED history /\ UNCHANGED <<mixed, overlooked>>
  BY DEF Write, history
<1>3. job[r] \in Job /\ job[r].writes \in Seq(Entry) /\ job[r].role \in GroupRoles \cup {""}
  BY <1>1 DEF Job
<1>4. Tail(job[r].writes) \in Seq(Entry) /\ w.role \in GroupRoles
  <2>1. Len(job[r].writes) \in Nat \ {0} /\ w = job[r].writes[1]
    <3> DEFINE s == job[r].writes
    <3>1. s \in Seq(Entry) /\ s # <<>>
      BY <1>2, <1>3
    <3> HIDE DEF s
    <3>2. Len(s) \in Nat \ {0}
      BY <3>1, EmptySeq
    <3>3. Head(s) = s[1]
      BY <3>1
    <3> QED BY <3>2, <3>3 DEF s
  <2>2. 1 \in 1..Len(job[r].writes)
    BY <2>1
  <2> QED BY <1>2, <1>3, <2>1, <2>2, HeadTailProperties DEF Planned
<1>5. Reached(w.key) \subseteq Groups
  BY DEF Reached, Named
<1>6. "failed" \in Places /\ w.role \in Level /\ w.role # "none"
  BY <1>4, RoleNames DEF Places, Resting, Level
<1>7. CASE \E g \in Reached(w.key) : Insert(r, g)
  <2>1. PICK g \in Reached(w.key) : Insert(r, g)
    BY <1>7
  <2>2. on[g] = "none" /\ Set(g, w.role) /\ g \in Groups
    BY <1>5, <2>1 DEF Insert
  <2>3. /\ on' \in [Groups -> Level] /\ shows' \in [Groups -> Level]
        /\ \A h \in Groups : on'[h] = IF h = g THEN w.role ELSE on[h]
    BY <1>6, <2>2, SetEffect
  <2>4. Grows /\ on'[g] = w.role /\ \A h \in Groups : on'[h] # on[h] => h \in Reached(w.key)
    BY <2>2, <2>3 DEF Grows
  <2>5. CASE End(r, "failed")
    <3>1. TypeInv' /\ OthersKeep(r) /\ pc'[r] = "failed"
      BY <1>1, <1>2, <2>3, <2>5, EndEffect, TypePartsNext
    <3> QED BY <1>2, <2>4, <3>1
  <2>6. CASE pc' = pc /\ job' = [job EXCEPT ![r] = [job[r] EXCEPT
               !.writes = Tail(job[r].writes), !.first = FALSE,
               !.role = IF job[r].first THEN w.role ELSE job[r].role]]
    <3> DEFINE role == IF job[r].first THEN w.role ELSE job[r].role
               next == [job[r] EXCEPT !.writes = Tail(job[r].writes), !.first = FALSE, !.role = role]
    <3>1. role \in GroupRoles \cup {""} /\ (role = job[r].role \/ (job[r].first /\ on'[g] = role))
      BY <1>3, <1>4, <2>4
    <3>2. job' = [job EXCEPT ![r] = next]
      BY <2>6
    <3> HIDE DEF role
    <3>3. next \in Job
      BY <1>3, <1>4, <3>1, JobUpdates
    <3>4. job' \in [Requests -> Job] /\ job'[r] = next /\ OthersKeep(r)
      BY <1>1, <2>6, <3>2, <3>3 DEF OthersKeep
    <3>5. TypeInv'
      BY <1>1, <1>2, <2>3, <2>6, <3>4, TypePartsNext
    <3> HIDE DEF w
    <3> QED BY <1>2, <1>6, <2>3, <2>4, <2>6, <3>1, <3>4, <3>5 DEF w
  <2> QED BY <2>1, <2>5, <2>6 DEF Insert, Goto
<1>8. CASE \E g \in Reached(w.key) : Skip(r, g)
  <2>1. PICK g \in Reached(w.key) : Skip(r, g)
    BY <1>8
  <2> DEFINE next == [job[r] EXCEPT !.writes = Tail(job[r].writes), !.first = FALSE]
  <2>2. /\ on[g] # "none" /\ UNCHANGED <<on, shows, pc>>
        /\ job' = [job EXCEPT ![r] = next]
    BY <2>1 DEF Skip
  <2>3. next \in Job
    BY <1>3, <1>4, JobUpdates
  <2>4. next = [job[r] EXCEPT !.writes = Tail(job[r].writes), !.first = FALSE, !.role = job[r].role]
    BY <1>3 DEF Job
  <2> HIDE DEF next
  <2>5. job' \in [Requests -> Job] /\ job'[r] = next /\ OthersKeep(r)
    BY <1>1, <2>2, <2>3 DEF OthersKeep
  <2>6. TypeInv' /\ Grows
    BY <1>1, <1>2, <2>2, <2>5, TypePartsNext DEF Grows
  <2> HIDE DEF w
  <2> QED BY <1>2, <1>3, <2>2, <2>4, <2>5, <2>6 DEF w
<1>9. CASE Reached(w.key) = {} /\ End(r, "failed") /\ UNCHANGED <<on, shows>>
  <2>1. TypeInv' /\ Grows /\ OthersKeep(r) /\ pc'[r] = "failed"
    BY <1>1, <1>2, <1>9, EndEffect, TypePartsNext DEF Grows
  <2> QED BY <1>1, <1>2, <1>9, <2>1
<1> QED BY <1>7, <1>8, <1>9 DEF Write

LEMMA ReportEffect ==
    ASSUME TypeInv, NEW r \in Requests, Planned(r), Report(r)
    PROVE  /\ TypeInv' /\ OthersKeep(r) /\ UNCHANGED <<on, shows, history>>
           /\ pc[r] = "write" /\ job[r].writes = <<>> /\ pc'[r] = "tellRole"
           /\ \E shown \in SUBSET Locals :
                 /\ job'[r] = [job[r] EXCEPT !.shown = shown]
                 /\ \A l \in WrittenNames(job[r].wish) : l \in shown \cup HiddenNames
<1> DEFINE read == {g.address.local : g \in {h \in Groups : shows[h] # "none"}}
           shown == (read \cup WrittenNames(job[r].wish)) \ HiddenNames
<1>1. /\ on \in [Groups -> Level] /\ shows \in [Groups -> Level]
      /\ pc \in [Requests -> Places] /\ mixed \in BOOLEAN /\ job \in [Requests -> Job]
      /\ overlooked \in SUBSET Groups
  BY TypeParts
<1>2. /\ pc[r] = "write" /\ job[r].writes = <<>> /\ UNCHANGED <<on, shows, mixed, overlooked>>
      /\ pc' = [pc EXCEPT ![r] = "tellRole"]
      /\ job' = [job EXCEPT ![r] = [job[r] EXCEPT !.shown = shown]]
  BY DEF Report, Goto, history
<1>3. job[r] \in Job /\ job[r].wish \in WishSet
  BY <1>1 DEF Job
<1>4. shown \in SUBSET Locals
  <2>1. read \subseteq {g.address.local : g \in Groups}
    OBVIOUS
  <2>2. ASSUME NEW l \in WrittenNames(job[r].wish) PROVE l \in {e.key.local : e \in Entry}
    <3> DEFINE s == Writes(job[r].wish)
    <3>1. s \in Seq(Entry)
      BY <1>2, <1>3, WritesProperties DEF Planned
    <3>2. PICK i \in DOMAIN s : l = s[i].key.local
      BY <2>2 DEF WrittenNames
    <3> HIDE DEF s
    <3>3. s[i] \in Entry
      BY <3>1, <3>2, LenProperties, ElementOfSeq
    <3> QED BY <3>2, <3>3
  <2> QED BY <2>1, <2>2 DEF Locals
<1>5. \A l \in WrittenNames(job[r].wish) : l \in shown \cup HiddenNames
  OBVIOUS
<1> HIDE DEF shown
<1>6. [job[r] EXCEPT !.shown = shown] \in Job
  BY <1>3, <1>4, JobUpdates
<1>7. TypeInv'
  BY <1>1, <1>2, <1>6, TypePartsNext DEF Places, Adding
<1> QED BY <1>1, <1>2, <1>4, <1>5, <1>7 DEF OthersKeep, history

LEMMA TellRoleEffect ==
    ASSUME TypeInv, NEW r \in Requests, TellRole(r)
    PROVE  /\ TypeInv' /\ OthersKeep(r) /\ UNCHANGED <<on, shows, history>>
           /\ pc[r] = "tellRole" /\ pc'[r] = "added"
           /\ \E told \in {"member", "admin"} :
                 /\ job'[r] = [job[r] EXCEPT !.told = told]
                 /\ job[r].role # "" => told = LocalRoleFor(job[r].role)
<1>1. /\ on \in [Groups -> Level] /\ shows \in [Groups -> Level]
      /\ pc \in [Requests -> Places] /\ mixed \in BOOLEAN /\ job \in [Requests -> Job]
      /\ overlooked \in SUBSET Groups
  BY TypeParts
<1>2. /\ pc[r] = "tellRole" /\ UNCHANGED <<on, shows, mixed, overlooked>>
      /\ pc' = [pc EXCEPT ![r] = "added"]
  BY DEF TellRole, Goto, history
<1>3. PICK told \in RolesTold(job[r].role) :
         job' = [job EXCEPT ![r] = [job[r] EXCEPT !.told = told]]
  BY DEF TellRole
<1>4. told \in {"member", "admin"} /\ (job[r].role # "" => told = LocalRoleFor(job[r].role))
  BY <1>3 DEF RolesTold, LocalRoleFor
<1>5. job[r] \in Job
  BY <1>1
<1>6. [job[r] EXCEPT !.told = told] \in Job
  BY <1>4, <1>5, JobUpdates
<1>7. TypeInv'
  BY <1>1, <1>2, <1>3, <1>6, TypePartsNext DEF Places, Resting
<1>8. OthersKeep(r) /\ job'[r] = [job[r] EXCEPT !.told = told] /\ pc'[r] = "added"
  BY <1>1, <1>2, <1>3 DEF OthersKeep
<1> QED BY <1>2, <1>4, <1>7, <1>8 DEF history

LEMMA ExpandEffect ==
    ASSUME TypeInv, NEW r \in Requests, Expand(r)
    PROVE  /\ TypeInv' /\ OthersKeep(r) /\ UNCHANGED <<on, shows, history>>
           /\ pc[r] = "expand" /\ pc'[r] = "drop"
           /\ \E lists \in SUBSET {Short(g.address) : g \in Groups}, unshown \in SUBSET Groups :
                 /\ job'[r] = [job[r] EXCEPT !.lists = lists, !.unshown = unshown]
                 /\ Short(Login.address) \notin lists
                 /\ \A g \in Groups \ {Login} :
                       on[g] # "none" => Short(g.address) \in lists \/ g \in unshown
<1> DEFINE listed == {g \in Groups : shows[g] # "none"}
           lists == {Short(g.address) : g \in ListsToDrop(listed)}
           unshown == {g \in Groups \ listed : on[g] # "none"}
<1>1. /\ on \in [Groups -> Level] /\ shows \in [Groups -> Level]
      /\ pc \in [Requests -> Places] /\ mixed \in BOOLEAN /\ job \in [Requests -> Job]
      /\ overlooked \in SUBSET Groups
  BY TypeParts
<1>2. /\ pc[r] = "expand" /\ UNCHANGED <<on, shows, mixed, overlooked>>
      /\ pc' = [pc EXCEPT ![r] = "drop"]
      /\ job' = [job EXCEPT ![r] = [job[r] EXCEPT !.lists = lists, !.unshown = unshown]]
  BY DEF Expand, Goto, history
<1>3. \A g \in Groups : g \in ListsToDrop(listed) <=> shows[g] # "none" /\ g # Login
  <2>1. \A g \in Groups : g.address \in Addresses(g)
    BY DEF Addresses
  <2>2. \A g \in Groups : Same(g.address, LoginKey) <=> g = Login
    BY <2>1, RosterAssumption
  <2> QED BY <2>2 DEF ListsToDrop
<1>4. ListsToDrop(listed) \subseteq Groups
  BY DEF ListsToDrop
<1>5. lists \in SUBSET {Short(g.address) : g \in Groups}
  BY <1>4
<1>6. Short(Login.address) \notin lists
  <2>1. Login \in Groups
    BY RosterAssumption
  <2> QED BY <1>3, <1>4, <2>1, ShortInjective
<1>7. /\ unshown \in SUBSET Groups
      /\ \A g \in Groups \ {Login} :
            on[g] # "none" => Short(g.address) \in lists \/ g \in unshown
  BY <1>3
<1> HIDE DEF lists, listed, unshown
<1>8. job[r] \in Job
  BY <1>1
<1>9. [job[r] EXCEPT !.lists = lists, !.unshown = unshown] \in Job
  BY <1>5, <1>7, <1>8, JobUpdates
<1>10. TypeInv'
  BY <1>1, <1>2, <1>9, TypePartsNext DEF Places, Removing
<1>11. /\ OthersKeep(r) /\ pc'[r] = "drop"
       /\ job'[r] = [job[r] EXCEPT !.lists = lists, !.unshown = unshown]
  BY <1>1, <1>2 DEF OthersKeep
<1> QED BY <1>2, <1>5, <1>6, <1>7, <1>10, <1>11 DEF history

LEMMA DropEffect ==
    ASSUME TypeInv, NEW r \in Requests, Drop(r)
    PROVE  /\ TypeInv' /\ OthersKeep(r) /\ UNCHANGED history /\ Shrinks
           /\ pc[r] = "drop"
           /\ \/ /\ job[r].lists = {} /\ pc'[r] = "dropLogin"
                 /\ job'[r] = job[r] /\ UNCHANGED on
              \/ \E g \in Groups :
                    /\ Short(g.address) \in job[r].lists
                    /\ \A h \in Groups : on'[h] = IF h = g THEN "none" ELSE on[h]
                    /\ \/ pc'[r] = "failed"
                       \/ /\ pc'[r] = "drop"
                          /\ job'[r] = [job[r] EXCEPT !.lists = job[r].lists \ {Short(g.address)}]
<1>1. /\ on \in [Groups -> Level] /\ shows \in [Groups -> Level]
      /\ pc \in [Requests -> Places] /\ mixed \in BOOLEAN /\ job \in [Requests -> Job]
      /\ overlooked \in SUBSET Groups
  BY TypeParts
<1>2. /\ pc[r] = "drop" /\ UNCHANGED history /\ UNCHANGED <<mixed, overlooked>>
      /\ "dropLogin" \in Places
  BY DEF Drop, history, Places, Removing
<1>3. job[r] \in Job /\ job[r].lists \in SUBSET {Short(g.address) : g \in Groups}
  BY <1>1 DEF Job
<1>4. CASE job[r].lists = {} /\ Goto(r, "dropLogin") /\ UNCHANGED <<on, shows, job>>
  <2>1. pc' = [pc EXCEPT ![r] = "dropLogin"] /\ UNCHANGED <<on, shows, job>>
    BY <1>4 DEF Goto
  <2>2. TypeInv'
    BY <1>1, <1>2, <2>1, TypePartsNext
  <2>3. OthersKeep(r) /\ Shrinks
    BY <1>1, <2>1 DEF OthersKeep, Shrinks
  <2> QED BY <1>1, <1>2, <1>4, <2>1, <2>2, <2>3
<1>5. CASE \E k \in job[r].lists :
              /\ Remove(k)
              /\ \/ job' = [job EXCEPT ![r].lists = @ \ {k}] /\ pc' = pc
                 \/ End(r, "failed")
  <2>1. PICK k \in job[r].lists :
              /\ Remove(k)
              /\ \/ job' = [job EXCEPT ![r].lists = @ \ {k}] /\ pc' = pc
                 \/ End(r, "failed")
    BY <1>5
  <2>2. PICK g \in Groups : k = Short(g.address)
    BY <1>3, <2>1
  <2>3. Named(Qualified(k)) = {g} /\ Named(k) \subseteq {g}
    BY <2>2, ShortNames
  <2>4. /\ on' \in [Groups -> Level] /\ shows' \in [Groups -> Level]
        /\ \A h \in Groups : on'[h] = IF h = g THEN "none" ELSE on[h]
    BY <2>1, <2>3, RemoveEffect
  <2>5. Shrinks
    BY <2>4 DEF Shrinks
  <2>6. CASE End(r, "failed")
    <3>1. TypeInv' /\ OthersKeep(r) /\ pc'[r] = "failed"
      BY <1>1, <1>2, <2>4, <2>6, EndEffect, TypePartsNext
    <3> QED BY <1>2, <2>1, <2>2, <2>4, <2>5, <3>1
  <2>7. CASE job' = [job EXCEPT ![r].lists = @ \ {k}] /\ pc' = pc
    <3> DEFINE rest == job[r].lists \ {k}
               next == [job[r] EXCEPT !.lists = rest]
    <3>1. job' = [job EXCEPT ![r] = next] /\ pc' = pc
      BY <2>7
    <3>2. rest \in SUBSET {Short(h.address) : h \in Groups}
      BY <1>3
    <3> HIDE DEF rest
    <3>3. next \in Job
      BY <1>3, <3>2, JobUpdates
    <3> HIDE DEF next
    <3>4. TypeInv'
      BY <1>1, <1>2, <2>4, <3>1, <3>3, TypePartsNext
    <3>5. OthersKeep(r) /\ pc'[r] = "drop" /\ job'[r] = next
      BY <1>1, <1>2, <3>1 DEF OthersKeep
    <3> QED BY <1>2, <2>1, <2>2, <2>4, <2>5, <3>4, <3>5 DEF next, rest
  <2> QED BY <2>1, <2>6, <2>7
<1> QED BY <1>4, <1>5 DEF Drop

LEMMA DropLoginEffect ==
    ASSUME TypeInv, NEW r \in Requests, DropLogin(r)
    PROVE  /\ TypeInv' /\ OthersKeep(r) /\ UNCHANGED mixed /\ Shrinks
           /\ pc[r] = "dropLogin"
           /\ \/ pc'[r] = "removed" /\ job'[r] = job[r]
              \/ pc'[r] = "failed"
           /\ \A h \in Groups : on'[h] = IF h = Login THEN "none" ELSE on[h]
           /\ overlooked' = IF on[Login] = "none" THEN overlooked ELSE job[r].unshown
<1>1. /\ on \in [Groups -> Level] /\ shows \in [Groups -> Level]
      /\ pc \in [Requests -> Places] /\ mixed \in BOOLEAN /\ job \in [Requests -> Job]
      /\ overlooked \in SUBSET Groups
  BY TypeParts
<1>2. /\ pc[r] = "dropLogin" /\ UNCHANGED mixed /\ Remove(LoginKey)
      /\ overlooked' = IF on[Login] = "none" THEN overlooked ELSE job[r].unshown
  BY DEF DropLogin, RemoveLogin
<1>3. /\ on' \in [Groups -> Level] /\ shows' \in [Groups -> Level]
      /\ \A h \in Groups : on'[h] = IF h = Login THEN "none" ELSE on[h]
  <2>1. Login \in Groups
    BY RosterAssumption
  <2> QED BY <1>2, <2>1, LoginNames, RemoveEffect
<1>4. overlooked' \in SUBSET Groups
  BY <1>1, <1>2 DEF Job
<1>5. Shrinks
  BY <1>3 DEF Shrinks
<1>6. CASE End(r, "failed")
  <2>1. TypeInv' /\ OthersKeep(r) /\ pc'[r] = "failed"
    BY <1>1, <1>2, <1>3, <1>4, <1>6, EndEffect, TypePartsNext
  <2> QED BY <1>2, <1>3, <1>5, <2>1
<1>7. CASE Goto(r, "removed") /\ job' = job
  <2>1. pc' = [pc EXCEPT ![r] = "removed"] /\ job' = job
    BY <1>7 DEF Goto
  <2>2. TypeInv'
    BY <1>1, <1>2, <1>3, <1>4, <2>1, TypePartsNext DEF Places, Resting
  <2>3. OthersKeep(r) /\ pc'[r] = "removed" /\ job'[r] = job[r]
    BY <1>1, <2>1 DEF OthersKeep
  <2> QED BY <1>2, <1>3, <1>5, <2>2, <2>3
<1> QED BY <1>6, <1>7 DEF DropLogin

LEMMA FailEffect ==
    ASSUME TypeInv, NEW r \in Requests, Fail(r)
    PROVE  /\ TypeInv' /\ OthersKeep(r) /\ UNCHANGED <<on, shows, history>>
           /\ pc[r] \notin Resting /\ pc'[r] = "failed"
<1>1. /\ on \in [Groups -> Level] /\ shows \in [Groups -> Level] /\ mixed \in BOOLEAN
      /\ overlooked \in SUBSET Groups
  BY TypeParts
<1>2. pc[r] \notin Resting /\ UNCHANGED <<on, shows, mixed, overlooked>> /\ End(r, "failed")
  BY DEF Fail, history
<1>3. TypeInv' /\ OthersKeep(r) /\ pc'[r] = "failed"
  BY <1>1, <1>2, EndEffect, TypePartsNext
<1> QED BY <1>2, <1>3 DEF history

LEMMA PropagateEffect ==
    ASSUME TypeInv, NEW g \in Groups, Propagate(g)
    PROVE  TypeInv' /\ UNCHANGED <<on, pc, job, history>>
<1>1. /\ on \in [Groups -> Level] /\ shows \in [Groups -> Level]
      /\ pc \in [Requests -> Places] /\ mixed \in BOOLEAN /\ job \in [Requests -> Job]
      /\ overlooked \in SUBSET Groups
  BY TypeParts
<1>2. UNCHANGED <<on, pc, job, mixed, overlooked>> /\ shows' = [shows EXCEPT ![g] = on[g]]
  BY DEF Propagate, history
<1>3. TypeInv'
  BY <1>1, <1>2, TypePartsNext
<1> QED BY <1>2, <1>3 DEF history

------------------------------------------------------------------------------
(* Three kinds of steps, and who may run beside whom. *)

Adds(r) ==
    /\ TypeInv' /\ OthersKeep(r) /\ UNCHANGED history /\ Grows
    /\ pc[r] \in Adding
    /\ \/ pc'[r] \in {"refused", "failed"}
       \/ /\ pc'[r] \in Adding \cup {"added"}
          /\ job'[r].undisturbed = job[r].undisturbed

Takes(r) ==
    /\ TypeInv' /\ OthersKeep(r) /\ UNCHANGED mixed /\ Shrinks
    /\ pc[r] \in Removing
    /\ \/ pc'[r] = "failed"
       \/ /\ pc'[r] \in Removing \cup {"removed"}
          /\ job'[r].undisturbed = job[r].undisturbed

\* What Start does, whatever the request is about.
Starts(r, l, opposite) ==
    /\ TypeInv' /\ UNCHANGED <<on, shows, overlooked>>
    /\ pc[r] \in Resting /\ pc'[r] = l
    /\ ~mixed' => ~mixed
    /\ job'[r].undisturbed \/ ~mixed' => \A q \in Requests : pc[q] \in opposite => pc[q] \in Resting
    /\ ~mixed' => job'[r].undisturbed
    /\ \A q \in Requests \ {r} :
          Keeps(q) /\ (pc[q] \in opposite => ~job'[q].undisturbed)
                   /\ (pc[q] \notin opposite => job'[q] = job[q])
Begins(r, l, opposite) == Starts(r, l, opposite) /\ job'[r].role = "" /\ job'[r].first

Rests == TypeInv' /\ UNCHANGED <<on, pc, job, history>>

AddAction(r) ==
    Plan(r) \/ Write(r) \/ Report(r) \/ TellRole(r) \/ (Fail(r) /\ pc[r] \in Adding)
TakeAction(r) ==
    Expand(r) \/ Drop(r) \/ DropLogin(r) \/ (Fail(r) /\ pc[r] \in Removing)

LEMMA AddSteps ==
    ASSUME TypeInv, NEW r \in Requests, Planned(r), AddAction(r)
    PROVE  Adds(r)
<1>1. job[r] \in Job
  BY TypeParts
<1>2. CASE Plan(r)
  BY <1>1, <1>2, PlanEffect DEF Adds, Grows, Adding, Job
<1>3. CASE Write(r)
  <2>1. /\ TypeInv' /\ OthersKeep(r) /\ UNCHANGED history /\ Grows /\ pc[r] = "write"
        /\ pc'[r] \in {"write", "failed"}
    BY <1>3, WriteEffect
  <2>2. pc'[r] # "failed" => job'[r].undisturbed = job[r].undisturbed
    <3>1. \/ pc'[r] = "failed"
          \/ \E role \in GroupRoles \cup {""} :
                job'[r] = [job[r] EXCEPT !.writes = Tail(job[r].writes), !.first = FALSE, !.role = role]
      BY <1>3, WriteEffect
    <3> QED BY <1>1, <3>1 DEF Job
  <2> QED BY <2>1, <2>2 DEF Adds, Adding
<1>4. CASE Report(r)
  BY <1>1, <1>4, ReportEffect DEF Adds, Grows, Adding, Job
<1>5. CASE TellRole(r)
  BY <1>1, <1>5, TellRoleEffect DEF Adds, Grows, Adding, Job
<1>6. CASE Fail(r) /\ pc[r] \in Adding
  BY <1>1, <1>6, FailEffect DEF Adds, Grows
<1> QED BY <1>2, <1>3, <1>4, <1>5, <1>6 DEF AddAction

LEMMA TakeSteps ==
    ASSUME TypeInv, NEW r \in Requests, TakeAction(r)
    PROVE  Takes(r)
<1>1. job[r] \in Job
  BY TypeParts
<1>2. CASE Expand(r)
  BY <1>1, <1>2, ExpandEffect DEF Takes, Shrinks, Removing, Job, history
<1>3. CASE Drop(r)
  <2>1. /\ TypeInv' /\ OthersKeep(r) /\ UNCHANGED mixed /\ Shrinks /\ pc[r] = "drop"
        /\ pc'[r] \in {"drop", "dropLogin", "failed"}
    BY <1>3, DropEffect DEF history
  <2>2. pc'[r] # "failed" => job'[r].undisturbed = job[r].undisturbed
    <3>1. \/ pc'[r] = "failed" \/ job'[r] = job[r]
          \/ \E l : job'[r] = [job[r] EXCEPT !.lists = l]
      BY <1>3, DropEffect
    <3> QED BY <1>1, <3>1 DEF Job
  <2> QED BY <2>1, <2>2 DEF Takes, Removing
<1>4. CASE DropLogin(r)
  BY <1>1, <1>4, DropLoginEffect DEF Takes, Removing
<1>5. CASE Fail(r) /\ pc[r] \in Removing
  BY <1>1, <1>5, FailEffect DEF Takes, Shrinks, history
<1> QED BY <1>2, <1>3, <1>4, <1>5 DEF TakeAction

AddOpposite == Removing \cup {"removed"}
RemoveOpposite == Adding \cup {"added"}

LEMMA StartStarts ==
    ASSUME TypeInv, NEW r \in Requests, NEW l \in {"plan", "expand"}, NEW new \in Job,
           NEW opposite, Start(r, l, new, opposite)
    PROVE  Starts(r, l, opposite) /\ job'[r].role = new.role /\ job'[r].first = new.first
BY StartEffect DEF Starts

LEMMA BeginSteps ==
    ASSUME TypeInv, NEW r \in Requests
    PROVE  /\ \A wish \in Wishes : StartAdd(r, wish) => Begins(r, "plan", AddOpposite)
           /\ StartRemove(r) => Begins(r, "expand", RemoveOpposite)
<1>1. ASSUME NEW wish \in Wishes, StartAdd(r, wish) PROVE Begins(r, "plan", AddOpposite)
  <2> DEFINE new == [NoJob EXCEPT !.wish = wish]
  <2>1. Start(r, "plan", new, AddOpposite) /\ new \in Job
    BY <1>1, NoJobType DEF StartAdd, AddOpposite
  <2>2. new.role = "" /\ new.first
    BY DEF NoJob
  <2> HIDE DEF new
  <2>3. Starts(r, "plan", AddOpposite) /\ job'[r].role = new.role /\ job'[r].first = new.first
    BY <2>1, StartStarts
  <2> QED BY <2>2, <2>3 DEF Begins
<1>2. ASSUME StartRemove(r) PROVE Begins(r, "expand", RemoveOpposite)
  <2>1. Start(r, "expand", NoJob, RemoveOpposite) /\ NoJob \in Job
    BY <1>2, NoJobType DEF StartRemove, RemoveOpposite
  <2>2. NoJob.role = "" /\ NoJob.first
    BY DEF NoJob
  <2>3. Starts(r, "expand", RemoveOpposite) /\ job'[r].role = NoJob.role /\ job'[r].first = NoJob.first
    BY <2>1, StartStarts
  <2> QED BY <2>2, <2>3 DEF Begins
<1> QED BY <1>1, <1>2

LEMMA Active ==
    ASSUME TypeInv, NEW r \in Requests
    PROVE  pc[r] \notin Resting => pc[r] \in Adding \/ pc[r] \in Removing
BY TypeParts DEF Places

LEMMA StepKinds ==
    ASSUME TypeInv, \A r \in Requests : Planned(r), [Next]_vars
    PROVE  \/ Rests
           \/ \E r \in Requests :
                 \/ Begins(r, "plan", AddOpposite) \/ Begins(r, "expand", RemoveOpposite)
                 \/ (Adds(r) /\ AddAction(r)) \/ (Takes(r) /\ TakeAction(r))
<1>1. CASE UNCHANGED vars
  <2>1. UNCHANGED <<on, shows, pc, job, mixed, overlooked>>
    BY <1>1 DEF vars, history
  <2>2. TypeInv'
    BY <2>1, TypeParts, TypePartsNext
  <2> QED BY <2>1, <2>2 DEF Rests, history
<1>2. ASSUME NEW g \in Groups, Propagate(g) PROVE Rests
  BY <1>2, PropagateEffect DEF Rests
<1>3. ASSUME NEW r \in Requests, \E wish \in Wishes : StartAdd(r, wish)
      PROVE  Begins(r, "plan", AddOpposite)
  BY <1>3, BeginSteps
<1>4. ASSUME NEW r \in Requests, StartRemove(r) PROVE Begins(r, "expand", RemoveOpposite)
  BY <1>4, BeginSteps
<1>5. ASSUME NEW r \in Requests, Plan(r) \/ Write(r) \/ Report(r) \/ TellRole(r)
      PROVE  Adds(r) /\ AddAction(r)
  BY <1>5, AddSteps DEF AddAction
<1>6. ASSUME NEW r \in Requests, Expand(r) \/ Drop(r) \/ DropLogin(r)
      PROVE  Takes(r) /\ TakeAction(r)
  BY <1>6, TakeSteps DEF TakeAction
<1>7. ASSUME NEW r \in Requests, Fail(r) 
      PROVE  (Adds(r) /\ AddAction(r)) \/ (Takes(r) /\ TakeAction(r))
  <2>1. pc[r] \in Adding \/ pc[r] \in Removing
    BY <1>7, FailEffect, Active
  <2> QED BY <1>7, <2>1, AddSteps, TakeSteps DEF AddAction, TakeAction
<1> QED BY <1>1, <1>2, <1>3, <1>4, <1>5, <1>6, <1>7 DEF Next

LEMMA KeptFields ==
    ASSUME TypeInv, NEW q \in Requests, Keeps(q)
    PROVE  /\ pc'[q] = pc[q]
           /\ job'[q].wish = job[q].wish /\ job'[q].writes = job[q].writes
           /\ job'[q].first = job[q].first /\ job'[q].role = job[q].role
           /\ job'[q].shown = job[q].shown /\ job'[q].told = job[q].told
           /\ job'[q].lists = job[q].lists /\ job'[q].unshown = job[q].unshown
           /\ job'[q].undisturbed => job[q].undisturbed
<1>1. job[q] \in Job
  BY TypeParts
<1> QED BY <1>1 DEF Keeps, Job

LEMMA OthersAreKept ==
    ASSUME NEW r \in Requests, OthersKeep(r), NEW q \in Requests \ {r}
    PROVE  Keeps(q) /\ job'[q] = job[q]
BY DEF OthersKeep, Keeps

LEMMA Disjoint ==
    /\ \A l : ~(l \in Adding /\ l \in Removing) /\ ~(l \in Adding /\ l \in Resting)
              /\ ~(l \in Removing /\ l \in Resting)
    /\ "plan" \in Adding /\ "expand" \in Removing
    /\ {"added", "removed", "refused", "failed"} \subseteq Resting
BY DEF Adding, Removing, Resting

LEMMA MixStep ==
    ASSUME TypeInv, MixInv, \A r \in Requests : Planned(r), [Next]_vars
    PROVE  MixInv'
<1>1. CASE Rests
  BY <1>1 DEF Rests, MixInv, history
<1>2. ASSUME NEW r \in Requests, Adds(r) PROVE MixInv'
  <2>1. \A q \in Requests \ {r} : pc'[q] = pc[q] /\ job'[q].undisturbed = job[q].undisturbed
    BY <1>2 DEF Adds, OthersKeep
  <2>2. /\ pc[r] \in Adding /\ mixed' = mixed
        /\ pc'[r] \in Adding \cup {"added"} => job'[r].undisturbed = job[r].undisturbed
    BY <1>2, Disjoint DEF Adds, history
  <2>3. /\ pc'[r] \in Adding \/ pc'[r] \notin Adding \cup Removing
        /\ pc'[r] \notin Removing \cup {"removed"}
    BY <1>2, Disjoint DEF Adds
  <2> QED BY <2>1, <2>2, <2>3 DEF MixInv
<1>3. ASSUME NEW r \in Requests, Takes(r) PROVE MixInv'
  <2>1. \A q \in Requests \ {r} : pc'[q] = pc[q] /\ job'[q].undisturbed = job[q].undisturbed
    BY <1>3 DEF Takes, OthersKeep
  <2>2. /\ pc[r] \in Removing /\ mixed' = mixed
        /\ pc'[r] \in Removing \cup {"removed"} => job'[r].undisturbed = job[r].undisturbed
    BY <1>3, Disjoint DEF Takes
  <2>3. /\ pc'[r] \in Removing \/ pc'[r] \notin Adding \cup Removing
        /\ pc'[r] \notin Adding \cup {"added"}
    BY <1>3, Disjoint DEF Takes
  <2> QED BY <2>1, <2>2, <2>3 DEF MixInv
<1>4. ASSUME NEW r \in Requests, Begins(r, "plan", AddOpposite) PROVE MixInv'
  <2>1. \A q \in Requests \ {r} : pc'[q] = pc[q] /\ (job'[q].undisturbed => job[q].undisturbed)
    BY <1>4, KeptFields DEF Begins, Starts
  <2>2. \A q \in Requests \ {r} :
           (pc[q] \in Removing \cup {"removed"} => ~job'[q].undisturbed)
           /\ (pc[q] \notin Removing \cup {"removed"} => job'[q] = job[q])
    BY <1>4 DEF Begins, Starts, AddOpposite
  <2>3. /\ pc'[r] = "plan" /\ (~mixed' => ~mixed /\ job'[r].undisturbed)
        /\ job'[r].undisturbed \/ ~mixed' => \A q \in Requests : pc[q] \notin Removing
    BY <1>4, Disjoint DEF Begins, Starts, AddOpposite
  <2>4. pc'[r] \in Adding /\ pc'[r] \notin Removing \cup {"removed"}
    BY <2>3, Disjoint
  <2> QED BY <2>1, <2>2, <2>3, <2>4 DEF MixInv
<1>5. ASSUME NEW r \in Requests, Begins(r, "expand", RemoveOpposite) PROVE MixInv'
  <2>1. \A q \in Requests \ {r} : pc'[q] = pc[q] /\ (job'[q].undisturbed => job[q].undisturbed)
    BY <1>5, KeptFields DEF Begins, Starts
  <2>2. \A q \in Requests \ {r} :
           (pc[q] \in Adding \cup {"added"} => ~job'[q].undisturbed)
           /\ (pc[q] \notin Adding \cup {"added"} => job'[q] = job[q])
    BY <1>5 DEF Begins, Starts, RemoveOpposite
  <2>3. /\ pc'[r] = "expand" /\ (~mixed' => ~mixed /\ job'[r].undisturbed)
        /\ job'[r].undisturbed \/ ~mixed' => \A q \in Requests : pc[q] \notin Adding
    BY <1>5, Disjoint DEF Begins, Starts, RemoveOpposite
  <2>4. pc'[r] \in Removing /\ pc'[r] \notin Adding \cup {"added"}
    BY <2>3, Disjoint
  <2> QED BY <2>1, <2>2, <2>3, <2>4 DEF MixInv
<1> QED BY <1>1, <1>2, <1>3, <1>4, <1>5, StepKinds

------------------------------------------------------------------------------
(* An add: what it has planned and what it has done. *)

LEMMA PlannedKept ==
    ASSUME TypeInv, NEW q \in Requests, Keeps(q), Planned(q)
    PROVE  Planned(q)'
BY KeptFields DEF Planned

LEMMA PlannedOwn ==
    ASSUME TypeInv, NEW r \in Requests, Planned(r), AddAction(r)
    PROVE  Planned(r)'
<1>1. job[r] \in Job /\ job[r].wish \in WishSet /\ job[r].writes \in Seq(Entry)
  BY TypeParts DEF Job
<1>2. CASE pc'[r] \in {"refused", "failed"}
  BY <1>2 DEF Planned
<1>3. CASE Plan(r) /\ pc'[r] = "write"
  <2> DEFINE wish == Normalized(job[r].wish)
             s == Writes(wish)
  <2>1. /\ ~Refused(wish) /\ wish \in WishSet /\ pc[r] = "plan"
        /\ job'[r] = [job[r] EXCEPT !.wish = wish, !.writes = s]
    BY <1>3, PlanEffect
  <2> HIDE DEF wish
  <2>2. /\ job'[r].wish = wish /\ job'[r].writes = s
        /\ job'[r].first = job[r].first /\ job'[r].role = job[r].role
    BY <1>1, <2>1 DEF Job
  <2>3. ASSUME NEW i \in 1..Len(s)
        PROVE  s[i].role \in GroupRoles /\ IsKey(s[i].key) /\ (s[i].key = LoginKey \/ Known(s[i].key))
    <3>1. CASE i = 1
      BY <1>1, <2>1, <3>1, WritesProperties, RosterAssumption
    <3>2. CASE i # 1
      <4>1. i \in 2..Len(s)
        BY <1>1, <2>1, <2>3, <3>2, WritesProperties
      <4>2. PICK n \in DOMAIN wish : s[i] = wish[n] /\ ~ForLogin(wish[n])
        BY <1>1, <2>1, <4>1, WritesProperties
      <4>3. IsKey(s[i].key)
        BY <2>1, <4>2, WishType
      <4>4. wish[n].role \in GroupRoles
        BY <2>1, <4>2 DEF Refused, Malformed
      <4>5. Known(wish[n].key)
        BY <2>1, <4>2 DEF Refused, Unknown
      <4> QED BY <4>2, <4>3, <4>4, <4>5
    <3> QED BY <3>1, <3>2
  <2> HIDE DEF s
  <2>4. job[r].first => job[r].role = ""
    BY <2>1 DEF Planned
  <2> QED BY <1>3, <2>1, <2>2, <2>3, <2>4 DEF Planned, s
<1>4. CASE Write(r) /\ pc'[r] = "write"
  <2> DEFINE s == job[r].writes
  <2>1. PICK role \in GroupRoles \cup {""} :
           job'[r] = [job[r] EXCEPT !.writes = Tail(s), !.first = FALSE, !.role = role]
    BY <1>4, WriteEffect
  <2>2. /\ job'[r].wish = job[r].wish /\ job'[r].writes = Tail(s) /\ ~job'[r].first
    BY <1>1, <2>1 DEF Job
  <2>3. pc[r] = "write" /\ s # <<>> /\ ~Refused(job[r].wish)
    BY <1>4, WriteEffect DEF Planned
  <2>4. \A i \in 1..Len(s) : LET w == s[i] IN
            w.role \in GroupRoles /\ IsKey(w.key) /\ (w.key = LoginKey \/ Known(w.key))
    BY <2>3 DEF Planned
  <2>5. s \in Seq(Entry)
    BY <1>1
  <2> HIDE DEF s
  <2>6. \A i \in 1..Len(Tail(s)) : i + 1 \in 1..Len(s) /\ Tail(s)[i] = s[i + 1]
    BY <2>3, <2>5, TailEntries
  <2>8. \A i \in 1..Len(Tail(s)) : LET w == Tail(s)[i] IN
            w.role \in GroupRoles /\ IsKey(w.key) /\ (w.key = LoginKey \/ Known(w.key))
    BY <2>4, <2>6
  <2> QED BY <1>4, <2>2, <2>3, <2>8 DEF Planned
<1>5. CASE Report(r)
  <2>1. PICK shown \in SUBSET Locals :
           /\ job'[r] = [job[r] EXCEPT !.shown = shown]
           /\ \A l \in WrittenNames(job[r].wish) : l \in shown \cup HiddenNames
    BY <1>5, ReportEffect
  <2>2. job'[r].wish = job[r].wish /\ job'[r].shown = shown
    BY <1>1, <2>1 DEF Job
  <2>3. pc[r] = "write" /\ pc'[r] = "tellRole" /\ ~Refused(job[r].wish)
    BY <1>5, ReportEffect DEF Planned
  <2>4. \A i \in DOMAIN job[r].wish : job[r].wish[i].key.local \in shown \cup HiddenNames
    BY <1>1, <2>1, <2>3, WrittenNamesProperties
  <2> QED BY <2>2, <2>3, <2>4 DEF Planned
<1>6. CASE TellRole(r)
  <2>1. PICK told \in {"member", "admin"} :
           /\ job'[r] = [job[r] EXCEPT !.told = told]
           /\ job[r].role # "" => told = LocalRoleFor(job[r].role)
    BY <1>6, TellRoleEffect
  <2>2. /\ job'[r].wish = job[r].wish /\ job'[r].shown = job[r].shown
        /\ job'[r].role = job[r].role /\ job'[r].told = told
    BY <1>1, <2>1 DEF Job
  <2>3. pc[r] = "tellRole" /\ pc'[r] = "added"
    BY <1>6, TellRoleEffect
  <2> QED BY <2>1, <2>2, <2>3 DEF Planned
<1>7. Plan(r) => pc'[r] \in {"refused", "write"}
  BY PlanEffect
<1>8. Write(r) => pc'[r] \in {"failed", "write"}
  BY WriteEffect
<1>9. Fail(r) => pc'[r] = "failed"
  BY FailEffect
<1> QED BY <1>2, <1>3, <1>4, <1>5, <1>6, <1>7, <1>8, <1>9 DEF AddAction

LEMMA PlannedStep ==
    ASSUME TypeInv, \A r \in Requests : Planned(r), [Next]_vars, NEW q \in Requests
    PROVE  Planned(q)'
<1>1. CASE Rests
  BY <1>1 DEF Rests, Planned
<1>2. ASSUME NEW r \in Requests,
             Begins(r, "plan", AddOpposite) \/ Begins(r, "expand", RemoveOpposite)
      PROVE  Planned(q)'
  <2>1. CASE q = r
    BY <1>2, <2>1 DEF Begins, Starts, Planned
  <2>2. CASE q # r
    BY <1>2, <2>2, PlannedKept DEF Begins, Starts
  <2> QED BY <2>1, <2>2
<1>3. ASSUME NEW r \in Requests, Adds(r) /\ AddAction(r) PROVE Planned(q)'
  <2>1. CASE q = r
    BY <1>3, <2>1, PlannedOwn
  <2>2. CASE q # r
    BY <1>3, <2>2, OthersAreKept, PlannedKept DEF Adds
  <2> QED BY <2>1, <2>2
<1>4. ASSUME NEW r \in Requests, Takes(r) PROVE Planned(q)'
  <2>1. CASE q = r
    BY <1>4, <2>1 DEF Takes, Removing, Planned
  <2>2. CASE q # r
    BY <1>4, <2>2, OthersAreKept, PlannedKept DEF Takes
  <2> QED BY <2>1, <2>2
<1> QED BY <1>1, <1>2, <1>3, <1>4, StepKinds

LEMMA DoneKept ==
    ASSUME TypeInv, NEW q \in Requests, Keeps(q), Done(q), Grows
    PROVE  Done(q)'
<1>1. Login \in Groups /\ \A k : Reached(k) \subseteq Groups
  BY RosterAssumption DEF Reached, Named
<1> SUFFICES ASSUME job'[q].undisturbed, Wrote(q)' PROVE Done(q)'
  BY DEF Done
<1>2. /\ pc'[q] = pc[q] /\ job'[q].wish = job[q].wish /\ job'[q].writes = job[q].writes
      /\ job'[q].role = job[q].role /\ job[q].undisturbed /\ Wrote(q)
  BY KeptFields DEF Wrote
<1>3. on'[Login] = on[Login] /\ on[Login] # "none" /\ (job[q].role # "" => on[Login] = job[q].role)
  BY <1>1, <1>2 DEF Done, Grows
<1>4. ASSUME NEW i \in DOMAIN job[q].wish
      PROVE  LET w == job[q].wish[i] IN
              \/ ForLogin(w)
              \/ pc[q] = "write" /\ \E n \in 1..Len(job[q].writes) : job[q].writes[n] = w
              \/ \E g \in Reached(w.key) : on'[g] # "none"
  <2> DEFINE w == job[q].wish[i]
  <2>1. \/ ForLogin(w)
        \/ pc[q] = "write" /\ \E n \in 1..Len(job[q].writes) : job[q].writes[n] = w
        \/ \E g \in Reached(w.key) : on[g] # "none"
    BY <1>2, <1>4 DEF Done
  <2>2. \A g \in Reached(w.key) : on[g] # "none" => on'[g] # "none"
    BY <1>1 DEF Grows
  <2> QED BY <2>1, <2>2
<1> QED BY <1>2, <1>3, <1>4 DEF Done

LEMMA DoneOwn ==
    ASSUME TypeInv, NEW r \in Requests, Planned(r), Done(r), AddAction(r), Adds(r)
    PROVE  Done(r)'
<1>1. job[r] \in Job /\ job[r].wish \in WishSet /\ job[r].writes \in Seq(Entry)
  BY TypeParts DEF Job
<1>2. Login \in Groups /\ \A k : Reached(k) \subseteq Groups
  BY RosterAssumption DEF Reached, Named
<1> SUFFICES ASSUME job'[r].undisturbed, Wrote(r)' PROVE Done(r)'
  BY DEF Done
<1>3. job[r].undisturbed /\ Grows
  BY DEF Adds, Wrote
<1>4. CASE Plan(r)
  <2> DEFINE wish == Normalized(job[r].wish)
  <2>1. /\ pc[r] = "plan"
        /\ \/ pc'[r] = "refused"
           \/ /\ pc'[r] = "write"
              /\ job'[r] = [job[r] EXCEPT !.wish = wish, !.writes = Writes(wish)]
    BY <1>4, PlanEffect
  <2> HIDE DEF wish
  <2>2. pc'[r] = "refused" \/ job'[r].first
    BY <1>1, <2>1 DEF Planned, Job
  <2> QED BY <2>1, <2>2 DEF Wrote
<1>5. CASE Write(r)
  <2> DEFINE s == job[r].writes
             h == Head(s)
  <2>1. /\ pc[r] = "write" /\ s # <<>> /\ ~Refused(job[r].wish)
        /\ \/ pc'[r] = "failed"
           \/ \E g \in Reached(h.key), role \in GroupRoles \cup {""} :
                 /\ pc'[r] = "write" /\ on'[g] # "none"
                 /\ job'[r] = [job[r] EXCEPT !.writes = Tail(s), !.first = FALSE, !.role = role]
                 /\ role = job[r].role \/ (job[r].first /\ on'[g] = role)
    BY <1>5, WriteEffect DEF Planned
  <2>2. pc'[r] # "failed"
    BY DEF Wrote
  <2>3. /\ pc'[r] = "write" /\ job'[r].wish = job[r].wish /\ job'[r].writes = Tail(s)
        /\ \E g \in Reached(h.key) :
              on'[g] # "none" /\ (job'[r].role = job[r].role \/ (job[r].first /\ on'[g] = job'[r].role))
    <3>1. PICK g \in Reached(h.key), role \in GroupRoles \cup {""} :
             /\ pc'[r] = "write" /\ on'[g] # "none"
             /\ job'[r] = [job[r] EXCEPT !.writes = Tail(s), !.first = FALSE, !.role = role]
             /\ role = job[r].role \/ (job[r].first /\ on'[g] = role)
      BY <2>1, <2>2
    <3>2. job'[r].wish = job[r].wish /\ job'[r].writes = Tail(s) /\ job'[r].role = role
      BY <1>1, <3>1 DEF Job
    <3> QED BY <3>1, <3>2
  <2>4. PICK g \in Reached(h.key) :
           on'[g] # "none" /\ (job'[r].role = job[r].role \/ (job[r].first /\ on'[g] = job'[r].role))
    BY <2>3
  <2>5. s \in Seq(Entry) /\ h = s[1] /\ Len(s) \in Nat
        /\ \A n \in 2..Len(s) : \E i \in 1..Len(Tail(s)) : Tail(s)[i] = s[n]
    <3>1. s \in Seq(Entry) /\ s # <<>>
      BY <1>1, <2>1
    <3> HIDE DEF s
    <3> QED BY <3>1, TailEntries, LenProperties
  <2>6. on'[Login] # "none" /\ (job'[r].role # "" => on'[Login] = job'[r].role)
    <3>1. CASE job[r].first
      <4>1. s = Writes(job[r].wish) /\ job[r].role = ""
        BY <2>1, <3>1 DEF Planned
      <4>2. h.key = LoginKey
        <5>1. job[r].wish \in WishSet /\ ~Refused(job[r].wish) /\ h = Writes(job[r].wish)[1]
          BY <1>1, <2>1, <2>5, <4>1
        <5> HIDE DEF h
        <5> QED BY <5>1, WritesProperties
      <4>3. g = Login
        BY <2>4, <4>2, RosterAssumption
      <4> QED BY <2>4, <4>1, <4>3
    <3>2. CASE ~job[r].first
      <4>1. Wrote(r)
        BY <2>1, <3>2 DEF Wrote
      <4>2. on[Login] # "none" /\ (job[r].role # "" => on[Login] = job[r].role)
        BY <1>3, <4>1 DEF Done
      <4> QED BY <1>2, <1>3, <2>4, <3>2, <4>2 DEF Grows
    <3> QED BY <3>1, <3>2
  <2>7. ASSUME NEW i \in DOMAIN job[r].wish, ~ForLogin(job[r].wish[i]),
               ~\E x \in Reached(job[r].wish[i].key) : on'[x] # "none"
        PROVE  \E n \in 1..Len(Tail(s)) : Tail(s)[n] = job[r].wish[i]
    <3> DEFINE w == job[r].wish[i]
    <3>1. \E n \in 2..Len(s) : s[n] = w
      <4>1. CASE job[r].first
        <5>1. s = Writes(job[r].wish)
          BY <2>1, <4>1 DEF Planned
        <5>2. job[r].wish \in WishSet /\ ~Refused(job[r].wish)
              /\ i \in DOMAIN job[r].wish /\ ~ForLogin(job[r].wish[i])
          BY <1>1, <2>1, <2>7
        <5>3. \E n \in 2..Len(Writes(job[r].wish)) : Writes(job[r].wish)[n] = job[r].wish[i]
          BY <5>2, WritesProperties
        <5> QED BY <5>1, <5>3
      <4>2. CASE ~job[r].first
        <5>1. Wrote(r)
          BY <2>1, <4>2 DEF Wrote
        <5>2. ~\E x \in Reached(w.key) : on[x] # "none"
          BY <1>2, <1>3, <2>7 DEF Grows
        <5>3. PICK n \in 1..Len(s) : s[n] = w
          BY <1>3, <2>7, <5>1, <5>2 DEF Done
        <5>4. n # 1
          BY <2>4, <2>5, <2>7, <5>3
        <5>5. n \in 2..Len(s)
          <6> DEFINE m == Len(s)
          <6>1. m \in Nat /\ n \in 1..m
            BY <2>5, <5>3
          <6> HIDE DEF m
          <6>2. n \in 2..m
            BY <5>4, <6>1
          <6> QED BY <6>2 DEF m
        <5> QED BY <5>3, <5>5
      <4> QED BY <4>1, <4>2
    <3>2. PICK n \in 2..Len(s) : s[n] = w
      BY <3>1
    <3>3. \E j \in 1..Len(Tail(s)) : Tail(s)[j] = s[n]
      BY <2>5
    <3> QED BY <3>2, <3>3
  <2>8. \A i \in DOMAIN job'[r].wish : LET w == job'[r].wish[i] IN
              \/ ForLogin(w)
              \/ pc'[r] = "write" /\ \E n \in 1..Len(job'[r].writes) : job'[r].writes[n] = w
              \/ \E x \in Reached(w.key) : on'[x] # "none"
    BY <2>3, <2>7
  <2> QED BY <2>6, <2>8, Zenon DEF Done
<1>6. CASE Report(r)
  <2>1. pc[r] = "write" /\ job[r].writes = <<>> /\ pc'[r] = "tellRole" /\ UNCHANGED on
        /\ \E shown : job'[r] = [job[r] EXCEPT !.shown = shown]
    BY <1>6, ReportEffect
  <2>2. job'[r].wish = job[r].wish /\ job'[r].role = job[r].role
    BY <1>1, <2>1 DEF Job
  <2>3. ~job[r].first
    <3>1. ASSUME job[r].first PROVE FALSE
      <4>1. Writes(job[r].wish) = <<>> /\ ~Refused(job[r].wish)
        BY <2>1, <3>1 DEF Planned
      <4>2. Len(Writes(job[r].wish)) \in Nat \ {0}
        BY <1>1, <4>1, WritesProperties
      <4> QED BY <4>1, <4>2
    <3> QED BY <3>1
  <2>4. Wrote(r) /\ ~\E n \in 1..Len(job[r].writes) : TRUE
    BY <2>1, <2>3, EmptySeq DEF Wrote
  <2>5. /\ on[Login] # "none" /\ (job[r].role # "" => on[Login] = job[r].role)
        /\ \A i \in DOMAIN job[r].wish : LET w == job[r].wish[i] IN
              ForLogin(w) \/ \E g \in Reached(w.key) : on[g] # "none"
    BY <1>3, <2>4 DEF Done
  <2>6. on'[Login] # "none" /\ (job'[r].role # "" => on'[Login] = job'[r].role)
    BY <2>1, <2>2, <2>5
  <2>7. \A i \in DOMAIN job'[r].wish : LET w == job'[r].wish[i] IN
              \/ ForLogin(w)
              \/ pc'[r] = "write" /\ \E n \in 1..Len(job'[r].writes) : job'[r].writes[n] = w
              \/ \E g \in Reached(w.key) : on'[g] # "none"
    <3>1. on' = on /\ job'[r].wish = job[r].wish
      BY <2>1, <2>2
    <3> SUFFICES ASSUME NEW i \in DOMAIN job[r].wish
                 PROVE  ForLogin(job[r].wish[i]) \/ \E g \in Reached(job[r].wish[i].key) : on[g] # "none"
      BY <3>1
    <3> QED BY <2>5
  <2> QED BY <2>6, <2>7, Zenon DEF Done
<1>7. CASE TellRole(r)
  <2>1. pc[r] = "tellRole" /\ pc'[r] = "added" /\ UNCHANGED on
        /\ \E told : job'[r] = [job[r] EXCEPT !.told = told]
    BY <1>7, TellRoleEffect
  <2>2. job'[r].wish = job[r].wish /\ job'[r].role = job[r].role /\ Wrote(r)
    BY <1>1, <2>1 DEF Job, Wrote
  <2>3. /\ on[Login] # "none" /\ (job[r].role # "" => on[Login] = job[r].role)
        /\ \A i \in DOMAIN job[r].wish : LET w == job[r].wish[i] IN
              ForLogin(w) \/ \E g \in Reached(w.key) : on[g] # "none"
    BY <1>3, <2>1, <2>2 DEF Done
  <2>6. on'[Login] # "none" /\ (job'[r].role # "" => on'[Login] = job'[r].role)
    BY <2>1, <2>2, <2>3
  <2>7. \A i \in DOMAIN job'[r].wish : LET w == job'[r].wish[i] IN
              \/ ForLogin(w)
              \/ pc'[r] = "write" /\ \E n \in 1..Len(job'[r].writes) : job'[r].writes[n] = w
              \/ \E g \in Reached(w.key) : on'[g] # "none"
    <3>1. on' = on /\ job'[r].wish = job[r].wish
      BY <2>1, <2>2
    <3> SUFFICES ASSUME NEW i \in DOMAIN job[r].wish
                 PROVE  ForLogin(job[r].wish[i]) \/ \E g \in Reached(job[r].wish[i].key) : on[g] # "none"
      BY <3>1
    <3> QED BY <2>3
  <2> QED BY <2>6, <2>7, Zenon DEF Done
<1>8. CASE Fail(r)
  BY <1>8, FailEffect DEF Wrote
<1> QED BY <1>4, <1>5, <1>6, <1>7, <1>8 DEF AddAction

LEMMA DoneStep ==
    ASSUME TypeInv, MixInv, \A r \in Requests : Planned(r) /\ Done(r),
           [Next]_vars, NEW q \in Requests
    PROVE  Done(q)'
<1>1. CASE Rests
  BY <1>1 DEF Rests, Done, Wrote
<1>2. ASSUME NEW r \in Requests,
             Begins(r, "plan", AddOpposite) \/ Begins(r, "expand", RemoveOpposite)
      PROVE  Done(q)'
  <2>1. CASE q = r
    BY <1>2, <2>1 DEF Begins, Starts, Done, Wrote
  <2>2. CASE q # r
    <3>1. Keeps(q) /\ Grows
      BY <1>2, <2>2 DEF Begins, Starts, Grows
    <3> QED BY <3>1, DoneKept
  <2> QED BY <2>1, <2>2
<1>3. ASSUME NEW r \in Requests, Adds(r) /\ AddAction(r) PROVE Done(q)'
  <2>1. CASE q = r
    BY <1>3, <2>1, DoneOwn
  <2>2. CASE q # r
    BY <1>3, <2>2, OthersAreKept, DoneKept DEF Adds
  <2> QED BY <2>1, <2>2
<1>4. ASSUME NEW r \in Requests, Takes(r) PROVE Done(q)'
  <2>1. CASE q = r
    BY <1>4, <2>1 DEF Takes, Removing, Done, Wrote
  <2>2. CASE q # r
    <3>1. pc'[q] = pc[q] /\ job'[q] = job[q] /\ pc[r] \in Removing
      BY <1>4, <2>2 DEF Takes, OthersKeep
    <3>2. ~(job[q].undisturbed /\ pc[q] \in Adding \cup {"added"})
      BY <3>1 DEF MixInv
    <3> QED BY <3>1, <3>2 DEF Done, Wrote, Adding
  <2> QED BY <2>1, <2>2
<1> QED BY <1>1, <1>2, <1>3, <1>4, StepKinds

------------------------------------------------------------------------------
(* A removal, and the login group: whatever Google shows late.              *)

LEMMA KeptStep ==
    ASSUME TypeInv, \A r \in Requests : Planned(r) /\ Kept(r), [Next]_vars, NEW q \in Requests
    PROVE  Kept(q)'
<1>1. CASE Rests
  BY <1>1 DEF Rests, Kept
<1>2. ASSUME NEW r \in Requests,
             Begins(r, "plan", AddOpposite) \/ Begins(r, "expand", RemoveOpposite)
      PROVE  Kept(q)'
  <2>1. CASE q = r
    BY <1>2, <2>1 DEF Begins, Starts, Kept
  <2>2. CASE q # r
    BY <1>2, <2>2, KeptFields DEF Begins, Starts, Kept
  <2> QED BY <2>1, <2>2
<1>3. ASSUME NEW r \in Requests, Adds(r) PROVE Kept(q)'
  <2>1. CASE q = r
    BY <1>3, <2>1 DEF Adds, Adding, Kept
  <2>2. CASE q # r
    BY <1>3, <2>2 DEF Adds, OthersKeep, Kept
  <2> QED BY <2>1, <2>2
<1>4. ASSUME NEW r \in Requests, Takes(r), TakeAction(r) PROVE Kept(q)'
  <2>1. CASE q # r
    BY <1>4, <2>1 DEF Takes, OthersKeep, Kept
  <2>2. job[r] \in Job
    BY TypeParts
  <2>3. CASE q = r /\ Expand(r)
    BY <2>2, <2>3, ExpandEffect DEF Kept, Job
  <2>4. CASE q = r /\ Drop(r)
    <3>1. CASE pc'[r] = "drop"
      <4>1. pc[r] = "drop" /\ \E g \in Groups :
               job'[r] = [job[r] EXCEPT !.lists = job[r].lists \ {Short(g.address)}]
        BY <2>4, <3>1, DropEffect
      <4>2. job'[r].lists \subseteq job[r].lists
        BY <2>2, <4>1 DEF Job
      <4> QED BY <2>4, <4>1, <4>2 DEF Kept
    <3>2. CASE pc'[r] # "drop"
      BY <2>4, <3>2 DEF Kept
    <3> QED BY <3>1, <3>2
  <2>5. CASE q = r /\ DropLogin(r)
    BY <2>5, DropLoginEffect DEF Kept
  <2>6. CASE q = r /\ Fail(r)
    BY <2>6, FailEffect DEF Kept
  <2> QED BY <1>4, <2>1, <2>3, <2>4, <2>5, <2>6 DEF TakeAction
<1> QED BY <1>1, <1>2, <1>3, <1>4, StepKinds

LEMMA GoneOwn ==
    ASSUME TypeInv, NEW r \in Requests, Gone(r), TakeAction(r), Takes(r)
    PROVE  Gone(r)'
<1>1. job[r] \in Job /\ Login \in Groups
  BY TypeParts, RosterAssumption
<1> SUFFICES ASSUME job'[r].undisturbed, pc'[r] # "failed" PROVE Gone(r)'
  BY DEF Gone
<1>2. job[r].undisturbed
  BY DEF Takes
<1>3. CASE Expand(r)
  <2>1. PICK lists \in SUBSET {Short(g.address) : g \in Groups}, unshown \in SUBSET Groups :
           /\ job'[r] = [job[r] EXCEPT !.lists = lists, !.unshown = unshown]
           /\ \A g \in Groups \ {Login} :
                 on[g] # "none" => Short(g.address) \in lists \/ g \in unshown
    BY <1>3, ExpandEffect
  <2>2. pc'[r] = "drop" /\ on' = on
        /\ job'[r].lists = lists /\ job'[r].unshown = unshown
    BY <1>1, <1>3, <2>1, ExpandEffect DEF Job
  <2> QED BY <2>1, <2>2 DEF Gone
<1>4. CASE Drop(r)
  <2>1. /\ pc[r] = "drop"
        /\ \A g \in Groups \ {Login} :
              on[g] # "none" => Short(g.address) \in job[r].lists \/ g \in job[r].unshown
    BY <1>2, <1>4, DropEffect DEF Gone
  <2>2. CASE pc'[r] = "dropLogin"
    <3>1. job[r].lists = {} /\ on' = on /\ job'[r] = job[r]
      BY <1>4, <2>2, DropEffect
    <3> QED BY <2>1, <2>2, <3>1 DEF Gone
  <2>3. CASE pc'[r] = "drop"
    <3>1. PICK g \in Groups :
             /\ \A h \in Groups : on'[h] = IF h = g THEN "none" ELSE on[h]
             /\ job'[r] = [job[r] EXCEPT !.lists = job[r].lists \ {Short(g.address)}]
      BY <1>4, <2>3, DropEffect
    <3>2. /\ job'[r].lists = job[r].lists \ {Short(g.address)}
          /\ job'[r].unshown = job[r].unshown
      BY <1>1, <3>1 DEF Job
    <3>3. ASSUME NEW h \in Groups \ {Login}, on'[h] # "none"
          PROVE  Short(h.address) \in job'[r].lists \/ h \in job'[r].unshown
      <4>1. h # g /\ on[h] # "none"
        BY <3>1, <3>3
      <4>2. Short(h.address) # Short(g.address)
        BY <4>1, ShortInjective
      <4> QED BY <2>1, <3>2, <4>1, <4>2
    <3> QED BY <2>3, <3>3 DEF Gone
  <2>4. pc'[r] \in {"dropLogin", "drop", "failed"}
    BY <1>4, DropEffect
  <2> QED BY <2>2, <2>3, <2>4
<1>5. CASE DropLogin(r)
  <2>1. \A g \in Groups \ {Login} : on[g] # "none" => g \in job[r].unshown
    BY <1>2, <1>5, DropLoginEffect DEF Gone
  <2>2. \A g \in Groups : on'[g] = IF g = Login THEN "none" ELSE on[g]
    BY <1>5, DropLoginEffect
  <2>3. on'[Login] = "none" /\ \A g \in Groups : on'[g] # "none" => g \in job[r].unshown
    BY <1>1, <2>1, <2>2
  <2>4. pc'[r] = "removed" /\ job'[r] = job[r]
    BY <1>5, DropLoginEffect
  <2> QED BY <2>3, <2>4 DEF Gone
<1>6. Fail(r) => pc'[r] = "failed"
  BY FailEffect
<1> QED BY <1>3, <1>4, <1>5, <1>6 DEF TakeAction

LEMMA GoneStep ==
    ASSUME TypeInv, MixInv, \A r \in Requests : Planned(r) /\ Gone(r),
           [Next]_vars, NEW q \in Requests
    PROVE  Gone(q)'
<1>0. Login \in Groups
  BY RosterAssumption
<1>1. CASE Rests
  BY <1>1 DEF Rests, Gone
<1>2. ASSUME NEW r \in Requests,
             Begins(r, "plan", AddOpposite) \/ Begins(r, "expand", RemoveOpposite)
      PROVE  Gone(q)'
  <2>1. CASE q = r
    BY <1>2, <2>1 DEF Begins, Starts, Gone
  <2>2. CASE q # r
    <3>1. Keeps(q) /\ UNCHANGED on
      BY <1>2, <2>2 DEF Begins, Starts
    <3> QED BY <3>1, KeptFields DEF Gone
  <2> QED BY <2>1, <2>2
<1>3. ASSUME NEW r \in Requests, Adds(r) PROVE Gone(q)'
  <2>1. CASE q = r
    BY <1>3, <2>1 DEF Adds, Adding, Gone
  <2>2. CASE q # r
    <3>1. pc'[q] = pc[q] /\ job'[q] = job[q] /\ pc[r] \in Adding
      BY <1>3, <2>2 DEF Adds, OthersKeep
    <3>2. ~(job[q].undisturbed /\ pc[q] \in Removing \cup {"removed"})
      BY <3>1 DEF MixInv
    <3> QED BY <3>1, <3>2 DEF Gone, Removing
  <2> QED BY <2>1, <2>2
<1>4. ASSUME NEW r \in Requests, Takes(r), TakeAction(r) PROVE Gone(q)'
  <2>1. CASE q = r
    BY <1>4, <2>1, GoneOwn
  <2>2. CASE q # r
    <3>1. pc'[q] = pc[q] /\ job'[q] = job[q]
      BY <1>4, <2>2 DEF Takes, OthersKeep
    <3>2. \A g \in Groups : on'[g] = on[g] \/ on'[g] = "none"
      BY <1>4 DEF Takes, Shrinks
    <3>3. \A g \in Groups : on'[g] # "none" => on[g] # "none"
      BY <3>2
    <3>4. on[Login] = "none" => on'[Login] = "none"
      BY <1>0, <3>2
    <3> QED BY <3>1, <3>3, <3>4 DEF Gone
  <2> QED BY <2>1, <2>2
<1> QED BY <1>1, <1>2, <1>3, <1>4, StepKinds

\* Wherever a step stops, the login group is the last list anybody is on, but
\* for what Google did not show.
LEMMA CoverStep ==
    ASSUME TypeInv, MixInv, RosterCoversLists,
           \A r \in Requests : Planned(r) /\ Done(r) /\ Kept(r) /\ Gone(r), [Next]_vars
    PROVE  RosterCoversLists'
<1>0. Login \in Groups
  BY RosterAssumption
<1>1. CASE Rests
  BY <1>1 DEF Rests, RosterCoversLists, history
<1>2. ASSUME NEW r \in Requests,
             Begins(r, "plan", AddOpposite) \/ Begins(r, "expand", RemoveOpposite)
      PROVE  RosterCoversLists'
  BY <1>2 DEF Begins, Starts, RosterCoversLists
<1>3. ASSUME NEW r \in Requests, Adds(r), AddAction(r) PROVE RosterCoversLists'
  <2>0. mixed' = mixed /\ overlooked' = overlooked
    BY <1>3 DEF Adds, history
  <2>1. CASE UNCHANGED on
    BY <2>0, <2>1 DEF RosterCoversLists
  <2>2. CASE Write(r)
    <3> SUFFICES ASSUME ~mixed, on'[Login] = "none", NEW g \in Groups, on'[g] # "none"
                 PROVE  g \in overlooked
      BY <2>0 DEF RosterCoversLists
    <3>1. Grows /\ pc[r] \in Adding /\ job[r].undisturbed
      BY <1>3 DEF Adds, MixInv
    <3>2. on[Login] = "none"
      BY <1>0, <3>1 DEF Grows
    <3>3. pc[r] = "write" /\ job[r].writes # <<>> /\ ~Refused(job[r].wish)
      BY <2>2, WriteEffect DEF Planned
    <3>4. job[r].first
      BY <3>1, <3>2, <3>3 DEF Done, Wrote
    <3>5. Reached(Head(job[r].writes).key) = {Login}
      <4>1. job[r].wish \in WishSet /\ job[r].writes \in Seq(Entry)
        BY TypeParts DEF Job
      <4>2. job[r].writes = Writes(job[r].wish) /\ Head(job[r].writes) = job[r].writes[1]
        BY <3>3, <3>4, <4>1, TailEntries DEF Planned
      <4>3. Writes(job[r].wish)[1].key = LoginKey
        BY <3>3, <4>1, WritesProperties
      <4> QED BY <4>2, <4>3, RosterAssumption
    <3>6. \A h \in Groups : on'[h] # on[h] => h \in Reached(Head(job[r].writes).key)
      BY <2>2, WriteEffect
    <3>7. on[g] # "none"
      BY <3>5, <3>6
    <3> QED BY <3>2, <3>7 DEF RosterCoversLists
  <2>3. Plan(r) \/ Report(r) \/ TellRole(r) \/ Fail(r) => UNCHANGED on
    BY PlanEffect, ReportEffect, TellRoleEffect, FailEffect
  <2> QED BY <1>3, <2>1, <2>2, <2>3 DEF AddAction
<1>4. ASSUME NEW r \in Requests, Takes(r), TakeAction(r) PROVE RosterCoversLists'
  <2> SUFFICES ASSUME ~mixed', on'[Login] = "none", NEW g \in Groups, on'[g] # "none"
               PROVE  g \in overlooked'
    BY DEF RosterCoversLists
  <2>1. ~mixed /\ pc[r] \in Removing /\ job[r].undisturbed /\ on[g] # "none"
    BY <1>4 DEF Takes, Shrinks, MixInv
  <2>2. on[Login] = "none" => g \in overlooked
    BY <2>1 DEF RosterCoversLists
  <2>3. CASE Drop(r)
    <3>1. Short(Login.address) \notin job[r].lists
      BY <2>3, DropEffect DEF Kept
    <3>2. on'[Login] = on[Login] /\ overlooked' = overlooked
      BY <1>0, <2>3, <3>1, DropEffect DEF history
    <3> QED BY <2>2, <3>2
  <2>4. CASE DropLogin(r)
    <3>1. pc[r] = "dropLogin" /\ g # Login
          /\ overlooked' = IF on[Login] = "none" THEN overlooked ELSE job[r].unshown
      BY <2>4, DropLoginEffect
    <3>2. g \in job[r].unshown
      BY <2>1, <3>1 DEF Gone
    <3> QED BY <2>2, <3>1, <3>2
  <2>5. Expand(r) \/ Fail(r) => on' = on /\ overlooked' = overlooked
    BY ExpandEffect, FailEffect DEF history
  <2> QED BY <1>4, <2>2, <2>3, <2>4, <2>5 DEF TakeAction
<1> QED BY <1>1, <1>2, <1>3, <1>4, StepKinds

------------------------------------------------------------------------------
(* Theorems. *)

LEMMA InitHolds ==
    ASSUME Init
    PROVE  /\ TypeInv /\ MixInv /\ RosterCoversLists
           /\ \A r \in Requests : Planned(r) /\ Done(r) /\ Kept(r) /\ Gone(r)
<1>1. /\ on \in [Groups -> {"none", "MEMBER"}] /\ shows = on
      /\ (on[Login] = "none" => \A g \in Groups : on[g] = "none")
      /\ pc = [r \in Requests |-> "idle"] /\ job = [r \in Requests |-> NoJob]
      /\ mixed = FALSE /\ overlooked = {}
  BY DEF Init
<1>2. on \in [Groups -> Level] /\ shows \in [Groups -> Level]
  <2>1. {"none", "MEMBER"} \subseteq Level
    BY RoleNames DEF Level
  <2> QED BY <1>1, <2>1
<1>3. pc \in [Requests -> Places] /\ mixed \in BOOLEAN /\ overlooked \in SUBSET Groups
  BY <1>1 DEF Places, Resting
<1>4. job \in [Requests -> Job]
  BY <1>1, NoJobType
<1>5. TypeInv
  BY <1>2, <1>3, <1>4, TypeParts
<1>6. \A r \in Requests : pc[r] = "idle"
  BY <1>1
<1>7. MixInv
  BY <1>6 DEF MixInv, Adding, Removing
<1>8. RosterCoversLists
  BY <1>1 DEF RosterCoversLists
<1>9. \A r \in Requests : Planned(r) /\ Done(r) /\ Kept(r) /\ Gone(r)
  BY <1>6 DEF Planned, Done, Wrote, Kept, Gone
<1> QED BY <1>5, <1>7, <1>8, <1>9

LEMMA TypeStep ==
    ASSUME TypeInv, \A r \in Requests : Planned(r), [Next]_vars
    PROVE  TypeInv'
BY StepKinds DEF Rests, Begins, Starts, Adds, Takes

AddIInv == TypeInv /\ AddInv

\* What an add relies on is an invariant, however slow Google's reads are.
LEMMA AddInvariant == Spec => []AddIInv
<1>1. Init => AddIInv
  BY InitHolds DEF AddIInv, AddInv
<1>2. AddIInv /\ [Next]_vars => AddIInv'
  BY TypeStep, MixStep, PlannedStep, DoneStep DEF AddIInv, AddInv
<1> QED BY <1>1, <1>2, PTL DEF Spec

RemoveIInv == AddIInv /\ RemoveInv

\* So is what a removal relies on.
LEMMA RemoveInvariant == Spec => []RemoveIInv
<1>1. Init => RemoveIInv
  BY InitHolds DEF RemoveIInv, RemoveInv, AddIInv, AddInv
<1>2. RemoveIInv /\ [Next]_vars => RemoveIInv'
  BY TypeStep, MixStep, PlannedStep, DoneStep, CoverStep, KeptStep, GoneStep
  DEF RemoveIInv, RemoveInv, AddIInv, AddInv
<1> QED BY <1>1, <1>2, PTL DEF Spec

\* Every variable of the roster keeps its type.
THEOREM RosterTypesCorrect == Spec => []TypeOK
<1>1. AddIInv => TypeOK
  BY DEF AddIInv, TypeInv
<1> QED BY <1>1, AddInvariant, PTL

\* An add that has passed its check names, in the account's own domain, only
\* lists that Google will find: validateGroupKeys compares short names with
\* every spelling withGroupKey may resolve.
THEOREM PlannedListsExistHolds == Spec => []PlannedListsExist
<1>1. AddIInv => PlannedListsExist
  <2> SUFFICES ASSUME AddIInv, NEW r \in Requests, pc[r] = "write",
                      NEW i \in DOMAIN job[r].writes, job[r].writes[i].key.domain \in {"", Domain}
               PROVE  Reached(job[r].writes[i].key) # {}
    BY DEF PlannedListsExist
  <2>1. job[r].writes \in Seq(Entry)
    BY TypeParts DEF AddIInv, Job
  <2>2. i \in 1..Len(job[r].writes)
    BY <2>1, LenProperties
  <2> DEFINE k == job[r].writes[i].key
  <2>3. IsKey(k) /\ (k = LoginKey \/ Known(k))
    BY <2>2 DEF AddIInv, AddInv, Planned
  <2> QED BY <2>3, KnownIsReached, RosterAssumption
<1> QED BY <1>1, AddInvariant, PTL

\* An add that succeeds beside no removal leaves the person on the login group
\* and on every other list it named, and its answer says so (AddToRoster,
\* withKeys, addedRole) - for any number of concurrent adds, any spelling of
\* the names, and however far behind Google's reads are.
THEOREM AddedMeansListedHolds == Spec => []AddedMeansListed
<1>1. AddIInv => AddedMeansListed
  <2> SUFFICES ASSUME AddIInv, NEW r \in Requests, pc[r] = "added", job[r].undisturbed
               PROVE  /\ on[Login] # "none"
                      /\ job[r].role # "" => job[r].told = LocalRoleFor(on[Login])
                      /\ \A i \in DOMAIN job[r].wish : LET w == job[r].wish[i] IN
                            /\ ForLogin(w) \/ \E g \in Reached(w.key) : on[g] # "none"
                            /\ w.key.local \in job[r].shown \cup HiddenNames
    BY DEF AddedMeansListed
  <2>1. Planned(r) /\ Done(r) /\ Wrote(r)
    BY DEF AddIInv, AddInv, Wrote
  <2>2. on[Login] # "none" /\ (job[r].role # "" => on[Login] = job[r].role)
    BY <2>1 DEF Done
  <2>3. job[r].role # "" => job[r].told = LocalRoleFor(job[r].role)
    BY <2>1 DEF Planned
  <2>4. \A i \in DOMAIN job[r].wish : LET w == job[r].wish[i] IN
           /\ ForLogin(w) \/ \E g \in Reached(w.key) : on[g] # "none"
           /\ w.key.local \in job[r].shown \cup HiddenNames
    BY <2>1 DEF Done, Planned
  <2> QED BY <2>2, <2>3, <2>4
<1> QED BY <1>1, AddInvariant, PTL

\* Wherever adds and removals fail or die, as long as they do not overlap,
\* whoever is off the login group is on no list, but for those Google was not
\* showing the removal that took them off it (planWrites writes the login group
\* first, RemoveFromRoster removes it last) - whichever lists' changes Google is
\* slow to show.
THEOREM RosterCoversListsHolds == Spec => []RosterCoversLists
<1>1. RemoveIInv => RosterCoversLists
  BY DEF RemoveIInv, RemoveInv
<1> QED BY <1>1, RemoveInvariant, PTL

\* A removal that succeeds beside no add has taken the person off the login
\* group and off every list, hidden ones included, that Google showed it
\* (RemoveFromRoster, expand) - whichever lists' changes Google is slow to show.
THEOREM RemovedMeansGoneHolds == Spec => []RemovedMeansGone
<1>1. RemoveIInv => RemovedMeansGone
  BY DEF RemoveIInv, RemoveInv, Gone, RemovedMeansGone
<1> QED BY <1>1, RemoveInvariant, PTL
==============================================================================

------------------------------- MODULE Reports -------------------------------
(***************************************************************************)
(* The requests that report who is on which mailing list:                  *)
(*                                                                         *)
(*   "roster"   GET /api/users                        (user/handler.go)    *)
(*   "me"       the lists in GET and PATCH /api/users/me                   *)
(*   "mine"     GET /api/users/me/groups              (membership/)        *)
(*   "groups"   GET /api/groups                       (googlegroup/)       *)
(*   "members"  GET /api/groups/{group_key}/members                        *)
(*                                                                         *)
(* Each is several reads, of Google, of the caches and of the database, and *)
(* the lists change in between.  The caches are what GroupCaches shows them *)
(* to be: a write made through this service empties them, any other change  *)
(* is hidden until an entry expires.  Google's own delay is left to         *)
(* GroupCaches and Roster: a read that reaches Google sees the lists as     *)
(* they are.                                                                *)
(***************************************************************************)
EXTENDS OrgChart

CONSTANTS
    Persons,      \* people with a Google account
    Nested,       \* mailing lists that are themselves members of lists
    Alphabet,     \* every list key there can be, in alphabetical order
    Login,        \* the login group
    File,         \* chart.yaml
    MixedCase,    \* <<list, member>>: the list writes the address with capitals
    Registered,   \* the people with a row in table users
    InitialLists, InitialOn,
    EarlierLists, EarlierOn,  \* what they were when the caches were filled
    Edits,        \* the changes made: <<list, person, membership>>
    Requests,
    Serves,       \* what each of them may ask, and of what: a bound
    MaxChanges

Lists == Range(Alphabet)
Members == Persons \cup Nested
Chart == LoadChart(File)

NotOn == [role |-> "", status |-> ""]
Membership == [role : {"MEMBER", "MANAGER", "OWNER"}, status : {"", "ACTIVE", "SUSPENDED"}]

Kinds == {"roster", "me", "mine", "groups", "members"}

ASSUME ReportsAssumption ==
    /\ Login \in InitialLists /\ InitialLists \subseteq Lists
    /\ InitialOn \in [Lists -> [Members -> Membership \cup {NotOn}]]
    \* Nobody is on a list that does not exist.
    /\ \A l \in Lists \ InitialLists : \A m \in Members : InitialOn[l][m] = NotOn
    /\ Registered \subseteq Persons /\ MaxChanges \in Nat
    /\ Alphabet \in Seq(Lists) /\ IsInjective(Alphabet)
    /\ Edits \subseteq Lists \X Persons \X (Membership \cup {NotOn})
    /\ \A r \in Requests : \A ask \in Serves[r] :
          \/ ask[1] \in {"roster", "groups"} /\ ask[2] = ""
          \/ ask[1] \in {"me", "mine"} /\ ask[2] \in Persons
          \/ ask[1] = "members" /\ ask[2] \in Lists
    /\ EarlierLists \subseteq Lists /\ DOMAIN EarlierOn \subseteq EarlierLists
    /\ \A l \in DOMAIN EarlierOn : EarlierOn[l] \in [Members -> Membership \cup {NotOn}]
    /\ IsChart(File) /\ Consistent(File) /\ Len(Listed(File)) <= unlistedOrder
    \* The key the code keeps for unlisted groups is not a section's.
    /\ \A i \in DOMAIN File.sections : File.sections[i].key # Unsectioned.key

VARIABLES
    on,           \* Google: each list's members
    lists,        \* Google: the lists there are
    memberCache,  \* the cached member lists, by key
    groupCache,   \* the cached group list: {} or a singleton
    req,          \* each request's local variables
    changes,      \* bounds the changes made
    touched       \* what has not stayed as it is since a request began

vars == <<on, lists, memberCache, groupCache, req, changes, touched>>
google == <<on, lists>>
caches == <<memberCache, groupCache>>

Nobody == [a \in {} |-> {}]
NoRequest == [kind |-> "", pc |-> "idle", subject |-> "", todo |-> {}, broken |-> FALSE,
              direct |-> {}, people |-> {}, profiles |-> {}, entries |-> Nobody,
              keys |-> <<>>, sections |-> <<>>, leader |-> FALSE, known |-> FALSE]

Init ==
    /\ on = InitialOn /\ lists = InitialLists
    \* Cold caches, or caches filled before the lists were last edited elsewhere.
    /\ \/ memberCache = Nobody /\ groupCache = {}
       \/ memberCache = EarlierOn /\ groupCache = {EarlierLists}
    /\ req = [r \in Requests |-> NoRequest]
    /\ changes = 0
    /\ touched = [r \in Requests |-> {}]

------------------------------------------------------------------------------
(* Order and visibility. *)

Position(key) == CHOOSE i \in DOMAIN Alphabet : Alphabet[i] = key

\* The chart's order; lists it does not mention last, by key.
Less(a, b) ==
    \/ Order(Chart, a) < Order(Chart, b)
    \/ Order(Chart, a) = Order(Chart, b) /\ Position(a) < Position(b)

\* The keys in order: the i-th is the one that i - 1 others come before.
Sorted(keys) ==
    [i \in 1..Cardinality(keys) |->
        CHOOSE k \in keys : Cardinality({j \in keys : Less(j, k)}) = i - 1]

visibleKeysByName(keys) == SelectSeq(Alphabet, LAMBDA k : k \in keys /\ ~Hidden(Chart, k))
visibleKeys(keys) == Sorted({k \in keys : ~Hidden(Chart, k)})

\* sectioned: the chart's sections in order, then the lists no section mentions;
\* without what is hidden, and without a section that has nothing to show.  The
\* memberships come sorted, and stay so in their buckets.
Headings == Append([i \in DOMAIN Chart.sections |-> Chart.sections[i].key], Unsectioned.key)

Bucket(memberships, section) ==
    Sorted({k \in memberships : SectionOf(Chart, k).key = section /\ ~Hidden(Chart, k)})

sectioned(memberships) ==
    LET Shown(section) == IF Bucket(memberships, section) = <<>> THEN <<>>
                          ELSE <<[key |-> section, items |-> Bucket(memberships, section)]>>
    IN  FlattenSeq([i \in DOMAIN Headings |-> Shown(Headings[i])])

isLeadership(keys) == keys \cap LeadershipGroups(Chart) # {}

------------------------------------------------------------------------------
(* Addresses and roles. *)

Address(l, m) == [who |-> m, mixed |-> <<l, m>> \in MixedCase]
Lower(a) == [a EXCEPT !.mixed = FALSE]

\* Google's member type; a list on a list is no person.
IsUser(m) == m \in Persons

On(content) == {m \in Members : content[m] # NotOn}

UsersOnAsWritten(l, content) == {Address(l, m) : m \in {n \in On(content) : IsUser(n)}}

\* The addresses a list is read to hold, as the index and the roster key them.
UsersOn(l, content) == {Lower(Address(l, m)) : m \in {n \in On(content) : IsUser(n)}}

usableMemberStatus(status) == status \in {"", "ACTIVE"}
localRoleFor(role) == IF role \in {"MANAGER", "OWNER"} THEN "admin" ELSE "member"

LocalRolesOfAll(content) ==
    {<<Lower(Address(Login, m)), localRoleFor(content[m].role)>> : m \in On(content)}

\* LocalRoles, as the set of address and role.
LocalRoles(content) ==
    {<<Lower(Address(Login, m)), localRoleFor(content[m].role)>> :
        m \in {n \in On(content) : usableMemberStatus(content[n].status)}}

------------------------------------------------------------------------------
(* Reads. *)

\* ListGroups: from the cache, or from Google and into the cache.
ListGroups(answer) ==
    /\ answer = IF groupCache # {} THEN CHOOSE g \in groupCache : TRUE ELSE lists
    /\ groupCache' = {answer}
    /\ UNCHANGED memberCache

\* ListMembers: the same; a list that is gone is an error.
Readable(l) == l \in DOMAIN memberCache \/ l \in lists
ListMembers(l, content) ==
    /\ content = IF l \in DOMAIN memberCache THEN memberCache[l] ELSE on[l]
    /\ memberCache' = [k \in DOMAIN memberCache \cup {l} |->
                          IF k = l THEN content ELSE memberCache[k]]
    /\ UNCHANGED groupCache

\* What a caller cannot expect to be told: what a cached entry already hides.
Hiding ==
    {e \in Lists \X Members :
        e[1] \in DOMAIN memberCache /\ memberCache[e[1]][e[2]] # on[e[1]][e[2]]}
    \cup UNION {((g \cup lists) \ (g \cap lists)) \X (Members \cup {"exists"}) : g \in groupCache}

FirstStep == [roster |-> "groups", groups |-> "groups", me |-> "own", mine |-> "own",
              members |-> "members"]

Start(r, kind, subject) ==
    /\ req[r].pc = "idle"
    /\ req' = [req EXCEPT ![r] = [NoRequest EXCEPT !.kind = kind, !.subject = subject,
                                                  !.pc = FirstStep[kind]]]
    /\ touched' = [touched EXCEPT ![r] = Hiding]
    /\ UNCHANGED <<google, caches, changes>>

\* The answer has been sent.
Leave(r) ==
    /\ req[r].pc \in {"done", "failed"}
    /\ req' = [req EXCEPT ![r] = NoRequest] /\ touched' = [touched EXCEPT ![r] = {}]
    /\ UNCHANGED <<google, caches, changes>>

Quiet == UNCHANGED <<google, changes, touched>>

\* directIndex asks for the lists and starts a read of each.
DirectIndex(r) ==
    /\ req[r].pc = "groups" /\ req[r].kind = "roster"
    /\ \E answer \in SUBSET Lists :
          /\ ListGroups(answer)
          /\ req' = [req EXCEPT ![r].pc = "lists", ![r].todo = answer]
    /\ Quiet

\* ListGroupsHandler: every list, hidden ones too.
ListGroupsHandler(r) ==
    /\ req[r].pc = "groups" /\ req[r].kind = "groups"
    /\ \E answer \in SUBSET Lists :
          /\ ListGroups(answer)
          /\ req' = [req EXCEPT ![r].pc = "done", ![r].keys = Sorted(answer)]
    /\ Quiet

\* The index under construction: <<address, list>>, the key travelling with the
\* members read under it.
Indexed(l, content) == {<<a, l>> : a \in UsersOn(l, content)}

\* One of the index's reads comes back, in whatever order.
ReadList(r, l) ==
    /\ req[r].pc = "lists" /\ l \in req[r].todo /\ Readable(l)
    /\ \E content \in {IF l \in DOMAIN memberCache THEN memberCache[l] ELSE on[l]} :
          /\ ListMembers(l, content)
          /\ req' = [req EXCEPT ![r].todo = @ \ {l},
                                ![r].direct = @ \cup Indexed(l, content)]
    /\ Quiet

\* One of them fails: Google does, or the list is gone, or an earlier failure
\* has cancelled the context they share.
ReadFails(r, l) ==
    /\ req[r].pc = "lists" /\ l \in req[r].todo
    /\ req' = [req EXCEPT ![r].todo = @ \ {l}, ![r].broken = TRUE]
    /\ UNCHANGED caches /\ Quiet

\* What remains of a request once it has its answer, or none.
Finished(r, pc) == [NoRequest EXCEPT !.kind = req[r].kind, !.subject = req[r].subject, !.pc = pc]

NeverRejected(r) == FALSE
Rejected(r) == req[r].broken

\* errgroup.Wait: all of them are back; one failure fails the index.
Wait(r) ==
    /\ req[r].pc = "lists" /\ req[r].todo = {}
    /\ req' = IF Rejected(r) THEN [req EXCEPT ![r] = Finished(r, "failed")]
              ELSE [req EXCEPT ![r].pc = "login"]
    /\ UNCHANGED caches /\ Quiet

\* RosterGroupKeys: the login group says who is on the roster, the index which
\* lists each of them reaches.
RosterGroupKeys(r) ==
    /\ req[r].pc = "login" /\ Readable(Login)
    /\ \E content \in {IF Login \in DOMAIN memberCache THEN memberCache[Login] ELSE on[Login]} :
          /\ ListMembers(Login, content)
          /\ req' = [req EXCEPT ![r].pc = "profiles", ![r].people = UsersOn(Login, content),
                                ![r].direct = {d \in @ : d[1] \in UsersOn(Login, content)}]
    /\ Quiet

\* ListMembersHandler reads one list.
ReadMembers(r) ==
    /\ req[r].pc = "members" /\ Readable(req[r].subject)
    /\ LET l == req[r].subject IN
       \E content \in {IF l \in DOMAIN memberCache THEN memberCache[l] ELSE on[l]} :
          /\ ListMembers(l, content)
          /\ req' = [req EXCEPT ![r].pc = "profiles",
                                ![r].people = {Address(l, m) : m \in On(content)}]
    /\ Quiet

\* ListByEmails: the rows of some addresses, in whatever case these are.
ListByEmails(addresses) == {Lower(a) : a \in {b \in addresses : b.who \in Registered}}

\* Members are decorated with the profiles found; ListMembersHandler does
\* without when the database fails, ListHandler does not.
Decorated(r, profiles) ==
    [a \in req[r].people |-> [role |-> "", groups |-> <<>>, profile |-> Lower(a) \in profiles]]

Profiles(r) ==
    /\ req[r].pc = "profiles"
    /\ LET profiles == ListByEmails(req[r].people) IN
          req' = IF req[r].kind = "roster"
                 THEN [req EXCEPT ![r].pc = "roles", ![r].profiles = profiles]
                 ELSE [req EXCEPT ![r] = [Finished(r, "done") EXCEPT !.entries = Decorated(r, profiles)]]
    /\ UNCHANGED caches /\ Quiet

lookupProfiles(r) ==
    /\ req[r].pc = "profiles" /\ req[r].kind = "members"
    /\ req' = [req EXCEPT ![r] = [Finished(r, "done") EXCEPT !.entries = Decorated(r, {})]]
    /\ UNCHANGED caches /\ Quiet

\* The roster's entry for one address; without a role it is a member.
Entry(r, a, roles) ==
    [role |-> IF <<a, "admin">> \in roles THEN "admin" ELSE "member",
     groups |-> visibleKeys({l \in Lists : <<a, l>> \in req[r].direct}),
     profile |-> a \in req[r].profiles]

\* ListHandler reads the login group again, for the roles, and answers.
ListHandler(r) ==
    /\ req[r].pc = "roles" /\ Readable(Login)
    /\ \E content \in {IF Login \in DOMAIN memberCache THEN memberCache[Login] ELSE on[Login]} :
          /\ ListMembers(Login, content)
          /\ req' = [req EXCEPT ![r] = [Finished(r, "done") EXCEPT
                        !.entries = [a \in req[r].people |-> Entry(r, a, LocalRoles(content))]]]
    /\ Quiet

\* expand: the lists one person is on, asked of Google directly.
expand(p) == {l \in lists : on[l][p] # NotOn}

GroupKeysForEmail(r) ==
    /\ req[r].pc = "own" /\ req[r].kind = "me"
    /\ req' = [req EXCEPT ![r] = [Finished(r, "done") EXCEPT
                  !.keys = visibleKeys(expand(req[r].subject)), !.known = TRUE]]
    /\ UNCHANGED caches /\ Quiet

\* withGroups: the profile is answered without its lists.
WithoutGroups(r) ==
    /\ req[r].pc = "own" /\ req[r].kind = "me"
    /\ req' = [req EXCEPT ![r] = Finished(r, "done")]
    /\ UNCHANGED caches /\ Quiet

\* MyGroupsHandler.
ForEmail(r) ==
    /\ req[r].pc = "own" /\ req[r].kind = "mine"
    /\ LET direct == expand(req[r].subject) IN
          req' = [req EXCEPT ![r] = [Finished(r, "done") EXCEPT
                     !.sections = sectioned(direct), !.leader = isLeadership(direct),
                     !.known = TRUE]]
    /\ UNCHANGED caches /\ Quiet

\* A call that must succeed does not.
Fail(r) ==
    /\ \/ req[r].pc \in {"groups", "login", "members", "roles"}
       \/ req[r].pc = "own" /\ req[r].kind = "mine"
       \/ req[r].pc = "profiles" /\ req[r].kind = "roster"
    /\ req' = [req EXCEPT ![r] = Finished(r, "failed")]
    /\ UNCHANGED caches /\ Quiet

Step(r) ==
    \/ DirectIndex(r) \/ ListGroupsHandler(r)
    \/ \E l \in Lists : ReadList(r, l) \/ ReadFails(r, l)
    \/ Wait(r) \/ RosterGroupKeys(r) \/ ReadMembers(r)
    \/ Profiles(r) \/ lookupProfiles(r) \/ ListHandler(r)
    \/ GroupKeysForEmail(r) \/ WithoutGroups(r) \/ ForEmail(r) \/ Fail(r)

------------------------------------------------------------------------------
(* The lists change. *)

Disturb(pairs) == touched' = [r \in Requests |->
                                 IF req[r].pc = "idle" THEN {} ELSE touched[r] \cup pairs]

\* A membership changes: through this service, which empties its caches, or not.
ChangeMembership(l, p, m) ==
    /\ changes < MaxChanges /\ l \in lists /\ m # on[l][p]
    /\ changes' = changes + 1
    /\ on' = [on EXCEPT ![l][p] = m]
    /\ Disturb({<<l, p>>})
    /\ UNCHANGED <<lists, req>>

WriteHere(l, p, m) ==
    /\ ChangeMembership(l, p, m)
    /\ memberCache' = Nobody /\ groupCache' = {}

WriteElsewhere(l, p, m) == ChangeMembership(l, p, m) /\ UNCHANGED caches

\* Lists are created and deleted in Google's console only.
EditLists(l) ==
    /\ changes < MaxChanges /\ l # Login
    /\ changes' = changes + 1
    /\ lists' = IF l \in lists THEN lists \ {l} ELSE lists \cup {l}
    /\ on' = [on EXCEPT ![l] = [m \in Members |-> NotOn]]
    /\ Disturb({l} \X (Members \cup {"exists"}))
    /\ UNCHANGED <<caches, req>>

\* An entry's lifetime ends.
Expire ==
    /\ \/ \E l \in DOMAIN memberCache :
             /\ memberCache' = [k \in DOMAIN memberCache \ {l} |-> memberCache[k]]
             /\ UNCHANGED groupCache
       \/ groupCache # {} /\ groupCache' = {} /\ UNCHANGED memberCache
    /\ UNCHANGED <<google, req, changes, touched>>

Next ==
    \/ \E r \in Requests :
          \/ \E ask \in Serves[r] : Start(r, ask[1], ask[2])
          \/ Step(r) \/ Leave(r)
    \/ \E e \in Edits : WriteHere(e[1], e[2], e[3]) \/ WriteElsewhere(e[1], e[2], e[3])
    \/ \E l \in Lists : EditLists(l)
    \/ Expire

Spec == Init /\ [][Next]_vars

------------------------------------------------------------------------------
(* Properties. *)

Done(r, kind) == req[r].kind = kind /\ req[r].pc = "done"
Stable(r, l, p) == <<l, p>> \notin touched[r]
Holds(l, p) == l \in lists /\ on[l][p] # NotOn
Plain(p) == [who |-> p, mixed |-> FALSE]

\* What a request told of one person's lists: a set, empty when it told nothing.
Told(r, p) ==
    CASE Done(r, "roster") -> {req[r].entries[a].groups : a \in DOMAIN req[r].entries \cap {Plain(p)}}
      [] Done(r, "me") -> IF req[r].known /\ req[r].subject = p THEN {req[r].keys} ELSE {}
      [] Done(r, "mine") ->
            IF req[r].subject # p THEN {}
            ELSE {FlattenSeq([i \in DOMAIN req[r].sections |-> req[r].sections[i].items])}
      [] OTHER -> {}

\* Every variable keeps its type.
TypeOK ==
    /\ on \in [Lists -> [Members -> Membership \cup {NotOn}]] /\ lists \subseteq Lists
    /\ DOMAIN memberCache \subseteq Lists
    /\ \A l \in DOMAIN memberCache : memberCache[l] \in [Members -> Membership \cup {NotOn}]
    /\ groupCache \subseteq SUBSET Lists /\ Cardinality(groupCache) <= 1
    /\ changes \in 0..MaxChanges
    /\ \A r \in Requests :
          /\ touched[r] \subseteq Lists \X (Members \cup {"exists"})
          /\ req[r].todo \subseteq Lists
          /\ \A d \in req[r].direct : d[1].who \in Persons /\ ~d[1].mixed /\ d[2] \in Lists
          /\ \A a \in DOMAIN req[r].entries :
                req[r].entries[a].role \in {"", "member", "admin"}

\* The roster: people, each once, and each of those on the login group.
RosterTold(r) ==
    /\ \A a \in DOMAIN req[r].entries : a.who \in Persons /\ a = Plain(a.who)
    /\ \A p \in Persons : Stable(r, Login, p) =>
          (Plain(p) \in DOMAIN req[r].entries <=> Holds(Login, p))

\* The members of one list, under the addresses the list has.
MembersTold(r) ==
    \A m \in Members : Stable(r, req[r].subject, m) =>
        (Address(req[r].subject, m) \in DOMAIN req[r].entries <=> Holds(req[r].subject, m))

\* Somebody's lists: those that are not hidden.
ListsTold(r) ==
    \A p \in Persons : \A keys \in Told(r, p) : \A l \in Lists : Stable(r, l, p) =>
        (l \in Range(keys) <=> Holds(l, p) /\ ~Hidden(Chart, l))

\* Officers are recognised by hidden lists too.
LeaderTold(r) ==
    (\A l \in LeadershipGroups(Chart) : Stable(r, l, req[r].subject)) =>
        (req[r].leader <=> \E l \in LeadershipGroups(Chart) : Holds(l, req[r].subject))

\* The list of lists has every list, hidden or not: one nobody has classified
\* "has to be visible before anyone can classify it" (handler.go).
ListTold(r) ==
    \A l \in Lists : Stable(r, l, "exists") => (l \in Range(req[r].keys) <=> l \in lists)

\* However many reads an answer is put together from, and whatever else changes
\* between them, what stays as it is throughout is reported as it is: nobody
\* and no list is missing, and nothing is attributed to the wrong one
\* (membership/service.go, directIndex and RosterGroupKeys; the handlers).
StableReported ==
    \A r \in Requests :
        /\ ListsTold(r)
        /\ Done(r, "roster") => RosterTold(r)
        /\ Done(r, "members") => MembersTold(r)
        /\ Done(r, "mine") => LeaderTold(r)
        /\ Done(r, "groups") => ListTold(r)

\* The roster, the profile page and the profile's short list do not disagree
\* about which lists a person is on, except over a membership that changed
\* after the earlier of them began, and never about their order, nor does one
\* name a list twice (visibleKeys: "so they cannot disagree about which lists a
\* person is on or in what order").
ViewsAgree ==
    \A r, s \in Requests : \A p \in Persons : \A v \in Told(r, p), w \in Told(s, p) :
        /\ \A l \in Lists : Stable(r, l, p) /\ Stable(s, l, p) => (l \in Range(v) <=> l \in Range(w))
        /\ \A i, j \in DOMAIN v, m, n \in DOMAIN w :
              v[i] = w[m] /\ v[j] = w[n] => (i < j <=> m < n)

\* The roster calls somebody an admin exactly when signing in would make them
\* one: a suspended manager is none (rolesync.go: one implementation, so that
\* the read paths and the sign-in path agree).
AdminsAgree ==
    \A r \in Requests : Done(r, "roster") =>
        \A a \in DOMAIN req[r].entries : Stable(r, Login, a.who) =>
            LET m == on[Login][a.who] IN
                req[r].entries[a].role = "admin" <=>
                    usableMemberStatus(m.status) /\ localRoleFor(m.role) = "admin"
==============================================================================

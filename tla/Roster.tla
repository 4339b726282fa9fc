-------------------------------- MODULE Roster --------------------------------
(***************************************************************************)
(* Adding a person to the club and taking them off it: POST /api/users and *)
(* DELETE /api/users/{email} (user/handler.go), AddToRoster and            *)
(* RemoveFromRoster (membership/service.go), one Google call at a time.    *)
(*                                                                         *)
(* People do not affect each other's memberships: the model follows one.   *)
(* Nothing is rolled back when a call fails, and any call may fail, with   *)
(* or without having taken effect.                                         *)
(***************************************************************************)
EXTENDS Integers, Sequences, GroupKeys

CONSTANTS
    Requests,     \* requests being served at one time
    Login,        \* the group that gates sign-in
    LoginKey,     \* how the configuration spells it
    Wishes,       \* what an add may name: sequences of [key, role]
    HiddenNames,  \* local parts of the lists the chart does not show
    Lagging       \* the lists whose changes Google is slow to show

GroupRoles == {"MEMBER", "MANAGER", "OWNER"}

\* One Workspace domain (googlegroup/service.go:525): a local part says which
\* list is meant.
ASSUME RosterAssumption ==
    /\ Login \in Groups /\ IsKey(LoginKey) /\ Reached(LoginKey) = {Login}
    /\ Lagging \subseteq Groups
    /\ \A g \in Groups : \A a \in Addresses(g) : a.domain = Domain
    /\ \A g \in Groups : \A a \in Addresses(g) : Same(a, LoginKey) => g = Login
    \* It is configured by its address, not by an alias or its ID.
    /\ Same(Login.address, LoginKey)
    /\ \A wish \in Wishes : /\ wish \in Seq({wish[i] : i \in DOMAIN wish})
                            /\ \A i \in DOMAIN wish : IsKey(wish[i].key)

VARIABLES
    on,        \* Google: the person's role on each list, or "none"
    shows,     \* Google: the same, as its reads show it, which may be behind
    pc, job,   \* each request: where it is, and its local variables
    \* History, read by no guard: whether an add has ever overlapped a removal;
    \* the lists Google had not shown the removal that last took the person off
    \* the login group.
    mixed, overlooked

history == <<mixed, overlooked>>
vars == <<on, shows, pc, job, history>>

Adding == {"plan", "write", "tellRole"}
Removing == {"expand", "drop", "dropLogin"}
Resting == {"idle", "refused", "failed", "added", "removed"}

\* wish: what was asked; writes: what is left to write; first: is the login
\* group still to be written?; role: what was written on it; shown: the names
\* answered; told: the role answered; lists: what is left to remove.
\* History: undisturbed: has no request of the other kind run since this one
\* started?; unshown: the lists the person was on and Google did not show.
NoJob == [wish |-> <<>>, writes |-> <<>>, first |-> TRUE, role |-> "",
          shown |-> {}, told |-> "", lists |-> {},
          undisturbed |-> TRUE, unshown |-> {}]

Init ==
    /\ on \in [Groups -> {"none", "MEMBER"}]
    /\ on[Login] = "none" => \A g \in Groups : on[g] = "none"
    /\ shows = on
    /\ pc = [r \in Requests |-> "idle"] /\ job = [r \in Requests |-> NoJob]
    /\ mixed = FALSE /\ overlooked = {}

------------------------------------------------------------------------------
(* What an add writes, and what it answers. *)

\* NormalizeRole: no role means MEMBER, letter case does not matter.
Spellings == [MEMBER |-> {"", "member"}, MANAGER |-> {"manager"}, OWNER |-> {"owner"}]
NormalizeRole(role) ==
    LET meant == {g \in GroupRoles : role \in Spellings[g]}
    IN  IF meant = {} THEN role ELSE CHOOSE g \in meant : TRUE
Normalized(wish) ==
    [i \in DOMAIN wish |-> [key |-> wish[i].key, role |-> NormalizeRole(wish[i].role)]]

Malformed(wish) == \E i \in DOMAIN wish : wish[i].role \notin GroupRoles
Repeats(wish) == \E i, j \in DOMAIN wish : i < j /\ Same(wish[i].key, wish[j].key)
ForLogin(w) == Same(w.key, LoginKey)
Unknown(wish) == \E i \in DOMAIN wish : ~ForLogin(wish[i]) /\ ~Known(wish[i].key)
Refused(wish) == Malformed(wish) \/ Repeats(wish) \/ Unknown(wish)

\* Where a wish that is not refused names the login group, if it does.
LoginAt(wish) == CHOOSE i \in DOMAIN wish : ForLogin(wish[i])
NamesLogin(wish) == \E i \in DOMAIN wish : ForLogin(wish[i])

LoginWrite(wish) ==
    [key |-> LoginKey, role |-> IF NamesLogin(wish) THEN wish[LoginAt(wish)].role ELSE "MEMBER"]

Others(wish) ==
    IF NamesLogin(wish)
    THEN SubSeq(wish, 1, LoginAt(wish) - 1) \o SubSeq(wish, LoginAt(wish) + 1, Len(wish))
    ELSE wish
WritesLoginLast(wish) == Append(Others(wish), LoginWrite(wish))
\* planWrites: the login group leads, named or not.
Writes(wish) == <<LoginWrite(wish)>> \o Others(wish)

WrittenNames(wish) == {Writes(wish)[i].key.local : i \in DOMAIN Writes(wish)}

RoleUnmapped(role) == role
\* auth.LocalRoleFor, and no privileges for someone who is not on the list.
LocalRoleFor(role) == IF role \in {"OWNER", "MANAGER"} THEN "admin" ELSE "member"

RolesReadBack(written) == {LocalRoleFor(shows[Login])}
\* addedRole: what was written, or else what the list shows, or else "member".
RolesTold(written) ==
    IF written # "" THEN {LocalRoleFor(written)} ELSE {LocalRoleFor(shows[Login]), "member"}

------------------------------------------------------------------------------
(* The requests. *)

Goto(r, l) == pc' = [pc EXCEPT ![r] = l]
\* A request that did not succeed leaves nothing behind but what it wrote.
End(r, l) == Goto(r, l) /\ job' = [job EXCEPT ![r] = NoJob]
Set(g, role) ==
    /\ on' = [on EXCEPT ![g] = role]
    /\ shows' = IF g \in Lagging THEN shows ELSE [shows EXCEPT ![g] = role]

\* Starting a request disturbs those of the other kind, and is disturbed by
\* those still being served.
Start(r, l, new, opposite) ==
    LET others == {q \in Requests : pc[q] \in opposite}
        served == {q \in others : pc[q] \notin Resting}
    IN  /\ pc[r] \in Resting
        /\ Goto(r, l)
        /\ job' = [q \in Requests |->
                     IF q = r THEN [new EXCEPT !.undisturbed = served = {}]
                     ELSE [job[q] EXCEPT !.undisturbed = @ /\ q \notin others]]
        /\ mixed' = (mixed \/ served # {})
        /\ UNCHANGED <<on, shows, overlooked>>

StartAdd(r, wish) ==
    Start(r, "plan", [NoJob EXCEPT !.wish = wish], Removing \cup {"removed"})
StartRemove(r) == Start(r, "expand", NoJob, Adding \cup {"added"})

\* planWrites: what can be refused is refused before anything is written.
Plan(r) == LET wish == Normalized(job[r].wish) IN
    /\ pc[r] = "plan"
    /\ \/ Refused(wish) /\ End(r, "refused")
       \/ /\ ~Refused(wish) /\ Goto(r, "write")
          /\ job' = [job EXCEPT ![r].wish = wish, ![r].writes = Writes(wish)]
    /\ UNCHANGED <<on, shows, history>>

\* The person is put on the next list; the answer may be lost.
Insert(r, g) == LET w == Head(job[r].writes) IN
    /\ on[g] = "none" /\ Set(g, w.role)
    /\ \/ /\ job' = [job EXCEPT ![r].writes = Tail(@), ![r].first = FALSE,
                                ![r].role = IF job[r].first THEN w.role ELSE @]
          /\ pc' = pc
       \/ End(r, "failed")

\* They are on it already, and left as they are.
Skip(r, g) ==
    /\ on[g] # "none"
    /\ job' = [job EXCEPT ![r].writes = Tail(@), ![r].first = FALSE]
    /\ UNCHANGED <<on, shows, pc>>

Write(r) ==
    /\ pc[r] = "write" /\ job[r].writes # <<>>
    /\ LET reached == Reached(Head(job[r].writes).key) IN
          \/ \E g \in reached : Insert(r, g) \/ Skip(r, g)
          \/ reached = {} /\ End(r, "failed") /\ UNCHANGED <<on, shows>>
    /\ UNCHANGED history

\* GroupKeysForEmail, and what this request knows for certain (withKeys).
Report(r) ==
    /\ pc[r] = "write" /\ job[r].writes = <<>>
    /\ LET read == {g.address.local : g \in {h \in Groups : shows[h] # "none"}} IN
          job' = [job EXCEPT ![r].shown = (read \cup WrittenNames(job[r].wish)) \ HiddenNames]
    /\ Goto(r, "tellRole")
    /\ UNCHANGED <<on, shows, history>>

TellRole(r) ==
    /\ pc[r] = "tellRole"
    /\ \E role \in RolesTold(job[r].role) : job' = [job EXCEPT ![r].told = role]
    /\ Goto(r, "added")
    /\ UNCHANGED <<on, shows, history>>

\* Hidden lists too: a list nobody displays still delivers mail.
ListsToDrop(lists) == {g \in lists : ~Same(g.address, LoginKey)}

\* expand; the login group is kept for last.
Expand(r) ==
    /\ pc[r] = "expand"
    /\ LET lists == {g \in Groups : shows[g] # "none"} IN
          job' = [job EXCEPT ![r].lists = {Short(g.address) : g \in ListsToDrop(lists)},
                             ![r].unshown = {g \in Groups \ lists : on[g] # "none"}]
    /\ Goto(r, "drop")
    /\ UNCHANGED <<on, shows, history>>

\* removeMembership; not being on the list is as good.
Remove(k) ==
    LET direct == {g \in Named(Qualified(k)) : on[g] # "none"}
        found == IF direct # {} THEN direct ELSE {g \in Named(k) : on[g] # "none"}
    IN  \/ \E g \in found : Set(g, "none")
        \/ found = {} /\ UNCHANGED <<on, shows>>

Drop(r) ==
    /\ pc[r] = "drop"
    /\ \/ \E k \in job[r].lists :
             /\ Remove(k)
             /\ \/ job' = [job EXCEPT ![r].lists = @ \ {k}] /\ pc' = pc
                \/ End(r, "failed")
       \/ job[r].lists = {} /\ Goto(r, "dropLogin") /\ UNCHANGED <<on, shows, job>>
    /\ UNCHANGED history

RemoveLoginIfShown ==
    IF shows[Login] = "none" THEN UNCHANGED <<on, shows>> ELSE Remove(LoginKey)
\* Attempted whatever the read above showed.
RemoveLogin == Remove(LoginKey)

DropLogin(r) ==
    /\ pc[r] = "dropLogin"
    /\ RemoveLogin
    /\ (Goto(r, "removed") /\ job' = job) \/ End(r, "failed")
    /\ overlooked' = IF on[Login] = "none" THEN overlooked ELSE job[r].unshown
    /\ UNCHANGED mixed

\* A call fails without effect, or the process dies.
Fail(r) ==
    /\ pc[r] \notin Resting
    /\ End(r, "failed")
    /\ UNCHANGED <<on, shows, history>>

\* Google's reads catch up with one list.
Propagate(g) ==
    /\ shows[g] # on[g] /\ shows' = [shows EXCEPT ![g] = on[g]]
    /\ UNCHANGED <<on, pc, job, history>>

Next ==
    \/ \E r \in Requests :
          \/ \E wish \in Wishes : StartAdd(r, wish)
          \/ StartRemove(r)
          \/ Plan(r) \/ Write(r) \/ Report(r) \/ TellRole(r)
          \/ Expand(r) \/ Drop(r) \/ DropLogin(r) \/ Fail(r)
    \/ \E g \in Groups : Propagate(g)

Spec == Init /\ [][Next]_vars

------------------------------------------------------------------------------
(* Properties. *)

\* Every variable keeps its type.
TypeOK ==
    /\ {on, shows} \subseteq [Groups -> GroupRoles \cup {"none"}]
    /\ pc \in [Requests -> Adding \cup Removing \cup Resting]
    /\ mixed \in BOOLEAN /\ overlooked \subseteq Groups
    /\ \A r \in Requests :
          /\ job[r].wish \in Wishes \cup {<<>>} \cup {Normalized(wish) : wish \in Wishes}
          /\ job[r].lists \subseteq {Short(g.address) : g \in Groups}
          /\ job[r].unshown \subseteq Groups
          /\ job[r].role \in GroupRoles \cup {""}
          /\ job[r].told \in {"", "member", "admin"}
          /\ {job[r].first, job[r].undisturbed} \subseteq BOOLEAN

\* Wherever a request fails, nobody is left on a list without being on the
\* login group, where they can be seen and the request repeated, but for the
\* lists Google was not yet showing the removal that took them off it - as long
\* as no add has overlapped a removal (planWrites puts the login group first,
\* RemoveFromRoster last).
RosterCoversLists ==
    ~mixed /\ on[Login] = "none" => \A g \in Groups : on[g] # "none" => g \in overlooked

\* A removal that succeeds leaves the person off the login group, whether or not
\* Google's reads had caught up with their being on it, and off every list
\* Google showed it, hidden ones included (RemoveFromRoster: "takes email off
\* every mailing list they are listed on").
RemovedMeansGone ==
    \A r \in Requests : pc[r] = "removed" /\ job[r].undisturbed =>
        /\ on[Login] = "none"
        /\ \A g \in Groups : on[g] # "none" => g \in job[r].unshown

\* An add that succeeds leaves the person on the login group and on every other
\* list it named, whatever earlier or concurrent adds had done; its answer names
\* them all, and the role it wrote is the role it tells, however slow Google is
\* to show either (AddToRoster, addedRole).
AddedMeansListed ==
    \A r \in Requests : pc[r] = "added" /\ job[r].undisturbed =>
        /\ on[Login] # "none"
        /\ job[r].role # "" => job[r].told = LocalRoleFor(on[Login])
        /\ \A i \in DOMAIN job[r].wish : LET w == job[r].wish[i] IN
              /\ ForLogin(w) \/ \E g \in Reached(w.key) : on[g] # "none"
              /\ w.key.local \in job[r].shown \cup HiddenNames

\* A typo costs nothing: an add that has started to write names, in the
\* account's own domain, only lists that exist - although the check compares
\* short names and Google resolves full ones (validateGroupKeys, withGroupKey).
PlannedListsExist ==
    \A r \in Requests : pc[r] = "write" =>
        \A i \in DOMAIN job[r].writes : LET k == job[r].writes[i].key IN
            k.domain \in {"", Domain} => Reached(k) # {}
==============================================================================

------------------------------ MODULE MCReports ------------------------------
(***************************************************************************)
(* Reports for two people and three lists: the login group, a list the     *)
(* chart hides, whose members are the officers, and one it does not know.  *)
(***************************************************************************)
EXTENDS Reports

MCAlphabet == <<"fresh", "general", "info">>

MCFile ==
    [sections |-> <<[key |-> "system", hidden |-> TRUE, groups |-> <<"info">>],
                    [key |-> "all", hidden |-> FALSE, groups |-> <<"general">>]>>,
     groups |-> {"general", "info"},
     roles |-> <<[key |-> "president", group |-> "info", owns |-> <<"general">>]>>]

Is(role, status) == [role |-> role, status |-> status]

\* ann manages the club; bob has been suspended as a manager; a list is on the
\* login group.
MCInitialOn ==
    [l \in Lists |-> [m \in Members |->
        CASE l = "general" /\ m = "ann" -> Is("MANAGER", "")
          [] l = "general" /\ m = "bob" -> Is("MANAGER", "SUSPENDED")
          [] l = "general" /\ m = "info" -> Is("MEMBER", "")
          [] l = "info" /\ m = "ann" -> Is("MEMBER", "ACTIVE")
          [] l = "fresh" /\ m = "ann" -> Is("MEMBER", "ACTIVE")
          [] OTHER -> NotOn]]

\* What the caches may still say: bob was a member in good standing, and the
\* newest list did not exist.
MCEarlierLists == {"general", "info"}
MCEarlierOn ==
    [l \in {"general"} |-> [MCInitialOn[l] EXCEPT !["bob"] = Is("MEMBER", "")]]

\* The login group writes ann's address with capitals, the others do not.
MCMixedCase == {<<"general", "ann">>}

\* bob is reinstated or leaves, or ann is no officer any more.
MCEdits ==
    {<<"general", "bob", Is("MANAGER", "")>>, <<"general", "bob", NotOn>>,
     <<"info", "ann", NotOn>>}

MCServes ==
    [r \in Requests |->
        IF r = "r1" THEN {<<"roster", "">>}
        ELSE {<<"groups", "">>, <<"me", "ann">>, <<"mine", "ann">>, <<"members", "general">>}]
==============================================================================

-------------------------- MODULE MCRolePropagation --------------------------
(* RolePropagation on small sets. *)
EXTENDS RolePropagation, TLC

CONSTANTS NotThere

\* Someone may administer, be an ordinary member, be suspended while still
\* listed as a manager, or not be there at all.
SomeMemberships ==
    {[role |-> "MANAGER", status |-> ""], [role |-> "MEMBER", status |-> "ACTIVE"],
     [role |-> "MANAGER", status |-> "SUSPENDED"], NotThere}

Symmetric == Permutations(Requests)
==============================================================================

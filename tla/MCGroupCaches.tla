---------------------------- MODULE MCGroupCaches ----------------------------
(***************************************************************************)
(* GroupCaches on small sets of readers, writers and slots.                *)
(***************************************************************************)
EXTENDS GroupCaches, TLC

\* Readers are interchangeable, and so are the spellings of the list's key.
Symmetric == Permutations(Readers) \cup Permutations(Writers) \cup Permutations(MemberSlots)
==============================================================================

-------------------------------- MODULE MCRoster --------------------------------
(* A small account: the login list, a list with an alias, a list the chart     *)
(* hides, and every spelling a caller may use for them.                        *)
EXTENDS Roster, TLC

At(l, d) == [local |-> l, domain |-> d]
MCDomain == "ours"
General == [id |-> "i1", address |-> At("general", "ours"), aliases |-> {}]
Dev == [id |-> "i2", address |-> At("dev", "ours"), aliases |-> {At("eng", "ours")}]
Bots == [id |-> "i3", address |-> At("bots", "ours"), aliases |-> {}]
MCGroups == {General, Dev, Bots}
MCLoginKey == At("general", "ours")
MCLagging == {General, Dev}
MCHidden == {"bots"}

As(k, role) == [key |-> k, role |-> role]
MCWishes == {
    <<>>,                                                          \* the club only
    <<As(Bare("dev"), "MEMBER"), As(Bare("general"), "manager")>>, \* an admin
    \* One list by alias and by ID, and another.
    <<As(At("eng", "ours"), ""), As(Bare("i2"), "OWNER"), As(Bare("i3"), "member")>>,
    \* In another domain, and taken for the login group where it reads like it.
    <<As(At("dev", "else"), "MEMBER"), As(At("general", "else"), "manager")>>,
    <<As(Bare("bots"), "MEMBER"), As(Bare("dve"), "MEMBER")>>,     \* a typo
    <<As(Bare("dev"), "MEMBER"), As(At("dev", "ours"), "MEMBER")>>,\* named twice
    <<As(Bare("dev"), "BOSS")>> }                                  \* no such role

Symmetric == Permutations(Requests)
================================================================================

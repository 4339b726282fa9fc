------------------------------ MODULE OrgChart -------------------------------
(***************************************************************************)
(* The organization chart (internal/orgchart): what Load makes of          *)
(* chart.yaml, and what the chart answers about a mailing list.            *)
(*                                                                         *)
(* A chart file is a record of its sections, in order, the set of list     *)
(* keys it names, and its officer roles, in order.  Names and titles are   *)
(* left out: nothing depends on them.                                      *)
(***************************************************************************)
EXTENDS Naturals, Sequences, FiniteSets, SequencesExt, Functions

\* What the YAML decoder makes of a file, whatever it says.
IsChart(file) ==
    /\ file.sections \in Seq(Range(file.sections)) /\ file.roles \in Seq(Range(file.roles))
    /\ \A s \in Range(file.sections) : s.hidden \in BOOLEAN /\ s.groups \in Seq(Range(s.groups))
    /\ \A r \in Range(file.roles) : r.owns \in Seq(Range(r.owns))

Empty == [k \in {} |-> {}]

\* The tables index builds.  placed lists the keys in the order they were given
\* a number, which is what the map order amounts to.
Blank == [error |-> FALSE, sections |-> {}, placed |-> <<>>, sectionOf |-> Empty,
          roles |-> {}, ownerOf |-> Empty]

Refused(ix) == [ix EXCEPT !.error = TRUE]

PlaceGroupAgain(file, s, ix, key) ==
    IF key \notin file.groups THEN Refused(ix)
    ELSE [ix EXCEPT !.placed = Append(@, key),
                    !.sectionOf = [k \in DOMAIN @ \cup {key} |-> IF k = key THEN s ELSE @[k]]]

\* One list of a section: it has to be named, and to be in no other section.
PlaceGroup(file, s, ix, key) ==
    IF key \notin file.groups \/ key \in DOMAIN ix.sectionOf THEN Refused(ix)
    ELSE [ix EXCEPT !.placed = Append(@, key),
                    !.sectionOf = [k \in DOMAIN @ \cup {key} |-> IF k = key THEN s ELSE @[k]]]

PlaceGroups(file, s, ix) ==
    LET after[n \in 0..Len(s.groups)] ==
            IF n = 0 THEN ix ELSE PlaceGroup(file, s, after[n - 1], s.groups[n])
    IN  after[Len(s.groups)]

PlaceSection(file, ix, s) ==
    IF s.key = "" \/ s.key \in ix.sections THEN Refused(ix)
    ELSE PlaceGroups(file, s, [ix EXCEPT !.sections = @ \cup {s.key}])

PlaceSections(file) ==
    LET after[n \in 0..Len(file.sections)] ==
            IF n = 0 THEN Blank ELSE PlaceSection(file, after[n - 1], file.sections[n])
    IN  after[Len(file.sections)]

\* One list a role is responsible for: it has to be named, and to have no other
\* owner.
OwnGroup(file, r, ix, key) ==
    IF key \notin file.groups \/ key \in DOMAIN ix.ownerOf THEN Refused(ix)
    ELSE [ix EXCEPT !.ownerOf = [k \in DOMAIN @ \cup {key} |-> IF k = key THEN r ELSE @[k]]]

OwnGroups(file, r, ix) ==
    LET after[n \in 0..Len(r.owns)] ==
            IF n = 0 THEN ix ELSE OwnGroup(file, r, after[n - 1], r.owns[n])
    IN  after[Len(r.owns)]

PlaceRole(file, ix, r) ==
    IF r.key \in ix.roles \/ r.group \notin file.groups THEN Refused(ix)
    ELSE OwnGroups(file, r, [ix EXCEPT !.roles = @ \cup {r.key}])

PlaceRoles(file, ix) ==
    LET after[n \in 0..Len(file.roles)] ==
            IF n = 0 THEN ix ELSE PlaceRole(file, after[n - 1], file.roles[n])
    IN  after[Len(file.roles)]

\* Every list that is named has to be in a section.
AllPlaced(file, ix) == IF file.groups \subseteq DOMAIN ix.sectionOf THEN ix ELSE Refused(ix)

\* index: sections first, then that every named list is in one, then roles.
\* An error is kept: the code returns at the first.
Index(file) == PlaceRoles(file, AllPlaced(file, PlaceSections(file)))

\* Load.
LoadChart(file) ==
    LET ix == Index(file) IN
        [error |-> ix.error, sections |-> file.sections, roles |-> file.roles,
         placed |-> ix.placed, sectionOf |-> ix.sectionOf, ownerOf |-> ix.ownerOf]

------------------------------------------------------------------------------
(* What the chart answers. *)

unlistedOrder == 1073741824  \* 1 << 30

Order(chart, key) ==
    IF \E i \in DOMAIN chart.placed : chart.placed[i] = key
    THEN (CHOOSE i \in DOMAIN chart.placed : chart.placed[i] = key) - 1
    ELSE unlistedOrder

Unsectioned == [key |-> "unsectioned", hidden |-> FALSE, groups |-> <<>>]

\* A list the chart does not mention is shown, under a section of its own.
SectionOf(chart, key) ==
    IF key \in DOMAIN chart.sectionOf THEN chart.sectionOf[key] ELSE Unsectioned

Hidden(chart, key) == SectionOf(chart, key).hidden

LeadershipGroups(chart) == {chart.roles[i].group : i \in DOMAIN chart.roles}

------------------------------------------------------------------------------
(* What a chart file has to satisfy, said without running index. *)

Listed(file) == FlattenSeq([i \in DOMAIN file.sections |-> file.sections[i].groups])
Owned(file) == FlattenSeq([i \in DOMAIN file.roles |-> file.roles[i].owns])

Consistent(file) ==
    /\ IsInjective([i \in DOMAIN file.sections |-> file.sections[i].key])
    /\ \A i \in DOMAIN file.sections : file.sections[i].key # ""
    /\ IsInjective(Listed(file)) /\ Range(Listed(file)) = file.groups
    /\ IsInjective([i \in DOMAIN file.roles |-> file.roles[i].key])
    /\ \A i \in DOMAIN file.roles : file.roles[i].group \in file.groups
    /\ IsInjective(Owned(file)) /\ Range(Owned(file)) \subseteq file.groups
==============================================================================

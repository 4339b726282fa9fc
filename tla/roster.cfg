CONSTANTS
    Requests = {r1, r2}
    Domain <- MCDomain
    Groups <- MCGroups
    Login <- General
    LoginKey <- MCLoginKey
    Wishes <- MCWishes
    HiddenNames <- MCHidden
    Lagging <- MCLagging
SPECIFICATION Spec
SYMMETRY Symmetric
INVARIANTS
    TypeOK
    RosterCoversLists
    RemovedMeansGone
    AddedMeansListed
    PlannedListsExist

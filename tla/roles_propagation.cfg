SPECIFICATION Spec
CONSTANTS
    Requests = {r1, r2}
    NotThere = Absent
    Absent = Absent
    NoRow = NoRow
    Memberships <- SomeMemberships
    Delay = 1
    MaxRequest = 1
    AccessLifetime = 1
    MaxNow = 6
    MaxChanges = 1
SYMMETRY Symmetric
INVARIANTS TypeOK SyncSettles ClaimsFollowSync ClaimsWereGranted

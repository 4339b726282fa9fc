SPECIFICATION Spec
CONSTANTS
    Requests = {r1}
    NotThere = Absent
    Absent = Absent
    NoRow = NoRow
    Memberships <- SomeMemberships
    Delay = 1
    MaxRequest = 1
    AccessLifetime = 1
    MaxNow = 2
    MaxChanges = 1
INVARIANT ClaimsComeFromSignIns

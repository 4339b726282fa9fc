SPECIFICATION Spec
CONSTANTS
    Readers = {r1, r2}
    Writers = {w1}
    MemberSlots = {address}
    AllGroups = all
    Suppress = 2
    TTL = 1
    Lag = 1
    MaxCall = 1
    MaxNow = 4
    MaxWrites = 1
    MaxRestarts = 0
SYMMETRY Symmetric
INVARIANTS NoPreWriteListCached StaleAtMostTTL
PROPERTY LiveEntryKept

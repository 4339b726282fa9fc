SPECIFICATION Spec
CONSTANTS
    Readers = {r1, r2}
    Writers = {w1}
    MemberSlots = {address, id}
    AllGroups = all
    Suppress = 0
    TTL = 1
    Lag = 0
    MaxCall = 0
    MaxNow = 0
    MaxWrites = 1
    MaxRestarts = 1
INVARIANTS TypeOK FreshAfterWrite EntriesPostdateClears
PROPERTIES ReadsReturn KeepsPromise

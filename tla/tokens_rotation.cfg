SPECIFICATION Spec
CONSTANTS
    Requests = {r1, r2}
    Users = {u1, u2}
    Tokens = {t1, t2, t3}
    None = None
    Lifetime = 1
    MaxNow = 2
SYMMETRY Symmetric
INVARIANTS TypeOK AcceptedUnspent
PROPERTY CleanupTakesNothing

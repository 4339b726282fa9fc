SPECIFICATION Spec
CONSTANTS
    Requests = {r1, r2}
    Users = {u1}
    Tokens = {t1, t2, t3}
    None = None
    Lifetime = 0
    MaxNow = 0
SYMMETRY Symmetric
INVARIANT SingleUse

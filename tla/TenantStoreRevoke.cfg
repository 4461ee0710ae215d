SPECIFICATION Spec
CONSTANTS
    w1 = w1  w2 = w2
    p1 = p1  p2 = p2
    None = None
    Procs = {p1}
    Workers = {w1, w2}
    Tenants = {t1, t2}
    MaxKeys = 2
    MaxWrites = 3
    DbMayFail = FALSE
    Home <- HomeTogether
SYMMETRY Symmetry
INVARIANT RevokedIsRefused

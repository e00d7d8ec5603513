\* A move from a stale row.
SPECIFICATION Spec
CONSTANTS
    None = None
    c1 = c1
    c2 = c2
    t1 = t1
    t2 = t2
    Cals = {c1, c2}
    Tails = {}
    Marks = {m1, m2}
    Occs = {1, 2}
    Scenes <- MovesOnly
INVARIANT
    NoLostChange

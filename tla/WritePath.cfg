\* Creates, edits, deletes, splits and truncations in one calendar, and moves
\* between two, against foreign clients.
SPECIFICATION Spec
CONSTANTS
    None = None
    c1 = c1
    c2 = c2
    t1 = t1
    t2 = t2
    Cals = {c1, c2}
    Tails = {t1, t2}
    Marks = {m1, m2, m3}
    Occs = {1, 2}
    Scenes <- SeriesAndMoves
INVARIANTS
    TypeOK
    NoLostOccurrence
    MoveKeepsSeen
PROPERTIES
    ChangesKept
    TailInherits

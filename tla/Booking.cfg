\* Two links with different durations over two calendars.
SPECIFICATION Spec
CONSTANTS
    None = None
    Open = Open
    Gone = Gone
    l1 = l1
    l2 = l2
    c1 = c1
    c2 = c2
    k1 = k1
    k2 = k2
    Links = {l1, l2}
    Configs <- FixedLength
    Cals = {c1, c2}
    Keys = {k1, k2}
    Meetings = {m1}
    Day = 2
SYMMETRY SymmetricKeys
INVARIANTS
    OnceBooked
PROPERTIES
    Reservations

\* A request sent again after its event was written.
SPECIFICATION Spec
CONSTANTS
    None = None
    Open = Open
    Gone = Gone
    l1 = l1
    l2 = l2
    c1 = c1
    c2 = c2
    k1 = k1
    k2 = k2
    Links = {l1}
    Configs <- OneLink
    Cals = {c1}
    Keys = {k1, k2}
    Meetings = {}
    Day = 2
PROPERTY
    ReplayConfirmed

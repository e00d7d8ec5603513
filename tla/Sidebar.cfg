\* One tab with up to two requests under way, and its prunings on top; two lists or
\* calendars, and other clients that create and delete lists.
SPECIFICATION FairSpec
CONSTANTS
    None = None
    Tabs = {t1}
    Lists = {l1, l2}
    MaxFlying = 2
    MaxAstray = 0
INVARIANTS
    TypeOK
    StoredIsShown
    ArchivedNotHidden
PROPERTIES
    PruneOnlyPrunes
    StaleGoes

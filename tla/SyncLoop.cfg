\* Two collections, one of which may fail for ever.
SPECIFICATION FairSpec
CONSTANTS
    None = None
    Cols = {c1, c2}
    Failing = {c2}
    MaxVersion = 1
INVARIANT
    TypeOK
PROPERTIES
    HookSuffices
    PollSuffices
    ChangesAnnounced
    FreshStart

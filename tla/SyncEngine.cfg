\* Two resources, fetched one per batch: u1 moves between two names and may be
\* malformed, while u2 is well-formed; safety, and the liveness of the poll.
SPECIFICATION FairSpec
CONSTANTS
    h1 = h1
    h2 = h2
    h3 = h3
    u1 = u1
    u2 = u2
    v1 = v1
    None = None
    Hrefs = {h1, h2, h3}
    Uids = {u1, u2}
    Ours = {u1}
    Vers = {v1, v2}
    Odd = {"malformed"}
    Batch = 1
    Bodies <- TwoResources
INVARIANTS
    TypeOK
    Covered
    CacheIsProjection
PROPERTIES
    LeavingOrphans
    CollectedAreGone
    EventuallySynced

----------------------------- MODULE SyncEngine -----------------------------
(***************************************************************************)
(* One collection of the CalDAV server, its SQLite cache and sidecar, and  *)
(* the sync engine between them (backend/tasksd/sync/engine.py and         *)
(* backend/tasksd/db/store.py).                                            *)
(*                                                                         *)
(* Other CalDAV clients write to the server at any time.  The engine runs  *)
(* one handler at a time, because the service lock serialises them, but a  *)
(* handler is several HTTP requests and at most one SQLite transaction     *)
(* long, and foreign writes, transport errors and crashes fall between     *)
(* those steps.                                                            *)
(*                                                                         *)
(* A sync token is represented by what it means: the set of hrefs that     *)
(* changed since the server issued it.  An etag is represented by the body *)
(* it is the hash of.                                                      *)
(***************************************************************************)
EXTENDS Naturals, FiniteSets

CONSTANTS
    Hrefs,      \* resource names in the collection
    Uids,       \* iCalendar UIDs, the join key of the cache
    Vers,       \* distinguishable revisions of a well-formed task or event
    Odd,        \* the ill-formed bodies clients may store
    Bodies,     \* Bodies[h]: what other clients may store at href h
    Ours,       \* bound: the UIDs that users of this service work on
    Batch,      \* hrefs per multiget request (engine.py: 50)
    None        \* no resource, no row, no value

Body == [uid : Uids, form : Vers \cup Odd]
Row  == [href : Hrefs, body : [uid : Uids, form : Vers]]

ASSUME BodiesAssumption == Bodies \in [Hrefs -> SUBSET Body] /\ Ours \subseteq Uids
ASSUME OddAssumption   == /\ Odd \subseteq {"malformed", "untracked"}
                          /\ Vers \cap {"malformed", "untracked"} = {}
ASSUME BatchAssumption == Batch \in Nat \ {0} /\ IsFiniteSet(Hrefs)
ASSUME NoneAssumption  == None \notin Body \cup Row \cup Uids \cup Hrefs

VARIABLES
    wire,       \* wire[h]: the body the server stores at href h, or None
    token,      \* the token stored in sync_state: none, valid or invalid
    dirty,      \* the hrefs that changed since the stored token was issued
    cache,      \* cache[u]: the items row of UID u, or None
    sidecar,    \* sidecar[u]: the state of the sidecar row of UID u
    lastError,  \* sync_state.last_error is set
    op,         \* what the engine is in the middle of
    job,        \* the resource a write handler works on
    todo,       \* hrefs the running sync has still to fetch
    got,        \* got[u]: the last body fetched for UID u, as a row
    removed,    \* hrefs the running sync's REPORT listed as removed
    listed,     \* hrefs the running full resync's REPORT enumerated
    skipped,    \* the running sync met a malformed body
    since       \* hrefs that changed since the running sync's REPORT

dbVars   == <<token, dirty, cache, sidecar, lastError>>
passVars == <<todo, got, removed, listed, skipped, since>>
vars     == <<wire, dbVars, op, job, passVars>>

NoRows == [u \in Uids |-> None]

Syncing == op \in {"incremental", "full"}

-----------------------------------------------------------------------------
(* Bodies and rows                                                         *)

\* Mutated form: a body that does not parse is cached as it is.
TrackedAny(b) == b # None

\* _upsert_body caches a resource that parses and is a task or an event.
Tracked(b) == b # None /\ b.form \in Vers

\* What a response says of the resources hs: those that are there, and those it
\* answers for with 404.
Answered(hs) == {h \in hs : wire[h] # None}

Missing(hs) == {h \in hs : wire[h] = None}

\* The row for the resource at h: its columns are extracted from the body, and
\* the body itself is kept with them.
RowOf(h) == [href |-> h, body |-> wire[h]]

RowsAt(rows, h) == {u \in Uids : rows[u] # None /\ rows[u].href = h}

\* store.upsert_item for every UID in new: replace the row, and
\* take the orphan mark off its sidecar.
Upserted(rows, new) == [u \in Uids |-> IF new[u] # None THEN new[u] ELSE rows[u]]

\* Mutated form: the orphan mark stays on a sidecar whose UID came back.
RejoinedNever(side, new) == side

Rejoined(side, new) ==
    [u \in Uids |-> IF new[u] # None /\ side[u] \in {"orphaned", "expired"}
                    THEN "live" ELSE side[u]]

Without(rows, gone) == [u \in Uids |-> IF u \in gone THEN None ELSE rows[u]]

\* Mutated form: the row goes and the sidecar is not marked.
OrphanedNever(side, gone) == side

\* store.orphan_sidecar: only a row that is there and not yet marked.
Orphaned(side, gone) ==
    [u \in Uids |-> IF u \in gone /\ side[u] = "live" THEN "orphaned" ELSE side[u]]

\* store.gc_orphans: by age alone, in every collection.
Collected(side) == [u \in Uids |-> IF side[u] = "expired" THEN "none" ELSE side[u]]

\* One UID for each href of hs that has a row: which of several rows with the
\* same href a SELECT ... fetchone(), or the last entry of a dict keyed by
\* href, yields is up to SQLite.
OnePerHref(rows, hs, us) ==
    /\ us \subseteq {u \in Uids : rows[u] # None /\ rows[u].href \in hs}
    /\ \A h \in hs : RowsAt(rows, h) # {} =>
           \E u \in us : us \cap RowsAt(rows, h) = {u}

-----------------------------------------------------------------------------
(* The server and its other clients                                        *)

\* The UIDs whose resources have the name h.
Names == [h \in Hrefs |-> {b.uid : b \in Bodies[h]}]

\* A change of h reaches every REPORT made with a token issued before it.
Touch(h) ==
    /\ dirty' = IF token = "valid" THEN dirty \cup {h} ELSE dirty
    /\ since' = IF Syncing THEN since \cup {h} ELSE since

\* A CalDAV server keeps the UIDs of a collection distinct, and does not let
\* a PUT change the UID of a resource.
Storable(h, b) ==
    /\ b.uid \in Names[h]
    /\ IF wire[h] = None
       THEN \A g \in Hrefs : wire[g] # None => wire[g].uid # b.uid
       ELSE wire[h].uid = b.uid /\ wire[h] # b

ForeignPut(h, b) ==
    /\ b \in Bodies[h]
    /\ Storable(h, b)
    /\ wire' = [wire EXCEPT ![h] = b]
    /\ Touch(h)
    /\ UNCHANGED <<token, cache, sidecar, lastError, op, job,
                   todo, got, removed, listed, skipped>>

ForeignDelete(h) ==
    /\ wire[h] # None
    /\ wire' = [wire EXCEPT ![h] = None]
    /\ Touch(h)
    /\ UNCHANGED <<token, cache, sidecar, lastError, op, job,
                   todo, got, removed, listed, skipped>>

\* The server prunes the tokens it has issued.
PruneToken ==
    /\ token = "valid"
    /\ token' = "invalid"
    /\ dirty' = {}
    /\ UNCHANGED <<wire, cache, sidecar, lastError, op, job, passVars>>

-----------------------------------------------------------------------------
(* The read path: sync, _apply_incremental and full_resync                 *)

EndRun ==
    /\ op' = "idle"
    /\ job' = None
    /\ todo' = {}
    /\ got' = NoRows
    /\ removed' = {}
    /\ listed' = {}
    /\ skipped' = FALSE
    /\ since' = {}

\* Mutated form: the token is asked for after the bodies were fetched.
StoreTokenLate ==
    /\ token' = "valid"
    /\ dirty' = {}
    /\ lastError' = skipped

\* store.set_sync_token with the token of the REPORT that opened the pass.
StoreToken ==
    /\ token' = "valid"
    /\ dirty' = since
    /\ lastError' = skipped

\* sync() with a token the server honours.
StartIncremental ==
    /\ op = "idle"
    /\ token = "valid"
    /\ op' = "incremental"
    /\ todo' = Answered(dirty)
    /\ removed' = Missing(dirty)
    /\ UNCHANGED <<wire, dbVars, job, got, listed, skipped, since>>

\* full_resync(): no token yet, or InvalidSyncToken.  A body is fetched unless
\* known_etags, which keeps one row per href, already has its etag.
StartFull ==
    /\ op = "idle"
    /\ token # "valid"
    /\ \E known \in SUBSET Uids :
           /\ OnePerHref(cache, Hrefs, known)
           /\ todo' = {h \in Answered(Hrefs) :
                           \A u \in known : cache[u].href = h => cache[u].body # wire[h]}
    /\ listed' = Answered(Hrefs)
    /\ op' = "full"
    /\ UNCHANGED <<wire, dbVars, job, got, removed, skipped, since>>

\* One request of _multiget.  A resource that is gone is left out of the
\* response; _upsert_body drops the bodies that are not tracked.
FetchBatch ==
    /\ Syncing
    /\ todo # {}
    /\ \E hs \in SUBSET todo :
           /\ \/ Cardinality(hs) = Batch
              \/ hs = todo /\ Cardinality(todo) < Batch
           /\ todo' = todo \ hs
           /\ got' = [u \in Uids |->
                         IF \E h \in hs : Tracked(wire[h]) /\ wire[h].uid = u
                         THEN LET h == CHOOSE h \in hs :
                                           Tracked(wire[h]) /\ wire[h].uid = u
                              IN RowOf(h)
                         ELSE got[u]]
           /\ skipped' = (skipped \/ \E h \in Answered(hs) : wire[h].form = "malformed")
    /\ UNCHANGED <<wire, dbVars, op, job, removed, listed, since>>

\* The transaction of _apply_incremental: upserts, then the removals, each
\* orphaning the UID whose row it deleted, then the REPORT's token.
CommitIncremental ==
    /\ op = "incremental"
    /\ todo = {}
    /\ LET rows == Upserted(cache, got)
           side == Rejoined(sidecar, got)
       IN \E gone \in SUBSET Uids :
              /\ OnePerHref(rows, removed, gone)
              /\ cache' = Without(rows, gone)
              /\ sidecar' = Orphaned(side, gone)
    /\ StoreToken
    /\ EndRun
    /\ UNCHANGED wire

\* Mutated form: no reconciliation of deletions.
SweptNever == {}

\* The hrefs full_resync sweeps: cached, perhaps, and not enumerated.
Swept == Hrefs \ listed

\* The transaction of full_resync: upserts, then the sweep of the hrefs that
\* were not enumerated, then the token, then the orphan GC.  The sweep deletes
\* a row found by href and orphans the UID found in href_uid_map: the same UID
\* whenever the href has one row.
CommitFull ==
    /\ op = "full"
    /\ todo = {}
    /\ LET rows == Upserted(cache, got)
           side == Rejoined(sidecar, got)
       IN \E gone, mapped \in SUBSET Uids :
              /\ OnePerHref(rows, Swept, gone)
              /\ OnePerHref(rows, Swept, mapped)
              /\ cache' = Without(rows, gone)
              /\ sidecar' = Collected(Orphaned(side, mapped))
    /\ StoreToken
    /\ EndRun
    /\ UNCHANGED wire

\* Mutated form: the token is stored outside the transaction, ahead of it.
FailSyncAfterToken ==
    /\ Syncing
    /\ StoreToken
    /\ EndRun
    /\ UNCHANGED <<wire, cache, sidecar>>

\* A request or the transaction of a sync fails and ROLLBACK leaves the
\* database as it was: sync_all records the error, except a 404 of the
\* collection; bootstrap and a crash record nothing.
FailSync ==
    /\ Syncing
    /\ lastError' \in {lastError, TRUE}
    /\ EndRun
    /\ UNCHANGED <<wire, token, dirty, cache, sidecar>>

-----------------------------------------------------------------------------
(* The write path: _put_new, _edit, delete_task and _refresh_from_wire     *)

Job(u, h, b) == [uid |-> u, href |-> h, body |-> b]

\* The engine's own successful write of b at h.
Store(h, b) ==
    /\ wire' = [wire EXCEPT ![h] = b]
    /\ Touch(h)

\* create_task, create_event: PUT If-None-Match.  An occupant with our UID is
\* our own earlier attempt; any other occupant, or a UID the server refuses,
\* is an error.
Create(h, u, v) ==
    /\ op = "idle"
    /\ u \in Names[h]
    /\ LET b == [uid |-> u, form |-> v]
       IN \/ /\ wire[h] = None
             /\ Storable(h, b)
             /\ Store(h, b)
          \/ /\ Tracked(wire[h])
             /\ wire[h].uid = u
             /\ UNCHANGED <<wire, dirty, since>>
    /\ op' = "refresh"
    /\ job' = Job(u, h, None)
    /\ UNCHANGED <<token, cache, sidecar, lastError,
                   todo, got, removed, listed, skipped>>

\* _edit: PUT the edited cached body If-Match the cached etag.
Edit(u, v) ==
    /\ op = "idle"
    /\ cache[u] # None
    /\ LET h == cache[u].href
       IN \/ /\ wire[h] = cache[u].body
             /\ Store(h, [uid |-> u, form |-> v])
             /\ op' = "refresh"
             /\ job' = Job(u, h, None)
          \/ \* 412, then the re-GET; NotFound or a body that is not a
             \* task or an event ends the handler with an error.
             /\ wire[h] # cache[u].body
             /\ Tracked(wire[h])
             /\ op' = "retry"
             /\ job' = Job(u, h, wire[h])
             /\ UNCHANGED <<wire, dirty, since>>
    /\ UNCHANGED <<token, cache, sidecar, lastError,
                   todo, got, removed, listed, skipped>>

\* The one retry, If-Match the re-GET's etag; a second 412 is a ConflictError.
RetryEdit(v) ==
    /\ op = "retry"
    /\ IF wire[job.href] = job.body
       THEN /\ Store(job.href, [uid |-> job.body.uid, form |-> v])
            /\ op' = "refresh"
            /\ job' = Job(job.uid, job.href, None)
            /\ UNCHANGED <<todo, got, removed, listed, skipped>>
       ELSE /\ EndRun
            /\ UNCHANGED <<wire, dirty>>
    /\ UNCHANGED <<token, cache, sidecar, lastError>>

\* _refresh_from_wire: the GET, and in a later step its transaction.
Refresh ==
    /\ op = "refresh"
    /\ LET b == wire[job.href]
       IN IF Tracked(b)
          THEN /\ got' = [got EXCEPT ![b.uid] = RowOf(job.href)]
               /\ op' = "store"
               /\ UNCHANGED <<job, todo, removed, listed, skipped, since>>
          ELSE EndRun
    /\ UNCHANGED <<wire, dbVars>>

StoreRefreshed ==
    /\ op = "store"
    /\ cache' = Upserted(cache, got)
    /\ sidecar' = Rejoined(sidecar, got)
    /\ EndRun
    /\ UNCHANGED <<wire, token, dirty, lastError>>

\* delete_task: DELETE If-Match the cached etag; 404 counts as success.
Delete(u) ==
    /\ op = "idle"
    /\ cache[u] # None
    /\ LET h == cache[u].href
       IN \/ /\ wire[h] = cache[u].body
             /\ Store(h, None)
             /\ op' = "forget"
             /\ job' = Job(u, h, None)
          \/ /\ wire[h] = None
             /\ op' = "forget"
             /\ job' = Job(u, h, None)
             /\ UNCHANGED <<wire, dirty, since>>
          \/ \* 412, then the HEAD that reads the etag now on the wire.
             /\ wire[h] \notin {None, cache[u].body}
             /\ op' = "redelete"
             /\ job' = Job(u, h, wire[h])
             /\ UNCHANGED <<wire, dirty, since>>
    /\ UNCHANGED <<token, cache, sidecar, lastError,
                   todo, got, removed, listed, skipped>>

\* The second DELETE; a second 412 is not caught.
Redelete ==
    /\ op = "redelete"
    /\ \/ /\ wire[job.href] = job.body
          /\ Store(job.href, None)
          /\ op' = "forget"
          /\ job' = Job(job.uid, job.href, None)
          /\ UNCHANGED <<todo, got, removed, listed, skipped>>
       \/ /\ wire[job.href] = None
          /\ op' = "forget"
          /\ job' = Job(job.uid, job.href, None)
          /\ UNCHANGED <<wire, dirty, passVars>>
       \/ /\ wire[job.href] \notin {None, job.body}
          /\ EndRun
          /\ UNCHANGED <<wire, dirty>>
    /\ UNCHANGED <<token, cache, sidecar, lastError>>

\* delete_task's transaction.
Forget ==
    /\ op = "forget"
    /\ \E gone \in SUBSET Uids :
           /\ OnePerHref(cache, {job.href}, gone)
           /\ cache' = Without(cache, gone)
    /\ sidecar' = Orphaned(sidecar, {job.uid})
    /\ EndRun
    /\ UNCHANGED <<wire, token, dirty, lastError>>

\* A transport error or a crash in the middle of a write handler.
FailWrite ==
    /\ op \notin {"idle", "incremental", "full"}
    /\ EndRun
    /\ UNCHANGED <<wire, dbVars>>

-----------------------------------------------------------------------------
(* The sidecar                                                             *)

\* store.set_sidecar: INSERT OR IGNORE, so an orphan mark stays.
SetSidecar(u) ==
    /\ op = "idle"
    /\ sidecar[u] = "none"
    /\ sidecar' = [sidecar EXCEPT ![u] = "live"]
    /\ UNCHANGED <<wire, token, dirty, cache, lastError, op, job, passVars>>

\* The seven days of gc_orphans go by for an orphan.
Expire(u) ==
    /\ sidecar[u] = "orphaned"
    /\ sidecar' = [sidecar EXCEPT ![u] = "expired"]
    /\ UNCHANGED <<wire, token, dirty, cache, lastError, op, job, passVars>>

\* A full resync of another collection: gc_orphans asks for no collection.
CollectElsewhere ==
    /\ op = "idle"
    /\ sidecar' = Collected(sidecar)
    /\ UNCHANGED <<wire, token, dirty, cache, lastError, op, job, passVars>>

-----------------------------------------------------------------------------
(* Specification                                                           *)

DistinctUids(w) ==
    \A g, h \in Hrefs : w[g] # None /\ w[h] # None /\ w[g].uid = w[h].uid => g = h

Init ==
    /\ wire \in [Hrefs -> Body \cup {None}]
    /\ DistinctUids(wire)
    /\ \A h \in Hrefs : wire[h] # None => wire[h] \in Bodies[h]
    /\ token = "none"
    /\ dirty = {}
    /\ cache = NoRows
    /\ sidecar = [u \in Uids |-> "none"]
    /\ lastError = FALSE
    /\ op = "idle"
    /\ job = None
    /\ todo = {}
    /\ got = NoRows
    /\ removed = {}
    /\ listed = {}
    /\ skipped = FALSE
    /\ since = {}

Foreign ==
    \/ \E h \in Hrefs, b \in Body : ForeignPut(h, b)
    \/ \E h \in Hrefs : ForeignDelete(h)
    \/ PruneToken

SyncStep ==
    \/ StartIncremental
    \/ StartFull
    \/ FetchBatch
    \/ CommitIncremental
    \/ CommitFull

WriteStep ==
    \/ \E h \in Hrefs, u \in Ours, v \in Vers : Create(h, u, v)
    \/ \E u \in Ours, v \in Vers : Edit(u, v)
    \/ \E v \in Vers : RetryEdit(v)
    \/ Refresh
    \/ StoreRefreshed
    \/ \E u \in Ours : Delete(u)
    \/ Redelete
    \/ Forget

SidecarStep == CollectElsewhere \/ \E u \in Ours : SetSidecar(u) \/ Expire(u)

Next ==
    \/ Foreign
    \/ SyncStep
    \/ WriteStep
    \/ SidecarStep
    \/ FailSync
    \/ FailWrite

Spec == Init /\ [][Next]_vars

\* A write handler that has begun, and its requests all have a timeout.
EndWrite ==
    \/ \E v \in Vers : RetryEdit(v)
    \/ Refresh
    \/ StoreRefreshed
    \/ Redelete
    \/ Forget
    \/ FailWrite

\* Handlers end, the sync loop polls for ever (app.py: _sync_loop), and failures,
\* crashes and user requests do not strike every attempt at the same point for
\* ever: a pass with n hrefs left gets its next batch some time.
Fairness ==
    /\ WF_vars(EndWrite)
    /\ SF_vars(StartIncremental \/ StartFull)
    /\ \A n \in 1 .. Cardinality(Hrefs) : SF_vars(FetchBatch /\ Cardinality(todo) = n)
    /\ SF_vars(CommitIncremental \/ CommitFull)

FairSpec == Spec /\ Fairness

-----------------------------------------------------------------------------
(* Properties                                                              *)

TypeOK ==
    /\ wire \in [Hrefs -> Body \cup {None}]
    /\ token \in {"none", "valid", "invalid"}
    /\ dirty \in SUBSET Hrefs
    /\ cache \in [Uids -> Row \cup {None}]
    /\ sidecar \in [Uids -> {"none", "live", "orphaned", "expired"}]
    /\ lastError \in BOOLEAN
    /\ op \in {"idle", "incremental", "full", "refresh", "retry", "store",
                "redelete", "forget"}
    /\ job \in [uid : Uids, href : Hrefs, body : Body \cup {None}] \cup {None}
    /\ todo \in SUBSET Hrefs
    /\ got \in [Uids -> Row \cup {None}]
    /\ removed \in SUBSET Hrefs
    /\ listed \in SUBSET Hrefs
    /\ skipped \in BOOLEAN
    /\ since \in SUBSET Hrefs

\* The stored token vouches for h: whatever happened to it since, the server
\* will not report.
Clean(h) == token = "valid" /\ h \notin dirty

\* Nothing is missed: a task or event that did not change since the stored
\* token was issued is cached under its UID, at its href, in the revision the
\* server has, whatever writes fell between the REPORT, the multiget batches
\* and the transaction, or between a PUT and its refresh.
Covered ==
    \A h \in Hrefs :
        Clean(h) /\ Tracked(wire[h]) =>
            cache[wire[h].uid] = RowOf(h)

\* An href that only one UID ever uses.
Private(h) == \A u, v \in Names[h] : u = v

\* Where no href is reused for another UID, no row leaves the cache without
\* the sidecar being marked in the same transaction: a crash cannot leave a
\* live sidecar of a forgotten task behind.
LeavingOrphans ==
    [][(\A h \in Hrefs : Private(h)) =>
           \A u \in Uids : cache[u] # None /\ cache'[u] = None =>
                                sidecar'[u] # "live"]_vars

\* Where no href is reused for another UID, gc_orphans (store.py:232), which asks
\* neither for the collection nor for the items, takes no sidecar of a task that
\* is cached, whichever collection's full resync runs it: not one whose mark is
\* of an earlier life of the UID, nor one that comes back in this very pass.
\* (A UID that is back on the wire only has no such guarantee.)
CollectedAreGone ==
    [][(\A h \in Hrefs : Private(h)) =>
           \A u \in Uids : sidecar[u] # "none" /\ sidecar'[u] = "none" =>
                                sidecar[u] = "expired" /\ cache'[u] = None]_vars

\* The cache is a projection of the wire (invariant #1: starting from an empty
\* database a full resync reproduces identical rows).
Projection(w) ==
    [u \in Uids |->
        IF \E h \in Hrefs : Tracked(w[h]) /\ w[h].uid = u
        THEN LET h == CHOOSE h \in Hrefs : Tracked(w[h]) /\ w[h].uid = u
             IN [href |-> h, body |-> w[h]]
        ELSE None]

\* The promise of store.py:4-5: whenever every change is synced, whatever
\* history of interrupted passes, pruned tokens and concurrent writes led
\* there, the cache holds the rows a full resync into an empty database would
\* produce.  (Where no href is reused for another UID and every body parses.)
CacheIsProjection ==
    /\ token = "valid" /\ dirty = {}
    /\ \A h \in Hrefs : Private(h) /\ (wire[h] # None => Tracked(wire[h]))
    => cache = Projection(wire)

\* The cache agrees with what the server has at h.
InSync(h) ==
    /\ Tracked(wire[h]) => cache[wire[h].uid] = RowOf(h)
    /\ Private(h) /\ wire[h] = None => RowsAt(cache, h) = {}

\* A resource that is left alone is in the cache sooner or later, in the revision
\* the server has, and stays there; one that is gone is dropped from it: whatever
\* becomes of the others, and of passes that fail between two batches of the
\* multiget, tokens that are pruned, and malformed bodies beside it.
EventuallySynced ==
    \A h \in Hrefs : <>[][wire'[h] = wire[h]]_wire => <>[]InSync(h)

-----------------------------------------------------------------------------
(* Why Covered holds: the inductive strengthening                          *)

\* Tables keyed by UID hold rows of that UID.
Keyed(rows) == \A u \in Uids : rows[u] # None => rows[u].body.uid = u

\* A running pass will bring every task that has not changed since its REPORT
\* into the cache: it has still to be fetched, was fetched last for its UID,
\* or is cached and nothing fetched replaces it.
PassCovers ==
    Syncing => \A h \in Hrefs :
        h \notin since /\ Tracked(wire[h]) =>
            \/ h \in todo
            \/ got[wire[h].uid] = RowOf(h)
            \/ got[wire[h].uid] = None /\ cache[wire[h].uid] = RowOf(h)

\* What a running pass is about to delete is gone, unless it changed since.
PassDeletes ==
    /\ op = "incremental" =>
           \A h \in removed : h \in since \/ wire[h] = None
    /\ op = "full" =>
           \A h \in Hrefs : h \in listed \/ h \in since \/ wire[h] = None

\* Only a pass and a refresh hold fetched bodies.
GotUsed == ~Syncing /\ op # "store" => got = NoRows

\* A refreshed body is still current where the token vouches for its UID.
StoreFresh ==
    op = "store" => \A h \in Hrefs :
        Clean(h) /\ Tracked(wire[h]) /\ got[wire[h].uid] # None =>
            got[wire[h].uid] = RowOf(h)

\* The row delete_task forgets is of an href that is gone or will be reported.
ForgetGone == op = "forget" => ~Clean(job.href) \/ wire[job.href] = None

SyncInv ==
    /\ DistinctUids(wire)
    /\ Keyed(cache)
    /\ Keyed(got)
    /\ Covered
    /\ PassCovers
    /\ PassDeletes
    /\ GotUsed
    /\ StoreFresh
    /\ ForgetGone

=============================================================================

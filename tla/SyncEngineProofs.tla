-------------------------- MODULE SyncEngineProofs --------------------------
(***************************************************************************)
(* Proofs about SyncEngine, for every set of hrefs, UIDs and revisions and *)
(* every batch size.                                                       *)
(***************************************************************************)
EXTENDS SyncEngine, TLAPS

-----------------------------------------------------------------------------
(* Type correctness                                                        *)

\* The columns of a tracked body make a row.
LEMMA RowTyped ==
    ASSUME NEW h \in Hrefs, NEW b \in Body, Tracked(b)
    PROVE  [href |-> h, body |-> b] \in Row
  BY DEF Row, Body, Tracked

\* A row holds a body, which is tracked.
LEMMA RowHolds ==
    ASSUME NEW r \in Row
    PROVE  r # None /\ r.href \in Hrefs /\ r.body \in Body /\ r.body # None
           /\ r.body.uid \in Uids
  BY NoneAssumption DEF Row, Body

\* The operators on tables of rows and of sidecar states stay in their types.
LEMMA TableTypes ==
    ASSUME NEW rows \in [Uids -> Row \cup {None}],
           NEW new \in [Uids -> Row \cup {None}],
           NEW side \in [Uids -> {"none", "live", "orphaned", "expired"}],
           NEW gone \in SUBSET Uids
    PROVE  /\ Upserted(rows, new) \in [Uids -> Row \cup {None}]
           /\ Without(rows, gone) \in [Uids -> Row \cup {None}]
           /\ Rejoined(side, new) \in [Uids -> {"none", "live", "orphaned", "expired"}]
           /\ Orphaned(side, gone) \in [Uids -> {"none", "live", "orphaned", "expired"}]
           /\ Collected(side) \in [Uids -> {"none", "live", "orphaned", "expired"}]
  BY DEF Upserted, Without, Rejoined, Orphaned, Collected

\* Ending a handler resets the variables of the run.
LEMMA EndRunTypes ==
    ASSUME EndRun
    PROVE  /\ op' = "idle"
           /\ job' \in [uid : Uids, href : Hrefs, body : Body \cup {None}] \cup {None}
           /\ todo' \in SUBSET Hrefs
           /\ got' \in [Uids -> Row \cup {None}]
           /\ removed' \in SUBSET Hrefs
           /\ listed' \in SUBSET Hrefs
           /\ skipped' \in BOOLEAN
           /\ since' \in SUBSET Hrefs
  BY DEF EndRun, NoRows

\* While a handler waits for a response, its job is known.
JobKnown ==
    /\ op \in {"refresh", "retry", "store", "redelete", "forget"} =>
           job \in [uid : Uids, href : Hrefs, body : Body \cup {None}]
    /\ op \in {"retry", "redelete"} => job.body \in Body

\* TypeOK and what it needs to be inductive.
Types == TypeOK /\ JobKnown

LEMMA TypesInit == Init => Types
  BY DEF Init, Types, TypeOK, JobKnown, NoRows

LEMMA TypesStep == Types /\ [Next]_vars => Types'
<1> SUFFICES ASSUME Types, [Next]_vars PROVE Types'
  OBVIOUS
<1> USE DEF Types, TypeOK, JobKnown
<1>1. ASSUME NEW h \in Hrefs, NEW b \in Body, ForeignPut(h, b) PROVE Types'
  BY <1>1 DEF ForeignPut, Touch, dbVars, passVars
<1>2. ASSUME NEW h \in Hrefs, ForeignDelete(h) PROVE Types'
  BY <1>2 DEF ForeignDelete, Touch, dbVars, passVars
<1>3. CASE PruneToken
  BY <1>3 DEF PruneToken, dbVars, passVars
<1>4. CASE StartIncremental
  BY <1>4 DEF Answered, Missing, StartIncremental, dbVars, passVars
<1>5. CASE StartFull
  BY <1>5 DEF Answered, StartFull, dbVars, passVars
<1>6. CASE FetchBatch
  <2>1. got' \in [Uids -> Row \cup {None}]
    <3>1. PICK hs \in SUBSET todo :
              got' = [u \in Uids |->
                         IF \E h \in hs : Tracked(wire[h]) /\ wire[h].uid = u
                         THEN LET h == CHOOSE h \in hs :
                                           Tracked(wire[h]) /\ wire[h].uid = u
                              IN RowOf(h)
                         ELSE got[u]]
      BY <1>6 DEF FetchBatch
    <3>2. ASSUME NEW u \in Uids, \E h \in hs : Tracked(wire[h]) /\ wire[h].uid = u
          PROVE  got'[u] \in Row
      <4> DEFINE P(h) == Tracked(wire[h]) /\ wire[h].uid = u
                 c == CHOOSE h \in hs : P(h)
      <4>1. c \in hs /\ P(c)
        <5> HIDE DEF P
        <5> QED BY <3>2 DEF P
      <4>2. got'[u] = RowOf(c)
        BY <3>1, <3>2
      <4>3. c \in Hrefs /\ wire[c] \in Body
        BY <4>1 DEF Tracked
      <4> QED BY <4>1, <4>2, <4>3, RowTyped DEF RowOf
    <3>3. ASSUME NEW u \in Uids, ~\E h \in hs : Tracked(wire[h]) /\ wire[h].uid = u
          PROVE  got'[u] \in Row \cup {None}
      BY <3>1, <3>3
    <3>4. got' = [u \in Uids |-> got'[u]]
      BY <3>1
    <3> QED BY <3>2, <3>3, <3>4
  <2> QED BY <1>6, <2>1 DEF Answered, FetchBatch, dbVars, passVars
<1>7. CASE CommitIncremental
  <2> DEFINE rows == Upserted(cache, got)
             side == Rejoined(sidecar, got)
  <2>1. PICK gone \in SUBSET Uids : /\ cache' = Without(rows, gone)
                                    /\ sidecar' = Orphaned(side, gone)
    BY <1>7 DEF CommitIncremental
  <2>2. /\ rows \in [Uids -> Row \cup {None}]
        /\ side \in [Uids -> {"none", "live", "orphaned", "expired"}]
    BY TableTypes
  <2>3. /\ cache' \in [Uids -> Row \cup {None}]
        /\ sidecar' \in [Uids -> {"none", "live", "orphaned", "expired"}]
    <3> HIDE DEF rows, side
    <3> QED BY <2>1, <2>2, TableTypes
  <2> QED
    BY <1>7, <2>3, EndRunTypes DEF CommitIncremental, StoreToken
<1>8. CASE CommitFull
  <2> DEFINE rows == Upserted(cache, got)
             side == Rejoined(sidecar, got)
  <2>1. PICK gone, mapped \in SUBSET Uids :
               /\ cache' = Without(rows, gone)
               /\ sidecar' = Collected(Orphaned(side, mapped))
    BY <1>8 DEF CommitFull
  <2>2. /\ rows \in [Uids -> Row \cup {None}]
        /\ side \in [Uids -> {"none", "live", "orphaned", "expired"}]
    BY TableTypes
  <2>3. /\ cache' \in [Uids -> Row \cup {None}]
        /\ sidecar' \in [Uids -> {"none", "live", "orphaned", "expired"}]
    <3> HIDE DEF rows, side
    <3>1. Orphaned(side, mapped) \in [Uids -> {"none", "live", "orphaned", "expired"}]
      BY <2>2, TableTypes
    <3> QED BY <2>1, <2>2, <3>1, TableTypes
  <2> QED
    BY <1>8, <2>3, EndRunTypes DEF CommitFull, StoreToken
<1>9. CASE FailSync
  BY <1>9, EndRunTypes DEF FailSync
<1>10. ASSUME NEW h \in Hrefs, NEW u \in Uids, NEW v \in Vers, Create(h, u, v) PROVE Types'
  BY <1>10 DEF Create, Store, Touch, Job, Body, passVars
<1>11. ASSUME NEW u \in Uids, NEW v \in Vers, Edit(u, v) PROVE Types'
  BY <1>11, NoneAssumption DEF Edit, Store, Touch, Job, Body, Row, Tracked, passVars
<1>12. ASSUME NEW v \in Vers, RetryEdit(v) PROVE Types'
  BY <1>12, EndRunTypes DEF RetryEdit, Store, Touch, Job, Body, passVars
<1>13. CASE Refresh
  BY <1>13, EndRunTypes DEF RowOf, Refresh, dbVars, passVars, Row, Body, Tracked
<1>14. CASE StoreRefreshed
  BY <1>14, TableTypes, EndRunTypes DEF StoreRefreshed
<1>15. ASSUME NEW u \in Uids, Delete(u) PROVE Types'
  BY <1>15, NoneAssumption DEF Delete, Store, Touch, Job, Row, passVars
<1>16. CASE Redelete
  BY <1>16, EndRunTypes DEF Redelete, Store, Touch, Job, passVars
<1>17. CASE Forget
  BY <1>17, TableTypes, EndRunTypes DEF Forget
<1>18. CASE FailWrite
  BY <1>18, EndRunTypes DEF FailWrite, dbVars
<1>19. ASSUME NEW u \in Uids, SetSidecar(u) \/ Expire(u) PROVE Types'
  BY <1>19 DEF SetSidecar, Expire, passVars
<1>20. CASE CollectElsewhere
  BY <1>20, TableTypes DEF CollectElsewhere, passVars
<1>21. CASE UNCHANGED vars
  BY <1>21 DEF vars, dbVars, passVars
<1> QED
  BY <1>1, <1>2, <1>3, <1>4, <1>5, <1>6, <1>7, <1>8, <1>9, <1>10, <1>11, <1>12,
     <1>13, <1>14, <1>15, <1>16, <1>17, <1>18, <1>19, <1>20, <1>21, BodiesAssumption
     DEF Next, Foreign, SyncStep, WriteStep, SidecarStep

\* Every variable stays in its type, for every value of the constants.
THEOREM TypeCorrect == Spec => []TypeOK
<1>1. Types => TypeOK
  BY DEF Types
<1> QED
  BY <1>1, TypesInit, TypesStep, PTL DEF Spec

-----------------------------------------------------------------------------
(* Nothing is missed                                                       *)

LEMMA SyncInvInit == Init => SyncInv
  BY DEF Init, SyncInv, NoRows, Keyed, Covered, Clean, PassCovers, Syncing,
         PassDeletes, GotUsed, StoreFresh, ForgetGone

\* A change of one href of the server that keeps UIDs distinct, with the
\* bookkeeping of Touch, preserves the invariant while the engine rests or
\* waits for a response.
LEMMA TouchKeeps ==
    ASSUME Types, SyncInv,
           NEW h \in Hrefs, NEW b \in Body \cup {None},
           wire' = [wire EXCEPT ![h] = b],
           Touch(h),
           b = None \/ Storable(h, b) \/ (wire[h] # None /\ wire[h].uid = b.uid),
           UNCHANGED <<token, cache, op, job, todo, got, removed, listed>>
    PROVE  SyncInv'
<1> USE DEF Types, TypeOK, JobKnown, SyncInv
<1>1. wire'[h] = b /\ \A g \in Hrefs \ {h} : wire'[g] = wire[g]
  OBVIOUS
<1>2. DistinctUids(wire)'
  BY <1>1 DEF DistinctUids, Storable
<1>3. Keyed(cache)' /\ Keyed(got)'
  BY DEF Keyed
<1>4. Covered'
  BY <1>1 DEF Covered, Clean, RowOf, Touch
<1>5. PassCovers'
  BY <1>1 DEF PassCovers, Syncing, RowOf, Touch
<1>6. PassDeletes'
  BY <1>1 DEF PassDeletes, Syncing, Touch
<1>7. GotUsed'
  BY DEF GotUsed, Syncing, NoRows
<1>8. StoreFresh'
  BY <1>1 DEF StoreFresh, Clean, RowOf, Touch
<1>9. ForgetGone'
  BY <1>1 DEF ForgetGone, Clean, Touch
<1> QED
  BY <1>2, <1>3, <1>4, <1>5, <1>6, <1>7, <1>8, <1>9

\* A write handler's own change of the server, as the handler moves on.
LEMMA WriteKeeps ==
    ASSUME Types, SyncInv,
           ~Syncing, op # "store",
           NEW h \in Hrefs, NEW b \in Body \cup {None},
           \/ wire' = [wire EXCEPT ![h] = b] /\ Touch(h)
           \/ b = wire[h] /\ UNCHANGED <<wire, dirty, since>>,
           b = None \/ Storable(h, b) \/ (wire[h] # None /\ wire[h].uid = b.uid),
           op' \in {"refresh", "retry", "redelete", "forget"},
           op' = "forget" => job'.href = h /\ b = None,
           UNCHANGED <<token, cache, got>>
    PROVE  SyncInv'
<1> USE DEF Types, TypeOK, JobKnown, SyncInv
<1>1. wire'[h] = b /\ \A g \in Hrefs \ {h} : wire'[g] = wire[g]
  OBVIOUS
<1>2. DistinctUids(wire)'
  BY <1>1 DEF DistinctUids, Storable
<1>3. Keyed(cache)' /\ Keyed(got)'
  BY DEF Keyed
<1>4. Covered'
  BY <1>1 DEF Covered, Clean, RowOf, Touch
<1>5. PassCovers' /\ PassDeletes' /\ StoreFresh'
  BY DEF PassCovers, PassDeletes, StoreFresh, Syncing
<1>6. GotUsed'
  BY DEF GotUsed, Syncing, NoRows
<1>7. ForgetGone'
  BY <1>1 DEF ForgetGone, Clean
<1> QED
  BY <1>2, <1>3, <1>4, <1>5, <1>6, <1>7

\* A handler that ends without touching server, token or cache.
LEMMA AbortKeeps ==
    ASSUME Types, SyncInv, EndRun, UNCHANGED <<wire, token, dirty, cache>>
    PROVE  SyncInv'
  BY DEF Types, TypeOK, SyncInv, EndRun, DistinctUids, Keyed, NoRows, Covered, Clean,
         RowOf, PassCovers, Syncing, PassDeletes, GotUsed, StoreFresh, ForgetGone

\* The transaction of a pass: upserts, then the deletion of rows whose hrefs
\* were found gone, then the token of the REPORT.
LEMMA CommitKeeps ==
    ASSUME Types, SyncInv, Syncing, todo = {},
           NEW gone \in SUBSET Uids, NEW hs \in SUBSET Hrefs,
           \A h \in hs : h \in since \/ wire[h] = None,
           OnePerHref(Upserted(cache, got), hs, gone),
           cache' = Without(Upserted(cache, got), gone),
           StoreToken, EndRun, UNCHANGED wire
    PROVE  SyncInv'
<1> USE DEF Types, TypeOK, SyncInv
<1>1. Keyed(cache)'
  BY DEF Keyed, Without, Upserted
<1>2. Covered'
  <2> SUFFICES ASSUME NEW h \in Hrefs, h \notin since, Tracked(wire[h])
               PROVE  cache'[wire[h].uid] = RowOf(h)
    BY DEF Covered, Clean, StoreToken, RowOf
  <2>1. wire[h].uid \in Uids
    BY DEF Tracked, Body
  <2>2. Upserted(cache, got)[wire[h].uid] = RowOf(h)
    <3>1. wire[h] \in Body
      BY DEF Tracked
    <3>2. RowOf(h) # None
      BY <3>1, RowTyped, NoneAssumption DEF RowOf
    <3> QED BY <2>1, <3>2 DEF PassCovers, Upserted
  <2>3. wire[h].uid \notin gone
    BY <2>1, <2>2 DEF OnePerHref, RowOf, Tracked
  <2> QED
    BY <2>1, <2>2, <2>3 DEF Without
<1> QED
  BY <1>1, <1>2 DEF EndRun, DistinctUids, Keyed, NoRows, PassCovers, Syncing,
                    PassDeletes, GotUsed, StoreFresh, ForgetGone

\* One multiget request: what it returns for a UID is what the server stores.
LEMMA FetchKeeps ==
    ASSUME Types, SyncInv, FetchBatch
    PROVE  SyncInv'
<1> USE DEF Types, TypeOK, SyncInv
<1>1. PICK hs \in SUBSET todo :
          /\ todo' = todo \ hs
          /\ got' = [u \in Uids |->
                        IF \E h \in hs : Tracked(wire[h]) /\ wire[h].uid = u
                        THEN LET h == CHOOSE h \in hs :
                                          Tracked(wire[h]) /\ wire[h].uid = u
                             IN [href |-> h, body |-> wire[h]]
                        ELSE got[u]]
  BY DEF Answered, RowOf, FetchBatch
<1>2. Syncing /\ UNCHANGED <<wire, token, dirty, cache, op, removed, listed, since>>
  BY DEF FetchBatch, dbVars
<1>3. ASSUME NEW u \in Uids, NEW h \in hs, Tracked(wire[h]), wire[h].uid = u
      PROVE  got'[u] = RowOf(h)
  <2> DEFINE P(g) == Tracked(wire[g]) /\ wire[g].uid = u
             c == CHOOSE g \in hs : P(g)
  <2>1. \E g \in hs : P(g)
    BY <1>3
  <2>2. c \in hs /\ P(c)
    <3> HIDE DEF P
    <3> QED BY <2>1
  <2>3. c = h
    BY <2>2, <1>3 DEF DistinctUids, Tracked
  <2>4. got'[u] = [href |-> c, body |-> wire[c]]
    BY <1>1, <2>1
  <2> QED
    BY <2>3, <2>4 DEF RowOf
<1>4. ASSUME NEW u \in Uids, ~\E h \in hs : Tracked(wire[h]) /\ wire[h].uid = u
      PROVE  got'[u] = got[u]
  BY <1>1, <1>4
<1>5. Keyed(got)'
  <2> SUFFICES ASSUME NEW u \in Uids, got'[u] # None PROVE got'[u].body.uid = u
    BY DEF Keyed
  <2>1. CASE \E h \in hs : Tracked(wire[h]) /\ wire[h].uid = u
    <3>1. PICK h \in hs : Tracked(wire[h]) /\ wire[h].uid = u
      BY <2>1
    <3>2. got'[u] = RowOf(h)
      BY <3>1, <1>3
    <3> QED
      BY <3>1, <3>2 DEF RowOf
  <2>2. CASE ~\E h \in hs : Tracked(wire[h]) /\ wire[h].uid = u
    BY <2>2, <1>4 DEF Keyed
  <2> QED
    BY <2>1, <2>2
<1>6. PassCovers'
  <2> SUFFICES ASSUME NEW h \in Hrefs, h \notin since, Tracked(wire[h]), h \notin todo'
               PROVE  \/ got'[wire[h].uid] = RowOf(h)
                      \/ got'[wire[h].uid] = None /\ cache[wire[h].uid] = RowOf(h)
    BY <1>2 DEF PassCovers, RowOf
  <2>1. wire[h].uid \in Uids
    BY DEF Tracked, Body
  <2>2. CASE h \in hs
    BY <2>1, <2>2, <1>3
  <2>3. CASE h \notin hs
    <3>1. ~\E g \in hs : Tracked(wire[g]) /\ wire[g].uid = wire[h].uid
      BY <2>3 DEF DistinctUids, Tracked
    <3>2. h \notin todo
      BY <2>3, <1>1
    <3> QED
      BY <2>1, <3>1, <3>2, <1>2, <1>4 DEF PassCovers
  <2> QED
    BY <2>2, <2>3
<1>7. DistinctUids(wire)' /\ Keyed(cache)' /\ Covered' /\ PassDeletes'
  BY <1>2 DEF DistinctUids, Keyed, Covered, Clean, RowOf, PassDeletes
<1>8. GotUsed' /\ StoreFresh' /\ ForgetGone'
  BY <1>2 DEF GotUsed, StoreFresh, ForgetGone, Syncing
<1> QED
  BY <1>5, <1>6, <1>7, <1>8

LEMMA SyncInvStep == Types /\ SyncInv /\ [Next]_vars => SyncInv'
<1> SUFFICES ASSUME Types, SyncInv, [Next]_vars PROVE SyncInv'
  OBVIOUS
<1>1. ASSUME NEW h \in Hrefs, NEW b \in Body, ForeignPut(h, b) PROVE SyncInv'
  BY <1>1, TouchKeeps DEF ForeignPut
<1>2. ASSUME NEW h \in Hrefs, ForeignDelete(h) PROVE SyncInv'
  BY <1>2, TouchKeeps DEF ForeignDelete
<1>3. CASE PruneToken
  BY <1>3 DEF PruneToken, passVars, SyncInv, DistinctUids, Keyed, Covered, Clean,
     PassCovers, Syncing, RowOf, PassDeletes, GotUsed, NoRows, StoreFresh, ForgetGone
<1>4. CASE StartIncremental
  <2>1. UNCHANGED <<wire, token, dirty, cache, got>> /\ op' = "incremental"
    BY <1>4 DEF StartIncremental, dbVars
  <2>2. got = NoRows
    BY <1>4 DEF StartIncremental, SyncInv, GotUsed, Syncing
  <2>3. PassCovers'
    BY <1>4, <2>1, <2>2 DEF Answered, Missing, StartIncremental, SyncInv, Covered, Clean, PassCovers,
       RowOf, Tracked, NoRows, Types, TypeOK, Body
  <2>4. PassDeletes'
    BY <1>4, <2>1 DEF Answered, Missing, StartIncremental, PassDeletes
  <2> QED
    BY <2>1, <2>3, <2>4 DEF SyncInv, DistinctUids, Keyed, Covered, Clean, RowOf,
       GotUsed, Syncing, StoreFresh, ForgetGone
<1>5. CASE StartFull
  <2>1. UNCHANGED <<wire, token, dirty, cache, got>> /\ op' = "full"
    BY <1>5 DEF StartFull, dbVars
  <2>2. got = NoRows
    BY <1>5 DEF StartFull, SyncInv, GotUsed, Syncing
  <2>3. PassCovers'
    <3>1. PICK known \in SUBSET Uids :
              /\ OnePerHref(cache, Hrefs, known)
              /\ todo' = {h \in Hrefs : /\ wire[h] # None
                                        /\ \A u \in known : cache[u].href = h
                                                        => cache[u].body # wire[h]}
      BY <1>5 DEF Answered, StartFull
    <3>2. ASSUME NEW h \in Hrefs, Tracked(wire[h]), h \notin todo'
          PROVE  cache[wire[h].uid] = RowOf(h)
      <4>1. PICK u \in known : cache[u].href = h /\ cache[u].body = wire[h]
        BY <3>1, <3>2 DEF Tracked
      <4>2. cache[u] \in Row
        BY <3>1, <4>1 DEF OnePerHref, Types, TypeOK
      <4>3. u = wire[h].uid
        BY <4>1, <4>2, NoneAssumption DEF SyncInv, Keyed
      <4> QED
        BY <4>1, <4>2, <4>3 DEF Row, RowOf
    <3> QED
      BY <2>1, <2>2, <3>2 DEF PassCovers, RowOf, NoRows, Tracked, Types, TypeOK, Body
  <2>4. PassDeletes'
    BY <1>5, <2>1 DEF Answered, StartFull, PassDeletes
  <2> QED
    BY <2>1, <2>3, <2>4 DEF SyncInv, DistinctUids, Keyed, Covered, Clean, RowOf,
       GotUsed, Syncing, StoreFresh, ForgetGone
<1>6. CASE FetchBatch
  BY <1>6, FetchKeeps
<1>7. CASE CommitIncremental
  <2>1. \A h \in removed : h \in since \/ wire[h] = None
    BY <1>7 DEF CommitIncremental, SyncInv, PassDeletes
  <2>2. removed \in SUBSET Hrefs
    BY DEF Types, TypeOK
  <2> QED
    BY <1>7, <2>1, <2>2, CommitKeeps DEF CommitIncremental, Syncing
<1>8. CASE CommitFull
  <2>1. \A h \in Swept : h \in since \/ wire[h] = None
    BY <1>8 DEF CommitFull, Swept, SyncInv, PassDeletes
  <2>2. Swept \in SUBSET Hrefs
    BY DEF Swept
  <2> QED
    BY <1>8, <2>1, <2>2, CommitKeeps DEF CommitFull, Syncing
<1>9. CASE FailSync
  BY <1>9, AbortKeeps DEF FailSync
<1>10. ASSUME NEW h \in Hrefs, NEW u \in Uids, NEW v \in Vers, Create(h, u, v)
       PROVE  SyncInv'
  <2>1. ~Syncing /\ op # "store" /\ op' = "refresh" /\ UNCHANGED <<token, cache, got>>
    BY <1>10 DEF Create, Syncing
  <2>2. CASE UNCHANGED <<wire, dirty, since>>
    <3>1. wire[h] \in Body \cup {None}
      BY DEF Types, TypeOK
    <3>2. wire[h] = None \/ (wire[h] # None /\ wire[h].uid = wire[h].uid)
      OBVIOUS
    <3> QED BY <2>1, <2>2, <3>1, <3>2, WriteKeeps
  <2>3. CASE ~UNCHANGED <<wire, dirty, since>>
    <3> DEFINE b == [uid |-> u, form |-> v]
    <3>1. Storable(h, b) /\ Store(h, b) /\ b \in Body
      BY <1>10, <2>3 DEF Create, Body
    <3> QED
      BY <2>1, <3>1, WriteKeeps DEF Store
  <2> QED
    BY <2>2, <2>3
<1>11. ASSUME NEW u \in Uids, NEW v \in Vers, Edit(u, v) PROVE SyncInv'
  <2> DEFINE h == cache[u].href
  <2>1. ~Syncing /\ op # "store" /\ op' \in {"refresh", "retry"} /\ UNCHANGED <<token, cache, got>>
    BY <1>11 DEF Edit, Syncing
  <2>2. cache[u] \in Row /\ h \in Hrefs /\ wire[h] \in Body \cup {None}
    BY <1>11 DEF Edit, Types, TypeOK, Row
  <2>3. CASE UNCHANGED <<wire, dirty, since>>
    <3>1. wire[h] = None \/ (wire[h] # None /\ wire[h].uid = wire[h].uid)
      OBVIOUS
    <3> QED BY <2>1, <2>2, <2>3, <3>1, WriteKeeps
  <2>4. CASE ~UNCHANGED <<wire, dirty, since>>
    <3> DEFINE b == [uid |-> u, form |-> v]
    <3>1. wire[h] = cache[u].body /\ Store(h, b) /\ b \in Body
      BY <1>11, <2>4 DEF Edit, Body
    <3>2. wire[h] # None /\ wire[h].uid = b.uid
      BY <1>11, <2>2, <3>1, RowHolds DEF Edit, SyncInv, Keyed
    <3> QED
      BY <2>1, <2>2, <3>1, <3>2, WriteKeeps DEF Store
  <2> QED
    BY <2>3, <2>4
<1>12. ASSUME NEW v \in Vers, RetryEdit(v) PROVE SyncInv'
  <2> DEFINE h == job.href
             b == [uid |-> job.body.uid, form |-> v]
  <2>1. h \in Hrefs /\ job.body \in Body /\ b \in Body
    BY <1>12 DEF RetryEdit, Types, JobKnown, Body
  <2>2. CASE wire[h] = job.body
    <3>1. /\ ~Syncing /\ op # "store" /\ op' = "refresh"
          /\ UNCHANGED <<token, cache, got>>
          /\ Store(h, b)
      BY <1>12, <2>2 DEF RetryEdit, Syncing
    <3>2. wire[h] # None /\ wire[h].uid = b.uid
      BY <2>1, <2>2, NoneAssumption
    <3> QED
      BY <2>1, <3>1, <3>2, WriteKeeps DEF Store
  <2>3. CASE wire[h] # job.body
    BY <1>12, <2>3, AbortKeeps DEF RetryEdit
  <2> QED
    BY <2>2, <2>3
<1>13. CASE Refresh
  <2> DEFINE h == job.href
  <2>1. h \in Hrefs /\ wire[h] \in Body \cup {None}
    BY <1>13 DEF Refresh, Types, TypeOK, JobKnown
  <2>2. UNCHANGED <<wire, token, dirty, cache>>
    BY <1>13 DEF Refresh, dbVars
  <2>3. CASE Tracked(wire[h])
    <3>1. /\ got' = [got EXCEPT ![wire[h].uid] = [href |-> h, body |-> wire[h]]]
          /\ op' = "store"
          /\ got = NoRows
      BY <1>13, <2>3 DEF RowOf, Refresh, SyncInv, GotUsed, Syncing
    <3>2. wire[h].uid \in Uids /\ wire[h] # None
      BY <2>1, <2>3 DEF Tracked, Body
    <3>3. /\ got'[wire[h].uid] = RowOf(h)
          /\ \A u \in Uids \ {wire[h].uid} : got'[u] = None
      BY <3>1, <3>2 DEF NoRows, RowOf
    <3>4. StoreFresh' /\ Keyed(got)'
      BY <2>1, <2>2, <3>2, <3>3 DEF StoreFresh, Clean, RowOf, Keyed, SyncInv, DistinctUids,
         Tracked, Types, TypeOK, Body
    <3> QED
      BY <2>2, <3>1, <3>4 DEF SyncInv, DistinctUids, Keyed, Covered, Clean, RowOf,
         PassCovers, Syncing, PassDeletes, GotUsed, ForgetGone
  <2>4. CASE ~Tracked(wire[h])
    BY <1>13, <2>2, <2>4, AbortKeeps DEF Refresh
  <2> QED
    BY <2>3, <2>4
<1>14. CASE StoreRefreshed
  <2>1. /\ op = "store"
        /\ cache' = Upserted(cache, got)
        /\ EndRun
        /\ UNCHANGED <<wire, token, dirty>>
    BY <1>14 DEF StoreRefreshed
  <2>2. Keyed(cache)'
    BY <2>1 DEF SyncInv, Keyed, Upserted
  <2>3. Covered'
    BY <2>1 DEF SyncInv, Covered, StoreFresh, Clean, RowOf, Upserted, Tracked, Types,
       TypeOK, Body
  <2> QED
    BY <2>1, <2>2, <2>3 DEF SyncInv, EndRun, DistinctUids, Keyed, NoRows, PassCovers,
       Syncing, PassDeletes, GotUsed, StoreFresh, ForgetGone
<1>15. ASSUME NEW u \in Uids, Delete(u) PROVE SyncInv'
  <2> DEFINE h == cache[u].href
  <2>1. /\ ~Syncing /\ op # "store" /\ op' \in {"forget", "redelete"}
        /\ UNCHANGED <<token, cache, got>>
    BY <1>15 DEF Delete, Syncing
  <2>2. cache[u] \in Row /\ h \in Hrefs /\ wire[h] \in Body \cup {None}
    BY <1>15 DEF Delete, Types, TypeOK, Row
  <2>3. CASE Store(h, None) /\ op' = "forget" /\ job' = Job(u, h, None)
    BY <2>1, <2>2, <2>3, WriteKeeps DEF Store, Job
  <2>4. CASE wire[h] = None /\ op' = "forget" /\ job' = Job(u, h, None)
             /\ UNCHANGED <<wire, dirty, since>>
    BY <2>1, <2>2, <2>4, WriteKeeps DEF Job
  <2>5. CASE wire[h] # None /\ op' = "redelete" /\ UNCHANGED <<wire, dirty, since>>
    <3>1. wire[h] # None /\ wire[h].uid = wire[h].uid
      BY <2>5
    <3> QED BY <2>1, <2>2, <2>5, <3>1, WriteKeeps
  <2> QED
    BY <1>15, <2>3, <2>4, <2>5 DEF Delete
<1>16. CASE Redelete
  <2> DEFINE h == job.href
  <2>1. h \in Hrefs /\ ~Syncing /\ op # "store" /\ UNCHANGED <<token, cache>>
    BY <1>16 DEF Redelete, Syncing, Types, JobKnown
  <2>2. CASE Store(h, None) /\ op' = "forget" /\ job' = Job(job.uid, h, None)
             /\ UNCHANGED got
    BY <2>1, <2>2, WriteKeeps DEF Store, Job
  <2>3. CASE wire[h] = None /\ op' = "forget" /\ job' = Job(job.uid, h, None)
             /\ UNCHANGED <<wire, dirty, passVars>>
    BY <2>1, <2>3, WriteKeeps DEF Job, passVars
  <2>4. CASE EndRun /\ UNCHANGED <<wire, dirty>>
    BY <2>1, <2>4, AbortKeeps
  <2> QED
    BY <1>16, <2>2, <2>3, <2>4 DEF Redelete
<1>17. CASE Forget
  <2>1. PICK gone \in SUBSET Uids :
            /\ OnePerHref(cache, {job.href}, gone)
            /\ cache' = Without(cache, gone)
    BY <1>17 DEF Forget
  <2>2. EndRun /\ UNCHANGED <<wire, token, dirty>> /\ op = "forget"
    BY <1>17 DEF Forget
  <2>3. Keyed(cache)'
    BY <2>1 DEF SyncInv, Keyed, Without
  <2>4. Covered'
    <3> SUFFICES ASSUME NEW h \in Hrefs, Clean(h), Tracked(wire[h])
                 PROVE  cache'[wire[h].uid] = RowOf(h)
      BY <2>2 DEF Covered, Clean, RowOf
    <3>1. wire[h].uid \in Uids /\ cache[wire[h].uid] = RowOf(h)
      BY DEF SyncInv, Covered, Types, TypeOK, Tracked, Body
    <3>2. h # job.href
      BY <2>2 DEF SyncInv, ForgetGone, Tracked
    <3>3. wire[h].uid \notin gone
      BY <2>1, <3>1, <3>2 DEF OnePerHref, RowOf
    <3> QED
      BY <2>1, <3>1, <3>3 DEF Without
  <2> QED
    BY <2>2, <2>3, <2>4 DEF SyncInv, EndRun, DistinctUids, Keyed, NoRows, PassCovers,
       Syncing, PassDeletes, GotUsed, StoreFresh, ForgetGone
<1>18. CASE FailWrite
  BY <1>18, AbortKeeps DEF FailWrite, dbVars
<1>19. ASSUME NEW u \in Uids, SetSidecar(u) \/ Expire(u) PROVE SyncInv'
  BY <1>19 DEF SetSidecar, Expire, passVars, SyncInv, DistinctUids, Keyed, Covered, Clean,
     RowOf, PassCovers, Syncing, PassDeletes, GotUsed, NoRows, StoreFresh, ForgetGone
<1>20. CASE CollectElsewhere
  BY <1>20 DEF CollectElsewhere, passVars, SyncInv, DistinctUids, Keyed, Covered, Clean,
     RowOf, PassCovers, Syncing, PassDeletes, GotUsed, NoRows, StoreFresh, ForgetGone
<1>21. CASE UNCHANGED vars
  BY <1>21 DEF vars, dbVars, passVars, SyncInv, DistinctUids, Keyed, Covered, Clean,
     RowOf, PassCovers, Syncing, PassDeletes, GotUsed, NoRows, StoreFresh, ForgetGone
<1> QED
  BY <1>1, <1>2, <1>3, <1>4, <1>5, <1>6, <1>7, <1>8, <1>9, <1>10, <1>11, <1>12,
     <1>13, <1>14, <1>15, <1>16, <1>17, <1>18, <1>19, <1>20, <1>21, BodiesAssumption
     DEF Next, Foreign, SyncStep, WriteStep, SidecarStep

\* Nothing is missed: for every number of hrefs, UIDs and revisions, every
\* batch size and every interleaving of foreign writes, syncs, the engine's own
\* writes and failures, a task the stored token vouches for is cached as the
\* server has it.
THEOREM NothingMissed == Spec => []Covered
<1>1. SyncInv => Covered
  BY DEF SyncInv
<1> QED
  BY <1>1, TypesInit, TypesStep, SyncInvInit, SyncInvStep, PTL DEF Spec

-----------------------------------------------------------------------------
(* What is gone is forgotten                                               *)

AllPrivate == \A h \in Hrefs : Private(h)

\* A row or a resource is at a name its UID may have.
Named(rows) == \A u \in Uids : rows[u] # None => u \in Names[rows[u].href]

WireNamed == \A h \in Hrefs : wire[h] # None => wire[h].uid \in Names[h]

\* A delete is of a row that is still there.
DeletesRow ==
    op \in {"redelete", "forget"} =>
        cache[job.uid] # None /\ cache[job.uid].href = job.href

\* No row is left of a resource that the token vouches for being gone.
GoneForgotten ==
    \A h \in Hrefs : Private(h) /\ Clean(h) /\ wire[h] = None => RowsAt(cache, h) = {}

\* A running pass has fetched nothing from a resource that is gone, unless it
\* changed since the REPORT, and will delete the row that is left of it.
PassForgets ==
    Syncing => \A h \in Hrefs :
        Private(h) /\ h \notin since /\ wire[h] = None =>
            /\ RowsAt(got, h) = {}
            /\ op = "incremental" => h \in removed \/ RowsAt(cache, h) = {}
            /\ op = "full" => h \notin listed

\* What a refresh is about to store is there, or its end will be reported.
StoreThere ==
    op = "store" => \A u \in Uids :
        got[u] # None /\ Clean(got[u].href) => wire[got[u].href] # None

\* A sidecar that waits for the collector has no row.
MarkedGone ==
    AllPrivate => \A u \in Uids : sidecar[u] \in {"orphaned", "expired"} => cache[u] = None

GoneInv ==
    /\ WireNamed
    /\ Named(cache)
    /\ Named(got)
    /\ DeletesRow
    /\ GoneForgotten
    /\ PassForgets
    /\ StoreThere
    /\ MarkedGone

LEMMA GoneInit == Init => GoneInv
<1>1. Init => WireNamed
  BY DEF Init, WireNamed, Names
<1> QED
  BY <1>1 DEF Init, GoneInv, NoRows, Named, DeletesRow, GoneForgotten, Clean,
         PassForgets, Syncing, StoreThere, MarkedGone

\* A change of one href of the server, with the bookkeeping of Touch.
LEMMA GoneTouch ==
    ASSUME Types, GoneInv,
           NEW h \in Hrefs, NEW b \in Body \cup {None},
           wire' = [wire EXCEPT ![h] = b],
           Touch(h),
           b = None \/ b.uid \in Names[h],
           UNCHANGED <<token, cache, sidecar, op, job, got, removed, listed>>
    PROVE  GoneInv'
<1> USE DEF Types, TypeOK, GoneInv
<1>1. wire'[h] = b /\ \A g \in Hrefs \ {h} : wire'[g] = wire[g]
  OBVIOUS
<1>2. WireNamed'
  BY <1>1 DEF WireNamed
<1>3. Named(cache)' /\ Named(got)' /\ DeletesRow' /\ MarkedGone'
  BY DEF Named, DeletesRow, MarkedGone
<1>4. GoneForgotten'
  BY <1>1 DEF GoneForgotten, Clean, Touch, RowsAt
<1>5. PassForgets'
  BY <1>1 DEF PassForgets, Syncing, Touch, RowsAt
<1>6. StoreThere'
  <2> SUFFICES ASSUME op = "store", NEW u \in Uids, got[u] # None,
                      token' = "valid", got[u].href \notin dirty'
               PROVE  wire'[got[u].href] # None
    BY DEF StoreThere, Clean
  <2>1. got[u].href # h /\ got[u].href \in Hrefs /\ got[u].href \notin dirty
    BY DEF Touch, Row
  <2> QED BY <1>1, <2>1 DEF StoreThere, Clean
<1> QED BY <1>2, <1>3, <1>4, <1>5, <1>6

\* A write handler's own change of the server, as the handler moves on.
LEMMA GoneWrite ==
    ASSUME Types, GoneInv,
           ~Syncing, op # "store",
           NEW h \in Hrefs, NEW b \in Body \cup {None},
           \/ wire' = [wire EXCEPT ![h] = b] /\ Touch(h)
           \/ b = wire[h] /\ UNCHANGED <<wire, dirty, since>>,
           b = None \/ b.uid \in Names[h],
           op' \in {"refresh", "retry", "redelete", "forget"},
           op' \in {"redelete", "forget"} =>
               cache[job'.uid] # None /\ cache[job'.uid].href = job'.href,
           UNCHANGED <<token, cache, sidecar, got>>
    PROVE  GoneInv'
<1> USE DEF Types, TypeOK, GoneInv
<1>1. wire'[h] = b /\ \A g \in Hrefs \ {h} : wire'[g] = wire[g]
  OBVIOUS
<1>2. WireNamed'
  BY <1>1 DEF WireNamed
<1>3. Named(cache)' /\ Named(got)' /\ DeletesRow' /\ MarkedGone'
  BY DEF Named, DeletesRow, MarkedGone
<1>4. GoneForgotten'
  BY <1>1 DEF GoneForgotten, Clean, Touch, RowsAt
<1>5. PassForgets' /\ StoreThere'
  BY DEF PassForgets, StoreThere, Syncing
<1> QED BY <1>2, <1>3, <1>4, <1>5

\* A handler that ends without touching server, token, cache or sidecar.
LEMMA GoneAbort ==
    ASSUME Types, GoneInv, EndRun, UNCHANGED <<wire, token, dirty, cache, sidecar>>
    PROVE  GoneInv'
<1> USE DEF GoneInv, EndRun
<1>1. WireNamed' /\ Named(cache)' /\ Named(got)' /\ DeletesRow' /\ MarkedGone'
  BY DEF WireNamed, Named, DeletesRow, MarkedGone, NoRows
<1>2. GoneForgotten' /\ PassForgets' /\ StoreThere'
  BY DEF GoneForgotten, Clean, RowsAt, PassForgets, Syncing, StoreThere
<1> QED BY <1>1, <1>2

\* Upserting what a run fetched, and dropping the orphan marks it contradicts.
LEMMA UpsertedGone ==
    ASSUME Types, GoneInv
    PROVE  /\ Named(Upserted(cache, got))
           /\ AllPrivate => \A u \in Uids :
                  Rejoined(sidecar, got)[u] \in {"orphaned", "expired"} =>
                      Upserted(cache, got)[u] = None
           /\ \A h \in Hrefs :
                  RowsAt(Upserted(cache, got), h) \subseteq RowsAt(cache, h) \cup RowsAt(got, h)
  BY DEF GoneInv, Named, MarkedGone, Upserted, Rejoined, RowsAt, Types, TypeOK

\* Of several names for the rows at an href that has one row, each is the row's.
LEMMA OneRow ==
    ASSUME NEW rows \in [Uids -> Row \cup {None}], Named(rows),
           NEW hs \in SUBSET Hrefs, NEW us \in SUBSET Uids, OnePerHref(rows, hs, us),
           NEW u \in Uids, rows[u] # None, rows[u].href \in hs, Private(rows[u].href)
    PROVE  u \in us
<1>1. u \in RowsAt(rows, rows[u].href)
  BY DEF RowsAt
<1>2. PICK v \in us : us \cap RowsAt(rows, rows[u].href) = {v}
  BY <1>1 DEF OnePerHref
<1>3. v \in RowsAt(rows, rows[u].href)
  BY <1>2
<1>4. v = u
  BY <1>3 DEF Named, Private, RowsAt
<1> QED BY <1>4

\* The transaction of a pass: upserts, the deletion of the rows at the hrefs
\* hs, the orphan marks of the UIDs found there, and perhaps the collection.
LEMMA GoneCommit ==
    ASSUME Types, GoneInv, Syncing,
           NEW hs \in SUBSET Hrefs, NEW gone \in SUBSET Uids, NEW mapped \in SUBSET Uids,
           \A h \in Hrefs : Private(h) /\ h \notin since /\ wire[h] = None =>
               h \in hs \/ RowsAt(cache, h) = {},
           OnePerHref(Upserted(cache, got), hs, gone),
           OnePerHref(Upserted(cache, got), hs, mapped),
           cache' = Without(Upserted(cache, got), gone),
           \/ sidecar' = Orphaned(Rejoined(sidecar, got), mapped)
           \/ sidecar' = Collected(Orphaned(Rejoined(sidecar, got), mapped)),
           StoreToken, EndRun, UNCHANGED wire
    PROVE  GoneInv'
<1> DEFINE rows == Upserted(cache, got)
           side == Rejoined(sidecar, got)
<1>1. rows \in [Uids -> Row \cup {None}]
  BY TableTypes DEF Types, TypeOK
<1>2. /\ Named(rows)
      /\ AllPrivate => \A u \in Uids : side[u] \in {"orphaned", "expired"} => rows[u] = None
      /\ \A h \in Hrefs : RowsAt(rows, h) \subseteq RowsAt(cache, h) \cup RowsAt(got, h)
  BY UpsertedGone
<1>3. \A u \in Uids : cache'[u] = IF u \in gone THEN None ELSE rows[u]
  BY DEF Without
<1> HIDE DEF rows
<1>4. Named(cache)'
  BY <1>2, <1>3 DEF Named
<1>5. GoneForgotten'
  <2> SUFFICES ASSUME NEW h \in Hrefs, Private(h), h \notin since, wire[h] = None,
                      NEW u \in Uids, cache'[u] # None, cache'[u].href = h
               PROVE  FALSE
    BY DEF GoneForgotten, Clean, StoreToken, RowsAt
  <2>1. u \notin gone /\ rows[u] # None /\ rows[u].href = h
    BY <1>3
  <2>2. RowsAt(got, h) = {}
    BY DEF GoneInv, PassForgets
  <2>3. u \in RowsAt(rows, h)
    BY <2>1 DEF RowsAt
  <2>4. h \in hs
    BY <1>2, <2>2, <2>3
  <2>5. OnePerHref(rows, hs, gone)
    BY DEF rows
  <2> QED BY <1>1, <1>2, <2>1, <2>4, <2>5, OneRow
<1>6. MarkedGone'
  <2> SUFFICES ASSUME AllPrivate, NEW u \in Uids, sidecar'[u] \in {"orphaned", "expired"}
               PROVE  cache'[u] = None
    BY DEF MarkedGone
  <2> HIDE DEF side
  <2>1. Orphaned(side, mapped)[u] \in {"orphaned", "expired"}
    BY DEF side, Collected
  <2>2. u \in mapped \/ side[u] \in {"orphaned", "expired"}
    BY <2>1 DEF Orphaned
  <2>3. CASE side[u] \in {"orphaned", "expired"}
    BY <1>2, <1>3, <2>3
  <2>4. CASE u \in mapped
    <3>1. OnePerHref(rows, hs, gone) /\ OnePerHref(rows, hs, mapped)
      BY DEF rows
    <3>2. rows[u] # None /\ rows[u].href \in hs
      BY <2>4, <3>1 DEF OnePerHref
    <3>3. Private(rows[u].href)
      BY <3>2 DEF AllPrivate
    <3> QED BY <1>1, <1>2, <1>3, <3>1, <3>2, <3>3, OneRow
  <2> QED BY <2>2, <2>3, <2>4
<1>7. WireNamed' /\ Named(got)' /\ DeletesRow' /\ PassForgets' /\ StoreThere'
  BY DEF GoneInv, EndRun, WireNamed, Named, DeletesRow, PassForgets, StoreThere, Syncing,
         NoRows
<1> QED BY <1>4, <1>5, <1>6, <1>7 DEF GoneInv

\* One multiget request fetches only what is there.
LEMMA GoneFetch ==
    ASSUME Types, GoneInv, FetchBatch
    PROVE  GoneInv'
<1> USE DEF Types, TypeOK
<1>1. PICK hs \in SUBSET todo :
          got' = [u \in Uids |->
                        IF \E h \in hs : Tracked(wire[h]) /\ wire[h].uid = u
                        THEN LET h == CHOOSE h \in hs :
                                          Tracked(wire[h]) /\ wire[h].uid = u
                             IN [href |-> h, body |-> wire[h]]
                        ELSE got[u]]
  BY DEF RowOf, FetchBatch
<1>2. /\ Syncing
      /\ UNCHANGED <<wire, token, dirty, cache, sidecar, op, job, removed, listed, since>>
  BY DEF FetchBatch, dbVars
<1>3. ASSUME NEW u \in Uids
      PROVE  \/ got'[u] = got[u]
             \/ /\ got'[u] # None
                /\ got'[u].href \in Hrefs
                /\ wire[got'[u].href] # None
                /\ wire[got'[u].href].uid = u
  <2> DEFINE P(g) == Tracked(wire[g]) /\ wire[g].uid = u
             c == CHOOSE g \in hs : P(g)
  <2>1. CASE ~\E g \in hs : P(g)
    BY <1>1, <2>1
  <2>2. CASE \E g \in hs : P(g)
    <3>1. c \in hs /\ P(c)
      <4> HIDE DEF P
      <4> QED BY <2>2
    <3>2. got'[u] = [href |-> c, body |-> wire[c]]
      BY <1>1, <2>2
    <3>3. got'[u] \in Row
      BY <3>1, <3>2, RowTyped DEF Tracked
    <3>4. got'[u].href = c
      BY <3>2
    <3> QED BY <3>1, <3>3, <3>4, NoneAssumption DEF Tracked, Row
  <2> QED BY <2>1, <2>2
<1>4. Named(got)'
  BY <1>3 DEF GoneInv, Named, WireNamed
<1>5. PassForgets'
  <2> SUFFICES ASSUME NEW h \in Hrefs, Private(h), h \notin since, wire[h] = None
               PROVE  /\ \A u \in Uids : ~(got'[u] # None /\ got'[u].href = h)
                      /\ op = "incremental" => h \in removed \/ RowsAt(cache, h) = {}
                      /\ op = "full" => h \notin listed
    BY <1>2 DEF PassForgets, RowsAt
  <2>1. /\ RowsAt(got, h) = {}
        /\ op = "incremental" => h \in removed \/ RowsAt(cache, h) = {}
        /\ op = "full" => h \notin listed
    BY <1>2 DEF GoneInv, PassForgets
  <2> QED BY <1>3, <2>1 DEF RowsAt
<1>6. WireNamed' /\ Named(cache)' /\ DeletesRow' /\ GoneForgotten' /\ MarkedGone'
  BY <1>2 DEF GoneInv, WireNamed, Named, DeletesRow, GoneForgotten, Clean, RowsAt, MarkedGone
<1>7. StoreThere'
  BY <1>2 DEF StoreThere, Syncing
<1> QED BY <1>4, <1>5, <1>6, <1>7 DEF GoneInv

LEMMA GoneStep == Types /\ SyncInv /\ GoneInv /\ [Next]_vars => GoneInv'
<1> SUFFICES ASSUME Types, SyncInv, GoneInv, [Next]_vars PROVE GoneInv'
  OBVIOUS
<1>u. ASSUME UNCHANGED <<wire, token, dirty, cache, op, job, got, removed, listed, since>>,
             MarkedGone'
      PROVE  GoneInv'
  BY <1>u DEF GoneInv, WireNamed, Named, DeletesRow, GoneForgotten, Clean, RowsAt,
              PassForgets, Syncing, StoreThere
<1>1. ASSUME NEW h \in Hrefs, NEW b \in Body, ForeignPut(h, b) PROVE GoneInv'
  BY <1>1, GoneTouch DEF ForeignPut, Storable
<1>2. ASSUME NEW h \in Hrefs, ForeignDelete(h) PROVE GoneInv'
  BY <1>2, GoneTouch DEF ForeignDelete
<1>3. CASE PruneToken
  BY <1>3 DEF PruneToken, passVars, GoneInv, WireNamed, Named, DeletesRow, GoneForgotten,
              Clean, PassForgets, RowsAt, Syncing, StoreThere, MarkedGone
<1>4. CASE StartIncremental
  <2>1. /\ UNCHANGED <<wire, token, dirty, cache, sidecar, job, got>> /\ op' = "incremental"
        /\ token = "valid" /\ removed' = {h \in dirty : wire[h] = None} /\ since' = since
    BY <1>4 DEF StartIncremental, dbVars, Missing
  <2>2. got = NoRows
    BY <1>4 DEF StartIncremental, SyncInv, GotUsed, Syncing
  <2>3. PassForgets'
    BY <2>1, <2>2 DEF PassForgets, GoneInv, GoneForgotten, Clean, RowsAt, NoRows
  <2> QED
    BY <2>1, <2>3 DEF GoneInv, WireNamed, Named, DeletesRow, GoneForgotten, Clean, RowsAt,
                      StoreThere, MarkedGone
<1>5. CASE StartFull
  <2>1. /\ UNCHANGED <<wire, token, dirty, cache, sidecar, job, got>> /\ op' = "full"
        /\ listed' = {h \in Hrefs : wire[h] # None} /\ since' = since
    BY <1>5 DEF StartFull, dbVars, Answered
  <2>2. got = NoRows
    BY <1>5 DEF StartFull, SyncInv, GotUsed, Syncing
  <2>3. PassForgets'
    BY <2>1, <2>2 DEF PassForgets, RowsAt, NoRows
  <2> QED
    BY <2>1, <2>3 DEF GoneInv, WireNamed, Named, DeletesRow, GoneForgotten, Clean, RowsAt,
                      StoreThere, MarkedGone
<1>6. CASE FetchBatch
  BY <1>6, GoneFetch
<1>7. CASE CommitIncremental
  <2>1. PICK gone \in SUBSET Uids :
            /\ OnePerHref(Upserted(cache, got), removed, gone)
            /\ cache' = Without(Upserted(cache, got), gone)
            /\ sidecar' = Orphaned(Rejoined(sidecar, got), gone)
    BY <1>7 DEF CommitIncremental
  <2>2. \A h \in Hrefs : Private(h) /\ h \notin since /\ wire[h] = None =>
            h \in removed \/ RowsAt(cache, h) = {}
    BY <1>7 DEF CommitIncremental, GoneInv, PassForgets, Syncing
  <2>3. removed \in SUBSET Hrefs
    BY DEF Types, TypeOK
  <2> QED BY <1>7, <2>1, <2>2, <2>3, GoneCommit DEF CommitIncremental, Syncing
<1>8. CASE CommitFull
  <2>1. PICK gone, mapped \in SUBSET Uids :
            /\ OnePerHref(Upserted(cache, got), Swept, gone)
            /\ OnePerHref(Upserted(cache, got), Swept, mapped)
            /\ cache' = Without(Upserted(cache, got), gone)
            /\ sidecar' = Collected(Orphaned(Rejoined(sidecar, got), mapped))
    BY <1>8 DEF CommitFull
  <2>2. \A h \in Hrefs : Private(h) /\ h \notin since /\ wire[h] = None =>
            h \in Swept \/ RowsAt(cache, h) = {}
    BY <1>8 DEF CommitFull, GoneInv, PassForgets, Syncing, Swept
  <2>3. Swept \in SUBSET Hrefs
    BY DEF Swept
  <2> QED BY <1>8, <2>1, <2>2, <2>3, GoneCommit DEF CommitFull, Syncing
<1>9. CASE FailSync
  BY <1>9, GoneAbort DEF FailSync
<1>10. ASSUME NEW h \in Hrefs, NEW u \in Uids, NEW v \in Vers, Create(h, u, v)
       PROVE  GoneInv'
  <2>1. /\ ~Syncing /\ op # "store" /\ op' = "refresh" /\ u \in Names[h]
        /\ UNCHANGED <<token, cache, sidecar, got>>
    BY <1>10 DEF Create, Syncing
  <2>2. CASE UNCHANGED <<wire, dirty, since>>
    <3>1. wire[h] \in Body \cup {None} /\ (wire[h] = None \/ wire[h].uid \in Names[h])
      BY DEF Types, TypeOK, GoneInv, WireNamed
    <3> QED BY <2>1, <2>2, <3>1, GoneWrite
  <2>3. CASE ~UNCHANGED <<wire, dirty, since>>
    <3> DEFINE b == [uid |-> u, form |-> v]
    <3>1. Store(h, b) /\ b \in Body
      BY <1>10, <2>3 DEF Create, Body
    <3> QED BY <2>1, <3>1, GoneWrite DEF Store
  <2> QED BY <2>2, <2>3
<1>11. ASSUME NEW u \in Uids, NEW v \in Vers, Edit(u, v) PROVE GoneInv'
  <2> DEFINE h == cache[u].href
  <2>1. /\ ~Syncing /\ op # "store" /\ op' \in {"refresh", "retry"}
        /\ UNCHANGED <<token, cache, sidecar, got>>
    BY <1>11 DEF Edit, Syncing
  <2>2. /\ cache[u] \in Row /\ h \in Hrefs /\ wire[h] \in Body \cup {None}
        /\ u \in Names[h] /\ (wire[h] = None \/ wire[h].uid \in Names[h])
    BY <1>11 DEF Edit, Types, TypeOK, Row, GoneInv, Named, WireNamed
  <2>3. CASE UNCHANGED <<wire, dirty, since>>
    BY <2>1, <2>2, <2>3, GoneWrite
  <2>4. CASE ~UNCHANGED <<wire, dirty, since>>
    <3> DEFINE b == [uid |-> u, form |-> v]
    <3>1. Store(h, b) /\ b \in Body
      BY <1>11, <2>4 DEF Edit, Body
    <3> QED BY <2>1, <2>2, <3>1, GoneWrite DEF Store
  <2> QED BY <2>3, <2>4
<1>12. ASSUME NEW v \in Vers, RetryEdit(v) PROVE GoneInv'
  <2> DEFINE h == job.href
             b == [uid |-> job.body.uid, form |-> v]
  <2>1. h \in Hrefs /\ job.body \in Body /\ b \in Body
    BY <1>12 DEF RetryEdit, Types, JobKnown, Body
  <2>2. CASE wire[h] = job.body
    <3>1. /\ ~Syncing /\ op # "store" /\ op' = "refresh"
          /\ UNCHANGED <<token, cache, sidecar, got>>
          /\ Store(h, b)
      BY <1>12, <2>2 DEF RetryEdit, Syncing
    <3>2. b.uid \in Names[h]
      BY <2>1, <2>2, NoneAssumption DEF GoneInv, WireNamed
    <3> QED BY <2>1, <3>1, <3>2, GoneWrite DEF Store
  <2>3. CASE wire[h] # job.body
    BY <1>12, <2>3, GoneAbort DEF RetryEdit
  <2> QED BY <2>2, <2>3
<1>13. CASE Refresh
  <2> DEFINE h == job.href
  <2>1. h \in Hrefs /\ wire[h] \in Body \cup {None}
    BY <1>13 DEF Refresh, Types, TypeOK, JobKnown
  <2>2. UNCHANGED <<wire, token, dirty, cache, sidecar>>
    BY <1>13 DEF Refresh, dbVars
  <2>3. CASE Tracked(wire[h])
    <3>1. /\ got' = [got EXCEPT ![wire[h].uid] = [href |-> h, body |-> wire[h]]]
          /\ op' = "store"
          /\ got = NoRows
      BY <1>13, <2>3 DEF RowOf, Refresh, SyncInv, GotUsed, Syncing
    <3>2. wire[h].uid \in Uids /\ wire[h] # None /\ wire[h].uid \in Names[h]
      BY <2>1, <2>3 DEF Tracked, Body, GoneInv, WireNamed
    <3>3. /\ got'[wire[h].uid].href = h
          /\ \A u \in Uids \ {wire[h].uid} : got'[u] = None
      BY <3>1, <3>2 DEF NoRows
    <3>4. Named(got)' /\ StoreThere'
      BY <2>2, <3>2, <3>3 DEF Named, StoreThere
    <3>5. WireNamed' /\ Named(cache)' /\ GoneForgotten' /\ MarkedGone'
      BY <2>2 DEF GoneInv, WireNamed, Named, GoneForgotten, Clean, RowsAt, MarkedGone
    <3>6. DeletesRow' /\ PassForgets'
      BY <3>1 DEF DeletesRow, PassForgets, Syncing
    <3> QED BY <3>4, <3>5, <3>6 DEF GoneInv
  <2>4. CASE ~Tracked(wire[h])
    BY <1>13, <2>2, <2>4, GoneAbort DEF Refresh
  <2> QED BY <2>3, <2>4
<1>14. CASE StoreRefreshed
  <2> DEFINE rows == Upserted(cache, got)
             side == Rejoined(sidecar, got)
  <2>1. /\ op = "store" /\ cache' = rows /\ sidecar' = side
        /\ EndRun /\ UNCHANGED <<wire, token, dirty>>
    BY <1>14 DEF StoreRefreshed
  <2>2. /\ Named(rows)
        /\ AllPrivate => \A u \in Uids : side[u] \in {"orphaned", "expired"} => rows[u] = None
        /\ \A h \in Hrefs : RowsAt(rows, h) \subseteq RowsAt(cache, h) \cup RowsAt(got, h)
    BY UpsertedGone
  <2> HIDE DEF rows, side
  <2>3. Named(cache)' /\ MarkedGone'
    BY <2>1, <2>2 DEF Named, MarkedGone
  <2>4. GoneForgotten'
    <3> SUFFICES ASSUME NEW h \in Hrefs, Private(h), Clean(h), wire[h] = None,
                        NEW u \in RowsAt(rows, h)
                 PROVE  FALSE
      BY <2>1 DEF GoneForgotten, Clean, RowsAt
    <3>1. u \notin RowsAt(cache, h)
      BY DEF GoneInv, GoneForgotten
    <3>2. u \in Uids /\ got[u] # None /\ got[u].href = h
      BY <2>2, <3>1 DEF RowsAt
    <3> QED BY <2>1, <3>2 DEF GoneInv, StoreThere
  <2>5. WireNamed' /\ Named(got)' /\ DeletesRow' /\ PassForgets' /\ StoreThere'
    BY <2>1 DEF GoneInv, EndRun, WireNamed, Named, DeletesRow, PassForgets, StoreThere,
                Syncing, NoRows
  <2> QED BY <2>3, <2>4, <2>5 DEF GoneInv
<1>15. ASSUME NEW u \in Uids, Delete(u) PROVE GoneInv'
  <2> DEFINE h == cache[u].href
  <2>1. /\ ~Syncing /\ op # "store" /\ op' \in {"forget", "redelete"}
        /\ job'.uid = u /\ job'.href = h
        /\ UNCHANGED <<token, cache, sidecar, got>>
    BY <1>15 DEF Delete, Syncing, Job
  <2>2. /\ cache[u] # None /\ h \in Hrefs /\ wire[h] \in Body \cup {None}
        /\ (wire[h] = None \/ wire[h].uid \in Names[h])
    BY <1>15 DEF Delete, Types, TypeOK, Row, GoneInv, WireNamed
  <2>3. CASE Store(h, None)
    BY <2>1, <2>2, <2>3, GoneWrite DEF Store
  <2>4. CASE UNCHANGED <<wire, dirty, since>>
    BY <2>1, <2>2, <2>4, GoneWrite
  <2> QED BY <1>15, <2>3, <2>4 DEF Delete
<1>16. CASE Redelete
  <2> DEFINE h == job.href
  <2>1. /\ h \in Hrefs /\ ~Syncing /\ op # "store" /\ UNCHANGED <<token, cache, sidecar>>
        /\ cache[job.uid] # None /\ cache[job.uid].href = h
    BY <1>16 DEF Redelete, Syncing, Types, JobKnown, GoneInv, DeletesRow
  <2>2. CASE Store(h, None) /\ op' = "forget" /\ job' = Job(job.uid, h, None)
             /\ UNCHANGED got
    BY <2>1, <2>2, GoneWrite DEF Store, Job
  <2>3. CASE wire[h] = None /\ op' = "forget" /\ job' = Job(job.uid, h, None)
             /\ UNCHANGED <<wire, dirty, passVars>>
    BY <2>1, <2>3, GoneWrite DEF Job, passVars
  <2>4. CASE EndRun /\ UNCHANGED <<wire, dirty>>
    BY <2>1, <2>4, GoneAbort
  <2> QED BY <1>16, <2>2, <2>3, <2>4 DEF Redelete
<1>17. CASE Forget
  <2>1. PICK gone \in SUBSET Uids :
            /\ OnePerHref(cache, {job.href}, gone)
            /\ cache' = Without(cache, gone)
    BY <1>17 DEF Forget
  <2>2. /\ EndRun /\ UNCHANGED <<wire, token, dirty>> /\ op = "forget"
        /\ sidecar' = Orphaned(sidecar, {job.uid})
        /\ job.uid \in Uids /\ job.href \in Hrefs
    BY <1>17 DEF Forget, Types, JobKnown
  <2>3. \A u \in Uids : cache'[u] = IF u \in gone THEN None ELSE cache[u]
    BY <2>1 DEF Without
  <2>4. Named(cache)' /\ GoneForgotten'
    BY <2>2, <2>3 DEF GoneInv, Named, GoneForgotten, Clean, RowsAt
  <2>5. MarkedGone'
    <3> SUFFICES ASSUME AllPrivate, NEW u \in Uids, sidecar'[u] \in {"orphaned", "expired"}
                 PROVE  cache'[u] = None
      BY DEF MarkedGone
    <3>1. CASE sidecar[u] \in {"orphaned", "expired"}
      BY <2>3, <3>1 DEF GoneInv, MarkedGone
    <3>2. CASE sidecar[u] \notin {"orphaned", "expired"}
      <4>1. u = job.uid
        BY <2>2, <3>2 DEF Orphaned
      <4>2. cache[u] # None /\ cache[u].href = job.href
        BY <2>2, <4>1 DEF GoneInv, DeletesRow
      <4>3. cache \in [Uids -> Row \cup {None}] /\ Named(cache) /\ Private(cache[u].href)
        BY <2>2, <4>2 DEF Types, TypeOK, GoneInv, AllPrivate
      <4>4. {job.href} \in SUBSET Hrefs /\ cache[u].href \in {job.href}
        BY <2>2, <4>2
      <4>5. u \in gone
        BY <2>1, <4>2, <4>3, <4>4, OneRow
      <4> QED BY <2>3, <4>5
    <3> QED BY <3>1, <3>2
  <2>6. WireNamed' /\ Named(got)' /\ DeletesRow' /\ PassForgets' /\ StoreThere'
    BY <2>2 DEF GoneInv, EndRun, WireNamed, Named, DeletesRow, PassForgets, StoreThere,
                Syncing, NoRows
  <2> QED BY <2>4, <2>5, <2>6 DEF GoneInv
<1>18. CASE FailWrite
  BY <1>18, GoneAbort DEF FailWrite, dbVars
<1>19. ASSUME NEW u \in Uids, SetSidecar(u) \/ Expire(u) PROVE GoneInv'
  <2>1. MarkedGone'
    BY <1>19 DEF SetSidecar, Expire, passVars, GoneInv, MarkedGone, Types, TypeOK
  <2> QED BY <1>19, <1>u, <2>1 DEF SetSidecar, Expire, passVars
<1>20. CASE CollectElsewhere
  <2>1. MarkedGone'
    BY <1>20 DEF CollectElsewhere, Collected, passVars, GoneInv, MarkedGone, Types, TypeOK
  <2> QED BY <1>20, <1>u, <2>1 DEF CollectElsewhere, passVars
<1>21. CASE UNCHANGED vars
  <2>1. MarkedGone'
    BY <1>21 DEF vars, dbVars, GoneInv, MarkedGone
  <2> QED BY <1>21, <1>u, <2>1 DEF vars, dbVars, passVars
<1> QED
  BY <1>1, <1>2, <1>3, <1>4, <1>5, <1>6, <1>7, <1>8, <1>9, <1>10, <1>11, <1>12,
     <1>13, <1>14, <1>15, <1>16, <1>17, <1>18, <1>19, <1>20, <1>21, BodiesAssumption
     DEF Next, Foreign, SyncStep, WriteStep, SidecarStep

LEMMA GoneAlways == Spec => [](Types /\ SyncInv /\ GoneInv)
  BY TypesInit, TypesStep, SyncInvInit, SyncInvStep, GoneInit, GoneStep, PTL DEF Spec

\* Whoever takes a row out of the cache marks its sidecar in the same step.
LEMMA LeavingStep ==
    ASSUME Types, GoneInv, [Next]_vars, AllPrivate,
           NEW u \in Uids, cache[u] # None, cache'[u] = None
    PROVE  sidecar'[u] # "live"
<1> DEFINE rows == Upserted(cache, got)
           side == Rejoined(sidecar, got)
<1>r. /\ rows \in [Uids -> Row \cup {None}] /\ Named(rows)
      /\ rows[u] # None
  BY TableTypes, UpsertedGone DEF Types, TypeOK, Upserted
<1> HIDE DEF rows, side
<1>1. CASE cache' = cache
  BY <1>1
<1>2. CASE CommitIncremental
  <2>1. PICK gone \in SUBSET Uids :
            cache' = Without(rows, gone) /\ sidecar' = Orphaned(side, gone)
    BY <1>2 DEF CommitIncremental, rows, side
  <2> QED BY <1>r, <2>1 DEF Without, Orphaned
<1>3. CASE CommitFull
  <2>1. PICK gone, mapped \in SUBSET Uids :
            /\ OnePerHref(rows, Swept, gone)
            /\ OnePerHref(rows, Swept, mapped)
            /\ cache' = Without(rows, gone)
            /\ sidecar' = Collected(Orphaned(side, mapped))
    BY <1>3 DEF CommitFull, rows, side
  <2>2. u \in gone
    BY <1>r, <2>1 DEF Without
  <2>3. rows[u].href \in Swept /\ Swept \in SUBSET Hrefs
    BY <2>1, <2>2 DEF OnePerHref, Swept
  <2>4. u \in mapped
    BY <1>r, <2>1, <2>3, OneRow DEF AllPrivate
  <2> QED BY <2>1, <2>4 DEF Orphaned, Collected
<1>4. CASE StoreRefreshed
  BY <1>4, <1>r DEF StoreRefreshed, rows
<1>5. CASE Forget
  <2>1. PICK gone \in SUBSET Uids :
            /\ OnePerHref(cache, {job.href}, gone)
            /\ cache' = Without(cache, gone)
    BY <1>5 DEF Forget
  <2>2. u \in gone /\ cache[u].href = job.href
    BY <2>1 DEF Without, OnePerHref
  <2>3. u \in Names[job.href] /\ job.uid \in Names[job.href] /\ job.href \in Hrefs
    BY <1>5, <2>2 DEF Forget, GoneInv, Named, DeletesRow, Types, JobKnown
  <2>4. u = job.uid
    BY <2>3 DEF AllPrivate, Private
  <2> QED BY <1>5, <2>4 DEF Forget, Orphaned
<1> QED
  BY <1>1, <1>2, <1>3, <1>4, <1>5
     DEF Next, vars, Foreign, ForeignPut, ForeignDelete, PruneToken, SyncStep, dbVars,
         StartIncremental, StartFull, FetchBatch, WriteStep, Create, Edit, RetryEdit,
         Refresh, Delete, Redelete, SidecarStep, SetSidecar, Expire, CollectElsewhere, FailSync, FailWrite

\* Where no href is reused for another UID, no row leaves the cache without the
\* sidecar being marked in the same transaction.
THEOREM RowsLeaveMarked == Spec => LeavingOrphans
<1>1. Types /\ SyncInv /\ GoneInv /\ [Next]_vars =>
          [(\A h \in Hrefs : Private(h)) =>
               \A u \in Uids : cache[u] # None /\ cache'[u] = None =>
                                    sidecar'[u] # "live"]_vars
  BY LeavingStep DEF AllPrivate
<1> QED BY <1>1, GoneAlways, PTL DEF Spec, LeavingOrphans

\* The collector, of this collection's pass or of another's, takes a sidecar whose
\* days are over; its UID has no row, and the pass has not fetched it.
LEMMA CollectedStep ==
    ASSUME Types, GoneInv, [Next]_vars, AllPrivate,
           NEW u \in Uids, sidecar[u] # "none", sidecar'[u] = "none"
    PROVE  sidecar[u] = "expired" /\ cache'[u] = None
<1>1. CASE CommitFull
  <2>1. PICK gone, mapped \in SUBSET Uids :
            /\ cache' = Without(Upserted(cache, got), gone)
            /\ sidecar' = Collected(Orphaned(Rejoined(sidecar, got), mapped))
    BY <1>1 DEF CommitFull
  <2>2. sidecar[u] = "expired" /\ got[u] = None
    BY <2>1 DEF Collected, Orphaned, Rejoined
  <2>3. cache[u] = None
    BY <2>2 DEF GoneInv, MarkedGone
  <2> QED BY <2>1, <2>2, <2>3 DEF Without, Upserted
<1>2. ASSUME NEW side, NEW gone, sidecar' = Orphaned(Rejoined(side, got), gone),
             side = sidecar
      PROVE  FALSE
  BY <1>2 DEF Orphaned, Rejoined
<1>3. CASE CommitIncremental
  BY <1>2, <1>3 DEF CommitIncremental
<1>4. CASE StoreRefreshed
  BY <1>4 DEF StoreRefreshed, Rejoined
<1>5. CASE Forget
  BY <1>5 DEF Forget, Orphaned
<1>6. ASSUME NEW v \in Uids, SetSidecar(v) \/ Expire(v) PROVE FALSE
  BY <1>6 DEF SetSidecar, Expire, Types, TypeOK
<1>7. CASE CollectElsewhere
  BY <1>7 DEF CollectElsewhere, Collected, passVars, GoneInv, MarkedGone
<1>8. CASE sidecar' = sidecar
  BY <1>8
<1> QED
  BY <1>1, <1>3, <1>4, <1>5, <1>6, <1>7, <1>8, BodiesAssumption
     DEF Next, vars, Foreign, ForeignPut, ForeignDelete, PruneToken, SyncStep, dbVars,
         StartIncremental, StartFull, FetchBatch, WriteStep, Create, Edit, RetryEdit,
         Refresh, Delete, Redelete, SidecarStep, FailSync, FailWrite

\* Where no href is reused for another UID, no full resync, of this collection or
\* of another, collects the sidecar of a cached task or one whose days are not over.
THEOREM OnlyGoneCollected == Spec => CollectedAreGone
<1>1. Types /\ SyncInv /\ GoneInv /\ [Next]_vars =>
          [(\A h \in Hrefs : Private(h)) =>
               \A u \in Uids : sidecar[u] # "none" /\ sidecar'[u] = "none" =>
                                    sidecar[u] = "expired" /\ cache'[u] = None]_vars
  BY CollectedStep DEF AllPrivate
<1> QED BY <1>1, GoneAlways, PTL DEF Spec, CollectedAreGone

\* Whenever every change is synced, the cache is the table a full resync into
\* an empty database would build.
THEOREM CacheReproducible == Spec => []CacheIsProjection
<1>1. ASSUME Types, SyncInv, GoneInv, token = "valid", dirty = {},
             \A h \in Hrefs : Private(h) /\ (wire[h] # None => Tracked(wire[h]))
      PROVE  cache = Projection(wire)
  <2> USE <1>1 DEF Types, TypeOK
  <2>1. \A h \in Hrefs : Clean(h) /\ Private(h)
    BY DEF Clean
  <2>2. ASSUME NEW u \in Uids PROVE cache[u] = Projection(wire)[u]
    <3> DEFINE P(h) == Tracked(wire[h]) /\ wire[h].uid = u
               c == CHOOSE h \in Hrefs : P(h)
    <3>1. CASE \E h \in Hrefs : P(h)
      <4>1. c \in Hrefs /\ P(c)
        <5> HIDE DEF P
        <5> QED BY <3>1
      <4>2. cache[u] = RowOf(c)
        BY <2>1, <4>1 DEF SyncInv, Covered
      <4>3. Projection(wire)[u] = [href |-> c, body |-> wire[c]]
        BY <3>1 DEF Projection
      <4> QED BY <4>2, <4>3 DEF RowOf
    <3>2. CASE ~\E h \in Hrefs : P(h)
      <4>1. Projection(wire)[u] = None
        BY <3>2 DEF Projection
      <4>2. ASSUME cache[u] # None PROVE FALSE
        <5> DEFINE h == cache[u].href
        <5>1. h \in Hrefs /\ u \in Names[h]
          BY <4>2 DEF Row, GoneInv, Named
        <5>2. u \in RowsAt(cache, h)
          BY <4>2 DEF RowsAt
        <5>3. wire[h] # None
          BY <2>1, <5>1, <5>2 DEF GoneInv, GoneForgotten
        <5>4. Tracked(wire[h]) /\ wire[h].uid \in Names[h]
          BY <5>1, <5>3 DEF GoneInv, WireNamed
        <5>5. wire[h].uid = u
          BY <2>1, <5>1, <5>4 DEF Private
        <5> QED BY <3>2, <5>1, <5>4, <5>5
      <4> QED BY <4>1, <4>2
    <3> QED BY <3>1, <3>2
  <2>3. Projection(wire) = [u \in Uids |-> Projection(wire)[u]]
    BY DEF Projection
  <2>4. cache = [u \in Uids |-> cache[u]]
    OBVIOUS
  <2> QED BY <2>2, <2>3, <2>4
<1>2. Types /\ SyncInv /\ GoneInv => CacheIsProjection
  BY <1>1 DEF CacheIsProjection
<1> QED BY <1>2, GoneAlways, PTL

=============================================================================

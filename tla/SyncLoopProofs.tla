--------------------------- MODULE SyncLoopProofs ---------------------------
(***************************************************************************)
(* Proofs about SyncLoop, for every set of collections, failing ones       *)
(* included, and every number of changes.                                  *)
(***************************************************************************)
EXTENDS SyncLoop, TLAPS

-----------------------------------------------------------------------------
(* Type correctness                                                        *)

\* The Boolean part of TypeOK, and the rest.
Flags ==
    /\ lossy \in BOOLEAN
    /\ trigger \in BOOLEAN
    /\ changed \in [Sweepers -> BOOLEAN]

Tables ==
    /\ wire \in [Cols -> Versions \cup {None}]
    /\ title \in [Cols -> Versions]
    /\ known \in [Cols -> {"absent", "live", "deleted"}]
    /\ name \in [Cols -> Versions]
    /\ cached \in [Cols -> Versions]
    /\ place \in [Sweepers -> {"boot", "bootsweep", "waiting", "discover", "sweep"}]
    /\ todo \in [Sweepers -> SUBSET Cols]
    /\ unseen \in SUBSET Cols
    /\ floor \in [Cols -> Versions \cup {None}]

\* No step stores anything but versions, places and collections.
LEMMA TablesKept == Tables /\ [Next]_vars => Tables'
<1> SUFFICES ASSUME Tables, [Next]_vars PROVE Tables'
  OBVIOUS
<1> USE BoundAssumption DEF BoundAssumption, Versions, Tables, server, rows, sweeps, Sweepers
<1>1. ASSUME NEW c \in Cols, ForeignWrite(c) PROVE Tables'
  BY <1>1 DEF ForeignWrite
<1>2. ASSUME NEW c \in Cols, ForeignCreate(c) PROVE Tables'
  BY <1>2 DEF ForeignCreate
<1>3. ASSUME NEW c \in Cols, ForeignDelete(c) PROVE Tables'
  BY <1>3 DEF ForeignDelete, Gone
<1>4. ASSUME NEW c \in Cols, ForeignRename(c) PROVE Tables'
  BY <1>4 DEF ForeignRename
<1>5. ASSUME NEW c \in Cols, UserWrite(c) PROVE Tables'
  BY <1>5 DEF UserWrite
<1>6. ASSUME NEW c \in Cols, UserCreate(c) PROVE Tables'
  BY <1>6 DEF UserCreate, EndHandler, Discovered
<1>7. ASSUME NEW cs \in SUBSET Cols, UNCHANGED wire, Proppatch(cs) PROVE Tables'
  <2>1. PICK done \in SUBSET {c \in cs : wire[c] # None /\ title[c] < MaxVersion} :
            title' = [c \in Cols |-> IF c \in done THEN title[c] + 1 ELSE title[c]]
    BY <1>7 DEF Proppatch
  <2>2. title' \in [Cols -> Versions]
    BY <2>1
  <2>3. known' \in [Cols -> {"absent", "live", "deleted"}] /\ name' \in [Cols -> Versions]
    BY <1>7, <2>2 DEF Proppatch, EndHandler, Discovered
  <2>4. unseen' \in SUBSET Cols
    BY <1>7 DEF Proppatch, EndHandler
  <2> QED BY <1>7, <2>2, <2>3, <2>4 DEF Proppatch
<1>8. ASSUME NEW c \in Cols, UserDelete(c) PROVE Tables'
  BY <1>8 DEF UserDelete, Gone, EndHandler, Discovered
<1>9. CASE Poll
  BY <1>9 DEF Poll, Wake
<1>10. CASE ManualSync
  BY <1>10 DEF ManualSync
<1>11. ASSUME NEW s \in Sweepers, Discover(s) \/ DiscoverFailed(s) \/ Announce(s) PROVE Tables'
  BY <1>11 DEF Discover, Discovered, DiscoverFailed, Announce
<1>12. ASSUME NEW s \in Sweepers, NEW c \in Cols, Pass(s, c) \/ PassFailed(s, c) PROVE Tables'
  BY <1>12 DEF Pass, PassFailed
<1>13. ASSUME Down PROVE Tables'
  BY <1>13 DEF Down
<1>14. CASE BootDiscover
  BY <1>14 DEF BootDiscover, Discovered
<1>15. ASSUME NEW c \in Cols, BootPass(c) PROVE Tables'
  BY <1>15 DEF BootPass
<1>16. CASE Serve
  BY <1>16 DEF Serve
<1>17. CASE UNCHANGED vars
  BY <1>17 DEF vars
<1>18. Live \in SUBSET Cols
  BY DEF Live
<1> QED
  BY <1>1, <1>2, <1>3, <1>4, <1>5, <1>6, <1>7, <1>8, <1>9, <1>10, <1>11, <1>12, <1>13, <1>14,
     <1>15, <1>16, <1>17, <1>18
     DEF Next, Foreign, User, UserRename, UserReorder, Sweep, Boot, BootFailed, Crash

\* Nor anything but truth values in the flags.
LEMMA FlagsKept == Flags /\ [Next]_vars => Flags'
<1> SUFFICES ASSUME Flags, [Next]_vars PROVE Flags'
  OBVIOUS
<1> USE DEF Flags, Hook, server, rows, sweeps, Sweepers
<1>1. CASE Foreign
  BY <1>1 DEF Foreign, ForeignWrite, ForeignCreate, ForeignDelete, ForeignRename
<1>2. CASE User
  BY <1>2 DEF User, UserWrite, UserCreate, UserRename, UserReorder, UserDelete, Proppatch
<1>3. CASE Poll \/ ManualSync
  BY <1>3 DEF Poll, Wake, ManualSync
<1>4. ASSUME NEW s \in Sweepers, Sweep(s) PROVE Flags'
  BY <1>4 DEF Sweep, Discover, DiscoverFailed, Pass, Changed, PassFailed, Announce
<1>5. CASE Boot \/ Crash
  BY <1>5 DEF Boot, Crash, BootDiscover, BootPass, BootFailed, Serve, Down
<1>6. CASE UNCHANGED vars
  BY <1>6 DEF vars
<1> QED BY <1>1, <1>2, <1>3, <1>4, <1>5, <1>6 DEF Next

LEMMA TypesInit == Init => TypeOK
<1> SUFFICES ASSUME Init PROVE TypeOK
  OBVIOUS
<1>1. Tables
  BY BoundAssumption DEF BoundAssumption, Init, Tables, Versions, Sweepers
<1>2. Flags
  BY DEF Init, Flags
<1> QED BY <1>1, <1>2 DEF TypeOK, Tables, Flags

\* Every reachable state has its type: the rows, the sweeps and the history, and
\* through crashes and restarts.
THEOREM TypeCorrect == Spec => []TypeOK
<1>1. TypeOK <=> Tables /\ Flags
  BY DEF TypeOK, Tables, Flags
<1>2. TypeOK' <=> Tables' /\ Flags'
  BY DEF TypeOK, Tables, Flags
<1>3. TypeOK /\ [Next]_vars => TypeOK'
  BY <1>1, <1>2, TablesKept, FlagsKept
<1> QED BY <1>3, TypesInit, PTL DEF Spec

-----------------------------------------------------------------------------
(* Bootstrap catches up                                                    *)

\* What bootstrap still owes collection c, which the server had when the process
\* started: until discover it may have no row yet; after it, it has one, and
\* either its pass is to come or its cache is as new as the server was at the
\* start.  On the server it only grows, or goes for good.
Owed(c) ==
    /\ known[c] = "absent" => place["loop"] = "boot" /\ wire[c] # None
    /\ wire[c] # None =>
           /\ wire[c] >= floor[c]
           /\ place["loop"] = "bootsweep" =>
                  known[c] = "live" /\ (c \in todo["loop"] \/ cached[c] >= floor[c])

\* While the process is down no sweep asked for by hand is under way either.
BootInv ==
    ~Up => /\ place["manual"] = "waiting"
           /\ \A c \in Cols : floor[c] # None => Owed(c)

LEMMA BootInit == Init => BootInv
  BY BoundAssumption DEF BoundAssumption, Init, BootInv, Owed, Sweepers, Versions

\* A process that ends owes exactly what the server then has.
LEMMA DownOwes == Tables /\ Down => BootInv'
  BY BoundAssumption DEF BoundAssumption, Tables, Down, BootInv, Owed, Up, Sweepers, Versions, server, rows

LEMMA BootStep == Tables /\ BootInv /\ [Next]_vars => BootInv'
<1> SUFFICES ASSUME Tables, BootInv, [Next]_vars PROVE BootInv'
  OBVIOUS
<1> USE BoundAssumption
        DEF BoundAssumption, Versions, Tables, BootInv, Owed, Up, server, rows, sweeps, Sweepers
<1>1. ASSUME NEW c \in Cols, ForeignWrite(c) PROVE BootInv'
  BY <1>1 DEF ForeignWrite
<1>2. ASSUME NEW c \in Cols, ForeignCreate(c) PROVE BootInv'
  BY <1>2 DEF ForeignCreate
<1>3. ASSUME NEW c \in Cols, ForeignDelete(c) PROVE BootInv'
  BY <1>3 DEF ForeignDelete, Gone
<1>4. ASSUME NEW c \in Cols, ForeignRename(c) PROVE BootInv'
  BY <1>4 DEF ForeignRename
<1>5. CASE User
  <2>1. UNCHANGED place
    BY <1>5 DEF User, UserWrite, UserCreate, UserRename, UserReorder, UserDelete, Proppatch
  <2>2. Up
    BY <1>5 DEF User, UserWrite, UserCreate, UserRename, UserReorder, UserDelete
  <2> QED BY <2>1, <2>2
<1>6. CASE Poll \/ ManualSync
  BY <1>6 DEF Poll, Wake, ManualSync
<1>7. ASSUME NEW s \in Sweepers, Sweep(s) PROVE BootInv'
  <2>1. Up
    BY <1>7 DEF Sweep, Discover, DiscoverFailed, Pass, PassFailed, Announce
  <2>2. Up'
    BY <1>7, <2>1 DEF Sweep, Discover, DiscoverFailed, Pass, PassFailed, Announce
  <2> QED BY <2>2
<1>8. CASE BootDiscover
  BY <1>8 DEF BootDiscover, Discovered
<1>9. ASSUME NEW c \in Cols, BootPass(c) PROVE BootInv'
  BY <1>9 DEF BootPass
<1>10. CASE BootFailed \/ Crash
  BY <1>10, DownOwes DEF BootFailed, Crash
<1>11. CASE Serve
  BY <1>11 DEF Serve
<1>12. CASE UNCHANGED vars
  BY <1>12 DEF vars
<1> QED
  BY <1>1, <1>2, <1>3, <1>4, <1>5, <1>6, <1>7, <1>8, <1>9, <1>10, <1>11, <1>12
     DEF Next, Foreign, Boot

\* Only Serve ends bootstrap, and then nothing is owed any more.
LEMMA ServesCaughtUp ==
    Tables /\ BootInv /\ [Next]_vars =>
        (~Up /\ Up' =>
            \A c \in Cols : floor[c] # None =>
                wire[c] = None \/ (known[c] = "live" /\ cached[c] >= floor[c]))
<1> SUFFICES ASSUME Tables, BootInv, [Next]_vars, ~Up, Up',
                    NEW c \in Cols, floor[c] # None, wire[c] # None
             PROVE  known[c] = "live" /\ cached[c] >= floor[c]
  OBVIOUS
<1>1. ~User /\ ~ManualSync /\ ~Poll /\ ~Crash
  BY DEF Up, User, UserWrite, UserCreate, UserRename, UserReorder, UserDelete,
         ManualSync, Poll, Wake, Crash
<1>2. ~(UNCHANGED place)
  BY DEF Up
<1>3. ~Foreign
  BY <1>2 DEF Foreign, ForeignWrite, ForeignCreate, ForeignDelete, ForeignRename, sweeps
<1>4. \A s \in Sweepers : ~Sweep(s)
  BY DEF BootInv, Up, Sweepers, Sweep, Discover, DiscoverFailed, Pass, PassFailed, Announce
<1>5. Serve
  <2>1. Boot
    BY <1>1, <1>2, <1>3, <1>4 DEF Next, vars, sweeps
  <2>2. ~BootDiscover
    BY DEF BootDiscover, Up, Tables, Sweepers
  <2>3. \A d \in Cols : ~BootPass(d)
    BY <1>2 DEF BootPass
  <2>4. ~BootFailed
    BY DEF BootFailed, Down, Up, Sweepers
  <2> QED BY <2>1, <2>2, <2>3, <2>4 DEF Boot
<1> QED
  BY <1>5 DEF Serve, BootInv, Owed, Up

\* Whoever is served sees at least what the server held when the process started,
\* for any number of collections that fail or disappear while it starts.
THEOREM BootstrapCatchesUp == Spec => FreshStart
<1>1. TypeOK => Tables
  BY DEF TypeOK, Tables
<1>2. TypeOK /\ BootInv /\ [Next]_vars => BootInv'
  BY <1>1, BootStep
<1>3. TypeOK /\ BootInv /\ [Next]_vars =>
          [~Up /\ Up' =>
              \A c \in Cols : floor[c] # None =>
                  wire[c] = None \/ (known[c] = "live" /\ cached[c] >= floor[c])]_vars
  BY <1>1, ServesCaughtUp
<1> QED BY <1>2, <1>3, BootInit, TypeCorrect, PTL DEF Spec, FreshStart

-----------------------------------------------------------------------------
(* What the liveness properties rest on.  That a sweep goes on and ends is *)
(* fairness; that it is a sweep that owes what has to happen is safety.    *)

\* A change in the cache that no event has told of yet is one that a running sweep
\* knows of, and will announce when it ends.
Announcing == unseen # {} => \E s \in Sweepers : place[s] = "sweep" /\ changed[s]

LEMMA AnnouncingStep == Tables /\ Flags /\ Announcing /\ [Next]_vars => Announcing'
<1> SUFFICES ASSUME Tables, Flags, Announcing, [Next]_vars PROVE Announcing'
  OBVIOUS
<1> USE DEF Tables, Flags, server, rows, sweeps, Sweepers
<1>1. CASE Foreign
  BY <1>1 DEF Foreign, ForeignWrite, ForeignCreate, ForeignDelete, ForeignRename, Announcing
<1>2. CASE User
  <2>1. UNCHANGED <<place, changed>> /\ unseen' \in {{}, unseen}
    BY <1>2 DEF User, UserWrite, UserCreate, UserRename, UserReorder, UserDelete, Proppatch,
                EndHandler
  <2> QED BY <2>1 DEF Announcing
<1>3. CASE Poll \/ ManualSync
  BY <1>3 DEF Poll, Wake, ManualSync, Announcing
<1>4. ASSUME NEW s \in Sweepers, Discover(s) \/ DiscoverFailed(s) PROVE Announcing'
  BY <1>4 DEF Discover, DiscoverFailed, Announcing
<1>5. ASSUME NEW s \in Sweepers, NEW c \in Cols, Pass(s, c) PROVE Announcing'
  <2>1. CASE wire[c] = None \/ cached[c] = wire[c]
    BY <1>5, <2>1 DEF Pass, Changed, Announcing
  <2>2. CASE wire[c] # None /\ cached[c] # wire[c]
    <3>1. place'[s] = "sweep" /\ changed'[s]
      BY <1>5, <2>2 DEF Pass, Changed
    <3> QED BY <3>1 DEF Announcing
  <2> QED BY <2>1, <2>2
<1>6. ASSUME NEW s \in Sweepers, NEW c \in Cols, PassFailed(s, c) PROVE Announcing'
  BY <1>6 DEF PassFailed, Announcing
<1>7. ASSUME NEW s \in Sweepers, Announce(s) PROVE Announcing'
  <2>1. CASE changed[s]
    BY <1>7, <2>1 DEF Announce, Announcing
  <2>2. CASE ~changed[s]
    BY <1>7, <2>2 DEF Announce, Announcing
  <2> QED BY <2>1, <2>2
<1>8. CASE BootDiscover \/ Serve \/ \E c \in Cols : BootPass(c)
  BY <1>8 DEF BootDiscover, Serve, BootPass, Announcing
<1>9. CASE BootFailed \/ Crash
  BY <1>9 DEF BootFailed, Crash, Down, Announcing
<1>10. CASE UNCHANGED vars
  BY <1>10 DEF vars, Announcing
<1> QED
  BY <1>1, <1>2, <1>3, <1>4, <1>5, <1>6, <1>7, <1>8, <1>9, <1>10 DEF Next, Sweep, Boot

\* No change is left that nobody will announce, though the two sweeps share the
\* passes and either may end first (sync_all, _publish); this is the safety part of
\* ChangesAnnounced.
THEOREM EventIsOwed == Spec => []Announcing
<1>1. Init => Announcing
  BY DEF Init, Announcing
<1>2. TypeOK => Tables /\ Flags
  BY DEF TypeOK, Tables, Flags
<1>3. TypeOK /\ Announcing /\ [Next]_vars => Announcing'
  BY <1>2, AnnouncingStep
<1> QED BY <1>1, <1>3, TypeCorrect, PTL DEF Spec

\* The loop is to make a pass over c, and has not begun it.
Due(c) == \/ trigger \/ place["loop"] = "discover"
          \/ place["loop"] = "sweep" /\ c \in todo["loop"]

\* Version v of c is on the server, and cached or due.
Coming(c, v) == wire[c] = v /\ (cached[c] = v \/ Due(c))

\* Where hooks and requests do not fail, what the hook has told of stays due until it is
\* cached, whatever other collections do.
WakeUpKept ==
    [][\A c \in Cols \ Failing, v \in Versions :
           ~lossy /\ Up /\ Coming(c, v) => Coming(c, v)' \/ wire'[c] # v \/ ~Up']_vars

LEMMA ComingStep ==
    ASSUME Tables, [Next]_vars, NEW c \in Cols \ Failing, NEW v \in Versions,
           ~lossy, Up, Coming(c, v), wire'[c] = v, Up'
    PROVE  Coming(c, v)'
<1> USE BoundAssumption DEF BoundAssumption, Tables, Coming, Due, server, rows, sweeps, Sweepers
<1>0. v # None /\ wire[c] = v
  OBVIOUS
<1>1. ASSUME UNCHANGED <<cached, place, todo>>, trigger => trigger' PROVE Coming(c, v)'
  BY <1>1
<1>2. CASE Foreign
  BY <1>1, <1>2 DEF Foreign, ForeignWrite, ForeignCreate, ForeignDelete, ForeignRename, Hook
<1>3. ASSUME NEW d \in Cols, UserWrite(d) PROVE Coming(c, v)'
  <2>1. d # c
    BY <1>0, <1>3 DEF UserWrite, Versions
  <2> QED BY <1>3, <2>1 DEF UserWrite, Hook
<1>4. CASE User /\ \A d \in Cols : ~UserWrite(d)
  <2>1. UNCHANGED <<cached, place, todo>>
    BY <1>4 DEF User, UserCreate, UserRename, UserReorder, UserDelete, Proppatch
  <2>2. trigger => trigger'
    BY <1>4 DEF User, UserCreate, UserRename, UserReorder, UserDelete, Proppatch, Hook
  <2> QED BY <1>1, <2>1, <2>2
<1>5. CASE Poll
  BY <1>5 DEF Poll, Wake
<1>6. CASE ManualSync
  BY <1>6 DEF ManualSync
<1>7. ASSUME NEW s \in Sweepers, Discover(s) PROVE Coming(c, v)'
  <2>1. known'[c] = "live"
    BY <1>0, <1>7 DEF Discover, Discovered
  <2> QED BY <1>7, <2>1 DEF Discover
<1>8. ASSUME NEW s \in Sweepers, DiscoverFailed(s) PROVE Coming(c, v)'
  BY <1>8 DEF DiscoverFailed
<1>9. ASSUME NEW s \in Sweepers, NEW d \in Cols, Pass(s, d) PROVE Coming(c, v)'
  <2>1. CASE d = c
    BY <1>0, <1>9, <2>1 DEF Pass
  <2>2. CASE d # c
    BY <1>9, <2>2 DEF Pass
  <2> QED BY <2>1, <2>2
<1>10. ASSUME NEW s \in Sweepers, NEW d \in Cols, PassFailed(s, d) PROVE Coming(c, v)'
  <2>1. d # c
    BY <1>10 DEF PassFailed, MayFail
  <2> QED BY <1>10, <2>1 DEF PassFailed
<1>11. ASSUME NEW s \in Sweepers, Announce(s) PROVE Coming(c, v)'
  BY <1>11 DEF Announce
<1>12. ~Boot /\ ~Crash
  BY DEF Boot, BootDiscover, BootPass, BootFailed, Serve, Crash, Down, Up
<1>13. CASE UNCHANGED vars
  BY <1>1, <1>13 DEF vars
<1> QED
  BY <1>2, <1>3, <1>4, <1>5, <1>6, <1>7, <1>8, <1>9, <1>10, <1>11, <1>12, <1>13 DEF Next, Sweep

\* A wake-up is never dropped: not by the clear before the sweep, not behind a pass that
\* has already been made, and not by the failures of others (_sync_loop, sync_all); this
\* is the safety part of HookSuffices.
THEOREM NoWakeUpDropped == Spec => WakeUpKept
<1>1. TypeOK => Tables
  BY DEF TypeOK, Tables
<1>2. TypeOK /\ [Next]_vars =>
          [\A c \in Cols \ Failing, v \in Versions :
               ~lossy /\ Up /\ Coming(c, v) => Coming(c, v)' \/ wire'[c] # v \/ ~Up']_vars
  BY <1>1, ComingStep DEF Coming
<1> QED BY <1>2, TypeCorrect, PTL DEF Spec, WakeUpKept

\* What has been mirrored stays so until somebody changes the collection: its name, its
\* content, or whether it exists.
MirrorKept ==
    [][\A c \in Cols :
           Mirrored(c) => Mirrored(c)' \/ wire'[c] # wire[c] \/ title'[c] # title[c]]_vars

LEMMA MirrorStep ==
    ASSUME Tables, [Next]_vars, NEW c \in Cols, Mirrored(c),
           wire'[c] = wire[c], title'[c] = title[c]
    PROVE  Mirrored(c)'
<1> USE BoundAssumption DEF BoundAssumption, Tables, Mirrored, server, rows, sweeps, Sweepers
<1>1. CASE UNCHANGED <<known, name, cached>>
  BY <1>1
<1>2. CASE Discovered /\ UNCHANGED cached
  BY <1>2 DEF Discovered
<1>3. ASSUME NEW d \in Cols, UserWrite(d) PROVE Mirrored(c)'
  <2>1. d # c
    BY <1>3 DEF UserWrite, Versions
  <2> QED BY <1>3, <2>1 DEF UserWrite
<1>4. ASSUME NEW d \in Cols, NEW s \in Sweepers, Pass(s, d) PROVE Mirrored(c)'
  BY <1>4 DEF Pass
<1>5. ASSUME NEW d \in Cols, BootPass(d) PROVE Mirrored(c)'
  BY <1>5 DEF BootPass
<1>6. CASE Foreign
  BY <1>1, <1>6 DEF Foreign, ForeignWrite, ForeignCreate, ForeignDelete, ForeignRename
<1>7. CASE User /\ \A d \in Cols : ~UserWrite(d)
  BY <1>1, <1>2, <1>7
     DEF User, UserCreate, UserRename, UserReorder, UserDelete, Proppatch, EndHandler
<1>8. CASE Poll \/ ManualSync
  BY <1>1, <1>8 DEF Poll, Wake, ManualSync
<1>9. ASSUME NEW s \in Sweepers, Sweep(s), \A d \in Cols : ~Pass(s, d) PROVE Mirrored(c)'
  BY <1>1, <1>2, <1>9 DEF Sweep, Discover, DiscoverFailed, PassFailed, Announce
<1>10. CASE Crash \/ (Boot /\ \A d \in Cols : ~BootPass(d))
  BY <1>1, <1>2, <1>10 DEF Crash, Boot, BootDiscover, BootFailed, Serve, Down
<1>11. CASE UNCHANGED vars
  BY <1>1, <1>11 DEF vars
<1> QED
  BY <1>3, <1>4, <1>5, <1>6, <1>7, <1>8, <1>9, <1>10, <1>11 DEF Next, User

\* No pass, no discovery, no handler for another collection and no restart undoes what is
\* mirrored (sync_all, discover, bootstrap); this is the safety part of PollSuffices.
THEOREM MirrorStays == Spec => MirrorKept
<1>1. TypeOK => Tables
  BY DEF TypeOK, Tables
<1>2. TypeOK /\ [Next]_vars =>
          [\A c \in Cols :
               Mirrored(c) => Mirrored(c)' \/ wire'[c] # wire[c] \/ title'[c] # title[c]]_vars
  BY <1>1, MirrorStep
<1> QED BY <1>2, TypeCorrect, PTL DEF Spec, MirrorKept

=============================================================================

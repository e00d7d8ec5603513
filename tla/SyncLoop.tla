------------------------------ MODULE SyncLoop ------------------------------
(***************************************************************************)
(* The sync of all collections: _sync_loop, the change hook and the manual *)
(* sync of backend/tasksd/app.py; bootstrap, sync_all, _publish and the    *)
(* handlers for collections of backend/tasksd/service.py; discover of      *)
(* backend/tasksd/sync/engine.py.                                          *)
(*                                                                         *)
(* One pass over one collection is a single step here (SyncEngine has its  *)
(* requests and its transaction); between passes the lock is free, and     *)
(* users' handlers, another sweep and foreign writes come in.  The process *)
(* may be stopped at any moment and is started again, and a bootstrap that *)
(* fails ends it; only the database outlives it.  The content of a         *)
(* collection and its properties are represented by version numbers.       *)
(***************************************************************************)
EXTENDS Naturals

CONSTANTS
    Cols,       \* collections
    Failing,    \* those whose sync passes may fail all the time
    MaxVersion, \* bound: changes of a collection
    None

Versions == 0 .. MaxVersion

ASSUME ColsAssumption  == Failing \subseteq Cols
ASSUME BoundAssumption == MaxVersion \in Nat /\ None \notin Versions

VARIABLES
    lossy,      \* hooks may get lost, and any request may fail
    wire,       \* wire[c]: the content of c on the server, or None
    title,      \* title[c]: its displayname, color and order there
    known,      \* known[c]: its row in collections: "absent", "live", "deleted"
    name,       \* name[c]: the properties in that row
    cached,     \* cached[c]: the content of c in the cache
    trigger,    \* sync_trigger is set
    place,      \* place[s]: where sweeper s is
    todo,       \* todo[s]: collections its running sweep has still to visit
    changed,    \* changed[s]: some pass of the sweep upserted or removed something
    unseen,     \* history: collections changed in the cache since an event was sent
    floor       \* history: until the app serves, wire as it was when the process started

server == <<lossy, wire, title>>
rows   == <<known, name>>
sweeps == <<place, todo, changed>>
vars   == <<server, rows, cached, trigger, sweeps, unseen, floor>>

\* The two callers of sync_all: _sync_loop, and POST /api/sync.
Sweepers == {"loop", "manual"}

Live == {c \in Cols : known[c] = "live"}

\* Requests are accepted once bootstrap is over.
Up == place["loop"] \notin {"boot", "bootsweep"}

-----------------------------------------------------------------------------
(* The server, its other clients and its storage hook                      *)

MayFail == IF lossy THEN Cols ELSE Failing

\* A write on the server; the hook tells the app, if that is up and the call
\* gets through.
Hook ==
    \/ Up /\ trigger' = TRUE
    \/ (lossy \/ ~Up) /\ UNCHANGED trigger

ForeignWrite(c) ==
    /\ wire[c] # None
    /\ wire[c] < MaxVersion
    /\ wire' = [wire EXCEPT ![c] = @ + 1]
    /\ Hook
    /\ UNCHANGED <<lossy, title, rows, cached, sweeps, unseen, floor>>

\* MKCALENDAR; a collection that was deleted does not come back.
ForeignCreate(c) ==
    /\ wire[c] = None
    /\ known[c] = "absent"
    /\ wire' = [wire EXCEPT ![c] = 0]
    /\ Hook
    /\ UNCHANGED <<lossy, title, rows, cached, sweeps, unseen, floor>>

\* DELETE takes the properties along; and it may find nothing.
Gone(c) ==
    /\ wire' = [wire EXCEPT ![c] = None]
    /\ title' = [title EXCEPT ![c] = 0]

ForeignDelete(c) ==
    /\ wire[c] # None
    /\ known[c] = "live"
    /\ Gone(c)
    /\ Hook
    /\ UNCHANGED <<lossy, rows, cached, sweeps, unseen, floor>>

\* PROPPATCH of the displayname.
ForeignRename(c) ==
    /\ wire[c] # None
    /\ title[c] < MaxVersion
    /\ title' = [title EXCEPT ![c] = @ + 1]
    /\ Hook
    /\ UNCHANGED <<lossy, wire, rows, cached, sweeps, unseen, floor>>

-----------------------------------------------------------------------------
(* discover                                                                *)

\* upsert_collection for what the server lists, mark_collection_deleted for
\* the rows it does not list.  (Primed: within a handler, after its write.)
Discovered ==
    /\ known' = [c \in Cols |-> IF wire'[c] # None THEN "live"
                                ELSE IF known[c] = "live" THEN "deleted" ELSE known[c]]
    /\ name' = [c \in Cols |-> IF wire'[c] # None THEN title'[c] ELSE name[c]]

-----------------------------------------------------------------------------
(* Users' handlers                                                         *)

\* A task created, edited or deleted through the app, which takes the lock
\* between two passes, and its event.
UserWrite(c) ==
    /\ Up
    /\ c \in Live
    /\ wire[c] # None
    /\ wire[c] < MaxVersion
    /\ wire' = [wire EXCEPT ![c] = @ + 1]
    /\ cached' = IF cached[c] = wire[c] THEN [cached EXCEPT ![c] = @ + 1] ELSE cached
    /\ unseen' = {}
    /\ Hook
    /\ UNCHANGED <<lossy, title, rows, sweeps, floor>>

\* A handler for collections ends with discover and its event, or fails there.
EndHandler ==
    \/ Discovered /\ unseen' = {}
    \/ lossy /\ UNCHANGED <<rows, unseen>>

\* _create_collection: MKCALENDAR at a fresh href, then discover and the event,
\* unless discover fails.
UserCreate(c) ==
    /\ Up
    /\ wire[c] = None
    /\ known[c] = "absent"
    /\ wire' = [wire EXCEPT ![c] = 0]
    /\ UNCHANGED title
    /\ EndHandler
    /\ Hook
    /\ UNCHANGED <<lossy, cached, sweeps, floor>>

\* PROPPATCHes of the collections cs, one after the other; the first one that
\* fails, or whose collection is gone, ends the handler.
Proppatch(cs) ==
    /\ \E done \in SUBSET {c \in cs : wire[c] # None /\ title[c] < MaxVersion} :
           /\ title' = [c \in Cols |-> IF c \in done THEN title[c] + 1 ELSE title[c]]
           /\ IF done = cs THEN EndHandler
              ELSE /\ lossy \/ \E c \in cs : wire[c] = None
                   /\ UNCHANGED <<rows, unseen>>
           /\ IF done = {} THEN UNCHANGED trigger ELSE Hook
    /\ UNCHANGED <<lossy, wire, cached, sweeps, floor>>

\* update_collection and reorder_collections.
UserRename(c) == Up /\ c \in Live /\ UNCHANGED wire /\ Proppatch({c})

UserReorder == Up /\ Live # {} /\ UNCHANGED wire /\ Proppatch(Live)

\* delete_collection: 404 counts as success.
UserDelete(c) ==
    /\ Up
    /\ c \in Live
    /\ Gone(c)
    /\ EndHandler
    /\ IF wire[c] = None THEN UNCHANGED trigger ELSE Hook
    /\ UNCHANGED <<lossy, cached, sweeps, floor>>

-----------------------------------------------------------------------------
(* _sync_loop and sync_all                                                 *)

\* The hook set the event, or the poll interval is over.  The event is cleared
\* before the sweep starts.
Wake ==
    /\ place["loop"] = "waiting"
    /\ place' = [place EXCEPT !["loop"] = "discover"]
    /\ trigger' = FALSE
    /\ UNCHANGED <<server, rows, cached, todo, changed, unseen, floor>>

WakeByHook == trigger /\ Wake

Poll == Wake

\* POST /api/sync, one at a time.
ManualSync ==
    /\ Up
    /\ place["manual"] = "waiting"
    /\ place' = [place EXCEPT !["manual"] = "discover"]
    /\ UNCHANGED <<server, rows, cached, trigger, todo, changed, unseen, floor>>

Discover(s) ==
    /\ place[s] = "discover"
    /\ UNCHANGED server
    /\ Discovered
    /\ place' = [place EXCEPT ![s] = "sweep"]
    /\ todo' = [todo EXCEPT ![s] = {c \in Cols : known'[c] = "live"}]
    /\ UNCHANGED <<cached, trigger, changed, unseen, floor>>

\* Mutated form: the exception leaves the loop.
DiscoverFailedDead(s) ==
    /\ place[s] = "discover"
    /\ lossy
    /\ place' = [place EXCEPT ![s] = "dead"]
    /\ UNCHANGED <<server, rows, cached, trigger, todo, changed, unseen, floor>>

\* It raises; the loop logs it and waits again, the route answers with it.
DiscoverFailed(s) ==
    /\ place[s] = "discover"
    /\ lossy
    /\ place' = [place EXCEPT ![s] = "waiting"]
    /\ UNCHANGED <<server, rows, cached, trigger, todo, changed, unseen, floor>>

\* Mutated form: only the last pass counts.
ChangedLast(s, c) == changed' = [changed EXCEPT ![s] = cached[c] # wire[c]]

Changed(s, c) == changed' = [changed EXCEPT ![s] = @ \/ cached[c] # wire[c]]

\* One pass, under the lock.  A collection that is gone is left to the next
\* discover.
Pass(s, c) ==
    /\ place[s] = "sweep"
    /\ c \in todo[s]
    /\ todo' = [todo EXCEPT ![s] = @ \ {c}]
    /\ IF wire[c] = None
       THEN UNCHANGED <<cached, changed, unseen>>
       ELSE /\ cached' = [cached EXCEPT ![c] = wire[c]]
            /\ Changed(s, c)
            /\ unseen' = IF cached[c] # wire[c] THEN unseen \cup {c} ELSE unseen
    /\ UNCHANGED <<server, rows, trigger, place, floor>>

\* Mutated form: a failing collection ends the sweep.
PassFailedStops(s, c) ==
    /\ place[s] = "sweep"
    /\ c \in todo[s] \cap MayFail
    /\ place' = [place EXCEPT ![s] = "waiting"]
    /\ todo' = [todo EXCEPT ![s] = {}]
    /\ changed' = [changed EXCEPT ![s] = FALSE]
    /\ UNCHANGED <<server, rows, cached, trigger, unseen, floor>>

\* A pass that fails is recorded in last_error, and the sweep goes on.
PassFailed(s, c) ==
    /\ place[s] = "sweep"
    /\ c \in todo[s] \cap MayFail
    /\ todo' = [todo EXCEPT ![s] = @ \ {c}]
    /\ UNCHANGED <<server, rows, cached, trigger, place, changed, unseen, floor>>

\* The sweep is over: one event, if anything changed in the cache.
Announce(s) ==
    /\ place[s] = "sweep"
    /\ todo[s] = {}
    /\ place' = [place EXCEPT ![s] = "waiting"]
    /\ unseen' = IF changed[s] THEN {} ELSE unseen
    /\ changed' = [changed EXCEPT ![s] = FALSE]
    /\ UNCHANGED <<server, rows, cached, trigger, todo, floor>>

-----------------------------------------------------------------------------
(* The process: bootstrap, and its end                                     *)

\* What the process held in memory is gone, an event not yet sent included, and
\* systemd starts it again.
Down ==
    /\ place' = [s \in Sweepers |-> IF s = "loop" THEN "boot" ELSE "waiting"]
    /\ trigger' = FALSE
    /\ todo' = [s \in Sweepers |-> {}]
    /\ changed' = [s \in Sweepers |-> FALSE]
    /\ unseen' = {}
    /\ floor' = wire
    /\ UNCHANGED <<server, rows, cached>>

\* Stopped between any two steps, for an update or by a crash.
Crash == Up /\ Down

\* bootstrap: discover, then a pass over every collection, and nobody listens.
BootDiscover ==
    /\ place["loop"] = "boot"
    /\ UNCHANGED server
    /\ Discovered
    /\ place' = [place EXCEPT !["loop"] = "bootsweep"]
    /\ todo' = [todo EXCEPT !["loop"] = {c \in Cols : known'[c] = "live"}]
    /\ UNCHANGED <<cached, trigger, changed, unseen, floor>>

BootPass(c) ==
    /\ place["loop"] = "bootsweep"
    /\ c \in todo["loop"]
    /\ wire[c] # None
    /\ cached' = [cached EXCEPT ![c] = wire[c]]
    /\ todo' = [todo EXCEPT !["loop"] = @ \ {c}]
    /\ UNCHANGED <<server, rows, trigger, place, changed, unseen, floor>>

\* Mutated form: a collection that fails is left out, as in sync_all.
BootFailedSkips ==
    /\ place["loop"] = "bootsweep"
    /\ \E c \in todo["loop"] :
           /\ wire[c] = None \/ c \in MayFail
           /\ todo' = [todo EXCEPT !["loop"] = @ \ {c}]
    /\ UNCHANGED <<server, rows, cached, trigger, place, changed, unseen, floor>>

\* Nothing isolates the collections here: an exception anywhere, that of a
\* collection deleted since discover included, ends the process.
BootFailed ==
    /\ \/ place["loop"] = "boot" /\ lossy
       \/ /\ place["loop"] = "bootsweep"
          /\ \E c \in todo["loop"] : wire[c] = None \/ c \in MayFail
    /\ Down

\* The app starts to listen, and the loop to wait.
Serve ==
    /\ place["loop"] = "bootsweep"
    /\ todo["loop"] = {}
    /\ place' = [place EXCEPT !["loop"] = "waiting"]
    /\ floor' = [c \in Cols |-> None]
    /\ UNCHANGED <<server, rows, cached, trigger, todo, changed, unseen>>

Init ==
    /\ lossy \in BOOLEAN
    /\ wire \in [Cols -> {None, 0}]
    /\ title = [c \in Cols |-> 0]
    /\ known = [c \in Cols |-> "absent"]
    /\ name = title
    /\ cached = [c \in Cols |-> 0]
    /\ trigger = FALSE
    /\ place = [s \in Sweepers |-> IF s = "loop" THEN "boot" ELSE "waiting"]
    /\ todo = [s \in Sweepers |-> {}]
    /\ changed = [s \in Sweepers |-> FALSE]
    /\ unseen = {}
    /\ floor = wire

Foreign ==
    \E c \in Cols : ForeignWrite(c) \/ ForeignCreate(c) \/ ForeignDelete(c) \/ ForeignRename(c)

User ==
    \/ \E c \in Cols : UserWrite(c) \/ UserCreate(c) \/ UserRename(c) \/ UserDelete(c)
    \/ UserReorder

Sweep(s) ==
    \/ Discover(s)
    \/ DiscoverFailed(s)
    \/ \E c \in Cols : Pass(s, c) \/ PassFailed(s, c)
    \/ Announce(s)

Boot == BootDiscover \/ (\E c \in Cols : BootPass(c)) \/ BootFailed \/ Serve

Next ==
    \/ Foreign \/ User
    \/ Poll \/ ManualSync \/ \E s \in Sweepers : Sweep(s)
    \/ Boot \/ Crash

Spec == Init /\ [][Next]_vars

\* Sweeps and bootstraps go on, and the wake-up by the hook is fair.  Where
\* hooks get lost and requests fail, the poll interval passes again and again,
\* and neither failures nor the end of the process strike every attempt; where
\* neither happens the poll need not come and the Failing collections may fail
\* for ever.  Nobody need ask for a sync.
Fairness ==
    /\ WF_vars(Boot)
    /\ SF_vars(WakeByHook)
    /\ \A s \in Sweepers : WF_vars(Sweep(s))
    /\ \A c \in Cols \ Failing : SF_vars(Pass("loop", c))
    /\ SF_vars(lossy /\ Poll)
    /\ SF_vars(lossy /\ (Discover("loop") \/ BootDiscover))
    /\ \A c \in Cols : SF_vars(lossy /\ (Pass("loop", c) \/ BootPass(c)))

FairSpec == Spec /\ Fairness

-----------------------------------------------------------------------------
(* Properties                                                              *)

TypeOK ==
    /\ lossy \in BOOLEAN
    /\ wire \in [Cols -> Versions \cup {None}]
    /\ title \in [Cols -> Versions]
    /\ known \in [Cols -> {"absent", "live", "deleted"}]
    /\ name \in [Cols -> Versions]
    /\ cached \in [Cols -> Versions]
    /\ trigger \in BOOLEAN
    /\ place \in [Sweepers -> {"boot", "bootsweep", "waiting", "discover", "sweep"}]
    /\ todo \in [Sweepers -> SUBSET Cols]
    /\ changed \in [Sweepers -> BOOLEAN]
    /\ unseen \in SUBSET Cols
    /\ floor \in [Cols -> Versions \cup {None}]

\* No wake-up is lost while the process lives: even if the poll interval never
\* ended, what the server holds when the event is set is synced sooner or later,
\* a write that falls into a running sweep behind the collection's pass included,
\* and however often the passes over other collections fail.
HookSuffices ==
    \A c \in Cols \ Failing, v \in Versions :
        ~lossy /\ trigger /\ wire[c] = v ~> cached[c] = v \/ wire[c] # v \/ ~Up

Mirrored(c) ==
    IF wire[c] = None THEN known[c] # "live"
    ELSE known[c] = "live" /\ name[c] = title[c] /\ cached[c] = wire[c]

\* The poll alone suffices: with hooks lost, with discoveries, passes,
\* bootstraps and users' handlers that fail half-way, and with the process
\* stopped again and again, a collection that is left alone for long enough is
\* mirrored, its existence, its properties and its content.  (Changes are
\* bounded, so each collection is left alone in the end.)
PollSuffices == \A c \in Cols : []<>(lossy => Mirrored(c))

\* What a sweep changes in the cache is announced to the tabs, whichever
\* collection of the sweep it was, whichever others failed, and though two
\* sweeps share the work; unless the process ends first (Down forgets unseen:
\* nobody announces the changes of an unfinished sweep or of a bootstrap).
ChangesAnnounced == \A c \in Cols : c \in unseen ~> c \notin unseen

\* Whoever is served sees at least what the server held when the process
\* started: the hooks of writes made while it was down are lost, and bootstrap
\* makes up for every one of them before the first request is accepted.
FreshStart ==
    [][~Up /\ Up' =>
           \A c \in Cols : floor[c] # None =>
               wire[c] = None \/ (known[c] = "live" /\ cached[c] >= floor[c])]_vars

=============================================================================

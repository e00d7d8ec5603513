# TLA+ verification of tasksd

tasksd is a web application for tasks and calendars over a CalDAV server
(Radicale). The CalDAV server is the only source of truth. A SQLite database
holds a disposable cache of it, and beside the cache a *sidecar* that is not
disposable: kanban columns, pins and the like. Other CalDAV clients write to
the same server at any time and know nothing of tasksd.

This directory models the parts of tasksd where that arrangement can go wrong,
checks them with TLC on small instances, and proves with TLAPS, for every value of the
constants, what matters most about the sync engine and its write handlers, the loop, the
bookings, the limiter, the task view, the settings and the edits of recurring events. Paths
below are relative to `src/`.

## 1. Inventory

Every component, the state it keeps, what it does, whom it talks to, and what
makes it correct. `PROJECT.json` has the same list with its sources, and the
list of hazards, each at its line.

| Component | State | Operations | Hard behaviour |
|---|---|---|---|
| Sync engine, read path (`sync/engine.py`, `db/store.py`) | `sync_state` (token, last error), `items` | incremental pass, full resync, multiget in batches, one transaction at the end | foreign writes between the requests; invalid tokens; crashes before the transaction; bodies that do not parse |
| Sync engine, write path | server resource, cached row, etag | create, edit, delete, move, split, override, shift, exclude | 412 and the one retry; the cached row is as old as the last sync; handlers of several writes cut off in the middle |
| Sidecar | `sidecar.orphaned_at` | set, orphan, re-adopt, collect after seven days | deletion and recreation under another name, in the same pass or across passes; a collector that runs with the full resync of any collection |
| Background loop and change hook (`app.py`, `service.py`, `deploy/tasks-notify`) | `sync_trigger`, collections table | bootstrap, wait for hook or interval, discover, a pass per collection, publish | a hook that fires during a sweep; lost hooks; a collection that keeps failing; a process that ends between two passes, or in its bootstrap |
| Service façade (`service.py`) | the lock, subscribers | the handlers of the routes; publish after the commit | lock released between the write and the DTO that answers |
| Live updates and task view (`App.tsx`, `api.ts`, `TasksView.tsx`) | fetch token, optimistic rows and stand-ins, debounce timer | fetch all lists, optimistic edit, creation and removal, settle or roll back, SSE | answers out of order; fetches that fail; a stream that drops; fetches that read before a write and land after it |
| Booking (`service.py`, `db/store.py`) | `booking_links`, `bookings` | validate, write the event, record in the ledger, replay by `client_id` | a crash between the event and the ledger; two links with other durations and calendars; the owner's own clients |
| Slot generation (`scheduling.py`, range query in `store.py`) | none | parse availability, merge, pad, clip, scan, generate | boundaries; two callers that read different windows; the cap on an expansion |
| Recurrence (`ical/edit.py`, `ical/recur.py`) | the VEVENTs of a resource | override, exclude, shift, split, truncate, expand | COUNT, UNTIL, EXDATE, RDATE and overrides must keep meaning the same occurrences |
| Rate limiting (`auth.py`, `app.py`) | failures and lockouts per key | allowed, record, sweep | hashing between check and record; sweeps that forget too much or too little; lockouts that clear the failures they came from |
| Calendar grid (`CalendarView.tsx`) | optimistic events | fetch a range, edit, create, remove, roll back, SSE | the same races, and fetches without a token |
| Collections (`service.py`, `store.py`) | collections table | create, rename, reorder, delete, discover | several requests of one handler, of which one fails |
| Sidebar and settings (`Sidebar.tsx`, `TasksView.tsx`, `CalendarView.tsx`, `App.tsx`, `store.py`) | the rail of lists or calendars, what is hidden, groups, archived calendars, the settings blob | toggle, group, archive, restore, create, remove, prune, patch | requests that overtake one another; pruning by a rail that is out of date; several tabs that overwrite each other |
| Sessions, password hashing, Cloudflare Access (`auth.py`, `access.py`) | none | verify | none: stateless checks |
| CalDAV client and XML (`dav/`) | none | conditional requests, parsing | error mapping, modelled where the engine uses it |
| iCalendar reading (`ical/read.py`) | none | extract fields | parses or not, tracked or not |
| Routes, configuration, entry point | none | parse, validate, map errors to statuses | none of their own |

How they interact: routes call the service; the service holds one lock around
every engine or store call, so handlers and sync passes never overlap, but the
lock does not reach the CalDAV server. After a commit, the service publishes an
event to the SSE queues; each tab debounces it and fetches its lists again. The
loop calls `sync_all`, which takes the lock per collection, so that users'
handlers run between two passes. Bookings go through the service like any
other write. The hook of the CalDAV server wakes the loop.

What makes them correct, in a sentence each:

- read path: the cache agrees with the server wherever the stored token
  says that nothing changed, and polling brings everything over in the end;
- write path: no handler, wherever it is cut off, loses a change or an
  occurrence that nobody asked to delete;
- sidecar: it survives as long as its task does, and is collected only after;
- loop: no wake-up is lost, one failing collection stops nobody else, and a restart
  catches up before anybody is served;
- live updates: a tab shows what it was told of and what it wrote, if its last fetch has not failed;
- booking: no time is confirmed to two clients, and no request twice;
- slots: what is offered is free, and can be booked, up to the cap on an expansion;
- recurrence: an edit changes the occurrences it is meant to, and no others;
- sidebar: what is stored is what is shown, and pruning takes only what is gone, as long as
  nothing overtakes anything else;
- limiter: the rate is kept (where a lockout lasts a window), refusals have a cause, memory is
  bounded.

## 2. Modules

| Module | Models | Lines of interest |
|---|---|---|
| `SyncEngine` | one collection: server, cache, sidecar, and passes and write handlers request by request | `sync/engine.py`, `db/store.py` |
| `SyncEngineProofs` | theorems about `SyncEngine` | |
| `WritePath` | one event, its copies and the tails of its splits, under create, edit, delete, move, split and truncate, request by request | `sync/engine.py:161-361` |
| `WritePathProofs` | theorems about `WritePath` | |
| `SyncLoop` | all collections and the handlers for them, the loop, the hook, the sync by hand and discovery, bootstrap and the end of the process; a pass is one step | `app.py:365-378`, `app.py:446-460`, `service.py:103-133`, `service.py:276-330` |
| `SyncLoopProofs` | theorems about `SyncLoop` | |
| `LiveView` | a tab with the task view or the calendar grid: event stream, debounce, fetches with and without tokens, optimistic edits, creations and removals | `TasksView.tsx:70-212`, `CalendarView.tsx:95-230`, `service.py:95-100` |
| `LiveViewProofs` | theorems about `LiveView` | |
| `Sidebar` | a tab's rail of lists or calendars and its settings: visibility, groups, archived calendars, pruning, the settings blob | `TasksView.tsx:43-68`, `CalendarView.tsx:86-99,279-284`, `Sidebar.tsx`, `ArchivedCalendarsModal.tsx`, `App.tsx:58-154`, `store.py:473-495` |
| `SidebarProofs` | theorems about `Sidebar` | |
| `Booking` | `book_slot` over cache, server and ledger | `service.py:687-765` |
| `Reservation` | the abstract specification `Booking` implements | |
| `BookingProofs` | theorems about `Booking` | |
| `Slots` | the interval arithmetic of the booking page, page against booking | `scheduling.py`, `service.py:617-733` |
| `Series` | the edits of a recurring event and its expansion | `ical/edit.py:353-691`, `recur.py` |
| `SeriesProofs` | theorems about `Series` | |
| `RateLimiter` | the limiter and its two users | `auth.py:78-143` |
| `RateLimiterProofs` | theorems about `RateLimiter` | |
| `MC...` | instances for TLC | |

**SyncEngine.** The content of the server is `wire`; the row of each UID is
`cache`. An etag is represented by the body it hashes. A sync token is
represented by what the server promises about it (RFC 6578): the set `dirty` of
hrefs that changed since it was issued. That makes a token stored at the wrong
moment visible: `since` collects what changes after the REPORT, and the
transaction sets `dirty' = since`. `op` says where the running handler is; each
value is a place where it waits for a response or for its transaction, and
foreign writes come in there. The functions of `store.py` are operators on
tables (`Upserted`, `Without`, `Orphaned`, `Rejoined`, `Collected`); where a
query may return any of several rows with the same href, `OnePerHref` leaves
the choice open. Creation, edit and deletion follow `_put_new`, `_edit` and
`delete_task` with their 412 branches. `gc_orphans` has no collection filter, so `CollectElsewhere`,
the full resync of another collection, collects as well. `Bodies` says what other clients store
at which href, and `Ours` which tasks the app's users write. Move, split, override, shift and exclude
are compositions of the same requests and are in `WritePath`.

**WritePath.** Here a body is the set of changes that went into it and the set of
occurrences it generates, so that "lost" can be said. The handlers act on
the event only; foreign clients write the tails as well. `acked` are the changes
the server took and nobody asked to delete, `kept` the occurrences. A `scene`,
chosen in the initial state, says which handlers users call and which
resources foreign clients touch.

**SyncLoop.** Collections appear, are renamed and disappear on the server, by foreign
clients or by the app's own handlers, which write first and run discover after it
and may fail in between (`EndHandler`; for the reordering, `Proppatch`, after any part
of the writes). Two sweeps can run at once, the loop's and one asked for by
`POST /api/sync`. `lossy`, chosen in the initial state, separates two questions: with reliable hooks and no
poll at all (`FALSE`), do the hooks suffice; with unreliable hooks and requests
(`TRUE`), does the poll. `place["loop"]` is also where the process is: it boots (discover,
then a pass per collection, none of which may fail), then serves. `Down` is its end, by
a crash between any two steps or by a bootstrap that fails, and the restart that
systemd sees to; only the database survives it. Bootstrap is taken apart because it is the
only thing that makes up for hooks lost in between (`floor` is history: what the server
had when the process started).

**LiveView.** An item has a version and may be there or not. A fetch reads the items one
by one, as they may be in different lists, and lands all at once: in the task view only if
its token is current, in the grid (`grid`, chosen in the initial state) whenever it
comes. A fetch may also fail (`FetchFails`): one rejected request of the `Promise.all` drops all of it, and
nobody makes it again; `failed` is history and says that this has happened to the last one
made. A creation paints a stand-in, an edit and a removal change the view at once; all three
settle with the answer or roll back. `steady`, chosen in the initial state as
well, separates two sessions: a stream that is up from the beginning, in which the user
writes, and one that connects and drops at any time, in which the user only
reads. `since` and `crossed` are history: the token of the last fetch that landed
or of the last write, and whether responses to the grid have crossed. A reconnect may be
`Refused`; an EventSource then stays closed.

**Sidebar.** `items` is what the rail of a tab shows of the lists, `prefs` the two
keys of its settings that refer to them, and `blob` what the service stores.
Whenever the rail is set, the effect of `TasksView` runs in the same action
(`SetLists`, `Kept`) and sends what it changed. The rail is set by a refetch,
by a creation or removal and its answer, and is empty again when the view is
opened anew (`Reopen`). `scene` says which session it is: `plain`, in which the user
creates no list, `creates`, `lossy`, in which PUTs, removals and reads fail, and `calendars`, for the
rail of the calendar view. That one prunes differently: not by an effect on the rail but where
a read lands, from the preferences of the moment the read was sent (`NewRead`, `ToPrune`), and
for an empty rail too; `undone` is history and says that this has undone something
the user did since. Its second key are the archived calendars (`Archive`, `Restore`).

Nothing waits for anything here: `App.tsx:103-132` sends PUTs un-awaited, the service applies each
on a thread of its own, and a read that lands sets the rail without a token. So PUTs (`puts`) and reads
(`reads`, `answers`) are served and land in any order; `astray` is history and holds the keys of which a PUT
has overtaken an earlier one or got lost, and `"lists"` if answers to reads have. When the calendar
view is left, its reads go on (`here = FALSE`): their closures still prune. The user waits for
one creation or removal before asking for the next.

**Booking** refines **Reservation** under `state <- [k |-> Held(k)]`: a request holds a
time from the moment it is in the ledger until its event is removed. `book_slot`
holds the lock throughout, but its PUT, the refresh and the ledger entry are
separate steps with failures between them. `SetLink(l, None)` stands for disabling a
link and for deleting it: both make the next booking fail in the same way.

**Slots** keeps the algorithms as they are (sort and fold for `merge`, the scan that
stops early, the grid of a window) and compares them with definitions that say
the same without them (`Offered`, `BusyUntil`). Both callers are there: the page
over the whole window, the booking over one day. An expansion lists at most `MaxOccurrences` (the code:
750), which the page reaches sooner than the booking; `WithinCap` says that no event does.

**Series** writes each edit as a function from the old body to the new one and
compares the occurrences shown before and after. Time is a day number. The
state is the event and its split-off tails, so edits follow one another in
any order. Rules are weekly, on the start's weekday or a BYDAY list;
`INTERVAL` is not modelled.

**RateLimiter** has the class with its lazily run sweep, and either the public
routes (check and record in one step) or login (the hashing thread between). The limiter of the
links is the one whose lockout is shorter than its window, and has a run of its own, `LinkRate`.

## 3. Runs

| Run | States | Asks |
|---|---|---|
| `SyncEngine` | 261 k | Does the cache hold what the token vouches for, whatever falls between requests; is it a projection of the server; does the sidecar survive, and does the poll bring everything over? |
| `WritePath` | 1.0 M | Does any handler lose an occurrence or a change? |
| `SyncLoop` | 97 k | Do hooks alone, and polls alone, suffice, after handlers and bootstraps that failed half-way and crashes too; do two overlapping sweeps announce what they change; is anybody served before bootstrap has caught up? |
| `LiveView` | 936 k | Does the tab go back, miss what it is told, or lose its own write, whichever fetches fail before the last? |
| `Sidebar` | 623 k | With requests that overtake one another and get lost: does pruning wipe settings of lists or calendars that are there, keep those of ones that are gone, or leave the server with other settings than the tab; does archiving leave a calendar hidden? |
| `Booking` | 0.99 M | Is a time confirmed twice, or a request recorded twice? |
| `Slots` | 25 k | Is the page right, and does booking agree with it, with events below and above the cap? |
| `Series` | 84 k | Does each edit change exactly what it is meant to? |
| `RateLimiter` | 326 k | Is the rate kept where a lockout lasts a window, and are the maps bounded? |
| `WriteMoveLoses`, `BookingReplay`, `LinkRate` | | Counterexamples to three sentences of the repository, section 5. |

The properties are stated, with the sentence of the code or the documentation
they are about, at the end of each module.

### Bounds, and why they are enough

- `SyncEngine`: two resources, one href per multiget request (the code: 50), so that a pass
  over both has two batches with foreign writes between them. `u1` moves between two names
  and may be malformed under one of them, while `u2` is well-formed: a bad resource beside a
  good one, in the same pass and in either order. A resource that goes and comes back under the other
  name is the case in which the sidecar can be lost. Users write `u1` (`Ours`), two
  revisions. Nothing counts upwards, so the state space is complete, for histories of
  any length. Several UIDs at one href, where one row can be confused with
  another, are the case of the theorem `NothingMissed`, which holds for any number.
- `WritePath`: two occurrences and two tails, so that the event can be split twice and the second
  split meets what the first has left; three changes, so that two writers and the handler each have one; two
  calendars and one occurrence for moves. A change no body has any more may be
  made anew, so histories are unbounded.
- `SyncLoop`: two collections, one of which may fail for ever; `MaxVersion = 1`
  change of content and of properties each. The race is between one write, of the
  server or of a handler, and two sweeps, or a bootstrap; crashes are not counted. A collection that was deleted does not
  come back, as new ones get a fresh href (`uuid4`).
- `LiveView`: two items, `MaxChanges = 2` of all together, `MaxFetches = 2` in
  flight, `MaxWrites = 1`; failures of fetches are not counted. Two overlapping fetches that read two items at
  different times are the least that can come out of order; one write and one
  foreign change meet in every order with both.
- `Sidebar`: two lists (or calendars), so that one can be pruned and the other must not;
  `MaxFlying = 2` requests of the tab under way when it or its user starts another, to which pruning
  adds its own PUTs: two PUTs of a key, two reads, or one of each, the least that can overtake.
  `MaxAstray = 0`: once something has been overtaken or got lost, users make no further
  change, while everything under way, refetches and prunings go on; the properties about a key that has
  gone astray say nothing any more, the others must hold still. The
  user does not open the view anew while a request of the rail is waited for, and
  toggles only after the settings have arrived. Calendars are not created in the
  session with their rail, and one that is deleted while the archive dialog is open is
  not restored.
- `Booking`: a window of `Day = 2` ticks, two links of one and two ticks over two
  calendars, two requests, one meeting of the owner; requests are symmetric. Links
  are enabled and disabled at any time; the duration of a link stays (section 6).
- `Slots`: a week of two days of four ticks (`DayLen`, `Week`), `MaxEvents = 2`
  events at a time out of some forty, `MaxNow = 9`, so that the page window
  crosses days, and `MaxSlots = 4`, below what an empty day offers. `MaxOccurrences = 4` is below what
  some of the recurring events have in the window, and above what others have.
- `Series`: weeks of three days, `MaxEdits = 3` edits in sequence, dragging by a
  day back or two days on, looked at up to day `Horizon = 8`: the second and third
  edit meet what the first ones leave behind.
- `RateLimiter`: two clients, two failures, windows and lockouts of three ticks (the code: 900 s each for
  login, 300 s each for reading the booking page, 3600 s each for the clients that book), `MaxFlying = 2` attempts in the hashing
  thread, `MaxTime = 10`: three windows, so that a sweep, a lockout and its end meet in every order.
- `LinkRate`: one link, three bookings in a window of four ticks, a lockout of two (the code: 30, 3600 s and 1800 s).

`CHECK_DEADLOCK FALSE` is set where the bounds end the behaviour: a tab whose
changes are used up, and a series after its last edit.

### Fairness

- `SyncEngine` (`FairSpec`): a handler that has begun ends, because every request has a
  timeout (weak fairness of `EndWrite`, which includes failure). The loop polls
  for ever and failures, crashes and users' requests do not strike every
  attempt (strong fairness of the steps of a pass; of a batch, for each number of
  hrefs left to fetch, as a pass that gets through its first batch only never ends). Without the latter nothing
  can be promised: a server that is never reachable is never synced.
- `SyncLoop`: a sweep that has begun takes its next step; nobody need ask for a sync
  by hand, and no handler need be called. Strong fairness for the wake-up by the
  hook, because the loop is not waiting all the time. A bootstrap takes its next step
  (which may be its failure), and the process is started again. Passes over collections
  outside `Failing` succeed again and again; polls and everything else only
  where `lossy` says that the question is about them. Then neither failures nor crashes
  strike every attempt: a process that never survives its bootstrap syncs nothing more.
- `LiveView`: the service publishes (`_publish` follows the commit in the same
  function), the stream delivers, the debounce timer fires, and requests are answered or fail: a fetch
  may fail every time, and `ToldIsShown` is about tabs whose last one has not.
- `Sidebar`: PUTs and removals are answered, and events make the tab read the lists again and
  again, as any change by any client does. Strong fairness for the reads, their serving and their
  landing: some fail in the session `lossy`, and a user who reopens the view again and again throws some
  away, but not all.
- The other modules have safety properties only.

### Assumptions about what is outside

- The CalDAV server keeps the UIDs of a collection distinct and does not let a PUT
  change a resource's UID (RFC 4791, `no-uid-conflict`); its tokens mean what
  RFC 6578 says; a conditional request is atomic.
- `recurring_ical_events` shows the slots of the rule and of RDATE without EXDATE, shows
  DTSTART unless it lies after UNTIL, and shows an override in place of its
  slot, or in addition if there is no such slot. `dateutil` does not count DTSTART if the
  rule does not generate it.
- Foreign clients may write anything that is well-formed for the server,
  including bodies that do not parse for tasksd.

## 4. Proofs

`SyncEngineProofs` proves, for any hrefs, UIDs, revisions, names and batch size:

- `TypeCorrect`: `Spec => []TypeOK`, by way of `Types`, which adds that a handler in the
  middle of something knows its job.
- `NothingMissed`: `Spec => []Covered`: a task or event that did not change since the
  stored token was issued is cached, under its UID, at its href and in the
  server's revision.

`Covered` alone is not inductive: it says nothing about a pass that is under way,
and the pass is what re-establishes it. `SyncInv` adds what the transaction
relies on:

- `PassCovers`: every resource that has not changed since the REPORT is still to be
  fetched, was fetched last for its UID, or is cached and nothing fetched
  replaces it. Once nothing is left to fetch, the upserts therefore leave its
  row right.
- `PassDeletes`: what the pass is about to delete is gone from the server or changed
  since the REPORT, so the deletions take no row that `Covered` needs.
- `StoreFresh` and `ForgetGone` say the same of the small transactions of a refresh and
  of a deletion; `GotUsed` that nothing fetched is left over from an earlier
  handler.
- `DistinctUids` of the server, and `Keyed`: rows are stored under their own UID.

`TouchKeeps` is the lemma about foreign writes, `WriteKeeps` about the engine's own,
`FetchKeeps` about a batch, `CommitKeeps` about the transaction of either kind of
pass, `AbortKeeps` about failures. The argument in one line: the token
is the one of the REPORT that opened the pass, so everything that changes
during the pass will be reported again.

Three more theorems are about names that are not reused for another UID (`Private`, for the
reason section 6 gives):

- `RowsLeaveMarked`: `Spec => LeavingOrphans`: no row leaves the cache without its sidecar
  being marked in the same transaction;
- `OnlyGoneCollected`: `Spec => CollectedAreGone`: no full resync, of this collection or another, takes
  the sidecar of a UID that has a row, and none that of one which comes back in the same pass;
- `CacheReproducible`: `Spec => []CacheIsProjection`: once every change is synced, the cache is
  what a full resync into an empty database would produce.

`SyncInv` says what must be cached; these need the other direction, what must not, and `GoneInv`
adds it:

- `GoneForgotten`: no row is left of a resource that the token vouches for being gone.
  Together with `Covered` this is the projection, row by row;
- `PassForgets` is the same for a pass under way: it has fetched nothing from a resource that is
  gone and has not changed since the REPORT, and will delete the row that is left of it;
- `StoreThere` and `DeletesRow` for the transactions of the write handlers;
- `MarkedGone`: a sidecar that waits for the collector has no row, so that a collection between any two
  handlers takes no other, and the one at the end of a full resync follows the re-adoption in the same
  transaction.

The assumptions are those declared in `SyncEngine` (`NamesAssumption`, `OddAssumption`,
`BatchAssumption`, `NoneAssumption`): names and revisions are what they are called, hrefs are
finitely many, a batch has at least one.

`WritePathProofs` proves, for any calendars, occurrences, changes and tails, and any choice of the
handlers that users call and of the resources that foreign clients write:

- `TypeCorrect`: `Spec => []TypeOK`, by way of `Types`, which adds what the job of each step is.
- `MoveIsSafe`: `Spec => []MoveKeepsSeen`, `ChangesAreKept`: `Spec => ChangesKept`, and
  `TailHasChanges`: `Spec => TailInherits`, from the invariant `Changes`. A handler holds only its job
  between two requests, so the invariant says how job and server are related while others write:
  `MoveCopied`, that from the copy to the end of a move the other calendar has every change of the
  cached row that nobody gave up since; `TailOfBody`, that the tail has every change of the revision
  from which the head will be made; `FreshFree`, that no tail gets a name that is taken.
- `OccurrencesAreKept`: `Spec => []NoLostOccurrence`. The property is true of each step only because
  of what the steps before have prepared: `TailSpare` says that no occurrence depends on the tail
  before the head is truncated, so that it may be undone, and `TailCovers` that the tail generates
  whatever truncating the head will take away, also after a 412 has made both anew. The invariant
  holds in sessions without moves, as the property does.

The assumptions are those declared in `WritePath`.

`SyncLoopProofs` proves, for any collections, any of which may fail, and any number of
changes:

- `TypeCorrect`: `Spec => []TypeOK`. `TypeOK` is inductive; the proof takes its tables
  (`TablesKept`) and its flags (`FlagsKept`) apart.
- `BootstrapCatchesUp`: `Spec => FreshStart`: when the process begins to serve, every
  collection that was there when it started, and is there still, has a live row and a
  cache at least as new as it was then. The property speaks of one step only, so the invariant
  `BootInv` has to say what bootstrap still owes while it runs (`Owed`): before discover, that
  the server has only gone on since the start; after it, that each collection is live and
  is either still to be visited or already as new as it has to be. A pass that fails ends the process,
  and `DownOwes` re-establishes the invariant with the server of that moment. The mutated
  form of `BootFailed`, which skips the collection as `sync_all` does, breaks exactly this.

Three more theorems are what the liveness properties rest on. That sweeps go on and end is fairness,
and stays with TLC; that there is always a sweep which owes what has to happen is safety:

- `EventIsOwed`: `Spec => []Announcing`: a change in the cache that no event has told of is one that
  a running sweep knows of (`ChangesAnnounced`), though the two sweeps share the passes and
  either may end first;
- `NoWakeUpDropped`: `Spec => WakeUpKept`: where nothing but the passes over `Failing` collections
  fails, a version that the hook has told of stays due until it is cached, overwritten, or the
  process ends (`HookSuffices`): the event is set, or discovery is to come, or the loop's pass over
  that collection. Each hand-over is one step: `Wake` clears the event and makes discovery due,
  discovery fills `todo` with what the server has;
- `MirrorStays`: `Spec => MirrorKept`: what is mirrored stays so until the collection itself changes
  (`PollSuffices`), whatever passes, handlers and restarts come after.

The assumption is `BoundAssumption`.

`BookingProofs` proves, for any links, calendars, requests, meetings and length of the day:

- `RecordedOnce`: `Spec => []OnceBooked`, whatever the owner does to the links. The invariant adds
  that the request of a running `book_slot` is not in the ledger yet (`JobNew`).
- `BookingImplementsReservation`: `Spec => Reservations`, assuming `FixedDurations`: a link keeps
  its duration. It may be disabled, moved to another calendar and given another buffer, which
  is more than the run `Booking` has. Without the assumption the theorem is false (section 6).
- `NoTimeTwice`: under the same assumption no two requests hold times that overlap, which is
  what `Reservation` comes to for a client.

That a booking is free when it is recorded does not follow from the validation alone: an event may
have been there from an attempt that failed, and the calendar that it is in is not the one
asked for if the link has moved. The invariant `HoldInv` says what carries over:

- `Linked`: an enabled link has one of its settings; `AsAsked`: an event of a request, whoever
  attempted it and when, lies where the request asks for (this is where the duration matters);
- `Blocking`: the event of a booking is cached as long as it is there. A sync may drop it from the
  cache only once it is gone from the server, so later requests find it in `Busy`;
- `JobFree`: what the running `book_slot` has written overlaps no booking, and is cached before
  it is recorded.

`RecordRefines` and `RemoveRefines` then map the two steps that matter: recording a booking reserves
its time (or cancels it, if the event is gone again), and removing an event cancels its booking.
The assumptions are the five declared in `Booking`.

`LiveViewProofs` proves, for any items and any number of changes, fetches and writes:

- `TypeCorrect`: `Spec => []TypeOK`.
- `NoOldResponse`: `Spec => OldNeverLands`. It takes little: no token is beyond the counter
  (`Tokens`), and a fetch that is older than the last landing or write has not the current one.
- `OwnWriteIsShown`: `Spec => []OwnWriteStays`: when everything has settled, a tab that has written
  once, and whose last fetch has not failed, shows what it was answered or newer. The property speaks of the end of a race in which a
  write, its answer, its event and fetches overtake each other; the invariant `ViewInv` has to say
  where the version that must be shown in the end is at every moment. `Caught`: with nothing
  pending, whatever the youngest fetch has read is current; `Stragglers`: in the grid, where any
  response lands, one that comes after the youngest is `late`; `Replies`: an answer is no newer than
  the server; `ServedShown` and `AckedShown`: when nothing is pending and the youngest fetch has
  landed, the view is what the server has, before the answer and after it.

The condition `written <= 1` of `OwnWriteStays` is what the run checks (`MaxWrites = 1`). With two
writes it is false: the second drops the fetch that the event of the first has started, and if it
fails, nothing is fetched in its place, so the tab goes on showing its own paint of the first one
and not a version that it has read.

`ToldIsLanded`: `Spec => []ToldShown` is the safety part of `ToldIsShown`, for a stream that drops and
comes back: when nothing is under way any more and the last fetch has not failed, the tab shows what
its stream told it of, or newer. The fetches before may have failed or not.
`ToldRead` says why: once no event and no timer is left, the youngest fetch was started after the last
of them and has read no less. `Stragglers` is needed here too.

`RateLimiterProofs` proves, for any keys, any limit, window and lockout of at least one, any number
of attempts in the hashing thread, and a clock that runs for at least a window
(`FailsAssumption`, `TimesAssumption`):

- `TypeCorrect`: `Spec => []TypeOK`.
- `ShorterSpans`: on the public routes no client is let in more often than the limit within any span as
  long as the shorter of window and lockout, which is what the class gives for any configuration;
- `RateIsKept`: `Spec => []RateKept`: so no window has more where the lockout is at least as long,
  that is for every limiter but that of the links (section 5);
- `RefusalHasCause`: `Spec => []RefusedForCause`: nobody is shut out for nothing.
- `LockoutIsKept`: `Spec => LockoutKept`, and `MapsAreBounded`: `Spec => Bounded`.

The limiter remembers failures, forgets them by two different rules and by the lockouts they lead to;
the properties speak of all admissions there ever were (`admitted`, history). `LimiterInv` relates the
two for each key: the failures are the last of its admissions (`FailsAdmitted`); an admission that
is not counted any more is old, or the lockout that it led to is still there (`RestIsOld`), and
therefore `MaxFails` admissions on, the clock has gone on by the shorter of window and lockout
(`Spaced`); a lockout began with the last of `MaxFails` admissions within a window (`LockedForCause`);
and `SweptOK` says what the last sweep has left. `WithinDrops` is the lemma about the pruning loop: it
drops a first part of the times, exactly those that are old. It needs the least number
with a property, which `LeastNatural` provides, from the well-foundedness of finite subsets that the
library has without a parameter.

`SidebarProofs` proves, for any lists and any number of reads and PUTs under way:

- `TypeCorrect`: `Spec => []TypeOK`, for any tabs.
- `OneTabIsStored`: `Spec => []StoredIsShown`, `ArchivedIsVisible`: `Spec => []ArchivedNotHidden`, and
  `PrunesOnlyGone`: `Spec => PruneOnlyPrunes`, for a single tab (`Tabs = {t}`). With two tabs they are
  false: they overwrite each other's arrays (section 6). Each is about keys whose PUTs have not
  overtaken one another nor got lost (`astray`): then the older of two may be the one that stays, and nothing
  can be said. Everything else comes in any order: PUTs of the other key, the serving of reads, removals,
  and, but for `PrunesOnlyGone` in the rail of the lists, the answers to reads.

The three are about what happens once the PUTs have arrived, so the invariant is about those under way.
`Settles(q, b, v)` says that a key stored as `b` will be `v` once its PUTs `q` have arrived in the order sent.
`Stored` says so of what the tab shows. It follows a tab whose settings have not arrived yet as well
(`NotReady`): such a tab prunes nothing, because it has nothing. `PrunesAll` says the same of pruning: a PUT
for pruning takes out of what it will find (the value of the PUT of its key before it, or what is stored)
only what is gone. That a landing read prunes only what is gone is the hard part. In the rail of the lists
`InOrder` gives it: whatever the tab knows of, in its rail or its settings, is in every answer under way or
deleted, and later answers have what earlier ones had, but for what was deleted in between (reads not
served yet may be served in any order: each finds what is there then). In that of the calendars it is
`Knows`: what an answer did not find of the preferences that its read remembers is deleted, whatever else is
under way and whether or not the view that sent it is still there. `RailCovers` is the counterpart for a
removal, which prunes by the rail and not by a read. `OthersIs`, `ElemsOthers` and `OthersTail` are the lemmas
about taking one of several requests out, `SentEffect` and `PutArrives` those about the PUTs of a key.

`SeriesProofs` proves, for any series other clients have stored, any offsets, any length of the week and
any number of edits, one after the other:

- `TypeCorrect`: `Spec => []TypeOK`: every edit turns series into series, and none has `COUNT=0`.
- `EditsOnlyThis`: `Spec => OnlyThis`, `ShiftsMoveAll`: `Spec => ShiftsAll`, and
  `SplitsKeep`: `Spec => SplitKeeps`: "this event" changes one occurrence, "all events"
  moves all of them alike, and a split or a truncation keeps every occurrence.

The three speak of one step from any state, so the types (`Types`) are all the invariant they need; the
work is in what is shown of a series before and after. `ShownAre` brings that into one form: one
occurrence for each slot of `Seen`, at `StartOf`. For each edit there is then a lemma on its fields
(`ExcludedFields`, ..., `TailFields`) and one on what it shows (`ExcludedShows`, ..., `TailShows`).

- Shifting: a slot of the shifted rule is a slot of the rule, shifted. For the interval this is
  subtraction, for the BYDAY list `Rotated`, which needs that remainders modulo `Week` are equal if and only
  if they are after both sides have moved (`SameRemainder`, `MovedRemainder`); for COUNT the slots before
  are as many as before (`MovedSameSize`, `ShiftedSlots`).
- Splitting: the head ends where the tail begins. COUNT is what makes it hard: the slots before `x` are
  those before the anchor and those from the anchor on, and the tail's COUNT is what the former have left
  of it (`RemainingIs`: the clamp to one never bites at an anchor of the rule). `SplitKeeps` has the two
  conditions without which it is false: the anchor is a slot of the rule (`Regular`), and with a time
  change the series just repeats (`bare`, `Bare`). What happens otherwise is
  in sections 5 and 6.

The assumptions are the four declared in `Series`.

Only model-checked:

- the liveness properties (`EventuallySynced`, `HookSuffices`, `PollSuffices`,
  `ChangesAnnounced`, `ToldIsShown`, `StaleGoes`), since they need fairness and `ENABLED`. For the first,
  what it rests on is in `SyncInv` and `GoneInv`; for the next four, in the theorems above;
- `PageRight`, `PageBookable` and `BusyShown` of `Slots`. `merge`, the clipping and `generate_slots` are folds
  and filters over sequences there, so that what they compute for every input needs an induction over the
  input. The claims are also not true of all events: not of a DURATION of more than
  a day, nor of buffers and zone differences of more than the day by which `_link_busy` widens its window
  (section 6). Nothing in the code excludes these, so they cannot be assumed; the instance stays inside them.

## 5. Findings

Each is a sentence of the repository and a run that refutes it.

1. *`WriteMoveLoses`.* `move_event` writes the cached bytes to the target calendar and
   deletes the source with `delete_task`, whose second attempt after a 412
   deletes the current revision, whatever it is. A foreign edit since the last
   sync is then in neither calendar (`sync/engine.py:249`). `ChangesKept` shows that
   this and the unconditional PUT and DELETE of a split's tail are the only steps
   of any handler that lose a change.
2. *`BookingReplay`.* Replays are recognised by the ledger only. The first attempt writes its event (PUT),
   the refresh takes it into the cache, and the attempt fails before the ledger entry; the same request,
   sent again, is refused because of its own event (`service.py:706`), where `service.py:700-701` promises to
   "return the original confirmation instead of failing the re-validation as taken". `ReplayConfirmed` is
   about requests whose event is on the server at the time they ask for. `Reservations` and
   `OnceBooked` show that nothing worse follows.
3. *`LinkRate`.* The comment on the limiter of the links says "Generous for real clients (30 bookings/h on
   one personal link)" (`app.py:854`). Its lockout is half its window (`app.py:855`: 30, 3600 s, 1800 s), and
   the lockout clears the failures it came from (`auth.py:135-139`), so 30 bookings per half hour are let
   in, 60 per hour. No other limiter has a lockout shorter than its window; for those `RateIsKept` holds, and for
   this one `ShorterSpans`: no half hour has more than 30.

Two sentences of the documentation were found to differ without a run, as what they are about is plain from
the code: `docs/recurrence-findings.md:33` says that "This & following" drops the COUNT of the tail, while
the code keeps what is left of it (`ical/edit.py:638`, and the test
`test_split_count_series_tail_is_bounded`), which `SplitKeeps` shows to be right; and line 34 says that
"unbounded/UNTIL series split exactly", which with a time change they do not: the tail's start
moves (`edit.py:685`), its EXDATEs, RDATEs, overrides, UNTIL and BYDAY stay. `SplitKeeps` has
the conditions under which a split is exact.

## 6. Known limits that the models show

- If an href is reused for another UID between two passes, the row of the old
  UID stays in the cache (`upsert_item` replaces by UID, and the REPORT lists the href
  as changed). `CacheIsProjection` and the sidecar properties are therefore
  checked with hrefs that are not reused, as with clients that name a resource
  after its UID.
- The row of a resource that no longer parses stays as it was, and `last_error` is
  forgotten by the next pass that does not meet it.
- Orphans are collected by full resyncs only, but by those of any collection (`store.py:232` has no
  filter); with a server that never invalidates tokens, never. A task that is deleted and comes back after seven
  days loses its sidecar if another collection's resync falls between its return to the server and the
  pass that caches it; its own would re-adopt the sidecar first.
- New, renamed and deleted collections that a sync finds are not announced to the
  tabs, nor those a handler wrote before its discover failed; `PollSuffices` is about
  the rows only. A `_create_collection` whose collection is deleted before discover
  finds it has no row to answer with and fails with an error of its own.
- A process that ends between the pass that changed something and the event of its
  sweep announces nothing after its restart, and neither does bootstrap. A stream that
  reconnects is greeted with `hello`, which `api.ts:288` ignores.
- A reconnect that is answered with an error (by the proxy while the service restarts,
  or by the service after the session has ended) closes the `EventSource` for good: the tab
  shows nothing new until a view is opened anew. `ToldIsShown` is about open streams.
- A fetch of which one request is rejected is dropped as a whole (`TasksView.tsx:84-91`,
  `CalendarView.tsx:104-122` under `util.ts:12-26`): the user sees the error, and the tab shows what it
  was told of with the next event only. `ToldIsShown` and `OwnWriteStays` are about tabs whose last fetch
  has not failed.
- Text search and the tags (`store.py:370`, "joined back to live items") do not ask whether the
  collection is marked deleted, so they find tasks of lists that are gone. No module has
  these queries.
- A tab hears nothing of changes made while its stream was down, until the next
  event; and after a failed write a tab rolls back to what it showed before the
  write, which may be older than what it was told since. `ToldIsShown` and
  `OwnWriteStays` have their conditions for this reason.
- The calendar grid takes every response: an older one may replace a newer one, or a
  paint, and stays until the next event (`InOrder`); an event that was just
  created may be shown twice if a refetch came before the answer.
- `Sidebar.create` (and a removal that fails) sets the rail from the lists of the moment the
  user asked (`Sidebar.tsx:91`). If the lists had not arrived by then, or others were
  added since, the effect takes these for deleted and prunes their settings, which
  `TasksView.tsx:50-51` means to avoid ("so the initial empty state can't wipe
  real prefs before the lists arrive"). So does an older read that lands after a newer one
  (`TasksView.tsx:44` sets the rail without a token): the settings of a list created since are wiped. `PruneOnlyPrunes` is stated for sessions without creations and failures, up to the first time
  answers cross.
- The rail of the calendars prunes the preferences as they were when its read was sent
  (`CalendarView.tsx:93`): if there is a stale id to prune, a toggle, archiving or restoring
  made while the read was under way is undone, in the tab and on the server.
  `PruneOnlyPrunes` and `ArchivedNotHidden` are stated up to the first time this
  happens (`undone`); `StoredIsShown` and `StaleGoes` hold after it too.
- Two PUTs of a key may be applied in reverse (`App.tsx:103-132` does not wait for the first; `app.py:535`
  and `753-755` run each on a thread of its own). The account then keeps the older value: another one
  than the tab shows, a stale id that no later pruning sends away, or a calendar both archived and
  hidden. Nothing repairs it before the next change of that key.
- A calendar view that was left goes on with its read, and prunes when it lands
  (`CalendarView.tsx:86-99`). It takes away no more than what is deleted, but may undo as above.
- Two tabs overwrite each other's arrays (`app.py:222`, "The whole array is replaced on
  each write"). Settings are read at login only, so the pruning of a tab in the
  background can undo what another tab has stored since. `Sidebar` has one tab.
- If the owner changes the duration of a link between an attempt that failed after
  its PUT and its replay, the ledger and the event disagree, and two clients can
  be confirmed overlapping times. `Reservations` is checked and proved for links that keep
  their duration.
- The booking page sends a new `client_id` with every submission (`api.ts:270`). Repeated
  after a lost answer, its request is a new one, and is told that the time is taken; only
  clients that keep their `client_id` are recognised.
- If a foreign client edits a tail between the first and the second PUT of a split
  in conflict, that edit is overwritten (`TailForced`).
- The range query compares wall-clock strings and takes a row without DTEND as an
  instant: an event with a DURATION of more than a day that began more than a day
  before the window is not found, nor are buffers plus zone differences beyond the
  day by which `_link_busy` widens its window. `Slots` stays inside these limits.
- An expansion ends after 750 occurrences (`ical/recur.py:135-136`). An hourly event of another client
  therefore stops blocking after a month of the booking page's window: the page then offers slots that
  are taken, and booking, which reads three days, refuses them. `PageRight`, `PageBookable` and
  `BusyShown` state exactness for events below the cap (`WithinCap`), and beyond it that no free slot is
  withheld and no free time is shown as busy.
- Shifting a rule with `INTERVAL` above one and a BYDAY list rotates the list only (`ical/edit.py:482-485`);
  which of the weeks count may change. `Series` has no `INTERVAL`.
- Splitting at an RDATE, or at a start that the rule does not generate, restarts
  the rule there; `SplitKeeps` excludes those anchors (`Regular`).

## 7. Not modelled

Sessions, password hashing and Cloudflare Access; XML and field extraction; the
routes' validation; text search; rendering. Of the components that are
modelled: changes of daylight saving time, frequencies other than weekly, `INTERVAL` and
mixed dates and times in a series; a set
of lists or a calendar range that changes while a fetch is under way, and drag and
drop; renaming and reordering in the rail, the list of groups itself and
`list_settings`; the booking page. The row of each component in `PROJECT.json` says so.

## 8. Plan

In this order, the most important first:

1. *Done*: `SyncEngine` and its proofs, `WritePath`, `Booking` over `Reservation` and its proofs,
   `SyncLoop` with bootstrap and restarts and its proofs, `LiveView` with the grid, `Sidebar`
   with the rail of the calendars, `RateLimiter`, `Slots`, `Series`; the proofs about all of
   them but `Slots`.
2. More of these: a run of `Booking` with a link that moves between calendars (the theorem covers
   it, but with two calendars the state space is beyond five million),
   two tabs in `Sidebar`, `INTERVAL` in `Series`, a set of lists that changes under a fetch in `LiveView`.
3. Proofs: the interval operators of `Slots` (what `merge` and the scan compute, and with it
   `BusyShown` and `PageBookable`), by the least counterexample (`LeastNatural`) where an induction
   is needed, and with durations, buffers and zone differences of at most a day as a condition.

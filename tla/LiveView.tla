------------------------------ MODULE LiveView ------------------------------
(***************************************************************************)
(* An open browser tab on one of its two views of content, the task view   *)
(* (frontend/src/components/TasksView.tsx) or the calendar's grid          *)
(* (CalendarView.tsx), fed by the event stream (service.py: _publish,      *)
(* app.py: events, api.ts: subscribe, App.tsx) and by fetches of all lists *)
(* or calendars, with optimistic writes of its own.                        *)
(*                                                                         *)
(* An item is a task or event, each in a list or calendar of its own.  Its *)
(* content is represented by its version, the number of changes made to    *)
(* it, and by whether it is there; an optimistic paint has no version yet. *)
(***************************************************************************)
EXTENDS Naturals, FiniteSets

CONSTANTS
    Items,      \* tasks or events
    Painted,    \* optimistically painted content
    Blank,      \* the place of an item taken away optimistically
    None,
    MaxChanges, \* bound: changes of all items together
    MaxFetches, \* bound: fetches in flight
    MaxWrites   \* bound: this tab's writes, all told

Versions == 0 .. MaxChanges
Content  == [ver : Versions, there : BOOLEAN]
Shown    == Content \cup {Painted, Blank}

ASSUME BoundsAssumption == {MaxChanges, MaxFetches, MaxWrites} \subseteq Nat
ASSUME NoneAssumption   ==
    {None, Painted, Blank} \cap Content = {} /\ Cardinality({None, Painted, Blank}) = 3

VARIABLES
    server,     \* server[i]: the content of i in the service's cache
    changes,    \* the changes made so far; only for the bound
    owed,       \* a change is committed whose event is not published yet
    grid,       \* the tab shows the calendar's grid, not the task view
    steady,     \* the event stream is up before the first fetch and never drops;
                \* bound: only then does the tab write
    conn,       \* the tab's EventSource: "connecting", "open", or "closed" for good
    pipe,       \* an event is on its way to the tab
    told,       \* history: told[i]: the newest version this stream told of
    timer,      \* App.tsx: the debounce timer is running
    token,      \* fetchToken.current; in the grid, which has none, the fetches made
    fetches,    \* fetches in flight: their token, and what they read so far
    crossed,    \* history: in the grid, a fetch landed after a younger one
    failed,     \* history: the last fetch made has failed
    writes,     \* writes in flight
    written,    \* writes made so far
    since,      \* history (task view): fetches with lower tokens are out of date
    acked,      \* history: acked[i]: the newest version a write was answered with
    view        \* view[i]: what the tab shows of i

stream == <<grid, steady, owed, conn, pipe, told, timer>>
loads  == <<token, fetches, crossed, failed>>
user   == <<writes, written, since, acked>>
vars   == <<server, changes, stream, loads, user, view>>

Fetch == [token : Nat, late : BOOLEAN, got : [Items -> Content \cup {None}]]
Write == [kind : {"edit", "create", "remove"}, item : Items, orig : Shown,
          painted : BOOLEAN, served : BOOLEAN, reply : Content \cup {None}]

Open == conn = "open"

OnScreen(i) == view[i] = Painted \/ view[i] \in [ver : Versions, there : {TRUE}]

-----------------------------------------------------------------------------
(* The server                                                              *)

Commit(i, there) ==
    /\ changes < MaxChanges
    /\ changes' = changes + 1
    /\ server' = [server EXCEPT ![i] = [ver |-> @.ver + 1, there |-> there]]
    /\ owed' = TRUE

\* A sync pass, another tab or another user of the API edits, deletes or
\* creates i; nobody else creates what this tab is creating.
Change(i) ==
    /\ \A w \in writes : w.item = i => w.kind # "create"
    /\ \E there \in BOOLEAN : (server[i].there \/ there) /\ Commit(i, there)
    /\ UNCHANGED <<grid, steady, conn, pipe, told, timer, loads, user, view>>

\* _publish, after the lock is released: to the queue of every open stream.
Publish ==
    /\ owed
    /\ owed' = FALSE
    /\ pipe' = (pipe \/ Open)
    /\ told' = IF Open THEN [i \in Items |-> server[i].ver] ELSE told
    /\ UNCHANGED <<server, changes, grid, steady, conn, timer, loads, user, view>>

-----------------------------------------------------------------------------
(* The event stream                                                        *)

\* EventSource connects, and reconnects; its "hello" is ignored.
Connect ==
    /\ conn = "connecting"
    /\ conn' = "open"
    /\ UNCHANGED <<server, changes, grid, steady, owed, pipe, told, timer, loads, user, view>>

\* It is answered with an error instead, by the proxy while the service
\* restarts or by the service after the session has ended; the EventSource then
\* does not try again, and the tab opens no other.
Refused ==
    /\ ~steady
    /\ conn = "connecting"
    /\ conn' = "closed"
    /\ UNCHANGED <<server, changes, grid, steady, owed, pipe, told, timer, loads, user, view>>

\* The connection breaks, and what was queued for it is gone.
Drop ==
    /\ ~steady
    /\ Open
    /\ conn' = "connecting"
    /\ pipe' = FALSE
    /\ told' = [i \in Items |-> 0]
    /\ UNCHANGED <<server, changes, grid, steady, owed, timer, loads, user, view>>

\* Mutated form: no reload is scheduled while one is under way.
DeliverIdle ==
    /\ pipe
    /\ pipe' = FALSE
    /\ timer' = (timer \/ fetches = {})
    /\ UNCHANGED <<server, changes, grid, steady, owed, conn, told, loads, user, view>>

\* onmessage: (re)start the debounce timer.
Deliver ==
    /\ pipe
    /\ pipe' = FALSE
    /\ timer' = TRUE
    /\ UNCHANGED <<server, changes, grid, steady, owed, conn, told, loads, user, view>>

-----------------------------------------------------------------------------
(* Fetches: load of the task view, fetchEvents and reload of the grid      *)

NewFetch(t) == [token |-> t, late |-> FALSE, got |-> [i \in Items |-> None]]

StartFetch ==
    /\ Cardinality(fetches) < MaxFetches
    /\ token' = token + 1
    /\ fetches' = fetches \cup {NewFetch(token + 1)}
    /\ failed' = FALSE
    /\ UNCHANGED crossed

\* The timer bumps rev, and the view loads everything.
Load ==
    /\ timer
    /\ timer' = FALSE
    /\ StartFetch
    /\ UNCHANGED <<server, changes, grid, steady, owed, conn, pipe, told, user, view>>

\* One of the requests of Promise.all is answered.
Serve(f, i) ==
    /\ f.got[i] = None
    /\ fetches' = (fetches \ {f}) \cup {[f EXCEPT !.got[i] = server[i]]}
    /\ UNCHANGED <<server, changes, stream, token, crossed, failed, user, view>>

\* Mutated form: Promise.race instead of Promise.all.
CompleteAny(f) == \E i \in Items : f.got[i] # None

Complete(f) == \A i \in Items : f.got[i] # None

\* Mutated form: any response commits.
CurrentAny(f) == TRUE

\* The token of f is still the newest; the grid has no such check.
Current(f) == grid \/ f.token = token

\* All of them are: the response commits if it is current.
Land(f) ==
    /\ Complete(f)
    /\ view' = IF Current(f) THEN f.got ELSE view
    /\ fetches' = {[g EXCEPT !.late = @ \/ (grid /\ g.token < f.token)] : g \in fetches \ {f}}
    /\ crossed' = (crossed \/ f.late)
    /\ since' = IF grid \/ ~Current(f) THEN since ELSE f.token
    /\ UNCHANGED <<server, changes, stream, token, failed, writes, written, acked>>

\* Or one of them is rejected, and with it the Promise.all: guard raises a toast,
\* and what the others answer is not taken; nobody fetches again.  (An expired
\* session closes the view instead.)
FetchFails(f) ==
    /\ ~Complete(f)
    /\ fetches' = fetches \ {f}
    /\ failed' = (failed \/ f.token = token)
    /\ UNCHANGED <<server, changes, stream, token, crossed, user, view>>

-----------------------------------------------------------------------------
(* This tab's writes: toggle, saveDetail, create and remove of the task    *)
(* view, save and del of the grid                                          *)

\* What is painted before the answer: the grid paints no creation, and no edit
\* of a whole series.
MayPaint(kind) ==
    CASE ~grid          -> {TRUE}
      [] kind = "edit"  -> BOOLEAN
      [] kind = "create" -> {FALSE}
      [] kind = "remove" -> {TRUE}

\* Mutated form: fetches that are under way may still land.
InvalidatedNot == UNCHANGED token

\* invalidateFetches.
Invalidated == token' = IF grid THEN token ELSE token + 1

\* Drop the fetches under way, paint the change, send the request.
StartWrite(kind, i) ==
    /\ steady
    /\ written < MaxWrites
    /\ IF kind = "create" THEN view[i] = server[i] /\ server[i] = [ver |-> 0, there |-> FALSE]
                           ELSE OnScreen(i)
    /\ \E painted \in MayPaint(kind) :
           /\ writes' = writes \cup {[kind |-> kind, item |-> i, orig |-> view[i],
                                       painted |-> painted, served |-> FALSE, reply |-> None]}
           /\ view' = IF painted
                      THEN [view EXCEPT ![i] = IF kind = "remove" THEN Blank ELSE Painted]
                      ELSE view
    /\ Invalidated
    /\ since' = IF grid THEN since ELSE token + 1
    /\ written' = written + 1
    /\ UNCHANGED <<server, changes, stream, fetches, crossed, failed, acked>>

\* The service makes the change (and will publish it).  Edits and removals of
\* an item that is gone fail.
ServeWrite(w) ==
    /\ ~w.served
    /\ server[w.item].there = (w.kind # "create")
    /\ Commit(w.item, w.kind # "remove")
    /\ writes' = (writes \ {w}) \cup
                     {[w EXCEPT !.served = TRUE,
                                !.reply = IF w.kind = "remove" THEN server'[w.item] ELSE None]}
    /\ UNCHANGED <<grid, steady, conn, pipe, told, timer, loads, written, since, acked, view>>

\* It reads the DTO it answers with after it has released the lock.
ReadDto(w) ==
    /\ w.served
    /\ w.reply = None
    /\ writes' = (writes \ {w}) \cup {[w EXCEPT !.reply = server[w.item]]}
    /\ UNCHANGED <<server, changes, stream, loads, written, since, acked, view>>

\* What the task view shows of the item when its write is answered: the DTO in
\* the place of the paint.  A refetch may have removed the item, or brought it.
Settled(w) ==
    CASE w.kind = "edit"   -> IF OnScreen(w.item) THEN w.reply ELSE view[w.item]
      [] w.kind = "create" -> IF view[w.item] = Painted \/ ~OnScreen(w.item) THEN w.reply
                              ELSE view[w.item]
      [] w.kind = "remove" -> view[w.item]

\* And when the write has failed: the content from before the paint.
RolledBack(w) ==
    CASE w.kind = "edit"   -> IF OnScreen(w.item) THEN w.orig ELSE view[w.item]
      [] w.kind = "create" -> IF view[w.item] = Painted THEN w.orig ELSE view[w.item]
      [] w.kind = "remove" -> IF OnScreen(w.item) THEN view[w.item] ELSE w.orig

\* The answer of the service; that a row is gone already is no success.
Answered(w) ==
    /\ w.reply # None
    /\ w.reply.there = (w.kind # "remove")
    /\ acked' = [acked EXCEPT ![w.item] = w.reply.ver]

\* The grid adds what it created, and loads again where it has not painted; a
\* series that was created is loaded.  (A second copy of an event that a fetch
\* has brought before is not told apart.)
GridSettles(w) ==
    \/ /\ Answered(w)
       /\ \/ /\ w.kind = "create"
             /\ view' = [view EXCEPT ![w.item] = w.reply]
             /\ UNCHANGED loads
          \/ /\ w.kind = "create" \/ ~w.painted
             /\ StartFetch
             /\ UNCHANGED view
          \/ w.kind # "create" /\ w.painted /\ UNCHANGED <<loads, view>>
    \/ /\ UNCHANGED <<acked, view>>
       /\ IF w.kind = "create" THEN UNCHANGED loads ELSE StartFetch

TasksSettle(w) ==
    /\ \/ Answered(w) /\ view' = [view EXCEPT ![w.item] = Settled(w)]
       \/ UNCHANGED acked /\ view' = [view EXCEPT ![w.item] = RolledBack(w)]
    /\ UNCHANGED loads

\* An answer, or a failure of a request that may have been carried out.
Settle(w) ==
    /\ writes' = writes \ {w}
    /\ IF grid THEN GridSettles(w) ELSE TasksSettle(w)
    /\ UNCHANGED <<server, changes, stream, written, since>>

-----------------------------------------------------------------------------

\* The tab opens: it loads everything and connects the stream.
Init ==
    /\ server \in [Items -> [ver : {0}, there : BOOLEAN]]
    /\ changes = 0
    /\ owed = FALSE
    /\ grid \in BOOLEAN
    /\ steady \in BOOLEAN
    /\ conn \in IF steady THEN {"open"} ELSE {"connecting", "open"}
    /\ pipe = FALSE
    /\ told = [i \in Items |-> 0]
    /\ timer = FALSE
    /\ token = 1
    /\ fetches = {NewFetch(1)}
    /\ crossed = FALSE
    /\ failed = FALSE
    /\ writes = {}
    /\ written = 0
    /\ since = 0
    /\ acked = told
    /\ view = server

ServerStep == (\E i \in Items : Change(i)) \/ Publish

StreamStep == Connect \/ Refused \/ Drop \/ Deliver

FetchStep ==
    \/ Load
    \/ \E f \in fetches : Land(f) \/ FetchFails(f) \/ \E i \in Items : Serve(f, i)

UserStep == \E kind \in {"edit", "create", "remove"}, i \in Items : StartWrite(kind, i)

WriteStep == \E w \in writes : ServeWrite(w) \/ ReadDto(w) \/ Settle(w)

Next == ServerStep \/ StreamStep \/ FetchStep \/ UserStep \/ WriteStep

Spec == Init /\ [][Next]_vars

\* The service publishes, the stream delivers, the timer fires and requests
\* are answered, or fail.
Fairness ==
    /\ WF_vars(Publish)
    /\ WF_vars(Connect)
    /\ WF_vars(Deliver)
    /\ WF_vars(FetchStep)
    /\ WF_vars(WriteStep)

FairSpec == Spec /\ Fairness

-----------------------------------------------------------------------------
(* Properties                                                              *)

TypeOK ==
    /\ grid \in BOOLEAN /\ steady \in BOOLEAN
    /\ server \in [Items -> Content]
    /\ changes \in Versions
    /\ conn \in {"connecting", "open", "closed"}
    /\ owed \in BOOLEAN /\ pipe \in BOOLEAN /\ timer \in BOOLEAN
    /\ told \in [Items -> Versions]
    /\ token \in Nat
    /\ fetches \subseteq Fetch
    /\ crossed \in BOOLEAN /\ failed \in BOOLEAN
    /\ writes \subseteq Write
    /\ written \in 0 .. MaxWrites
    /\ since \in Nat
    /\ acked \in [Items -> Versions]
    /\ view \in [Items -> Shown]

\* TasksView.tsx:72, "an out-of-order response can never clobber a later fetch",
\* and 73-74, "a refetch whose snapshot predates an optimistic paint is dropped instead
\* of wiping it": what the task view shows does not change with the response to
\* a fetch that began before one that has landed, or before this tab's last
\* write, answered or not.
OldNeverLands ==
    [][~grid => \A f \in fetches \ fetches' : f.token < since => view' = view]_vars

\* The grid has no tokens: what it promises, it promises as long as the
\* responses come back in the order in which the fetches were made.
InOrder == grid => ~crossed

\* The tab shows version v of item i, or a newer one.
Shows(i, v) == view[i] \in [ver : v .. MaxChanges, there : BOOLEAN]

\* A change whose event is sent while the stream is up is shown sooner or
\* later, unless the stream drops or the last fetch fails: neither the debounce,
\* nor fetches that are superseded, fail before the last, read the lists at
\* different times or (in the task view) come back out of order lose it.
ToldIsShown ==
    \A i \in Items, v \in 1 .. MaxChanges :
        told[i] = v ~> Shows(i, v) \/ ~Open \/ failed \/ written > 0 \/ ~InOrder

\* Nothing is on its way to the tab any more.
Quiet == ~owed /\ ~pipe /\ ~timer /\ fetches = {} /\ writes = {}

\* A write that was answered stays: once everything has settled and the last
\* fetch has not failed, the tab of a user who edits, creates or removes one item
\* shows it as it was answered or newer, though fetches that read it before the
\* write come back after the paint or after the answer.
OwnWriteStays ==
    steady /\ written <= 1 /\ Quiet /\ InOrder /\ ~failed =>
        \A i \in Items : acked[i] > 0 => Shows(i, acked[i])

=============================================================================

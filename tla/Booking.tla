------------------------------- MODULE Booking -------------------------------
(***************************************************************************)
(* The public booking page: TaskService.book_slot (backend/tasksd/         *)
(* service.py) over the event cache, the calendars on the server, and the  *)
(* ledger of bookings.                                                     *)
(*                                                                         *)
(* book_slot holds the service lock from the validation to the ledger, so  *)
(* bookings and syncs do not interleave; the owner's other CalDAV clients, *)
(* transport errors and crashes do.  A request names its event with a      *)
(* client_id, and a client that got no answer sends the same request       *)
(* again.  A request without client_id is one that is never sent again.    *)
(*                                                                         *)
(* A time is a pair <<start, end>> of ticks of one day.  The notice and    *)
(* the horizon of a link only take candidates away and are left out.       *)
(***************************************************************************)
EXTENDS Integers, Sequences

CONSTANTS
    Links,      \* booking links
    Configs,    \* Configs[l]: the settings the owner gives link l
    Cals,       \* event calendars
    Keys,       \* client_ids; each determines the UID of its event
    Meetings,   \* UIDs of events the owner adds with other clients
    Day,        \* ticks in the availability window
    Open, Gone, \* the states of a request that holds no time
    None

Uids  == Keys \cup Meetings
Times == {t \in (0 .. Day) \X (0 .. Day) : t[1] < t[2]}

Setting == [cal : Cals, len : 1 .. Day, buffer : 0 .. Day]
Request == [key : Keys, link : Links, cal : Cals, time : Times]

ASSUME DayAssumption     == Day \in Nat \ {0}
ASSUME ConfigsAssumption == Configs \in [Links -> SUBSET Setting]
ASSUME UidsAssumption    == Keys \cap Meetings = {}
ASSUME NoneAssumption    == /\ None \notin Times \cup Setting \cup Request
                            /\ None \notin Links \X (0 .. Day)
ASSUME StatesAssumption  == Open \notin Times \cup {Gone} /\ Gone \notin Times

VARIABLES
    link,       \* link[l]: the settings of l, or None while it is disabled
    wire,       \* wire[c][u]: the time of event u in calendar c, or None
    cache,      \* the same in the event rows of the cache
    ledger,     \* the bookings table
    asked,      \* asked[k]: what request k asks for, or None before it is sent
    refused,    \* requests answered with SlotTaken
    op,         \* the next step of the running book_slot
    job         \* its request

vars == <<link, wire, cache, ledger, asked, refused, op, job>>

-----------------------------------------------------------------------------
(* scheduling.py                                                           *)

Overlap(a, b) == a[1] < b[2] /\ b[1] < a[2]

\* Candidates step from the start of the window in units of the duration.
Candidates(c) ==
    {<<s, s + c.len>> : s \in {s \in 0 .. Day : s % c.len = 0 /\ s + c.len <= Day}}

\* pad: an interval widened by the buffer on both sides.
Padded(t, buffer) == <<t[1] - buffer, t[2] + buffer>>

\* Mutated form: only the link's own calendar blocks.
BusyOwn(c) == {cache[c.cal][u] : u \in {v \in Uids : cache[c.cal][v] # None}}

\* _link_busy: the cached events of all calendars, whoever wrote them.
Busy(c) == UNION {{cache[d][u] : u \in {v \in Uids : cache[d][v] # None}} : d \in Cals}

Slots(c) == {t \in Candidates(c) : \A b \in Busy(c) : ~Overlap(t, Padded(b, c.buffer))}

-----------------------------------------------------------------------------
(* The owner                                                               *)

\* The owner enables, changes, disables or deletes a link.
SetLink(l, c) ==
    /\ op = "idle"
    /\ link[l] # c
    /\ link' = [link EXCEPT ![l] = c]
    /\ UNCHANGED <<wire, cache, ledger, asked, refused, op, job>>

AddMeeting(c, u, t) ==
    /\ wire[c][u] = None
    /\ wire' = [wire EXCEPT ![c][u] = t]
    /\ UNCHANGED <<link, cache, ledger, asked, refused, op, job>>

\* The owner may remove any event, a booked one too.
RemoveEvent(c, u) ==
    /\ wire[c][u] # None
    /\ wire' = [wire EXCEPT ![c][u] = None]
    /\ UNCHANGED <<link, cache, ledger, asked, refused, op, job>>

\* A sync pass of calendar c (see SyncEngine).
Sync(c) ==
    /\ op = "idle"
    /\ cache[c] # wire[c]
    /\ cache' = [cache EXCEPT ![c] = wire[c]]
    /\ UNCHANGED <<link, wire, ledger, asked, refused, op, job>>

-----------------------------------------------------------------------------
(* book_slot                                                               *)

\* store.get_booking_by_event.
Booked(k) == \E i \in DOMAIN ledger : ledger[i].key = k

End == op' = "idle" /\ job' = None

\* A client sends request k for start s of link l, the same each time.  (A
\* client_id that another link has booked is refused, and changes nothing.)
Ask(k, l, s) ==
    /\ op = "idle"
    /\ link[l] # None
    /\ asked[k] \in {None, <<l, s>>}
    /\ asked' = [asked EXCEPT ![k] = <<l, s>>]

Span(l, s) == <<s, s + link[l].len>>

\* SlotTaken, after the re-validation under the lock.
Refuse(k, l, s) ==
    /\ Ask(k, l, s)
    /\ ~Booked(k)
    /\ k \notin refused
    /\ Span(l, s) \notin Slots(link[l])
    /\ refused' = refused \cup {k}
    /\ UNCHANGED <<link, wire, cache, ledger, op, job>>

\* Mutated form: a replay is not recognised.
BookAgain(k, l, s) ==
    /\ Ask(k, l, s)
    /\ Span(l, s) \in Slots(link[l])
    /\ LET c == link[l].cal
           t == Span(l, s)
       IN /\ wire' = [wire EXCEPT ![c][k] = IF @ = None THEN t ELSE @]
          /\ job' = [key |-> k, link |-> l, cal |-> c, time |-> t]
    /\ op' = "refresh"
    /\ UNCHANGED <<link, cache, ledger, refused>>

\* The time is free: PUT the event, If-None-Match.  An event that is there
\* already has our UID, and is left as it is.
Book(k, l, s) ==
    /\ Ask(k, l, s)
    /\ ~Booked(k)
    /\ Span(l, s) \in Slots(link[l])
    /\ LET c == link[l].cal
           t == Span(l, s)
       IN /\ wire' = [wire EXCEPT ![c][k] = IF @ = None THEN t ELSE @]
          /\ job' = [key |-> k, link |-> l, cal |-> c, time |-> t]
    /\ op' = "refresh"
    /\ UNCHANGED <<link, cache, ledger, refused>>

\* _refresh_from_wire; NotFound if the owner removed the event at once.
Refresh ==
    /\ op = "refresh"
    /\ IF wire[job.cal][job.key] = None
       THEN End /\ UNCHANGED cache
       ELSE /\ cache' = [cache EXCEPT ![job.cal][job.key] = wire[job.cal][job.key]]
            /\ op' = "record"
            /\ UNCHANGED job
    /\ UNCHANGED <<link, wire, ledger, asked, refused>>

\* insert_booking, and the confirmation.
Record ==
    /\ op = "record"
    /\ ledger' = Append(ledger, job)
    /\ End
    /\ UNCHANGED <<link, wire, cache, asked, refused>>

\* A transport error or a crash.
Fail ==
    /\ op # "idle"
    /\ End
    /\ UNCHANGED <<link, wire, cache, ledger, asked, refused>>

-----------------------------------------------------------------------------

Init ==
    /\ link = [l \in Links |-> None]
    /\ wire = [c \in Cals |-> [u \in Uids |-> None]]
    /\ cache = wire
    /\ ledger = <<>>
    /\ asked = [k \in Keys |-> None]
    /\ refused = {}
    /\ op = "idle"
    /\ job = None

Owner ==
    \/ \E l \in Links : \E c \in Configs[l] \cup {None} : SetLink(l, c)
    \/ \E c \in Cals, u \in Meetings, t \in Times : AddMeeting(c, u, t)
    \/ \E c \in Cals, u \in Uids : RemoveEvent(c, u)
    \/ \E c \in Cals : Sync(c)

Client == \E k \in Keys, l \in Links, s \in 0 .. Day : Refuse(k, l, s) \/ Book(k, l, s)

Next == Owner \/ Client \/ Refresh \/ Record \/ Fail

Spec == Init /\ [][Next]_vars

-----------------------------------------------------------------------------
(* Properties                                                              *)

\* The time request k holds: that of its event, once it is in the ledger.
Held(k) ==
    IF ~Booked(k) THEN Open
    ELSE LET b == ledger[CHOOSE i \in DOMAIN ledger : ledger[i].key = k]
         IN IF wire[b.cal][k] = None THEN Gone ELSE wire[b.cal][k]

R == INSTANCE Reservation WITH Spans <- Times, state <- [k \in Keys |-> Held(k)]

\* book_slot implements Reservation: whatever fails between the PUT and the
\* ledger, however often a request is sent again, and over all links and
\* calendars, no time is confirmed to two clients.
Reservations == R!Spec

\* A request is recorded once however often it is sent, even after the owner
\* has removed its event from the calendar.
OnceBooked ==
    \A i, j \in DOMAIN ledger : ledger[i].key = ledger[j].key => i = j

\* service.py:700-701, "return the original confirmation instead of failing the
\* re-validation as taken": a request whose event an earlier attempt has written,
\* and that is there still, at the time it asks for, is refused only if an event
\* of somebody else is in the way.
ReplayConfirmed ==
    [][\A k \in refused' \ refused :
           LET c == link[asked'[k][1]]
               t == Span(asked'[k][1], asked'[k][2])
           IN wire[c.cal][k] = t =>
                  \E d \in Cals, u \in Uids \ {k} :
                      cache[d][u] # None /\ Overlap(t, Padded(cache[d][u], c.buffer))]_vars

=============================================================================

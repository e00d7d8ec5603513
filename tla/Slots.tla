-------------------------------- MODULE Slots --------------------------------
(***************************************************************************)
(* The slot arithmetic of the public booking page: backend/tasksd/         *)
(* scheduling.py and its callers in service.py (_link_busy,                *)
(* public_link_info, book_slot), with the range query that feeds them.     *)
(*                                                                         *)
(* Instants are ticks of the link's time zone; day d starts at d * DayLen. *)
(* Changes of daylight saving time are left out.  Titles, addresses and    *)
(* the like do not appear.                                                 *)
(***************************************************************************)
EXTENDS Integers, Sequences, FiniteSets, SequencesExt

CONSTANTS
    DayLen,     \* ticks of a day
    Week,       \* days after which availability repeats (7)
    Inputs,     \* the settings an owner may enter for the link
    Events,     \* the events calendars may hold
    MaxSlots,   \* generate_slots' max_slots
    MaxOccurrences, \* expand_occurrences' max_occurrences
    MaxEvents,  \* bound: events at a time
    MaxNow,     \* bound: the last instant
    None

DayRange == [start : 0 .. DayLen, end : 0 .. DayLen]

Setting == [avail : [0 .. Week - 1 -> SUBSET DayRange], len : Nat \ {0}, buffer : Nat,
            notice : Nat, horizon : Nat]

\* An event has an end or a duration, or neither; it repeats every so many
\* ticks, or does not, and minutely says that its rule's FREQ is below the
\* hour; shift is how far its own wall clock is ahead of the
\* link's; own says that its calendar is the one the link books into.
Event == [start : Int, end : Int \cup {None}, dur : Nat \cup {None},
          every : Nat \cup {None}, minutely : BOOLEAN, shift : Int,
          allday : BOOLEAN, cancelled : BOOLEAN, own : BOOLEAN]

ASSUME LengthsAssumption == {DayLen, Week, MaxOccurrences} \subseteq Nat \ {0}
ASSUME InputsAssumption  == Inputs \subseteq Setting
ASSUME EventsAssumption  ==
    Events \subseteq Event /\ \A e \in Events : e.end = None \/ e.dur = None

VARIABLES
    link,       \* the link's settings
    events,     \* the events in the cache
    now         \* the time of the request

vars == <<link, events, now>>

Interval(s, e) == [start |-> s, end |-> e]

Overlap(a, b) == a.start < b.end /\ b.start < a.end

Before(a, b) == a.start < b.start \/ (a.start = b.start /\ a.end < b.end)

\* sorted(): the i-th interval has i - 1 before it.
Sorted(S) == [i \in 1 .. Cardinality(S) |->
                 CHOOSE x \in S : Cardinality({y \in S : Before(y, x)}) = i - 1]

DateOf(t) == t \div DayLen

-----------------------------------------------------------------------------
(* Availability                                                            *)

\* parse_availability refuses ranges that are empty, and ranges that overlap:
\* after sorting it compares neighbours.
ValidDay(ranges) ==
    LET parsed == Sorted(ranges)
    IN /\ \A r \in ranges : r.start < r.end
       /\ \A i \in 1 .. Len(parsed) - 1 : parsed[i + 1].start >= parsed[i].end

ValidLink(c) == \A d \in DOMAIN c.avail : ValidDay(c.avail[d])

-----------------------------------------------------------------------------
(* Intervals                                                               *)

\* Mutated form: an interval inside the last one cuts that short.
CoalesceLast(out, iv) ==
    IF out # <<>> /\ iv.start <= Last(out).end
    THEN [out EXCEPT ![Len(out)].end = iv.end]
    ELSE Append(out, iv)

Coalesce(out, iv) ==
    IF out # <<>> /\ iv.start <= Last(out).end
    THEN IF iv.end > Last(out).end THEN [out EXCEPT ![Len(out)].end = iv.end] ELSE out
    ELSE Append(out, iv)

Merge(ivs) == FoldLeft(Coalesce, <<>>, Sorted(ivs))

Padded(iv, buffer) == Interval(iv.start - buffer, iv.end + buffer)

Pad(ivs, buffer) == Merge({Padded(iv, buffer) : iv \in ToSet(ivs)})

\* Mutated form: only intervals that lie inside the window are shown.
ClipInside(ivs, window) ==
    SelectSeq(ivs, LAMBDA iv : window.start <= iv.start /\ iv.end <= window.end)

\* Merged intervals cut down to the window; the empty ones go.
Clip(ivs, window) ==
    LET Cut(iv) == Interval(Max({iv.start, window.start}), Min({iv.end, window.end}))
    IN SelectSeq([i \in DOMAIN ivs |-> Cut(ivs[i])], LAMBDA iv : iv.start < iv.end)

\* The scan of _overlaps_any stops at the first interval that starts behind
\* the slot or overlaps it.
OverlapsAny(slot, blocked) ==
    LET stops == {i \in DOMAIN blocked : \/ blocked[i].start >= slot.end
                                         \/ Overlap(slot, blocked[i])}
    IN stops # {} /\ blocked[Min(stops)].start < slot.end

-----------------------------------------------------------------------------
(* Events                                                                  *)

\* Whole days, cancelled events, and events without an end block nothing.
Blocks(ev) == ~ev.allday /\ ~ev.cancelled /\ (ev.end # None \/ ev.dur # None)

EndOf(ev) == IF ev.end # None THEN ev.end ELSE ev.start + ev.dur

BusyIntervals(evs) ==
    Merge({Interval(ev.start, EndOf(ev)) :
              ev \in {e \in evs : Blocks(e) /\ EndOf(e) > e.start}})

\* What the row of ev says about its end: COALESCE(dtend, dtstart).
RowEnd(ev) == IF ev.end # None THEN ev.end ELSE ev.start

\* store.get_events_in_range: ISO strings compare as wall clocks, whichever
\* zone they are in; recurring events are only bounded above.
Selected(evs, from, to) ==
    {ev \in evs : /\ ev.start + ev.shift <= to
                  /\ ev.every # None \/ RowEnd(ev) + ev.shift >= from}

\* The k-th occurrence.
Occurrence(ev, k) ==
    [ev EXCEPT !.start = @ + k * ev.every,
               !.end   = IF @ = None THEN None ELSE @ + k * ev.every,
               !.every = None]

\* The occurrences of ev that begin before instant t.
Occurrences(ev, t) ==
    IF ev.every = None THEN {ev}
    ELSE {Occurrence(ev, k) : k \in {k \in 0 .. t - ev.start : ev.start + k * ev.every < t}}

\* The instant by which ev's list of occurrences ends: explosive rules are read
\* from the window's start on until there are enough, whatever its end.
ReadUntil(ev, from, to) ==
    IF ev.minutely
    THEN Max({from - ev.shift, ev.start}) + MaxOccurrences * ev.every
    ELSE to - ev.shift

\* The first n occurrences of S.
FirstOf(S, n) == {o \in S : Cardinality({p \in S : p.start < o.start}) < n}

\* recur.expand_occurrences: those that overlap [from, to), on the event's own
\* wall clock, but never more than max_occurrences.
Expanded(ev, from, to) ==
    IF ev.every = None THEN {ev}
    ELSE FirstOf({o \in Occurrences(ev, ReadUntil(ev, from, to)) : EndOf(o) + o.shift > from},
                 MaxOccurrences)

EventsInRange(evs, from, to) ==
    UNION {Expanded(ev, from, to) : ev \in Selected(evs, from, to)}

\* _link_busy: the window is widened by a day on both sides.
LinkBusy(evs, window) ==
    BusyIntervals(EventsInRange(evs, window.start - DayLen, window.end + DayLen))

-----------------------------------------------------------------------------
(* generate_slots                                                          *)

\* Candidates step from the start of the window in units of the duration.
Grid(win, len) ==
    [i \in 1 .. (win.end - win.start) \div len |->
        Interval(win.start + (i - 1) * len, win.start + i * len)]

Windows(c, day) ==
    LET ranges == Sorted(c.avail[day % Week])
    IN [i \in DOMAIN ranges |-> Interval(day * DayLen + ranges[i].start,
                                         day * DayLen + ranges[i].end)]

DaySlots(c, day, blocked, openFrom) ==
    LET wins == Windows(c, day)
        Free(slot) == slot.start >= openFrom /\ ~OverlapsAny(slot, blocked)
    IN FlattenSeq([i \in DOMAIN wins |-> SelectSeq(Grid(wins[i], c.len), Free)])

\* The days from the notice to the horizon, or only one of them, up to
\* MaxSlots slots.
GenerateSlots(c, busy, onlyDay) ==
    LET openFrom == now + c.notice
        blocked  == Pad(busy, c.buffer)
        first    == DateOf(openFrom)
        last     == DateOf(now) + c.horizon
        slots    == FlattenSeq([i \in 1 .. Max({last - first + 1, 0}) |->
                        IF onlyDay \in {None, first + i - 1}
                        THEN DaySlots(c, first + i - 1, blocked, openFrom)
                        ELSE <<>>])
    IN SubSeq(slots, 1, Min({Len(slots), MaxSlots}))

\* public_link_info: the window, the slots, and the busy times it may show.
PageWindow == Interval(now, (DateOf(now) + link.horizon + 1) * DayLen)

PageSlots == GenerateSlots(link, LinkBusy(events, PageWindow), None)

PageBusy == Clip(LinkBusy({ev \in events : ev.own}, PageWindow), PageWindow)

\* Mutated form: only the events of the day itself are looked at.
BookableNarrow(day) ==
    GenerateSlots(link, BusyIntervals(EventsInRange(events, day * DayLen, (day + 1) * DayLen)), day)

\* book_slot: the slots of the day of the requested start.
Bookable(day) ==
    GenerateSlots(link, LinkBusy(events, Interval(day * DayLen, (day + 1) * DayLen)), day)

-----------------------------------------------------------------------------
(* A link whose settings, calendars and clock change                       *)

Init ==
    /\ link \in {c \in Inputs : ValidLink(c)}
    /\ events = {}
    /\ now = 0

SetLink(c) ==
    /\ ValidLink(c)
    /\ link' = c
    /\ UNCHANGED <<events, now>>

AddEvent(ev) ==
    /\ Cardinality(events) < MaxEvents
    /\ events' = events \cup {ev}
    /\ UNCHANGED <<link, now>>

RemoveEvent(ev) ==
    /\ events' = events \ {ev}
    /\ UNCHANGED <<link, now>>

Tick ==
    /\ now < MaxNow
    /\ now' = now + 1
    /\ UNCHANGED <<link, events>>

Next ==
    \/ \E c \in Inputs : SetLink(c)
    \/ \E ev \in Events : AddEvent(ev)
    \/ \E ev \in events : RemoveEvent(ev)
    \/ Tick

Spec == Init /\ [][Next]_vars

-----------------------------------------------------------------------------
(* Properties                                                              *)

\* The time the events of evs take up until t, event by event, without the
\* range query.
BusyUntil(evs, t) ==
    {Interval(o.start, EndOf(o)) :
        o \in {o \in UNION {Occurrences(ev, t) : ev \in evs} :
                   Blocks(o) /\ EndOf(o) > o.start}}

\* What a slot is: a span of the grid of a window that is open on that day,
\* not before the notice, that no event comes closer to than the buffer.
Offered ==
    LET days == DateOf(now) .. DateOf(now) + link.horizon
        busy == BusyUntil(events, (DateOf(now) + link.horizon + 2) * DayLen)
        Aligned(r) == {s \in r.start .. r.end - link.len : (s - r.start) % link.len = 0}
        spans == UNION {{Interval(d * DayLen + s, d * DayLen + s + link.len) :
                             s \in UNION {Aligned(r) : r \in link.avail[d % Week]}} : d \in days}
    IN {s \in spans : /\ s.start >= now + link.notice
                      /\ \A b \in busy : ~Overlap(s, Padded(b, link.buffer))}

\* No event has more occurrences in the page's window than one expansion lists.
WithinCap ==
    \A ev \in {ev \in events : ev.every # None} :
        Cardinality({o \in Occurrences(ev, PageWindow.end + DayLen - ev.shift) :
                         EndOf(o) + o.shift > PageWindow.start - DayLen}) <= MaxOccurrences

\* The page offers exactly the free slots, in order, and the first MaxSlots of
\* them if there are more: merging, padding, the scan that stops early and the
\* range query of the database hide no event and no slot.  An event beyond the
\* cap is hidden in part, and the page may offer slots that are taken, but it
\* still withholds no free one.
PageRight ==
    LET slots == Sorted(Offered)
    IN /\ WithinCap => PageSlots = SubSeq(slots, 1, Min({Len(slots), MaxSlots}))
       /\ Len(PageSlots) < MaxSlots => Offered \subseteq ToSet(PageSlots)

\* What the page offers can be booked, unless an event is beyond the cap, which
\* hides more of it from the page than from book_slot; and what can be booked
\* is offered, as long as the page is not full: book_slot looks at one day and
\* reads other events than the page, but agrees with it on the slots of the day.
PageBookable ==
    /\ WithinCap => \A i \in DOMAIN PageSlots :
           PageSlots[i] \in ToSet(Bookable(DateOf(PageSlots[i].start)))
    /\ Len(PageSlots) < MaxSlots =>
           \A day \in DateOf(now) .. DateOf(now) + link.horizon + 1 :
               ToSet(Bookable(day)) \subseteq ToSet(PageSlots)

\* The busy times on the page are those of the link's own calendar inside the
\* window, to the instant and merged: nothing of other calendars, of cancelled
\* or whole-day events, and no buffer shows, and nothing that is not busy, but
\* only part of an event beyond the cap.
BusyShown ==
    LET own   == BusyUntil({ev \in events : ev.own}, PageWindow.end)
        busy  == {t \in PageWindow.start .. PageWindow.end - 1 :
                      \E b \in own : b.start <= t /\ t < b.end}
        shown == UNION {iv.start .. iv.end - 1 : iv \in ToSet(PageBusy)}
    IN /\ shown \subseteq busy
       /\ WithinCap => shown = busy
       /\ \A i \in 2 .. Len(PageBusy) : PageBusy[i - 1].end < PageBusy[i].start

=============================================================================

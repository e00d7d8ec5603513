------------------------------- MODULE Series -------------------------------
(***************************************************************************)
(* The edits of a recurring event: backend/tasksd/ical/edit.py, with the   *)
(* occurrences backend/tasksd/ical/recur.py expands it to.  (WritePath has *)
(* how the edited body gets to the server.)                                *)
(*                                                                         *)
(* A time is a day number, and only starts are modelled.  A rule repeats   *)
(* every week, on the weekday of the start or on a BYDAY list of weekdays; *)
(* other FREQs, and an INTERVAL, are not modelled.                         *)
(* Time zones, and the mixing of dates and times, are left out.            *)
(***************************************************************************)
EXTENDS Integers, Sequences, FiniteSetsExt, Functions

CONSTANTS
    Week,       \* days of a week (7)
    Inputs,     \* the series other clients may have stored
    Deltas,     \* how far users move occurrences
    Horizon,    \* bound: the last day that users look at
    MaxEdits,   \* bound: edits
    None

Days == Int

Rule == [by : SUBSET (0 .. Week - 1), count : Nat \ {0}, until : {None}]
        \cup [by : SUBSET (0 .. Week - 1), count : {None}, until : Days \cup {None}]

\* over[r]: the start of the override whose RECURRENCE-ID is r.
IsSeries(s) ==
    /\ DOMAIN s = {"start", "rule", "exdate", "rdate", "over"}
    /\ s.start \in Days
    /\ s.rule \in Rule \cup {None}
    /\ s.exdate \subseteq Days /\ s.rdate \subseteq Days
    /\ DOMAIN s.over \subseteq Days /\ \A r \in DOMAIN s.over : s.over[r] \in Days

ASSUME WeekAssumption   == Week \in Nat \ {0} /\ Horizon \in Nat /\ MaxEdits \in Nat
ASSUME InputsAssumption == \A s \in Inputs : IsSeries(s)
ASSUME DeltasAssumption == Deltas \subseteq Int \ {0}
ASSUME NoneAssumption   == None \notin Int \cup Rule

VARIABLES
    parts,      \* the resources of the event: the series and its split-off tails
    edits       \* edits so far

vars == <<parts, edits>>

-----------------------------------------------------------------------------
(* Expansion                                                               *)

OnRule(s, t) ==
    /\ s.rule # None
    /\ t >= s.start
    /\ IF s.rule.by = {} THEN (t - s.start) % Week = 0 ELSE t % Week \in s.rule.by

\* The slots the rule generates up to day h: EXDATEs count, RDATEs do not.
Generated(s, h) ==
    {t \in s.start .. h :
        /\ OnRule(s, t)
        /\ s.rule.until # None => t <= s.rule.until
        /\ s.rule.count # None =>
               Cardinality({u \in s.start .. t - 1 : OnRule(s, u)}) < s.rule.count}

\* DTSTART is a slot of its own, unless the rule ended before it.
StartSlot(s) ==
    IF s.rule # None /\ s.rule.until # None /\ s.start > s.rule.until THEN {} ELSE {s.start}

Slots(s, h) ==
    {t \in (Generated(s, h) \cup StartSlot(s) \cup s.rdate) \ s.exdate : t <= h}

\* expand_occurrences: an override takes the place of its slot.
Shown(s, h) ==
    {[slot |-> t, at |-> t] : t \in Slots(s, h) \ DOMAIN s.over}
    \cup {[slot |-> r, at |-> s.over[r]] : r \in {r \in DOMAIN s.over : r <= h}}

\* The rows is_recurring is set for.
Recurring(s) == s.rule # None \/ s.rdate # {}

-----------------------------------------------------------------------------
(* The edits, as functions from the old body to the new one                *)

\* Where the occurrence of slot r is: its override's start, or the slot.
StartOf(s, r) == IF r \in DOMAIN s.over THEN s.over[r] ELSE r

\* The overrides whose RECURRENCE-ID is in S.
Kept(over, S) == Restrict(over, DOMAIN over \cap S)

\* Mutated form: an existing override is replaced by a fresh one, whole series.
OverriddenAll(s, r, t) ==
    [s EXCEPT !.over = [x \in DOMAIN @ \cup {r} |-> t]]

\* apply_occurrence_override: find or create the override, and move it to t.
Overridden(s, r, t) ==
    [s EXCEPT !.over = [x \in DOMAIN @ \cup {r} |-> IF x = r THEN t ELSE @[x]]]

\* exclude_occurrence: an EXDATE, and the slot's override goes.
Excluded(s, r) ==
    [s EXCEPT !.exdate = @ \cup {r}, !.over = Kept(@, DOMAIN @ \ {r})]

Moved(S, d) == {t + d : t \in S}

\* Mutated form: UNTIL stays where it is.
MovedRuleOpen(rule, d) ==
    IF rule = None THEN None ELSE [rule EXCEPT !.by = {(w + d) % Week : w \in @}]

\* _shift_rrule: UNTIL moves along, and the BYDAY list rotates.
MovedRule(rule, d) ==
    IF rule = None THEN None
    ELSE [rule EXCEPT !.by = {(w + d) % Week : w \in @},
                      !.until = IF @ = None THEN None ELSE @ + d]

\* shift_series by d days: DTSTART, the rule, both lists, and the overrides.
Shifted(s, d) ==
    [start  |-> s.start + d,
     rule   |-> MovedRule(s.rule, d),
     exdate |-> Moved(s.exdate, d),
     rdate  |-> Moved(s.rdate, d),
     over   |-> [x \in Moved(DOMAIN s.over, d) |-> s.over[x - d] + d]]

\* Mutated form: the RDATEs stay, since UNTIL is there to bound the rule.
HeadRdates(s, r) ==
    [s EXCEPT !.rule   = IF @ = None THEN None
                         ELSE [@ EXCEPT !.count = None, !.until = r - 1],
              !.over   = Kept(@, {t \in DOMAIN @ : t < r})]

\* split_series, the head: the rule ends before the anchor r, and the list
\* entries and overrides from the anchor on go.
HeadOf(s, r) ==
    [s EXCEPT !.rule   = IF @ = None THEN None
                         ELSE [@ EXCEPT !.count = None, !.until = r - 1],
              !.exdate = {t \in @ : t < r},
              !.rdate  = {t \in @ : t < r},
              !.over   = Kept(@, {t \in DOMAIN @ : t < r})]

\* _count_consumed: the slots of the rule before the anchor.
CountConsumed(s, r) == Cardinality(Generated(s, r - 1))

\* Mutated form: no clamp.
RemainingRaw(s, r) == s.rule.count - CountConsumed(s, r)

Remaining(s, r) == Max({s.rule.count - CountConsumed(s, r), 1})

\* split_series, the tail: it starts at t instead of the anchor r, with what is
\* left of COUNT, and with the list entries and overrides from the anchor on.
TailOf(s, r, t) ==
    [s EXCEPT !.start  = t,
              !.rule   = IF @ = None \/ @.count = None THEN @
                         ELSE [@ EXCEPT !.count = Remaining(s, r)],
              !.exdate = {x \in @ : x >= r},
              !.rdate  = {x \in @ : x >= r},
              !.over   = Kept(@, {x \in DOMAIN @ : x >= r})]

-----------------------------------------------------------------------------
(* The user picks an occurrence that is shown, and drags it by d days, or   *)
(* by 0 to change something else                                           *)

Pick(p, r) ==
    /\ edits < MaxEdits
    /\ Recurring(parts[p])
    /\ r \in {o.slot : o \in Shown(parts[p], Horizon)}
    /\ edits' = edits + 1

\* "This event".
OverrideEvent(p, r, d) ==
    /\ Pick(p, r)
    /\ parts' = [parts EXCEPT ![p] = Overridden(@, r, StartOf(@, r) + d)]

ExcludeEvent(p, r) ==
    /\ Pick(p, r)
    /\ parts' = [parts EXCEPT ![p] = Excluded(@, r)]

\* "All events", with a time change: the drag of one occurrence moves all.
ShiftEvent(p, r, d) ==
    /\ Pick(p, r)
    /\ d # 0
    /\ parts' = [parts EXCEPT ![p] = Shifted(@, d)]

\* "This and following".  Without a time change the tail starts at the anchor.
SplitEvent(p, r, d) ==
    /\ Pick(p, r)
    /\ LET s == parts[p]
           t == IF d = 0 THEN r ELSE StartOf(s, r) + d
       IN parts' = Append([parts EXCEPT ![p] = HeadOf(s, r)], TailOf(s, r, t))

\* Delete "this and following": only the head is written.
TruncateEvent(p, r) ==
    /\ Pick(p, r)
    /\ parts' = [parts EXCEPT ![p] = HeadOf(@, r)]

Init ==
    /\ parts \in {<<s>> : s \in Inputs}
    /\ edits = 0

Next ==
    \E p \in DOMAIN parts :
        \E r \in {o.slot : o \in Shown(parts[p], Horizon)} :
            \/ ExcludeEvent(p, r)
            \/ TruncateEvent(p, r)
            \/ \E d \in Deltas \cup {0} :
                   OverrideEvent(p, r, d) \/ ShiftEvent(p, r, d) \/ SplitEvent(p, r, d)

Spec == Init /\ [][Next]_vars

-----------------------------------------------------------------------------
(* Properties                                                              *)

\* Also: a split emits no COUNT=0, which no client would accept.
TypeOK ==
    /\ \A p \in DOMAIN parts :
           IsSeries(parts[p]) /\ (parts[p].rule # None => parts[p].rule.count # 0)
    /\ edits \in 0 .. MaxEdits

\* The occurrences shown of s, moved by d days.
ShownMoved(S, d) == {[slot |-> o.slot + d, at |-> o.at + d] : o \in S}

Others(s, r) == {o \in Shown(s, Horizon) : o.slot # r}

Picks(p) == {o.slot : o \in Shown(parts[p], Horizon)}

\* An edit of "this event" changes this occurrence and no other: wherever it
\* was moved before, whether a list or the rule put it there, and though its
\* series was shifted or split since.
OnlyThis ==
    [][\A p \in DOMAIN parts : \A r \in Picks(p) :
           /\ ExcludeEvent(p, r) => Shown(parts'[p], Horizon) = Others(parts[p], r)
           /\ \A d \in Deltas : OverrideEvent(p, r, d) =>
                  Shown(parts'[p], Horizon) =
                      Others(parts[p], r) \cup {[slot |-> r, at |-> StartOf(parts[p], r) + d]}]_vars

\* Dragging "all events" moves every occurrence by the same offset: none
\* appears, none is lost, no deleted one comes back and no moved one parts
\* from its slot.
ShiftsAll ==
    [][\A p \in DOMAIN parts, d \in Deltas : \A r \in Picks(p) :
           ShiftEvent(p, r, d) =>
               Shown(parts'[p], Horizon + d) = ShownMoved(Shown(parts[p], Horizon), d)]_vars

\* Head and tail of a split show the occurrences before and from the anchor.
HeadExact(s, r, head) == Shown(head, Horizon) = {o \in Shown(s, Horizon) : o.slot < r}

TailExact(s, r, d, tail) ==
    Shown(tail, Horizon + d) = ShownMoved({o \in Shown(s, Horizon) : o.slot >= r}, d)

\* The anchors the rule itself generates, or any after the start if there is no
\* rule.
Regular(s, r) == IF s.rule = None THEN r > s.start ELSE r \in Generated(s, Horizon)

\* A split without a time change, or of a series that just repeats, at an
\* occurrence of the rule loses nothing, doubles nothing and brings nothing
\* back, whatever the COUNT, UNTIL, lists and overrides; and deleting "this and
\* following" leaves exactly what was before.  Head and tail share the COUNT: so
\* edit.py:638, "A COUNT-bounded rule keeps its overall length", and its test
\* (test_split_count_series_tail_is_bounded); docs/recurrence-findings.md:33,
\* "drops a COUNT bound on the split-off tail", says otherwise and is out of date.
SplitKeeps ==
    [][\A p \in DOMAIN parts : \A r \in Picks(p) : Regular(parts[p], r) =>
           LET s == parts[p]
               bare == s.rule # None /\ s.rule.until = None /\ s.rule.by = {}
                          /\ DOMAIN s.over = {} /\ s.exdate \cup s.rdate = {}
           IN /\ TruncateEvent(p, r) => HeadExact(s, r, parts'[p])
              /\ \A d \in Deltas \cup {0} : SplitEvent(p, r, d) /\ (d = 0 \/ bare) =>
                     HeadExact(s, r, parts'[p]) /\ TailExact(s, r, d, parts'[Len(parts')])]_vars

=============================================================================

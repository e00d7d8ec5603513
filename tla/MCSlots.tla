------------------------------ MODULE MCSlots ------------------------------
(***************************************************************************)
(* An instance of Slots: days of four ticks.                               *)
(***************************************************************************)
EXTENDS Slots

Weekly(monday, tuesday) == [d \in 0 .. 1 |-> IF d = 0 THEN monday ELSE tuesday]

R(s, e) == [start |-> s, end |-> e]

Cfg(avail, len, buffer, notice) ==
    [avail |-> avail, len |-> len, buffer |-> buffer, notice |-> notice, horizon |-> 1]

\* One range, two adjacent ones, overlapping ones, an empty one, a partial
\* last slot, a day off.
LinkInputs ==
    {Cfg(Weekly({R(0, 4)}, {R(1, 4)}), 1, 1, 0),
     Cfg(Weekly({R(0, 2), R(2, 4)}, {}), 2, 0, 1),
     Cfg(Weekly({R(0, 3)}, {R(0, 2), R(3, 4)}), 2, 1, 2),
     Cfg(Weekly({R(0, 4)}, {R(0, 3), R(2, 4)}), 1, 0, 0),
     Cfg(Weekly({R(2, 2)}, {R(0, 4)}), 1, 0, 0)}

Timed(s, n, shift, own) ==
    [start |-> s, end |-> s + n, dur |-> None, every |-> None, minutely |-> FALSE, shift |-> shift,
     allday |-> FALSE, cancelled |-> FALSE, own |-> own]

\* Timed events from the day before to the day after the horizon, also in
\* other zones; and events with a duration, a repetition (of which two exceed the
\* cap), or that do not block.
EventInputs ==
    {Timed(s, n, 0, n = 1) : s \in -2 .. 9, n \in {1, 3}}
    \cup {Timed(s, 1, shift, TRUE) : s \in {0, 5, 8}, shift \in {-2, 2}}
    \cup {[Timed(s, 0, 0, TRUE) EXCEPT !.end = None, !.dur = 2] : s \in {-1, 3, 6}}
    \cup {[Timed(-6, 1, 0, TRUE) EXCEPT !.every = n, !.minutely = (n = 2)] : n \in {2, 3, 5}}
    \cup {Timed(2, 0, 0, TRUE),
          [Timed(2, 2, 0, TRUE) EXCEPT !.end = None],
          [Timed(2, 2, 0, TRUE) EXCEPT !.cancelled = TRUE],
          [Timed(0, 4, 0, TRUE) EXCEPT !.allday = TRUE]}

=============================================================================

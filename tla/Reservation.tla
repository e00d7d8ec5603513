----------------------------- MODULE Reservation -----------------------------
(***************************************************************************)
(* What the public booking page promises: a client's request is confirmed  *)
(* at most once, for a time that no other confirmed booking holds, until   *)
(* its event is removed from the calendar.                                 *)
(***************************************************************************)
CONSTANTS
    Keys,       \* booking requests, by client_id
    Spans,      \* the times a booking may take
    Open, Gone, \* the states of a request that holds no time
    Overlap(_, _)

VARIABLE state  \* state[k]: Open, Gone, or the time k holds

Init == state = [k \in Keys |-> Open]

Holding == {k \in Keys : state[k] \in Spans}

Reserve(k, i) ==
    /\ state[k] = Open
    /\ \A j \in Holding : ~Overlap(state[j], i)
    /\ state' = [state EXCEPT ![k] = i]

\* The event is removed, perhaps before its booking is recorded.
Cancel(k) ==
    /\ state[k] # Gone
    /\ state' = [state EXCEPT ![k] = Gone]

Next == \E k \in Keys : Cancel(k) \/ \E i \in Spans : Reserve(k, i)

Spec == Init /\ [][Next]_state

=============================================================================

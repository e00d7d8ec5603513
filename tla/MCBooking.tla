----------------------------- MODULE MCBooking -----------------------------
(***************************************************************************)
(* Instances of Booking.                                                   *)
(***************************************************************************)
EXTENDS Booking, TLC

CONSTANTS l1, l2, c1, c2, k1, k2

\* Each link keeps its duration and its calendar.
FixedLength ==
    (l1 :> {[cal |-> c1, len |-> 1, buffer |-> 0]})
    @@ (l2 :> {[cal |-> c2, len |-> 2, buffer |-> 1]})

\* Requests may be exchanged: neither Booking nor Reservation orders them.
SymmetricKeys == Permutations({k1, k2})

\* One link, whose settings do not change.
OneLink == l1 :> {[cal |-> c1, len |-> 1, buffer |-> 0]}

=============================================================================

----------------------------- MODULE MCWritePath -----------------------------
(***************************************************************************)
(* Instances of WritePath: who does what.                                  *)
(***************************************************************************)
EXTENDS WritePath

CONSTANTS c1, c2, t1, t2

\* One calendar with splits, whose tails foreign clients work on too; and two
\* calendars with moves.
SeriesAndMoves ==
    {[cals |-> {c1}, occs |-> {1, 2}, foreign |-> {Event, t1, t2},
      handlers |-> {"create", "edit", "delete", "split"}],
     [cals |-> {c1, c2}, occs |-> {1}, foreign |-> {Event},
      handlers |-> {"create", "edit", "delete", "move"}]}

MovesOnly ==
    {[cals |-> {c1, c2}, occs |-> {1, 2}, foreign |-> {Event}, handlers |-> {"create", "move"}]}

=============================================================================

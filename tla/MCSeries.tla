------------------------------ MODULE MCSeries ------------------------------
(***************************************************************************)
(* An instance of Series: weeks of three days.                             *)
(***************************************************************************)
EXTENDS Series, TLC

Weekly(by, count, until) == [by |-> by, count |-> count, until |-> until]

Plain(rule) == [start |-> 0, rule |-> rule, exdate |-> {}, rdate |-> {}, over |-> <<>>]

\* Endless, counted and bounded rules, with and without BYDAY; a start off the
\* BYDAY list; an exception, an extra date and a moved occurrence; dates without
\* a rule.
AllKinds ==
    {Plain(Weekly({}, None, None)),
     Plain(Weekly({}, 3, None)),
     Plain(Weekly({1, 2}, 4, None)),
     Plain(Weekly({0, 1}, None, 6)),
     [Plain(Weekly({}, 3, None)) EXCEPT !.exdate = {3}, !.rdate = {4}],
     [Plain(Weekly({}, None, 6)) EXCEPT !.over = 3 :> 5, !.rdate = {8}],
     [Plain(None) EXCEPT !.rdate = {2, 5}]}

\* A day back, and two days on.
Drags == {-1, 2}

=============================================================================

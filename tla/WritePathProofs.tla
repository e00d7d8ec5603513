-------------------------- MODULE WritePathProofs --------------------------
(***************************************************************************)
(* Proofs about WritePath, for any calendars, occurrences and changes, any *)
(* number of splits, and any choice of who does what.                      *)
(***************************************************************************)
EXTENDS WritePath, TLAPS

DeleteOps == {"delete", "head", "redelete", "forget"}
SplitOps  == {"splithead", "splitreget", "splittail", "splithead2", "splitundo", "splitrefresh"}

-----------------------------------------------------------------------------
(* Types                                                                   *)

\* What the running handler knows at each of its steps.
JobKnown ==
    /\ op = "idle" => job = NoJob
    /\ op \in {"refresh", "reget", "reput"} => job.dst \in Cals
    /\ op \in {"reget", "reput"} => job.mark \in Marks /\ job.cal = None
    /\ op \in DeleteOps \cup SplitOps => job.cal \in Cals
    /\ op \in SplitOps => job.cut \in Occs /\ job.dst = None
    /\ op \in {"reput", "redelete"} \cup (SplitOps \ {"splitrefresh"}) => job.body \in Body
    /\ op \in {"splittail", "splitundo"} => job.tail \in Tails

Types == TypeOK /\ JobKnown

LEMMA BodyTypes ==
    ASSUME NEW b \in Body
    PROVE  /\ \A m \in Marks : /\ Apply(b, m) \in Body /\ Apply(b, m).occ = b.occ
                               /\ Apply(b, m).marks = b.marks \cup {m}
           /\ \A k \in Occs : /\ Head(b, k) \in Body /\ Head(b, k).marks = b.marks
                              /\ Head(b, k).occ = {o \in b.occ : o < k}
           /\ \A k \in Occs, u \in Tails :
                  /\ Tail(b, k, u) \in Body /\ Tail(b, k, u).marks = b.marks
                  /\ Tail(b, k, u).occ = {k} \cup {o \in b.occ : o > k}
  BY DEF Body, Apply, Head, Tail, Names

LEMMA Places ==
    /\ \A c \in Cals : At(c) \in Hrefs
    /\ \A c \in Cals, t \in Tails : <<c, t>> \in Hrefs
    /\ \A c, d \in Cals, t \in Tails : At(c) # <<d, t>>
    /\ \A c, d \in Cals : c # d => At(c) # At(d)
  BY TailsAssumption DEF TailsAssumption, At, Hrefs, Names

LEMMA TypesInit == Init => Types
  BY DEF Init, Types, TypeOK, JobKnown, NoJob, Ops, DeleteOps, SplitOps

LEMMA TypesStep == Types /\ [Next]_vars => Types'
<1> SUFFICES ASSUME Types, [Next]_vars PROVE Types'
  OBVIOUS
<1> USE DEF Types, TypeOK, JobKnown, Ops, DeleteOps, SplitOps
<1>n. None \notin Body /\ None \notin Cals
  BY NoneAssumption DEF NoneAssumption
<1>1. ASSUME NEW h \in Hrefs, NEW m \in Marks, ForeignEdit(h, m) PROVE Types'
  BY <1>1, BodyTypes DEF ForeignEdit, Put
<1>2. ASSUME NEW h \in Hrefs, ForeignDelete(h) PROVE Types'
  BY <1>2 DEF ForeignDelete, Put, Renounce
<1>3. ASSUME NEW c \in Cals, Sync(c) PROVE Types'
  BY <1>3, Places DEF Sync
<1>4. ASSUME NEW c \in scene.cals, NEW m \in Marks, Create(c, m) PROVE Types'
  <2>1. c \in Cals /\ scene.occs \in SUBSET Occs
    BY ScenesAssumption DEF ScenesAssumption
  <2>2. [uid |-> Event, marks |-> {m}, occ |-> scene.occs] \in Body
    BY <2>1 DEF Body, Names
  <2>3. /\ UNCHANGED <<scene, cache, fresh>>
        /\ op' = "refresh" /\ job' = [NoJob EXCEPT !.dst = c]
        /\ op = "idle"
    BY <1>4 DEF Create, Start, Step
  <2>4. \/ \E b \in Body : /\ wire' = [wire EXCEPT ![At(c)] = b]
                           /\ acked' = acked \cup {m} /\ kept' = scene.occs
        \/ UNCHANGED <<wire, acked, kept>>
    BY <1>4, <2>2 DEF Create, Put
  <2>5. wire' \in [Hrefs -> Body \cup {None}] /\ acked' \in SUBSET Marks /\ kept' \in SUBSET Occs
    BY <2>1, <2>4
  <2>6. job'.dst \in Cals
    BY <2>1, <2>3 DEF NoJob
  <2>7. job' \in [cal : Cals \cup {None}, dst : Cals \cup {None}, body : Body \cup {None},
                 tail : Tails \cup {None}, cut : Occs \cup {None}, mark : Marks \cup {None}]
    BY <2>1, <2>3 DEF NoJob
  <2> QED BY <2>3, <2>5, <2>6, <2>7
<1>5. ASSUME NEW c \in scene.cals, NEW m \in Marks, Edit(c, m) PROVE Types'
  <2>1. c \in Cals /\ cache[c] \in Body
    BY <1>5, ScenesAssumption DEF ScenesAssumption, Edit
  <2>2. At(c) \in Hrefs /\ Apply(cache[c], m) \in Body
    BY <2>1, BodyTypes, Places
  <2> QED BY <1>5, <2>1, <2>2 DEF Edit, Start, Put, Step, NoJob
<1>6. CASE Reget
  BY <1>6, Places DEF Reget, Step, End, NoJob
<1>7. CASE Reput
  BY <1>7, Places, BodyTypes DEF Reput, Step, End, NoJob, Put
<1>8. CASE Refresh
  BY <1>8, Places DEF Refresh, End, NoJob
<1>9. ASSUME NEW c \in Cals, Delete(c) PROVE Types'
  BY <1>9 DEF Delete, Start, Step, NoJob
<1>10. CASE DeleteCached
  BY <1>10, Places DEF DeleteCached, Drop, Put, Renounce, Step
<1>11. CASE HeadEtag
  BY <1>11, Places DEF HeadEtag, Step
<1>12. CASE DeleteCurrent
  BY <1>12, Places DEF DeleteCurrent, Drop, Put, Renounce, Step, End, NoJob
<1>13. CASE Forget
  BY <1>13 DEF Forget, Step, End, NoJob
<1>14. ASSUME NEW c \in scene.cals, NEW d \in scene.cals, Move(c, d) PROVE Types'
  <2>1. c \in Cals /\ d \in Cals /\ cache[c] \in Body
    BY <1>14, ScenesAssumption DEF ScenesAssumption, Move
  <2> QED BY <1>14, <2>1, Places DEF Move, Start, Put, Step, End, NoJob
<1>15. ASSUME NEW c \in Cals, NEW k \in Occs, Split(c, k) PROVE Types'
  <2>1. PICK t \in fresh : /\ Put(<<c, t>>, Tail(cache[c], k, t))
                           /\ fresh' = fresh \ {t}
                           /\ Step("splithead", [NoJob EXCEPT !.cal = c, !.body = cache[c],
                                                              !.tail = t, !.cut = k])
    BY <1>15 DEF Split
  <2>2. cache[c] \in Body
    BY <1>15 DEF Split
  <2>3. <<c, t>> \in Hrefs /\ Tail(cache[c], k, t) \in Body
    BY <2>2, BodyTypes, Places
  <2> QED BY <1>15, <2>1, <2>2, <2>3 DEF Split, Start, Put, Step, NoJob
<1>16. ASSUME NEW c \in Cals, NEW k \in Occs, Truncate(c, k) PROVE Types'
  BY <1>16 DEF Truncate, Start, Step, NoJob
<1>17. CASE SplitHead
  BY <1>17, Places, BodyTypes DEF SplitHead, Truncated, Put, Step
<1>18. CASE SplitReget
  BY <1>18, Places DEF SplitReget, Step, End, NoJob
<1>19. CASE SplitTail
  <2>1. job.cal \in Cals /\ job.tail \in Tails /\ job.body \in Body /\ job.cut \in Occs
    BY <1>19 DEF SplitTail
  <2>2. /\ <<job.cal, job.tail>> \in Hrefs
        /\ \A u \in fresh : Tail(job.body, job.cut, u) \in Body
    BY <2>1, BodyTypes, Places
  <2> QED BY <1>19, <2>1, <2>2 DEF SplitTail, Put, Step, End, NoJob
<1>20. CASE SplitHead2
  BY <1>20, Places, BodyTypes DEF SplitHead2, Truncated, Put, Step, End, NoJob
<1>21. CASE SplitUndo
  BY <1>21, Places DEF SplitUndo, End, NoJob
<1>22. CASE SplitRefresh
  BY <1>22, Places DEF SplitRefresh, End, NoJob
<1>23. CASE Fail
  BY <1>23 DEF Fail, End, NoJob
<1>24. CASE UNCHANGED vars
  BY <1>24 DEF vars
<1> QED
  BY <1>1, <1>2, <1>3, <1>4, <1>5, <1>6, <1>7, <1>8, <1>9, <1>10, <1>11, <1>12, <1>13,
     <1>14, <1>15, <1>16, <1>17, <1>18, <1>19, <1>20, <1>21, <1>22, <1>23, <1>24
     DEF Next, Foreign, EditStep, DeleteStep, MoveStep, SplitStep

\* Every reachable state of the write path has its type.
THEOREM TypeCorrect == Spec => []TypeOK
<1>1. Types => TypeOK
  BY DEF Types
<1> QED BY <1>1, TypesInit, TypesStep, PTL DEF Spec

-----------------------------------------------------------------------------
(* The inductive invariant                                                 *)

Tailed == job.tail # None

TailHref == <<job.cal, job.tail>>

\* A name not drawn yet is free in every calendar, and the tail's is drawn.
FreshFree ==
    /\ \A t \in fresh, c \in Cals : wire[<<c, t>>] = None
    /\ job.tail \notin fresh

\* From the copy to the end of the move, the other calendar's resource has
\* every change of the cached row that nobody gave up since.
MoveCopied ==
    op \in DeleteOps /\ job.dst # None =>
        /\ job.dst # job.cal
        /\ cache[job.cal] # None
        /\ \A m \in acked \cap cache[job.cal].marks :
               wire[At(job.dst)] # None /\ m \in wire[At(job.dst)].marks

\* The move's own row is gone when the copy is refreshed.
MoveForgot ==
    job.dst # None /\ job.cal # None =>
        op \in DeleteOps \/ (op = "refresh" /\ cache[job.cal] = None)

\* The tail has every change of the revision the head will be made of.
TailOfBody ==
    op \in {"splithead", "splithead2"} /\ Tailed =>
        wire[TailHref] = None \/ job.body.marks \subseteq wire[TailHref].marks

\* Every delete is a user's.
NoMoves == op \in DeleteOps => job.dst = None

\* No occurrence depends on the tail before the head is truncated.
TailSpare ==
    op \in SplitOps \ {"splitrefresh"} /\ Tailed =>
        \A o \in kept : \E h \in Hrefs \ {TailHref} : wire[h] # None /\ o \in wire[h].occ

\* The tail generates all that truncating the head takes away.
TailCovers ==
    op \in {"splithead", "splithead2"} /\ Tailed =>
        \A o \in kept : o \in job.body.occ /\ o >= job.cut =>
            wire[TailHref] # None /\ o \in wire[TailHref].occ

Changes == Types /\ FreshFree /\ MoveCopied /\ MoveForgot /\ TailOfBody

AllGenerated == \A o \in kept : Generated(o)

Occurrences ==
    "move" \notin scene.handlers => NoMoves /\ TailSpare /\ TailCovers /\ AllGenerated

-----------------------------------------------------------------------------
(* Names                                                                   *)

\* A write at a place no undrawn name has leaves the undrawn names free.
LEMMA PutKeepsFree ==
    ASSUME Types, FreshFree, NEW h \in Hrefs, NEW b, Put(h, b),
           fresh' \subseteq fresh, job'.tail \notin fresh',
           b = None \/ \A c \in Cals, t \in fresh' : h # <<c, t>>
    PROVE  FreshFree'
<1>1. \A t \in fresh', c \in Cals : <<c, t>> \in Hrefs
  BY Places DEF Types, TypeOK
<1>2. \A t \in fresh', c \in Cals : wire'[<<c, t>>] = None
  BY <1>1 DEF Types, TypeOK, FreshFree, Put
<1> QED BY <1>2 DEF FreshFree

LEMMA FreshStep ==
    ASSUME Types, FreshFree, [Next]_vars
    PROVE  FreshFree'
<1>t. fresh \subseteq Tails /\ None \notin fresh /\ NoJob.tail = None
  BY NoneAssumption DEF NoneAssumption, Names, Types, TypeOK, NoJob
<1>a. \A c, d \in Cals, t \in fresh : At(c) # <<d, t>>
  BY <1>t, Places
<1>1. ASSUME NEW h \in Hrefs, NEW m \in Marks, ForeignEdit(h, m) PROVE FreshFree'
  <2>1. \A c \in Cals, t \in fresh : h # <<c, t>>
    BY <1>1 DEF ForeignEdit, FreshFree
  <2> QED BY <1>1, <2>1, PutKeepsFree DEF ForeignEdit, FreshFree
<1>2. ASSUME NEW h \in Hrefs, ForeignDelete(h) PROVE FreshFree'
  BY <1>2, PutKeepsFree DEF ForeignDelete, FreshFree
<1>4. ASSUME NEW c \in scene.cals, NEW m \in Marks, Create(c, m) \/ Edit(c, m)
      PROVE FreshFree'
  <2>1. c \in Cals /\ At(c) \in Hrefs
    BY Places, ScenesAssumption DEF ScenesAssumption, Types, TypeOK
  <2>2. fresh' = fresh /\ job'.tail = None
    BY <1>4 DEF Create, Edit, Step, NoJob
  <2>3. CASE wire' = wire
    BY <2>2, <2>3, <1>t DEF FreshFree
  <2>4. ASSUME NEW b, Put(At(c), b) PROVE FreshFree'
    BY <2>1, <2>2, <2>4, <1>t, <1>a, PutKeepsFree
  <2> QED BY <1>4, <2>3, <2>4 DEF Create, Edit
<1>6. CASE Reput
  <2>1. At(job.dst) \in Hrefs /\ job.dst \in Cals
    BY <1>6, Places DEF Reput, Types, JobKnown
  <2>2. fresh' = fresh /\ job'.tail \notin fresh
    BY <1>6, <1>t DEF Reput, End, Step, FreshFree
  <2>3. CASE Put(At(job.dst), Apply(job.body, job.mark))
    BY <2>1, <2>2, <2>3, <1>a, PutKeepsFree
  <2> QED BY <1>6, <2>2, <2>3 DEF Reput, FreshFree
<1>7. CASE DeleteCached \/ DeleteCurrent
  <2>1. At(job.cal) \in Hrefs
    BY <1>7, Places DEF DeleteCached, DeleteCurrent, Types, JobKnown, DeleteOps
  <2>2. fresh' = fresh /\ job'.tail \notin fresh
    BY <1>7, <1>t DEF DeleteCached, DeleteCurrent, End, Step, FreshFree
  <2>3. CASE Put(At(job.cal), None)
    BY <2>1, <2>2, <2>3, PutKeepsFree
  <2> QED BY <1>7, <2>2, <2>3 DEF DeleteCached, DeleteCurrent, Drop, FreshFree
<1>8. ASSUME NEW c \in scene.cals, NEW d \in scene.cals, Move(c, d) PROVE FreshFree'
  <2>1. d \in Cals /\ At(d) \in Hrefs
    BY Places, ScenesAssumption DEF ScenesAssumption, Types, TypeOK
  <2>2. fresh' = fresh /\ job'.tail \notin fresh
    BY <1>8, <1>t DEF Move, End, Step, NoJob
  <2>3. CASE Put(At(d), cache[c])
    BY <2>1, <2>2, <2>3, <1>a, PutKeepsFree
  <2> QED BY <1>8, <2>2, <2>3 DEF Move, FreshFree
<1>9. ASSUME NEW c \in Cals, NEW k \in Occs, Split(c, k) PROVE FreshFree'
  <2>1. PICK t \in fresh : /\ Put(<<c, t>>, Tail(cache[c], k, t))
                           /\ fresh' = fresh \ {t}
                           /\ job'.tail = t
    BY <1>9 DEF Split, Step, NoJob
  <2>2. <<c, t>> \in Hrefs
    BY <1>t, Places
  <2> QED BY <2>1, <2>2, PutKeepsFree
<1>10. CASE SplitHead \/ SplitHead2
  <2>1. At(job.cal) \in Hrefs /\ job.cal \in Cals
    BY <1>10, Places DEF SplitHead, SplitHead2, Types, JobKnown, SplitOps
  <2>2. fresh' = fresh /\ job'.tail \notin fresh
    BY <1>10, <1>t DEF SplitHead, SplitHead2, Truncated, End, Step, FreshFree
  <2>3. CASE Put(At(job.cal), Head(job.body, job.cut))
    BY <2>1, <2>2, <2>3, <1>a, PutKeepsFree
  <2> QED BY <1>10, <2>2, <2>3 DEF SplitHead, SplitHead2, Truncated, FreshFree
<1>11. CASE SplitTail
  <2>1. TailHref \in Hrefs
    BY <1>11, Places DEF SplitTail, Types, JobKnown, SplitOps, TailHref
  <2>2. fresh' \subseteq fresh /\ job'.tail \notin fresh
    BY <1>11, <1>t DEF SplitTail, End, Step, FreshFree
  <2>3. \A c \in Cals, t \in fresh' : TailHref # <<c, t>>
    BY <2>2 DEF TailHref, FreshFree
  <2>4. ASSUME NEW u, Put(TailHref, Tail(job.body, job.cut, u)) PROVE FreshFree'
    BY <2>1, <2>2, <2>3, <2>4, PutKeepsFree
  <2> QED BY <1>11, <2>2, <2>4 DEF SplitTail, FreshFree, TailHref
<1>12. CASE SplitUndo
  <2>1. TailHref \in Hrefs
    BY <1>12, Places DEF SplitUndo, Types, JobKnown, SplitOps, TailHref
  <2>2. fresh' = fresh /\ job'.tail \notin fresh
    BY <1>12, <1>t DEF SplitUndo, End, FreshFree
  <2>3. CASE Put(TailHref, None)
    BY <2>1, <2>2, <2>3, PutKeepsFree
  <2> QED BY <1>12, <2>2, <2>3 DEF SplitUndo, FreshFree, TailHref, Put
<1>13. ASSUME NEW c \in Cals, Sync(c) \/ Delete(c) \/ \E k \in Occs : Truncate(c, k)
       PROVE  FreshFree'
  BY <1>13, <1>t DEF Sync, Delete, Truncate, Step, NoJob, FreshFree
<1>14. CASE \/ Reget \/ Refresh \/ HeadEtag \/ Forget \/ SplitReget \/ SplitRefresh
            \/ Fail \/ UNCHANGED vars
  <2>1. wire' = wire /\ fresh' = fresh
    BY <1>14 DEF Reget, Refresh, HeadEtag, Forget, SplitReget, SplitRefresh, Fail, vars
  <2>2. job'.tail \in {job.tail, None}
    BY <1>14, <1>t DEF Reget, Refresh, HeadEtag, Forget, SplitReget, SplitRefresh, Fail,
                       vars, End, Step, Types, TypeOK
  <2> QED BY <2>1, <2>2, <1>t DEF FreshFree
<1> QED
  BY <1>1, <1>2, <1>4, <1>6, <1>7, <1>8, <1>9, <1>10, <1>11, <1>12, <1>13, <1>14
     DEF Next, Foreign, EditStep, DeleteStep, MoveStep, SplitStep

-----------------------------------------------------------------------------
(* Moves                                                                   *)

\* A change that is made is new: no resource and no row has it.
LEMMA NewMarkIsNew ==
    ASSUME Types, NEW m \in Marks, NewMark(m)
    PROVE  /\ \A h \in Hrefs : wire[h] # None => m \notin wire[h].marks
           /\ \A c \in Cals : cache[c] # None => m \notin cache[c].marks
           /\ job.body # None => m \notin job.body.marks
  BY DEF NewMark

LEMMA CopiedStep ==
    ASSUME Types, MoveCopied, [Next]_vars
    PROVE  MoveCopied'
<1>n. None \notin Body /\ None \notin Cals
  BY NoneAssumption DEF NoneAssumption
<1>1. ASSUME NEW h \in Hrefs, NEW m \in Marks, ForeignEdit(h, m) PROVE MoveCopied'
  <2> SUFFICES ASSUME op \in DeleteOps, job.dst # None
               PROVE  \A x \in acked' \cap cache[job.cal].marks :
                          wire'[At(job.dst)] # None /\ x \in (wire'[At(job.dst)]).marks
    BY <1>1 DEF MoveCopied, ForeignEdit
  <2>1. job.cal \in Cals /\ job.dst \in Cals /\ cache[job.cal] # None
    BY DEF MoveCopied, Types, TypeOK, JobKnown
  <2>2. m \notin cache[job.cal].marks /\ acked' = acked \cup {m}
    BY <1>1, <2>1, NewMarkIsNew DEF ForeignEdit
  <2>3. \A x \in acked' \cap cache[job.cal].marks :
            wire[At(job.dst)] # None /\ x \in wire[At(job.dst)].marks
    BY <2>2 DEF MoveCopied
  <2>4. At(job.dst) \in Hrefs /\ wire[h] \in Body
    BY <1>1, <2>1, Places DEF ForeignEdit, Types, TypeOK
  <2>5. Apply(wire[h], m) \in Body /\ Apply(wire[h], m).marks = wire[h].marks \cup {m}
    BY <2>4, BodyTypes
  <2>6. wire' = [wire EXCEPT ![h] = Apply(wire[h], m)]
    BY <1>1 DEF ForeignEdit, Put
  <2> QED BY <2>3, <2>4, <2>5, <2>6, <1>n DEF Types, TypeOK
<1>2. ASSUME NEW h \in Hrefs, ForeignDelete(h) PROVE MoveCopied'
  <2> SUFFICES ASSUME op \in DeleteOps, job.dst # None
               PROVE  \A x \in acked' \cap cache[job.cal].marks :
                          wire'[At(job.dst)] # None /\ x \in (wire'[At(job.dst)]).marks
    BY <1>2 DEF MoveCopied, ForeignDelete
  <2>1. At(job.dst) \in Hrefs
    BY Places DEF Types, TypeOK
  <2>2. wire' = [wire EXCEPT ![h] = None] /\ acked' = acked \ wire[h].marks
    BY <1>2 DEF ForeignDelete, Put, Renounce
  <2> QED BY <2>1, <2>2 DEF MoveCopied, Types, TypeOK
<1>3. CASE DeleteCached \/ DeleteCurrent \/ HeadEtag
  <2> SUFFICES ASSUME op' \in DeleteOps, job'.dst # None PROVE MoveCopied'
    BY DEF MoveCopied
  <2>1. op \in DeleteOps /\ job'.dst = job.dst /\ job'.cal = job.cal
    BY <1>3 DEF DeleteCached, DeleteCurrent, HeadEtag, Step, End, DeleteOps, Types, TypeOK
  <2>2. acked' = acked /\ cache' = cache
    BY <1>3, <2>1 DEF DeleteCached, DeleteCurrent, HeadEtag, Drop
  <2>3. wire' = wire \/ wire' = [wire EXCEPT ![At(job.cal)] = None]
    BY <1>3 DEF DeleteCached, DeleteCurrent, HeadEtag, Drop, Put
  <2>4. job.cal \in Cals /\ job.dst \in Cals /\ job.dst # job.cal
    BY <2>1 DEF Types, TypeOK, JobKnown, MoveCopied
  <2>5. At(job.dst) \in Hrefs /\ At(job.dst) # At(job.cal)
    BY <2>4, Places
  <2>6. wire'[At(job.dst)] = wire[At(job.dst)]
    BY <2>3, <2>5 DEF Types, TypeOK
  <2> QED BY <2>1, <2>2, <2>6 DEF MoveCopied, At
<1>4. ASSUME NEW c \in scene.cals, NEW d \in scene.cals, Move(c, d) PROVE MoveCopied'
  <2> SUFFICES ASSUME op' \in DeleteOps PROVE MoveCopied'
    BY DEF MoveCopied
  <2>1. c # d /\ cache[c] # None /\ cache' = cache
    BY <1>4 DEF Move
  <2>2. wire' = [wire EXCEPT ![At(d)] = cache[c]] /\ job'.cal = c /\ job'.dst = d
    BY <1>4 DEF Move, End, DeleteOps, Put, Step, NoJob
  <2>3. At(d) \in Hrefs
    BY Places, ScenesAssumption DEF ScenesAssumption, Types, TypeOK
  <2> QED BY <2>1, <2>2, <2>3 DEF MoveCopied, Types, TypeOK, At
<1>5. ASSUME NEW c \in Cals, Delete(c) PROVE MoveCopied'
  BY <1>5 DEF MoveCopied, Delete, Step, NoJob
<1>6. ASSUME NEW c \in scene.cals, NEW m \in Marks, Create(c, m) \/ Edit(c, m)
      PROVE MoveCopied'
  BY <1>6 DEF MoveCopied, DeleteOps, Create, Edit, Step
<1>7. ASSUME NEW c \in Cals, Sync(c) \/ \E k \in Occs : Split(c, k) \/ Truncate(c, k)
      PROVE MoveCopied'
  BY <1>7 DEF MoveCopied, DeleteOps, Sync, Split, Truncate, Step
<1>8. CASE \/ Reget \/ Reput \/ Refresh \/ Forget \/ Fail \/ SplitHead \/ SplitReget
           \/ SplitTail \/ SplitHead2 \/ SplitUndo \/ SplitRefresh
  <2>1. op' \notin DeleteOps
    BY <1>8 DEF DeleteOps, Reget, Reput, Refresh, Forget, Fail, SplitHead, SplitReget,
                SplitTail, SplitHead2, SplitUndo, SplitRefresh, Truncated, Step, End
  <2> QED BY <2>1 DEF MoveCopied
<1>9. CASE UNCHANGED vars
  BY <1>9 DEF vars, MoveCopied, At
<1> QED
  BY <1>1, <1>2, <1>3, <1>4, <1>5, <1>6, <1>7, <1>8, <1>9
     DEF Next, Foreign, EditStep, DeleteStep, MoveStep, SplitStep

LEMMA ForgotStep ==
    ASSUME Types, MoveForgot, [Next]_vars
    PROVE  MoveForgot'
<1>n. None \notin Cals /\ NoJob.dst = None /\ NoJob.cal = None
  BY NoneAssumption DEF NoneAssumption, NoJob
<1>1. ASSUME NEW h \in Hrefs, ForeignDelete(h) \/ \E m \in Marks : ForeignEdit(h, m)
      PROVE MoveForgot'
  BY <1>1 DEF ForeignEdit, ForeignDelete, MoveForgot
<1>2. CASE DeleteCached \/ DeleteCurrent \/ HeadEtag
  BY <1>2, <1>n DEF DeleteCached, DeleteCurrent, HeadEtag, Step, End, DeleteOps, MoveForgot
<1>3. CASE Forget
  <2>1. CASE job'.dst = None
    BY <2>1 DEF MoveForgot
  <2>2. CASE job'.dst # None
    <3>1. op' = "refresh" /\ job' = job
      BY <1>3, <1>n, <2>2 DEF Forget, Step, End
    <3>2. cache'[job.cal] = None
      BY <1>3 DEF Forget, Types, TypeOK, JobKnown, DeleteOps
    <3> QED BY <3>1, <3>2 DEF MoveForgot
  <2> QED BY <2>1, <2>2
<1>4. ASSUME NEW c \in scene.cals, NEW d \in scene.cals, Move(c, d) PROVE MoveForgot'
  BY <1>4, <1>n DEF Move, Step, End, DeleteOps, MoveForgot
<1>5. ASSUME NEW c \in scene.cals, NEW m \in Marks, Create(c, m) \/ Edit(c, m)
      PROVE MoveForgot'
  BY <1>5 DEF MoveForgot, Create, Edit, Step, NoJob
<1>6. ASSUME NEW c \in Cals, \/ Sync(c) \/ Delete(c)
                             \/ \E k \in Occs : Split(c, k) \/ Truncate(c, k)
      PROVE MoveForgot'
  <2>1. job'.dst = None
    BY <1>6, <1>n DEF Sync, Delete, Split, Truncate, Start, Step, NoJob, Types, JobKnown
  <2> QED BY <2>1 DEF MoveForgot
<1>7. CASE Reget \/ Reput
  <2>1. job'.cal = None
    BY <1>7, <1>n DEF Reget, Reput, Step, End, Types, TypeOK, JobKnown
  <2> QED BY <2>1 DEF MoveForgot
<1>8. CASE \/ Refresh \/ Fail \/ SplitHead \/ SplitReget
           \/ SplitTail \/ SplitHead2 \/ SplitUndo \/ SplitRefresh
  <2>1. job'.dst = None
    BY <1>8, <1>n DEF Refresh, Fail, SplitHead, SplitReget, SplitTail, SplitHead2,
         SplitUndo, SplitRefresh, Truncated, Step, End, Types, TypeOK, JobKnown, SplitOps
  <2> QED BY <2>1 DEF MoveForgot
<1>9. CASE UNCHANGED vars
  BY <1>9 DEF vars, MoveForgot
<1> QED
  BY <1>1, <1>2, <1>3, <1>4, <1>5, <1>6, <1>7, <1>8, <1>9
     DEF Next, Foreign, EditStep, DeleteStep, MoveStep, SplitStep

-----------------------------------------------------------------------------
(* Splits                                                                  *)

\* Only four steps lead to, or stay at, a PUT of the head.
LEMMA HeadOps ==
    ASSUME Types, [Next]_vars, op' \in {"splithead", "splithead2"}
    PROVE  \/ \E h \in Hrefs : ForeignDelete(h) \/ \E m \in Marks : ForeignEdit(h, m)
           \/ \E c \in Cals, k \in Occs : Split(c, k) \/ Truncate(c, k)
           \/ SplitReget /\ job.tail = None
           \/ SplitTail /\ op' = "splithead2"
           \/ UNCHANGED vars
<1>1. ASSUME NEW c \in scene.cals, NEW m \in Marks, Create(c, m) \/ Edit(c, m)
      PROVE FALSE
  BY <1>1 DEF Create, Edit, Step
<1>2. ASSUME NEW c \in scene.cals, NEW d \in scene.cals, Move(c, d) PROVE FALSE
  BY <1>2 DEF Move, Step, End
<1>3. ASSUME NEW c \in Cals, Sync(c) \/ Delete(c) PROVE FALSE
  BY <1>3 DEF Sync, Delete, Step
<1>4. CASE \/ Reget \/ Reput \/ Refresh \/ Forget \/ Fail \/ SplitHead
           \/ SplitHead2 \/ SplitUndo \/ SplitRefresh \/ DeleteCached \/ DeleteCurrent
           \/ HeadEtag
  BY <1>4 DEF Reget, Reput, Refresh, Forget, Fail, SplitHead, SplitHead2, SplitUndo,
              SplitRefresh, DeleteCached, DeleteCurrent, HeadEtag, Truncated, Step, End
<1>5. CASE SplitReget
  BY <1>5 DEF SplitReget, Step, End
<1>6. CASE SplitTail
  BY <1>6 DEF SplitTail, Step, End
<1> QED
  BY <1>1, <1>2, <1>3, <1>4, <1>5, <1>6
     DEF Next, Foreign, EditStep, DeleteStep, MoveStep, SplitStep

LEMMA TailStep ==
    ASSUME Types, TailOfBody, [Next]_vars
    PROVE  TailOfBody'
<1> SUFFICES ASSUME op' \in {"splithead", "splithead2"}, Tailed'
             PROVE  \/ wire'[TailHref'] = None
                    \/ job'.body.marks \subseteq (wire'[TailHref']).marks
  BY DEF TailOfBody
<1>1. ASSUME NEW h \in Hrefs, NEW m \in Marks, ForeignEdit(h, m)
      PROVE \/ wire'[TailHref'] = None
            \/ job'.body.marks \subseteq (wire'[TailHref']).marks
  <2>1. TailHref \in Hrefs /\ TailHref' = TailHref /\ job' = job /\ Tailed
    BY <1>1, Places DEF ForeignEdit, TailHref, Tailed, Types, TypeOK, JobKnown, SplitOps
  <2>2. wire[TailHref] = None \/ job.body.marks \subseteq wire[TailHref].marks
    BY <1>1, <2>1 DEF TailOfBody, ForeignEdit
  <2>3. wire[h] \in Body /\ wire' = [wire EXCEPT ![h] = Apply(wire[h], m)]
    BY <1>1 DEF ForeignEdit, Put, Types, TypeOK
  <2>4. Apply(wire[h], m).marks = wire[h].marks \cup {m}
    BY <2>3, BodyTypes
  <2> QED BY <1>1, <2>1, <2>2, <2>3, <2>4 DEF Types, TypeOK, ForeignEdit
<1>2. ASSUME NEW h \in Hrefs, ForeignDelete(h)
      PROVE \/ wire'[TailHref'] = None
            \/ job'.body.marks \subseteq (wire'[TailHref']).marks
  <2>1. TailHref \in Hrefs /\ TailHref' = TailHref /\ job' = job /\ Tailed
    BY <1>2, Places DEF ForeignDelete, TailHref, Tailed, Types, TypeOK, JobKnown, SplitOps
  <2>2. wire[TailHref] = None \/ job.body.marks \subseteq wire[TailHref].marks
    BY <1>2, <2>1 DEF TailOfBody, ForeignDelete
  <2> QED BY <1>2, <2>1, <2>2 DEF Types, TypeOK, ForeignDelete, Put
<1>3. ASSUME NEW c \in Cals, NEW k \in Occs, Split(c, k)
      PROVE job'.body.marks \subseteq (wire'[TailHref']).marks
  <2>1. PICK t \in fresh : /\ Put(<<c, t>>, Tail(cache[c], k, t))
                           /\ job' = [NoJob EXCEPT !.cal = c, !.body = cache[c],
                                                   !.tail = t, !.cut = k]
    BY <1>3 DEF Split, Step
  <2>2. job'.cal = c /\ job'.tail = t /\ job'.body = cache[c]
    BY <2>1 DEF NoJob
  <2>3. <<c, t>> \in Hrefs /\ cache[c] \in Body /\ t \in Tails
    BY <1>3, Places DEF Split, Types, TypeOK
  <2>4. Tail(cache[c], k, t).marks = cache[c].marks
    BY <2>3, BodyTypes
  <2> QED BY <2>1, <2>2, <2>3, <2>4 DEF Put, TailHref, Types, TypeOK
<1>4. ASSUME NEW c \in Cals, NEW k \in Occs, Truncate(c, k) PROVE FALSE
  BY <1>4 DEF Truncate, Step, NoJob, Tailed
<1>5. CASE SplitReget /\ job.tail = None
  BY <1>5 DEF SplitReget, Step, End, NoJob, Tailed, Types, TypeOK
<1>6. CASE SplitTail /\ op' = "splithead2"
  <2>1. PICK u \in fresh : Put(TailHref, Tail(job.body, job.cut, u)) /\ job' = job
    BY <1>6 DEF SplitTail, Step, End, TailHref
  <2>2. TailHref \in Hrefs /\ job.body \in Body /\ job.cut \in Occs /\ u \in Tails
    BY <1>6, Places DEF SplitTail, TailHref, Types, TypeOK, JobKnown, SplitOps
  <2>3. Tail(job.body, job.cut, u).marks = job.body.marks
    BY <2>2, BodyTypes
  <2>4. TailHref' = TailHref
    BY <2>1 DEF TailHref
  <2> QED BY <2>1, <2>2, <2>3, <2>4 DEF Put, Types, TypeOK
<1>7. CASE UNCHANGED vars
  BY <1>7 DEF vars, TailOfBody, Tailed, TailHref
<1> QED
  BY <1>1, <1>2, <1>3, <1>4, <1>5, <1>6, <1>7, HeadOps

-----------------------------------------------------------------------------
(* Changes                                                                 *)

LEMMA ChangesInit == Init => Changes
<1>1. Init => FreshFree
  BY Places, NoneAssumption DEF Init, FreshFree, NoneAssumption, Names, NoJob
<1>2. Init => MoveCopied /\ MoveForgot /\ TailOfBody
  BY DEF Init, MoveCopied, MoveForgot, TailOfBody, DeleteOps, NoJob
<1> QED BY <1>1, <1>2, TypesInit DEF Changes

LEMMA ChangesStep == Changes /\ [Next]_vars => Changes'
  BY TypesStep, FreshStep, CopiedStep, ForgotStep, TailStep DEF Changes

LEMMA ChangesAlways == Spec => []Changes
  BY ChangesInit, ChangesStep, PTL DEF Spec

\* A row whose move is not at an end has each of its changes in the calendar
\* the move goes to.
LEMMA CopiedIsCarried == Changes => MoveKeepsSeen
<1> SUFFICES ASSUME Changes, job.dst # None, job.cal # None, cache[job.cal] # None,
                    NEW m \in acked \cap cache[job.cal].marks
             PROVE  Carried(m)
  BY DEF MoveKeepsSeen
<1>1. op \in DeleteOps
  BY DEF Changes, MoveForgot
<1>2. wire[At(job.dst)] # None /\ m \in wire[At(job.dst)].marks
  BY <1>1 DEF Changes, MoveCopied
<1>3. At(job.dst) \in Hrefs
  BY Places DEF Changes, Types, TypeOK
<1> QED BY <1>2, <1>3 DEF Carried

\* Moving a row loses no change that the row has, wherever the move is cut off.
THEOREM MoveIsSafe == Spec => []MoveKeepsSeen
  BY ChangesAlways, CopiedIsCarried, PTL

\* A write that keeps the change, or falls on a place that does not have it.
LEMMA PutCarries ==
    ASSUME Types, NEW m, Carried(m), NEW h \in Hrefs, NEW b, Put(h, b),
           \/ wire[h] = None
           \/ m \notin wire[h].marks
           \/ b # None /\ m \in b.marks
    PROVE  Carried(m)'
<1>1. PICK g \in Hrefs : wire[g] # None /\ m \in wire[g].marks
  BY DEF Carried
<1>2. CASE g # h
  <2>1. wire'[g] = wire[g]
    BY <1>2 DEF Put, Types, TypeOK
  <2> QED BY <1>1, <2>1 DEF Carried
<1>3. CASE g = h
  <2>1. wire'[h] = b /\ b # None /\ m \in b.marks
    BY <1>1, <1>3 DEF Put, Types, TypeOK
  <2> QED BY <2>1 DEF Carried
<1> QED BY <1>2, <1>3

LEMMA CarriedStep ==
    ASSUME Changes, [Next]_vars, NEW m \in acked, m \in acked', Carried(m),
           ~MoveDeletes, ~TailForced
    PROVE  Carried(m)'
<1> USE DEF Changes
<1>u. ASSUME wire' = wire PROVE Carried(m)'
  BY <1>u DEF Carried
<1>1. ASSUME NEW h \in Hrefs, NEW x \in Marks, ForeignEdit(h, x) PROVE Carried(m)'
  <2>1. wire[h] \in Body /\ Put(h, Apply(wire[h], x))
    BY <1>1 DEF ForeignEdit, Types, TypeOK
  <2>2. Apply(wire[h], x) \in Body /\ Apply(wire[h], x).marks = wire[h].marks \cup {x}
    BY <2>1, BodyTypes
  <2> QED BY <2>1, <2>2, PutCarries, NoneAssumption DEF NoneAssumption
<1>2. ASSUME NEW h \in Hrefs, ForeignDelete(h) PROVE Carried(m)'
  <2>1. Put(h, None) /\ m \notin wire[h].marks
    BY <1>2 DEF ForeignDelete, Renounce
  <2> QED BY <2>1, PutCarries
<1>3. ASSUME NEW c \in scene.cals, NEW x \in Marks, Create(c, x) PROVE Carried(m)'
  <2>1. c \in Cals /\ At(c) \in Hrefs
    BY Places, ScenesAssumption DEF ScenesAssumption, Types, TypeOK
  <2>2. ASSUME NEW b, wire[At(c)] = None, Put(At(c), b) PROVE Carried(m)'
    BY <2>1, <2>2, PutCarries
  <2> QED BY <1>3, <1>u, <2>2 DEF Create
<1>4. ASSUME NEW c \in scene.cals, NEW x \in Marks, Edit(c, x) PROVE Carried(m)'
  <2>1. c \in Cals /\ At(c) \in Hrefs /\ cache[c] \in Body
    BY <1>4, Places, ScenesAssumption DEF ScenesAssumption, Types, TypeOK, Edit
  <2>2. Apply(cache[c], x) \in Body /\ Apply(cache[c], x).marks = cache[c].marks \cup {x}
    BY <2>1, BodyTypes
  <2>3. CASE wire[At(c)] = cache[c] /\ Put(At(c), Apply(cache[c], x))
    BY <2>1, <2>2, <2>3, PutCarries, NoneAssumption DEF NoneAssumption
  <2> QED BY <1>4, <1>u, <2>3 DEF Edit
<1>5. CASE Reput
  <2>1. At(job.dst) \in Hrefs /\ job.body \in Body /\ job.mark \in Marks
    BY <1>5, Places DEF Reput, Types, TypeOK, JobKnown
  <2>2. /\ Apply(job.body, job.mark) \in Body
        /\ Apply(job.body, job.mark).marks = job.body.marks \cup {job.mark}
    BY <2>1, BodyTypes
  <2>3. CASE wire[At(job.dst)] = job.body /\ Put(At(job.dst), Apply(job.body, job.mark))
    BY <2>1, <2>2, <2>3, PutCarries, NoneAssumption DEF NoneAssumption
  <2> QED BY <1>5, <1>u, <2>3 DEF Reput
<1>6. CASE DeleteCached
  <2>1. At(job.cal) \in Hrefs /\ job.cal \in Cals
    BY <1>6, Places DEF DeleteCached, Types, JobKnown, DeleteOps
  <2>2. CASE job.dst = None /\ Drop(At(job.cal))
    <3>1. Put(At(job.cal), None) /\ m \notin wire[At(job.cal)].marks
      BY <2>2 DEF Drop, Renounce
    <3> QED BY <2>1, <3>1, PutCarries
  <2>3. CASE job.dst # None /\ Drop(At(job.cal)) /\ wire[At(job.cal)] = cache[job.cal]
    <3>1. Put(At(job.cal), None)
      BY <2>3 DEF Drop
    <3>2. CASE m \notin cache[job.cal].marks
      BY <2>1, <2>3, <3>1, <3>2, PutCarries
    <3>3. CASE m \in cache[job.cal].marks
      <4>1. job.dst # job.cal /\ wire[At(job.dst)] # None /\ m \in wire[At(job.dst)].marks
        BY <1>6, <2>3, <3>3 DEF DeleteCached, MoveCopied, DeleteOps
      <4>2. At(job.dst) \in Hrefs /\ At(job.dst) # At(job.cal)
        BY <2>1, <2>3, <4>1, Places DEF Types, TypeOK
      <4>3. wire'[At(job.dst)] = wire[At(job.dst)]
        BY <3>1, <4>2 DEF Put, Types, TypeOK
      <4> QED BY <4>1, <4>2, <4>3 DEF Carried
    <3> QED BY <3>2, <3>3
  <2> QED BY <1>6, <1>u, <2>2, <2>3 DEF DeleteCached
<1>7. CASE DeleteCurrent
  <2>1. At(job.cal) \in Hrefs /\ job.dst = None
    BY <1>7, Places DEF DeleteCurrent, Types, JobKnown, DeleteOps, MoveDeletes
  <2>2. CASE Drop(At(job.cal))
    <3>1. Put(At(job.cal), None) /\ m \notin wire[At(job.cal)].marks
      BY <2>1, <2>2 DEF Drop, Renounce
    <3> QED BY <2>1, <3>1, PutCarries
  <2> QED BY <1>7, <1>u, <2>2 DEF DeleteCurrent
<1>8. ASSUME NEW c \in scene.cals, NEW d \in scene.cals, Move(c, d) PROVE Carried(m)'
  <2>1. At(d) \in Hrefs
    BY Places, ScenesAssumption DEF ScenesAssumption, Types, TypeOK
  <2>2. CASE wire[At(d)] = None /\ Put(At(d), cache[c])
    BY <2>1, <2>2, PutCarries
  <2> QED BY <1>8, <1>u, <2>2 DEF Move
<1>9. ASSUME NEW c \in Cals, NEW k \in Occs, Split(c, k) PROVE Carried(m)'
  <2>1. PICK t \in fresh : Put(<<c, t>>, Tail(cache[c], k, t))
    BY <1>9 DEF Split
  <2>2. <<c, t>> \in Hrefs /\ wire[<<c, t>>] = None
    BY Places DEF FreshFree, Types, TypeOK
  <2> QED BY <2>1, <2>2, PutCarries
<1>10. CASE SplitHead \/ SplitHead2
  <2>1. At(job.cal) \in Hrefs /\ job.body \in Body /\ job.cut \in Occs
    BY <1>10, Places DEF SplitHead, SplitHead2, Types, JobKnown, SplitOps
  <2>2. Head(job.body, job.cut) \in Body /\ Head(job.body, job.cut).marks = job.body.marks
    BY <2>1, BodyTypes
  <2>3. CASE wire[At(job.cal)] = job.body /\ Put(At(job.cal), Head(job.body, job.cut))
    BY <2>1, <2>2, <2>3, PutCarries, NoneAssumption DEF NoneAssumption
  <2> QED BY <1>10, <1>u, <2>3 DEF SplitHead, SplitHead2, Truncated
<1>11. CASE SplitTail \/ SplitUndo
  <2>1. TailHref \in Hrefs /\ wire[TailHref] = None
    BY <1>11, Places DEF SplitTail, SplitUndo, Types, JobKnown, SplitOps, TailForced, TailHref
  <2>2. ASSUME NEW b, Put(TailHref, b) PROVE Carried(m)'
    BY <2>1, <2>2, PutCarries
  <2> QED BY <1>11, <1>u, <2>2 DEF SplitTail, SplitUndo, TailHref, Put
<1>12. ASSUME NEW c \in Cals, Sync(c) \/ Delete(c) \/ \E k \in Occs : Truncate(c, k)
       PROVE  Carried(m)'
  BY <1>12, <1>u DEF Sync, Delete, Truncate
<1>13. CASE \/ Reget \/ Refresh \/ HeadEtag \/ Forget \/ SplitReget \/ SplitRefresh
            \/ Fail \/ UNCHANGED vars
  BY <1>13, <1>u DEF Reget, Refresh, HeadEtag, Forget, SplitReget, SplitRefresh, Fail, vars
<1> QED
  BY <1>1, <1>2, <1>3, <1>4, <1>5, <1>6, <1>7, <1>8, <1>9, <1>10, <1>11, <1>12, <1>13
     DEF Next, Foreign, EditStep, DeleteStep, MoveStep, SplitStep

\* Only a move's second DELETE and a split's unconditional requests lose a
\* change somebody relies on.
THEOREM ChangesAreKept == Spec => ChangesKept
<1>1. Changes /\ [Next]_vars =>
          [\A m \in acked \cap acked' :
               Carried(m) => Carried(m)' \/ MoveDeletes \/ TailForced]_vars
  BY CarriedStep
<1> QED BY <1>1, ChangesAlways, PTL DEF Spec, ChangesKept

\* The tail of a split has every change the truncated head has.
THEOREM TailHasChanges == Spec => TailInherits
<1>1. ASSUME Changes, [Next]_vars, HeadWritten
      PROVE  \/ wire'[<<job.cal, job.tail>>] = None
             \/ wire'[At(job.cal)].marks \subseteq (wire'[<<job.cal, job.tail>>]).marks
  <2> USE DEF Changes
  <2>1. /\ job.cal \in Cals /\ job.tail \in Tails /\ job.body \in Body /\ job.cut \in Occs
        /\ At(job.cal) \in Hrefs /\ TailHref \in Hrefs /\ At(job.cal) # TailHref
    BY <1>1, Places DEF HeadWritten, TailHref, Types, TypeOK, JobKnown, SplitOps
  <2>2. wire[TailHref] = None \/ job.body.marks \subseteq wire[TailHref].marks
    BY <1>1 DEF HeadWritten, TailOfBody, Tailed
  <2>3. Put(At(job.cal), Head(job.body, job.cut))
    <3>1. ASSUME NEW h \in Hrefs, ForeignDelete(h) \/ \E m \in Marks : ForeignEdit(h, m)
          PROVE  FALSE
      BY <1>1, <3>1 DEF HeadWritten, ForeignDelete, ForeignEdit
    <3>2. ASSUME NEW c \in Cals, \/ Sync(c) \/ Delete(c)
                                 \/ \E k \in Occs : Split(c, k) \/ Truncate(c, k)
          PROVE  FALSE
      BY <1>1, <3>2 DEF HeadWritten, Sync, Delete, Split, Truncate, Start
    <3>3. ASSUME NEW c \in scene.cals,
                 \/ \E m \in Marks : Create(c, m) \/ Edit(c, m)
                 \/ \E d \in scene.cals : Move(c, d)
          PROVE  FALSE
      BY <1>1, <3>3 DEF HeadWritten, Create, Edit, Move, Start
    <3>4. CASE SplitHead \/ SplitHead2
      BY <1>1, <3>4 DEF HeadWritten, SplitHead, SplitHead2, Truncated, Step, End
    <3>5. CASE \/ Reget \/ Reput \/ Refresh \/ DeleteCached \/ HeadEtag \/ DeleteCurrent
               \/ Forget \/ SplitReget \/ SplitTail \/ SplitUndo \/ SplitRefresh \/ Fail
               \/ UNCHANGED vars
      BY <1>1, <3>5 DEF HeadWritten, Reget, Reput, Refresh, DeleteCached, HeadEtag,
           DeleteCurrent, Forget, SplitReget, SplitTail, SplitUndo, SplitRefresh, Fail,
           vars, End
    <3> QED BY <1>1, <3>1, <3>2, <3>3, <3>4, <3>5
               DEF Next, Foreign, EditStep, DeleteStep, MoveStep, SplitStep
  <2>4. wire'[TailHref] = wire[TailHref] /\ wire'[At(job.cal)] = Head(job.body, job.cut)
    BY <1>1, <2>1, <2>3 DEF Put, Types, TypeOK
  <2>5. Head(job.body, job.cut).marks = job.body.marks
    BY <2>1, BodyTypes
  <2> QED BY <2>2, <2>4, <2>5 DEF TailHref
<1> QED BY <1>1, ChangesAlways, PTL DEF Spec, TailInherits

-----------------------------------------------------------------------------
(* Occurrences                                                             *)

LEMMA SceneStep == [Next]_vars => scene' = scene
  BY DEF Next, vars, Foreign, ForeignEdit, ForeignDelete, Sync, EditStep, Create, Edit,
         Reget, Reput, Refresh, DeleteStep, Delete, DeleteCached, HeadEtag, DeleteCurrent,
         Forget, MoveStep, Move, SplitStep, Split, Truncate, SplitHead, SplitReget,
         SplitTail, SplitHead2, SplitUndo, SplitRefresh, Fail

LEMMA NoMovesStep ==
    ASSUME Types, NoMoves, "move" \notin scene.handlers, [Next]_vars
    PROVE  NoMoves'
<1> SUFFICES ASSUME op' \in DeleteOps PROVE job'.dst = None
  BY DEF NoMoves
<1>1. ASSUME NEW h \in Hrefs, ForeignDelete(h) \/ \E m \in Marks : ForeignEdit(h, m)
      PROVE job'.dst = None
  BY <1>1 DEF ForeignEdit, ForeignDelete, NoMoves
<1>2. CASE DeleteCached \/ DeleteCurrent \/ HeadEtag
  BY <1>2 DEF DeleteCached, DeleteCurrent, HeadEtag, Step, End, NoJob, DeleteOps, NoMoves,
              Types, TypeOK
<1>3. ASSUME NEW c \in scene.cals,
             \/ \E m \in Marks : Create(c, m) \/ Edit(c, m)
             \/ \E d \in scene.cals : Move(c, d)
      PROVE job'.dst = None
  BY <1>3 DEF Create, Edit, Move, Start, Step, DeleteOps
<1>4. ASSUME NEW c \in Cals, \/ Sync(c) \/ Delete(c)
                             \/ \E k \in Occs : Split(c, k) \/ Truncate(c, k)
      PROVE job'.dst = None
  BY <1>4 DEF Sync, Delete, Split, Truncate, Step, NoJob, DeleteOps
<1>5. CASE \/ Reget \/ Reput \/ Refresh \/ Forget \/ Fail \/ SplitHead \/ SplitReget
           \/ SplitTail \/ SplitHead2 \/ SplitUndo \/ SplitRefresh
  BY <1>5 DEF DeleteOps, Reget, Reput, Refresh, Forget, Fail, SplitHead, SplitReget,
              SplitTail, SplitHead2, SplitUndo, SplitRefresh, Truncated, Step, End
<1>6. CASE UNCHANGED vars
  BY <1>6 DEF vars, NoMoves
<1> QED
  BY <1>1, <1>2, <1>3, <1>4, <1>5, <1>6
     DEF Next, Foreign, EditStep, DeleteStep, MoveStep, SplitStep

\* A write that keeps the occurrence, or falls on a place that lacks it.
LEMMA PutGenerates ==
    ASSUME Types, NEW o, Generated(o), NEW h \in Hrefs, NEW b, Put(h, b),
           \/ wire[h] = None
           \/ o \notin wire[h].occ
           \/ b # None /\ o \in b.occ
    PROVE  Generated(o)'
<1>1. PICK g \in Hrefs : wire[g] # None /\ o \in wire[g].occ
  BY DEF Generated
<1>2. CASE g # h
  <2>1. wire'[g] = wire[g]
    BY <1>2 DEF Put, Types, TypeOK
  <2> QED BY <1>1, <2>1 DEF Generated
<1>3. CASE g = h
  <2>1. wire'[h] = b /\ b # None /\ o \in b.occ
    BY <1>1, <1>3 DEF Put, Types, TypeOK
  <2> QED BY <2>1 DEF Generated
<1> QED BY <1>2, <1>3

\* Truncating the head takes nothing that somebody wants and the tail lacks.
LEMMA TruncatedGenerates ==
    ASSUME Types, TailCovers, AllGenerated, op \in {"splithead", "splithead2"},
           wire[At(job.cal)] = job.body, Truncated, NEW o \in kept'
    PROVE  Generated(o)'
<1>1. /\ job.cal \in Cals /\ job.body \in Body /\ job.cut \in Occs
      /\ At(job.cal) \in Hrefs /\ o \in kept /\ o \in Occs
  BY Places DEF Types, TypeOK, JobKnown, SplitOps, Truncated
<1>2. Put(At(job.cal), Head(job.body, job.cut)) /\ Generated(o)
  BY <1>1 DEF Truncated, AllGenerated
<1>3. /\ Head(job.body, job.cut) \in Body /\ Head(job.body, job.cut) # None
      /\ Head(job.body, job.cut).occ = {x \in job.body.occ : x < job.cut}
  BY <1>1, BodyTypes, NoneAssumption DEF NoneAssumption
<1>4. CASE o \notin job.body.occ \/ o < job.cut
  BY <1>1, <1>2, <1>3, <1>4, PutGenerates
<1>5. CASE o \in job.body.occ /\ ~(o < job.cut)
  <2>1. o >= job.cut
    <3>1. o \in Nat /\ job.cut \in Nat
      BY <1>1, OccsAssumption DEF OccsAssumption
    <3> QED BY <1>5, <3>1
  <2>2. Tailed
    BY <1>1, <2>1 DEF Truncated, Tailed
  <2>3. wire[TailHref] # None /\ o \in wire[TailHref].occ
    BY <1>1, <1>5, <2>1, <2>2 DEF TailCovers
  <2>4. TailHref \in Hrefs /\ TailHref # At(job.cal)
    BY <1>1, <2>2, Places DEF TailHref, Tailed, Types, TypeOK
  <2>5. wire'[TailHref] = wire[TailHref]
    BY <1>2, <2>4 DEF Put, Types, TypeOK
  <2> QED BY <2>3, <2>4, <2>5 DEF Generated
<1> QED BY <1>4, <1>5

LEMMA GeneratedStep ==
    ASSUME Types, FreshFree, NoMoves, TailSpare, TailCovers, AllGenerated,
           "move" \notin scene.handlers, [Next]_vars
    PROVE  AllGenerated'
<1> SUFFICES ASSUME NEW o \in kept' PROVE Generated(o)'
  BY DEF AllGenerated
<1>n. None \notin Body
  BY NoneAssumption DEF NoneAssumption
<1>u. ASSUME wire' = wire, o \in kept PROVE Generated(o)'
  BY <1>u DEF AllGenerated, Generated
<1>1. ASSUME NEW h \in Hrefs, NEW x \in Marks, ForeignEdit(h, x) PROVE Generated(o)'
  <2>1. wire[h] \in Body /\ Put(h, Apply(wire[h], x)) /\ Generated(o)
    BY <1>1 DEF ForeignEdit, Types, TypeOK, AllGenerated
  <2>2. Apply(wire[h], x) \in Body /\ Apply(wire[h], x).occ = wire[h].occ
    BY <2>1, BodyTypes
  <2> QED BY <2>1, <2>2, <1>n, PutGenerates
<1>2. ASSUME NEW h \in Hrefs, ForeignDelete(h) PROVE Generated(o)'
  <2>1. Put(h, None) /\ o \notin wire[h].occ /\ Generated(o)
    BY <1>2 DEF ForeignDelete, Renounce, AllGenerated
  <2> QED BY <2>1, PutGenerates
<1>3. ASSUME NEW c \in scene.cals, NEW x \in Marks, Create(c, x) PROVE Generated(o)'
  <2>1. c \in Cals /\ At(c) \in Hrefs /\ scene.occs \subseteq Occs
    BY Places, ScenesAssumption DEF ScenesAssumption, Types, TypeOK
  <2> DEFINE b == [uid |-> Event, marks |-> {x}, occ |-> scene.occs]
  <2>2. CASE Put(At(c), b) /\ kept' = scene.occs
    <3>1. b \in Body /\ b # None /\ o \in b.occ
      BY <1>n, <2>1, <2>2 DEF Body, Names
    <3>2. wire'[At(c)] = b
      BY <2>1, <2>2 DEF Put, Types, TypeOK
    <3> HIDE DEF b
    <3> QED BY <2>1, <3>1, <3>2 DEF Generated
  <2> QED BY <1>3, <1>u, <2>2 DEF Create
<1>4. ASSUME NEW c \in scene.cals, NEW x \in Marks, Edit(c, x) PROVE Generated(o)'
  <2>1. c \in Cals /\ At(c) \in Hrefs /\ cache[c] \in Body /\ o \in kept /\ Generated(o)
    BY <1>4, Places, ScenesAssumption
       DEF ScenesAssumption, Types, TypeOK, Edit, AllGenerated
  <2>2. Apply(cache[c], x) \in Body /\ Apply(cache[c], x).occ = cache[c].occ
    BY <2>1, BodyTypes
  <2>3. CASE wire[At(c)] = cache[c] /\ Put(At(c), Apply(cache[c], x))
    BY <2>1, <2>2, <2>3, <1>n, PutGenerates
  <2> QED BY <1>4, <1>u, <2>1, <2>3 DEF Edit
<1>5. CASE Reput
  <2>1. /\ At(job.dst) \in Hrefs /\ job.body \in Body /\ job.mark \in Marks
        /\ o \in kept /\ Generated(o)
    BY <1>5, Places DEF Reput, Types, TypeOK, JobKnown, AllGenerated
  <2>2. Apply(job.body, job.mark) \in Body /\ Apply(job.body, job.mark).occ = job.body.occ
    BY <2>1, BodyTypes
  <2>3. CASE wire[At(job.dst)] = job.body /\ Put(At(job.dst), Apply(job.body, job.mark))
    BY <2>1, <2>2, <2>3, <1>n, PutGenerates
  <2> QED BY <1>5, <1>u, <2>1, <2>3 DEF Reput
<1>6. CASE DeleteCached \/ DeleteCurrent
  <2>1. At(job.cal) \in Hrefs /\ job.dst = None
    BY <1>6, Places DEF DeleteCached, DeleteCurrent, Types, JobKnown, DeleteOps, NoMoves
  <2>2. CASE Drop(At(job.cal))
    <3>1. Put(At(job.cal), None) /\ o \notin wire[At(job.cal)].occ /\ Generated(o)
      BY <2>1, <2>2 DEF Drop, Renounce, AllGenerated
    <3> QED BY <2>1, <3>1, PutGenerates
  <2> QED BY <1>6, <1>u, <2>2 DEF DeleteCached, DeleteCurrent
<1>7. ASSUME NEW c \in scene.cals, NEW d \in scene.cals, Move(c, d) PROVE FALSE
  BY <1>7 DEF Move, Start
<1>8. ASSUME NEW c \in Cals, NEW k \in Occs, Split(c, k) PROVE Generated(o)'
  <2>1. PICK t \in fresh : Put(<<c, t>>, Tail(cache[c], k, t))
    BY <1>8 DEF Split
  <2>2. <<c, t>> \in Hrefs /\ wire[<<c, t>>] = None /\ Generated(o)
    BY <1>8, Places DEF FreshFree, Types, TypeOK, Split, AllGenerated
  <2> QED BY <2>1, <2>2, PutGenerates
<1>9. CASE SplitHead \/ SplitHead2
  <2>1. CASE wire[At(job.cal)] = job.body /\ Truncated
    BY <1>9, <2>1, TruncatedGenerates DEF SplitHead, SplitHead2
  <2> QED BY <1>9, <1>u, <2>1 DEF SplitHead, SplitHead2
<1>10. CASE SplitTail \/ SplitUndo
  <2>1. TailHref \in Hrefs /\ Tailed /\ o \in kept
    BY <1>10, Places, NoneAssumption
       DEF SplitTail, SplitUndo, Types, JobKnown, SplitOps, Tailed, TailHref,
           NoneAssumption, Names
  <2>2. PICK g \in Hrefs \ {TailHref} : wire[g] # None /\ o \in wire[g].occ
    BY <1>10, <2>1 DEF TailSpare, SplitTail, SplitUndo, SplitOps
  <2>3. ASSUME NEW b, Put(TailHref, b) PROVE Generated(o)'
    <3>1. wire'[g] = wire[g]
      BY <2>1, <2>2, <2>3 DEF Put, Types, TypeOK
    <3> QED BY <2>2, <3>1 DEF Generated
  <2> QED BY <1>10, <1>u, <2>1, <2>3 DEF SplitTail, SplitUndo, TailHref, Put
<1>11. ASSUME NEW c \in Cals, Sync(c) \/ Delete(c) \/ \E k \in Occs : Truncate(c, k)
       PROVE  Generated(o)'
  BY <1>11, <1>u DEF Sync, Delete, Truncate
<1>12. CASE \/ Reget \/ Refresh \/ HeadEtag \/ Forget \/ SplitReget \/ SplitRefresh
            \/ Fail \/ UNCHANGED vars
  BY <1>12, <1>u DEF Reget, Refresh, HeadEtag, Forget, SplitReget, SplitRefresh, Fail, vars
<1> QED
  BY <1>1, <1>2, <1>3, <1>4, <1>5, <1>6, <1>7, <1>8, <1>9, <1>10, <1>11, <1>12
     DEF Next, Foreign, EditStep, DeleteStep, MoveStep, SplitStep

\* The steps into a split's next request.
LEMMA SplitSteps ==
    ASSUME Types, [Next]_vars, op' \in SplitOps \ {"splitrefresh"}, Tailed'
    PROVE  \/ \E h \in Hrefs : ForeignDelete(h) \/ \E m \in Marks : ForeignEdit(h, m)
           \/ \E c \in Cals, k \in Occs : Split(c, k)
           \/ /\ op \in SplitOps \ {"splitrefresh"} /\ Tailed /\ TailHref' = TailHref
              /\ SplitHead \/ SplitReget \/ SplitTail \/ SplitHead2
           \/ UNCHANGED vars
<1>n. NoJob.tail = None
  BY DEF NoJob
<1>1. ASSUME NEW c \in scene.cals, NEW m \in Marks, Create(c, m) \/ Edit(c, m)
      PROVE FALSE
  BY <1>1 DEF Create, Edit, Step, SplitOps
<1>2. ASSUME NEW c \in scene.cals, NEW d \in scene.cals, Move(c, d) PROVE FALSE
  BY <1>2 DEF Move, Step, End, SplitOps
<1>3. ASSUME NEW c \in Cals, Sync(c) \/ Delete(c) \/ \E k \in Occs : Truncate(c, k)
      PROVE FALSE
  BY <1>3 DEF Sync, Delete, Truncate, Step, SplitOps, Tailed, NoJob, Types, JobKnown
<1>4. CASE \/ Reget \/ Reput \/ Refresh \/ Forget \/ Fail
           \/ SplitUndo \/ SplitRefresh \/ DeleteCached \/ DeleteCurrent \/ HeadEtag
  BY <1>4 DEF Reget, Reput, Refresh, Forget, Fail, SplitUndo, SplitRefresh, DeleteCached,
              DeleteCurrent, HeadEtag, Step, End, SplitOps
<1>5. CASE SplitHead \/ SplitReget \/ SplitTail \/ SplitHead2
  <2>1. op \in SplitOps \ {"splitrefresh"}
    BY <1>5 DEF SplitHead, SplitReget, SplitTail, SplitHead2, SplitOps
  <2>2. job'.tail = job.tail /\ job'.cal = job.cal
    BY <1>5, <1>n DEF SplitHead, SplitReget, SplitTail, SplitHead2, Truncated, Step, End,
                      Tailed, Types, TypeOK
  <2> QED BY <1>5, <2>1, <2>2 DEF Tailed, TailHref
<1> QED
  BY <1>1, <1>2, <1>3, <1>4, <1>5
     DEF Next, Foreign, EditStep, DeleteStep, MoveStep, SplitStep

LEMMA SpareStep ==
    ASSUME Types, FreshFree, TailSpare, AllGenerated, [Next]_vars
    PROVE  TailSpare'
<1> SUFFICES ASSUME op' \in SplitOps \ {"splitrefresh"}, Tailed', NEW o \in kept'
             PROVE  \E h \in Hrefs \ {TailHref'} : wire'[h] # None /\ o \in (wire'[h]).occ
  BY DEF TailSpare
<1>n. None \notin Body
  BY NoneAssumption DEF NoneAssumption
<1>1. ASSUME NEW h \in Hrefs, ForeignDelete(h) \/ \E m \in Marks : ForeignEdit(h, m)
      PROVE \E g \in Hrefs \ {TailHref'} : wire'[g] # None /\ o \in (wire'[g]).occ
  <2>1. /\ op \in SplitOps \ {"splitrefresh"} /\ Tailed /\ TailHref' = TailHref
        /\ o \in kept /\ (ForeignDelete(h) => o \notin wire[h].occ)
    BY <1>1 DEF ForeignDelete, ForeignEdit, Renounce, Tailed, TailHref
  <2>2. PICK g \in Hrefs \ {TailHref} : wire[g] # None /\ o \in wire[g].occ
    BY <2>1 DEF TailSpare
  <2>3. CASE g # h
    <3>1. wire'[g] = wire[g]
      BY <1>1, <2>3 DEF ForeignDelete, ForeignEdit, Put, Types, TypeOK
    <3> QED BY <2>1, <2>2, <3>1
  <2>4. CASE g = h
    <3>1. PICK m \in Marks : ForeignEdit(h, m)
      BY <1>1, <2>1, <2>2, <2>4
    <3>2. wire[h] \in Body /\ wire' = [wire EXCEPT ![h] = Apply(wire[h], m)]
      BY <3>1 DEF ForeignEdit, Put, Types, TypeOK
    <3>3. Apply(wire[h], m) \in Body /\ Apply(wire[h], m).occ = wire[h].occ
      BY <3>2, BodyTypes
    <3>4. wire'[h] # None /\ o \in (wire'[h]).occ
      BY <1>n, <2>2, <2>4, <3>2, <3>3 DEF Types, TypeOK
    <3> QED BY <2>1, <2>2, <2>4, <3>4
  <2> QED BY <2>3, <2>4
<1>2. ASSUME NEW c \in Cals, NEW k \in Occs, Split(c, k)
      PROVE \E g \in Hrefs \ {TailHref'} : wire'[g] # None /\ o \in (wire'[g]).occ
  <2>1. PICK t \in fresh : /\ Put(<<c, t>>, Tail(cache[c], k, t))
                           /\ job'.cal = c /\ job'.tail = t
    BY <1>2 DEF Split, Step, NoJob
  <2>2. wire[<<c, t>>] = None /\ TailHref' = <<c, t>> /\ Generated(o)
    BY <1>2, <2>1 DEF FreshFree, TailHref, Split, AllGenerated
  <2>3. PICK g \in Hrefs : wire[g] # None /\ o \in wire[g].occ
    BY <2>2 DEF Generated
  <2>4. g # <<c, t>> /\ wire'[g] = wire[g]
    BY <2>1, <2>2, <2>3 DEF Put, Types, TypeOK
  <2> QED BY <2>2, <2>3, <2>4
<1>3. ASSUME op \in SplitOps \ {"splitrefresh"}, Tailed, TailHref' = TailHref,
             SplitHead \/ SplitReget \/ SplitTail \/ SplitHead2
      PROVE \E g \in Hrefs \ {TailHref'} : wire'[g] # None /\ o \in (wire'[g]).occ
  <2>1. o \in kept
    BY <1>3 DEF SplitHead, SplitReget, SplitTail, SplitHead2, Truncated, Step
  <2>2. PICK g \in Hrefs \ {TailHref} : wire[g] # None /\ o \in wire[g].occ
    BY <1>3, <2>1 DEF TailSpare
  <2>3. wire' = wire \/ \E u \in fresh : Put(TailHref, Tail(job.body, job.cut, u))
    BY <1>3 DEF SplitHead, SplitReget, SplitTail, SplitHead2, Truncated, Step, SplitOps,
                TailHref
  <2>4. wire'[g] = wire[g]
    BY <2>2, <2>3 DEF Put, Types, TypeOK
  <2> QED BY <1>3, <2>2, <2>4
<1>4. CASE UNCHANGED vars
  BY <1>4 DEF vars, TailSpare, Tailed, TailHref
<1> QED BY <1>1, <1>2, <1>3, <1>4, SplitSteps

LEMMA CoversStep ==
    ASSUME Types, TailCovers, [Next]_vars
    PROVE  TailCovers'
<1> SUFFICES ASSUME op' \in {"splithead", "splithead2"}, Tailed', NEW o \in kept',
                    o \in job'.body.occ, o >= job'.cut
             PROVE  wire'[TailHref'] # None /\ o \in (wire'[TailHref']).occ
  BY DEF TailCovers
<1>n. None \notin Body
  BY NoneAssumption DEF NoneAssumption
<1>1. ASSUME NEW h \in Hrefs, ForeignDelete(h) \/ \E m \in Marks : ForeignEdit(h, m)
      PROVE wire'[TailHref'] # None /\ o \in (wire'[TailHref']).occ
  <2>1. /\ TailHref' = TailHref /\ Tailed /\ op = op' /\ job' = job
        /\ o \in kept /\ (ForeignDelete(h) => o \notin wire[h].occ)
    BY <1>1 DEF ForeignDelete, ForeignEdit, Renounce, Tailed, TailHref
  <2>2. wire[TailHref] # None /\ o \in wire[TailHref].occ
    BY <2>1 DEF TailCovers
  <2>3. TailHref \in Hrefs
    BY <2>1, Places DEF TailHref, Tailed, Types, TypeOK, JobKnown, SplitOps
  <2>4. CASE h # TailHref
    <3>1. wire'[TailHref] = wire[TailHref]
      BY <1>1, <2>3, <2>4 DEF ForeignDelete, ForeignEdit, Put, Types, TypeOK
    <3> QED BY <2>1, <2>2, <3>1
  <2>5. CASE h = TailHref
    <3>1. PICK m \in Marks : ForeignEdit(h, m)
      BY <1>1, <2>1, <2>2, <2>5
    <3>2. wire[h] \in Body /\ wire' = [wire EXCEPT ![h] = Apply(wire[h], m)]
      BY <3>1 DEF ForeignEdit, Put, Types, TypeOK
    <3>3. Apply(wire[h], m) \in Body /\ Apply(wire[h], m).occ = wire[h].occ
      BY <3>2, BodyTypes
    <3>4. wire'[h] # None /\ o \in (wire'[h]).occ
      BY <1>n, <2>2, <2>5, <3>2, <3>3 DEF Types, TypeOK
    <3> QED BY <2>1, <2>5, <3>4
  <2> QED BY <2>4, <2>5
<1>2. ASSUME NEW c \in Cals, NEW k \in Occs, Split(c, k)
      PROVE wire'[TailHref'] # None /\ o \in (wire'[TailHref']).occ
  <2>1. PICK t \in fresh : /\ Put(<<c, t>>, Tail(cache[c], k, t))
                           /\ job' = [NoJob EXCEPT !.cal = c, !.body = cache[c],
                                                   !.tail = t, !.cut = k]
    BY <1>2 DEF Split, Step
  <2>2. job'.cal = c /\ job'.tail = t /\ job'.body = cache[c] /\ job'.cut = k
    BY <2>1 DEF NoJob
  <2>3. <<c, t>> \in Hrefs /\ cache[c] \in Body /\ t \in Tails
    BY <1>2, Places DEF Split, Types, TypeOK
  <2>4. /\ Tail(cache[c], k, t) \in Body
        /\ Tail(cache[c], k, t).occ = {k} \cup {x \in cache[c].occ : x > k}
    BY <2>3, BodyTypes
  <2>5. o = k \/ o > k
    <3>1. k \in Nat /\ o \in Nat
      BY <2>2, <2>3, OccsAssumption DEF OccsAssumption, Body
    <3> QED BY <2>2, <3>1
  <2>6. wire'[<<c, t>>] = Tail(cache[c], k, t) /\ TailHref' = <<c, t>>
    BY <2>1, <2>2, <2>3 DEF Put, TailHref, Types, TypeOK
  <2> QED BY <1>n, <2>2, <2>4, <2>5, <2>6
<1>3. ASSUME NEW c \in Cals, NEW k \in Occs, Truncate(c, k) PROVE FALSE
  BY <1>3 DEF Truncate, Step, NoJob, Tailed
<1>4. CASE SplitReget /\ job.tail = None
  BY <1>4 DEF SplitReget, Step, End, NoJob, Tailed, Types, TypeOK
<1>5. CASE SplitTail /\ op' = "splithead2"
  <2>1. PICK u \in fresh : Put(TailHref, Tail(job.body, job.cut, u)) /\ job' = job
    BY <1>5 DEF SplitTail, Step, End, TailHref
  <2>2. TailHref \in Hrefs /\ job.body \in Body /\ job.cut \in Occs /\ u \in Tails
    BY <1>5, Places DEF SplitTail, TailHref, Types, TypeOK, JobKnown, SplitOps
  <2>3. /\ Tail(job.body, job.cut, u) \in Body
        /\ Tail(job.body, job.cut, u).occ = {job.cut} \cup {x \in job.body.occ : x > job.cut}
    BY <2>2, BodyTypes
  <2>4. o = job.cut \/ o > job.cut
    <3>1. job.cut \in Nat /\ o \in Nat /\ o >= job.cut
      BY <2>1, <2>2, OccsAssumption DEF OccsAssumption, Body
    <3> QED BY <3>1
  <2>5. TailHref' = TailHref /\ wire'[TailHref] = Tail(job.body, job.cut, u)
    BY <2>1, <2>2 DEF TailHref, Put, Types, TypeOK
  <2> QED BY <1>n, <2>1, <2>3, <2>4, <2>5
<1>6. CASE UNCHANGED vars
  BY <1>6 DEF vars, TailCovers, Tailed, TailHref
<1> QED BY <1>1, <1>2, <1>3, <1>4, <1>5, <1>6, HeadOps

LEMMA OccurrencesInit == Init => Occurrences
  BY DEF Init, Occurrences, NoMoves, TailSpare, TailCovers, AllGenerated, DeleteOps,
         SplitOps, Tailed, NoJob

LEMMA OccurrencesStep == Changes /\ Occurrences /\ [Next]_vars => Occurrences'
<1> SUFFICES ASSUME Changes, Occurrences, [Next]_vars, "move" \notin scene'.handlers
             PROVE  NoMoves' /\ TailSpare' /\ TailCovers' /\ AllGenerated'
  BY DEF Occurrences
<1>1. scene' = scene
  BY SceneStep
<1>2. /\ Types /\ FreshFree /\ NoMoves /\ TailSpare /\ TailCovers /\ AllGenerated
      /\ "move" \notin scene.handlers
  BY <1>1 DEF Changes, Occurrences
<1> QED BY <1>2, NoMovesStep, SpareStep, CoversStep, GeneratedStep

\* Without moves, every occurrence nobody gave up is generated by a resource.
THEOREM OccurrencesAreKept == Spec => []NoLostOccurrence
<1>1. Occurrences => NoLostOccurrence
  BY DEF Occurrences, NoLostOccurrence, AllGenerated
<1> QED BY <1>1, ChangesAlways, OccurrencesInit, OccurrencesStep, PTL DEF Spec

=============================================================================

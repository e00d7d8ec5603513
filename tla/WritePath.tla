------------------------------ MODULE WritePath ------------------------------
(***************************************************************************)
(* What the write handlers do to a recurring event that other clients edit *)
(* at the same time: create_event, edit_event, delete_task, move_event and *)
(* split_event of backend/tasksd/sync/engine.py.                           *)
(*                                                                         *)
(* A resource is the set of changes (field-level intents) that went into   *)
(* its body and the set of occurrences it generates.  Its etag is the body.*)
(* A handler works from the cached row, which is as old as the last sync.  *)
(* Handlers run one at a time; foreign writes, transport errors and        *)
(* crashes fall between their requests.                                    *)
(***************************************************************************)
EXTENDS Naturals

CONSTANTS
    Cals,           \* calendars
    Tails,          \* fresh uuid4 names and UIDs for the tails of splits
    Marks,          \* changes; one is used again once no body has it
    Occs,           \* the occurrences of the series, in order
    Scenes,         \* who does what: see scene
    None

Event == "event"    \* the basename and the UID of the event
Names == {Event} \cup Tails
Hrefs == Cals \X Names

Body == [uid : Names, marks : SUBSET Marks, occ : SUBSET Occs]

ASSUME OccsAssumption   == Occs \subseteq Nat
ASSUME TailsAssumption  == Event \notin Tails
ASSUME ScenesAssumption ==
    Scenes \subseteq [cals : SUBSET Cals, occs : SUBSET Occs, foreign : SUBSET Names,
                      handlers : SUBSET {"create", "edit", "delete", "move", "split"}]
ASSUME NoneAssumption   == None \notin Body \cup Names \cup Cals

VARIABLES
    scene,      \* the calendars and occurrences there are, the handlers users
                \* call, and the resources foreign clients work on
    wire,       \* wire[h]: the resource the server stores at h, or None
    cache,      \* cache[c]: the body in the event's row in calendar c, or None
    fresh,      \* uuids not drawn yet
    acked,      \* changes the server took and nobody asked to delete
    kept,       \* occurrences somebody created and nobody asked to delete
    op,         \* the next request of the running handler
    job         \* its local variables

vars == <<scene, wire, cache, fresh, acked, kept, op, job>>

At(c) == <<c, Event>>

\* cal: the calendar of the row; dst: the calendar the handler ends with;
\* body: the revision the next request is conditional on; tail, cut: the
\* name of a split's tail and its first occurrence; mark: the change to make.
NoJob == [cal |-> None, dst |-> None, body |-> None,
          tail |-> None, cut |-> None, mark |-> None]

\* A change nobody has made: no body anywhere has it.
NewMark(m) ==
    /\ m # job.mark
    /\ \A b \in {wire[h] : h \in Hrefs} \cup {cache[c] : c \in Cals} \cup {job.body} :
           b # None => m \notin b.marks

Apply(b, m) == [b EXCEPT !.marks = @ \cup {m}]

\* split_series: the head ends before the anchor, the tail is a new resource
\* whose DTSTART is the anchor.
Head(b, k) == [b EXCEPT !.occ = {o \in b.occ : o < k}]

\* Mutated form: the tail starts one occurrence late.
TailLate(b, k, u) == [uid |-> u, marks |-> b.marks, occ |-> {k + 1} \cup {o \in b.occ : o > k}]

Tail(b, k, u) == [uid |-> u, marks |-> b.marks, occ |-> {k} \cup {o \in b.occ : o > k}]

Put(h, b) == wire' = [wire EXCEPT ![h] = b]

\* Somebody wants resource h gone, with all it holds.
Renounce(h) ==
    /\ acked' = acked \ wire[h].marks
    /\ kept' = kept \ wire[h].occ

End == op' = "idle" /\ job' = NoJob

Step(o, j) == op' = o /\ job' = j

Start(handler) == op = "idle" /\ handler \in scene.handlers

-----------------------------------------------------------------------------
(* Foreign clients, and the poll                                           *)

\* Another client edits the revision it has just read.
ForeignEdit(h, m) ==
    /\ h[2] \in scene.foreign
    /\ wire[h] # None
    /\ NewMark(m)
    /\ Put(h, Apply(wire[h], m))
    /\ acked' = acked \cup {m}
    /\ UNCHANGED <<scene, cache, fresh, kept, op, job>>

ForeignDelete(h) ==
    /\ h[2] \in scene.foreign
    /\ wire[h] # None
    /\ Put(h, None)
    /\ Renounce(h)
    /\ UNCHANGED <<scene, cache, fresh, op, job>>

\* A sync pass of calendar c (see SyncEngine).
Sync(c) ==
    /\ op = "idle"
    /\ cache[c] # wire[At(c)]
    /\ cache' = [cache EXCEPT ![c] = wire[At(c)]]
    /\ UNCHANGED <<scene, wire, fresh, acked, kept, op, job>>

-----------------------------------------------------------------------------
(* create_event                                                            *)

\* _put_new with a caller's slug: If-None-Match, and an occupant with our UID
\* is this same create come true earlier.
Create(c, m) ==
    /\ Start("create")
    /\ \/ /\ wire[At(c)] = None
          /\ NewMark(m)
          /\ Put(At(c), [uid |-> Event, marks |-> {m}, occ |-> scene.occs])
          /\ acked' = acked \cup {m}
          /\ kept' = scene.occs
       \/ /\ wire[At(c)] # None
          /\ UNCHANGED <<wire, acked, kept>>
    /\ Step("refresh", [NoJob EXCEPT !.dst = c])
    /\ UNCHANGED <<scene, cache, fresh>>

\* _refresh_from_wire; NotFound if the resource is gone again.
Refresh ==
    /\ op = "refresh"
    /\ LET b == wire[At(job.dst)]
       IN IF b = None
          THEN End /\ UNCHANGED cache
          ELSE End /\ cache' = [cache EXCEPT ![job.dst] = b]
    /\ UNCHANGED <<scene, wire, fresh, acked, kept>>

-----------------------------------------------------------------------------
(* edit_event, override_event, shift_event, exclude_event_occurrence: _edit *)

\* PUT the change applied to the cached body, If-Match the cached etag.
Edit(c, m) ==
    /\ Start("edit")
    /\ cache[c] # None
    /\ NewMark(m)
    /\ IF wire[At(c)] = cache[c]
       THEN /\ Put(At(c), Apply(cache[c], m))
            /\ acked' = acked \cup {m}
            /\ Step("refresh", [NoJob EXCEPT !.dst = c])
       ELSE /\ Step("reget", [NoJob EXCEPT !.dst = c, !.mark = m])
            /\ UNCHANGED <<wire, acked>>
    /\ UNCHANGED <<scene, cache, fresh, kept>>

\* After the 412: the fresh revision, if there is one.
Reget ==
    /\ op = "reget"
    /\ IF wire[At(job.dst)] = None
       THEN End
       ELSE Step("reput", [job EXCEPT !.body = wire[At(job.dst)]])
    /\ UNCHANGED <<scene, wire, cache, fresh, acked, kept>>

\* Mutated form: the retry sends the body made from the cached row again.
ReputCached ==
    /\ op = "reput"
    /\ IF wire[At(job.dst)] = job.body
       THEN /\ Put(At(job.dst), Apply(cache[job.dst], job.mark))
            /\ acked' = acked \cup {job.mark}
            /\ Step("refresh", job)
       ELSE End /\ UNCHANGED <<wire, acked>>
    /\ UNCHANGED <<scene, cache, fresh, kept>>

\* The same change applied to the fresh revision; a second 412 is a conflict.
Reput ==
    /\ op = "reput"
    /\ IF wire[At(job.dst)] = job.body
       THEN /\ Put(At(job.dst), Apply(job.body, job.mark))
            /\ acked' = acked \cup {job.mark}
            /\ Step("refresh", job)
       ELSE End /\ UNCHANGED <<wire, acked>>
    /\ UNCHANGED <<scene, cache, fresh, kept>>

-----------------------------------------------------------------------------
(* delete_task, on its own and as the second half of move_event            *)

Delete(c) ==
    /\ Start("delete")
    /\ cache[c] # None
    /\ Step("delete", [NoJob EXCEPT !.cal = c])
    /\ UNCHANGED <<scene, wire, cache, fresh, acked, kept>>

\* A user's delete means the resource with all it holds; a move's does not.
Drop(h) ==
    /\ Put(h, None)
    /\ IF job.dst = None THEN Renounce(h) ELSE UNCHANGED <<acked, kept>>

\* DELETE If-Match the cached etag; 404 is fine, 412 is retried.
DeleteCached ==
    /\ op = "delete"
    /\ LET h == At(job.cal)
       IN \/ /\ wire[h] = cache[job.cal]
             /\ Drop(h)
             /\ Step("forget", job)
          \/ /\ wire[h] = None
             /\ Step("forget", job)
             /\ UNCHANGED <<wire, acked, kept>>
          \/ /\ wire[h] \notin {None, cache[job.cal]}
             /\ Step("head", job)
             /\ UNCHANGED <<wire, acked, kept>>
    /\ UNCHANGED <<scene, cache, fresh>>

\* head_etag; NotFound means there is nothing left to delete.
HeadEtag ==
    /\ op = "head"
    /\ IF wire[At(job.cal)] = None
       THEN Step("forget", job)
       ELSE Step("redelete", [job EXCEPT !.body = wire[At(job.cal)]])
    /\ UNCHANGED <<scene, wire, cache, fresh, acked, kept>>

\* The current revision is deleted, whatever was changed in it; a second 412
\* ends the handler with an error.
DeleteCurrent ==
    /\ op = "redelete"
    /\ LET h == At(job.cal)
       IN \/ /\ wire[h] = job.body
             /\ Drop(h)
             /\ Step("forget", job)
          \/ /\ wire[h] = None
             /\ Step("forget", job)
             /\ UNCHANGED <<wire, acked, kept>>
          \/ /\ wire[h] \notin {None, job.body}
             /\ End
             /\ UNCHANGED <<wire, acked, kept>>
    /\ UNCHANGED <<scene, cache, fresh>>

Forget ==
    /\ op = "forget"
    /\ cache' = [cache EXCEPT ![job.cal] = None]
    /\ IF job.dst = None THEN End ELSE Step("refresh", job)
    /\ UNCHANGED <<scene, wire, fresh, acked, kept>>

-----------------------------------------------------------------------------
(* move_event                                                              *)

\* Mutated form: delete first, copy afterwards.
MoveDeleteFirst(c, d) ==
    /\ Start("move")
    /\ c # d
    /\ cache[c] # None
    /\ wire[At(d)] = None
    /\ wire[At(c)] = cache[c]
    /\ Put(At(c), None)
    /\ Step("forget", [NoJob EXCEPT !.cal = c, !.dst = d])
    /\ UNCHANGED <<scene, cache, fresh, acked, kept>>

\* Copy the cached bytes, If-None-Match, then go on to delete_task.
Move(c, d) ==
    /\ Start("move")
    /\ c # d
    /\ cache[c] # None
    /\ IF wire[At(d)] = None
       THEN /\ Put(At(d), cache[c])
            /\ Step("delete", [NoJob EXCEPT !.cal = c, !.dst = d])
       ELSE End /\ UNCHANGED wire
    /\ UNCHANGED <<scene, cache, fresh, acked, kept>>

-----------------------------------------------------------------------------
(* split_event                                                             *)

\* Mutated form: the head is truncated first and the tail written afterwards.
SplitHeadFirst(c, k) ==
    /\ Start("split")
    /\ cache[c] # None
    /\ k \in cache[c].occ
    /\ wire[At(c)] = cache[c]
    /\ \E t \in fresh :
           /\ Put(At(c), Head(cache[c], k))
           /\ fresh' = fresh \ {t}
           /\ Step("splittail", [NoJob EXCEPT !.cal = c, !.body = cache[c],
                                              !.tail = t, !.cut = k])
    /\ UNCHANGED <<scene, cache, acked, kept>>

\* Change "this and following": write the tail, derived from the cached row.
Split(c, k) ==
    /\ Start("split")
    /\ cache[c] # None
    /\ k \in cache[c].occ
    /\ \E t \in fresh :
           /\ Put(<<c, t>>, Tail(cache[c], k, t))
           /\ fresh' = fresh \ {t}
           /\ Step("splithead", [NoJob EXCEPT !.cal = c, !.body = cache[c],
                                              !.tail = t, !.cut = k])
    /\ UNCHANGED <<scene, cache, acked, kept>>

\* Delete "this and following": only the head will be written.
Truncate(c, k) ==
    /\ Start("split")
    /\ cache[c] # None
    /\ k \in cache[c].occ
    /\ Step("splithead", [NoJob EXCEPT !.cal = c, !.body = cache[c], !.cut = k])
    /\ UNCHANGED <<scene, wire, cache, fresh, acked, kept>>

\* The head's PUT went through; without a tail its later occurrences are gone,
\* which is what was asked for.
Truncated ==
    /\ Put(At(job.cal), Head(job.body, job.cut))
    /\ kept' = IF job.tail = None THEN kept \ {o \in Occs : o >= job.cut} ELSE kept
    /\ Step("splitrefresh", job)

\* PUT the head If-Match the cached etag.
SplitHead ==
    /\ op = "splithead"
    /\ IF wire[At(job.cal)] = job.body
       THEN Truncated
       ELSE Step("splitreget", job) /\ UNCHANGED <<wire, kept>>
    /\ UNCHANGED <<scene, cache, fresh, acked>>

\* Mutated form: after a 412 only the head is derived anew.
SplitRegetHead ==
    /\ op = "splitreget"
    /\ IF wire[At(job.cal)] = None
       THEN End
       ELSE Step("splithead2", [job EXCEPT !.body = wire[At(job.cal)]])
    /\ UNCHANGED <<scene, wire, cache, fresh, acked, kept>>

\* After a 412 head and tail are derived from the fresh revision.
SplitReget ==
    /\ op = "splitreget"
    /\ IF wire[At(job.cal)] = None
       THEN End
       ELSE Step(IF job.tail = None THEN "splithead2" ELSE "splittail",
                 [job EXCEPT !.body = wire[At(job.cal)]])
    /\ UNCHANGED <<scene, wire, cache, fresh, acked, kept>>

\* The unconditional PUT over the tail.  It carries a UID drawn anew, which a
\* server may refuse for a resource that exists.
SplitTail ==
    /\ op = "splittail"
    /\ LET h == <<job.cal, job.tail>>
       IN \/ \E u \in fresh :
                 /\ Put(h, Tail(job.body, job.cut, u))
                 /\ fresh' = fresh \ {u}
                 /\ Step("splithead2", job)
          \/ /\ wire[h] # None
             /\ End
             /\ UNCHANGED <<wire, fresh>>
    /\ UNCHANGED <<scene, cache, acked, kept>>

\* The second PUT of the head; a second 412 withdraws the tail.
SplitHead2 ==
    /\ op = "splithead2"
    /\ \/ wire[At(job.cal)] = job.body /\ Truncated
       \/ /\ wire[At(job.cal)] # job.body
          /\ IF job.tail = None THEN End ELSE Step("splitundo", job)
          /\ UNCHANGED <<wire, kept>>
    /\ UNCHANGED <<scene, cache, fresh, acked>>

\* DELETE the tail, unconditionally; a DavError is ignored.
SplitUndo ==
    /\ op = "splitundo"
    /\ wire' \in {wire, [wire EXCEPT ![<<job.cal, job.tail>>] = None]}
    /\ End
    /\ UNCHANGED <<scene, cache, fresh, acked, kept>>

\* Refresh the head's row, then the tail's (which has a row of its own that no
\* handler modelled here reads); NotFound if one of them is gone.
SplitRefresh ==
    /\ op = "splitrefresh"
    /\ cache' = IF wire[At(job.cal)] = None THEN cache
                ELSE [cache EXCEPT ![job.cal] = wire[At(job.cal)]]
    /\ End
    /\ UNCHANGED <<scene, wire, fresh, acked, kept>>

-----------------------------------------------------------------------------
\* A transport error or a crash: the server keeps what it took, nothing else
\* happens.
Fail ==
    /\ op # "idle"
    /\ End
    /\ UNCHANGED <<scene, wire, cache, fresh, acked, kept>>

Init ==
    /\ scene \in Scenes
    /\ wire = [h \in Hrefs |-> None]
    /\ cache = [c \in Cals |-> None]
    /\ fresh = Tails
    /\ acked = {}
    /\ kept = {}
    /\ op = "idle"
    /\ job = NoJob

Foreign == \E h \in Hrefs : ForeignDelete(h) \/ \E m \in Marks : ForeignEdit(h, m)

EditStep ==
    \/ \E c \in scene.cals, m \in Marks : Create(c, m) \/ Edit(c, m)
    \/ Reget
    \/ Reput
    \/ Refresh

DeleteStep ==
    \/ \E c \in Cals : Delete(c)
    \/ DeleteCached
    \/ HeadEtag
    \/ DeleteCurrent
    \/ Forget

MoveStep == \E c, d \in scene.cals : Move(c, d)

SplitStep ==
    \/ \E c \in Cals, k \in Occs : Split(c, k) \/ Truncate(c, k)
    \/ SplitHead
    \/ SplitReget
    \/ SplitTail
    \/ SplitHead2
    \/ SplitUndo
    \/ SplitRefresh

Next ==
    \/ Foreign
    \/ \E c \in Cals : Sync(c)
    \/ EditStep
    \/ DeleteStep
    \/ MoveStep
    \/ SplitStep
    \/ Fail

Spec == Init /\ [][Next]_vars

-----------------------------------------------------------------------------
(* Properties                                                              *)

Ops == {"idle", "refresh", "reget", "reput", "delete", "head", "redelete", "forget",
        "splithead", "splitreget", "splittail", "splithead2", "splitundo",
        "splitrefresh"}

TypeOK ==
    /\ scene \in Scenes
    /\ wire \in [Hrefs -> Body \cup {None}]
    /\ cache \in [Cals -> Body \cup {None}]
    /\ fresh \in SUBSET Tails
    /\ acked \in SUBSET Marks
    /\ kept \in SUBSET Occs
    /\ op \in Ops
    /\ job \in [cal : Cals \cup {None}, dst : Cals \cup {None}, body : Body \cup {None},
                tail : Tails \cup {None}, cut : Occs \cup {None}, mark : Marks \cup {None}]

Carried(m) == \E h \in Hrefs : wire[h] # None /\ m \in wire[h].marks

Generated(o) == \E h \in Hrefs : wire[h] # None /\ o \in wire[h].occ

\* test_concurrency.py:1, "two writers, interleaved, must never lose a
\* property": a change the server took, from a foreign client or from the app,
\* is on some resource until somebody deletes that resource.
NoLostChange == \A m \in acked : Carried(m)

\* The steps that may: the DELETE a move sends again after a 412, of a revision
\* it has not copied, and the unconditional PUT and DELETE of a split's tail.
MoveDeletes == op = "redelete" /\ job.dst # None

TailForced == op \in {"splittail", "splitundo"} /\ wire[<<job.cal, job.tail>>] # None

\* No other step of any handler loses a change that some resource has and that
\* nobody deletes: not the retry of an edit on a fresh revision, nor a create
\* that finds its name taken, a split in conflict, a crash, or a poll between.
ChangesKept ==
    [][\A m \in acked \cap acked' :
           Carried(m) => Carried(m)' \/ MoveDeletes \/ TailForced]_vars

\* Moving a row loses no change that the row has: at every step of the move,
\* and so wherever it is cut off, the change is in one of the calendars, unless
\* somebody deleted it there.
MoveKeepsSeen ==
    job.dst # None /\ job.cal # None /\ cache[job.cal] # None =>
        \A m \in acked \cap cache[job.cal].marks : Carried(m)

\* Without moves, no occurrence is lost: at every moment of a split, at every
\* crash and after every conflict, each occurrence that nobody asked to delete
\* is generated by some resource (engine.py:297, "recoverable duplicate
\* occurrences instead of silently deleting every following one").
NoLostOccurrence == "move" \notin scene.handlers => \A o \in kept : Generated(o)

\* Head and tail come from the same revision (engine.py:287): when the head is
\* truncated, the tail, if no other client removed it, has every change the
\* head has, those of a concurrent writer included.
HeadWritten == op \in {"splithead", "splithead2"} /\ op' = "splitrefresh" /\ job.tail # None

TailInherits ==
    [][HeadWritten =>
           \/ wire'[<<job.cal, job.tail>>] = None
           \/ wire'[At(job.cal)].marks \subseteq (wire'[<<job.cal, job.tail>>]).marks]_vars

=============================================================================

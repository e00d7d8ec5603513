------------------------------ MODULE Sidebar ------------------------------
(***************************************************************************)
(* The rail of task lists, or of calendars, and the preferences that       *)
(* follow the account: frontend/src/components/Sidebar.tsx, the rails and  *)
(* their pruning in TasksView.tsx and CalendarView.tsx, the settings in    *)
(* App.tsx, and the settings blob of backend/tasksd/service.py and         *)
(* db/store.py.                                                            *)
(*                                                                         *)
(* Two keys of the blob are modelled: what is hidden, and what is placed,  *)
(* the lists in one group or the archived calendars.  A tab sends the      *)
(* whole value of a key with every change.                                 *)
(***************************************************************************)
EXTENDS Naturals, Sequences, FiniteSets

CONSTANTS
    Tabs,       \* browser tabs, on any device
    Lists,      \* ids of task lists or calendars; a deleted one does not come back
    MaxFlying,  \* bound: requests of a tab under way when it or its user starts another
    MaxAstray,  \* bound: kinds of requests gone astray while users still do something
    None

ASSUME BoundsAssumption == MaxFlying \in Nat \ {0} /\ MaxAstray \in Nat
ASSUME NoneAssumption   == None \notin Lists /\ \A lists \in SUBSET Lists : None # lists

\* hidden_lists and task_groups, or hidden_calendars and archived_calendars.
Keys  == {"hidden", "placed"}
Prefs == [Keys -> SUBSET Lists]
NoPrefs == [k \in Keys |-> {}]
Put   == [val : SUBSET Lists, by : {"user", "prune"}]
NoPuts == [k \in Keys |-> <<>>]

VARIABLES
    scene,      \* "calendars"; or lists: "plain"; "creates", the user creates lists;
                \* "lossy", PUTs, DELETEs and reads may fail
    life,       \* life[l]: "unborn", "live" or "deleted" in the service's cache
    blob,       \* the stored settings
    phase,      \* phase[t]: "loading" its settings, "read" by the service, "ready"
    seen,       \* seen[t]: the settings that were read for it
    items,      \* items[t]: the lists in its rail
    prefs,      \* prefs[t]: the settings it shows
    reads,      \* reads[t]: its reads of the lists not yet served
    answers,    \* answers[t]: those that are on their way back, as they were served
    undone,     \* history: pruning by calendars has undone what its user did meanwhile
    puts,       \* puts[t][k]: its PUTs for key k under way, as they were sent
    astray,     \* history: the keys whose PUTs, and "lists" if the answers to a
                \* tab's reads, have overtaken one another or got lost
    asked       \* asked[t]: the POST or DELETE of a list it waits for

loading == <<phase, seen>>
tab     == <<items, prefs, puts>>
asking  == <<reads, answers>>
history == <<undone, astray>>
vars    == <<scene, life, blob, loading, tab, asking, history, asked>>

Scenes    == {"calendars", "plain", "creates", "lossy"}
Calendars == scene = "calendars"

Live    == {l \in Lists : life[l] = "live"}
Deleted == {l \in Lists : life[l] = "deleted"}

Nothing == [what |-> "nothing", list |-> None, prev |-> {}, served |-> FALSE]
Asked   == [what : {"nothing", "create", "remove"}, list : Lists \cup {None},
            prev : SUBSET Lists, served : BOOLEAN]
Waiting(t) == asked[t] # Nothing

\* A read of the lists under way; that of the calendars holds on to the
\* preferences of the moment it was sent, and outlives its view.
Read       == [prefs : Prefs, here : BOOLEAN]
Answer     == [prefs : Prefs, here : BOOLEAN, got : SUBSET Lists]
NewRead(t) == [prefs |-> IF Calendars THEN prefs[t] ELSE NoPrefs, here |-> TRUE]

\* Requests run side by side: any of those under way may be the next.
Others(q, n) == SubSeq(q, 1, n - 1) \o SubSeq(q, n + 1, Len(q))

\* One of several under way, of the kind what, overtakes those before it.
Overtakes(what, n) == astray' = IF n = 1 THEN astray ELSE astray \cup {what}

\* A PUT for pruning may come on top of them.
CanSend(t) ==
    Len(puts[t]["hidden"]) + Len(puts[t]["placed"]) + Len(reads[t]) + Len(answers[t])
        < IF Waiting(t) THEN MaxFlying - 1 ELSE MaxFlying

CanAct(t) == CanSend(t) /\ Cardinality(astray) <= MaxAstray

-----------------------------------------------------------------------------
(* The tab's settings                                                      *)

Ready(t) == phase[t] = "ready"

\* Mutated form: the PUT carries the value the change started from.
ChangedStale(t, new, by) ==
    /\ prefs' = [prefs EXCEPT ![t] = new]
    /\ puts' = [puts EXCEPT ![t] =
           [k \in Keys |-> IF new[k] = prefs[t][k] THEN @[k]
                           ELSE Append(@[k], [val |-> prefs[t][k], by |-> by])]]

\* The tab's new preferences new, with one PUT for each key that differs.
Changed(t, new, by) ==
    /\ prefs' = [prefs EXCEPT ![t] = new]
    /\ puts' = [puts EXCEPT ![t] =
           [k \in Keys |-> IF new[k] = prefs[t][k] THEN @[k]
                           ELSE Append(@[k], [val |-> new[k], by |-> by])]]

\* Mutated forms: the initial empty state prunes, too; groups are not pruned.
KeptOfAll(old, lists) == [k \in Keys |-> old[k] \cap lists]

KeptHidden(old, lists) ==
    IF lists = {} THEN old ELSE [old EXCEPT !["hidden"] = @ \cap lists]

\* The effect on lists: what refers to lists that are not there is dropped, but
\* not for an empty rail.
Kept(old, lists) == IF lists = {} THEN old ELSE [k \in Keys |-> old[k] \cap lists]

\* setLists, and the effect; or setCals, which has none.
SetLists(t, lists) ==
    /\ items' = [items EXCEPT ![t] = lists]
    /\ Changed(t, IF Calendars THEN prefs[t] ELSE Kept(prefs[t], lists), "prune")

\* GET /api/settings when the tab opens; and never again.
ReadSettings(t) ==
    /\ phase[t] = "loading"
    /\ phase' = [phase EXCEPT ![t] = "read"]
    /\ seen' = [seen EXCEPT ![t] = blob]
    /\ UNCHANGED <<scene, life, blob, tab, asking, asked, history>>

LandSettings(t) ==
    /\ phase[t] = "read"
    /\ phase' = [phase EXCEPT ![t] = "ready"]
    /\ prefs' = [prefs EXCEPT ![t] = seen[t]]
    /\ seen' = [seen EXCEPT ![t] = NoPrefs]
    /\ UNCHANGED <<scene, life, blob, items, puts, asking, asked, history>>

\* toggleVisible, moveListToGroup: the user changes the place of one list in one
\* key; archived calendars are not in the rail.  (Bound: not before the settings
\* have arrived.)
Toggle(t, k, l) ==
    /\ Ready(t)
    /\ CanAct(t)
    /\ l \in items[t]
    /\ Calendars => k = "hidden" /\ l \notin prefs[t]["placed"]
    /\ Changed(t, [prefs[t] EXCEPT ![k] = IF l \in @ THEN @ \ {l} ELSE @ \cup {l}], "user")
    /\ UNCHANGED <<scene, life, blob, loading, items, asking, asked, history>>

\* Mutated form: an archived calendar may stay hidden.
ArchiveDimmed(t, l) ==
    /\ Calendars /\ Ready(t)
    /\ CanAct(t)
    /\ l \in items[t] \ prefs[t]["placed"]
    /\ Changed(t, [prefs[t] EXCEPT !["placed"] = @ \cup {l}], "user")
    /\ UNCHANGED <<scene, life, blob, loading, items, asking, history, asked>>

\* archiveCal.
Archive(t, l) ==
    /\ Calendars /\ Ready(t)
    /\ CanAct(t)
    /\ l \in items[t] \ prefs[t]["placed"]
    /\ Changed(t, [prefs[t] EXCEPT !["placed"] = @ \cup {l}, !["hidden"] = @ \ {l}], "user")
    /\ UNCHANGED <<scene, life, blob, loading, items, asking, history, asked>>

\* restore of ArchivedCalendarsModal, which reads the calendars when it opens.
\* (Bound: a calendar deleted since then is not restored.)
Restore(t, l) ==
    /\ Calendars /\ Ready(t)
    /\ CanAct(t)
    /\ l \in prefs[t]["placed"] \cap Live
    /\ Changed(t, [prefs[t] EXCEPT !["placed"] = @ \ {l}], "user")
    /\ UNCHANGED <<scene, life, blob, loading, items, asking, history, asked>>

-----------------------------------------------------------------------------
(* The lists in the rail                                                   *)

Left(q) == [n \in 1 .. Len(q) |-> [q[n] EXCEPT !.here = FALSE]]

\* The user goes to the other view and comes back: the view starts with an empty
\* rail and reads the lists.  What the old view had asked for sets no lists any
\* more; of calendars, it still prunes.  (Bound: not while it waits for a DELETE,
\* nor from an empty rail.)
Reopen(t) ==
    /\ ~Waiting(t)
    /\ items[t] # {}
    /\ SetLists(t, {})
    /\ IF Calendars
       THEN /\ CanSend(t)
            /\ reads' = [reads EXCEPT ![t] = Append(Left(@), NewRead(t))]
            /\ answers' = [answers EXCEPT ![t] = Left(@)]
       ELSE /\ reads' = [reads EXCEPT ![t] = <<NewRead(t)>>]
            /\ answers' = [answers EXCEPT ![t] = <<>>]
    /\ UNCHANGED <<scene, life, blob, loading, asked, history>>

\* An event has reached the tab, the debounce timer bumps rev, and the view reads
\* the lists.
Refetch(t) ==
    /\ CanSend(t)
    /\ reads' = [reads EXCEPT ![t] = Append(@, NewRead(t))]
    /\ UNCHANGED <<scene, life, blob, loading, tab, answers, asked, history>>

ServeRead(t) ==
    /\ \E n \in 1 .. Len(reads[t]) :
           /\ reads' = [reads EXCEPT ![t] = Others(@, n)]
           /\ answers' = [answers EXCEPT ![t] = Append(@,
                  [prefs |-> reads[t][n].prefs, here |-> reads[t][n].here, got |-> Live])]
    /\ UNCHANGED <<scene, life, blob, loading, tab, asked, history>>

\* The keys of the calendars' preferences that have something to prune, as read r
\* remembers them.
ToPrune(r) == {k \in Keys : ~(r.prefs[k] \subseteq r.got)}

\* setLists, which asks for no order; or setCals, and what is left of the
\* preferences of the moment the read was sent, whatever the user has done since.
LandRead(t) ==
    \E n \in 1 .. Len(answers[t]) : LET r == answers[t][n] IN
        /\ answers' = [answers EXCEPT ![t] = Others(@, n)]
        /\ Overtakes("lists", n)
        /\ IF Calendars
           THEN /\ items' = [items EXCEPT ![t] = IF r.here THEN r.got ELSE @]
                /\ Changed(t, [k \in Keys |-> IF k \in ToPrune(r) THEN r.prefs[k] \cap r.got
                                              ELSE prefs[t][k]], "prune")
                /\ undone' = (undone \/ \E k \in ToPrune(r) : r.prefs[k] # prefs[t][k])
           ELSE SetLists(t, r.got) /\ UNCHANGED undone
        /\ UNCHANGED <<scene, life, blob, loading, reads, asked>>

\* A read fails: its answer is dropped, and nothing asks again.
LoseRead(t) ==
    /\ scene = "lossy"
    /\ \/ /\ \E n \in 1 .. Len(reads[t]) : reads' = [reads EXCEPT ![t] = Others(@, n)]
          /\ UNCHANGED answers
       \/ /\ \E n \in 1 .. Len(answers[t]) : answers' = [answers EXCEPT ![t] = Others(@, n)]
          /\ UNCHANGED reads
    /\ UNCHANGED <<scene, life, blob, loading, tab, asked, history>>

\* remove: the list is taken out of the rail and of its group, the effect takes
\* it out of the hidden ones, and the DELETE is sent; a calendar is taken out of
\* the rail only.
Remove(t, l) ==
    /\ Ready(t)
    /\ ~Waiting(t)
    /\ CanAct(t)
    /\ l \in items[t]
    /\ Calendars => l \notin prefs[t]["placed"]
    /\ asked' = [asked EXCEPT ![t] = [what |-> "remove", list |-> l, prev |-> items[t], served |-> FALSE]]
    /\ items' = [items EXCEPT ![t] = @ \ {l}]
    /\ Changed(t, IF Calendars THEN prefs[t]
                  ELSE Kept([prefs[t] EXCEPT !["placed"] = @ \ {l}], items'[t]), "prune")
    /\ UNCHANGED <<scene, life, blob, loading, asking, history>>

ServeRemove(t) ==
    /\ asked[t].what = "remove"
    /\ ~asked[t].served
    /\ life' = [life EXCEPT ![asked[t].list] = "deleted"]
    /\ asked' = [asked EXCEPT ![t].served = TRUE]
    /\ UNCHANGED <<scene, blob, loading, tab, asking, history>>

Removed(t) ==
    /\ asked[t].what = "remove"
    /\ asked[t].served
    /\ asked' = [asked EXCEPT ![t] = Nothing]
    /\ UNCHANGED <<scene, life, blob, loading, tab, asking, history>>

\* The request fails, carried out or not: the rail is what it was before.
RemoveFails(t) ==
    /\ scene = "lossy"
    /\ Waiting(t)
    /\ SetLists(t, asked[t].prev)
    /\ asked' = [asked EXCEPT ![t] = Nothing]
    /\ UNCHANGED <<scene, life, blob, loading, asking, history>>

\* create: the rail is extended when the answer comes, from the lists it had when
\* the user asked.
Create(t) ==
    /\ scene = "creates"
    /\ Ready(t)
    /\ ~Waiting(t)
    /\ CanAct(t)
    /\ asked' = [asked EXCEPT ![t] = [Nothing EXCEPT !.what = "create", !.prev = items[t]]]
    /\ UNCHANGED <<scene, life, blob, loading, tab, asking, history>>

ServeCreate(t) ==
    /\ asked[t].what = "create"
    /\ ~asked[t].served
    /\ \E l \in Lists :
           /\ life[l] = "unborn"
           /\ life' = [life EXCEPT ![l] = "live"]
           /\ asked' = [asked EXCEPT ![t].list = l, ![t].served = TRUE]
    /\ UNCHANGED <<scene, blob, loading, tab, asking, history>>

Created(t) ==
    /\ asked[t].what = "create"
    /\ asked[t].served
    /\ SetLists(t, asked[t].prev \cup {asked[t].list})
    /\ asked' = [asked EXCEPT ![t] = Nothing]
    /\ UNCHANGED <<scene, life, blob, loading, asking, history>>

-----------------------------------------------------------------------------
(* The service                                                             *)

\* Mutated form: the patch replaces what is stored.
UpdatedAlone(key, val) == [k \in {key} |-> val]

\* update_settings: the patch is merged into what is stored.
Updated(key, val) == [blob EXCEPT ![key] = val]

\* The PUTs are not awaited, and each is served by a thread of its own.  The tabs
\* hear of it, but do not read the settings again.
ServePut(t, k) ==
    /\ \E n \in 1 .. Len(puts[t][k]) :
           /\ blob' = Updated(k, puts[t][k][n].val)
           /\ puts' = [puts EXCEPT ![t][k] = Others(@, n)]
           /\ Overtakes(k, n)
    /\ UNCHANGED <<scene, life, loading, items, prefs, asking, asked, undone>>

\* "stays local if offline".
LosePut(t, k) ==
    /\ scene = "lossy"
    /\ \E n \in 1 .. Len(puts[t][k]) : puts' = [puts EXCEPT ![t][k] = Others(@, n)]
    /\ astray' = astray \cup {k}
    /\ UNCHANGED <<scene, life, blob, loading, items, prefs, asking, asked, undone>>

\* A list is created or deleted by another client, and found by discover, which
\* publishes nothing.
ForeignChange(l) ==
    /\ \/ life[l] = "unborn" /\ life' = [life EXCEPT ![l] = "live"]
       \/ life[l] = "live" /\ life' = [life EXCEPT ![l] = "deleted"]
    /\ UNCHANGED <<scene, blob, loading, tab, asking, asked, history>>

-----------------------------------------------------------------------------

\* The tabs have just been opened, on settings that refer to lists which are
\* there or are not there any more.
Init ==
    /\ scene \in Scenes
    /\ life \in [Lists -> {"unborn", "live", "deleted"}]
    /\ blob \in {b \in Prefs : /\ \A k \in Keys : b[k] \subseteq Live \cup Deleted
                               /\ Calendars => b["hidden"] \cap b["placed"] = {}}
    /\ phase = [t \in Tabs |-> "loading"]
    /\ seen = [t \in Tabs |-> NoPrefs]
    /\ items = [t \in Tabs |-> {}]
    /\ prefs = [t \in Tabs |-> NoPrefs]
    /\ reads = [t \in Tabs |-> <<NewRead(t)>>]
    /\ answers = [t \in Tabs |-> <<>>]
    /\ undone = FALSE
    /\ puts = [t \in Tabs |-> NoPuts]
    /\ astray = {}
    /\ asked = [t \in Tabs |-> Nothing]

Load(t) == ReadSettings(t) \/ LandSettings(t)

Asking(t) == ServeRemove(t) \/ Removed(t) \/ ServeCreate(t) \/ Created(t)

Next ==
    \/ \E l \in Lists : ForeignChange(l)
    \/ \E t \in Tabs :
           \/ Load(t) \/ Reopen(t)
           \/ Refetch(t) \/ ServeRead(t) \/ LandRead(t) \/ LoseRead(t)
           \/ \E k \in Keys : ServePut(t, k) \/ LosePut(t, k)
           \/ Asking(t) \/ RemoveFails(t)
           \/ Create(t)
           \/ \E l \in Lists : Remove(t, l) \/ Archive(t, l) \/ Restore(t, l) \/ \E k \in Keys : Toggle(t, k, l)

Spec == Init /\ [][Next]_vars

\* Requests are answered, though the user may keep a tab busy; and events come
\* again and again.
Fairness ==
    \A t \in Tabs :
        /\ WF_vars(Load(t))
        /\ SF_vars(Refetch(t))
        /\ SF_vars(ServeRead(t))
        /\ SF_vars(LandRead(t))
        /\ \A k \in Keys : WF_vars(ServePut(t, k))
        /\ WF_vars(Asking(t))

FairSpec == Spec /\ Fairness

-----------------------------------------------------------------------------
(* Properties                                                              *)

TypeOK ==
    /\ scene \in Scenes
    /\ life \in [Lists -> {"unborn", "live", "deleted"}]
    /\ blob \in Prefs
    /\ phase \in [Tabs -> {"loading", "read", "ready"}]
    /\ seen \in [Tabs -> Prefs]
    /\ undone \in BOOLEAN
    /\ items \in [Tabs -> SUBSET Lists]
    /\ prefs \in [Tabs -> Prefs]
    /\ reads \in [Tabs -> Seq(Read)]
    /\ answers \in [Tabs -> Seq(Answer)]
    /\ puts \in [Tabs -> [Keys -> Seq(Put)]]
    /\ astray \subseteq Keys \cup {"lists"}
    /\ asked \in [Tabs -> Asked]

\* What the user of a single tab sees is what the account keeps, key by key, once
\* the PUTs have arrived: neither the interleaving of toggles, deletions, reads
\* and prunings nor the other keys make a difference.  Unless PUTs of that key have
\* overtaken one another, which nothing in the code keeps them from: then it may
\* be the older of the two that stays.
StoredIsShown ==
    \A t \in Tabs, k \in Keys :
        Ready(t) /\ puts[t][k] = <<>> /\ k \notin astray => prefs[t][k] = blob[k]

\* A PUT for pruning key k that arrives in this step.
PruneArrives(t, k) ==
    puts[t][k] # <<>> /\ Head(puts[t][k]).by = "prune" /\ puts'[t][k] = Tail(puts[t][k])

\* TasksView.tsx:48, "Prune settings that reference lists (or groups) that no
\* longer exist", and CalendarView.tsx:93, "Drop hidden ids for calendars that no
\* longer exist": in a session without creations, pruning takes out of the stored
\* settings what is deleted, or being deleted, and puts nothing in; a view that
\* has just been opened, or left, does not make it take more.  That is so unless
\* something has overtaken something else: PUTs of the key one another, answers to
\* reads of the lists one another (an older rail then prunes what was created
\* since), or the user of the calendars' rail the read that prunes.
PruneOnlyPrunes ==
    [][\A t \in Tabs, k \in Keys :
           /\ \/ scene = "plain" /\ "lists" \notin astray'
              \/ Calendars /\ ~undone
           /\ k \notin astray'
           /\ PruneArrives(t, k)
           => /\ blob'[k] \subseteq blob[k]
              /\ blob[k] \ blob'[k] \subseteq Deleted \cup {asked[u].list : u \in Tabs}]_vars

\* TasksView.tsx:49, "so a deletion here or in another CalDAV client doesn't
\* leave the blob accreting stale ids": a deleted list leaves the stored settings
\* sooner or later, whatever reads cross, unless no list is left, or PUTs of the key
\* have overtaken one another.
StaleGoes ==
    \A l \in Lists, k \in Keys :
        l \in Deleted \cap blob[k] ~>
            l \notin blob[k] \/ Live = {} \/ k \in astray

\* CalendarView.tsx:279-280, "drop any stale hidden entry so a restored calendar
\* always comes back fully visible, not dimmed": whatever was hidden, archived,
\* restored and pruned in which order, what the account keeps once the PUTs have
\* arrived has no archived calendar among the hidden ones, if those of either key
\* have arrived in the order sent.
ArchivedNotHidden ==
    Calendars /\ ~undone /\ astray \cap Keys = {} /\ (\A t \in Tabs : puts[t] = NoPuts) =>
        blob["hidden"] \cap blob["placed"] = {}

=============================================================================

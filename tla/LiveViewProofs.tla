--------------------------- MODULE LiveViewProofs ---------------------------
(***************************************************************************)
(* Proofs about LiveView, for any number of items, changes, fetches and    *)
(* writes.                                                                 *)
(***************************************************************************)
EXTENDS LiveView, TLAPS

-----------------------------------------------------------------------------
(* The inductive invariant                                                 *)

\* Something the tab is to be told of has not led to a fetch yet.
Pending == owed \/ pipe \/ timer

\* The youngest fetch has not landed.  (In the task view, a write makes the
\* fetches before it as good as landed.)
Awaited == \E f \in fetches : f.token = token

Counted == \A i \in Items : server[i].ver <= changes

Tokens ==
    /\ \A f \in fetches : f.token <= token
    /\ since <= token

\* In the grid, a fetch that is still out when the youngest has landed is late.
Stragglers == grid /\ ~failed /\ ~Awaited => \A f \in fetches : f.late

\* With nothing pending, what the youngest fetch has read is current.
Caught ==
    steady => /\ Open
              /\ ~Pending => \A f \in fetches : f.token = token =>
                                 \A i \in Items : f.got[i] \in {None, server[i]}

Replies ==
    /\ \A w \in writes : w.reply # None => w.served /\ w.reply.ver <= server[w.item].ver
    /\ \A i \in Items : acked[i] <= server[i].ver

\* A tab that writes once has one write in flight, or its answer.
OneWrite ==
    /\ written = 0 => writes = {} /\ \A i \in Items : acked[i] = 0
    /\ written = 1 => /\ \A w, x \in writes : w = x
                      /\ writes # {} => \A i \in Items : acked[i] = 0

\* All that the tab was told of has landed, in order.
CaughtUp == steady /\ written = 1 /\ InOrder /\ ~failed /\ ~Pending /\ ~Awaited

\* Then it shows what the server has, once its write has reached the server.
ServedShown ==
    CaughtUp => \A w \in writes : w.served => \A i \in Items : view[i] = server[i]

AckedShown == CaughtUp => \A i \in Items : acked[i] > 0 => Shows(i, acked[i])

ViewInv ==
    /\ TypeOK
    /\ Counted
    /\ Tokens
    /\ Stragglers
    /\ Caught
    /\ Replies
    /\ OneWrite
    /\ ServedShown
    /\ AckedShown

-----------------------------------------------------------------------------
(* Types                                                                   *)

LEMMA Constants ==
    /\ MaxChanges \in Nat /\ MaxWrites \in Nat
    /\ None \notin Content /\ Painted \notin Content /\ Blank \notin Content
  BY BoundsAssumption, NoneAssumption DEF BoundsAssumption, NoneAssumption

\* What a response leaves of the other fetches.
LEMMA LandFetches ==
    ASSUME fetches \subseteq Fetch, grid \in BOOLEAN, NEW f \in fetches, Land(f)
    PROVE  /\ fetches' \subseteq Fetch
           /\ \A h \in fetches' : \E g \in fetches \ {f} :
                  /\ h.token = g.token /\ h.got = g.got
                  /\ h.late <=> g.late \/ (grid /\ g.token < f.token)
                  /\ ~grid => h = g
           /\ \A g \in fetches \ {f} : \E h \in fetches' : h.token = g.token
           /\ ~grid => fetches' = fetches \ {f}
<1> DEFINE After(g) == [g EXCEPT !.late = @ \/ (grid /\ g.token < f.token)]
<1>1. fetches' = {After(g) : g \in fetches \ {f}}
  BY DEF Land
<1>2. ASSUME NEW g \in fetches
      PROVE  /\ After(g) \in Fetch /\ After(g).token = g.token /\ After(g).got = g.got
             /\ After(g).late <=> g.late \/ (grid /\ g.token < f.token)
             /\ ~grid => After(g) = g
  BY DEF Fetch
<1> HIDE DEF After
<1> QED BY <1>1, <1>2

\* What a new fetch adds.
LEMMA StartFetches ==
    ASSUME TypeOK, StartFetch
    PROVE  /\ token' = token + 1 /\ token' \in Nat /\ crossed' = crossed
           /\ fetches' = fetches \cup {NewFetch(token')} /\ failed' = FALSE
           /\ NewFetch(token') \in Fetch /\ NewFetch(token').token = token'
           /\ \A i \in Items : NewFetch(token').got[i] = None
  BY DEF TypeOK, StartFetch, NewFetch, Fetch

LEMMA TypesInit == Init => TypeOK /\ Counted
<1> SUFFICES ASSUME Init PROVE TypeOK /\ Counted
  OBVIOUS
<1>1. 0 \in Versions
  BY Constants DEF Versions
<1>2. server \in [Items -> Content] /\ \A i \in Items : server[i].ver = 0
  BY <1>1 DEF Init, Content
<1>3. fetches \subseteq Fetch
  BY DEF Init, NewFetch, Fetch
<1>4. view \in [Items -> Shown]
  BY <1>2 DEF Init, Shown
<1>5. told \in [Items -> Versions] /\ acked \in [Items -> Versions]
  BY <1>1 DEF Init
<1>6. conn \in {"connecting", "open", "closed"}
  BY DEF Init
<1>7. writes \subseteq Write /\ written \in 0 .. MaxWrites
  BY Constants DEF Init
<1>8. Counted /\ changes \in Versions
  BY <1>1, <1>2 DEF Init, Counted
<1> QED BY <1>2, <1>3, <1>4, <1>5, <1>6, <1>7, <1>8 DEF Init, TypeOK

LEMMA CommitTypes ==
    ASSUME TypeOK, Counted, NEW i \in Items, NEW there \in BOOLEAN, Commit(i, there)
    PROVE  /\ server' \in [Items -> Content] /\ changes' \in Versions /\ owed' \in BOOLEAN
           /\ Counted'
           /\ \A j \in Items : server'[j].ver >= server[j].ver
           /\ server'[i].there = there
<1>1. changes < MaxChanges /\ changes' = changes + 1 /\ changes \in Nat
      /\ server' = [server EXCEPT ![i] = [ver |-> server[i].ver + 1, there |-> there]]
  BY Constants DEF Commit, TypeOK, Versions
<1>2. \A j \in Items : server[j] \in Content /\ server[j].ver \in Nat /\ server[j].ver <= changes
  BY Constants DEF TypeOK, Counted, Content, Versions
<1>3. [ver |-> server[i].ver + 1, there |-> there] \in Content
  BY <1>1, <1>2, Constants DEF Content, Versions
<1>4. server' \in [Items -> Content]
  BY <1>1, <1>3 DEF TypeOK
<1>5. server'[i].ver = server[i].ver + 1 /\ server'[i].there = there
      /\ \A j \in Items : j # i => server'[j] = server[j]
  BY <1>1 DEF TypeOK
<1> QED
  BY <1>1, <1>2, <1>4, <1>5, Constants DEF Commit, Counted, Versions

LEMMA TypesStep == TypeOK /\ Counted /\ [Next]_vars => (TypeOK /\ Counted)'
<1> SUFFICES ASSUME TypeOK, Counted, [Next]_vars PROVE TypeOK' /\ Counted'
  OBVIOUS
<1> USE DEF TypeOK, Counted
<1>1. ASSUME NEW i \in Items, Change(i) PROVE TypeOK' /\ Counted'
  <2>1. PICK there \in BOOLEAN : Commit(i, there)
    BY <1>1 DEF Change
  <2> QED BY <1>1, <2>1, CommitTypes DEF Change, loads, user
<1>2. CASE Publish
  BY <1>2 DEF Publish, loads, user, Content
<1>3. CASE Connect \/ Refused \/ Deliver
  BY <1>3 DEF Connect, Refused, Deliver, loads, user
<1>3a. CASE Drop
  <2>1. told' \in [Items -> Versions]
    BY <1>3a, Constants DEF Drop, Versions
  <2> QED BY <1>3a, <2>1 DEF Drop, loads, user
<1>4. CASE Load
  BY <1>4, StartFetches DEF Load, user
<1>5. ASSUME NEW f \in fetches, Land(f) PROVE TypeOK' /\ Counted'
  <2>1. \A i \in Items : f.got[i] \in Content
    BY <1>5 DEF Land, Complete, Fetch
  <2>2. f.got \in [Items -> Shown] /\ f.token \in Nat
    BY <2>1 DEF Fetch, Shown
  <2>3. fetches' \subseteq Fetch
    BY <1>5, LandFetches
  <2>4. f.late \in BOOLEAN
    BY DEF Fetch
  <2> QED BY <1>5, <2>2, <2>3, <2>4 DEF Land, stream
<1>5a. ASSUME NEW f \in fetches, FetchFails(f) PROVE TypeOK' /\ Counted'
  BY <1>5a DEF FetchFails, stream, user
<1>6. ASSUME NEW f \in fetches, NEW i \in Items, Serve(f, i) PROVE TypeOK' /\ Counted'
  BY <1>6 DEF Serve, Fetch, stream, user
<1>7. ASSUME NEW kind \in {"edit", "create", "remove"}, NEW i \in Items, StartWrite(kind, i)
      PROVE TypeOK' /\ Counted'
  <2>1. PICK painted \in MayPaint(kind) :
           /\ writes' = writes \cup {[kind |-> kind, item |-> i, orig |-> view[i],
                                       painted |-> painted, served |-> FALSE, reply |-> None]}
           /\ view' = IF painted
                      THEN [view EXCEPT ![i] = IF kind = "remove" THEN Blank ELSE Painted]
                      ELSE view
    BY <1>7 DEF StartWrite
  <2>2. painted \in BOOLEAN
    BY DEF MayPaint
  <2>3. [kind |-> kind, item |-> i, orig |-> view[i], painted |-> painted,
         served |-> FALSE, reply |-> None] \in Write
    BY <2>2 DEF Write
  <2>3a. writes' \subseteq Write
    BY <2>1, <2>3
  <2>3b. view' \in [Items -> Shown]
    BY <2>1 DEF Shown
  <2>4. token' \in Nat /\ since' \in Nat /\ written' \in 0 .. MaxWrites
    BY <1>7, Constants DEF StartWrite, Invalidated
  <2> QED BY <1>7, <2>3a, <2>3b, <2>4 DEF StartWrite, stream
<1>8. ASSUME NEW w \in writes, ServeWrite(w) PROVE TypeOK' /\ Counted'
  <2>1. w \in Write /\ w.item \in Items /\ (w.kind # "remove") \in BOOLEAN
    BY DEF Write
  <2>2. /\ server' \in [Items -> Content] /\ changes' \in Versions /\ owed' \in BOOLEAN
        /\ Counted'
    BY <1>8, <2>1, CommitTypes DEF ServeWrite
  <2>3. [w EXCEPT !.served = TRUE,
                  !.reply = IF w.kind = "remove" THEN server'[w.item] ELSE None] \in Write
    <3>1. server'[w.item] \in Content
      BY <2>1, <2>2
    <3> QED BY <2>1, <3>1 DEF Write
  <2>4. writes' \subseteq Write
    BY <1>8, <2>3 DEF ServeWrite
  <2> QED BY <1>8, <2>2, <2>4 DEF ServeWrite, loads
<1>9. ASSUME NEW w \in writes, ReadDto(w) PROVE TypeOK' /\ Counted'
  BY <1>9 DEF ReadDto, Write, stream, loads
<1>10. ASSUME NEW w \in writes, Settle(w) PROVE TypeOK' /\ Counted'
  <2>1. /\ w.item \in Items /\ w.orig \in Shown /\ w.reply \in Content \cup {None}
        /\ w.kind \in {"edit", "create", "remove"}
    BY DEF Write
  <2>2. acked' \in [Items -> Versions]
    BY <1>10, <2>1, Constants DEF Settle, GridSettles, TasksSettle, Answered, Content
  <2>3. view' \in [Items -> Shown]
    <3>1. w.reply # None => w.reply \in Shown
      BY <2>1 DEF Shown
    <3>2. CASE grid
      BY <1>10, <2>1, <3>1, <3>2 DEF Settle, GridSettles, Answered
    <3>3. CASE ~grid
      <4>1. CASE Answered(w) /\ view' = [view EXCEPT ![w.item] = Settled(w)]
        <5>1. Settled(w) \in Shown
          BY <2>1, <3>1, <4>1 DEF Answered, Settled
        <5> QED BY <4>1, <5>1
      <4>2. CASE view' = [view EXCEPT ![w.item] = RolledBack(w)]
        <5>1. RolledBack(w) \in Shown
          BY <2>1 DEF RolledBack
        <5> QED BY <4>2, <5>1
      <4> QED BY <1>10, <3>3, <4>1, <4>2 DEF Settle, TasksSettle
    <3> QED BY <3>2, <3>3
  <2>4. /\ token' \in Nat /\ fetches' \subseteq Fetch
        /\ crossed' \in BOOLEAN /\ failed' \in BOOLEAN
    <3>1. CASE StartFetch
      BY <3>1, StartFetches
    <3>2. CASE UNCHANGED loads
      BY <3>2 DEF loads
    <3> QED BY <1>10, <3>1, <3>2 DEF Settle, GridSettles, TasksSettle
  <2> QED BY <1>10, <2>2, <2>3, <2>4 DEF Settle, stream
<1>11. CASE UNCHANGED vars
  BY <1>11 DEF vars, stream, loads, user
<1> QED
  BY <1>1, <1>2, <1>3, <1>3a, <1>4, <1>5, <1>5a, <1>6, <1>7, <1>8, <1>9, <1>10, <1>11
     DEF Next, ServerStep, StreamStep, FetchStep, UserStep, WriteStep

\* Every reachable state of the tab and the service has its type.
THEOREM TypeCorrect == Spec => []TypeOK
  BY TypesInit, TypesStep, PTL DEF Spec

-----------------------------------------------------------------------------
(* Fetches                                                                 *)

LEMMA TokensStep ==
    ASSUME TypeOK, Tokens, [Next]_vars
    PROVE  Tokens'
<1> USE DEF TypeOK, Tokens
<1>f. \A f \in fetches : f.token \in Nat
  BY DEF Fetch
<1>1. ASSUME NEW f \in fetches, Land(f) PROVE Tokens'
  <2>1. \A h \in fetches' : \E g \in fetches : h.token = g.token
    BY <1>1, LandFetches
  <2>2. token' = token /\ since' \in {since, f.token}
    BY <1>1 DEF Land
  <2> QED BY <2>1, <2>2
<1>2. ASSUME NEW f \in fetches, NEW i \in Items, Serve(f, i) PROVE Tokens'
  <2>1. [f EXCEPT !.got[i] = server[i]].token = f.token
    BY DEF Fetch
  <2> QED BY <1>2, <2>1 DEF Serve, user
<1>3. ASSUME StartFetch, since' = since PROVE Tokens'
  <2>1. token' = token + 1 /\ \A f \in fetches' : f \in fetches \/ f.token = token'
    BY <1>3, StartFetches
  <2> QED BY <1>f, <1>3, <2>1
<1>4. ASSUME NEW kind \in {"edit", "create", "remove"}, NEW i \in Items, StartWrite(kind, i)
      PROVE Tokens'
  BY <1>f, <1>4 DEF StartWrite, Invalidated
<1>5. ASSUME NEW w \in writes, Settle(w) PROVE Tokens'
  <2>1. since' = since /\ (StartFetch \/ UNCHANGED loads)
    BY <1>5 DEF Settle, GridSettles, TasksSettle
  <2> QED BY <1>3, <2>1 DEF loads
<1>6. CASE Load
  BY <1>3, <1>6 DEF Load, user
<1>7. CASE UNCHANGED <<loads, since>>
  BY <1>7 DEF loads
<1>8. ASSUME NEW f \in fetches, FetchFails(f) PROVE Tokens'
  BY <1>8 DEF FetchFails, user
<1> QED
  BY <1>1, <1>2, <1>4, <1>5, <1>6, <1>7, <1>8
     DEF Next, ServerStep, StreamStep, FetchStep, UserStep, WriteStep, Change, Publish,
         Connect, Refused, Drop, Deliver, ServeWrite, ReadDto, vars, user

\* TasksView.tsx:72-74: no response older than what the view shows lands.
THEOREM NoOldResponse == Spec => OldNeverLands
<1>i. Init => Tokens
  BY DEF Init, Tokens, NewFetch
<1>1. ASSUME TypeOK, Tokens, [Next]_vars, ~grid,
             NEW f \in fetches, f \notin fetches', f.token < since
      PROVE  view' = view
  <2> USE <1>1 DEF TypeOK, Tokens
  <2>t. f.token \in Nat /\ f.token # token
    BY DEF Fetch
  <2>1. ASSUME NEW g \in fetches, Land(g) PROVE view' = view
    <3>1. f = g
      BY <2>1, LandFetches
    <3> QED BY <2>1, <2>t, <3>1 DEF Land, Current
  <2>2. ASSUME NEW g \in fetches, NEW i \in Items, Serve(g, i) PROVE view' = view
    BY <2>2 DEF Serve
  <2>3. CASE Load
    BY <2>3, StartFetches DEF Load
  <2>4. ASSUME NEW w \in writes, Settle(w) PROVE FALSE
    BY <2>4 DEF Settle, TasksSettle, loads
  <2>5. ASSUME NEW kind \in {"edit", "create", "remove"}, NEW i \in Items, StartWrite(kind, i)
        PROVE FALSE
    BY <2>5 DEF StartWrite
  <2>6. CASE UNCHANGED fetches
    BY <2>6
  <2>7. ASSUME NEW g \in fetches, FetchFails(g) PROVE view' = view
    BY <2>7 DEF FetchFails
  <2> QED
    BY <1>1, <2>1, <2>2, <2>3, <2>4, <2>5, <2>6, <2>7
       DEF Next, ServerStep, StreamStep, FetchStep, UserStep, WriteStep, Change, Publish,
           Connect, Refused, Drop, Deliver, ServeWrite, ReadDto, vars, loads
<1>2. TypeOK /\ Tokens /\ [Next]_vars =>
          [~grid => \A f \in fetches \ fetches' : f.token < since => view' = view]_vars
  BY <1>1
<1> QED BY <1>i, <1>2, TokensStep, TypesInit, TypesStep, PTL DEF Spec, OldNeverLands

LEMMA StragglersStep ==
    ASSUME TypeOK, Tokens, Stragglers, [Next]_vars
    PROVE  Stragglers'
<1> USE DEF TypeOK, Tokens
<1>1. ASSUME NEW f \in fetches, Land(f) PROVE Stragglers'
  <2> SUFFICES ASSUME grid, ~failed, ~Awaited', NEW h \in fetches' PROVE h.late
    BY <1>1 DEF Stragglers, Land, stream
  <2>1. PICK g \in fetches \ {f} : /\ h.token = g.token
                                   /\ h.late <=> g.late \/ g.token < f.token
    BY <1>1, LandFetches
  <2>2. token' = token /\ g.token \in Nat /\ f.token \in Nat /\ g.token <= token
    BY <1>1 DEF Land, Fetch
  <2>3. g.token < token
    BY <2>1, <2>2 DEF Awaited
  <2>4. CASE f.token = token
    BY <2>1, <2>3, <2>4
  <2>5. CASE f.token # token
    <3>1. ~Awaited
      <4> SUFFICES ASSUME NEW x \in fetches, x.token = token PROVE FALSE
        BY DEF Awaited
      <4>1. x \in fetches \ {f}
        BY <2>5
      <4>2. PICK y \in fetches' : y.token = x.token
        BY <1>1, <4>1, LandFetches
      <4> QED BY <2>2, <4>2 DEF Awaited
    <3> QED BY <2>1, <3>1 DEF Stragglers
  <2> QED BY <2>4, <2>5
<1>2. ASSUME NEW f \in fetches, NEW i \in Items, Serve(f, i) PROVE Stragglers'
  <2> DEFINE g == [f EXCEPT !.got[i] = server[i]]
  <2>1. g.token = f.token /\ g.late = f.late
    BY DEF Fetch
  <2>2. fetches' = (fetches \ {f}) \cup {g} /\ UNCHANGED <<token, failed, grid>>
    BY <1>2 DEF Serve, stream
  <2> HIDE DEF g
  <2> QED BY <2>1, <2>2 DEF Stragglers, Awaited
<1>3. ASSUME StartFetch PROVE Stragglers'
  BY <1>3, StartFetches DEF Stragglers, Awaited
<1>4. ASSUME NEW kind \in {"edit", "create", "remove"}, NEW i \in Items, StartWrite(kind, i)
      PROVE Stragglers'
  BY <1>4 DEF StartWrite, Invalidated, Stragglers, Awaited, stream
<1>5. CASE UNCHANGED <<grid, loads>>
  BY <1>5 DEF loads, Stragglers, Awaited
<1>6. ASSUME NEW w \in writes, Settle(w) PROVE Stragglers'
  BY <1>3, <1>5, <1>6 DEF Settle, GridSettles, TasksSettle, stream
<1>7. CASE Load
  BY <1>3, <1>7 DEF Load
<1>8. ASSUME NEW f \in fetches, FetchFails(f) PROVE Stragglers'
  BY <1>8 DEF FetchFails, Stragglers, Awaited, stream
<1> QED
  BY <1>1, <1>2, <1>4, <1>5, <1>6, <1>7, <1>8
     DEF Next, ServerStep, StreamStep, FetchStep, UserStep, WriteStep, Change, Publish,
         Connect, Refused, Drop, Deliver, ServeWrite, ReadDto, vars, stream

LEMMA CaughtStep ==
    ASSUME TypeOK, Tokens, Caught, [Next]_vars
    PROVE  Caught'
<1> USE DEF TypeOK, Tokens
<1>p. ASSUME Pending', conn' = conn, steady' = steady PROVE Caught'
  BY <1>p DEF Caught, Open
<1>1. ASSUME NEW f \in fetches, Land(f) PROVE Caught'
  <2>1. \A h \in fetches' : \E g \in fetches : h.token = g.token /\ h.got = g.got
    BY <1>1, LandFetches
  <2> QED BY <1>1, <2>1 DEF Land, stream, Caught, Open, Pending
<1>2. ASSUME NEW f \in fetches, NEW i \in Items, Serve(f, i) PROVE Caught'
  <2> DEFINE g == [f EXCEPT !.got[i] = server[i]]
  <2>1. /\ g.token = f.token
        /\ \A j \in Items : g.got[j] = IF j = i THEN server[i] ELSE f.got[j]
    BY DEF Fetch
  <2>2. fetches' = (fetches \ {f}) \cup {g} /\ UNCHANGED <<server, stream, token>>
    BY <1>2 DEF Serve
  <2> HIDE DEF g
  <2> QED BY <2>1, <2>2 DEF Caught, Open, Pending, stream
<1>3. ASSUME StartFetch, UNCHANGED <<server, conn, steady>>, steady => Open PROVE Caught'
  <2>1. \A f \in fetches : f.token # token'
    <3>1. token' = token + 1
      BY <1>3 DEF StartFetch
    <3> QED BY <3>1 DEF Fetch
  <2>2. \A f \in fetches' : f.token = token' => \A i \in Items : f.got[i] = None
    BY <1>3, <2>1, StartFetches
  <2> QED BY <1>3, <2>2 DEF Caught, Open
<1>4. ASSUME NEW kind \in {"edit", "create", "remove"}, NEW i \in Items, StartWrite(kind, i)
      PROVE Caught'
  <2>1. fetches' = fetches /\ UNCHANGED <<server, stream>>
    BY <1>4 DEF StartWrite
  <2>2. token' = token \/ \A f \in fetches : f.token # token'
    BY <1>4 DEF StartWrite, Invalidated, Fetch
  <2> QED BY <2>1, <2>2 DEF Caught, Open, Pending, stream
<1>5. CASE UNCHANGED <<server, stream, loads>>
  BY <1>5 DEF stream, loads, Caught, Open, Pending
<1>6. ASSUME NEW w \in writes, Settle(w) PROVE Caught'
  <2>1. UNCHANGED <<server, stream>> /\ (StartFetch \/ UNCHANGED loads)
    BY <1>6 DEF Settle, GridSettles, TasksSettle
  <2> QED BY <1>3, <1>5, <2>1 DEF Caught, stream
<1>7. CASE Load
  BY <1>3, <1>7 DEF Load, Caught
<1>8. CASE Publish
  <2>1. CASE ~steady
    BY <1>8, <2>1 DEF Publish, Caught
  <2>2. CASE steady
    BY <1>8, <1>p, <2>2 DEF Publish, Caught, Pending
  <2> QED BY <2>1, <2>2
<1>9. CASE Connect \/ Refused \/ Drop
  BY <1>9 DEF Connect, Refused, Drop, Caught, Open, Pending, loads
<1>10. CASE Deliver
  BY <1>10, <1>p DEF Deliver, Pending
<1>11. ASSUME NEW i \in Items, Change(i) PROVE Caught'
  BY <1>11, <1>p DEF Change, Commit, Pending
<1>12. ASSUME NEW w \in writes, ServeWrite(w) PROVE Caught'
  BY <1>12, <1>p DEF ServeWrite, Commit, Pending
<1>13. ASSUME NEW w \in writes, ReadDto(w) PROVE Caught'
  BY <1>5, <1>13 DEF ReadDto
<1>14. CASE UNCHANGED vars
  BY <1>5, <1>14 DEF vars
<1>15. ASSUME NEW f \in fetches, FetchFails(f) PROVE Caught'
  BY <1>15 DEF FetchFails, Caught, Open, Pending, stream
<1> QED
  BY <1>1, <1>2, <1>4, <1>6, <1>7, <1>8, <1>9, <1>10, <1>11, <1>12, <1>13, <1>14, <1>15
     DEF Next, ServerStep, StreamStep, FetchStep, UserStep, WriteStep

-----------------------------------------------------------------------------
(* Writes                                                                  *)

\* The content of an item has a version, and versions only grow.
LEMMA ServerGrows ==
    ASSUME TypeOK, Counted, [Next]_vars
    PROVE  /\ TypeOK'
           /\ \A i \in Items : /\ server[i].ver \in Nat /\ server'[i].ver \in Nat
                               /\ server'[i].ver >= server[i].ver
<1>1. TypeOK'
  BY TypesStep
<1>2. \A i \in Items : server[i].ver \in Nat /\ server'[i].ver \in Nat
  BY <1>1, Constants DEF TypeOK, Content, Versions
<1>3. ASSUME NEW i \in Items, Change(i)
      PROVE \A j \in Items : server'[j].ver >= server[j].ver
  BY <1>3, CommitTypes DEF Change
<1>4. ASSUME NEW w \in writes, ServeWrite(w)
      PROVE \A j \in Items : server'[j].ver >= server[j].ver
  <2>1. w.item \in Items /\ (w.kind # "remove") \in BOOLEAN
    BY DEF TypeOK, Write
  <2> QED BY <1>4, <2>1, CommitTypes DEF ServeWrite
<1>5. server' = server \/ (\E i \in Items : Change(i)) \/ (\E w \in writes : ServeWrite(w))
  BY DEF Next, ServerStep, StreamStep, FetchStep, UserStep, WriteStep, Publish, Connect,
         Refused, Drop, Deliver, Load, Land, FetchFails, Serve, StartWrite, ReadDto, Settle, vars
<1> QED BY <1>1, <1>2, <1>3, <1>4, <1>5

LEMMA RepliesStep ==
    ASSUME TypeOK, Counted, Replies, [Next]_vars
    PROVE  Replies'
<1>g. /\ TypeOK'
      /\ \A i \in Items : /\ server[i].ver \in Nat /\ server'[i].ver \in Nat
                          /\ server'[i].ver >= server[i].ver
  BY ServerGrows
<1>v. /\ \A w \in writes : w.reply # None => w.reply.ver \in Nat /\ w.item \in Items
      /\ \A i \in Items : acked[i] \in Nat
  BY Constants DEF TypeOK, Write, Content, Versions
<1>1. CASE UNCHANGED <<writes, acked>>
  BY <1>g, <1>v, <1>1 DEF Replies
<1>2. ASSUME NEW kind \in {"edit", "create", "remove"}, NEW i \in Items, StartWrite(kind, i)
      PROVE Replies'
  <2>1. \A w \in writes' : w \in writes \/ w.reply = None
    BY <1>2 DEF StartWrite
  <2>2. acked' = acked /\ server' = server
    BY <1>2 DEF StartWrite
  <2> QED BY <1>g, <2>1, <2>2 DEF Replies
<1>3. ASSUME NEW w \in writes, ServeWrite(w) PROVE Replies'
  <2> DEFINE x == [w EXCEPT !.served = TRUE,
                            !.reply = IF w.kind = "remove" THEN server'[w.item] ELSE None]
  <2>1. writes' = (writes \ {w}) \cup {x} /\ acked' = acked
    BY <1>3 DEF ServeWrite
  <2>2. /\ w.item \in Items
        /\ x.served /\ x.item = w.item /\ x.reply \in {None, server'[w.item]}
    BY DEF TypeOK, Write
  <2> HIDE DEF x
  <2> QED BY <1>g, <1>v, <2>1, <2>2 DEF Replies
<1>4. ASSUME NEW w \in writes, ReadDto(w) PROVE Replies'
  <2> DEFINE x == [w EXCEPT !.reply = server[w.item]]
  <2>1. writes' = (writes \ {w}) \cup {x} /\ acked' = acked /\ server' = server
    BY <1>4 DEF ReadDto
  <2>2. /\ w.item \in Items
        /\ x.served /\ x.item = w.item /\ x.reply = server[w.item]
    BY <1>4 DEF TypeOK, Write, ReadDto
  <2> HIDE DEF x
  <2> QED BY <1>g, <1>v, <2>1, <2>2 DEF Replies
<1>5. ASSUME NEW w \in writes, Settle(w) PROVE Replies'
  <2>1. writes' = writes \ {w} /\ server' = server
    BY <1>5 DEF Settle
  <2>2. CASE acked' = acked
    BY <2>1, <2>2 DEF Replies
  <2>3. CASE Answered(w)
    <3>1. \A i \in Items : acked'[i] = IF i = w.item THEN w.reply.ver ELSE acked[i]
      BY <2>3 DEF Answered, TypeOK
    <3>2. w.reply # None /\ w.reply.ver <= server[w.item].ver
      BY <2>3 DEF Answered, Replies
    <3> QED BY <2>1, <3>1, <3>2 DEF Replies
  <2> QED BY <1>5, <2>2, <2>3 DEF Settle, GridSettles, TasksSettle
<1> QED
  BY <1>1, <1>2, <1>3, <1>4, <1>5
     DEF Next, ServerStep, StreamStep, FetchStep, UserStep, WriteStep, Change, Publish,
         Connect, Refused, Drop, Deliver, Load, Land, FetchFails, Serve, vars, user

LEMMA OneWriteStep ==
    ASSUME TypeOK, OneWrite, [Next]_vars
    PROVE  OneWrite'
<1>n. written \in Nat
  BY Constants DEF TypeOK
<1>1. CASE UNCHANGED <<writes, written, acked>>
  BY <1>1 DEF OneWrite
<1>2. ASSUME NEW kind \in {"edit", "create", "remove"}, NEW i \in Items, StartWrite(kind, i)
      PROVE OneWrite'
  <2>1. written' = written + 1 /\ acked' = acked /\ \E x : writes' = writes \cup {x}
    BY <1>2 DEF StartWrite
  <2> QED BY <1>n, <2>1 DEF OneWrite
<1>3. ASSUME NEW w \in writes, ServeWrite(w) \/ ReadDto(w) PROVE OneWrite'
  <2>1. UNCHANGED <<written, acked>> /\ \E x : writes' = (writes \ {w}) \cup {x}
    BY <1>3 DEF ServeWrite, ReadDto
  <2> QED BY <1>n, <2>1 DEF OneWrite
<1>4. ASSUME NEW w \in writes, Settle(w) PROVE OneWrite'
  <2>1. written' = written /\ writes' = writes \ {w}
    BY <1>4 DEF Settle
  <2> QED BY <2>1 DEF OneWrite
<1> QED
  BY <1>1, <1>2, <1>3, <1>4
     DEF Next, ServerStep, StreamStep, FetchStep, UserStep, WriteStep, Change, Publish,
         Connect, Refused, Drop, Deliver, Load, Land, FetchFails, Serve, vars, user

\* An item that was shown as the server has it is shown as its write was
\* answered, or newer, whether the answer takes its place or not.
LEMMA SettledShows ==
    ASSUME TypeOK, Replies, NEW w \in writes, Answered(w), view[w.item] = server[w.item],
           NEW v, v \in {view[w.item], w.reply}
    PROVE  v \in [ver : w.reply.ver .. MaxChanges, there : BOOLEAN]
<1>1. w.item \in Items /\ w.reply \in Content /\ w.reply # None
  BY DEF TypeOK, Write, Answered
<1>2. w.reply.ver <= server[w.item].ver /\ server[w.item] \in Content
  BY <1>1 DEF Replies, TypeOK
<1>3. /\ w.reply.ver \in Nat /\ w.reply.ver <= MaxChanges /\ w.reply.there \in BOOLEAN
      /\ server[w.item].ver \in Nat /\ server[w.item].ver <= MaxChanges
      /\ server[w.item].there \in BOOLEAN
  BY <1>1, <1>2, Constants DEF Content, Versions
<1>4. ASSUME NEW x \in Content, w.reply.ver <= x.ver
      PROVE  x \in [ver : w.reply.ver .. MaxChanges, there : BOOLEAN]
  BY <1>3, <1>4, Constants DEF Content, Versions
<1> QED BY <1>1, <1>2, <1>3, <1>4

LEMMA ShownStep ==
    ASSUME ViewInv, [Next]_vars
    PROVE  ServedShown' /\ AckedShown'
<1> USE DEF ViewInv
<1>g. /\ TypeOK'
      /\ \A i \in Items : /\ server[i].ver \in Nat /\ server'[i].ver \in Nat
                          /\ server'[i].ver >= server[i].ver
  BY ServerGrows
<1>n. ASSUME ~CaughtUp' PROVE ServedShown' /\ AckedShown'
  BY <1>n DEF ServedShown, AckedShown
<1>s. ASSUME StartFetch PROVE Awaited'
  BY <1>s, StartFetches DEF Awaited
<1>1. ASSUME NEW f \in fetches, Land(f) PROVE ServedShown' /\ AckedShown'
  <2> SUFFICES ASSUME CaughtUp' PROVE ServedShown' /\ AckedShown'
    BY <1>n
  <2>0. /\ UNCHANGED <<server, stream, token, writes, written, acked>>
        /\ steady /\ written = 1 /\ ~Pending
    BY <1>1 DEF Land, CaughtUp, stream, Pending
  <2>1. CASE f.token = token
    <3>1. \A i \in Items : f.got[i] = server[i]
      BY <1>1, <2>0, <2>1 DEF Caught, Land, Complete
    <3>2. view' = f.got
      BY <1>1, <2>1 DEF Land, Current
    <3>3. ASSUME NEW i \in Items, acked[i] > 0
          PROVE  server[i] \in [ver : acked[i] .. MaxChanges, there : BOOLEAN]
      <4>1. acked[i] <= server[i].ver /\ acked[i] \in Nat /\ server[i] \in Content
        BY Constants DEF Replies, TypeOK, Versions
      <4> QED BY <4>1, Constants DEF Content, Versions
    <3> QED BY <2>0, <3>1, <3>2, <3>3 DEF ServedShown, AckedShown, Shows
  <2>2. CASE f.token # token
    <3>1. ~Awaited
      <4> SUFFICES ASSUME NEW x \in fetches, x.token = token PROVE FALSE
        BY DEF Awaited
      <4>1. PICK y \in fetches' : y.token = x.token
        BY <1>1, <2>2, LandFetches DEF TypeOK
      <4> QED BY <2>0, <4>1 DEF Awaited, CaughtUp
    <3>2. ~grid
      <4> SUFFICES ASSUME grid PROVE FALSE
        OBVIOUS
      <4>1. f.late
        BY <1>1, <3>1 DEF Stragglers, Land, CaughtUp
      <4>2. crossed' /\ grid'
        BY <1>1, <4>1 DEF Land, stream
      <4> QED BY <4>2 DEF CaughtUp, InOrder
    <3>3. CaughtUp /\ view' = view
      BY <1>1, <2>0, <2>2, <3>1, <3>2 DEF CaughtUp, InOrder, Land, Current
    <3> QED BY <2>0, <3>3 DEF ServedShown, AckedShown, Shows
  <2> QED BY <2>1, <2>2
<1>2. ASSUME NEW f \in fetches, NEW i \in Items, Serve(f, i) PROVE ServedShown' /\ AckedShown'
  <2> DEFINE g == [f EXCEPT !.got[i] = server[i]]
  <2>1. g.token = f.token
    BY DEF TypeOK, Fetch
  <2>2. /\ fetches' = (fetches \ {f}) \cup {g}
        /\ UNCHANGED <<server, stream, token, crossed, failed, user, view>>
    BY <1>2 DEF Serve
  <2> HIDE DEF g
  <2>3. Awaited' = Awaited
    BY <2>1, <2>2 DEF Awaited
  <2>4. CaughtUp' = CaughtUp
    BY <2>2, <2>3 DEF CaughtUp, InOrder, Pending, stream, user
  <2> QED BY <2>2, <2>4 DEF ServedShown, AckedShown, Shows, user
<1>3. CASE Load
  BY <1>n, <1>s, <1>3 DEF Load, CaughtUp
<1>4. ASSUME NEW kind \in {"edit", "create", "remove"}, NEW i \in Items, StartWrite(kind, i)
      PROVE ServedShown' /\ AckedShown'
  <2> SUFFICES ASSUME CaughtUp' PROVE ServedShown' /\ AckedShown'
    BY <1>n
  <2>1. written = 0 /\ acked' = acked
    BY <1>4, Constants DEF StartWrite, CaughtUp, TypeOK
  <2>2. writes = {} /\ \A j \in Items : acked[j] = 0
    BY <2>1 DEF OneWrite
  <2>3. \A w \in writes' : ~w.served
    BY <1>4, <2>2 DEF StartWrite
  <2> QED BY <2>1, <2>2, <2>3 DEF ServedShown, AckedShown
<1>5. ASSUME NEW i \in Items, Change(i) PROVE ServedShown' /\ AckedShown'
  BY <1>5, <1>n DEF Change, Commit, CaughtUp, Pending
<1>6. ASSUME NEW w \in writes, ServeWrite(w) PROVE ServedShown' /\ AckedShown'
  BY <1>6, <1>n DEF ServeWrite, Commit, CaughtUp, Pending
<1>7. CASE Publish
  BY <1>7, <1>n DEF Publish, CaughtUp, Pending, Caught
<1>8. CASE Connect \/ Refused \/ Drop
  <2>1. CASE ~steady
    BY <1>8, <1>n, <2>1 DEF Connect, Refused, Drop, CaughtUp
  <2>2. CASE steady
    BY <1>8, <2>2 DEF Connect, Refused, Drop, Caught, Open
  <2> QED BY <2>1, <2>2
<1>9. CASE Deliver
  BY <1>9, <1>n DEF Deliver, CaughtUp, Pending
<1>10. ASSUME NEW w \in writes, ReadDto(w) PROVE ServedShown' /\ AckedShown'
  <2> DEFINE x == [w EXCEPT !.reply = server[w.item]]
  <2>1. w.served
    BY <1>10 DEF ReadDto
  <2>2. /\ writes' = (writes \ {w}) \cup {x}
        /\ UNCHANGED <<server, stream, loads, written, acked, view>>
    BY <1>10 DEF ReadDto
  <2> HIDE DEF x
  <2>3. CaughtUp' = CaughtUp
    BY <2>2 DEF CaughtUp, InOrder, Pending, Awaited, stream, loads
  <2> QED BY <2>1, <2>2, <2>3 DEF ServedShown, AckedShown, Shows
<1>11. ASSUME NEW w \in writes, Settle(w) PROVE ServedShown' /\ AckedShown'
  <2> SUFFICES ASSUME CaughtUp' PROVE ServedShown' /\ AckedShown'
    BY <1>n
  <2>1. /\ writes' = writes \ {w}
        /\ UNCHANGED <<server, stream, written>>
        /\ UNCHANGED loads
    BY <1>11, <1>s DEF Settle, GridSettles, TasksSettle, CaughtUp
  <2>2. CaughtUp
    BY <2>1 DEF CaughtUp, InOrder, Pending, Awaited, stream, loads
  <2>3. ServedShown'
    BY <2>1, <2>2 DEF OneWrite, CaughtUp, ServedShown
  <2>4. \A i \in Items : acked[i] = 0
    BY <2>2 DEF OneWrite, CaughtUp
  <2>5. CASE acked' = acked
    BY <2>3, <2>4, <2>5 DEF AckedShown
  <2>6. CASE Answered(w)
    <3>1. w.item \in Items /\ w.kind \in {"edit", "create", "remove"} /\ w.served
      BY <2>6 DEF Answered, Replies, TypeOK, Write
    <3>2. \A i \in Items : acked'[i] = IF i = w.item THEN w.reply.ver ELSE 0
      BY <2>4, <2>6 DEF Answered, TypeOK
    <3>3. view[w.item] = server[w.item]
      BY <2>2, <3>1 DEF ServedShown
    <3>4. view'[w.item] \in {view[w.item], w.reply} \/ acked' = acked
      <4>1. CASE grid
        BY <1>11, <2>6, <3>1, <4>1 DEF Settle, GridSettles, TypeOK
      <4>2. CASE ~grid
        <5>1. Settled(w) \in {view[w.item], w.reply}
          BY <3>1 DEF Settled
        <5> QED BY <1>11, <3>1, <4>2, <5>1 DEF Settle, TasksSettle, TypeOK
      <4> QED BY <4>1, <4>2
    <3>5. CASE view'[w.item] \in {view[w.item], w.reply}
      <4>1. view'[w.item] \in [ver : w.reply.ver .. MaxChanges, there : BOOLEAN]
        BY <2>6, <3>3, <3>5, SettledShows
      <4> QED BY <2>3, <3>2, <4>1 DEF AckedShown, Shows
    <3> QED BY <2>5, <3>4, <3>5
  <2> QED BY <1>11, <2>5, <2>6 DEF Settle, GridSettles, TasksSettle
<1>12. CASE UNCHANGED vars
  BY <1>12 DEF vars, stream, loads, user, ServedShown, AckedShown, Shows, CaughtUp, InOrder,
               Pending, Awaited
<1>13. ASSUME NEW f \in fetches, FetchFails(f) PROVE ServedShown' /\ AckedShown'
  <2> SUFFICES ASSUME CaughtUp' PROVE ServedShown' /\ AckedShown'
    BY <1>n
  <2>1. /\ f.token # token /\ fetches' = fetches \ {f}
        /\ UNCHANGED <<server, stream, token, crossed, failed, user, view>>
    BY <1>13 DEF FetchFails, CaughtUp, TypeOK
  <2>2. Awaited' = Awaited
    BY <2>1 DEF Awaited
  <2>3. CaughtUp
    BY <2>1, <2>2 DEF CaughtUp, InOrder, Pending, stream, user
  <2> QED BY <2>1, <2>3 DEF ServedShown, AckedShown, Shows, user
<1> QED
  BY <1>1, <1>2, <1>3, <1>4, <1>5, <1>6, <1>7, <1>8, <1>9, <1>10, <1>11, <1>12, <1>13
     DEF Next, ServerStep, StreamStep, FetchStep, UserStep, WriteStep

LEMMA ViewInit == Init => ViewInv
<1> SUFFICES ASSUME Init PROVE ViewInv
  OBVIOUS
<1>1. TypeOK /\ Counted
  BY TypesInit
<1>2. \A f \in fetches : f.token = token /\ \A i \in Items : f.got[i] = None
  BY DEF Init, NewFetch
<1>3. written = 0 /\ writes = {} /\ since = 0 /\ token = 1
      /\ \A i \in Items : acked[i] = 0 /\ server[i].ver = 0
  BY DEF Init
<1>4. Tokens
  BY <1>2, <1>3 DEF Tokens
<1>5. Stragglers
  BY DEF Init, Stragglers, Awaited, NewFetch
<1>6. Caught
  BY <1>2 DEF Init, Caught, Open
<1>7. Replies /\ OneWrite
  BY <1>3 DEF Replies, OneWrite
<1>8. ServedShown /\ AckedShown
  BY <1>3 DEF ServedShown, AckedShown, CaughtUp
<1> QED BY <1>1, <1>4, <1>5, <1>6, <1>7, <1>8 DEF ViewInv

LEMMA ViewStep == ViewInv /\ [Next]_vars => ViewInv'
<1> SUFFICES ASSUME ViewInv, [Next]_vars PROVE ViewInv'
  OBVIOUS
<1>1. TypeOK /\ Counted /\ Tokens /\ Stragglers /\ Caught /\ Replies /\ OneWrite
  BY DEF ViewInv
<1>2. TypeOK' /\ Counted'
  BY <1>1, TypesStep
<1>3. Tokens' /\ Stragglers' /\ Caught'
  BY <1>1, TokensStep, StragglersStep, CaughtStep
<1>4. Replies' /\ OneWrite'
  BY <1>1, RepliesStep, OneWriteStep
<1>5. ServedShown' /\ AckedShown'
  BY ShownStep
<1> QED BY <1>2, <1>3, <1>4, <1>5 DEF ViewInv

\* The tab of a user who writes once shows the write as it was answered, or
\* newer, once everything has settled.
THEOREM OwnWriteIsShown == Spec => []OwnWriteStays
<1>1. ASSUME ViewInv PROVE OwnWriteStays
  <2> SUFFICES ASSUME steady, written <= 1, Quiet, InOrder, ~failed, NEW i \in Items, acked[i] > 0
               PROVE  Shows(i, acked[i])
    BY DEF OwnWriteStays
  <2>1. written = 1
    <3>1. written # 0
      BY <1>1 DEF ViewInv, OneWrite
    <3>2. written \in 0 .. 1
      BY <1>1, Constants DEF ViewInv, TypeOK
    <3> QED BY <3>1, <3>2
  <2>2. CaughtUp
    BY <2>1 DEF CaughtUp, Quiet, Pending, Awaited
  <2> QED BY <1>1, <2>2 DEF ViewInv, AckedShown
<1> QED BY <1>1, ViewInit, ViewStep, PTL DEF Spec

-----------------------------------------------------------------------------
(* What ToldIsShown rests on.  That deliveries, fetches and answers come is  *)
(* fairness; that the last of them brings what was told is safety.           *)

\* A stream tells of what is on the server, and forgets it when it breaks.
ToldKnown ==
    /\ \A i \in Items : told[i] <= server[i].ver
    /\ ~Open => \A i \in Items : told[i] = 0

\* No event and no timer is left that would lead to another fetch.
Delivered == Open /\ written = 0 /\ ~pipe /\ ~timer

\* Then the youngest fetch reads no less than was told of,
ToldRead ==
    Delivered => \A f \in fetches : f.token = token =>
                \A i \in Items : f.got[i] # None => f.got[i].ver >= told[i]

\* and once it has landed, the tab shows no less.
ToldLanded ==
    Delivered /\ InOrder /\ ~failed /\ ~Awaited => \A i \in Items : told[i] > 0 => Shows(i, told[i])

ToldInv == ToldKnown /\ ToldRead /\ ToldLanded

LEMMA ToldTypes ==
    ASSUME TypeOK, NEW i \in Items
    PROVE  told[i] \in Nat /\ told[i] <= MaxChanges
  BY Constants DEF TypeOK, Versions

LEMMA ToldInit == Init => ToldInv
<1> SUFFICES ASSUME Init PROVE ToldInv
  OBVIOUS
<1>1. TypeOK
  BY TypesInit
<1>2. \A i \in Items : told[i] = 0 /\ server[i].ver = 0
  BY DEF Init
<1>3. \A f \in fetches : \A i \in Items : f.got[i] = None
  BY DEF Init, NewFetch
<1> QED BY <1>2, <1>3 DEF ToldInv, ToldKnown, ToldRead, ToldLanded

LEMMA ToldKnownStep ==
    ASSUME TypeOK, Counted, ToldKnown, [Next]_vars
    PROVE  ToldKnown'
<1> USE DEF ToldKnown, Open
<1>g. /\ TypeOK'
      /\ \A i \in Items : /\ server[i].ver \in Nat /\ server'[i].ver \in Nat
                          /\ server'[i].ver >= server[i].ver
  BY ServerGrows
<1>t. \A i \in Items : told[i] \in Nat
  BY ToldTypes
<1>1. CASE UNCHANGED <<told, conn>>
  BY <1>1, <1>g, <1>t
<1>2. CASE Publish
  BY <1>2, <1>g, <1>t DEF Publish
<1>3. CASE Connect \/ Refused \/ Drop
  BY <1>3, <1>g DEF Connect, Refused, Drop
<1> QED
  BY <1>1, <1>2, <1>3
     DEF Next, ServerStep, StreamStep, FetchStep, UserStep, WriteStep, Change, Deliver, Load,
         Land, FetchFails, Serve, StartWrite, ServeWrite, ReadDto, Settle, vars, stream

LEMMA ToldStep ==
    ASSUME TypeOK, Counted, Tokens, Stragglers, OneWrite, ToldInv, [Next]_vars
    PROVE  ToldRead' /\ ToldLanded'
<1> USE DEF ToldInv
<1>n. ASSUME ~Delivered' PROVE ToldRead' /\ ToldLanded'
  BY <1>n DEF ToldRead, ToldLanded
<1>1. ASSUME NEW f \in fetches, Land(f) PROVE ToldRead' /\ ToldLanded'
  <2> SUFFICES ASSUME Delivered' PROVE ToldRead' /\ ToldLanded'
    BY <1>n
  <2>1. /\ UNCHANGED <<server, stream, token, writes, written, acked>> /\ Delivered
    BY <1>1 DEF Land, Delivered, Open, stream
  <2>2. \A h \in fetches' : \E g \in fetches : h.token = g.token /\ h.got = g.got
    BY <1>1, LandFetches DEF TypeOK
  <2>3. ToldRead'
    BY <2>1, <2>2 DEF ToldRead, stream
  <2>4. CASE f.token = token
    <3>1. view' = f.got
      BY <1>1, <2>4 DEF Land, Current
    <3>2. ASSUME NEW i \in Items, told[i] > 0 PROVE Shows(i, told[i])'
      <4>1. f.got[i] \in Content /\ f.got[i] # None
        BY <1>1 DEF Land, Complete, Fetch, TypeOK
      <4>2. f.got[i].ver >= told[i]
        BY <2>1, <2>4, <4>1 DEF ToldRead
      <4>3. told[i] \in Nat
        BY ToldTypes
      <4>4. f.got[i] \in [ver : told[i] .. MaxChanges, there : BOOLEAN]
        BY <4>1, <4>2, <4>3, Constants DEF Content, Versions
      <4> QED BY <2>1, <3>1, <4>4 DEF Shows, stream
    <3> QED BY <2>1, <2>3, <3>2 DEF ToldLanded, stream
  <2>5. CASE f.token # token
    <3> SUFFICES ASSUME InOrder', ~failed, ~Awaited' PROVE ToldLanded'
      BY <1>1, <2>3 DEF ToldLanded, Land
    <3>1. ~Awaited
      <4> SUFFICES ASSUME NEW x \in fetches, x.token = token PROVE FALSE
        BY DEF Awaited
      <4>1. PICK y \in fetches' : y.token = x.token
        BY <1>1, <2>5, LandFetches DEF TypeOK
      <4> QED BY <2>1, <4>1 DEF Awaited
    <3>2. ~grid
      <4> SUFFICES ASSUME grid PROVE FALSE
        OBVIOUS
      <4>1. f.late
        BY <3>1 DEF Stragglers
      <4> QED BY <1>1, <4>1 DEF Land, InOrder, stream
    <3>3. view' = view /\ InOrder
      BY <1>1, <2>5, <3>2 DEF Land, Current, InOrder
    <3> QED BY <2>1, <3>1, <3>3 DEF ToldLanded, Shows, stream
  <2> QED BY <2>3, <2>4, <2>5
<1>2. ASSUME NEW f \in fetches, NEW i \in Items, Serve(f, i) PROVE ToldRead' /\ ToldLanded'
  <2> DEFINE g == [f EXCEPT !.got[i] = server[i]]
  <2>1. /\ g.token = f.token
        /\ \A j \in Items : g.got[j] = IF j = i THEN server[i] ELSE f.got[j]
    BY DEF TypeOK, Fetch
  <2>2. /\ fetches' = (fetches \ {f}) \cup {g}
        /\ UNCHANGED <<server, stream, token, crossed, failed, user, view>>
    BY <1>2 DEF Serve
  <2>3. \A j \in Items : server[j].ver \in Nat /\ told[j] \in Nat /\ server[j].ver >= told[j]
    BY ToldTypes, Constants DEF ToldKnown, TypeOK, Content, Versions
  <2> HIDE DEF g
  <2>4. Awaited' = Awaited
    BY <2>1, <2>2 DEF Awaited
  <2>5. Delivered' = Delivered /\ InOrder' = InOrder
    BY <2>2 DEF Delivered, Open, InOrder, stream, user
  <2>6. ToldRead'
    BY <2>1, <2>2, <2>3, <2>5 DEF ToldRead, stream
  <2> QED BY <2>2, <2>4, <2>5, <2>6 DEF ToldLanded, Shows, stream
<1>3. CASE Load
  <2>1. /\ token' = token + 1 /\ fetches' = fetches \cup {NewFetch(token')}
        /\ NewFetch(token').token = token'
        /\ \A i \in Items : NewFetch(token').got[i] = None
    BY <1>3, StartFetches DEF Load
  <2>2. \A f \in fetches : f.token # token'
    BY <2>1 DEF Tokens, TypeOK, Fetch
  <2>3. Awaited'
    BY <2>1 DEF Awaited
  <2>4. ToldRead'
    BY <2>1, <2>2 DEF ToldRead
  <2> QED BY <2>3, <2>4 DEF ToldLanded
<1>4. ASSUME NEW kind \in {"edit", "create", "remove"}, NEW i \in Items, StartWrite(kind, i)
      PROVE ToldRead' /\ ToldLanded'
  BY <1>4, <1>n, Constants DEF StartWrite, Delivered, TypeOK
<1>5. CASE Publish
  <2>1. CASE Open
    BY <1>5, <1>n, <2>1 DEF Publish, Delivered
  <2>2. CASE ~Open
    BY <1>5, <1>n, <2>2 DEF Publish, Delivered, Open
  <2> QED BY <2>1, <2>2
<1>6. CASE Connect
  <2>1. ~Open /\ told' = told /\ \A i \in Items : told[i] = 0
    BY <1>6 DEF Connect, Open, ToldKnown
  <2>2. UNCHANGED fetches /\ UNCHANGED token
    BY <1>6 DEF Connect, loads
  <2>3. \A f \in fetches : \A i \in Items : f.got[i] # None => f.got[i].ver \in Nat
    BY Constants DEF TypeOK, Fetch, Content, Versions
  <2>4. ToldRead'
    BY <2>1, <2>2, <2>3 DEF ToldRead
  <2> QED BY <2>1, <2>4 DEF ToldLanded
<1>7. CASE Refused \/ Drop
  BY <1>7, <1>n DEF Refused, Drop, Delivered, Open
<1>8. CASE Deliver
  BY <1>8, <1>n DEF Deliver, Delivered
<1>9. CASE UNCHANGED <<stream, loads, written, view>>
  BY <1>9 DEF ToldRead, ToldLanded, Delivered, Open, InOrder, Awaited, Shows, stream, loads
<1>10. ASSUME NEW i \in Items, Change(i) PROVE ToldRead' /\ ToldLanded'
  BY <1>10 DEF Change, ToldRead, ToldLanded, Delivered, Open, InOrder, Awaited, Shows, loads, user
<1>11. ASSUME NEW w \in writes, ServeWrite(w) \/ ReadDto(w) \/ Settle(w)
       PROVE ToldRead' /\ ToldLanded'
  BY <1>11, <1>n DEF ServeWrite, ReadDto, Settle, OneWrite, Delivered
<1>12. CASE UNCHANGED vars
  BY <1>9, <1>12 DEF vars, user
<1>13. ASSUME NEW f \in fetches, FetchFails(f) PROVE ToldRead' /\ ToldLanded'
  <2>1. /\ fetches' = fetches \ {f} /\ failed' = (failed \/ f.token = token)
        /\ UNCHANGED <<server, stream, token, crossed, user, view>>
    BY <1>13 DEF FetchFails
  <2>2. Delivered' = Delivered /\ InOrder' = InOrder
    BY <2>1 DEF Delivered, Open, InOrder, stream, user
  <2>3. ToldRead'
    BY <2>1, <2>2 DEF ToldRead, stream
  <2>4. ~failed' /\ ~Awaited' => ~failed /\ ~Awaited
    BY <2>1 DEF Awaited
  <2> QED BY <2>1, <2>2, <2>3, <2>4 DEF ToldLanded, Shows, stream
<1> QED
  BY <1>1, <1>2, <1>3, <1>4, <1>5, <1>6, <1>7, <1>8, <1>10, <1>11, <1>12, <1>13
     DEF Next, ServerStep, StreamStep, FetchStep, UserStep, WriteStep

\* When everything has settled and the last fetch has not failed, a tab whose stream is up
\* shows what the stream told it of, or newer.
ToldShown ==
    Open /\ written = 0 /\ InOrder /\ ~failed /\ Quiet =>
        \A i \in Items : told[i] > 0 => Shows(i, told[i])

\* No event is lost on its way through the debounce and the fetches but by the failure of
\* the last of these, which nobody makes again (util.ts, makeGuard): however often they are
\* superseded, fail before, read at different times or come back out of order, and though
\* the stream drops and comes back (App.tsx, load).  This is the safety part of ToldIsShown.
THEOREM ToldIsLanded == Spec => []ToldShown
<1>1. Init => ViewInv /\ ToldInv
  BY ViewInit, ToldInit
<1>2. ViewInv /\ ToldInv /\ [Next]_vars => ToldInv'
  BY ToldStep, ToldKnownStep DEF ViewInv, ToldInv
<1>3. ASSUME ToldInv PROVE ToldShown
  BY <1>3 DEF ToldInv, ToldLanded, ToldShown, Delivered, Quiet, Awaited
<1> QED BY <1>1, <1>2, <1>3, ViewStep, PTL DEF Spec

=============================================================================

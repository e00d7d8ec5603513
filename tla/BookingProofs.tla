--------------------------- MODULE BookingProofs ---------------------------
(***************************************************************************)
(* Proofs about Booking, for any number of links, calendars, requests and  *)
(* meetings: a request is recorded once, and as long as each link keeps    *)
(* its duration, Booking implements Reservation.                           *)
(***************************************************************************)
EXTENDS Booking, TLAPS

-----------------------------------------------------------------------------
(* Types, and the ledger                                                   *)

Tables ==
    /\ link \in [Links -> Setting \cup {None}]
    /\ wire \in [Cals -> [Uids -> Times \cup {None}]]
    /\ cache \in [Cals -> [Uids -> Times \cup {None}]]
    /\ ledger \in Seq(Request)
    /\ asked \in [Keys -> (Links \X (0 .. Day)) \cup {None}]
    /\ op \in {"idle", "refresh", "record"}
    /\ op # "idle" => job \in Request

\* While book_slot runs, its request is not in the ledger yet.
JobNew == op # "idle" => ~Booked(job.key)

\* What a slot is: a time.
LEMMA SlotTimes ==
    ASSUME NEW c \in Setting, NEW t \in Slots(c)
    PROVE  t \in Times
  BY DayAssumption DEF DayAssumption, Slots, Candidates, Times, Setting

LEMMA TablesInit == Init => Tables
  BY DEF Init, Tables

LEMMA TablesKept == Tables /\ [Next]_vars => Tables'
<1> SUFFICES ASSUME Tables, [Next]_vars PROVE Tables'
  OBVIOUS
<1> USE DEF Tables
<1>1. ASSUME NEW l \in Links, NEW c \in Configs[l] \cup {None}, SetLink(l, c) PROVE Tables'
  BY <1>1, ConfigsAssumption DEF ConfigsAssumption, SetLink
<1>2. ASSUME NEW c \in Cals, NEW u \in Meetings, NEW t \in Times, AddMeeting(c, u, t) PROVE Tables'
  BY <1>2 DEF AddMeeting, Uids
<1>3. ASSUME NEW c \in Cals, NEW u \in Uids, RemoveEvent(c, u) PROVE Tables'
  BY <1>3 DEF RemoveEvent
<1>4. ASSUME NEW c \in Cals, Sync(c) PROVE Tables'
  BY <1>4 DEF Sync
<1>5. ASSUME NEW k \in Keys, NEW l \in Links, NEW s \in 0 .. Day, Refuse(k, l, s) PROVE Tables'
  BY <1>5 DEF Refuse, Ask
<1>6. ASSUME NEW k \in Keys, NEW l \in Links, NEW s \in 0 .. Day, Book(k, l, s) PROVE Tables'
  <2>1. link[l] \in Setting
    BY <1>6 DEF Book, Ask
  <2>2. Span(l, s) \in Times
    BY <1>6, <2>1, SlotTimes DEF Book
  <2>3. link[l].cal \in Cals /\ k \in Uids
    BY <2>1 DEF Setting, Uids
  <2>4. job' \in Request
    BY <1>6, <2>2, <2>3 DEF Book, Request
  <2> QED BY <1>6, <2>2, <2>3, <2>4 DEF Book, Ask
<1>7. CASE Refresh
  <2>1. job \in Request /\ job.cal \in Cals /\ job.key \in Uids
    BY <1>7 DEF Refresh, Request, Uids
  <2>2. UNCHANGED <<link, wire, ledger, asked>>
    BY <1>7 DEF Refresh
  <2>3. op' \in {"idle", "record"} /\ (op' # "idle" => job' \in Request)
    BY <1>7, <2>1 DEF Refresh, End
  <2>4. cache' \in [Cals -> [Uids -> Times \cup {None}]]
    <3>1. CASE UNCHANGED cache
      BY <3>1
    <3>2. CASE cache' = [cache EXCEPT ![job.cal][job.key] = wire[job.cal][job.key]]
      <4>1. wire[job.cal][job.key] \in Times \cup {None}
        BY <2>1
      <4> QED BY <2>1, <3>2, <4>1
    <3> QED BY <1>7, <3>1, <3>2 DEF Refresh
  <2> QED BY <2>2, <2>3, <2>4
<1>8. CASE Record
  BY <1>8 DEF Record, End
<1>9. CASE Fail
  BY <1>9 DEF Fail, End
<1>10. CASE UNCHANGED vars
  BY <1>10 DEF vars
<1> QED
  BY <1>1, <1>2, <1>3, <1>4, <1>5, <1>6, <1>7, <1>8, <1>9, <1>10 DEF Next, Owner, Client

\* A booking that is appended to the ledger leaves the others where they are.
LEMMA Recorded ==
    ASSUME Tables, Record
    PROVE  /\ job \in Request
           /\ DOMAIN ledger' = DOMAIN ledger \cup {Len(ledger) + 1}
           /\ Len(ledger) + 1 \notin DOMAIN ledger
           /\ ledger'[Len(ledger) + 1] = job
           /\ \A i \in DOMAIN ledger : ledger'[i] = ledger[i]
  BY DEF Tables, Record

OnceInv == JobNew /\ OnceBooked

LEMMA OnceStep == Tables /\ OnceInv /\ [Next]_vars => OnceInv'
<1> SUFFICES ASSUME Tables, OnceInv, [Next]_vars PROVE OnceInv'
  OBVIOUS
<1> USE DEF OnceInv, JobNew, OnceBooked
<1>1. CASE Record
  <2>1. op' = "idle"
    BY <1>1 DEF Record, End
  <2>2. \A i \in DOMAIN ledger : ledger[i].key # job.key
    BY <1>1 DEF Record, Booked
  <2> QED BY <1>1, <2>1, <2>2, Recorded
<1>2. CASE UNCHANGED <<ledger, op, job>>
  BY <1>2 DEF Booked
<1>3. ASSUME NEW k \in Keys, NEW l \in Links, NEW s \in 0 .. Day, Book(k, l, s) PROVE OnceInv'
  BY <1>3 DEF Book, Booked
<1>4. CASE Refresh
  BY <1>4 DEF Refresh, End, Booked
<1>5. CASE Fail
  BY <1>5 DEF Fail, End
<1> QED
  BY <1>1, <1>2, <1>3, <1>4, <1>5
     DEF Next, Owner, Client, SetLink, AddMeeting, RemoveEvent, Sync, Refuse, vars

\* A request is recorded once however often it is sent, even after the owner has
\* removed its event: for any number of requests and links that change at will.
THEOREM RecordedOnce == Spec => []OnceBooked
<1>1. Init => Tables /\ OnceInv
  BY TablesInit DEF Init, OnceInv, JobNew, OnceBooked
<1>2. Tables /\ OnceInv /\ [Next]_vars => Tables' /\ OnceInv'
  BY TablesKept, OnceStep
<1>3. OnceInv => OnceBooked
  BY DEF OnceInv
<1> QED BY <1>1, <1>2, <1>3, PTL DEF Spec

-----------------------------------------------------------------------------
(* Refinement of Reservation                                               *)

\* Each link keeps its duration; its calendar and buffer may change.
FixedDurations == \A l \in Links : \A c, d \in Configs[l] : c.len = d.len

\* A link that is enabled has one of its settings.
Linked == \A l \in Links : link[l] # None => link[l] \in Configs[l]

\* An event of a request lies where the request asks for, also if it was written
\* by an attempt that failed.
AsAsked ==
    \A c \in Cals, k \in Keys : wire[c][k] # None =>
        /\ asked[k] # None
        /\ \A d \in Configs[asked[k][1]] : wire[c][k] = <<asked[k][2], asked[k][2] + d.len>>

\* The event of booking b on the server, and in the cache.
OnWire(b)  == wire[b.cal][b.key]
InCache(b) == cache[b.cal][b.key]

\* The event of a booking in the ledger is cached as long as it is there, so that
\* no later request gets its time.
Blocking == \A i \in DOMAIN ledger : OnWire(ledger[i]) \in {None, InCache(ledger[i])}

\* The event that book_slot has written overlaps no booking in the ledger, and before
\* it is recorded it is cached.
JobFree ==
    op # "idle" =>
        /\ op = "record" => OnWire(job) \in {None, InCache(job)}
        /\ \A i \in DOMAIN ledger :
               OnWire(job) = None \/ OnWire(ledger[i]) = None
               \/ ~Overlap(OnWire(ledger[i]), OnWire(job))

HoldInv == Linked /\ AsAsked /\ Blocking /\ JobFree

Inv == Tables /\ OnceInv /\ HoldInv

LEMMA HoldInit == Init => HoldInv
  BY DEF Init, HoldInv, Linked, AsAsked, Blocking, JobFree, Uids

LEMMA LedgerKeys ==
    ASSUME Tables, NEW i \in DOMAIN ledger
    PROVE  ledger[i].key \in Keys /\ ledger[i].cal \in Cals
<1>1. ledger[i] \in Request
  BY DEF Tables
<1> QED BY <1>1 DEF Request

LEMMA HoldStep == FixedDurations /\ Inv /\ [Next]_vars => HoldInv'
<1> SUFFICES ASSUME FixedDurations, Inv, [Next]_vars PROVE HoldInv'
  OBVIOUS
<1>t. Tables /\ Linked /\ AsAsked /\ Blocking /\ JobFree /\ OnceBooked
      /\ (op # "idle" => ~Booked(job.key) /\ job \in Request /\ job.key \in Keys /\ job.cal \in Cals)
  BY DEF Inv, HoldInv, OnceInv, JobNew, Tables, Request
<1>k. \A i \in DOMAIN ledger : ledger[i].key \in Keys /\ ledger[i].cal \in Cals
  BY <1>t, LedgerKeys
<1>1. ASSUME NEW l \in Links, NEW c \in Configs[l] \cup {None}, SetLink(l, c) PROVE HoldInv'
  BY <1>1, <1>t DEF SetLink, HoldInv, Linked, AsAsked, Blocking, JobFree, OnWire, InCache, Tables
<1>2. ASSUME NEW c \in Cals, NEW u \in Uids, UNCHANGED <<link, cache, ledger, asked, op, job>>,
             u \in Meetings \/ wire'[c][u] = None,
             NEW t, wire' = [wire EXCEPT ![c][u] = t]
      PROVE  HoldInv'
  <2>1. \A d \in Cals, k \in Keys : wire'[d][k] \in {None, wire[d][k]}
    BY <1>2, <1>t, UidsAssumption DEF UidsAssumption, Tables, Uids
  <2>2. Linked'
    BY <1>2, <1>t DEF Linked
  <2>3. AsAsked'
    BY <1>2, <1>t, <2>1 DEF AsAsked
  <2>4. Blocking'
    BY <1>2, <1>t, <1>k, <2>1 DEF Blocking, OnWire, InCache
  <2>5. JobFree'
    BY <1>2, <1>t, <1>k, <2>1 DEF JobFree, OnWire, InCache
  <2> QED BY <2>2, <2>3, <2>4, <2>5 DEF HoldInv
<1>3. ASSUME NEW c \in Cals, Sync(c) PROVE HoldInv'
  BY <1>3, <1>t, <1>k DEF Sync, HoldInv, Linked, AsAsked, Blocking, JobFree, OnWire, InCache, Tables
<1>4. ASSUME NEW k \in Keys, NEW l \in Links, NEW s \in 0 .. Day, Refuse(k, l, s) PROVE HoldInv'
  <2>1. \A j \in Keys : asked[j] # None => asked'[j] = asked[j]
    BY <1>4, <1>t DEF Refuse, Ask, Tables
  <2>2. UNCHANGED <<link, wire, cache, ledger, op, job>>
    BY <1>4 DEF Refuse
  <2>3. AsAsked'
    BY <2>1, <2>2, <1>t DEF AsAsked
  <2> QED
    BY <2>2, <2>3, <1>t DEF HoldInv, Linked, Blocking, JobFree, OnWire, InCache
<1>5. ASSUME NEW k \in Keys, NEW l \in Links, NEW s \in 0 .. Day, Book(k, l, s) PROVE HoldInv'
  <2> DEFINE set == link[l]
             t == Span(l, s)
  <2>1. /\ set \in Setting /\ set \in Configs[l] /\ set.cal \in Cals
        /\ t = <<s, s + set.len>> /\ t \in Times /\ t \in Slots(set)
    BY <1>5, <1>t, SlotTimes DEF Book, Ask, Tables, Linked, Setting, Span
  <2>2. /\ wire' = [wire EXCEPT ![set.cal][k] = IF @ = None THEN t ELSE @]
        /\ asked' = [asked EXCEPT ![k] = <<l, s>>] /\ asked[k] \in {None, <<l, s>>}
        /\ op' = "refresh" /\ job' = [key |-> k, link |-> l, cal |-> set.cal, time |-> t]
        /\ UNCHANGED <<link, cache, ledger>> /\ ~Booked(k)
    BY <1>5 DEF Book, Ask
  <2>3. \A d \in Configs[l] : t = <<s, s + d.len>>
    BY <2>1, <1>t DEF FixedDurations
  <2>4. \A d \in Cals : wire[d][k] # None => wire[d][k] = t
    <3>1. \A d \in Cals : wire[d][k] # None => asked[k] = <<l, s>>
      BY <2>2, <1>t DEF AsAsked
    <3> QED BY <3>1, <2>1, <2>3, <1>t DEF AsAsked
  <2>5. /\ wire'[set.cal][k] = t
        /\ \A d \in Cals, j \in Keys : <<d, j>> # <<set.cal, k>> => wire'[d][j] = wire[d][j]
    BY <2>1, <2>2, <2>4, <1>t DEF Tables, Uids
  <2>6. Linked'
    BY <2>2, <1>t DEF Linked
  <2>7. AsAsked'
    <3> SUFFICES ASSUME NEW d \in Cals, NEW j \in Keys, wire'[d][j] # None
                 PROVE  /\ asked'[j] # None
                        /\ \A e \in Configs[asked'[j][1]] :
                               wire'[d][j] = <<asked'[j][2], asked'[j][2] + e.len>>
      BY DEF AsAsked
    <3>1. CASE j = k
      <4>1. asked'[k] = <<l, s>> /\ asked'[k] # None
        <5>1. asked'[k] = <<l, s>>
          BY <2>2, <1>t DEF Tables
        <5> QED BY <5>1, NoneAssumption DEF NoneAssumption
      <4>2. wire'[d][k] = t
        BY <2>4, <2>5, <3>1
      <4> QED BY <3>1, <4>1, <4>2, <2>3
    <3>2. CASE j # k
      BY <3>2, <2>2, <2>5, <1>t DEF AsAsked, Tables
    <3> QED BY <3>1, <3>2
  <2>8. \A i \in DOMAIN ledger : ledger[i].key # k /\ OnWire(ledger[i])' = OnWire(ledger[i])
    BY <2>2, <2>5, <1>k DEF Booked, OnWire
  <2>9. Blocking'
    BY <2>2, <2>8, <1>t DEF Blocking, InCache
  <2>10. ASSUME NEW i \in DOMAIN ledger, OnWire(ledger[i]) # None
         PROVE  ~Overlap(OnWire(ledger[i]), t)
    <3> DEFINE w == OnWire(ledger[i])
    <3>1. w \in Times /\ w \in Busy(set)
      BY <2>10, <1>t, <1>k DEF Blocking, OnWire, InCache, Busy, Tables, Uids
    <3>2. ~Overlap(t, Padded(w, set.buffer))
      BY <2>1, <3>1 DEF Slots
    <3>3. set.buffer \in Nat
      BY <2>1, DayAssumption DEF DayAssumption, Setting
    <3> HIDE DEF w, t, set
    <3>4. ~Overlap(w, t)
      BY <2>1, <3>1, <3>2, <3>3, DayAssumption DEF DayAssumption, Overlap, Padded, Times
    <3> QED BY <3>4 DEF w
  <2>11. JobFree'
    BY <2>2, <2>5, <2>8, <2>10 DEF JobFree, OnWire
  <2> QED BY <2>6, <2>7, <2>9, <2>11 DEF HoldInv
<1>6. CASE Refresh
  <2>1. op = "refresh" /\ UNCHANGED <<link, wire, ledger, asked>>
    BY <1>6 DEF Refresh
  <2>2. \A i \in DOMAIN ledger : ledger[i].key # job.key
    BY <2>1, <1>t DEF Booked
  <2>3. \/ op' = "idle" /\ UNCHANGED cache
        \/ /\ op' = "record" /\ job' = job
           /\ cache' = [cache EXCEPT ![job.cal][job.key] = wire[job.cal][job.key]]
    BY <1>6 DEF Refresh, End
  <2>4. \A i \in DOMAIN ledger : InCache(ledger[i])' = InCache(ledger[i])
    BY <2>1, <2>2, <2>3, <1>t, <1>k DEF InCache, Tables, Uids
  <2>5. op' # "idle" => InCache(job)' = OnWire(job)
    BY <2>1, <2>3, <1>t DEF InCache, OnWire, Tables, Uids
  <2>6. Linked' /\ AsAsked'
    BY <2>1, <1>t DEF Linked, AsAsked
  <2>7. Blocking'
    BY <2>1, <2>4, <1>t DEF Blocking, OnWire
  <2>8. JobFree'
    BY <2>1, <2>3, <2>5, <1>t DEF JobFree, OnWire
  <2> QED BY <2>6, <2>7, <2>8 DEF HoldInv
<1>7. CASE Record
  <2>1. UNCHANGED <<link, wire, cache, asked>> /\ op = "record" /\ op' = "idle"
    BY <1>7 DEF Record, End
  <2>2. Linked' /\ AsAsked' /\ JobFree'
    BY <2>1, <1>t DEF Linked, AsAsked, JobFree
  <2>3. Blocking'
    BY <1>7, <2>1, <1>t, Recorded DEF Blocking, JobFree, OnWire, InCache
  <2> QED BY <2>2, <2>3 DEF HoldInv
<1>8. CASE Fail
  BY <1>8, <1>t DEF Fail, End, HoldInv, Linked, AsAsked, Blocking, JobFree, OnWire, InCache
<1>9. CASE UNCHANGED vars
  BY <1>9, <1>t DEF vars, HoldInv, Linked, AsAsked, Blocking, JobFree, OnWire, InCache
<1>10. ASSUME NEW c \in Cals, NEW u \in Meetings, NEW t \in Times, AddMeeting(c, u, t) PROVE HoldInv'
  BY <1>10, <1>2 DEF AddMeeting, Uids
<1>11. ASSUME NEW c \in Cals, NEW u \in Uids, RemoveEvent(c, u) PROVE HoldInv'
  <2>1. wire' = [wire EXCEPT ![c][u] = None] /\ UNCHANGED <<link, cache, ledger, asked, op, job>>
    BY <1>11 DEF RemoveEvent
  <2>2. wire'[c][u] = None
    BY <2>1, <1>t DEF Tables
  <2> QED BY <2>1, <2>2, <1>2
<1> QED
  BY <1>1, <1>3, <1>4, <1>5, <1>6, <1>7, <1>8, <1>9, <1>10, <1>11 DEF Next, Owner, Client

\* The request of a booking in the ledger holds the time of its event, or none.
BookedHeld ==
    \A i \in DOMAIN ledger :
        Held(ledger[i].key) = IF OnWire(ledger[i]) = None THEN Gone ELSE OnWire(ledger[i])

LEMMA HeldBooked == OnceBooked => BookedHeld
<1> SUFFICES ASSUME OnceBooked, NEW i \in DOMAIN ledger
             PROVE  Held(ledger[i].key) = IF OnWire(ledger[i]) = None THEN Gone ELSE OnWire(ledger[i])
  BY DEF BookedHeld
<1> DEFINE k == ledger[i].key
           n == CHOOSE m \in DOMAIN ledger : ledger[m].key = k
<1>1. n \in DOMAIN ledger /\ ledger[n].key = k
  OBVIOUS
<1>2. n = i
  BY <1>1 DEF OnceBooked
<1>3. Booked(k)
  BY DEF Booked
<1> QED BY <1>2, <1>3 DEF Held, OnWire

\* A state in which the ledger and the events of its bookings are as before.
LEMMA HeldSame ==
    ASSUME Tables, OnceBooked, OnceBooked', NEW k \in Keys, UNCHANGED ledger,
           \A i \in DOMAIN ledger : ledger[i].key = k => UNCHANGED OnWire(ledger[i])
    PROVE  Held(k)' = Held(k)
<1>1. CASE ~Booked(k)
  BY <1>1 DEF Held, Booked
<1>2. ASSUME NEW i \in DOMAIN ledger, ledger[i].key = k PROVE Held(k)' = Held(k)
  <2>1. UNCHANGED wire[ledger[i].cal][k]
    BY <1>2 DEF OnWire
  <2> DEFINE n == CHOOSE m \in DOMAIN ledger : ledger[m].key = k
  <2>2. n \in DOMAIN ledger /\ ledger[n].key = k
    BY <1>2
  <2>3. n = i
    BY <2>2, <1>2 DEF OnceBooked
  <2>4. Booked(k) /\ Booked(k)'
    BY <1>2 DEF Booked
  <2> QED BY <2>1, <2>3, <2>4 DEF Held
<1> QED BY <1>1, <1>2 DEF Booked

\* Recording a booking reserves its time, or cancels it if the owner has removed the
\* event at once.
LEMMA RecordRefines ==
    ASSUME Inv, OnceBooked', Record
    PROVE  R!Next
<1> DEFINE n == Len(ledger) + 1
<1>0. job.key \in Keys
  BY Recorded DEF Inv, Request
<1> PICK k \in Keys : k = job.key
  BY <1>0
<1>1. /\ Tables /\ OnceBooked /\ JobFree /\ job \in Request
      /\ ~Booked(k) /\ op = "record" /\ UNCHANGED <<wire, cache>>
  BY Recorded DEF Inv, OnceInv, JobNew, HoldInv, Record, Request
<1>2. BookedHeld /\ BookedHeld'
  <2>1. OnceBooked' => BookedHeld'
    BY HeldBooked, PTL
  <2> QED BY <1>1, <2>1, HeldBooked
<1>3. n \in DOMAIN ledger' /\ ledger'[n] = job /\ \A i \in DOMAIN ledger : ledger'[i] = ledger[i]
  BY <1>1, Recorded
<1>4. Held(k) = Open
  BY <1>1 DEF Held
<1>5. Held(k)' = IF OnWire(job) = None THEN Gone ELSE OnWire(job)
  <2> DEFINE m == CHOOSE i \in DOMAIN ledger' : ledger'[i].key = k
  <2>1. m \in DOMAIN ledger' /\ ledger'[m].key = k
    BY <1>3
  <2>2. m = n
    BY <1>1, <1>3, <2>1, Recorded DEF Booked
  <2>3. Booked(k)'
    BY <1>3 DEF Booked
  <2>4. Held(k)' = IF wire'[ledger'[m].cal][k] = None THEN Gone ELSE wire'[ledger'[m].cal][k]
    BY <2>3 DEF Held
  <2> QED BY <1>1, <1>3, <2>2, <2>4 DEF OnWire
<1>6. ASSUME NEW j \in Keys, j # k PROVE Held(j)' = Held(j)
  <2>1. CASE Booked(j)
    <3>1. PICK i \in DOMAIN ledger : ledger[i].key = j
      BY <2>1 DEF Booked
    <3>2. i \in DOMAIN ledger' /\ ledger'[i] = ledger[i]
      BY <1>1, <1>3, <3>1, Recorded
    <3> QED BY <1>1, <1>2, <3>1, <3>2 DEF BookedHeld, OnWire
  <2>2. CASE ~Booked(j)
    <3>1. ~Booked(j)'
      BY <1>1, <1>3, <1>6, <2>2, Recorded DEF Booked
    <3> QED BY <2>2, <3>1 DEF Held
  <2> QED BY <2>1, <2>2
<1>7. CASE OnWire(job) = None
  <2>1. Held(k)' = Gone
    BY <1>5, <1>7
  <2>2. R!Cancel(k)
    BY <1>1, <1>4, <1>6, <2>1, StatesAssumption DEF StatesAssumption, R!Cancel
  <2> QED BY <1>1, <2>2 DEF R!Next
<1>8. CASE OnWire(job) # None
  <2>1. Held(k)' = OnWire(job) /\ OnWire(job) \in Times
    BY <1>1, <1>5, <1>8 DEF OnWire, Tables, Request, Uids
  <2>2. ASSUME NEW j \in Keys, Held(j) \in Times PROVE ~Overlap(Held(j), OnWire(job))
    <3>1. PICK i \in DOMAIN ledger : ledger[i].key = j
      BY <2>2, StatesAssumption DEF StatesAssumption, Held, Booked
    <3>2. Held(j) = OnWire(ledger[i]) /\ OnWire(ledger[i]) # None
      BY <1>2, <2>2, <3>1, StatesAssumption DEF StatesAssumption, BookedHeld
    <3> QED BY <1>1, <1>8, <3>2 DEF JobFree
  <2>3. R!Reserve(k, OnWire(job))
    BY <1>1, <1>4, <1>6, <2>1, <2>2 DEF R!Reserve, R!Holding
  <2> QED BY <1>1, <2>1, <2>3 DEF R!Next
<1> QED BY <1>7, <1>8

\* Removing the event of a booking cancels it; removing another changes nothing.
LEMMA RemoveRefines ==
    ASSUME Inv, OnceBooked', NEW c \in Cals, NEW u \in Uids, RemoveEvent(c, u)
    PROVE  R!Next \/ \A k \in Keys : Held(k)' = Held(k)
<1>1. /\ Tables /\ OnceBooked /\ UNCHANGED ledger /\ wire[c][u] # None
      /\ wire'[c][u] = None
      /\ \A d \in Cals, v \in Uids : <<d, v>> # <<c, u>> => wire'[d][v] = wire[d][v]
  BY DEF Inv, OnceInv, RemoveEvent, Tables
<1>2. BookedHeld /\ BookedHeld'
  <2>1. OnceBooked' => BookedHeld'
    BY HeldBooked, PTL
  <2> QED BY <1>1, <2>1, HeldBooked
<1>3. ASSUME NEW i \in DOMAIN ledger, ledger[i].key = u, ledger[i].cal = c PROVE R!Next
  <2>1. u \in Keys
    BY <1>1, <1>3, LedgerKeys
  <2>2. Held(u) # Gone /\ Held(u)' = Gone
    BY <1>1, <1>2, <1>3, StatesAssumption DEF StatesAssumption, BookedHeld, OnWire, Tables
  <2>3. ASSUME NEW j \in Keys, j # u PROVE Held(j)' = Held(j)
    <3>1. \A m \in DOMAIN ledger : ledger[m].key = j => UNCHANGED OnWire(ledger[m])
      BY <1>1, <2>3, LedgerKeys DEF OnWire, Uids
    <3> QED BY <1>1, <3>1, HeldSame
  <2>4. R!Cancel(u)
    BY <2>1, <2>2, <2>3 DEF R!Cancel
  <2> QED BY <2>1, <2>4 DEF R!Next
<1>4. ASSUME \A i \in DOMAIN ledger : ~(ledger[i].key = u /\ ledger[i].cal = c),
             NEW k \in Keys
      PROVE  Held(k)' = Held(k)
  <2>1. \A m \in DOMAIN ledger : UNCHANGED OnWire(ledger[m])
    BY <1>1, <1>4, LedgerKeys DEF OnWire, Uids
  <2> QED BY <1>1, <2>1, HeldSame
<1> QED BY <1>3, <1>4

LEMMA StepRefines ==
    Inv /\ OnceBooked' /\ [Next]_vars => R!Next \/ \A k \in Keys : Held(k)' = Held(k)
<1> SUFFICES ASSUME Inv, OnceBooked', [Next]_vars
             PROVE  R!Next \/ \A k \in Keys : Held(k)' = Held(k)
  OBVIOUS
<1>1. Tables /\ OnceBooked
  BY DEF Inv, OnceInv
<1>2. ASSUME UNCHANGED ledger, \A i \in DOMAIN ledger : UNCHANGED OnWire(ledger[i])
      PROVE  \A k \in Keys : Held(k)' = Held(k)
  BY <1>1, <1>2, HeldSame
<1>3. CASE UNCHANGED <<wire, ledger>>
  BY <1>2, <1>3 DEF OnWire
<1>4. ASSUME NEW c \in Cals, NEW u \in Meetings, NEW t \in Times, AddMeeting(c, u, t)
      PROVE  \A k \in Keys : Held(k)' = Held(k)
  <2>1. ASSUME NEW d \in Cals, NEW k \in Keys PROVE wire'[d][k] = wire[d][k]
    BY <1>1, <1>4, <2>1, UidsAssumption DEF AddMeeting, UidsAssumption, Tables, Uids
  <2>2. \A i \in DOMAIN ledger : UNCHANGED OnWire(ledger[i])
    BY <1>1, <1>4, <2>1, LedgerKeys DEF AddMeeting, OnWire
  <2> QED BY <1>2, <1>4, <2>2 DEF AddMeeting
<1>5. ASSUME NEW k \in Keys, NEW l \in Links, NEW s \in 0 .. Day, Book(k, l, s)
      PROVE  \A j \in Keys : Held(j)' = Held(j)
  <2>1. \A i \in DOMAIN ledger : ledger[i].key # k
    BY <1>5 DEF Book, Booked
  <2>2. link[l].cal \in Cals
    BY <1>1, <1>5 DEF Tables, Setting, Book, Ask
  <2>3. \A i \in DOMAIN ledger : UNCHANGED OnWire(ledger[i])
    BY <1>1, <1>5, <2>1, <2>2, LedgerKeys DEF Book, OnWire, Tables, Uids
  <2> QED BY <1>2, <1>5, <2>3 DEF Book
<1> QED
  BY <1>3, <1>4, <1>5, RecordRefines, RemoveRefines
     DEF Next, Owner, Client, SetLink, Sync, Refuse, Refresh, Fail, vars

\* As long as each link keeps its duration, though it may move to another calendar, get
\* another buffer, and be disabled and enabled, no time is confirmed to two clients:
\* whatever fails between the PUT and the ledger, and however often requests are sent.
THEOREM BookingImplementsReservation ==
    ASSUME FixedDurations
    PROVE  Spec => Reservations
<1>1. Init => Inv /\ R!Init
  <2>1. Init => \A k \in Keys : Held(k) = Open
    BY DEF Init, Held, Booked
  <2>2. Init => OnceInv
    BY DEF Init, OnceInv, JobNew, OnceBooked
  <2> QED BY <2>1, <2>2, TablesInit, HoldInit DEF Inv, R!Init
<1>2. Inv /\ [Next]_vars => Inv'
  BY FixedDurations, TablesKept, OnceStep, HoldStep DEF Inv
<1>3. Inv /\ Inv' /\ [Next]_vars => [R!Next]_([k \in Keys |-> Held(k)])
  BY StepRefines DEF Inv, OnceInv
<1> QED BY <1>1, <1>2, <1>3, PTL DEF Spec, Reservations, R!Spec

\* No two requests hold times that overlap.
NoneTwice ==
    \A j, k \in Keys : j # k /\ Held(j) \in Times /\ Held(k) \in Times => ~Overlap(Held(j), Held(k))

\* What clients are to rely on: of two confirmed bookings whose events are on the
\* calendars, whatever links they were made through, none overlaps the other.
THEOREM NoTimeTwice ==
    ASSUME FixedDurations
    PROVE  Spec => []NoneTwice
<1>1. Init => Inv /\ NoneTwice
  <2>1. Init => \A k \in Keys : Held(k) = Open
    BY DEF Init, Held, Booked
  <2>2. Init => OnceInv
    BY DEF Init, OnceInv, JobNew, OnceBooked
  <2> QED
    BY <2>1, <2>2, TablesInit, HoldInit, StatesAssumption DEF StatesAssumption, Inv, NoneTwice
<1>2. Inv /\ [Next]_vars => Inv'
  BY FixedDurations, TablesKept, OnceStep, HoldStep DEF Inv
<1>3. Inv /\ Inv' /\ NoneTwice /\ [Next]_vars => NoneTwice'
  <2> SUFFICES ASSUME Inv, Inv', NoneTwice, [Next]_vars PROVE NoneTwice'
    OBVIOUS
  <2>1. ASSUME NEW k \in Keys, R!Cancel(k) PROVE NoneTwice'
    <3>1. Held(k)' \notin Times /\ \A j \in Keys : j # k => Held(j)' = Held(j)
      BY <2>1, StatesAssumption DEF StatesAssumption, R!Cancel
    <3> QED BY <3>1 DEF NoneTwice
  <2>2. ASSUME NEW k \in Keys, NEW t \in Times, R!Reserve(k, t) PROVE NoneTwice'
    <3>1. Held(k)' = t /\ \A j \in Keys : j # k => Held(j)' = Held(j)
      BY <2>2 DEF R!Reserve
    <3>2. \A j \in Keys : Held(j) \in Times => ~Overlap(Held(j), t) /\ ~Overlap(t, Held(j))
      BY <2>2 DEF R!Reserve, R!Holding, Overlap
    <3> QED BY <3>1, <3>2 DEF NoneTwice
  <2>3. CASE \A k \in Keys : Held(k)' = Held(k)
    BY <2>3 DEF NoneTwice
  <2> QED BY <2>1, <2>2, <2>3, StepRefines DEF Inv, OnceInv, R!Next
<1> QED BY <1>1, <1>2, <1>3, PTL DEF Spec

=============================================================================

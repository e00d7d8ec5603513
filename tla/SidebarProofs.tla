---------------------------- MODULE SidebarProofs ----------------------------
(***************************************************************************)
(* Proofs about Sidebar.  What is said of the stored settings is said of a *)
(* single tab, since nothing tells a tab what another one has changed, and *)
(* of keys whose PUTs have not overtaken one another nor got lost.  The    *)
(* invariant follows the PUTs under way: what the account keeps once they  *)
(* have arrived is what the tab shows, and those for pruning take out of   *)
(* what they will find only lists that are gone.                           *)
(***************************************************************************)
EXTENDS Sidebar, SequenceTheorems, TLAPS

-----------------------------------------------------------------------------
(* The inductive invariant                                                 *)

\* The list that was created, or is deleted, has an id.
Named ==
    \A t \in Tabs : asked[t].what = "remove" \/ asked[t].served => asked[t].list \in Lists

Typed == TypeOK /\ Named

\* What a sequence holds.
Elems(q) == {q[n] : n \in 1 .. Len(q)}

\* Once the PUTs q of a key have arrived, it is v; it is b now.
Settles(q, b, v) == IF q = <<>> THEN b = v ELSE q[Len(q)].val = v

\* A tab that has not got its settings shows none and has sent none.
NotReady(t) ==
    ~ Ready(t) =>
        /\ prefs[t] = NoPrefs /\ puts[t] = NoPuts /\ asked[t] = Nothing
        /\ \A r \in Elems(reads[t]) \cup Elems(answers[t]) : r.prefs = NoPrefs
        /\ phase[t] = "read" => seen[t] = blob

Stored(t) ==
    Ready(t) => \A k \in Keys : k \notin astray => Settles(puts[t][k], blob[k], prefs[t][k])

Disjoint(p) == p["hidden"] \cap p["placed"] = {}

\* No archived calendar is hidden, in what the tab shows or is going to.
ArchivedShown(t) ==
    Calendars /\ ~undone => IF Ready(t) THEN Disjoint(prefs[t]) ELSE Disjoint(blob)

StoreInv(t) == Typed /\ NotReady(t) /\ Stored(t) /\ ArchivedShown(t)

\* The circumstances in which pruning is safe.
Safe == (scene = "plain" /\ "lists" \notin astray) \/ (Calendars /\ ~undone)

\* What is deleted, or is being deleted by the tab.
Gone(t) == Deleted \cup ({asked[t].list} \ {None})

\* Pruning that leaves v of x takes out only what is in gone.
Prunes(x, v, gone) == v \subseteq x /\ x \ v \subseteq gone

\* The PUTs q for pruning will find nothing else to take out, where b is stored
\* now.
PrunesAll(q, b, gone) ==
    \A n \in 1 .. Len(q) : q[n].by = "prune" =>
        Prunes(IF n = 1 THEN b ELSE q[n - 1].val, q[n].val, gone)

\* What a tab knows of, in its rail or in the preferences.
Known(t) ==
    {l \in Lists : \/ l \in items[t]
                  \/ \E k \in Keys : l \in prefs[t][k] \/ (~ Ready(t) /\ l \in blob[k])}

\* The tab and its reads know of lists that are there or not any more; and what an
\* answer did not find of the preferences it prunes is not there any more.
Knows(t) ==
    /\ Known(t) \subseteq Live \cup Deleted
    /\ \A r \in Elems(reads[t]) : \A k \in Keys : r.prefs[k] \subseteq Live \cup Deleted
    /\ \A a \in Elems(answers[t]) :
           /\ a.got \subseteq Live \cup Deleted
           /\ \A k \in Keys : a.prefs[k] \subseteq a.got \cup Deleted

\* Each answer of q found what those before it found, but for what is in gone.
Grows(q, gone) ==
    \A n \in 1 .. Len(q) : \A m \in 1 .. n - 1 : q[m].got \subseteq q[n].got \cup gone

\* Lists: an answer knows all the tab does, and the earlier ones do.
InOrder(t) ==
    ~ Calendars =>
        /\ \A a \in Elems(answers[t]) : Known(t) \subseteq a.got \cup Deleted
        /\ Grows(answers[t], Deleted)

\* The preferences refer to what is in the rail or gone, unless it is empty.
RailCovers(t) ==
    ~ Calendars /\ items[t] # {} =>
        \A k \in Keys : (IF Ready(t) THEN prefs[t][k] ELSE blob[k]) \subseteq items[t] \cup Gone(t)

\* A deletion the tab need not wait for any more has been carried out.
Serves(t) ==
    /\ asked[t].what \in {"nothing", "remove"}
    /\ asked[t].what = "nothing" => asked[t] = Nothing
    /\ asked[t].served => asked[t].list \in Deleted

QueuePrunes(t) ==
    \A k \in Keys : k \notin astray => PrunesAll(puts[t][k], blob[k], Gone(t))

\* All of it.
PruneParts(t) == Knows(t) /\ InOrder(t) /\ RailCovers(t) /\ Serves(t) /\ QueuePrunes(t)

PruneInv(t) == Safe => PruneParts(t)

TabInv(t) == StoreInv(t) /\ PruneInv(t)

-----------------------------------------------------------------------------
(* Lemmas about sequences                                                  *)

LEMMA KeysAre == Keys = {"hidden", "placed"} /\ "hidden" \in Keys /\ "placed" \in Keys
BY DEF Keys

\* Another request at the end.
LEMMA ElemsAppend ==
    ASSUME NEW S, NEW q \in Seq(S), NEW e \in S
    PROVE  /\ Append(q, e) \in Seq(S)
           /\ \A x \in Elems(Append(q, e)) : x = e \/ x \in Elems(q)
<1>1. PICK r : r = Append(q, e)
  OBVIOUS
<1>2. /\ Len(q) \in Nat /\ r \in Seq(S) /\ Len(r) = Len(q) + 1 /\ r[Len(q) + 1] = e
      /\ \A i \in 1 .. Len(q) : r[i] = q[i]
  BY <1>1, AppendProperties, LenProperties
<1>3. \A i \in 1 .. Len(r) : i \in 1 .. Len(q) \/ i = Len(q) + 1
  BY <1>2
<1>4. \A x \in Elems(r) : x = e \/ x \in Elems(q)
  BY <1>2, <1>3 DEF Elems
<1> QED
  BY <1>1, <1>2, <1>4

\* The only one.
LEMMA ElemsOne ==
    ASSUME NEW S, NEW e \in S
    PROVE  <<e>> \in Seq(S) /\ \A x \in Elems(<<e>>) : x = e
<1>1. <<e>> \in Seq(S) /\ Len(<<e>>) = 1 /\ <<e>>[1] = e
  OBVIOUS
<1>2. \A i \in 1 .. Len(<<e>>) : i = 1
  BY <1>1
<1> QED
  BY <1>1, <1>2 DEF Elems

LEMMA ElemsTyped ==
    ASSUME NEW S, NEW q \in Seq(S), NEW x \in Elems(q)
    PROVE  x \in S
BY ElementOfSeq DEF Elems

\* All but the n-th.
LEMMA OthersIs ==
    ASSUME NEW S, NEW q \in Seq(S), NEW n \in 1 .. Len(q)
    PROVE  /\ Others(q, n) \in Seq(S)
           /\ Len(Others(q, n)) = Len(q) - 1
           /\ \A i \in 1 .. Len(q) - 1 : Others(q, n)[i] = q[IF i < n THEN i ELSE i + 1]
<1>1. Len(q) \in Nat /\ n \in Nat /\ 1 <= n /\ n <= Len(q) /\ \A i \in 1 .. Len(q) : q[i] \in S
  BY LenProperties, ElementOfSeq
<1>2. PICK f : f = SubSeq(q, 1, n - 1)
  OBVIOUS
<1>3. PICK g : g = SubSeq(q, n + 1, Len(q))
  OBVIOUS
<1>4. f \in Seq(S) /\ Len(f) = n - 1 /\ \A i \in 1 .. n - 1 : f[i] = q[i]
  <2>1. \A i \in 1 .. n - 1 : q[i] \in S
    BY <1>1
  <2>2. /\ f \in Seq(S) /\ Len(f) = (IF 1 <= n - 1 THEN (n - 1) - 1 + 1 ELSE 0)
        /\ \A i \in 1 .. (n - 1) - 1 + 1 : f[i] = q[1 + i - 1]
    BY <1>1, <1>2, <2>1, SubSeqProperties
  <2> QED
    BY <1>1, <2>2
<1>5. g \in Seq(S) /\ Len(g) = Len(q) - n /\ \A i \in 1 .. Len(q) - n : g[i] = q[n + i]
  <2>1. \A i \in n + 1 .. Len(q) : q[i] \in S
    BY <1>1
  <2>2. /\ g \in Seq(S) /\ Len(g) = (IF n + 1 <= Len(q) THEN Len(q) - (n + 1) + 1 ELSE 0)
        /\ \A i \in 1 .. Len(q) - (n + 1) + 1 : g[i] = q[(n + 1) + i - 1]
    BY <1>1, <1>3, <2>1, SubSeqProperties
  <2> QED
    BY <1>1, <2>2
<1>6. PICK r : r = f \o g
  OBVIOUS
<1>7. /\ r \in Seq(S) /\ Len(r) = Len(f) + Len(g)
      /\ \A i \in 1 .. Len(f) + Len(g) : r[i] = IF i <= Len(f) THEN f[i] ELSE g[i - Len(f)]
  BY <1>4, <1>5, <1>6, ConcatProperties
<1>8. \A i \in 1 .. Len(q) - 1 : r[i] = q[IF i < n THEN i ELSE i + 1]
  <2>1. ASSUME NEW i \in 1 .. Len(q) - 1, i < n
        PROVE  r[i] = q[i]
    BY <1>1, <1>4, <1>5, <1>7, <2>1
  <2>2. ASSUME NEW i \in 1 .. Len(q) - 1, ~ (i < n)
        PROVE  r[i] = q[i + 1]
    <3>1. PICK j : j = i - Len(f)
      OBVIOUS
    <3>2. /\ j \in 1 .. Len(q) - n /\ n + j = i + 1 /\ ~ (i <= Len(f))
          /\ i \in 1 .. Len(f) + Len(g)
      BY <1>1, <1>4, <1>5, <2>2, <3>1
    <3>3. r[i] = g[j]
      BY <1>7, <3>1, <3>2
    <3>4. g[j] = q[n + j]
      BY <1>5, <3>2
    <3> QED
      BY <3>2, <3>3, <3>4
  <2> QED
    BY <2>1, <2>2
<1>9. Others(q, n) = r
  BY <1>2, <1>3, <1>6 DEF Others
<1>10. Len(r) = Len(q) - 1
  BY <1>1, <1>4, <1>5, <1>7
<1> QED
  BY <1>7, <1>8, <1>9, <1>10

LEMMA ElemsOthers ==
    ASSUME NEW S, NEW q \in Seq(S), NEW n \in 1 .. Len(q)
    PROVE  /\ Others(q, n) \in Seq(S)
           /\ Elems(Others(q, n)) \subseteq Elems(q)
<1>1. PICK r : r = Others(q, n)
  OBVIOUS
<1>2. /\ r \in Seq(S) /\ Len(r) = Len(q) - 1 /\ Len(q) \in Nat
      /\ \A i \in 1 .. Len(q) - 1 : r[i] = q[IF i < n THEN i ELSE i + 1]
  BY <1>1, OthersIs, LenProperties
<1>3. ASSUME NEW i \in 1 .. Len(r)
      PROVE  \E j \in 1 .. Len(q) : r[i] = q[j]
  <2>1. PICK j : j = IF i < n THEN i ELSE i + 1
    OBVIOUS
  <2>2. j \in 1 .. Len(q) /\ i \in 1 .. Len(q) - 1
    BY <1>2, <2>1
  <2>3. r[i] = q[j]
    BY <1>2, <2>1, <2>2
  <2> QED
    BY <2>2, <2>3
<1>4. Elems(r) \subseteq Elems(q)
  BY <1>3 DEF Elems
<1> QED
  BY <1>1, <1>2, <1>4

\* All but the first.
LEMMA OthersTail ==
    ASSUME NEW S, NEW q \in Seq(S), 1 \in 1 .. Len(q)
    PROVE  /\ Others(q, 1) = Tail(q) /\ q # <<>> /\ Head(q) = q[1]
<1>1. Len(q) \in Nat /\ q # <<>>
  BY LenProperties, EmptySeq
<1>2. /\ Others(q, 1) \in Seq(S) /\ Len(Others(q, 1)) = Len(q) - 1
      /\ \A i \in 1 .. Len(q) - 1 : Others(q, 1)[i] = q[IF i < 1 THEN i ELSE i + 1]
  BY OthersIs
<1>3. Tail(q) \in Seq(S) /\ Len(Tail(q)) = Len(q) - 1 /\ \A i \in 1 .. Len(q) - 1 : Tail(q)[i] = q[i + 1]
  BY <1>1, HeadTailProperties
<1>4. \A i \in 1 .. Len(q) - 1 : Others(q, 1)[i] = Tail(q)[i]
  BY <1>1, <1>2, <1>3
<1>5. Others(q, 1) = Tail(q)
  BY <1>2, <1>3, <1>4, SeqEqual
<1> QED
  BY <1>1, <1>5

\* Those of a view that has been left.
LEMMA ElemsLeft ==
    ASSUME NEW q, q \in Seq(Read) \/ q \in Seq(Answer)
    PROVE  /\ q \in Seq(Read) => Left(q) \in Seq(Read)
           /\ q \in Seq(Answer) => Left(q) \in Seq(Answer)
           /\ \A x \in Elems(Left(q)) : \E y \in Elems(q) : x = [y EXCEPT !.here = FALSE]
<1>1. PICK r : r = Left(q)
  OBVIOUS
<1>2. Len(q) \in Nat
  BY LenProperties
<1>3. r = [n \in 1 .. Len(q) |-> [q[n] EXCEPT !.here = FALSE]]
  BY <1>1 DEF Left
<1>4. Len(r) = Len(q) /\ \A n \in 1 .. Len(q) : r[n] = [q[n] EXCEPT !.here = FALSE]
  BY <1>2, <1>3
<1>5. ASSUME q \in Seq(Read)
      PROVE  r \in Seq(Read)
  <2>1. \A n \in 1 .. Len(q) : q[n] \in Read
    BY <1>5, ElementOfSeq
  <2>2. \A n \in 1 .. Len(q) : [q[n] EXCEPT !.here = FALSE] \in Read
    BY <2>1 DEF Read
  <2> QED
    BY <1>2, <1>3, <2>2
<1>6. ASSUME q \in Seq(Answer)
      PROVE  r \in Seq(Answer)
  <2>1. \A n \in 1 .. Len(q) : q[n] \in Answer
    BY <1>6, ElementOfSeq
  <2>2. \A n \in 1 .. Len(q) : [q[n] EXCEPT !.here = FALSE] \in Answer
    BY <2>1 DEF Answer
  <2> QED
    BY <1>2, <1>3, <2>2
<1>7. \A x \in Elems(r) : \E y \in Elems(q) : x = [y EXCEPT !.here = FALSE]
  BY <1>4 DEF Elems
<1> QED
  BY <1>1, <1>5, <1>6, <1>7

-----------------------------------------------------------------------------
(* Lemmas about the PUTs of a key                                          *)

\* The PUTs r after those of q, when what the tab shows goes from old to new.
Sent(q, r, old, new, by) ==
    r = IF new = old THEN q ELSE Append(q, [val |-> new, by |-> by])

\* What the tab shows is still what the PUTs come to.
Carries(q, r, old, new) == \A b : Settles(q, b, old) => Settles(r, b, new)

\* If the PUTs already under way prune only what is gone, so do those after them.
CarriesPrunes(q, r, old, new, by) ==
    \A b, gone :
        /\ PrunesAll(q, b, gone) /\ Settles(q, b, old)
        /\ by = "prune" => Prunes(old, new, gone)
        => PrunesAll(r, b, gone)

LEMMA SentEffect ==
    ASSUME NEW q \in Seq(Put), NEW old \in SUBSET Lists, NEW new \in SUBSET Lists,
           NEW by \in {"user", "prune"}, NEW r, Sent(q, r, old, new, by)
    PROVE  r \in Seq(Put) /\ Carries(q, r, old, new) /\ CarriesPrunes(q, r, old, new, by)
<1>1. CASE new = old
  <2>1. r = q
    BY <1>1 DEF Sent
  <2> QED
    BY <1>1, <2>1 DEF Carries, CarriesPrunes
<1>2. CASE new # old
  <2>1. PICK p : p = [val |-> new, by |-> by]
    OBVIOUS
  <2>2. p \in Put /\ p.val = new /\ p.by = by
    BY <2>1 DEF Put
  <2>3. r = Append(q, p)
    BY <1>2, <2>1 DEF Sent
  <2>4. /\ Len(q) \in Nat /\ r \in Seq(Put) /\ Len(r) = Len(q) + 1 /\ r[Len(q) + 1] = p
        /\ \A i \in 1 .. Len(q) : r[i] = q[i]
    BY <2>2, <2>3, AppendProperties, LenProperties
  <2>5. r # <<>> /\ (q = <<>> <=> Len(q) = 0)
    BY <2>4, EmptySeq
  <2>6. Carries(q, r, old, new)
    BY <2>2, <2>4, <2>5 DEF Carries, Settles
  <2>7. ASSUME NEW b, NEW gone, PrunesAll(q, b, gone), Settles(q, b, old),
               by = "prune" => Prunes(old, new, gone)
        PROVE  PrunesAll(r, b, gone)
    <3>1. SUFFICES ASSUME NEW n \in 1 .. Len(r), r[n].by = "prune"
                   PROVE  Prunes(IF n = 1 THEN b ELSE r[n - 1].val, r[n].val, gone)
      BY DEF PrunesAll
    <3>2. CASE n \in 1 .. Len(q)
      <4>1. r[n] = q[n] /\ (n # 1 => r[n - 1] = q[n - 1])
        BY <2>4, <3>2
      <4> QED
        BY <2>7, <3>1, <3>2, <4>1 DEF PrunesAll
    <3>3. CASE n = Len(q) + 1
      <4>1. Prunes(old, new, gone) /\ r[n].val = new
        BY <2>2, <2>4, <2>7, <3>1, <3>3
      <4>2. CASE n = 1
        <5>1. b = old
          BY <2>4, <2>5, <2>7, <3>3, <4>2 DEF Settles
        <5> QED
          BY <4>1, <4>2, <5>1
      <4>3. CASE n # 1
        <5>1. q # <<>> /\ n - 1 = Len(q) /\ Len(q) \in 1 .. Len(q)
          BY <2>4, <2>5, <3>3, <4>3
        <5>2. r[n - 1].val = old
          BY <2>4, <2>7, <5>1 DEF Settles
        <5> QED
          BY <4>1, <4>3, <5>2
      <4> QED
        BY <4>2, <4>3
    <3> QED
      BY <2>4, <3>2, <3>3
  <2>8. CarriesPrunes(q, r, old, new, by)
    BY <2>7 DEF CarriesPrunes
  <2> QED
    BY <2>4, <2>6, <2>8
<1> QED
  BY <1>1, <1>2

\* The first PUT arrives.
LEMMA PutArrives ==
    ASSUME NEW q \in Seq(Put), 1 \in 1 .. Len(q), NEW b
    PROVE  /\ \A v : Settles(q, b, v) => Settles(Others(q, 1), q[1].val, v)
           /\ \A gone : PrunesAll(q, b, gone) =>
                  /\ PrunesAll(Others(q, 1), q[1].val, gone)
                  /\ q[1].by = "prune" => Prunes(b, q[1].val, gone)
<1>1. PICK r : r = Others(q, 1)
  OBVIOUS
<1>2. /\ Len(q) \in Nat /\ r \in Seq(Put) /\ Len(r) = Len(q) - 1 /\ q # <<>>
      /\ \A i \in 1 .. Len(r) : r[i] = q[i + 1]
  <2>1. /\ r \in Seq(Put) /\ Len(r) = Len(q) - 1 /\ Len(q) \in Nat
        /\ \A i \in 1 .. Len(q) - 1 : r[i] = q[IF i < 1 THEN i ELSE i + 1]
    BY <1>1, OthersIs, LenProperties
  <2>2. q # <<>>
    BY <2>1, EmptySeq
  <2> QED
    BY <2>1, <2>2
<1>3. r = <<>> <=> Len(q) = 1
  BY <1>2, EmptySeq
<1>4. ASSUME NEW v, Settles(q, b, v)
      PROVE  Settles(r, q[1].val, v)
  <2>1. q[Len(q)].val = v
    BY <1>2, <1>4 DEF Settles
  <2>2. CASE Len(q) = 1
    BY <1>3, <2>1, <2>2 DEF Settles
  <2>3. CASE Len(q) # 1
    <3>1. Len(r) \in 1 .. Len(r) /\ Len(r) + 1 = Len(q)
      BY <1>2, <2>3
    <3>2. r[Len(r)] = q[Len(q)]
      BY <1>2, <3>1
    <3> QED
      BY <1>3, <2>1, <2>3, <3>2 DEF Settles
  <2> QED
    BY <2>2, <2>3
<1>5. ASSUME NEW gone, PrunesAll(q, b, gone)
      PROVE  /\ PrunesAll(r, q[1].val, gone)
             /\ q[1].by = "prune" => Prunes(b, q[1].val, gone)
  <2>1. q[1].by = "prune" => Prunes(b, q[1].val, gone)
    BY <1>5 DEF PrunesAll
  <2>2. ASSUME NEW n \in 1 .. Len(r), r[n].by = "prune"
        PROVE  Prunes(IF n = 1 THEN q[1].val ELSE r[n - 1].val, r[n].val, gone)
    <3>1. n + 1 \in 1 .. Len(q) /\ n + 1 # 1 /\ (n + 1) - 1 = n /\ r[n] = q[n + 1]
      BY <1>2
    <3>2. Prunes(q[n].val, q[n + 1].val, gone)
      BY <1>5, <2>2, <3>1 DEF PrunesAll
    <3>3. n # 1 => r[n - 1] = q[n]
      BY <1>2
    <3> QED
      BY <3>1, <3>2, <3>3
  <2> QED
    BY <2>1, <2>2 DEF PrunesAll
<1> QED
  BY <1>1, <1>4, <1>5

\* The PUTs for pruning need no more than what is gone by and by.
LEMMA PrunesMore ==
    ASSUME NEW q, NEW b, NEW gone, NEW more, gone \subseteq more, PrunesAll(q, b, gone)
    PROVE  PrunesAll(q, b, more)
BY DEF PrunesAll, Prunes

-----------------------------------------------------------------------------
(* Type correctness                                                        *)

LEMMA TypedFacts ==
    ASSUME Typed
    PROVE  /\ Live \in SUBSET Lists /\ Deleted \in SUBSET Lists
           /\ NoPrefs \in Prefs /\ blob \in Prefs
           /\ \A t \in Tabs : /\ prefs[t] \in Prefs /\ seen[t] \in Prefs
                              /\ items[t] \in SUBSET Lists
                              /\ reads[t] \in Seq(Read) /\ answers[t] \in Seq(Answer)
                              /\ \A k \in Keys : puts[t][k] \in Seq(Put)
                              /\ asked[t] \in Asked
BY DEF Typed, TypeOK, Live, Deleted, NoPrefs, Prefs

\* The new preferences, and the PUTs for them.
LEMMA ChangedIs ==
    ASSUME Typed, NEW t \in Tabs, NEW new \in Prefs, NEW by \in {"user", "prune"},
           Changed(t, new, by)
    PROVE  /\ prefs' \in [Tabs -> Prefs] /\ prefs'[t] = new
           /\ puts' \in [Tabs -> [Keys -> Seq(Put)]]
           /\ \A k \in Keys : Sent(puts[t][k], puts'[t][k], prefs[t][k], new[k], by)
<1>1. prefs \in [Tabs -> Prefs] /\ puts \in [Tabs -> [Keys -> Seq(Put)]]
  BY DEF Typed, TypeOK
<1>2. PICK old \in Prefs : old = prefs[t]
  BY <1>1
<1>3. PICK q \in [Keys -> Seq(Put)] : q = puts[t]
  BY <1>1
<1>4. PICK r : r = [k \in Keys |-> IF new[k] = old[k] THEN q[k]
                                   ELSE Append(q[k], [val |-> new[k], by |-> by])]
  OBVIOUS
<1>5. puts' = [puts EXCEPT ![t] = r]
  BY <1>2, <1>3, <1>4 DEF Changed
<1>6. ASSUME NEW k \in Keys
      PROVE  r[k] \in Seq(Put) /\ Sent(q[k], r[k], old[k], new[k], by)
  <2>1. Sent(q[k], r[k], old[k], new[k], by)
    BY <1>4 DEF Sent
  <2>2. q[k] \in Seq(Put) /\ old[k] \in SUBSET Lists /\ new[k] \in SUBSET Lists
    BY DEF Prefs
  <2> QED
    BY <2>1, <2>2, SentEffect
<1>7. r \in [Keys -> Seq(Put)]
  BY <1>4, <1>6
<1>8. puts' \in [Tabs -> [Keys -> Seq(Put)]] /\ puts'[t] = r
  BY <1>1, <1>5, <1>7
<1>9. prefs' \in [Tabs -> Prefs] /\ prefs'[t] = new
  BY <1>1 DEF Changed
<1> QED
  BY <1>2, <1>3, <1>6, <1>8, <1>9

LEMMA KeptTypes ==
    ASSUME NEW old \in Prefs, NEW lists \in SUBSET Lists
    PROVE  Kept(old, lists) \in Prefs
BY DEF Kept, Prefs

\* setLists with its effect, or setCals.
LEMMA SetListsIs ==
    ASSUME Typed, NEW t \in Tabs, NEW lists \in SUBSET Lists, SetLists(t, lists)
    PROVE  /\ items' = [items EXCEPT ![t] = lists]
           /\ \E new \in Prefs :
                  /\ Changed(t, new, "prune")
                  /\ new = IF Calendars THEN prefs[t] ELSE Kept(prefs[t], lists)
<1>1. PICK new : new = IF Calendars THEN prefs[t] ELSE Kept(prefs[t], lists)
  OBVIOUS
<1>2. new \in Prefs
  BY <1>1, TypedFacts, KeptTypes
<1>3. Changed(t, new, "prune")
  BY <1>1 DEF SetLists, Changed
<1> QED
  BY <1>1, <1>2, <1>3 DEF SetLists

\* What the actions of a tab make of its preferences.
LEMMA ToggleIs ==
    ASSUME Typed, NEW t \in Tabs, NEW k \in Keys, NEW l \in Lists, Toggle(t, k, l)
    PROVE  \E new \in Prefs :
               /\ Changed(t, new, "user")
               /\ new[k] = (IF l \in prefs[t][k] THEN prefs[t][k] \ {l} ELSE prefs[t][k] \cup {l})
               /\ \A j \in Keys \ {k} : new[j] = prefs[t][j]
<1>1. PICK old \in Prefs : old = prefs[t]
  BY TypedFacts
<1>2. PICK new : new = [old EXCEPT ![k] = IF l \in @ THEN @ \ {l} ELSE @ \cup {l}]
  OBVIOUS
<1>3. /\ new \in Prefs
      /\ new[k] = (IF l \in old[k] THEN old[k] \ {l} ELSE old[k] \cup {l})
      /\ \A j \in Keys \ {k} : new[j] = old[j]
  BY <1>2 DEF Prefs
<1>4. Changed(t, new, "user")
  BY <1>1, <1>2 DEF Toggle, Changed
<1> QED
  BY <1>1, <1>3, <1>4

LEMMA ArchiveIs ==
    ASSUME Typed, NEW t \in Tabs, NEW l \in Lists, Archive(t, l)
    PROVE  \E new \in Prefs :
               /\ Changed(t, new, "user")
               /\ new["placed"] = prefs[t]["placed"] \cup {l}
               /\ new["hidden"] = prefs[t]["hidden"] \ {l}
<1>1. PICK old \in Prefs : old = prefs[t]
  BY TypedFacts
<1>2. PICK new : new = [old EXCEPT !["placed"] = @ \cup {l}, !["hidden"] = @ \ {l}]
  OBVIOUS
<1>3. /\ new \in Prefs
      /\ new["placed"] = old["placed"] \cup {l}
      /\ new["hidden"] = old["hidden"] \ {l}
  BY <1>2, KeysAre DEF Prefs
<1>4. Changed(t, new, "user")
  BY <1>1, <1>2 DEF Archive, Changed
<1> QED
  BY <1>1, <1>3, <1>4

LEMMA RestoreIs ==
    ASSUME Typed, NEW t \in Tabs, NEW l \in Lists, Restore(t, l)
    PROVE  \E new \in Prefs :
               /\ Changed(t, new, "user")
               /\ new["placed"] = prefs[t]["placed"] \ {l}
               /\ new["hidden"] = prefs[t]["hidden"]
<1>1. PICK old \in Prefs : old = prefs[t]
  BY TypedFacts
<1>2. PICK new : new = [old EXCEPT !["placed"] = @ \ {l}]
  OBVIOUS
<1>3. /\ new \in Prefs
      /\ new["placed"] = old["placed"] \ {l}
      /\ new["hidden"] = old["hidden"]
  BY <1>2, KeysAre DEF Prefs
<1>4. Changed(t, new, "user")
  BY <1>1, <1>2 DEF Restore, Changed
<1> QED
  BY <1>1, <1>3, <1>4

LEMMA RemoveIs ==
    ASSUME Typed, NEW t \in Tabs, NEW l \in Lists, Remove(t, l)
    PROVE  /\ items' = [items EXCEPT ![t] = items[t] \ {l}]
           /\ \E new \in Prefs :
                  /\ Changed(t, new, "prune")
                  /\ Calendars => new = prefs[t]
                  /\ ~ Calendars /\ items[t] \ {l} = {} =>
                         /\ new["placed"] = prefs[t]["placed"] \ {l}
                         /\ new["hidden"] = prefs[t]["hidden"]
                  /\ ~ Calendars /\ items[t] \ {l} # {} =>
                         \A k \in Keys : new[k] = prefs[t][k] \cap (items[t] \ {l})
<1>1. PICK old \in Prefs : old = prefs[t]
  BY TypedFacts
<1>2. PICK lists \in SUBSET Lists : lists = items[t] \ {l}
  BY TypedFacts
<1>3. PICK less : less = [old EXCEPT !["placed"] = @ \ {l}]
  OBVIOUS
<1>4. less \in Prefs /\ less["placed"] = old["placed"] \ {l} /\ less["hidden"] = old["hidden"]
  BY <1>3, KeysAre DEF Prefs
<1>5. PICK new : new = IF Calendars THEN old ELSE Kept(less, lists)
  OBVIOUS
<1>6. new \in Prefs
  BY <1>4, <1>5, KeptTypes
<1>7. items' = [items EXCEPT ![t] = items[t] \ {l}] /\ items'[t] = lists
  BY <1>2 DEF Remove, Typed, TypeOK
<1>8. Changed(t, new, "prune")
  BY <1>1, <1>3, <1>5, <1>7 DEF Remove, Changed
<1>9. ~ Calendars /\ lists = {} => new = less
  BY <1>5 DEF Kept
<1>10. ASSUME ~ Calendars, lists # {}
       PROVE  \A k \in Keys : new[k] = old[k] \cap lists
  <2>1. new = [k \in Keys |-> less[k] \cap lists]
    BY <1>5, <1>10 DEF Kept
  <2>2. l \notin lists
    BY <1>2
  <2>3. \A k \in Keys : less[k] \cap lists = old[k] \cap lists
    BY <1>4, <2>2, KeysAre
  <2> QED
    BY <2>1, <2>3
<1> QED
  BY <1>1, <1>2, <1>4, <1>5, <1>6, <1>7, <1>8, <1>9, <1>10

\* The read that is applied.
LEMMA LandReadIs ==
    ASSUME Typed, NEW t \in Tabs, LandRead(t)
    PROVE  \E n \in 1 .. Len(answers[t]) : \E r \in Answer : \E new \in Prefs :
               /\ r = answers[t][n] /\ r \in Elems(answers[t])
               /\ answers' = [answers EXCEPT ![t] = Others(answers[t], n)]
               /\ answers' \in [Tabs -> Seq(Answer)]
               /\ Overtakes("lists", n)
               /\ items' = [items EXCEPT ![t] = IF Calendars /\ ~ r.here THEN items[t] ELSE r.got]
               /\ Changed(t, new, "prune")
               /\ Calendars =>
                      /\ \A k \in Keys : new[k] = IF k \in ToPrune(r) THEN r.prefs[k] \cap r.got
                                                  ELSE prefs[t][k]
                      /\ undone' = (undone \/ \E k \in ToPrune(r) : r.prefs[k] # prefs[t][k])
               /\ ~ Calendars => new = Kept(prefs[t], r.got) /\ undone' = undone
<1>1. PICK n \in 1 .. Len(answers[t]) : LET r == answers[t][n] IN
          /\ answers' = [answers EXCEPT ![t] = Others(@, n)]
          /\ Overtakes("lists", n)
          /\ IF Calendars
             THEN /\ items' = [items EXCEPT ![t] = IF r.here THEN r.got ELSE @]
                  /\ Changed(t, [k \in Keys |-> IF k \in ToPrune(r) THEN r.prefs[k] \cap r.got
                                                ELSE prefs[t][k]], "prune")
                  /\ undone' = (undone \/ \E k \in ToPrune(r) : r.prefs[k] # prefs[t][k])
             ELSE SetLists(t, r.got) /\ UNCHANGED undone
          /\ UNCHANGED <<scene, life, blob, loading, reads, asked>>
  BY DEF LandRead
<1>2. PICK q \in Seq(Answer) : q = answers[t]
  BY TypedFacts
<1>3. PICK r \in Answer : r = answers[t][n]
  BY <1>1, <1>2, ElementOfSeq
<1>4. r.got \in SUBSET Lists /\ r.prefs \in Prefs
  BY DEF Answer
<1>5. Others(q, n) \in Seq(Answer)
  BY <1>1, <1>2, ElemsOthers
<1>6. answers' = [answers EXCEPT ![t] = Others(answers[t], n)] /\ answers' \in [Tabs -> Seq(Answer)]
  BY <1>1, <1>2, <1>5 DEF Typed, TypeOK
<1>7. r \in Elems(answers[t])
  BY <1>1, <1>3 DEF Elems
<1>8. CASE Calendars
  <2>1. PICK new : new = [k \in Keys |-> IF k \in ToPrune(r) THEN r.prefs[k] \cap r.got
                                         ELSE prefs[t][k]]
    OBVIOUS
  <2>2. new \in Prefs
    BY <1>4, <2>1, TypedFacts DEF Prefs
  <2>3. /\ items' = [items EXCEPT ![t] = IF Calendars /\ ~ r.here THEN items[t] ELSE r.got]
        /\ undone' = (undone \/ \E k \in ToPrune(r) : r.prefs[k] # prefs[t][k])
    BY <1>1, <1>3, <1>8
  <2>4. Changed(t, new, "prune")
    BY <1>1, <1>3, <1>8, <2>1 DEF Changed
  <2>5. \A k \in Keys : new[k] = IF k \in ToPrune(r) THEN r.prefs[k] \cap r.got ELSE prefs[t][k]
    BY <2>1
  <2> QED
    BY <1>1, <1>3, <1>6, <1>7, <1>8, <2>2, <2>3, <2>4, <2>5
<1>9. CASE ~ Calendars
  <2>1. PICK new : new = Kept(prefs[t], r.got)
    OBVIOUS
  <2>2. new \in Prefs
    BY <1>4, <2>1, TypedFacts, KeptTypes
  <2>3. items' = [items EXCEPT ![t] = r.got] /\ undone' = undone
    BY <1>1, <1>3, <1>9 DEF SetLists
  <2>4. Changed(t, new, "prune")
    BY <1>1, <1>3, <1>9, <2>1 DEF SetLists, Changed
  <2> QED
    BY <1>1, <1>3, <1>6, <1>7, <1>9, <2>1, <2>2, <2>3, <2>4
<1> QED
  BY <1>8, <1>9

LEMMA NewReadIs ==
    ASSUME Typed, NEW t \in Tabs
    PROVE  /\ NewRead(t) \in Read
           /\ \A k \in Keys : NewRead(t).prefs[k] \subseteq prefs[t][k]
           /\ prefs[t] = NoPrefs => NewRead(t).prefs = NoPrefs
<1>1. PICK p : p = IF Calendars THEN prefs[t] ELSE NoPrefs
  OBVIOUS
<1>2. p \in Prefs /\ \A k \in Keys : p[k] \subseteq prefs[t][k]
  BY <1>1, TypedFacts DEF NoPrefs
<1>3. NewRead(t) = [prefs |-> p, here |-> TRUE]
  BY <1>1 DEF NewRead
<1> QED
  BY <1>1, <1>2, <1>3 DEF Read

\* The reads under way once another one has been sent, from the view or a new one.
LEMMA ReopenIs ==
    ASSUME Typed, NEW t \in Tabs, Reopen(t)
    PROVE  /\ reads' \in [Tabs -> Seq(Read)] /\ answers' \in [Tabs -> Seq(Answer)]
           /\ \A x \in Elems(reads'[t]) :
                  x = NewRead(t) \/ \E y \in Elems(reads[t]) : x.prefs = y.prefs
           /\ \A x \in Elems(answers'[t]) :
                  \E y \in Elems(answers[t]) : x.prefs = y.prefs /\ x.got = y.got
           /\ ~ Calendars => answers'[t] = <<>>
<1>1. /\ reads \in [Tabs -> Seq(Read)] /\ answers \in [Tabs -> Seq(Answer)]
      /\ reads[t] \in Seq(Read) /\ answers[t] \in Seq(Answer)
  BY DEF Typed, TypeOK
<1>2. PICK e \in Read : e = NewRead(t)
  BY NewReadIs
<1>3. CASE Calendars
  <2>1. PICK q : q = Left(reads[t])
    OBVIOUS
  <2>2. PICK a : a = Left(answers[t])
    OBVIOUS
  <2>3. q \in Seq(Read) /\ \A x \in Elems(q) : \E y \in Elems(reads[t]) : x = [y EXCEPT !.here = FALSE]
    BY <1>1, <2>1, ElemsLeft
  <2>4. a \in Seq(Answer) /\ \A x \in Elems(a) : \E y \in Elems(answers[t]) : x = [y EXCEPT !.here = FALSE]
    BY <1>1, <2>2, ElemsLeft
  <2>5. PICK r : r = Append(q, e)
    OBVIOUS
  <2>6. r \in Seq(Read) /\ \A x \in Elems(r) : x = e \/ x \in Elems(q)
    BY <2>3, <2>5, ElemsAppend
  <2>7. reads' = [reads EXCEPT ![t] = r] /\ answers' = [answers EXCEPT ![t] = a]
    BY <1>2, <1>3, <2>1, <2>2, <2>5 DEF Reopen
  <2>8. /\ reads' \in [Tabs -> Seq(Read)] /\ answers' \in [Tabs -> Seq(Answer)]
        /\ reads'[t] = r /\ answers'[t] = a
    BY <1>1, <2>4, <2>6, <2>7
  <2>9. ASSUME NEW x \in Elems(q)
        PROVE  \E y \in Elems(reads[t]) : x.prefs = y.prefs
    <3>1. PICK y \in Elems(reads[t]) : x = [y EXCEPT !.here = FALSE]
      BY <2>3
    <3>2. y \in Read
      BY <1>1, ElemsTyped
    <3> QED
      BY <3>1, <3>2 DEF Read
  <2>10. ASSUME NEW x \in Elems(a)
         PROVE  \E y \in Elems(answers[t]) : x.prefs = y.prefs /\ x.got = y.got
    <3>1. PICK y \in Elems(answers[t]) : x = [y EXCEPT !.here = FALSE]
      BY <2>4
    <3>2. y \in Answer
      BY <1>1, ElemsTyped
    <3> QED
      BY <3>1, <3>2 DEF Answer
  <2> QED
    BY <1>2, <1>3, <2>6, <2>8, <2>9, <2>10
<1>4. CASE ~ Calendars
  <2>1. reads' = [reads EXCEPT ![t] = <<e>>] /\ answers' = [answers EXCEPT ![t] = <<>>]
    BY <1>2, <1>4 DEF Reopen
  <2>2. <<e>> \in Seq(Read) /\ \A x \in Elems(<<e>>) : x = e
    BY ElemsOne
  <2>3. /\ reads' \in [Tabs -> Seq(Read)] /\ answers' \in [Tabs -> Seq(Answer)]
        /\ reads'[t] = <<e>> /\ answers'[t] = <<>>
    BY <1>1, <2>1, <2>2
  <2>4. Elems(<<>>) = {}
    BY DEF Elems
  <2> QED
    BY <1>2, <2>2, <2>3, <2>4
<1> QED
  BY <1>3, <1>4

LEMMA RefetchIs ==
    ASSUME Typed, NEW t \in Tabs, Refetch(t)
    PROVE  /\ reads' \in [Tabs -> Seq(Read)]
           /\ \A x \in Elems(reads'[t]) : x = NewRead(t) \/ x \in Elems(reads[t])
<1>1. reads \in [Tabs -> Seq(Read)] /\ reads[t] \in Seq(Read)
  BY DEF Typed, TypeOK
<1>2. PICK e \in Read : e = NewRead(t)
  BY NewReadIs
<1>3. PICK r : r = Append(reads[t], e)
  OBVIOUS
<1>4. r \in Seq(Read) /\ \A x \in Elems(r) : x = e \/ x \in Elems(reads[t])
  BY <1>1, <1>3, ElemsAppend
<1>5. reads' = [reads EXCEPT ![t] = r]
  BY <1>2, <1>3 DEF Refetch
<1> QED
  BY <1>1, <1>2, <1>4, <1>5

\* One of the reads is answered.
LEMMA ServeReadIs ==
    ASSUME Typed, NEW t \in Tabs, ServeRead(t)
    PROVE  \E r \in Elems(reads[t]) : \E a \in Answer :
               /\ a.prefs = r.prefs /\ a.got = Live
               /\ reads' \in [Tabs -> Seq(Read)] /\ answers' \in [Tabs -> Seq(Answer)]
               /\ Elems(reads'[t]) \subseteq Elems(reads[t])
               /\ answers' = [answers EXCEPT ![t] = Append(answers[t], a)]
<1>1. PICK n \in 1 .. Len(reads[t]) :
          /\ reads' = [reads EXCEPT ![t] = Others(@, n)]
          /\ answers' = [answers EXCEPT ![t] = Append(@,
                 [prefs |-> reads[t][n].prefs, here |-> reads[t][n].here, got |-> Live])]
  BY DEF ServeRead
<1>2. /\ reads \in [Tabs -> Seq(Read)] /\ answers \in [Tabs -> Seq(Answer)]
      /\ reads[t] \in Seq(Read) /\ answers[t] \in Seq(Answer)
  BY DEF Typed, TypeOK
<1>3. PICK r \in Read : r = reads[t][n]
  BY <1>1, <1>2, ElementOfSeq
<1>4. PICK a : a = [prefs |-> r.prefs, here |-> r.here, got |-> Live]
  OBVIOUS
<1>5. a \in Answer /\ a.prefs = r.prefs /\ a.got = Live
  BY <1>3, <1>4, TypedFacts DEF Read, Answer
<1>6. PICK q : q = Others(reads[t], n)
  OBVIOUS
<1>7. q \in Seq(Read) /\ Elems(q) \subseteq Elems(reads[t])
  BY <1>1, <1>2, <1>6, ElemsOthers
<1>8. Append(answers[t], a) \in Seq(Answer)
  BY <1>2, <1>5, ElemsAppend
<1>9. reads' = [reads EXCEPT ![t] = q] /\ answers' = [answers EXCEPT ![t] = Append(answers[t], a)]
  BY <1>1, <1>3, <1>4, <1>6
<1>10. r \in Elems(reads[t])
  BY <1>1, <1>3 DEF Elems
<1> QED
  BY <1>2, <1>5, <1>7, <1>8, <1>9, <1>10

\* A read is lost.
LEMMA LoseReadIs ==
    ASSUME Typed, NEW t \in Tabs, LoseRead(t)
    PROVE  /\ reads' \in [Tabs -> Seq(Read)] /\ answers' \in [Tabs -> Seq(Answer)]
           /\ Elems(reads'[t]) \subseteq Elems(reads[t])
           /\ Elems(answers'[t]) \subseteq Elems(answers[t])
<1>1. /\ reads \in [Tabs -> Seq(Read)] /\ answers \in [Tabs -> Seq(Answer)]
      /\ reads[t] \in Seq(Read) /\ answers[t] \in Seq(Answer)
  BY DEF Typed, TypeOK
<1>2. CASE /\ \E n \in 1 .. Len(reads[t]) : reads' = [reads EXCEPT ![t] = Others(@, n)]
           /\ UNCHANGED answers
  <2>1. PICK n \in 1 .. Len(reads[t]) : reads' = [reads EXCEPT ![t] = Others(@, n)]
    BY <1>2
  <2>2. PICK q : q = Others(reads[t], n) /\ reads' = [reads EXCEPT ![t] = q]
    BY <2>1
  <2>3. q \in Seq(Read) /\ Elems(q) \subseteq Elems(reads[t])
    BY <1>1, <2>2, ElemsOthers
  <2> QED
    BY <1>1, <1>2, <2>2, <2>3
<1>3. CASE /\ \E n \in 1 .. Len(answers[t]) : answers' = [answers EXCEPT ![t] = Others(@, n)]
           /\ UNCHANGED reads
  <2>1. PICK n \in 1 .. Len(answers[t]) : answers' = [answers EXCEPT ![t] = Others(@, n)]
    BY <1>3
  <2>2. PICK q : q = Others(answers[t], n) /\ answers' = [answers EXCEPT ![t] = q]
    BY <2>1
  <2>3. q \in Seq(Answer) /\ Elems(q) \subseteq Elems(answers[t])
    BY <1>1, <2>2, ElemsOthers
  <2> QED
    BY <1>1, <1>3, <2>2, <2>3
<1> QED
  BY <1>2, <1>3 DEF LoseRead

\* One of the PUTs arrives.
LEMMA ServePutIs ==
    ASSUME Typed, NEW t \in Tabs, NEW k \in Keys, ServePut(t, k)
    PROVE  \E n \in 1 .. Len(puts[t][k]) : \E r \in Seq(Put) : \E b \in Prefs :
               /\ r = Others(puts[t][k], n) /\ Overtakes(k, n)
               /\ blob' = b /\ b[k] = puts[t][k][n].val
               /\ \A j \in Keys \ {k} : b[j] = blob[j]
               /\ puts' \in [Tabs -> [Keys -> Seq(Put)]]
               /\ puts'[t][k] = r /\ \A j \in Keys \ {k} : puts'[t][j] = puts[t][j]
<1>1. PICK n \in 1 .. Len(puts[t][k]) :
          /\ blob' = Updated(k, puts[t][k][n].val)
          /\ puts' = [puts EXCEPT ![t][k] = Others(@, n)]
          /\ Overtakes(k, n)
  BY DEF ServePut
<1>2. puts \in [Tabs -> [Keys -> Seq(Put)]] /\ puts[t][k] \in Seq(Put) /\ blob \in Prefs
  BY DEF Typed, TypeOK
<1>3. PICK p \in Put : p = puts[t][k][n]
  BY <1>1, <1>2, ElementOfSeq
<1>4. PICK r : r = Others(puts[t][k], n)
  OBVIOUS
<1>5. r \in Seq(Put)
  BY <1>1, <1>2, <1>4, ElemsOthers
<1>6. PICK b : b = [blob EXCEPT ![k] = p.val]
  OBVIOUS
<1>7. b \in Prefs /\ b[k] = p.val /\ \A j \in Keys \ {k} : b[j] = blob[j]
  BY <1>2, <1>3, <1>6 DEF Put, Prefs
<1>8. puts' = [puts EXCEPT ![t][k] = r]
  BY <1>1, <1>4
<1>9. /\ puts' \in [Tabs -> [Keys -> Seq(Put)]]
      /\ puts'[t][k] = r /\ \A j \in Keys \ {k} : puts'[t][j] = puts[t][j]
  BY <1>2, <1>5, <1>8
<1>10. blob' = b
  BY <1>1, <1>3, <1>6 DEF Updated
<1> QED
  BY <1>1, <1>3, <1>4, <1>5, <1>7, <1>9, <1>10

\* One of them is lost.
LEMMA LosePutIs ==
    ASSUME Typed, NEW t \in Tabs, NEW k \in Keys, LosePut(t, k)
    PROVE  /\ puts' \in [Tabs -> [Keys -> Seq(Put)]]
           /\ \A j \in Keys \ {k} : puts'[t][j] = puts[t][j]
<1>1. PICK n \in 1 .. Len(puts[t][k]) : puts' = [puts EXCEPT ![t][k] = Others(@, n)]
  BY DEF LosePut
<1>2. PICK r : r = Others(puts[t][k], n) /\ puts' = [puts EXCEPT ![t][k] = r]
  BY <1>1
<1>3. puts \in [Tabs -> [Keys -> Seq(Put)]] /\ puts[t][k] \in Seq(Put)
  BY DEF Typed, TypeOK
<1>4. r \in Seq(Put)
  BY <1>1, <1>2, <1>3, ElemsOthers
<1> QED
  BY <1>1, <1>2, <1>3, <1>4

\* What the rest of an action leaves typed.
LEMMA TypedIs ==
    ASSUME Typed, scene' = scene, life' \in [Lists -> {"unborn", "live", "deleted"}], blob' \in Prefs,
           phase' \in [Tabs -> {"loading", "read", "ready"}], seen' \in [Tabs -> Prefs],
           undone' \in BOOLEAN, items' \in [Tabs -> SUBSET Lists], prefs' \in [Tabs -> Prefs],
           reads' \in [Tabs -> Seq(Read)], answers' \in [Tabs -> Seq(Answer)],
           puts' \in [Tabs -> [Keys -> Seq(Put)]], astray' \subseteq Keys \cup {"lists"}, asked' \in [Tabs -> Asked],
           \A t \in Tabs : asked'[t].what = "remove" \/ asked'[t].served => asked'[t].list \in Lists
    PROVE  Typed'
BY DEF Typed, TypeOK, Named

LEMMA TypedStep ==
    ASSUME Typed, [Next]_vars
    PROVE  Typed'
<1> USE DEF loading, tab, asking, history
<1>1. /\ life \in [Lists -> {"unborn", "live", "deleted"}] /\ blob \in Prefs
      /\ phase \in [Tabs -> {"loading", "read", "ready"}] /\ seen \in [Tabs -> Prefs]
      /\ undone \in BOOLEAN /\ items \in [Tabs -> SUBSET Lists] /\ prefs \in [Tabs -> Prefs]
      /\ reads \in [Tabs -> Seq(Read)] /\ answers \in [Tabs -> Seq(Answer)]
      /\ puts \in [Tabs -> [Keys -> Seq(Put)]] /\ astray \subseteq Keys \cup {"lists"} /\ asked \in [Tabs -> Asked]
      /\ \A t \in Tabs : asked[t].what = "remove" \/ asked[t].served => asked[t].list \in Lists
  BY DEF Typed, TypeOK, Named
<1>2. /\ Nothing \in Asked /\ Nothing.what # "remove" /\ ~ Nothing.served
      /\ Live \in SUBSET Lists
  BY TypedFacts DEF Nothing, Asked
<1>3. ASSUME NEW l \in Lists, ForeignChange(l)
      PROVE  Typed'
  <2>1. life' \in [Lists -> {"unborn", "live", "deleted"}]
    BY <1>1, <1>3 DEF ForeignChange
  <2> QED
    BY <1>1, <1>3, <2>1, TypedIs DEF ForeignChange
<1> SUFFICES ASSUME NEW t \in Tabs,
                    \/ Load(t) \/ Reopen(t) \/ Refetch(t) \/ ServeRead(t) \/ LandRead(t)
                    \/ LoseRead(t) \/ \E k \in Keys : ServePut(t, k) \/ LosePut(t, k)
                    \/ Asking(t) \/ RemoveFails(t)
                    \/ Create(t)
                    \/ \E l \in Lists : Remove(t, l) \/ Archive(t, l) \/ Restore(t, l)
                                        \/ \E k \in Keys : Toggle(t, k, l)
             PROVE  Typed'
  <2>1. CASE UNCHANGED vars
    BY <1>1, <2>1, TypedIs DEF vars
  <2> QED
    BY <1>3, <2>1 DEF Next
<1>4. /\ prefs[t] \in Prefs /\ seen[t] \in Prefs /\ items[t] \in SUBSET Lists
      /\ asked[t] \in Asked /\ NoPrefs \in Prefs
  BY <1>1, TypedFacts
<1>5. CASE ReadSettings(t)
  <2>1. seen' \in [Tabs -> Prefs] /\ phase' \in [Tabs -> {"loading", "read", "ready"}]
    BY <1>1, <1>5 DEF ReadSettings
  <2> QED
    BY <1>1, <1>5, <2>1, TypedIs DEF ReadSettings
<1>6. CASE LandSettings(t)
  <2>1. /\ seen' \in [Tabs -> Prefs] /\ phase' \in [Tabs -> {"loading", "read", "ready"}]
        /\ prefs' \in [Tabs -> Prefs]
    BY <1>1, <1>4, <1>6 DEF LandSettings
  <2> QED
    BY <1>1, <1>6, <2>1, TypedIs DEF LandSettings
<1>7. CASE Reopen(t)
  <2>1. {} \in SUBSET Lists /\ SetLists(t, {})
    BY <1>7 DEF Reopen
  <2>2. items' = [items EXCEPT ![t] = {}] /\ \E new \in Prefs : Changed(t, new, "prune")
    BY <2>1, SetListsIs
  <2>3. prefs' \in [Tabs -> Prefs] /\ puts' \in [Tabs -> [Keys -> Seq(Put)]]
    BY <2>2, ChangedIs
  <2>4. reads' \in [Tabs -> Seq(Read)] /\ answers' \in [Tabs -> Seq(Answer)]
    BY <1>7, ReopenIs
  <2>5. items' \in [Tabs -> SUBSET Lists]
    BY <1>1, <2>2
  <2> QED
    BY <1>1, <1>7, <2>3, <2>4, <2>5, TypedIs DEF Reopen
<1>8. CASE Refetch(t)
  BY <1>1, <1>8, RefetchIs, TypedIs DEF Refetch
<1>9. CASE ServeRead(t)
  <2>1. reads' \in [Tabs -> Seq(Read)] /\ answers' \in [Tabs -> Seq(Answer)]
    BY <1>9, ServeReadIs
  <2> QED
    BY <1>1, <1>9, <2>1, TypedIs DEF ServeRead
<1>10. CASE LandRead(t)
  <2>1. PICK n \in 1 .. Len(answers[t]), r \in Answer, new \in Prefs :
            /\ answers' \in [Tabs -> Seq(Answer)] /\ Overtakes("lists", n)
            /\ items' = [items EXCEPT ![t] = IF Calendars /\ ~ r.here THEN items[t] ELSE r.got]
            /\ Changed(t, new, "prune")
    BY <1>10, LandReadIs
  <2>2. prefs' \in [Tabs -> Prefs] /\ puts' \in [Tabs -> [Keys -> Seq(Put)]]
    BY <2>1, ChangedIs
  <2>3. undone' \in BOOLEAN
    BY <1>1, <1>10 DEF LandRead
  <2>4. astray' \subseteq Keys \cup {"lists"}
    BY <1>1, <2>1 DEF Overtakes
  <2>5. items' \in [Tabs -> SUBSET Lists]
    BY <1>1, <2>1 DEF Answer
  <2>6. UNCHANGED <<scene, life, blob, loading, reads, asked>>
    BY <1>10 DEF LandRead
  <2> QED
    BY <1>1, <2>1, <2>2, <2>3, <2>4, <2>5, <2>6, TypedIs
<1>23. CASE LoseRead(t)
  BY <1>1, <1>23, LoseReadIs, TypedIs DEF LoseRead
<1>11. ASSUME NEW k \in Keys, ServePut(t, k)
       PROVE  Typed'
  <2>1. PICK n \in 1 .. Len(puts[t][k]) :
            Overtakes(k, n) /\ blob' \in Prefs /\ puts' \in [Tabs -> [Keys -> Seq(Put)]]
    BY <1>11, ServePutIs
  <2>2. astray' \subseteq Keys \cup {"lists"}
    BY <1>1, <2>1 DEF Overtakes
  <2> QED
    BY <1>1, <1>11, <2>1, <2>2, TypedIs DEF ServePut
<1>12. ASSUME NEW k \in Keys, LosePut(t, k)
       PROVE  Typed'
  <2>1. puts' \in [Tabs -> [Keys -> Seq(Put)]]
    BY <1>12, LosePutIs
  <2>2. astray' \subseteq Keys \cup {"lists"}
    BY <1>1, <1>12 DEF LosePut
  <2> QED
    BY <1>1, <1>12, <2>1, <2>2, TypedIs DEF LosePut
<1>13. CASE ServeRemove(t)
  <2>1. life' \in [Lists -> {"unborn", "live", "deleted"}]
    BY <1>1, <1>13 DEF ServeRemove
  <2>2. PICK e : e = [asked[t] EXCEPT !.served = TRUE]
    OBVIOUS
  <2>3. e \in Asked /\ e.list = asked[t].list
    BY <1>4, <2>2 DEF Asked
  <2>4. asked' = [asked EXCEPT ![t] = e]
    BY <1>13, <2>2 DEF ServeRemove
  <2>5. /\ asked' \in [Tabs -> Asked]
        /\ \A u \in Tabs : asked'[u].what = "remove" \/ asked'[u].served => asked'[u].list \in Lists
    BY <1>1, <1>13, <2>3, <2>4 DEF ServeRemove
  <2> QED
    BY <1>1, <1>13, <2>1, <2>5, TypedIs DEF ServeRemove
<1>14. CASE Removed(t)
  <2>1. /\ asked' \in [Tabs -> Asked]
        /\ \A u \in Tabs : asked'[u].what = "remove" \/ asked'[u].served => asked'[u].list \in Lists
    BY <1>1, <1>2, <1>14 DEF Removed
  <2> QED
    BY <1>1, <1>14, <2>1, TypedIs DEF Removed
<1>15. CASE ServeCreate(t)
  <2>1. PICK l \in Lists : /\ life' = [life EXCEPT ![l] = "live"]
                           /\ asked' = [asked EXCEPT ![t].list = l, ![t].served = TRUE]
    BY <1>15 DEF ServeCreate
  <2>2. PICK e : e = [asked[t] EXCEPT !.list = l, !.served = TRUE]
    OBVIOUS
  <2>3. e \in Asked /\ e.list = l
    BY <1>4, <2>2 DEF Asked
  <2>4. asked' = [asked EXCEPT ![t] = e]
    BY <1>1, <2>1, <2>2
  <2>5. /\ asked' \in [Tabs -> Asked]
        /\ \A u \in Tabs : asked'[u].what = "remove" \/ asked'[u].served => asked'[u].list \in Lists
    BY <1>1, <2>3, <2>4
  <2>6. life' \in [Lists -> {"unborn", "live", "deleted"}]
    BY <1>1, <2>1
  <2> QED
    BY <1>1, <1>15, <2>5, <2>6, TypedIs DEF ServeCreate
<1>16. CASE Created(t)
  <2>1. asked[t].prev \cup {asked[t].list} \in SUBSET Lists
    BY <1>1, <1>4, <1>16 DEF Created, Asked
  <2>2. PICK lists \in SUBSET Lists : lists = asked[t].prev \cup {asked[t].list}
    BY <2>1
  <2>3. SetLists(t, lists)
    BY <1>16, <2>2 DEF Created, SetLists, Changed
  <2>4. items' = [items EXCEPT ![t] = lists] /\ \E new \in Prefs : Changed(t, new, "prune")
    BY <2>3, SetListsIs
  <2>5. prefs' \in [Tabs -> Prefs] /\ puts' \in [Tabs -> [Keys -> Seq(Put)]]
    BY <2>4, ChangedIs
  <2>6. /\ asked' \in [Tabs -> Asked]
        /\ \A u \in Tabs : asked'[u].what = "remove" \/ asked'[u].served => asked'[u].list \in Lists
    BY <1>1, <1>2, <1>16 DEF Created
  <2>7. items' \in [Tabs -> SUBSET Lists]
    BY <1>1, <2>4
  <2> QED
    BY <1>1, <1>16, <2>5, <2>6, <2>7, TypedIs DEF Created
<1>17. CASE RemoveFails(t)
  <2>1. PICK lists \in SUBSET Lists : lists = asked[t].prev
    BY <1>4 DEF Asked
  <2>2. SetLists(t, lists)
    BY <1>17, <2>1 DEF RemoveFails, SetLists, Changed
  <2>3. items' = [items EXCEPT ![t] = lists] /\ \E new \in Prefs : Changed(t, new, "prune")
    BY <2>2, SetListsIs
  <2>4. prefs' \in [Tabs -> Prefs] /\ puts' \in [Tabs -> [Keys -> Seq(Put)]]
    BY <2>3, ChangedIs
  <2>5. /\ asked' \in [Tabs -> Asked]
        /\ \A u \in Tabs : asked'[u].what = "remove" \/ asked'[u].served => asked'[u].list \in Lists
    BY <1>1, <1>2, <1>17 DEF RemoveFails
  <2>6. items' \in [Tabs -> SUBSET Lists]
    BY <1>1, <2>3
  <2> QED
    BY <1>1, <1>17, <2>4, <2>5, <2>6, TypedIs DEF RemoveFails
<1>18. CASE Create(t)
  <2>1. PICK e : e = [Nothing EXCEPT !.what = "create", !.prev = items[t]]
    OBVIOUS
  <2>2. e \in Asked /\ e.what = "create" /\ ~ e.served
    BY <1>4, <2>1 DEF Asked, Nothing
  <2>3. asked' = [asked EXCEPT ![t] = e]
    BY <1>18, <2>1 DEF Create
  <2>4. /\ asked' \in [Tabs -> Asked]
        /\ \A u \in Tabs : asked'[u].what = "remove" \/ asked'[u].served => asked'[u].list \in Lists
    BY <1>1, <2>2, <2>3
  <2> QED
    BY <1>1, <1>18, <2>4, TypedIs DEF Create
<1>19. ASSUME NEW l \in Lists, Remove(t, l)
       PROVE  Typed'
  <2>1. /\ items' = [items EXCEPT ![t] = items[t] \ {l}]
        /\ \E new \in Prefs : Changed(t, new, "prune")
    BY <1>19, RemoveIs
  <2>2. prefs' \in [Tabs -> Prefs] /\ puts' \in [Tabs -> [Keys -> Seq(Put)]]
    BY <2>1, ChangedIs
  <2>3. PICK e : e = [what |-> "remove", list |-> l, prev |-> items[t], served |-> FALSE]
    OBVIOUS
  <2>4. e \in Asked /\ e.list = l
    BY <1>4, <2>3 DEF Asked
  <2>5. asked' = [asked EXCEPT ![t] = e]
    BY <1>19, <2>3 DEF Remove
  <2>6. /\ asked' \in [Tabs -> Asked]
        /\ \A u \in Tabs : asked'[u].what = "remove" \/ asked'[u].served => asked'[u].list \in Lists
    BY <1>1, <2>4, <2>5
  <2>7. items' \in [Tabs -> SUBSET Lists]
    BY <1>1, <1>4, <2>1
  <2> QED
    BY <1>1, <1>19, <2>2, <2>6, <2>7, TypedIs DEF Remove
<1>20. ASSUME NEW l \in Lists, Archive(t, l)
       PROVE  Typed'
  <2>1. prefs' \in [Tabs -> Prefs] /\ puts' \in [Tabs -> [Keys -> Seq(Put)]]
    BY <1>20, ArchiveIs, ChangedIs
  <2> QED
    BY <1>1, <1>20, <2>1, TypedIs DEF Archive
<1>21. ASSUME NEW l \in Lists, Restore(t, l)
       PROVE  Typed'
  <2>1. prefs' \in [Tabs -> Prefs] /\ puts' \in [Tabs -> [Keys -> Seq(Put)]]
    BY <1>21, RestoreIs, ChangedIs
  <2> QED
    BY <1>1, <1>21, <2>1, TypedIs DEF Restore
<1>22. ASSUME NEW l \in Lists, NEW k \in Keys, Toggle(t, k, l)
       PROVE  Typed'
  <2>1. prefs' \in [Tabs -> Prefs] /\ puts' \in [Tabs -> [Keys -> Seq(Put)]]
    BY <1>22, ToggleIs, ChangedIs
  <2> QED
    BY <1>1, <1>22, <2>1, TypedIs DEF Toggle
<1> QED
  BY <1>5, <1>6, <1>7, <1>8, <1>9, <1>10, <1>11, <1>12, <1>13, <1>14, <1>15, <1>16, <1>17, <1>18,
     <1>19, <1>20, <1>21, <1>22, <1>23 DEF Load, Asking


LEMMA TypedInit == Init => Typed
<1> SUFFICES ASSUME Init PROVE Typed
  OBVIOUS
<1>1. NoPrefs \in Prefs /\ Nothing \in Asked /\ Nothing.what # "remove" /\ ~ Nothing.served
  BY DEF NoPrefs, Prefs, Nothing, Asked
<1>2. ASSUME NEW t \in Tabs
      PROVE  <<NewRead(t)>> \in Seq(Read)
  <2>1. prefs[t] = NoPrefs
    BY DEF Init
  <2>2. NewRead(t) = [prefs |-> NoPrefs, here |-> TRUE]
    BY <2>1 DEF NewRead
  <2>3. NewRead(t) \in Read
    BY <1>1, <2>2 DEF Read
  <2> QED
    BY <2>3, ElemsOne
<1>3. reads \in [Tabs -> Seq(Read)] /\ answers \in [Tabs -> Seq(Answer)]
  BY <1>2 DEF Init
<1>4. puts \in [Tabs -> [Keys -> Seq(Put)]]
  BY DEF Init, NoPuts
<1> QED
  BY <1>1, <1>3, <1>4 DEF Init, Typed, TypeOK, Named

\* The settings are sets of lists, whatever is toggled, archived, pruned and lost
\* in which order; what is under way are reads, answers to them, and PUTs of the
\* two keys.
THEOREM TypeCorrect == Spec => []TypeOK
<1>1. Init => Typed
  BY TypedInit
<1>2. Typed /\ [Next]_vars => Typed'
  BY TypedStep
<1>3. Typed => TypeOK
  BY DEF Typed
<1> QED
  BY <1>1, <1>2, <1>3, PTL DEF Spec

-----------------------------------------------------------------------------
(* A single tab: what it shows is what the account keeps                   *)

\* The reads of a tab that has not got its settings.
Quiet(t) == \A r \in Elems(reads[t]) \cup Elems(answers[t]) : r.prefs = NoPrefs

LEMMA QuietStep ==
    ASSUME Typed, NEW t \in Tabs, NotReady(t), ~ Ready(t),
           \/ Reopen(t) \/ Refetch(t) \/ ServeRead(t) \/ LandRead(t) \/ LoseRead(t)
           \/ UNCHANGED asking
    PROVE  Quiet(t)'
<1> USE DEF asking
<1>1. /\ prefs[t] = NoPrefs /\ answers \in [Tabs -> Seq(Answer)] /\ answers[t] \in Seq(Answer)
      /\ \A r \in Elems(reads[t]) : r.prefs = NoPrefs
      /\ \A a \in Elems(answers[t]) : a.prefs = NoPrefs
  BY DEF NotReady, Typed, TypeOK
<1>2. NewRead(t).prefs = NoPrefs
  BY <1>1, NewReadIs
<1>3. SUFFICES /\ \A r \in Elems(reads'[t]) : r.prefs = NoPrefs
               /\ \A a \in Elems(answers'[t]) : a.prefs = NoPrefs
  BY DEF Quiet
<1>4. CASE Reopen(t)
  BY <1>1, <1>2, <1>4, ReopenIs
<1>5. CASE Refetch(t)
  <2>1. answers' = answers
    BY <1>5 DEF Refetch
  <2> QED
    BY <1>1, <1>2, <1>5, <2>1, RefetchIs
<1>6. CASE ServeRead(t)
  <2>1. PICK r \in Elems(reads[t]), a \in Answer :
            /\ a.prefs = r.prefs
            /\ Elems(reads'[t]) \subseteq Elems(reads[t])
            /\ answers' = [answers EXCEPT ![t] = Append(answers[t], a)]
    BY <1>6, ServeReadIs
  <2>2. PICK q : q = Append(answers[t], a)
    OBVIOUS
  <2>3. \A x \in Elems(q) : x = a \/ x \in Elems(answers[t])
    BY <1>1, <2>2, ElemsAppend
  <2>4. answers'[t] = q
    BY <1>1, <2>1, <2>2
  <2> QED
    BY <1>1, <2>1, <2>3, <2>4
<1>7. CASE LandRead(t)
  <2>1. PICK n \in 1 .. Len(answers[t]) : answers' = [answers EXCEPT ![t] = Others(answers[t], n)]
    BY <1>7, LandReadIs
  <2>2. PICK q : q = Others(answers[t], n)
    OBVIOUS
  <2>3. Elems(q) \subseteq Elems(answers[t])
    BY <1>1, <2>2, ElemsOthers
  <2>4. answers'[t] = q /\ reads' = reads
    BY <1>1, <1>7, <2>1, <2>2 DEF LandRead
  <2> QED
    BY <1>1, <2>3, <2>4
<1>8. CASE LoseRead(t)
  BY <1>1, <1>8, LoseReadIs
<1>9. CASE UNCHANGED asking
  BY <1>1, <1>9
<1> QED
  BY <1>4, <1>5, <1>6, <1>7, <1>8, <1>9

LEMMA KeptNone ==
    ASSUME NEW lists \in SUBSET Lists
    PROVE  Kept(NoPrefs, lists) = NoPrefs
BY DEF Kept, NoPrefs

\* What a step does not tell of a tab that has no settings.
Waits(t) == ~ Ready(t) => asked'[t] = Nothing /\ Quiet(t)'

\* The tab changes its preferences.
LEMMA StoreChanged ==
    ASSUME NEW t \in Tabs, StoreInv(t), Typed', UNCHANGED <<scene, blob, phase, seen>>, Waits(t),
           astray \subseteq astray',
           NEW new \in Prefs, NEW by \in {"user", "prune"}, Changed(t, new, by),
           ~ Ready(t) => new = prefs[t],
           Calendars /\ ~ undone' /\ Ready(t) => ~ undone /\ (Disjoint(prefs[t]) => Disjoint(new)),
           ~ Ready(t) => undone' = undone
    PROVE  StoreInv(t)'
<1>1. /\ Typed /\ NotReady(t) /\ Stored(t) /\ ArchivedShown(t)
      /\ scene' = scene /\ blob' = blob /\ phase' = phase /\ seen' = seen
  BY DEF StoreInv
<1>2. /\ prefs'[t] = new /\ puts' \in [Tabs -> [Keys -> Seq(Put)]]
      /\ \A k \in Keys : Sent(puts[t][k], puts'[t][k], prefs[t][k], new[k], by)
  BY <1>1, ChangedIs
<1>3. ASSUME NEW k \in Keys
      PROVE  /\ Carries(puts[t][k], puts'[t][k], prefs[t][k], new[k])
             /\ new = prefs[t] => puts'[t][k] = puts[t][k]
  <2>1. puts[t][k] \in Seq(Put) /\ prefs[t][k] \in SUBSET Lists /\ new[k] \in SUBSET Lists
    BY <1>1, TypedFacts DEF Prefs
  <2>2. Sent(puts[t][k], puts'[t][k], prefs[t][k], new[k], by)
    BY <1>2
  <2>3. PICK r : r = puts'[t][k]
    OBVIOUS
  <2>4. Carries(puts[t][k], r, prefs[t][k], new[k])
    BY <2>1, <2>2, <2>3, SentEffect
  <2>5. new = prefs[t] => puts'[t][k] = puts[t][k]
    BY <2>2 DEF Sent
  <2> QED
    BY <2>3, <2>4, <2>5
<1>4. NotReady(t)'
  <2>1. ASSUME ~ Ready(t)
        PROVE  puts'[t] = NoPuts
    <3>1. new = prefs[t] /\ puts[t] = NoPuts
      BY <1>1, <2>1 DEF NotReady
    <3>2. \A k \in Keys : puts'[t][k] = NoPuts[k]
      BY <1>3, <3>1
    <3>3. puts'[t] \in [Keys -> Seq(Put)]
      BY <1>2
    <3> QED
      BY <3>2, <3>3 DEF NoPuts
  <2> QED
    BY <1>1, <1>2, <2>1 DEF NotReady, Ready, Waits, Quiet
<1>5. Stored(t)'
  <2>1. ASSUME Ready(t), NEW k \in Keys, k \notin astray'
        PROVE  Settles(puts'[t][k], blob[k], new[k])
    <3>1. Settles(puts[t][k], blob[k], prefs[t][k])
      BY <1>1, <2>1 DEF Stored
    <3> QED
      BY <1>3, <3>1 DEF Carries
  <2> QED
    BY <1>1, <1>2, <2>1 DEF Stored, Ready
<1>6. ArchivedShown(t)'
  BY <1>1, <1>2 DEF ArchivedShown, Ready, Calendars
<1> QED
  BY <1>4, <1>5, <1>6 DEF StoreInv

\* It does not.
LEMMA StoreSame ==
    ASSUME NEW t \in Tabs, StoreInv(t), Typed', Waits(t),
           UNCHANGED <<scene, blob, phase, seen, prefs, puts, undone, astray>>
    PROVE  StoreInv(t)'
<1>1. /\ scene' = scene /\ blob' = blob /\ phase' = phase /\ seen' = seen
      /\ prefs' = prefs /\ puts' = puts /\ undone' = undone /\ astray' = astray
  OBVIOUS
<1>2. NotReady(t)'
  BY <1>1 DEF StoreInv, NotReady, Ready, Waits, Quiet
<1>3. Stored(t)'
  BY <1>1 DEF StoreInv, Stored, Ready
<1>4. ArchivedShown(t)'
  BY <1>1 DEF StoreInv, ArchivedShown, Ready, Calendars
<1> QED
  BY <1>2, <1>3, <1>4 DEF StoreInv

LEMMA StoreStep ==
    ASSUME NEW t \in Tabs, Tabs = {t}, StoreInv(t), [Next]_vars
    PROVE  StoreInv(t)'
<1> USE DEF loading, tab, asking, history
<1>1. Typed /\ Typed' /\ NotReady(t) /\ Stored(t) /\ ArchivedShown(t)
  BY TypedStep DEF StoreInv
<1>2. /\ prefs[t] \in Prefs /\ seen[t] \in Prefs /\ items[t] \in SUBSET Lists
      /\ asked[t] \in Asked
      /\ \A u \in Tabs : asked[u].what = "remove" \/ asked[u].served => asked[u].list \in Lists
  BY <1>1, TypedFacts DEF Typed, Named
<1>3. Nothing.what = "nothing" /\ (~ Ready(t) => asked[t] = Nothing /\ prefs[t] = NoPrefs)
  BY <1>1 DEF Nothing, NotReady
<1>4. ASSUME ~ Ready(t), UNCHANGED asked,
             \/ Reopen(t) \/ Refetch(t) \/ ServeRead(t) \/ LandRead(t) \/ LoseRead(t)
             \/ UNCHANGED asking
      PROVE  Waits(t)
  BY <1>1, <1>3, <1>4, QuietStep DEF Waits
<1>5. CASE UNCHANGED vars
  BY <1>4, <1>5, <1>1, StoreSame DEF vars, Waits
<1>6. ASSUME NEW l \in Lists, ForeignChange(l)
      PROVE  StoreInv(t)'
  BY <1>4, <1>6, <1>1, StoreSame DEF ForeignChange, Waits
<1>7. CASE ReadSettings(t)
  <2>1. phase'[t] = "read" /\ seen'[t] = blob
    BY <1>1, <1>7 DEF ReadSettings, Typed, TypeOK
  <2>2. ~ Ready(t) /\ ~ Ready(t)'
    BY <1>7, <2>1 DEF ReadSettings, Ready
  <2>3. NotReady(t)'
    BY <1>1, <1>7, <2>1, <2>2 DEF ReadSettings, NotReady
  <2> QED
    BY <1>1, <1>7, <2>2, <2>3 DEF ReadSettings, StoreInv, Stored, ArchivedShown, Calendars
<1>8. CASE LandSettings(t)
  <2>1. phase'[t] = "ready" /\ prefs'[t] = seen[t] /\ puts' = puts
    BY <1>1, <1>8 DEF LandSettings, Typed, TypeOK
  <2>2. ~ Ready(t) /\ Ready(t)' /\ seen[t] = blob /\ puts[t] = NoPuts
    BY <1>1, <1>8, <2>1 DEF LandSettings, Ready, NotReady
  <2>3. \A k \in Keys : Settles(NoPuts[k], blob[k], blob[k])
    BY DEF Settles, NoPuts
  <2>4. Stored(t)'
    BY <1>8, <2>1, <2>2, <2>3 DEF LandSettings, Stored
  <2>5. NotReady(t)' /\ ArchivedShown(t)'
    BY <1>1, <1>8, <2>1, <2>2 DEF LandSettings, NotReady, ArchivedShown, Calendars
  <2> QED
    BY <1>1, <2>4, <2>5 DEF StoreInv
<1>9. ASSUME NEW lists \in SUBSET Lists, SetLists(t, lists), Waits(t),
             UNCHANGED <<scene, blob, phase, seen, undone, astray>>
      PROVE  StoreInv(t)'
  <2>1. PICK new \in Prefs : /\ Changed(t, new, "prune")
                             /\ new = IF Calendars THEN prefs[t] ELSE Kept(prefs[t], lists)
    BY <1>1, <1>9, SetListsIs
  <2>2. ~ Ready(t) => new = prefs[t]
    BY <1>3, <2>1, KeptNone
  <2> QED
    BY <1>1, <1>9, <2>1, <2>2, StoreChanged
<1>10. CASE Reopen(t)
  <2>1. {} \in SUBSET Lists /\ SetLists(t, {}) /\ Waits(t)
    BY <1>4, <1>10 DEF Reopen, Waits
  <2> QED
    BY <1>9, <1>10, <2>1 DEF Reopen
<1>11. CASE Refetch(t) \/ ServeRead(t) \/ LoseRead(t)
  <2>1. UNCHANGED <<scene, blob, phase, seen, prefs, puts, undone, astray, asked>>
    BY <1>11 DEF Refetch, ServeRead, LoseRead
  <2>2. Waits(t)
    BY <1>4, <1>11, <2>1 DEF Waits
  <2> QED
    BY <1>1, <2>1, <2>2, StoreSame
<1>12. CASE LandRead(t)
  <2>1. PICK n \in 1 .. Len(answers[t]), r \in Answer, new \in Prefs :
            /\ r \in Elems(answers[t]) /\ Overtakes("lists", n)
            /\ Changed(t, new, "prune")
            /\ Calendars =>
                   /\ \A k \in Keys : new[k] = IF k \in ToPrune(r) THEN r.prefs[k] \cap r.got
                                               ELSE prefs[t][k]
                   /\ undone' = (undone \/ \E k \in ToPrune(r) : r.prefs[k] # prefs[t][k])
            /\ ~ Calendars => new = Kept(prefs[t], r.got) /\ undone' = undone
    BY <1>1, <1>12, LandReadIs
  <2>2. Waits(t)
    BY <1>4, <1>12 DEF LandRead, Waits
  <2>3. ASSUME ~ Ready(t)
        PROVE  new = prefs[t] /\ undone' = undone
    <3>1. r.prefs = NoPrefs
      BY <1>1, <2>1, <2>3 DEF NotReady
    <3>2. ToPrune(r) = {}
      BY <3>1 DEF ToPrune, NoPrefs
    <3>3. Calendars => \A k \in Keys : new[k] = prefs[t][k]
      BY <2>1, <3>2
    <3>4. Calendars => new = prefs[t]
      BY <1>2, <3>3 DEF Prefs
    <3>5. ~ Calendars => new = prefs[t]
      BY <1>3, <2>1, <2>3, KeptNone DEF Answer
    <3> QED
      BY <1>1, <2>1, <3>2, <3>4, <3>5 DEF Typed, TypeOK
  <2>4. ASSUME Calendars, ~ undone'
        PROVE  ~ undone /\ (Disjoint(prefs[t]) => Disjoint(new))
    <3>1. ~ undone /\ \A k \in ToPrune(r) : r.prefs[k] = prefs[t][k]
      BY <2>1, <2>4
    <3>2. \A k \in Keys : new[k] \subseteq prefs[t][k]
      BY <2>1, <2>4, <3>1
    <3> QED
      BY <3>1, <3>2, KeysAre DEF Disjoint
  <2>5. UNCHANGED <<scene, blob, phase, seen>> /\ astray \subseteq astray'
    BY <1>12, <2>1 DEF LandRead, Overtakes
  <2> QED
    BY <1>1, <2>1, <2>2, <2>3, <2>4, <2>5, StoreChanged
<1>13. ASSUME NEW k \in Keys, ServePut(t, k)
       PROVE  StoreInv(t)'
  <2>1. PICK n \in 1 .. Len(puts[t][k]), r \in Seq(Put), b \in Prefs :
            /\ r = Others(puts[t][k], n) /\ Overtakes(k, n)
            /\ blob' = b /\ b[k] = puts[t][k][n].val
            /\ \A j \in Keys \ {k} : b[j] = blob[j]
            /\ puts'[t][k] = r /\ \A j \in Keys \ {k} : puts'[t][j] = puts[t][j]
    BY <1>1, <1>13, ServePutIs
  <2>2. PICK q \in Seq(Put) : q = puts[t][k]
    BY <1>1, TypedFacts
  <2>3. Ready(t)
    <3>1. Len(<<>>) = 0 /\ n \in 1 .. Len(q)
      BY <2>1, <2>2
    <3>2. q # <<>>
      BY <3>1
    <3> QED
      BY <1>1, <2>2, <3>2 DEF NotReady, NoPuts
  <2>4. prefs' = prefs /\ phase' = phase /\ scene' = scene /\ undone' = undone
    BY <1>13 DEF ServePut
  <2>5. ASSUME NEW j \in Keys, j \notin astray'
        PROVE  Settles(puts'[t][j], b[j], prefs[t][j])
    <3>1. Settles(puts[t][j], blob[j], prefs[t][j])
      BY <1>1, <2>1, <2>3, <2>5 DEF Stored, Overtakes
    <3>2. CASE j = k
      <4>1. n = 1
        BY <2>1, <2>5, <3>2 DEF Overtakes
      <4> QED
        BY <2>1, <2>2, <3>1, <3>2, <4>1, PutArrives
    <3>3. CASE j # k
      BY <2>1, <3>1, <3>3
    <3> QED
      BY <3>2, <3>3
  <2>6. Stored(t)'
    BY <2>1, <2>4, <2>5 DEF Stored
  <2>7. Ready(t)' /\ NotReady(t)' /\ ArchivedShown(t)'
    BY <1>1, <2>3, <2>4 DEF Ready, NotReady, ArchivedShown, Calendars
  <2> QED
    BY <1>1, <2>6, <2>7 DEF StoreInv
<1>14. ASSUME NEW k \in Keys, LosePut(t, k)
       PROVE  StoreInv(t)'
  <2>1. /\ prefs' = prefs /\ phase' = phase /\ scene' = scene /\ undone' = undone
        /\ blob' = blob /\ astray' = astray \cup {k}
        /\ \A j \in Keys \ {k} : puts'[t][j] = puts[t][j]
    BY <1>1, <1>14, LosePutIs DEF LosePut
  <2>2. Ready(t)
    <3>1. PICK n : n \in 1 .. Len(puts[t][k])
      BY <1>14 DEF LosePut
    <3>2. Len(<<>>) = 0
      OBVIOUS
    <3>3. puts[t][k] # <<>>
      BY <3>1, <3>2
    <3> QED
      BY <1>1, <3>3 DEF NotReady, NoPuts
  <2>3. Stored(t)'
    BY <1>1, <2>1 DEF Stored, Ready
  <2>4. Ready(t)' /\ NotReady(t)' /\ ArchivedShown(t)'
    BY <1>1, <2>1, <2>2 DEF Ready, NotReady, ArchivedShown, Calendars
  <2> QED
    BY <1>1, <2>3, <2>4 DEF StoreInv
<1>15. CASE ServeRemove(t) \/ Removed(t) \/ ServeCreate(t)
  <2>1. Ready(t)
    BY <1>3, <1>15 DEF ServeRemove, Removed, ServeCreate
  <2>2. UNCHANGED <<scene, blob, phase, seen, prefs, puts, undone, astray>>
    BY <1>15 DEF ServeRemove, Removed, ServeCreate
  <2> QED
    BY <1>1, <2>1, <2>2, StoreSame DEF Waits
<1>16. CASE Created(t)
  <2>1. asked[t].prev \cup {asked[t].list} \in SUBSET Lists
    BY <1>2, <1>16 DEF Created, Asked
  <2>2. PICK lists \in SUBSET Lists : lists = asked[t].prev \cup {asked[t].list}
    BY <2>1
  <2>3. SetLists(t, lists)
    BY <1>16, <2>2 DEF Created, SetLists, Changed
  <2>4. Waits(t)
    BY <1>3, <1>16 DEF Created, Waits
  <2> QED
    BY <1>9, <1>16, <2>2, <2>3, <2>4 DEF Created
<1>17. CASE RemoveFails(t)
  <2>1. PICK lists \in SUBSET Lists : lists = asked[t].prev
    BY <1>2 DEF Asked
  <2>2. SetLists(t, lists)
    BY <1>17, <2>1 DEF RemoveFails, SetLists, Changed
  <2>3. Waits(t)
    BY <1>3, <1>17 DEF RemoveFails, Waiting, Waits
  <2> QED
    BY <1>9, <1>17, <2>2, <2>3 DEF RemoveFails
<1>18. CASE Create(t)
  BY <1>1, <1>18, StoreSame DEF Create, Waits
<1>19. ASSUME NEW l \in Lists, Remove(t, l)
       PROVE  StoreInv(t)'
  <2>1. PICK new \in Prefs : Changed(t, new, "prune") /\ (Calendars => new = prefs[t])
    BY <1>1, <1>19, RemoveIs
  <2>2. UNCHANGED <<scene, blob, phase, seen, undone, astray>> /\ Ready(t)
    BY <1>19 DEF Remove
  <2> QED
    BY <1>1, <2>1, <2>2, StoreChanged DEF Waits
<1>20. ASSUME NEW l \in Lists, Archive(t, l)
       PROVE  StoreInv(t)'
  <2>1. PICK new \in Prefs : /\ Changed(t, new, "user")
                             /\ new["placed"] = prefs[t]["placed"] \cup {l}
                             /\ new["hidden"] = prefs[t]["hidden"] \ {l}
    BY <1>1, <1>20, ArchiveIs
  <2>2. Disjoint(prefs[t]) => Disjoint(new)
    BY <2>1 DEF Disjoint
  <2>3. UNCHANGED <<scene, blob, phase, seen, undone, astray>> /\ Ready(t)
    BY <1>20 DEF Archive
  <2> QED
    BY <1>1, <2>1, <2>2, <2>3, StoreChanged DEF Waits
<1>21. ASSUME NEW l \in Lists, Restore(t, l)
       PROVE  StoreInv(t)'
  <2>1. PICK new \in Prefs : /\ Changed(t, new, "user")
                             /\ new["placed"] = prefs[t]["placed"] \ {l}
                             /\ new["hidden"] = prefs[t]["hidden"]
    BY <1>1, <1>21, RestoreIs
  <2>2. Disjoint(prefs[t]) => Disjoint(new)
    BY <2>1 DEF Disjoint
  <2>3. UNCHANGED <<scene, blob, phase, seen, undone, astray>> /\ Ready(t)
    BY <1>21 DEF Restore
  <2> QED
    BY <1>1, <2>1, <2>2, <2>3, StoreChanged DEF Waits
<1>22. ASSUME NEW l \in Lists, NEW k \in Keys, Toggle(t, k, l)
       PROVE  StoreInv(t)'
  <2>1. PICK new \in Prefs :
            /\ Changed(t, new, "user")
            /\ new[k] = (IF l \in prefs[t][k] THEN prefs[t][k] \ {l} ELSE prefs[t][k] \cup {l})
            /\ \A j \in Keys \ {k} : new[j] = prefs[t][j]
    BY <1>1, <1>22, ToggleIs
  <2>2. Calendars /\ Disjoint(prefs[t]) => Disjoint(new)
    BY <1>22, <2>1, KeysAre DEF Toggle, Disjoint
  <2>3. UNCHANGED <<scene, blob, phase, seen, undone, astray>> /\ Ready(t)
    BY <1>22 DEF Toggle
  <2> QED
    BY <1>1, <2>1, <2>2, <2>3, StoreChanged DEF Waits
<1> QED
  BY <1>5, <1>6, <1>7, <1>8, <1>10, <1>11, <1>12, <1>13, <1>14, <1>15, <1>16, <1>17, <1>18,
     <1>19, <1>20, <1>21, <1>22 DEF Next, Load, Asking

LEMMA StoreInit ==
    ASSUME NEW t \in Tabs, Init
    PROVE  StoreInv(t)
<1>1. Typed
  BY TypedInit
<1>2. /\ ~ Ready(t) /\ phase[t] = "loading" /\ prefs[t] = NoPrefs /\ puts[t] = NoPuts /\ asked[t] = Nothing
      /\ Calendars => Disjoint(blob)
  BY DEF Init, Ready, Disjoint
<1>3. Quiet(t)
  <2>1. PICK e : e = NewRead(t) /\ e.prefs = NoPrefs
    BY <1>1, <1>2, NewReadIs
  <2>2. reads[t] = <<e>> /\ answers[t] = <<>>
    BY <2>1 DEF Init
  <2>3. \A x \in Elems(<<e>>) : x = e
    BY ElemsOne
  <2>4. Elems(<<>>) = {}
    BY DEF Elems
  <2> QED
    BY <2>1, <2>2, <2>3, <2>4 DEF Quiet
<1> QED
  BY <1>1, <1>2, <1>3 DEF StoreInv, NotReady, Quiet, Stored, ArchivedShown

\* What the user of a single tab sees of a key is what the account keeps once its
\* PUTs have arrived, though pruning, the user's changes, other keys and failing
\* requests mix: if none of the key's PUTs has overtaken another, nor got lost.
THEOREM OneTabIsStored ==
    ASSUME NEW t, Tabs = {t}
    PROVE  Spec => []StoredIsShown
<1>1. t \in Tabs
  OBVIOUS
<1>2. Init => StoreInv(t)
  BY <1>1, StoreInit
<1>3. StoreInv(t) /\ [Next]_vars => StoreInv(t)'
  BY <1>1, StoreStep
<1>4. StoreInv(t) => StoredIsShown
  BY <1>1 DEF StoreInv, Stored, Settles, StoredIsShown
<1> QED
  BY <1>2, <1>3, <1>4, PTL DEF Spec

\* No archived calendar is among the hidden ones of the account once the PUTs of a
\* single tab have arrived, whatever was hidden, archived, restored and pruned: if
\* no pruning has undone what its user did meanwhile, and no PUT of either key has
\* overtaken another or got lost.
THEOREM ArchivedIsVisible ==
    ASSUME NEW t, Tabs = {t}
    PROVE  Spec => []ArchivedNotHidden
<1>1. t \in Tabs
  OBVIOUS
<1>2. Init => StoreInv(t)
  BY <1>1, StoreInit
<1>3. StoreInv(t) /\ [Next]_vars => StoreInv(t)'
  BY <1>1, StoreStep
<1>4. ASSUME StoreInv(t), Calendars, ~ undone, astray \cap Keys = {}, puts[t] = NoPuts
      PROVE  Disjoint(blob)
  <2>1. CASE Ready(t)
    <3>1. \A k \in Keys : puts[t][k] = <<>> /\ k \notin astray
      BY <1>4 DEF NoPuts
    <3>2. \A k \in Keys : blob[k] = prefs[t][k]
      BY <1>4, <2>1, <3>1 DEF StoreInv, Stored, Settles
    <3> QED
      BY <1>4, <2>1, <3>2, KeysAre DEF StoreInv, ArchivedShown, Disjoint
  <2>2. CASE ~ Ready(t)
    BY <1>4, <2>2 DEF StoreInv, ArchivedShown
  <2> QED
    BY <2>1, <2>2
<1>5. StoreInv(t) => ArchivedNotHidden
  BY <1>1, <1>4 DEF ArchivedNotHidden, Disjoint
<1> QED
  BY <1>2, <1>3, <1>5, PTL DEF Spec

-----------------------------------------------------------------------------
(* A single tab: pruning only takes out what is gone                       *)

\* What is known is there or gone, as long as nothing more becomes known.
LEMMA KnowsSame ==
    ASSUME NEW t \in Tabs, Knows(t), InOrder(t), scene' = scene,
           Elems(reads'[t]) \subseteq Elems(reads[t]), answers'[t] = answers[t],
           Known(t)' \subseteq Known(t),
           Deleted \subseteq Deleted', Live \subseteq Live' \cup Deleted'
    PROVE  Knows(t)' /\ InOrder(t)'
<1>1. Knows(t)'
  BY DEF Knows
<1>2. ASSUME ~ Calendars
      PROVE  /\ \A a \in Elems(answers[t]) : Known(t)' \subseteq a.got \cup Deleted'
             /\ Grows(answers[t], Deleted')
  BY <1>2 DEF InOrder, Grows
<1> QED
  BY <1>1, <1>2 DEF InOrder, Calendars

\* More is gone by and by.
LEMMA QueueSame ==
    ASSUME NEW t \in Tabs, QueuePrunes(t), puts' = puts, blob' = blob,
           astray \subseteq astray', Gone(t) \subseteq Gone(t)'
    PROVE  QueuePrunes(t)'
<1>1. PICK gone : gone = Gone(t)'
  OBVIOUS
<1>2. \A k \in Keys : k \notin astray' => PrunesAll(puts[t][k], blob[k], gone)
  BY <1>1, PrunesMore DEF QueuePrunes
<1> QED
  BY <1>1, <1>2 DEF QueuePrunes

\* The tab changes its preferences, and takes out only what is gone.
LEMMA QueueChanged ==
    ASSUME NEW t \in Tabs, StoreInv(t), QueuePrunes(t), blob' = blob,
           astray \subseteq astray', Gone(t) \subseteq Gone(t)',
           NEW new \in Prefs, NEW by \in {"user", "prune"}, Changed(t, new, by),
           ~ Ready(t) => new = prefs[t],
           by = "prune" => \A k \in Keys : Prunes(prefs[t][k], new[k], Gone(t)')
    PROVE  QueuePrunes(t)'
<1>1. PICK gone : gone = Gone(t)'
  OBVIOUS
<1>2. Typed /\ NotReady(t) /\ Stored(t)
  BY DEF StoreInv
<1>3. ASSUME NEW k \in Keys, k \notin astray'
      PROVE  PrunesAll(puts'[t][k], blob[k], gone)
  <2>1. PICK q \in Seq(Put) : q = puts[t][k]
    BY <1>2, TypedFacts
  <2>2. PICK r : r = puts'[t][k]
    OBVIOUS
  <2>3. prefs[t][k] \in SUBSET Lists /\ new[k] \in SUBSET Lists
    BY <1>2, TypedFacts DEF Prefs
  <2>4. Sent(q, r, prefs[t][k], new[k], by)
    BY <1>2, <2>1, <2>2, ChangedIs
  <2>5. PrunesAll(q, blob[k], gone)
    BY <1>1, <1>3, <2>1, PrunesMore DEF QueuePrunes
  <2>6. CASE Ready(t)
    <3>1. Settles(q, blob[k], prefs[t][k])
      BY <1>2, <1>3, <2>1, <2>6 DEF Stored
    <3>2. by = "prune" => Prunes(prefs[t][k], new[k], gone)
      BY <1>1
    <3>3. CarriesPrunes(q, r, prefs[t][k], new[k], by)
      BY <2>3, <2>4, SentEffect
    <3> QED
      BY <2>2, <2>5, <3>1, <3>2, <3>3 DEF CarriesPrunes
  <2>7. CASE ~ Ready(t)
    <3>1. r = q
      BY <2>4, <2>7 DEF Sent
    <3> QED
      BY <2>2, <2>5, <3>1
  <2> QED
    BY <2>6, <2>7
<1> QED
  BY <1>1, <1>3 DEF QueuePrunes

\* Another answer that found what is there.
LEMMA ServeKnows ==
    ASSUME NEW t \in Tabs, Typed, Knows(t), InOrder(t), ServeRead(t)
    PROVE  Knows(t)' /\ InOrder(t)'
<1> USE DEF loading, tab, asking, history
<1>1. PICK r \in Elems(reads[t]), a \in Answer :
          /\ a.prefs = r.prefs /\ a.got = Live
          /\ Elems(reads'[t]) \subseteq Elems(reads[t])
          /\ answers' = [answers EXCEPT ![t] = Append(answers[t], a)]
  BY ServeReadIs
<1>2. PICK q \in Seq(Answer) : q = answers[t]
  BY TypedFacts
<1>3. PICK s : s = Append(q, a)
  OBVIOUS
<1>4. answers'[t] = s
  BY <1>1, <1>2, <1>3 DEF Typed, TypeOK
<1>5. Known(t)' = Known(t) /\ Live' = Live /\ Deleted' = Deleted /\ Calendars' = Calendars
  BY DEF ServeRead, Known, Live, Deleted, Ready, Calendars
<1>6. \A x \in Elems(s) : x = a \/ x \in Elems(q)
  BY <1>3, ElemsAppend
<1>7. Knows(t)'
  <2>1. \A k \in Keys : a.prefs[k] \subseteq a.got \cup Deleted
    BY <1>1 DEF Knows
  <2>2. a.got \subseteq Live \cup Deleted
    BY <1>1
  <2> QED
    BY <1>1, <1>2, <1>4, <1>5, <1>6, <2>1, <2>2 DEF Knows
<1>8. ASSUME ~ Calendars
      PROVE  \A x \in Elems(s) : Known(t) \subseteq x.got \cup Deleted
  <2>1. Known(t) \subseteq a.got \cup Deleted
    BY <1>1 DEF Knows
  <2>2. \A x \in Elems(q) : Known(t) \subseteq x.got \cup Deleted
    BY <1>2, <1>8 DEF InOrder
  <2> QED
    BY <1>6, <2>1, <2>2
<1>9. ASSUME ~ Calendars
      PROVE  Grows(s, Deleted)
  <2>1. /\ Len(q) \in Nat /\ Len(s) = Len(q) + 1 /\ s[Len(q) + 1] = a
        /\ \A i \in 1 .. Len(q) : s[i] = q[i]
    BY <1>3, AppendProperties, LenProperties
  <2>2. SUFFICES ASSUME NEW n \in 1 .. Len(s), NEW m \in 1 .. n - 1
                 PROVE  s[m].got \subseteq s[n].got \cup Deleted
    BY DEF Grows
  <2>3. m \in 1 .. Len(q) /\ s[m] = q[m]
    BY <2>1
  <2>4. CASE n = Len(q) + 1
    <3>1. q[m] \in Elems(q)
      BY <2>3 DEF Elems
    <3>2. q[m].got \subseteq Live \cup Deleted
      BY <1>2, <3>1 DEF Knows
    <3> QED
      BY <1>1, <2>1, <2>3, <2>4, <3>2
  <2>5. CASE n \in 1 .. Len(q)
    BY <1>2, <1>9, <2>1, <2>3, <2>5 DEF InOrder, Grows
  <2> QED
    BY <2>1, <2>4, <2>5
<1> QED
  BY <1>4, <1>5, <1>7, <1>8, <1>9 DEF InOrder

\* A read is applied, in lists the first that was answered: the rail is what it
\* found, and the preferences are not more than they were.
LEMMA LandKnows ==
    ASSUME NEW t \in Tabs, Typed, Typed', Knows(t), InOrder(t),
           NEW n \in 1 .. Len(answers[t]), NEW r \in Answer, r = answers[t][n],
           ~ Calendars => n = 1,
           answers' = [answers EXCEPT ![t] = Others(answers[t], n)],
           items' = [items EXCEPT ![t] = IF Calendars /\ ~ r.here THEN items[t] ELSE r.got],
           UNCHANGED <<scene, life, blob, phase, reads>>,
           \A k \in Keys : prefs'[t][k] \subseteq prefs[t][k]
    PROVE  Knows(t)' /\ InOrder(t)'
<1>1. PICK q \in Seq(Answer) : q = answers[t]
  BY TypedFacts
<1>2. PICK s : s = Others(q, n)
  OBVIOUS
<1>3. /\ Len(q) \in Nat /\ s \in Seq(Answer) /\ Len(s) = Len(q) - 1
      /\ \A i \in 1 .. Len(q) - 1 : s[i] = q[IF i < n THEN i ELSE i + 1]
      /\ Elems(s) \subseteq Elems(q)
  BY <1>1, <1>2, OthersIs, ElemsOthers, LenProperties
<1>4. answers'[t] = s /\ (items'[t] = r.got \/ items'[t] = items[t])
  BY <1>1, <1>2 DEF Typed, TypeOK
<1>5. Live' = Live /\ Deleted' = Deleted /\ (Calendars' <=> Calendars)
  BY DEF Live, Deleted, Calendars
<1>6. r \in Elems(q)
  BY <1>1 DEF Elems
<1>7. Known(t)' \subseteq r.got \cup Known(t)
  BY <1>4 DEF Known, Ready
<1>8. Knows(t)'
  <2>1. r.got \subseteq Live \cup Deleted
    BY <1>1, <1>6 DEF Knows
  <2> QED
    BY <1>1, <1>3, <1>4, <1>5, <1>7, <2>1 DEF Knows
<1>9. ASSUME ~ Calendars
      PROVE  \A i \in 1 .. Len(s) : Known(t)' \subseteq s[i].got \cup Deleted
  <2>1. SUFFICES ASSUME NEW i \in 1 .. Len(s)
                 PROVE  Known(t)' \subseteq s[i].got \cup Deleted
    OBVIOUS
  <2>2. i + 1 \in 1 .. Len(q) /\ s[i] = q[i + 1] /\ 1 \in 1 .. (i + 1) - 1
    BY <1>3, <1>9
  <2>3. q[1].got \subseteq q[i + 1].got \cup Deleted
    BY <1>1, <1>9, <2>2 DEF InOrder, Grows
  <2>4. q[i + 1] \in Elems(q)
    BY <2>2 DEF Elems
  <2>5. Known(t) \subseteq q[i + 1].got \cup Deleted
    BY <1>1, <1>9, <2>4 DEF InOrder
  <2> QED
    BY <1>1, <1>7, <1>9, <2>2, <2>3, <2>5
<1>10. ASSUME ~ Calendars
       PROVE  Grows(s, Deleted)
  <2>1. SUFFICES ASSUME NEW i \in 1 .. Len(s), NEW j \in 1 .. i - 1
                 PROVE  s[j].got \subseteq s[i].got \cup Deleted
    BY DEF Grows
  <2>2. /\ i + 1 \in 1 .. Len(q) /\ i \in 1 .. Len(q) - 1 /\ ~ (i < n)
        /\ j + 1 \in 1 .. (i + 1) - 1 /\ j \in 1 .. Len(q) - 1 /\ ~ (j < n)
    BY <1>3, <1>10
  <2>3. s[i] = q[i + 1] /\ s[j] = q[j + 1]
    BY <1>3, <2>2
  <2> QED
    BY <1>1, <1>10, <2>2, <2>3 DEF InOrder, Grows
<1>11. ~ Calendars => \A a \in Elems(s) : Known(t)' \subseteq a.got \cup Deleted
  BY <1>9 DEF Elems
<1> QED
  BY <1>4, <1>5, <1>8, <1>10, <1>11 DEF InOrder

\* The same reads, rail, preferences and PUTs, though more may be gone.
LEMMA PartsSame ==
    ASSUME NEW t \in Tabs, PruneParts(t),
           UNCHANGED <<scene, blob, items, prefs, reads, answers, puts, phase, astray>>,
           Deleted \subseteq Deleted', Live \subseteq Live' \cup Deleted', Gone(t) \subseteq Gone(t)',
           Serves(t)'
    PROVE  PruneParts(t)'
<1>1. Known(t)' = Known(t)
  BY DEF Known, Ready
<1>2. Knows(t)' /\ InOrder(t)'
  BY <1>1, KnowsSame DEF PruneParts
<1>3. RailCovers(t)'
  BY DEF PruneParts, RailCovers, Ready, Calendars
<1>4. QueuePrunes(t)'
  BY QueueSame DEF PruneParts
<1> QED
  BY <1>2, <1>3, <1>4 DEF PruneParts

\* The user changes the place of a list that the tab knows of.
LEMMA PartsUser ==
    ASSUME NEW t \in Tabs, StoreInv(t), PruneParts(t), Ready(t),
           NEW new \in Prefs, Changed(t, new, "user"),
           UNCHANGED <<scene, life, blob, phase, items, reads, answers, astray, asked>>,
           \A k \in Keys : new[k] \subseteq prefs[t][k] \cup items[t]
    PROVE  PruneParts(t)'
<1>1. prefs'[t] = new
  BY ChangedIs DEF StoreInv
<1>2. Known(t)' \subseteq Known(t)
  BY <1>1 DEF Known, Ready
<1>3. Live' = Live /\ Deleted' = Deleted /\ Gone(t)' = Gone(t)
  BY DEF Live, Deleted, Gone
<1>4. Knows(t)' /\ InOrder(t)'
  BY <1>2, <1>3, KnowsSame DEF PruneParts
<1>5. QueuePrunes(t)'
  BY <1>3, QueueChanged DEF PruneParts
<1>6. RailCovers(t)'
  BY <1>1, <1>3 DEF PruneParts, RailCovers, Ready, Calendars
<1>7. Serves(t)'
  BY <1>3 DEF PruneParts, Serves
<1> QED
  BY <1>4, <1>5, <1>6, <1>7 DEF PruneParts

\* What no step changes, or takes back.
LEMMA Keeps ==
    ASSUME [Next]_vars
    PROVE  scene' = scene /\ (undone => undone') /\ astray \subseteq astray'
<1> USE DEF loading, tab, asking, history
<1>1. CASE UNCHANGED vars
  BY <1>1 DEF vars
<1>2. ASSUME NEW t \in Tabs, LandRead(t)
      PROVE  scene' = scene /\ (undone => undone') /\ astray \subseteq astray'
  <2>1. PICK n \in 1 .. Len(answers[t]) :
            /\ Overtakes("lists", n) /\ scene' = scene
            /\ Calendars => undone' = (undone \/ \E k \in ToPrune(answers[t][n]) :
                                                    answers[t][n].prefs[k] # prefs[t][k])
            /\ ~ Calendars => undone' = undone
    BY <1>2 DEF LandRead
  <2>2. astray \subseteq astray'
    BY <2>1 DEF Overtakes
  <2>3. undone => undone'
    <3>1. CASE Calendars
      BY <2>1, <3>1
    <3>2. CASE ~ Calendars
      BY <2>1, <3>2
    <3> QED
      BY <3>1, <3>2
  <2> QED
    BY <2>1, <2>2, <2>3
<1>3. ASSUME NEW t \in Tabs, NEW k \in Keys, ServePut(t, k) \/ LosePut(t, k)
      PROVE  scene' = scene /\ undone' = undone /\ astray \subseteq astray'
  BY <1>3 DEF ServePut, LosePut, Overtakes
<1>4. ASSUME NEW t \in Tabs, \/ Load(t) \/ Reopen(t) \/ Refetch(t) \/ ServeRead(t) \/ LoseRead(t)
                             \/ Asking(t) \/ RemoveFails(t) \/ Create(t)
      PROVE  scene' = scene /\ undone' = undone /\ astray' = astray
  BY <1>4 DEF Load, Asking, ReadSettings, LandSettings, Reopen, Refetch, ServeRead, LoseRead,
     ServeRemove, Removed, ServeCreate, Created, RemoveFails, Create
<1>5. ASSUME NEW t \in Tabs, NEW l \in Lists,
             \/ Remove(t, l) \/ Archive(t, l) \/ Restore(t, l) \/ ForeignChange(l)
             \/ \E k \in Keys : Toggle(t, k, l)
      PROVE  scene' = scene /\ undone' = undone /\ astray' = astray
  BY <1>5 DEF Remove, Archive, Restore, Toggle, ForeignChange
<1>6. ASSUME NEW l \in Lists, ForeignChange(l)
      PROVE  scene' = scene /\ undone' = undone /\ astray' = astray
  BY <1>6 DEF ForeignChange
<1> QED
  BY <1>1, <1>2, <1>3, <1>4, <1>5, <1>6 DEF Next

LEMMA PartsStep ==
    ASSUME NEW t \in Tabs, Tabs = {t}, StoreInv(t), Safe, PruneParts(t), Next, Safe'
    PROVE  PruneParts(t)'
<1> USE DEF loading, tab, asking, history
<1>1. /\ Typed /\ Typed' /\ NotReady(t) /\ scene \in {"plain", "calendars"}
      /\ ~ Calendars => "lists" \notin astray'
      /\ Calendars => ~ undone
  <2>1. scene' = scene
    BY Keeps
  <2> QED
    BY <2>1, TypedStep DEF StoreInv, Safe, Calendars
<1>2. /\ Knows(t) /\ InOrder(t) /\ RailCovers(t) /\ Serves(t) /\ QueuePrunes(t)
      /\ asked[t].what \in {"nothing", "remove"}
      /\ asked \in [Tabs -> Asked] /\ items \in [Tabs -> SUBSET Lists]
      /\ prefs[t] \in Prefs
      /\ asked[t].what = "remove" \/ asked[t].served => asked[t].list \in Lists
  BY <1>1, TypedFacts DEF PruneParts, Serves, Typed, TypeOK, Named
<1>3. Nothing.what = "nothing" /\ Nothing.list = None /\ ~ Nothing.served
  BY DEF Nothing
<1>4. ASSUME NEW l \in Lists, ForeignChange(l)
      PROVE  PruneParts(t)'
  <2>1. Deleted \subseteq Deleted' /\ Live \subseteq Live' \cup Deleted'
    BY <1>1, <1>4 DEF ForeignChange, Deleted, Live, Typed, TypeOK
  <2>2. Gone(t) \subseteq Gone(t)' /\ Serves(t)'
    BY <1>2, <1>4, <2>1 DEF ForeignChange, Gone, Serves
  <2>3. UNCHANGED <<scene, blob, items, prefs, reads, answers, puts, phase, astray>>
    BY <1>4 DEF ForeignChange
  <2> QED
    BY <2>1, <2>2, <2>3, PartsSame
<1>5. CASE ServeRemove(t)
  <2>1. PICK l \in Lists : l = asked[t].list /\ life' = [life EXCEPT ![l] = "deleted"]
    BY <1>2, <1>5 DEF ServeRemove
  <2>2. Deleted' = Deleted \cup {l} /\ Live \subseteq Live' \cup Deleted'
    BY <1>1, <2>1 DEF Deleted, Live, Typed, TypeOK
  <2>3. asked'[t].what = "remove" /\ asked'[t].list = l
    BY <1>2, <1>5, <2>1 DEF ServeRemove, Asked
  <2>4. Gone(t) \subseteq Gone(t)' /\ Serves(t)'
    BY <2>1, <2>2, <2>3 DEF Gone, Serves
  <2>5. UNCHANGED <<scene, blob, items, prefs, reads, answers, puts, phase, astray>>
    BY <1>5 DEF ServeRemove
  <2> QED
    BY <2>2, <2>4, <2>5, PartsSame
<1>6. CASE Removed(t)
  <2>1. asked'[t] = Nothing /\ asked[t].list \in Deleted
    BY <1>2, <1>6 DEF Removed, Serves
  <2>2. Deleted' = Deleted /\ Live' = Live
    BY <1>6 DEF Removed, Deleted, Live
  <2>3. Gone(t) \subseteq Gone(t)' /\ Serves(t)'
    BY <1>3, <2>1, <2>2 DEF Gone, Serves
  <2>4. UNCHANGED <<scene, blob, items, prefs, reads, answers, puts, phase, astray>>
    BY <1>6 DEF Removed
  <2> QED
    BY <2>2, <2>3, <2>4, PartsSame
<1>7. CASE ReadSettings(t)
  <2>1. ~ Ready(t) /\ ~ Ready(t)'
    BY <1>1, <1>7 DEF ReadSettings, Ready, Typed, TypeOK
  <2>2. /\ Deleted' = Deleted /\ Live' = Live /\ Gone(t)' = Gone(t)
        /\ UNCHANGED <<scene, blob, items, prefs, reads, answers, puts, astray, asked>>
    BY <1>7 DEF ReadSettings, Deleted, Live, Gone
  <2>3. Known(t)' = Known(t)
    BY <2>1, <2>2 DEF Known
  <2>4. Knows(t)' /\ InOrder(t)'
    BY <1>2, <2>2, <2>3, KnowsSame
  <2>5. QueuePrunes(t)'
    BY <1>2, <2>2, QueueSame
  <2>6. RailCovers(t)' /\ Serves(t)'
    BY <1>2, <2>1, <2>2 DEF RailCovers, Serves, Calendars
  <2> QED
    BY <2>4, <2>5, <2>6 DEF PruneParts
<1>8. CASE LandSettings(t)
  <2>1. ~ Ready(t) /\ Ready(t)' /\ prefs'[t] = blob
    BY <1>1, <1>8 DEF LandSettings, Ready, NotReady, Typed, TypeOK
  <2>2. /\ Deleted' = Deleted /\ Live' = Live /\ Gone(t)' = Gone(t)
        /\ UNCHANGED <<scene, blob, items, reads, answers, puts, astray, asked>>
    BY <1>8 DEF LandSettings, Deleted, Live, Gone
  <2>3. Known(t)' \subseteq Known(t)
    BY <2>1, <2>2 DEF Known
  <2>4. Knows(t)' /\ InOrder(t)'
    BY <1>2, <2>2, <2>3, KnowsSame
  <2>5. QueuePrunes(t)'
    BY <1>2, <2>2, QueueSame
  <2>6. RailCovers(t)' /\ Serves(t)'
    BY <1>2, <2>1, <2>2 DEF RailCovers, Serves, Calendars
  <2> QED
    BY <2>4, <2>5, <2>6 DEF PruneParts
<1>9. CASE Reopen(t)
  <2>1. SetLists(t, {}) /\ {} \in SUBSET Lists
    BY <1>9 DEF Reopen
  <2>2. PICK new \in Prefs : Changed(t, new, "prune") /\ new = prefs[t]
    BY <1>1, <2>1, SetListsIs DEF Kept
  <2>3. items'[t] = {} /\ prefs'[t] = prefs[t]
    BY <1>1, <1>2, <2>1, <2>2, ChangedIs, SetListsIs
  <2>4. /\ Deleted' = Deleted /\ Live' = Live /\ Gone(t)' = Gone(t)
        /\ UNCHANGED <<scene, blob, phase, astray, asked>>
    BY <1>9 DEF Reopen, Deleted, Live, Gone
  <2>5. Known(t)' \subseteq Known(t)
    BY <2>3, <2>4 DEF Known, Ready
  <2>6. /\ \A x \in Elems(reads'[t]) : x = NewRead(t) \/ \E y \in Elems(reads[t]) : x.prefs = y.prefs
        /\ \A x \in Elems(answers'[t]) : \E y \in Elems(answers[t]) : x.prefs = y.prefs /\ x.got = y.got
        /\ ~ Calendars => answers'[t] = <<>>
    BY <1>1, <1>9, ReopenIs
  <2>7. \A k \in Keys : NewRead(t).prefs[k] \subseteq Live \cup Deleted
    <3>1. \A k \in Keys : prefs[t][k] \subseteq Known(t)
      BY <1>2 DEF Known, Prefs
    <3> QED
      BY <1>1, <1>2, <3>1, NewReadIs DEF Knows
  <2>8. Knows(t)'
    <3>1. \A x \in Elems(reads'[t]) : \A k \in Keys : x.prefs[k] \subseteq Live \cup Deleted
      BY <1>2, <2>6, <2>7 DEF Knows
    <3>2. \A x \in Elems(answers'[t]) :
              /\ x.got \subseteq Live \cup Deleted
              /\ \A k \in Keys : x.prefs[k] \subseteq x.got \cup Deleted
      BY <1>2, <2>6 DEF Knows
    <3> QED
      BY <1>2, <2>4, <2>5, <3>1, <3>2 DEF Knows
  <2>9. InOrder(t)'
    <3>1. Len(<<>>) = 0
      OBVIOUS
    <3>2. \A n \in 1 .. Len(<<>>) : FALSE
      BY <3>1
    <3>3. Elems(<<>>) = {} /\ Grows(<<>>, Deleted)
      BY <3>2 DEF Elems, Grows
    <3> QED
      BY <2>4, <2>6, <3>3 DEF InOrder, Calendars
  <2>10. QueuePrunes(t)'
    <3>1. \A k \in Keys : Prunes(prefs[t][k], new[k], Gone(t)')
      BY <2>2 DEF Prunes
    <3> QED
      BY <1>2, <2>2, <2>4, <3>1, QueueChanged
  <2>11. RailCovers(t)' /\ Serves(t)'
    BY <1>2, <2>3, <2>4 DEF RailCovers, Serves
  <2> QED
    BY <2>8, <2>9, <2>10, <2>11 DEF PruneParts
<1>10. CASE Refetch(t) \/ ServeRead(t)
  <2>1. UNCHANGED <<scene, life, blob, phase, items, prefs, puts, astray, asked>>
    BY <1>10 DEF Refetch, ServeRead
  <2>2. Gone(t)' = Gone(t) /\ Live' = Live /\ Deleted' = Deleted /\ Known(t)' = Known(t)
    BY <2>1 DEF Gone, Deleted, Live, Known, Ready
  <2>3. Knows(t)' /\ InOrder(t)'
    <3>1. CASE Refetch(t)
      <4>1. \A k \in Keys : NewRead(t).prefs[k] \subseteq Live \cup Deleted
        <5>1. \A k \in Keys : prefs[t][k] \subseteq Known(t)
          BY <1>2 DEF Known, Prefs
        <5> QED
          BY <1>1, <1>2, <5>1, NewReadIs DEF Knows
      <4>2. answers' = answers /\ \A x \in Elems(reads'[t]) : x = NewRead(t) \/ x \in Elems(reads[t])
        BY <1>1, <3>1, RefetchIs DEF Refetch
      <4>3. Knows(t)'
        BY <1>2, <2>2, <4>1, <4>2 DEF Knows
      <4>4. InOrder(t)'
        BY <1>2, <2>1, <2>2, <4>2 DEF InOrder, Calendars
      <4> QED
        BY <4>3, <4>4
    <3>2. CASE ServeRead(t)
      BY <1>1, <1>2, <3>2, ServeKnows
    <3> QED
      BY <1>10, <3>1, <3>2
  <2>4. QueuePrunes(t)'
    BY <1>2, <2>1, <2>2, QueueSame
  <2>5. RailCovers(t)' /\ Serves(t)'
    BY <1>2, <2>1, <2>2 DEF RailCovers, Serves, Ready, Calendars
  <2> QED
    BY <2>3, <2>4, <2>5 DEF PruneParts
<1>11. CASE LandRead(t)
  <2>1. PICK n \in 1 .. Len(answers[t]), r \in Answer, new \in Prefs :
            /\ r = answers[t][n] /\ r \in Elems(answers[t])
            /\ answers' = [answers EXCEPT ![t] = Others(answers[t], n)]
            /\ Overtakes("lists", n)
            /\ items' = [items EXCEPT ![t] = IF Calendars /\ ~ r.here THEN items[t] ELSE r.got]
            /\ Changed(t, new, "prune")
            /\ Calendars =>
                   /\ \A k \in Keys : new[k] = IF k \in ToPrune(r) THEN r.prefs[k] \cap r.got
                                               ELSE prefs[t][k]
                   /\ undone' = (undone \/ \E k \in ToPrune(r) : r.prefs[k] # prefs[t][k])
            /\ ~ Calendars => new = Kept(prefs[t], r.got) /\ undone' = undone
    BY <1>1, <1>11, LandReadIs
  <2>2. ~ Calendars => n = 1
    BY <1>1, <2>1 DEF Overtakes
  <2>3. /\ prefs'[t] = new /\ astray \subseteq astray'
        /\ UNCHANGED <<scene, life, blob, phase, reads, asked>>
    BY <1>1, <1>11, <2>1, ChangedIs DEF LandRead, Overtakes
  <2>4. ~ Calendars => items'[t] = r.got
    BY <1>2, <2>1
  <2>5. ASSUME NEW k \in Keys
        PROVE  new[k] \subseteq prefs[t][k] /\ prefs[t][k] \ new[k] \subseteq Deleted
    <3>1. CASE Calendars
      <4>1. k \in ToPrune(r) => r.prefs[k] = prefs[t][k]
        BY <2>1, <2>3, <3>1 DEF Safe, Calendars
      <4>2. r.prefs[k] \subseteq r.got \cup Deleted
        BY <1>2, <2>1 DEF Knows
      <4> QED
        BY <2>1, <3>1, <4>1, <4>2
    <3>2. CASE ~ Calendars
      <4>1. Known(t) \subseteq r.got \cup Deleted
        BY <1>2, <2>1, <3>2 DEF InOrder
      <4>2. prefs[t][k] \subseteq Known(t)
        BY <1>2 DEF Known, Prefs
      <4> QED
        BY <2>1, <3>2, <4>1, <4>2 DEF Kept
    <3> QED
      BY <3>1, <3>2
  <2>6. Deleted' = Deleted /\ Live' = Live /\ Gone(t)' = Gone(t)
    BY <2>3 DEF Deleted, Live, Gone
  <2>7. Knows(t)' /\ InOrder(t)'
    <3>1. \A k \in Keys : prefs'[t][k] \subseteq prefs[t][k]
      BY <2>3, <2>5
    <3>2. UNCHANGED <<scene, life, blob, phase, reads>>
      BY <2>3
    <3> QED
      BY <1>1, <1>2, <2>1, <2>2, <3>1, <3>2, LandKnows
  <2>8. ASSUME ~ Ready(t)
        PROVE  new = prefs[t]
    <3>1. PICK old \in Prefs : old = prefs[t]
      BY <1>2
    <3>2. \A k \in Keys : new[k] = {} /\ old[k] = {}
      BY <1>1, <2>5, <2>8, <3>1 DEF NotReady, NoPrefs
    <3>3. new \in [Keys -> SUBSET Lists] /\ old \in [Keys -> SUBSET Lists]
      BY DEF Prefs
    <3>4. \A k \in Keys : new[k] = old[k]
      BY <3>2
    <3>5. new = old
      BY <3>3, <3>4
    <3> QED
      BY <3>1, <3>5
  <2>9. QueuePrunes(t)'
    <3>1. \A k \in Keys : Prunes(prefs[t][k], new[k], Gone(t)')
      BY <2>5, <2>6 DEF Prunes, Gone
    <3>2. Gone(t) \subseteq Gone(t)' /\ blob' = blob
      BY <2>3, <2>6
    <3> QED
      BY <1>2, <2>1, <2>3, <2>8, <3>1, <3>2, QueueChanged
  <2>10. RailCovers(t)'
    <3>1. ASSUME ~ Calendars, r.got # {}, NEW k \in Keys
          PROVE  new[k] \subseteq r.got
      BY <2>1, <3>1 DEF Kept
    <3>2. ASSUME ~ Calendars, ~ Ready(t), NEW k \in Keys
          PROVE  blob[k] \subseteq r.got \cup Deleted
      <4>1. Known(t) \subseteq r.got \cup Deleted
        BY <1>2, <2>1, <3>2 DEF InOrder
      <4>2. blob[k] \subseteq Known(t)
        BY <1>1, <3>2, TypedFacts DEF Known, Prefs
      <4> QED
        BY <4>1, <4>2
    <3> QED
      BY <2>3, <2>4, <2>6, <3>1, <3>2 DEF RailCovers, Ready, Calendars, Gone
  <2>11. Serves(t)'
    BY <1>2, <2>3, <2>6 DEF Serves
  <2> QED
    BY <2>7, <2>9, <2>10, <2>11 DEF PruneParts
<1>12. ASSUME NEW k \in Keys, ServePut(t, k)
       PROVE  PruneParts(t)'
  <2>1. PICK n \in 1 .. Len(puts[t][k]), r \in Seq(Put), b \in Prefs :
            /\ r = Others(puts[t][k], n) /\ Overtakes(k, n)
            /\ blob' = b /\ b[k] = puts[t][k][n].val
            /\ \A j \in Keys \ {k} : b[j] = blob[j]
            /\ puts'[t][k] = r /\ \A j \in Keys \ {k} : puts'[t][j] = puts[t][j]
    BY <1>1, <1>12, ServePutIs
  <2>2. PICK q \in Seq(Put) : q = puts[t][k]
    BY <1>1, TypedFacts
  <2>3. Ready(t)
    <3>1. Len(<<>>) = 0 /\ n \in 1 .. Len(q)
      BY <2>1, <2>2
    <3>2. q # <<>>
      BY <3>1
    <3> QED
      BY <1>1, <2>2, <3>2 DEF NotReady, NoPuts
  <2>4. UNCHANGED <<scene, life, phase, prefs, items, reads, answers, asked>>
    BY <1>12 DEF ServePut
  <2>5. Deleted' = Deleted /\ Live' = Live /\ Gone(t)' = Gone(t)
    BY <2>4 DEF Deleted, Live, Gone
  <2>6. Known(t)' = Known(t)
    BY <2>3, <2>4 DEF Known, Ready
  <2>7. Knows(t)' /\ InOrder(t)'
    BY <1>2, <2>4, <2>5, <2>6, KnowsSame
  <2>8. PICK gone : gone = Gone(t)
    OBVIOUS
  <2>9. ASSUME NEW j \in Keys, j \notin astray'
        PROVE  PrunesAll(puts'[t][j], b[j], gone)
    <3>1. PrunesAll(puts[t][j], blob[j], gone)
      BY <1>2, <2>1, <2>8, <2>9 DEF QueuePrunes, Overtakes
    <3>2. CASE j = k
      <4>1. n = 1
        BY <2>1, <2>9, <3>2 DEF Overtakes
      <4> QED
        BY <2>1, <2>2, <3>1, <3>2, <4>1, PutArrives
    <3>3. CASE j # k
      BY <2>1, <3>1, <3>3
    <3> QED
      BY <3>2, <3>3
  <2>10. QueuePrunes(t)'
    BY <2>1, <2>5, <2>8, <2>9 DEF QueuePrunes
  <2>11. RailCovers(t)' /\ Serves(t)'
    BY <1>2, <2>3, <2>4, <2>5 DEF RailCovers, Serves, Ready, Calendars
  <2> QED
    BY <2>7, <2>10, <2>11 DEF PruneParts
<1>13. /\ ~ ServeCreate(t) /\ ~ Created(t) /\ ~ RemoveFails(t) /\ ~ Create(t) /\ ~ LoseRead(t)
       /\ \A k \in Keys : ~ LosePut(t, k)
  BY <1>1, <1>2 DEF LosePut, LoseRead, ServeCreate, Created, RemoveFails, Create
<1>14. ASSUME NEW l \in Lists, Remove(t, l)
       PROVE  PruneParts(t)'
  <2>1. /\ Ready(t) /\ asked[t] = Nothing /\ l \in items[t]
        /\ asked'[t] = [what |-> "remove", list |-> l, prev |-> items[t], served |-> FALSE]
        /\ scene' = scene /\ life' = life /\ blob' = blob /\ phase' = phase /\ reads' = reads
        /\ answers' = answers /\ astray' = astray
    BY <1>2, <1>14 DEF Remove, Waiting
  <2>2. asked'[t].what = "remove" /\ asked'[t].list = l /\ ~ asked'[t].served
    BY <2>1
  <2>3. PICK new \in Prefs :
            /\ Changed(t, new, "prune")
            /\ Calendars => new = prefs[t]
            /\ ~ Calendars /\ items[t] \ {l} = {} =>
                   /\ new["placed"] = prefs[t]["placed"] \ {l}
                   /\ new["hidden"] = prefs[t]["hidden"]
            /\ ~ Calendars /\ items[t] \ {l} # {} =>
                   \A k \in Keys : new[k] = prefs[t][k] \cap (items[t] \ {l})
    BY <1>1, <1>14, RemoveIs
  <2>4. prefs'[t] = new /\ items'[t] = items[t] \ {l}
    BY <1>1, <1>2, <1>14, <2>3, ChangedIs, RemoveIs
  <2>5. Deleted' = Deleted /\ Live' = Live /\ Gone(t) = Deleted /\ Gone(t)' = Deleted \cup {l}
    BY <1>3, <2>1, <2>2, NoneAssumption DEF Deleted, Live, Gone
  <2>6. ASSUME NEW k \in Keys
        PROVE  Prunes(prefs[t][k], new[k], Deleted \cup {l})
    <3>1. CASE ~ Calendars /\ items[t] \ {l} # {}
      <4>1. prefs[t][k] \subseteq items[t] \cup Deleted
        BY <1>2, <2>1, <2>5, <3>1 DEF RailCovers
      <4> QED
        BY <2>3, <3>1, <4>1 DEF Prunes
    <3>2. CASE ~ Calendars /\ items[t] \ {l} = {}
      BY <2>3, <3>2, KeysAre DEF Prunes
    <3>3. CASE Calendars
      BY <2>3, <3>3 DEF Prunes
    <3> QED
      BY <3>1, <3>2, <3>3
  <2>7. Known(t)' \subseteq Known(t)
    BY <2>1, <2>4, <2>6 DEF Known, Ready, Prunes
  <2>8. Knows(t)' /\ InOrder(t)'
    BY <1>2, <2>1, <2>5, <2>7, KnowsSame
  <2>9. QueuePrunes(t)'
    <3>1. \A k \in Keys : Prunes(prefs[t][k], new[k], Gone(t)')
      BY <2>5, <2>6
    <3>2. Gone(t) \subseteq Gone(t)' /\ blob' = blob
      BY <2>1, <2>5
    <3> QED
      BY <1>2, <2>1, <2>3, <3>1, <3>2, QueueChanged
  <2>10. RailCovers(t)'
    BY <2>1, <2>3, <2>4 DEF RailCovers, Ready, Calendars
  <2>11. Serves(t)'
    BY <2>2 DEF Serves
  <2> QED
    BY <2>8, <2>9, <2>10, <2>11 DEF PruneParts
<1>15. ASSUME NEW l \in Lists, Archive(t, l)
       PROVE  PruneParts(t)'
  <2>1. PICK new \in Prefs : /\ Changed(t, new, "user")
                             /\ new["placed"] = prefs[t]["placed"] \cup {l}
                             /\ new["hidden"] = prefs[t]["hidden"] \ {l}
    BY <1>1, <1>15, ArchiveIs
  <2>2. \A k \in Keys : new[k] \subseteq prefs[t][k] \cup items[t]
    BY <1>15, <2>1, KeysAre DEF Archive
  <2>3. Ready(t) /\ UNCHANGED <<scene, life, blob, phase, items, reads, answers, astray, asked>>
    BY <1>15 DEF Archive
  <2> QED
    BY <2>1, <2>2, <2>3, PartsUser
<1>16. ASSUME NEW l \in Lists, Restore(t, l)
       PROVE  PruneParts(t)'
  <2>1. PICK new \in Prefs : /\ Changed(t, new, "user")
                             /\ new["placed"] = prefs[t]["placed"] \ {l}
                             /\ new["hidden"] = prefs[t]["hidden"]
    BY <1>1, <1>16, RestoreIs
  <2>2. \A k \in Keys : new[k] \subseteq prefs[t][k] \cup items[t]
    BY <2>1, KeysAre
  <2>3. Ready(t) /\ UNCHANGED <<scene, life, blob, phase, items, reads, answers, astray, asked>>
    BY <1>16 DEF Restore
  <2> QED
    BY <2>1, <2>2, <2>3, PartsUser
<1>17. ASSUME NEW l \in Lists, NEW k \in Keys, Toggle(t, k, l)
       PROVE  PruneParts(t)'
  <2>1. PICK new \in Prefs :
            /\ Changed(t, new, "user")
            /\ new[k] = (IF l \in prefs[t][k] THEN prefs[t][k] \ {l} ELSE prefs[t][k] \cup {l})
            /\ \A j \in Keys \ {k} : new[j] = prefs[t][j]
    BY <1>1, <1>17, ToggleIs
  <2>2. \A j \in Keys : new[j] \subseteq prefs[t][j] \cup items[t]
    BY <1>17, <2>1 DEF Toggle
  <2>3. Ready(t) /\ UNCHANGED <<scene, life, blob, phase, items, reads, answers, astray, asked>>
    BY <1>17 DEF Toggle
  <2> QED
    BY <2>1, <2>2, <2>3, PartsUser
<1> QED
  BY <1>4, <1>5, <1>6, <1>7, <1>8, <1>9, <1>10, <1>11, <1>12, <1>13, <1>14, <1>15, <1>16, <1>17
  DEF Next, Load, Asking

LEMMA TabStep ==
    ASSUME NEW t \in Tabs, Tabs = {t}, TabInv(t), [Next]_vars
    PROVE  TabInv(t)'
<1>1. StoreInv(t) /\ StoreInv(t)'
  BY StoreStep DEF TabInv
<1>2. CASE UNCHANGED vars
  <2> USE <1>2 DEF vars, loading, tab, asking, history
  <2>1. (Knows(t)' <=> Knows(t)) /\ (InOrder(t)' <=> InOrder(t))
    BY DEF Knows, InOrder, Known, Ready, Live, Deleted, Calendars
  <2>2. QueuePrunes(t)' <=> QueuePrunes(t)
    BY DEF QueuePrunes, Gone, Deleted
  <2>3. (RailCovers(t)' <=> RailCovers(t)) /\ (Serves(t)' <=> Serves(t)) /\ (Safe' <=> Safe)
    BY DEF RailCovers, Serves, Safe, Gone, Deleted, Ready, Calendars
  <2> QED
    BY <1>1, <2>1, <2>2, <2>3 DEF TabInv, PruneInv, PruneParts
<1>3. CASE Next
  <2>1. Safe' => Safe
    BY Keeps DEF Safe, Calendars
  <2> QED
    BY <1>1, <1>3, <2>1, PartsStep DEF TabInv, PruneInv
<1> QED
  BY <1>2, <1>3

LEMMA TabInit ==
    ASSUME NEW t \in Tabs, Init
    PROVE  TabInv(t)
<1>1. /\ items[t] = {} /\ prefs[t] = NoPrefs /\ puts[t] = NoPuts /\ asked[t] = Nothing
      /\ answers[t] = <<>>
      /\ \A k \in Keys : blob[k] \subseteq Live \cup Deleted
  BY DEF Init
<1>2. Known(t) \subseteq Live \cup Deleted
  BY <1>1 DEF Known, NoPrefs
<1>3. PICK e : e = NewRead(t) /\ e.prefs = NoPrefs
  BY <1>1, TypedInit, NewReadIs
<1>4. reads[t] = <<e>> /\ \A x \in Elems(<<e>>) : x = e
  BY <1>3, ElemsOne DEF Init
<1>5. Len(<<>>) = 0
  OBVIOUS
<1>6. \A n \in 1 .. Len(<<>>) : FALSE
  BY <1>5
<1>7. Elems(<<>>) = {} /\ Grows(<<>>, Deleted) /\ \A b, gone : PrunesAll(<<>>, b, gone)
  BY <1>6 DEF Elems, Grows, PrunesAll
<1>8. Knows(t) /\ InOrder(t)
  BY <1>1, <1>2, <1>3, <1>4, <1>7 DEF Knows, InOrder, NoPrefs
<1>9. QueuePrunes(t)
  BY <1>1, <1>7 DEF QueuePrunes, NoPuts
<1>10. RailCovers(t) /\ Serves(t)
  BY <1>1 DEF RailCovers, Serves, Nothing
<1> QED
  BY <1>8, <1>9, <1>10, StoreInit DEF TabInv, PruneInv, PruneParts

\* In a session without creations and failures, what a PUT for pruning takes out
\* of the stored settings of a single tab is deleted, or being deleted: neither
\* the empty rail of a view that has just been opened nor the closure of one that
\* has been left makes it take more, and what was hidden, placed or restored while
\* the PUT was under way is not put back.  That is if PUTs of the key have not
\* overtaken one another; and in the task lists, if no answer to a read of the
\* lists has, in the calendars, if pruning has not undone what the user did.
THEOREM PrunesOnlyGone ==
    ASSUME NEW s, Tabs = {s}
    PROVE  Spec => PruneOnlyPrunes
<1>1. s \in Tabs
  OBVIOUS
<1>2. Init => TabInv(s)
  BY <1>1, TabInit
<1>3. TabInv(s) /\ [Next]_vars => TabInv(s)'
  BY <1>1, TabStep
<1>4. ASSUME TabInv(s), NEW j \in Keys, ServePut(s, j),
             NEW k \in Keys, Safe, k \notin astray', PruneArrives(s, k)
      PROVE  blob'[k] \subseteq blob[k] /\ blob[k] \ blob'[k] \subseteq Gone(s)
  <2>1. Typed
    BY <1>4 DEF TabInv, StoreInv
  <2>2. PICK n \in 1 .. Len(puts[s][j]), b \in Prefs :
            /\ Overtakes(j, n)
            /\ blob' = b /\ b[j] = puts[s][j][n].val
            /\ \A i \in Keys \ {j} : b[i] = blob[i]
    BY <1>1, <1>4, <2>1, ServePutIs
  <2>3. CASE j = k
    <3>1. n = 1 /\ k \notin astray
      BY <1>4, <2>2, <2>3 DEF Overtakes
    <3>2. PICK q \in Seq(Put) : q = puts[s][k]
      BY <1>1, <2>1, TypedFacts
    <3>3. 1 \in 1 .. Len(q) /\ Head(q) = q[1]
      BY <2>2, <2>3, <3>1, <3>2, OthersTail
    <3>4. q[1].by = "prune"
      BY <1>4, <3>2, <3>3 DEF PruneArrives
    <3>5. PICK gone : gone = Gone(s)
      OBVIOUS
    <3>6. PrunesAll(q, blob[k], gone)
      BY <1>4, <3>1, <3>2, <3>5 DEF TabInv, PruneInv, PruneParts, QueuePrunes
    <3>7. Prunes(blob[k], q[1].val, gone)
      BY <3>3, <3>4, <3>6, PutArrives
    <3> QED
      BY <2>2, <2>3, <3>1, <3>2, <3>5, <3>7 DEF Prunes
  <2>4. CASE j # k
    BY <2>2, <2>4
  <2> QED
    BY <2>3, <2>4
<1>5. ASSUME [Next]_vars, \A j \in Keys : ~ ServePut(s, j)
      PROVE  blob' = blob
  <2> USE DEF loading, tab, asking, history
  <2>1. CASE UNCHANGED vars
    BY <2>1 DEF vars
  <2>2. CASE LandRead(s)
    BY <2>2 DEF LandRead
  <2>3. CASE \/ Load(s) \/ Reopen(s) \/ Refetch(s) \/ ServeRead(s) \/ LoseRead(s)
             \/ Asking(s) \/ RemoveFails(s) \/ Create(s)
    BY <2>3 DEF Load, Asking, ReadSettings, LandSettings, Reopen, Refetch, ServeRead, LoseRead,
       ServeRemove, Removed, ServeCreate, Created, RemoveFails, Create
  <2>4. CASE \/ \E k \in Keys : LosePut(s, k)
             \/ \E l \in Lists : \/ Remove(s, l) \/ Archive(s, l) \/ Restore(s, l)
                                 \/ ForeignChange(l) \/ \E k \in Keys : Toggle(s, k, l)
    BY <2>4 DEF LosePut, Remove, Archive, Restore, Toggle, ForeignChange
  <2> QED
    BY <1>1, <1>5, <2>1, <2>2, <2>3, <2>4 DEF Next
<1>6. ASSUME TabInv(s), [Next]_vars, NEW t \in Tabs, NEW k \in Keys,
             \/ scene = "plain" /\ "lists" \notin astray'
             \/ Calendars /\ ~undone,
             k \notin astray', PruneArrives(t, k)
      PROVE  /\ blob'[k] \subseteq blob[k]
             /\ blob[k] \ blob'[k] \subseteq Deleted \cup {asked[u].list : u \in Tabs}
  <2>1. t = s /\ Safe
    BY <1>6, Keeps DEF Safe
  <2>2. Gone(s) \subseteq Deleted \cup {asked[u].list : u \in Tabs}
    BY <1>1 DEF Gone
  <2>3. CASE \E j \in Keys : ServePut(s, j)
    <3>1. PICK j \in Keys : ServePut(s, j)
      BY <2>3
    <3>2. blob'[k] \subseteq blob[k] /\ blob[k] \ blob'[k] \subseteq Gone(s)
      BY <1>4, <1>6, <2>1, <3>1
    <3> QED
      BY <2>2, <3>2
  <2>4. CASE \A j \in Keys : ~ ServePut(s, j)
    <3>1. blob' = blob
      BY <1>5, <1>6, <2>4
    <3> QED
      BY <3>1
  <2> QED
    BY <2>3, <2>4
<1>7. TabInv(s) /\ [Next]_vars =>
          [\A t \in Tabs, k \in Keys :
              /\ \/ scene = "plain" /\ "lists" \notin astray'
                 \/ Calendars /\ ~undone
              /\ k \notin astray'
              /\ PruneArrives(t, k)
              => /\ blob'[k] \subseteq blob[k]
                 /\ blob[k] \ blob'[k] \subseteq Deleted \cup {asked[u].list : u \in Tabs}]_vars
  BY <1>6
<1> QED
  BY <1>2, <1>3, <1>7, PTL DEF Spec, PruneOnlyPrunes
=============================================================================

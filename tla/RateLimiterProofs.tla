-------------------------- MODULE RateLimiterProofs --------------------------
(***************************************************************************)
(* Proofs about RateLimiter.  The invariant says, of every key, what its   *)
(* failures, its lockout, the clock and the last sweep have to do with     *)
(* each other and, on the public routes, with the requests let in: the     *)
(* failures are the last of those, and one is forgotten only when it is a  *)
(* window old or when the lockout it led to is as old as a lockout gets.   *)
(***************************************************************************)
EXTENDS RateLimiter, FiniteSetTheorems, SequenceTheorems, WellFoundedInduction, TLAPS

-----------------------------------------------------------------------------
(* The inductive invariant                                                 *)

Shorter == IF Window < Lockout THEN Window ELSE Lockout

\* The times s are in the order of the clock, which is at t.
InOrder(s, t) ==
    /\ \A i, j \in 1 .. Len(s) : i <= j => s[i] <= s[j]
    /\ \A i \in 1 .. Len(s) : s[i] <= t

\* A key's failures f and the end lk of its lockout, on any route.
KeyOK(f, lk, t) ==
    /\ f \in Seq(Times) /\ Len(f) < MaxFails
    /\ InOrder(f, t)
    /\ lk \in Nat /\ lk <= t + Lockout

\* The failures f of a key are the last of its admissions a.
FailsAdmitted(f, a) ==
    /\ Len(f) <= Len(a)
    /\ \A i \in 1 .. Len(f) : f[i] = a[Len(a) - Len(f) + i]

\* Admissions that are not counted any more are old, or the lockout still is
\* there and ends late enough for them.
RestIsOld(f, a, lk, t) ==
    \A i \in 1 .. Len(a) - Len(f) :
        a[i] + Shorter <= t \/ (lk # 0 /\ a[i] + Lockout <= lk)

\* MaxFails admissions on, the clock has gone on by the shorter of the spans.
Spaced(a) ==
    \A i \in 1 .. Len(a) - MaxFails : a[i + MaxFails] >= a[i] + Shorter

\* A lockout began with the last admission, the end of MaxFails within a window.
LockedForCause(a, lk) ==
    lk # 0 =>
        /\ Len(a) >= MaxFails
        /\ lk = a[Len(a)] + Lockout
        /\ a[Len(a)] < a[Len(a) - MaxFails + 1] + Window

\* What the last sweep, at w, has left.
SweptOK(f, lk, w) ==
    /\ f # <<>> => lk = 0 /\ w < f[Len(f)] + Window
    /\ lk # 0 => lk > w

PublicOK(f, a, lk, t, w) ==
    /\ a \in Seq(Times) /\ InOrder(a, t)
    /\ FailsAdmitted(f, a)
    /\ RestIsOld(f, a, lk, t)
    /\ Spaced(a)
    /\ LockedForCause(a, lk)
    /\ SweptOK(f, lk, w)

LimiterInv ==
    /\ TypeOK
    /\ lastSweep <= now
    /\ \A k \in Keys : KeyOK(fails[k], locked[k], now)
    /\ public => \A k \in Keys : PublicOK(fails[k], admitted[k], locked[k], now, lastSweep)

-----------------------------------------------------------------------------
(* Lemmas                                                                  *)

\* A non-empty set of natural numbers has a least element.
LEMMA LeastNatural ==
    ASSUME NEW T, T \subseteq Nat, T # {}
    PROVE  \E n \in T : \A m \in T : n <= m
<1>1. PICK F : F = {T \cap (0 .. n) : n \in T}
  OBVIOUS
<1>2. F \subseteq FiniteSubsetsOf(Nat) /\ F # {}
  <2>1. \A n \in T : IsFiniteSet(0 .. n)
    BY FS_Interval
  <2>2. \A n \in T : IsFiniteSet(T \cap (0 .. n))
    BY <2>1, FS_Intersection
  <2> QED
    BY <1>1, <2>2 DEF FiniteSubsetsOf
<1>3. \E f \in F : \A g \in F : <<g, f>> \notin StrictSubsetOrdering(Nat)
  BY <1>2, FS_StrictSubsetOrderingWellFounded, WFMin
<1>4. PICK n \in T : \A g \in F : <<g, T \cap (0 .. n)>> \notin StrictSubsetOrdering(Nat)
  BY <1>1, <1>3
<1>5. SUFFICES ASSUME NEW m \in T, m < n
               PROVE  FALSE
  OBVIOUS
<1>6. /\ T \cap (0 .. m) \subseteq T \cap (0 .. n)
      /\ n \in T \cap (0 .. n) /\ n \notin T \cap (0 .. m)
  BY <1>5
<1>7. T \cap (0 .. m) \in F
  BY <1>1
<1> QED
  BY <1>4, <1>6, <1>7 DEF StrictSubsetOrdering

\* Within drops a first part of the times, exactly those that are n ticks old.
LEMMA WithinDrops ==
    ASSUME NEW S \in SUBSET Nat, NEW s \in Seq(S), NEW t \in Nat, InOrder(s, t), NEW n \in Nat
    PROVE  \E d \in 0 .. Len(s) :
               /\ Within(s, t, n) \in Seq(S)
               /\ Len(Within(s, t, n)) = Len(s) - d
               /\ \A i \in 1 .. Len(s) - d : Within(s, t, n)[i] = s[d + i]
               /\ \A i \in 1 .. d : s[i] + n <= t
               /\ \A i \in d + 1 .. Len(s) : t < s[i] + n
<1> DEFINE Aged == {i \in DOMAIN s : t - s[i] >= n}
           Kept == {i \in 0 .. Len(s) : \A j \in i + 1 .. Len(s) : t < s[j] + n}
<1>1. Len(s) \in Nat /\ DOMAIN s = 1 .. Len(s) /\ \A i \in 1 .. Len(s) : s[i] \in Nat
  <2>1. Len(s) \in Nat /\ DOMAIN s = 1 .. Len(s)
    BY LenProperties
  <2>2. \A i \in 1 .. Len(s) : s[i] \in S
    BY ElementOfSeq
  <2> QED
    BY <2>1, <2>2
<1>2. Kept \subseteq Nat /\ Len(s) \in Kept
  BY <1>1
<1>3. PICK d \in Kept : \A m \in Kept : d <= m
  BY <1>2, LeastNatural
<1>4. d \in 0 .. Len(s) /\ \A i \in d + 1 .. Len(s) : t < s[i] + n
  BY <1>3
<1>5. ASSUME NEW i \in 1 .. d
      PROVE  s[i] + n <= t
  <2>1. d \in Nat /\ d >= 1 /\ d - 1 \in 0 .. Len(s) /\ d - 1 \notin Kept
    <3>1. d \in Nat /\ i \in Nat /\ i >= 1 /\ i <= d
      BY <1>1, <1>4
    <3>2. d \in Nat /\ d >= 1 /\ d - 1 \in 0 .. Len(s) /\ ~ d <= d - 1
      BY <1>1, <1>4, <3>1
    <3> QED
      BY <1>3, <3>2
  <2>2. PICK j \in (d - 1) + 1 .. Len(s) : ~ t < s[j] + n
    BY <2>1
  <2>3. j = d
    BY <1>1, <1>4, <2>1, <2>2
  <2>4. s[i] <= s[d]
    BY <1>1, <1>4, <2>1 DEF InOrder
  <2> QED
    BY <1>1, <1>4, <2>1, <2>2, <2>3, <2>4
<1>6. Aged = 1 .. d
  BY <1>1, <1>4, <1>5
<1>7. Cardinality(Aged) = d
  <2>1. d \in Int /\ 1 \in Int
    BY <1>1, <1>4
  <2> HIDE DEF Aged
  <2> QED
    BY <1>1, <1>4, <1>6, <2>1, FS_Interval
<1> HIDE DEF Kept
<1>8. Within(s, t, n) = SubSeq(s, d + 1, Len(s))
  <2>1. Within(s, t, n) = SubSeq(s, 1 + d, Len(s))
    BY <1>7 DEF Within
  <2>2. 1 + d = d + 1
    BY <1>1, <1>4
  <2> QED
    BY <2>1, <2>2
<1>9. /\ SubSeq(s, d + 1, Len(s)) \in Seq(S)
      /\ Len(SubSeq(s, d + 1, Len(s))) = Len(s) - d
      /\ \A i \in 1 .. Len(s) - d : SubSeq(s, d + 1, Len(s))[i] = s[d + i]
  <2>1. \A i \in d + 1 .. Len(s) : s[i] \in S
    <3>1. \A i \in d + 1 .. Len(s) : i \in 1 .. Len(s)
      BY <1>1, <1>4
    <3> QED
      BY <3>1, ElementOfSeq
  <2>2. d + 1 \in Int /\ Len(s) \in Int
    BY <1>1, <1>4
  <2>3. /\ SubSeq(s, d + 1, Len(s)) \in Seq(S)
        /\ Len(SubSeq(s, d + 1, Len(s))) = IF d + 1 <= Len(s) THEN Len(s) - (d + 1) + 1 ELSE 0
        /\ \A i \in 1 .. Len(s) - (d + 1) + 1 : SubSeq(s, d + 1, Len(s))[i] = s[(d + 1) + i - 1]
    BY <2>1, <2>2, SubSeqProperties
  <2>4. /\ Len(s) - (d + 1) + 1 = Len(s) - d
        /\ d + 1 > Len(s) => Len(s) - d = 0
        /\ \A i \in 1 .. Len(s) - d : (d + 1) + i - 1 = d + i
    <3>1. d \in Nat /\ Len(s) \in Nat /\ d <= Len(s)
      BY <1>1, <1>4
    <3> QED
      BY <3>1
  <2>5. Len(SubSeq(s, d + 1, Len(s))) = Len(s) - d
    <3>1. d \in Nat /\ Len(s) \in Nat /\ d <= Len(s)
      BY <1>1, <1>4
    <3> QED
      BY <2>3, <3>1
  <2>6. \A i \in 1 .. Len(s) - d : SubSeq(s, d + 1, Len(s))[i] = s[d + i]
    BY <2>3, <2>4
  <2> QED
    BY <2>3, <2>5, <2>6
<1> QED
  BY <1>4, <1>5, <1>8, <1>9

\* g is f without its first d times.
Without(f, g, d) ==
    /\ d \in 0 .. Len(f)
    /\ Len(g) = Len(f) - d
    /\ \A i \in 1 .. Len(f) - d : g[i] = f[d + i]

LEMMA SeqFacts ==
    ASSUME NEW s \in Seq(Times)
    PROVE  /\ Len(s) \in Nat
           /\ \A i \in 1 .. Len(s) : s[i] \in Times /\ s[i] \in Nat
           /\ s # <<>> => Len(s) >= 1
<1>1. Len(s) \in Nat
  BY LenProperties
<1>2. s # <<>> => Len(s) >= 1
  <2>1. s # <<>> => Len(s) # 0
    BY EmptySeq
  <2> QED
    BY <1>1, <2>1
<1>3. \A i \in 1 .. Len(s) : s[i] \in Times
  BY ElementOfSeq
<1>4. Times \subseteq Nat
  BY TimesAssumption DEF Times
<1>5. \A i \in 1 .. Len(s) : s[i] \in Nat
  BY <1>3, <1>4
<1> QED
  BY <1>1, <1>2, <1>3, <1>5

\* The failures stay in order when the first of them are forgotten.
LEMMA KeyForgets ==
    ASSUME NEW f \in Seq(Times), NEW g \in Seq(Times), NEW d, Without(f, g, d),
           NEW t \in Nat, NEW lk, NEW mk, mk = lk \/ mk = 0, KeyOK(f, lk, t)
    PROVE  KeyOK(g, mk, t)
<1>1. /\ Len(f) \in Nat /\ Len(g) \in Nat /\ d \in Nat
      /\ Len(g) = Len(f) - d /\ Len(f) < MaxFails
  BY SeqFacts DEF Without, KeyOK
<1>2. \A i \in 1 .. Len(g) : d + i \in 1 .. Len(f) /\ g[i] = f[d + i]
  BY <1>1 DEF Without
<1>3. InOrder(g, t)
  <2>1. \A i, j \in 1 .. Len(g) : i <= j => d + i <= d + j
    BY <1>1
  <2> QED
    BY <1>2, <2>1 DEF KeyOK, InOrder
<1>4. mk \in Nat /\ mk <= t + Lockout
  BY TimesAssumption DEF KeyOK
<1> QED
  BY <1>1, <1>3, <1>4, FailsAssumption DEF KeyOK

\* On the public routes failures that are a window old may be forgotten, and
\* lockouts that are over.
LEMMA PublicForgets ==
    ASSUME NEW f \in Seq(Times), NEW g \in Seq(Times), NEW d, Without(f, g, d),
           NEW t \in Nat, \A i \in 1 .. d : f[i] + Window <= t,
           NEW lk \in Nat, NEW mk, mk = lk \/ (mk = 0 /\ lk <= t),
           NEW a, NEW w, PublicOK(f, a, lk, t, w)
    PROVE  PublicOK(g, a, mk, t, w)
<1>1. /\ Len(f) \in Nat /\ Len(g) \in Nat /\ Len(a) \in Nat /\ d \in Nat
      /\ Len(g) = Len(f) - d /\ Len(f) <= Len(a)
  BY SeqFacts DEF Without, PublicOK, FailsAdmitted
<1>2. \A i \in 1 .. Len(g) : d + i \in 1 .. Len(f) /\ g[i] = f[d + i]
  BY <1>1 DEF Without
<1>3. \A i \in 1 .. Len(a) : a[i] \in Nat
  BY SeqFacts DEF PublicOK
<1>4. FailsAdmitted(g, a)
  <2>1. \A i \in 1 .. Len(f) : f[i] = a[Len(a) - Len(f) + i]
    BY DEF PublicOK, FailsAdmitted
  <2>2. \A i \in 1 .. Len(g) : Len(a) - Len(f) + (d + i) = Len(a) - Len(g) + i
    BY <1>1
  <2>3. \A i \in 1 .. Len(g) : g[i] = a[Len(a) - Len(g) + i]
    BY <1>2, <2>1, <2>2
  <2> QED
    BY <1>1, <2>3 DEF FailsAdmitted
<1>5. RestIsOld(g, a, mk, t)
  <2> SUFFICES ASSUME NEW i \in 1 .. Len(a) - Len(g)
               PROVE  a[i] + Shorter <= t \/ (mk # 0 /\ a[i] + Lockout <= mk)
    BY DEF RestIsOld
  <2>1. i \in 1 .. Len(a) /\ a[i] \in Nat
    BY <1>1, <1>3
  <2>2. Shorter \in Nat /\ Shorter <= Window /\ Shorter <= Lockout
    BY TimesAssumption DEF Shorter
  <2>3. CASE i <= Len(a) - Len(f)
    <3>1. a[i] + Shorter <= t \/ (lk # 0 /\ a[i] + Lockout <= lk)
      BY <1>1, <2>3 DEF PublicOK, RestIsOld
    <3> QED
      BY <2>1, <2>2, <3>1, TimesAssumption
  <2>4. CASE ~ i <= Len(a) - Len(f)
    <3>1. PICK j \in 1 .. d : i = Len(a) - Len(f) + j
      <4>1. i - (Len(a) - Len(f)) \in 1 .. d
        BY <1>1, <2>4
      <4> QED
        BY <1>1, <4>1
    <3>2. j \in 1 .. Len(f)
      BY <1>1
    <3>3. f[j] = a[i]
      BY <3>1, <3>2 DEF PublicOK, FailsAdmitted
    <3>4. a[i] + Window <= t
      BY <3>1, <3>3
    <3> QED
      BY <2>1, <2>2, <3>4, TimesAssumption
  <2> QED
    BY <2>3, <2>4
<1>6. LockedForCause(a, mk)
  BY DEF PublicOK, LockedForCause
<1>7. SweptOK(g, mk, w)
  <2>1. ASSUME g # <<>>
        PROVE  mk = 0 /\ w < g[Len(g)] + Window
    <3>1. Len(g) >= 1
      BY <2>1, SeqFacts
    <3>2. g[Len(g)] = f[Len(f)] /\ Len(f) >= 1
      <4>1. Len(g) \in 1 .. Len(g) /\ d + Len(g) = Len(f) /\ Len(f) >= 1
        BY <1>1, <3>1
      <4> QED
        BY <1>2, <4>1
    <3>3. f # <<>>
      BY <3>2, EmptySeq
    <3> QED
      BY <3>2, <3>3 DEF PublicOK, SweptOK
  <2> QED
    BY <2>1 DEF PublicOK, SweptOK
<1> QED
  BY <1>4, <1>5, <1>6, <1>7 DEF PublicOK

\* The invariant outlasts a tick of the clock.
LEMMA KeyTicks ==
    ASSUME NEW f, NEW a, NEW lk, NEW w, NEW t \in Nat
    PROVE  /\ KeyOK(f, lk, t) => KeyOK(f, lk, t + 1)
           /\ PublicOK(f, a, lk, t, w) => PublicOK(f, a, lk, t + 1, w)
<1>1. \A s \in Seq(Times) : InOrder(s, t) => InOrder(s, t + 1)
  <2> SUFFICES ASSUME NEW s \in Seq(Times), InOrder(s, t)
               PROVE  InOrder(s, t + 1)
    OBVIOUS
  <2>1. \A i \in 1 .. Len(s) : s[i] <= t + 1
    BY SeqFacts DEF InOrder
  <2> QED
    BY <2>1 DEF InOrder
<1>2. KeyOK(f, lk, t) => KeyOK(f, lk, t + 1)
  <2>1. lk \in Nat /\ lk <= t + Lockout => lk <= (t + 1) + Lockout
    BY TimesAssumption
  <2> QED
    BY <1>1, <2>1 DEF KeyOK
<1>3. ASSUME PublicOK(f, a, lk, t, w)
      PROVE  PublicOK(f, a, lk, t + 1, w)
  <2>1. a \in Seq(Times) /\ Len(f) <= Len(a)
    BY <1>3 DEF PublicOK, FailsAdmitted
  <2>2. RestIsOld(f, a, lk, t + 1)
    <3> SUFFICES ASSUME NEW i \in 1 .. Len(a) - Len(f), a[i] + Shorter <= t
                 PROVE  a[i] + Shorter <= t + 1
      BY <1>3 DEF PublicOK, RestIsOld
    <3> QED
      BY <2>1, SeqFacts, TimesAssumption DEF Shorter
  <2> QED
    BY <1>1, <1>3, <2>1, <2>2 DEF PublicOK
<1> QED
  BY <1>2, <1>3

\* Admissions too old to matter to a window and a lockout may be forgotten,
\* while the key is not locked and its failures are recent.
LEMMA AdmissionsForgotten ==
    ASSUME NEW f \in Seq(Times), NEW a \in Seq(Times), NEW b \in Seq(Times), NEW d, Without(a, b, d),
           NEW t \in Nat, \A i \in 1 .. d : a[i] + (Window + Lockout) <= t,
           \A i \in 1 .. Len(f) : t < f[i] + Window,
           NEW w, PublicOK(f, a, 0, t, w)
    PROVE  PublicOK(f, b, 0, t, w)
<1>1. /\ Len(f) \in Nat /\ Len(a) \in Nat /\ Len(b) \in Nat /\ d \in Nat
      /\ Len(b) = Len(a) - d /\ d <= Len(a) /\ Len(f) <= Len(a)
  BY SeqFacts DEF Without, PublicOK, FailsAdmitted
<1>2. \A i \in 1 .. Len(b) : d + i \in 1 .. Len(a) /\ b[i] = a[d + i]
  BY <1>1 DEF Without
<1>3. /\ \A i \in 1 .. Len(a) : a[i] \in Nat
      /\ \A i \in 1 .. Len(b) : b[i] \in Nat
  BY SeqFacts
<1>4. Len(f) <= Len(b)
  <2> SUFFICES ASSUME d > Len(a) - Len(f)
               PROVE  FALSE
    BY <1>1
  <2>1. d - (Len(a) - Len(f)) \in 1 .. Len(f)
    BY <1>1
  <2>2. f[d - (Len(a) - Len(f))] = a[Len(a) - Len(f) + (d - (Len(a) - Len(f)))]
    BY <2>1 DEF PublicOK, FailsAdmitted
  <2>3. Len(a) - Len(f) + (d - (Len(a) - Len(f))) = d /\ d \in 1 .. d /\ d \in 1 .. Len(a)
    BY <1>1
  <2>4. t < a[d] + Window /\ a[d] + (Window + Lockout) <= t /\ a[d] \in Nat
    BY <1>3, <2>1, <2>2, <2>3
  <2> QED
    BY <2>4, TimesAssumption
<1>5. InOrder(b, t)
  <2>1. \A i, j \in 1 .. Len(b) : i <= j => d + i <= d + j
    BY <1>1
  <2> QED
    BY <1>2, <2>1 DEF PublicOK, InOrder
<1>6. FailsAdmitted(f, b)
  <2>1. \A i \in 1 .. Len(f) : f[i] = a[Len(a) - Len(f) + i]
    BY DEF PublicOK, FailsAdmitted
  <2>2. \A i \in 1 .. Len(f) : /\ Len(a) - Len(f) + i = d + (Len(b) - Len(f) + i)
                               /\ Len(b) - Len(f) + i \in 1 .. Len(b)
    BY <1>1, <1>4
  <2>3. \A i \in 1 .. Len(f) : f[i] = b[Len(b) - Len(f) + i]
    BY <1>2, <2>1, <2>2
  <2> QED
    BY <1>4, <2>3 DEF FailsAdmitted
<1>7. RestIsOld(f, b, 0, t)
  <2>1. \A i \in 1 .. Len(b) - Len(f) : d + i \in 1 .. Len(a) - Len(f) /\ i \in 1 .. Len(b)
    BY <1>1
  <2>2. \A i \in 1 .. Len(a) - Len(f) : a[i] + Shorter <= t
    BY DEF PublicOK, RestIsOld
  <2> QED
    BY <1>2, <2>1, <2>2 DEF RestIsOld
<1>8. Spaced(b)
  <2>1. \A i \in 1 .. Len(b) - MaxFails :
            /\ d + i \in 1 .. Len(a) - MaxFails /\ d + i + MaxFails = d + (i + MaxFails)
            /\ i \in 1 .. Len(b) /\ i + MaxFails \in 1 .. Len(b)
    BY <1>1, FailsAssumption
  <2>2. \A i \in 1 .. Len(a) - MaxFails : a[i + MaxFails] >= a[i] + Shorter
    BY DEF PublicOK, Spaced
  <2>3. \A i \in 1 .. Len(b) - MaxFails : b[i] = a[d + i] /\ b[i + MaxFails] = a[d + i + MaxFails]
    BY <1>2, <2>1
  <2>4. \A i \in 1 .. Len(b) - MaxFails : b[i + MaxFails] >= b[i] + Shorter
    BY <2>1, <2>2, <2>3
  <2> QED
    BY <2>4 DEF Spaced
<1> QED
  BY <1>5, <1>6, <1>7, <1>8 DEF PublicOK, LockedForCause

\* The time t of the clock goes to the end of the times.
LEMMA AppendInOrder ==
    ASSUME NEW s \in Seq(Times), NEW t \in Times, InOrder(s, t)
    PROVE  InOrder(Append(s, t), t)
<1> DEFINE q == Append(s, t)
<1>1. Len(s) \in Nat /\ t \in Nat
  BY SeqFacts, TimesAssumption DEF Times
<1>2. Len(q) = Len(s) + 1 /\ q[Len(s) + 1] = t /\ \A i \in 1 .. Len(s) : q[i] = s[i]
  BY AppendProperties
<1> HIDE DEF q
<1>3. \A i \in 1 .. Len(q) : (i \in 1 .. Len(s) /\ q[i] = s[i]) \/ (i = Len(s) + 1 /\ q[i] = t)
  BY <1>1, <1>2
<1>4. \A i \in 1 .. Len(q) : q[i] <= t
  BY <1>1, <1>3 DEF InOrder
<1>5. ASSUME NEW i \in 1 .. Len(q), NEW j \in 1 .. Len(q), i <= j
      PROVE  q[i] <= q[j]
  <2>1. CASE j = Len(s) + 1
    BY <1>2, <1>4, <2>1
  <2>2. CASE j \in 1 .. Len(s)
    <3>1. i \in 1 .. Len(s)
      BY <1>1, <1>3, <1>5, <2>2
    <3>2. s[i] <= s[j]
      BY <1>5, <2>2, <3>1 DEF InOrder
    <3> QED
      BY <1>2, <2>2, <3>1, <3>2
  <2> QED
    BY <1>3, <2>1, <2>2
<1> QED
  BY <1>4, <1>5 DEF InOrder, q

\* A request that is let in is recorded.
LEMMA PublicAdmits ==
    ASSUME NEW r \in Seq(Times), NEW b \in Seq(Times), NEW t \in Times,
           KeyOK(r, 0, t), \A i \in 1 .. Len(r) : t < r[i] + Window,
           NEW w \in Nat, w <= t, PublicOK(r, b, 0, t, w)
    PROVE  LET f == Append(r, t)
               a == Append(b, t)
           IN  /\ a \in Seq(Times) /\ f \in Seq(Times)
               /\ Len(f) < MaxFails => PublicOK(f, a, 0, t, w)
               /\ ~ Len(f) < MaxFails => PublicOK(<<>>, a, t + Lockout, t, w)
<1> DEFINE f == Append(r, t)
           a == Append(b, t)
<1>1. /\ Len(r) \in Nat /\ Len(b) \in Nat /\ Len(r) <= Len(b) /\ Len(r) < MaxFails
      /\ t \in Nat
  BY SeqFacts, TimesAssumption DEF Times, PublicOK, FailsAdmitted, KeyOK
<1>2. /\ f \in Seq(Times) /\ Len(f) = Len(r) + 1 /\ f[Len(r) + 1] = t
      /\ \A i \in 1 .. Len(r) : f[i] = r[i]
  BY AppendProperties
<1>3. /\ a \in Seq(Times) /\ Len(a) = Len(b) + 1 /\ a[Len(b) + 1] = t
      /\ \A i \in 1 .. Len(b) : a[i] = b[i]
  BY AppendProperties
<1>4. /\ \A i \in 1 .. Len(b) : b[i] \in Nat
      /\ \A i \in 1 .. Len(r) : r[i] \in Nat
  BY SeqFacts
<1> HIDE DEF f, a
<1>5. InOrder(f, t) /\ InOrder(a, t)
  <2>1. InOrder(r, t) /\ InOrder(b, t)
    BY DEF KeyOK, PublicOK
  <2> QED
    BY <2>1, AppendInOrder DEF f, a
<1>6. Shorter \in Nat /\ Shorter <= Window /\ Shorter <= Lockout /\ Window >= 1 /\ Lockout >= 1
  BY TimesAssumption DEF Shorter
<1>7. \A i \in 1 .. Len(b) - Len(r) : i \in 1 .. Len(b) /\ a[i] = b[i] /\ a[i] + Shorter <= t
  <2>1. \A i \in 1 .. Len(b) - Len(r) : i \in 1 .. Len(b)
    BY <1>1
  <2>2. \A i \in 1 .. Len(b) - Len(r) : b[i] + Shorter <= t
    BY DEF PublicOK, RestIsOld
  <2> QED
    BY <1>3, <2>1, <2>2
<1>8. Spaced(a)
  <2> SUFFICES ASSUME NEW i \in 1 .. Len(a) - MaxFails
               PROVE  a[i + MaxFails] >= a[i] + Shorter
    BY DEF Spaced
  <2>1. i \in Nat /\ i >= 1 /\ i + MaxFails <= Len(b) + 1 /\ i <= Len(b) - Len(r)
    BY <1>1, <1>3, FailsAssumption
  <2>2. CASE i + MaxFails = Len(b) + 1
    <3>1. i \in 1 .. Len(b) - Len(r)
      BY <1>1, <2>1
    <3>2. a[i] + Shorter <= t /\ a[i] \in Nat
      BY <1>4, <1>7, <3>1
    <3> QED
      BY <1>1, <1>3, <1>6, <2>2, <3>2
  <2>3. CASE i + MaxFails <= Len(b)
    <3>1. i \in 1 .. Len(b) - MaxFails /\ i \in 1 .. Len(b) /\ i + MaxFails \in 1 .. Len(b)
      BY <1>1, <2>1, <2>3, FailsAssumption
    <3>2. b[i + MaxFails] >= b[i] + Shorter
      BY <3>1 DEF PublicOK, Spaced
    <3> QED
      BY <1>3, <3>1, <3>2
  <2> QED
    BY <1>1, <2>1, <2>2, <2>3, FailsAssumption
<1>9. ASSUME Len(f) < MaxFails
       PROVE  PublicOK(f, a, 0, t, w)
  <2>1. FailsAdmitted(f, a)
    <3>1. \A i \in 1 .. Len(r) : r[i] = b[Len(b) - Len(r) + i] /\ Len(b) - Len(r) + i \in 1 .. Len(b)
      BY <1>1 DEF PublicOK, FailsAdmitted
    <3>2. Len(a) - Len(f) = Len(b) - Len(r) /\ Len(f) <= Len(a)
      BY <1>1, <1>2, <1>3
    <3>3. \A i \in 1 .. Len(r) : f[i] = a[Len(a) - Len(f) + i]
      BY <1>2, <1>3, <3>1, <3>2
    <3>4. Len(a) - Len(f) + Len(f) = Len(b) + 1 /\ f[Len(f)] = a[Len(b) + 1]
      BY <1>1, <1>2, <1>3
    <3>5. \A i \in 1 .. Len(f) : i \in 1 .. Len(r) \/ i = Len(f)
      BY <1>1, <1>2
    <3>6. \A i \in 1 .. Len(f) : f[i] = a[Len(a) - Len(f) + i]
      BY <3>3, <3>4, <3>5
    <3> QED
      BY <3>2, <3>6 DEF FailsAdmitted
  <2>2. RestIsOld(f, a, 0, t)
    <3>1. Len(a) - Len(f) = Len(b) - Len(r)
      BY <1>1, <1>2, <1>3
    <3> QED
      BY <1>7, <3>1 DEF RestIsOld
  <2>3. SweptOK(f, 0, w)
    <3>1. w < t + Window
      BY <1>1, <1>6, TimesAssumption
    <3> QED
      BY <1>2, <3>1 DEF SweptOK
  <2> QED
    BY <1>3, <1>5, <1>8, <2>1, <2>2, <2>3 DEF PublicOK, LockedForCause
<1>10. ASSUME ~ Len(f) < MaxFails
       PROVE  PublicOK(<<>>, a, t + Lockout, t, w)
  <2>1. Len(r) + 1 = MaxFails
    BY <1>1, <1>2, <1>10, FailsAssumption
  <2>2. /\ <<>> \in Seq(Times) /\ Len(<<>>) = 0
        /\ t + Lockout \in Nat /\ t + Lockout # 0 /\ t + Lockout > w
    BY <1>1, <1>6, TimesAssumption
  <2>3. FailsAdmitted(<<>>, a)
    BY <1>1, <1>3, <2>2 DEF FailsAdmitted
  <2>4. RestIsOld(<<>>, a, t + Lockout, t)
    <3> SUFFICES ASSUME NEW i \in 1 .. Len(a) - Len(<<>>)
                 PROVE  a[i] + Lockout <= t + Lockout
      BY <2>2 DEF RestIsOld
    <3>1. i \in 1 .. Len(a)
      BY <1>1, <1>3, <2>2
    <3>2. a[i] <= t /\ a[i] \in Nat
      BY <1>3, <1>5, <3>1, SeqFacts DEF InOrder
    <3> QED
      BY <1>1, <3>2, TimesAssumption
  <2>5. LockedForCause(a, t + Lockout)
    <3>1. Len(a) >= MaxFails /\ a[Len(a)] = t
      BY <1>1, <1>3, <2>1
    <3>2. CASE Len(r) = 0
      <4>1. Len(a) - MaxFails + 1 = Len(b) + 1
        BY <1>1, <1>3, <2>1, <3>2
      <4>2. t < t + Window
        BY <1>1, <1>6, TimesAssumption
      <4> QED
        BY <1>3, <3>1, <4>1, <4>2 DEF LockedForCause
    <3>3. CASE Len(r) >= 1
      <4>1. /\ Len(a) - MaxFails + 1 = Len(b) - Len(r) + 1
            /\ Len(b) - Len(r) + 1 \in 1 .. Len(b) /\ 1 \in 1 .. Len(r)
        BY <1>1, <1>3, <2>1, <3>3
      <4>2. a[Len(b) - Len(r) + 1] = r[1]
        BY <1>3, <4>1 DEF PublicOK, FailsAdmitted
      <4>3. t < r[1] + Window
        BY <4>1
      <4> QED
        BY <3>1, <4>1, <4>2, <4>3 DEF LockedForCause
    <3> QED
      BY <1>1, <3>2, <3>3
  <2>6. SweptOK(<<>>, t + Lockout, w)
    BY <2>2 DEF SweptOK
  <2> QED
    BY <1>3, <1>5, <1>8, <2>3, <2>4, <2>5, <2>6 DEF PublicOK
<1> QED
  BY <1>2, <1>3, <1>9, <1>10 DEF f, a

-----------------------------------------------------------------------------
(* The invariant is inductive                                              *)

\* lastSweep after a call of _maybe_sweep.
SweepAt == IF Due THEN now ELSE lastSweep

LEMMA InvFacts ==
    ASSUME LimiterInv
    PROVE  /\ now \in Nat /\ now \in Times /\ lastSweep \in Nat /\ lastSweep <= now
           /\ SweepAt \in Nat /\ SweepAt \in Times /\ SweepAt <= now
           /\ now < SweepAt + Window
           /\ \A k \in Keys : /\ fails[k] \in Seq(Times) /\ admitted[k] \in Seq(Times)
                              /\ locked[k] \in Nat
<1>1. Times \subseteq Nat
  BY TimesAssumption DEF Times
<1>2. now \in Times /\ lastSweep \in Times /\ lastSweep <= now
  BY DEF LimiterInv, TypeOK
<1>3. now \in Nat /\ lastSweep \in Nat
  BY <1>1, <1>2
<1>4. now < SweepAt + Window
  BY <1>2, <1>3, TimesAssumption DEF SweepAt, Due
<1>5. ASSUME NEW k \in Keys
      PROVE  fails[k] \in Seq(Times) /\ admitted[k] \in Seq(Times) /\ locked[k] \in Nat
  BY DEF LimiterInv, TypeOK, KeyOK
<1> QED
  BY <1>2, <1>3, <1>4, <1>5 DEF SweepAt

\* What _maybe_sweep may do to a key.
LEMMA SweepEffect ==
    ASSUME LimiterInv, NEW k \in Keys
    PROVE  /\ Fails0[k] \in Seq(Times)
           /\ \E d : /\ Without(fails[k], Fails0[k], d)
                     /\ \A i \in 1 .. d : fails[k][i] + Window <= now
           /\ Locked0[k] = locked[k] \/ (Locked0[k] = 0 /\ locked[k] <= now)
           /\ Due => /\ Locked0[k] # 0 => Locked0[k] > now
                     /\ Fails0[k] # <<>> /\ Locked0[k] = 0 =>
                            now < Fails0[k][Len(Fails0[k])] + Window
<1>1. /\ now \in Nat /\ fails[k] \in Seq(Times) /\ locked[k] \in Nat
      /\ InOrder(fails[k], now) /\ Times \in SUBSET Nat /\ Window \in Nat
  BY InvFacts, TimesAssumption DEF LimiterInv, KeyOK, Times
<1>2. Without(fails[k], fails[k], 0)
  <2>1. Len(fails[k]) \in Nat
    BY <1>1, SeqFacts
  <2> QED
    BY <2>1 DEF Without
<1>3. CASE ~ Due
  <2>1. Fails0[k] = fails[k] /\ Locked0[k] = locked[k]
    BY <1>3 DEF Fails0, Locked0
  <2> QED
    BY <1>1, <1>2, <1>3, <2>1
<1>4. CASE Due
  <2> DEFINE r == Recent(fails[k], now)
  <2>1. PICK d \in 0 .. Len(fails[k]) :
            /\ r \in Seq(Times)
            /\ Len(r) = Len(fails[k]) - d
            /\ \A i \in 1 .. Len(fails[k]) - d : r[i] = fails[k][d + i]
            /\ \A i \in 1 .. d : fails[k][i] + Window <= now
            /\ \A i \in d + 1 .. Len(fails[k]) : now < fails[k][i] + Window
    <3>1. r = Within(fails[k], now, Window)
      BY DEF Recent
    <3> HIDE DEF r
    <3> QED
      BY <1>1, <3>1, WithinDrops
  <2> HIDE DEF r
  <2>2. Without(fails[k], r, d)
    BY <2>1 DEF Without
  <2>3. Locked0[k] = IF locked[k] <= now THEN 0 ELSE locked[k]
    BY <1>4 DEF Locked0, Unlocked
  <2>4. Fails0[k] = IF r # <<>> \/ Locked0[k] = 0 THEN r ELSE fails[k]
    BY <1>4 DEF Fails0, SweptFails, Locked0, r
  <2>5. /\ Locked0[k] = locked[k] \/ (Locked0[k] = 0 /\ locked[k] <= now)
        /\ Locked0[k] # 0 => Locked0[k] > now
    BY <1>1, <2>3
  <2>6. ASSUME r # <<>>
        PROVE  now < r[Len(r)] + Window
    <3>1. Len(fails[k]) \in Nat /\ Len(r) \in Nat /\ Len(r) >= 1
      BY <1>1, <2>1, <2>6, SeqFacts
    <3>2. /\ Len(r) \in 1 .. Len(fails[k]) - d
          /\ d + Len(r) \in d + 1 .. Len(fails[k])
      BY <2>1, <3>1
    <3> QED
      BY <2>1, <3>2
  <2>7. CASE Fails0[k] = r
    BY <2>1, <2>2, <2>5, <2>6, <2>7
  <2>8. CASE Fails0[k] = fails[k] /\ Locked0[k] # 0
    BY <1>1, <1>2, <2>5, <2>8
  <2> QED
    BY <2>4, <2>7, <2>8
<1> QED
  BY <1>3, <1>4

LEMMA SweepKeeps ==
    ASSUME LimiterInv, NEW k \in Keys
    PROVE  /\ Fails0[k] \in Seq(Times) /\ Locked0[k] \in Nat
           /\ KeyOK(Fails0[k], Locked0[k], now)
           /\ public => PublicOK(Fails0[k], admitted[k], Locked0[k], now, SweepAt)
<1>1. PICK f : f = fails[k]
  OBVIOUS
<1>2. PICK lk : lk = locked[k]
  OBVIOUS
<1>3. PICK g : g = Fails0[k]
  OBVIOUS
<1>4. PICK mk : mk = Locked0[k]
  OBVIOUS
<1>5. PICK a : a = admitted[k]
  OBVIOUS
<1>6. /\ f \in Seq(Times) /\ g \in Seq(Times) /\ lk \in Nat
      /\ mk = lk \/ (mk = 0 /\ lk <= now)
      /\ now \in Nat
  BY <1>1, <1>2, <1>3, <1>4, InvFacts, SweepEffect
<1>7. PICK d : Without(f, g, d) /\ \A i \in 1 .. d : f[i] + Window <= now
  BY <1>1, <1>3, SweepEffect
<1>8. KeyOK(f, lk, now)
  BY <1>1, <1>2 DEF LimiterInv
<1>9. KeyOK(g, mk, now)
  BY <1>6, <1>7, <1>8, KeyForgets
<1>10. ASSUME public
       PROVE  PublicOK(g, a, mk, now, SweepAt)
  <2>1. PublicOK(f, a, lk, now, lastSweep)
    BY <1>1, <1>2, <1>5, <1>10 DEF LimiterInv
  <2>2. PublicOK(g, a, mk, now, lastSweep)
    BY <1>6, <1>7, <2>1, PublicForgets
  <2>3. CASE ~ Due
    BY <2>2, <2>3 DEF SweepAt
  <2>4. CASE Due
    <3>1. SweptOK(g, mk, now)
      BY <1>3, <1>4, <2>2, <2>4, SweepEffect DEF PublicOK, SweptOK
    <3> QED
      BY <2>2, <2>4, <3>1 DEF PublicOK, SweepAt
  <2> QED
    BY <2>3, <2>4
<1> QED
  BY <1>3, <1>4, <1>5, <1>6, <1>9, <1>10 DEF KeyOK

\* The parts of the invariant make the invariant of the next state.
LEMMA NextInv ==
    ASSUME NEW f \in [Keys -> Seq(Times)], NEW lk \in [Keys -> Nat],
           NEW a \in [Keys -> Seq(Times)], NEW t \in Times, NEW w \in Times, w <= t,
           fails' = f, locked' = lk, admitted' = a, now' = t, lastSweep' = w,
           public' \in BOOLEAN, flying' \in [Keys -> 0 .. MaxFlying],
           \A k \in Keys : KeyOK(f[k], lk[k], t),
           public' => \A k \in Keys : PublicOK(f[k], a[k], lk[k], t, w)
    PROVE  LimiterInv'
<1>1. TypeOK'
  <2>1. lk \in [Keys -> 0 .. MaxTime + Lockout]
    <3> SUFFICES ASSUME NEW k \in Keys
                 PROVE  lk[k] \in 0 .. MaxTime + Lockout
      OBVIOUS
    <3>1. lk[k] \in Nat /\ lk[k] <= t + Lockout
      BY DEF KeyOK
    <3> QED
      BY <3>1, TimesAssumption DEF Times
  <2>2. \A k \in Keys : Len(f[k]) < MaxFails
    BY DEF KeyOK
  <2> QED
    BY <2>1, <2>2 DEF TypeOK, Times
<1>2. (\A k \in Keys : KeyOK(fails[k], locked[k], now))'
  BY DEF KeyOK, InOrder, Times
<1>3. (public => \A k \in Keys : PublicOK(fails[k], admitted[k], locked[k], now, lastSweep))'
  BY DEF PublicOK, InOrder, FailsAdmitted, RestIsOld, Shorter, Spaced, LockedForCause, SweptOK, Times
<1> QED
  BY <1>1, <1>2, <1>3 DEF LimiterInv

\* What record_failure makes of a key's failures.
LEMMA RecordEffect ==
    ASSUME NEW f \in Seq(Times), NEW lk \in Nat, NEW t \in Times, KeyOK(f, lk, t)
    PROVE  LET r == Recent(f, t)
           IN  /\ r \in Seq(Times) /\ Append(r, t) \in Seq(Times)
               /\ \E d : Without(f, r, d) /\ \A i \in 1 .. d : f[i] + Window <= t
               /\ \A i \in 1 .. Len(r) : t < r[i] + Window
               /\ Len(Append(r, t)) < MaxFails => KeyOK(Append(r, t), lk, t)
               /\ KeyOK(<<>>, t + Lockout, t)
<1> DEFINE r == Recent(f, t)
<1>1. /\ Times \in SUBSET Nat /\ t \in Nat /\ Window \in Nat /\ InOrder(f, t)
      /\ Len(f) \in Nat
  BY SeqFacts, TimesAssumption DEF Times, KeyOK
<1>2. PICK d \in 0 .. Len(f) :
          /\ r \in Seq(Times)
          /\ Len(r) = Len(f) - d
          /\ \A i \in 1 .. Len(f) - d : r[i] = f[d + i]
          /\ \A i \in 1 .. d : f[i] + Window <= t
          /\ \A i \in d + 1 .. Len(f) : t < f[i] + Window
  <2>1. r = Within(f, t, Window)
    BY DEF Recent
  <2> HIDE DEF r
  <2> QED
    BY <1>1, <2>1, WithinDrops
<1> HIDE DEF r
<1>3. Without(f, r, d)
  BY <1>2 DEF Without
<1>4. \A i \in 1 .. Len(r) : t < r[i] + Window
  <2>1. \A i \in 1 .. Len(r) : d + i \in d + 1 .. Len(f) /\ r[i] = f[d + i]
    BY <1>1, <1>2
  <2> QED
    BY <1>2, <2>1
<1>5. KeyOK(r, lk, t)
  BY <1>1, <1>2, <1>3, KeyForgets
<1>6. InOrder(Append(r, t), t) /\ Append(r, t) \in Seq(Times)
  BY <1>2, <1>5, AppendInOrder DEF KeyOK
<1>7. Len(Append(r, t)) < MaxFails => KeyOK(Append(r, t), lk, t)
  BY <1>5, <1>6 DEF KeyOK
<1>8. KeyOK(<<>>, t + Lockout, t)
  <2>1. <<>> \in Seq(Times) /\ Len(<<>>) = 0 /\ t + Lockout \in Nat
    BY <1>1, TimesAssumption
  <2> QED
    BY <1>1, <2>1, FailsAssumption, TimesAssumption DEF KeyOK, InOrder
<1> QED
  BY <1>2, <1>3, <1>4, <1>6, <1>7, <1>8 DEF r

\* What a public request that is let in makes of a key.
LEMMA AdmitEffect ==
    ASSUME NEW f \in Seq(Times), NEW t \in Times, NEW lk \in Nat, lk <= t,
           NEW w \in Nat, w <= t, KeyOK(f, lk, t), NEW a, PublicOK(f, a, lk, t, w)
    PROVE  LET g == Append(Recent(f, t), t)
               c == Append(Within(a, t, Window + Lockout), t)
           IN  /\ c \in Seq(Times)
               /\ Len(g) < MaxFails => KeyOK(g, 0, t) /\ PublicOK(g, c, 0, t, w)
               /\ ~ Len(g) < MaxFails => PublicOK(<<>>, c, t + Lockout, t, w)
<1> DEFINE r == Recent(f, t)
           b == Within(a, t, Window + Lockout)
<1>1. /\ Times \in SUBSET Nat /\ t \in Nat /\ 0 \in Nat /\ Window + Lockout \in Nat
      /\ a \in Seq(Times) /\ InOrder(a, t) /\ Len(f) \in Nat /\ Len(a) \in Nat
  BY SeqFacts, TimesAssumption DEF Times, PublicOK
<1>2. Without(f, f, 0)
  BY <1>1 DEF Without
<1>3. KeyOK(f, 0, t)
  BY <1>1, <1>2, KeyForgets
<1>4. /\ r \in Seq(Times)
      /\ \A i \in 1 .. Len(r) : t < r[i] + Window
      /\ Len(Append(r, t)) < MaxFails => KeyOK(Append(r, t), 0, t)
  BY <1>1, <1>3, RecordEffect
<1>5. PICK d : Without(f, r, d) /\ \A i \in 1 .. d : f[i] + Window <= t
  BY <1>1, <1>3, RecordEffect
<1> HIDE DEF r
<1>6. KeyOK(r, 0, t) /\ PublicOK(r, a, 0, t, w)
  BY <1>1, <1>3, <1>4, <1>5, KeyForgets, PublicForgets
<1>7. PICK e \in 0 .. Len(a) :
          /\ b \in Seq(Times)
          /\ Len(b) = Len(a) - e
          /\ \A i \in 1 .. Len(a) - e : b[i] = a[e + i]
          /\ \A i \in 1 .. e : a[i] + (Window + Lockout) <= t
  <2> HIDE DEF b
  <2>1. b = Within(a, t, Window + Lockout)
    BY DEF b
  <2> QED
    BY <1>1, <2>1, WithinDrops
<1> HIDE DEF b
<1>8. Without(a, b, e)
  BY <1>7 DEF Without
<1>9. PublicOK(r, b, 0, t, w)
  BY <1>1, <1>4, <1>6, <1>7, <1>8, AdmissionsForgotten
<1>10. /\ Append(b, t) \in Seq(Times)
       /\ Len(Append(r, t)) < MaxFails => PublicOK(Append(r, t), Append(b, t), 0, t, w)
       /\ ~ Len(Append(r, t)) < MaxFails => PublicOK(<<>>, Append(b, t), t + Lockout, t, w)
  BY <1>4, <1>6, <1>7, <1>9, PublicAdmits
<1> QED
  BY <1>4, <1>10 DEF r, b

\* The tables after _maybe_sweep, as functions.
LEMMA SweptTables ==
    ASSUME LimiterInv
    PROVE  /\ Fails0 \in [Keys -> Seq(Times)] /\ Locked0 \in [Keys -> Nat]
           /\ admitted \in [Keys -> Seq(Times)]
<1>1. Fails0 = [k \in Keys |-> Fails0[k]] /\ Locked0 = [k \in Keys |-> Locked0[k]]
  BY DEF LimiterInv, TypeOK, Fails0, Locked0, SweptFails, Unlocked
<1>2. \A k \in Keys : Fails0[k] \in Seq(Times) /\ Locked0[k] \in Nat
  BY SweepKeeps
<1> QED
  BY <1>1, <1>2 DEF LimiterInv, TypeOK

\* The limit is reached by as many failures as max_fails.
LEMMA ReachedIs ==
    ASSUME NEW g \in Seq(Times)
    PROVE  LimitReached(g) <=> ~ Len(g) < MaxFails
<1>1. Len(g) \in Nat /\ MaxFails \in Nat
  BY SeqFacts, FailsAssumption
<1> QED
  BY <1>1 DEF LimitReached

LEMMA RequestInv ==
    ASSUME LimiterInv, public, NEW k \in Keys, Request(k)
    PROVE  LimiterInv'
<1>1. PICK fs \in [Keys -> Seq(Times)] : fs = Fails0
  BY SweptTables
<1>2. PICK ls \in [Keys -> Nat] : ls = Locked0
  BY SweptTables
<1>3. PICK a \in [Keys -> Seq(Times)] : a = admitted
  BY SweptTables
<1>4. PICK t \in Times : t = now
  BY InvFacts
<1>5. PICK w \in Times : w = SweepAt /\ w \in Nat /\ w <= t
  BY <1>4, InvFacts
<1>6. \A j \in Keys : KeyOK(fs[j], ls[j], t) /\ PublicOK(fs[j], a[j], ls[j], t, w)
  BY <1>1, <1>2, <1>3, <1>4, <1>5, SweepKeeps
<1>7. /\ now' = t /\ lastSweep' = w
      /\ public' \in BOOLEAN /\ flying' \in [Keys -> 0 .. MaxFlying]
  BY <1>4, <1>5 DEF Request, SweepTime, SweepAt, LimiterInv, TypeOK
<1>8. t \in Nat /\ t + Lockout \in Nat
  BY <1>4, InvFacts, TimesAssumption
<1>9. CASE ~ Allowed(k)
  <2>1. fails' = fs /\ locked' = ls /\ admitted' = a
    BY <1>1, <1>2, <1>3, <1>9 DEF Request, Locked1
  <2> QED
    BY <1>5, <1>6, <1>7, <2>1, NextInv
<1>10. CASE Allowed(k)
  <2>1. PICK g : g = Append(Recent(fs[k], t), t)
    OBVIOUS
  <2>2. PICK c : c = Append(Within(a[k], t, Window + Lockout), t)
    OBVIOUS
  <2>3. PICK l0 : l0 = [ls EXCEPT ![k] = 0]
    OBVIOUS
  <2>4. ls[k] <= t
    BY <1>2, <1>4, <1>10 DEF Allowed
  <2>5. /\ c \in Seq(Times)
        /\ Len(g) < MaxFails => KeyOK(g, 0, t) /\ PublicOK(g, c, 0, t, w)
        /\ ~ Len(g) < MaxFails => PublicOK(<<>>, c, t + Lockout, t, w)
    BY <1>5, <1>6, <2>1, <2>2, <2>4, AdmitEffect
  <2>6. g \in Seq(Times) /\ KeyOK(<<>>, t + Lockout, t) /\ <<>> \in Seq(Times)
    BY <1>6, <2>1, RecordEffect
  <2>7. l0 \in [Keys -> Nat] /\ l0[k] = 0 /\ \A j \in Keys \ {k} : l0[j] = ls[j]
    BY <2>3
  <2>8. admitted' = [a EXCEPT ![k] = c]
    BY <1>3, <1>4, <1>10, <2>2 DEF Request, Admit
  <2>9. RecordFailure(k, fs, l0)
    BY <1>1, <1>2, <1>10, <2>3 DEF Request, Locked1
  <2>10. /\ Len(g) < MaxFails => fails' = [fs EXCEPT ![k] = g] /\ locked' = l0
         /\ ~ Len(g) < MaxFails => /\ fails' = [fs EXCEPT ![k] = <<>>]
                                   /\ locked' = [l0 EXCEPT ![k] = t + Lockout]
    <3>1. LimitReached(g) <=> ~ Len(g) < MaxFails
      BY <2>6, ReachedIs
    <3>2. LimitReached(g) => /\ fails' = [fs EXCEPT ![k] = <<>>]
                             /\ locked' = [l0 EXCEPT ![k] = t + Lockout]
      BY <1>4, <2>1, <2>9 DEF RecordFailure
    <3>3. ~ LimitReached(g) => fails' = [fs EXCEPT ![k] = g] /\ locked' = l0
      BY <1>4, <2>1, <2>9 DEF RecordFailure
    <3> QED
      BY <3>1, <3>2, <3>3
  <2>11. PICK a1 \in [Keys -> Seq(Times)] : a1 = [a EXCEPT ![k] = c]
    BY <2>5
  <2>12. a1[k] = c /\ \A j \in Keys \ {k} : a1[j] = a[j]
    BY <2>11
  <2>13. CASE Len(g) < MaxFails
    <3>1. PICK f1 \in [Keys -> Seq(Times)] : f1 = [fs EXCEPT ![k] = g]
      BY <2>6
    <3>2. f1[k] = g /\ \A j \in Keys \ {k} : f1[j] = fs[j]
      BY <3>1
    <3>3. \A j \in Keys : KeyOK(f1[j], l0[j], t) /\ PublicOK(f1[j], a1[j], l0[j], t, w)
      BY <1>6, <2>5, <2>7, <2>12, <2>13, <3>2
    <3>4. fails' = f1 /\ locked' = l0 /\ admitted' = a1
      BY <2>8, <2>10, <2>11, <2>13, <3>1
    <3> QED
      BY <1>5, <1>7, <2>7, <3>3, <3>4, NextInv
  <2>14. CASE ~ Len(g) < MaxFails
    <3>1. PICK f1 \in [Keys -> Seq(Times)] : f1 = [fs EXCEPT ![k] = <<>>]
      BY <2>6
    <3>2. f1[k] = <<>> /\ \A j \in Keys \ {k} : f1[j] = fs[j]
      BY <3>1
    <3>3. PICK l1 \in [Keys -> Nat] : l1 = [l0 EXCEPT ![k] = t + Lockout]
      BY <1>8, <2>7
    <3>4. l1[k] = t + Lockout /\ \A j \in Keys \ {k} : l1[j] = ls[j]
      BY <2>7, <3>3
    <3>5. \A j \in Keys : KeyOK(f1[j], l1[j], t) /\ PublicOK(f1[j], a1[j], l1[j], t, w)
      BY <1>6, <2>5, <2>6, <2>12, <2>14, <3>2, <3>4
    <3>6. fails' = f1 /\ locked' = l1 /\ admitted' = a1
      BY <2>8, <2>10, <2>11, <2>14, <3>1, <3>3
    <3> QED
      BY <1>5, <1>7, <3>5, <3>6, NextInv
  <2> QED
    BY <2>13, <2>14
<1> QED
  BY <1>9, <1>10

LEMMA LoginInv ==
    ASSUME LimiterInv, ~ public, NEW k \in Keys, Login(k)
    PROVE  LimiterInv'
<1>1. PICK fs \in [Keys -> Seq(Times)] : fs = Fails0
  BY SweptTables
<1>2. PICK ls \in [Keys -> Nat] : ls = Locked0
  BY SweptTables
<1>3. PICK a \in [Keys -> Seq(Times)] : a = admitted
  BY SweptTables
<1>4. PICK t \in Times : t = now /\ t \in Nat
  BY InvFacts
<1>5. PICK w \in Times : w = SweepAt /\ w <= t
  BY <1>4, InvFacts
<1>6. PICK l1 \in [Keys -> Nat] : l1 = IF Allowed(k) THEN [ls EXCEPT ![k] = 0] ELSE ls
  OBVIOUS
<1>7. /\ now' = t /\ lastSweep' = w /\ admitted' = a
      /\ fails' = fs /\ locked' = l1
      /\ public' = public /\ public' \in BOOLEAN
  BY <1>1, <1>2, <1>3, <1>4, <1>5, <1>6 DEF Login, Locked1, SweepTime, SweepAt, LimiterInv, TypeOK
<1>8. flying' \in [Keys -> 0 .. MaxFlying]
  <2>1. flying \in [Keys -> 0 .. MaxFlying] /\ flying[k] < MaxFlying
    BY DEF Login, LimiterInv, TypeOK
  <2>2. flying[k] + 1 \in 0 .. MaxFlying
    BY <2>1, FailsAssumption
  <2> QED
    BY <2>1, <2>2 DEF Login
<1>9. ASSUME NEW j \in Keys
      PROVE  KeyOK(fs[j], l1[j], t)
  <2>1. KeyOK(fs[j], ls[j], t)
    BY <1>1, <1>2, <1>4, SweepKeeps
  <2>2. Without(fs[j], fs[j], 0)
    BY SeqFacts DEF Without
  <2>3. l1[j] = ls[j] \/ l1[j] = 0
    BY <1>6
  <2> QED
    BY <1>4, <2>1, <2>2, <2>3, KeyForgets
<1> QED
  BY <1>5, <1>7, <1>8, <1>9, NextInv

LEMMA LoginFailedInv ==
    ASSUME LimiterInv, ~ public, NEW k \in Keys, LoginFailed(k)
    PROVE  LimiterInv'
<1>1. PICK fs \in [Keys -> Seq(Times)] : fs = Fails0
  BY SweptTables
<1>2. PICK ls \in [Keys -> Nat] : ls = Locked0
  BY SweptTables
<1>3. PICK a \in [Keys -> Seq(Times)] : a = admitted
  BY SweptTables
<1>4. PICK t \in Times : t = now /\ t \in Nat /\ t + Lockout \in Nat
  BY InvFacts, TimesAssumption
<1>5. PICK w \in Times : w = SweepAt /\ w <= t
  BY <1>4, InvFacts
<1>6. \A j \in Keys : KeyOK(fs[j], ls[j], t)
  BY <1>1, <1>2, <1>4, SweepKeeps
<1>7. /\ now' = t /\ lastSweep' = w /\ admitted' = a
      /\ public' = public /\ public' \in BOOLEAN
  BY <1>3, <1>4, <1>5 DEF LoginFailed, SweepTime, SweepAt, LimiterInv, TypeOK
<1>8. flying' \in [Keys -> 0 .. MaxFlying]
  <2>1. flying \in [Keys -> 0 .. MaxFlying] /\ flying[k] > 0
    BY DEF LoginFailed, LimiterInv, TypeOK
  <2>2. flying[k] - 1 \in 0 .. MaxFlying
    BY <2>1, FailsAssumption
  <2> QED
    BY <2>1, <2>2 DEF LoginFailed
<1>9. PICK g : g = Append(Recent(fs[k], t), t)
  OBVIOUS
<1>10. /\ g \in Seq(Times) /\ <<>> \in Seq(Times)
       /\ Len(g) < MaxFails => KeyOK(g, ls[k], t)
       /\ KeyOK(<<>>, t + Lockout, t)
  BY <1>6, <1>9, RecordEffect
<1>11. LimitReached(g) <=> ~ Len(g) < MaxFails
  BY <1>10, ReachedIs
<1>12. CASE LimitReached(g)
  <2>1. PICK f1 \in [Keys -> Seq(Times)] : f1 = [fs EXCEPT ![k] = <<>>]
    BY <1>10
  <2>2. PICK l1 \in [Keys -> Nat] : l1 = [ls EXCEPT ![k] = t + Lockout]
    BY <1>4
  <2>3. fails' = f1 /\ locked' = l1
    BY <1>1, <1>2, <1>4, <1>9, <1>12, <2>1, <2>2 DEF LoginFailed, RecordFailure
  <2>4. \A j \in Keys : KeyOK(f1[j], l1[j], t)
    BY <1>6, <1>10, <2>1, <2>2
  <2> QED
    BY <1>5, <1>7, <1>8, <2>3, <2>4, NextInv
<1>13. CASE ~ LimitReached(g)
  <2>1. PICK f1 \in [Keys -> Seq(Times)] : f1 = [fs EXCEPT ![k] = g]
    BY <1>10
  <2>2. fails' = f1 /\ locked' = ls
    BY <1>1, <1>2, <1>4, <1>9, <1>13, <2>1 DEF LoginFailed, RecordFailure
  <2>3. \A j \in Keys : KeyOK(f1[j], ls[j], t)
    BY <1>6, <1>10, <1>11, <1>13, <2>1
  <2> QED
    BY <1>5, <1>7, <1>8, <2>2, <2>3, NextInv
<1> QED
  BY <1>12, <1>13

LEMMA LoginSucceededInv ==
    ASSUME LimiterInv, ~ public, NEW k \in Keys, LoginSucceeded(k)
    PROVE  LimiterInv'
<1>1. /\ fails \in [Keys -> Seq(Times)] /\ locked \in [Keys -> Nat]
      /\ admitted \in [Keys -> Seq(Times)] /\ flying \in [Keys -> 0 .. MaxFlying]
      /\ public \in BOOLEAN /\ lastSweep \in Times
  <2>1. locked \in [Keys -> Nat]
    BY InvFacts DEF LimiterInv, TypeOK
  <2> QED
    BY <2>1 DEF LimiterInv, TypeOK
<1>2. <<>> \in Seq(Times) /\ Len(<<>>) = 0
  OBVIOUS
<1>3. PICK f1 \in [Keys -> Seq(Times)] : f1 = [fails EXCEPT ![k] = <<>>]
  BY <1>1, <1>2
<1>4. PICK l1 \in [Keys -> Nat] : l1 = [locked EXCEPT ![k] = 0]
  BY <1>1
<1>5. PICK a \in [Keys -> Seq(Times)] : a = admitted
  BY <1>1
<1>6. PICK t \in Times : t = now /\ t \in Nat
  BY InvFacts
<1>7. PICK w \in Times : w = lastSweep /\ w <= t
  BY <1>1, <1>6, InvFacts
<1>8. /\ fails' = f1 /\ locked' = l1 /\ admitted' = a /\ now' = t /\ lastSweep' = w
      /\ public' = public
  BY <1>3, <1>4, <1>5, <1>6, <1>7 DEF LoginSucceeded
<1>9. flying' \in [Keys -> 0 .. MaxFlying]
  <2>1. flying[k] > 0
    BY DEF LoginSucceeded
  <2>2. flying[k] - 1 \in 0 .. MaxFlying
    BY <1>1, <2>1, FailsAssumption
  <2> QED
    BY <1>1, <2>2 DEF LoginSucceeded
<1>10. KeyOK(<<>>, 0, t)
  BY <1>2, <1>6, FailsAssumption, TimesAssumption DEF KeyOK, InOrder
<1>11. \A j \in Keys : KeyOK(f1[j], l1[j], t)
  <2>1. \A j \in Keys : KeyOK(fails[j], locked[j], t)
    BY <1>6 DEF LimiterInv
  <2> QED
    BY <1>1, <1>3, <1>4, <1>10, <2>1
<1> QED
  BY <1>1, <1>7, <1>8, <1>9, <1>11, NextInv

LEMMA TickInv ==
    ASSUME LimiterInv, Tick
    PROVE  LimiterInv'
<1>1. /\ fails \in [Keys -> Seq(Times)] /\ locked \in [Keys -> Nat]
      /\ admitted \in [Keys -> Seq(Times)] /\ flying \in [Keys -> 0 .. MaxFlying]
      /\ public \in BOOLEAN /\ lastSweep \in Times
  <2>1. locked \in [Keys -> Nat]
    BY InvFacts DEF LimiterInv, TypeOK
  <2> QED
    BY <2>1 DEF LimiterInv, TypeOK
<1>2. PICK f \in [Keys -> Seq(Times)] : f = fails
  BY <1>1
<1>3. PICK lk \in [Keys -> Nat] : lk = locked
  BY <1>1
<1>4. PICK a \in [Keys -> Seq(Times)] : a = admitted
  BY <1>1
<1>5. PICK t \in Times : t = now /\ t \in Nat
  BY InvFacts
<1>6. PICK w \in Times : w = lastSweep /\ w <= t /\ w \in Nat
  BY <1>1, <1>5, InvFacts
<1>7. t + 1 \in Times /\ w <= t + 1
  BY <1>5, <1>6, TimesAssumption DEF Tick, Times
<1>8. /\ fails' = f /\ locked' = lk /\ admitted' = a /\ now' = t + 1 /\ lastSweep' = w
      /\ public' = public /\ flying' = flying
  BY <1>2, <1>3, <1>4, <1>5, <1>6 DEF Tick, limiter
<1>9. \A j \in Keys : KeyOK(f[j], lk[j], t + 1)
  BY <1>2, <1>3, <1>5, KeyTicks DEF LimiterInv
<1>10. public => \A j \in Keys : PublicOK(f[j], a[j], lk[j], t + 1, w)
  BY <1>2, <1>3, <1>4, <1>5, <1>6, KeyTicks DEF LimiterInv
<1> QED
  BY <1>1, <1>7, <1>8, <1>9, <1>10, NextInv

LEMMA StutterInv ==
    ASSUME LimiterInv, UNCHANGED vars
    PROVE  LimiterInv'
BY DEF vars, limiter, LimiterInv, TypeOK, KeyOK, PublicOK, InOrder, FailsAdmitted, RestIsOld,
       Shorter, Spaced, LockedForCause, SweptOK, Times

LEMMA InitInv == Init => LimiterInv
<1> SUFFICES ASSUME Init
             PROVE  LimiterInv
  OBVIOUS
<1>1. /\ now \in Nat /\ now \in Times /\ 0 \in Times /\ 0 <= now
      /\ 0 \in 0 .. MaxTime + Lockout /\ 0 \in 0 .. MaxFlying
      /\ 0 <= now + Lockout /\ 0 < MaxFails
  BY FailsAssumption, TimesAssumption DEF Init, Times
<1>2. <<>> \in Seq(Times) /\ Len(<<>>) = 0
  OBVIOUS
<1>3. TypeOK
  BY <1>1, <1>2 DEF Init, TypeOK
<1>4. \A k \in Keys : fails[k] = <<>> /\ admitted[k] = <<>> /\ locked[k] = 0
  BY DEF Init
<1>5. KeyOK(<<>>, 0, now)
  BY <1>1, <1>2 DEF KeyOK, InOrder
<1>6. PublicOK(<<>>, <<>>, 0, now, 0)
  BY <1>1, <1>2, FailsAssumption
     DEF PublicOK, InOrder, FailsAdmitted, RestIsOld, Spaced, LockedForCause, SweptOK
<1> QED
  BY <1>1, <1>3, <1>4, <1>5, <1>6 DEF LimiterInv, Init

\* The invariant holds throughout.
LEMMA Invariance == Spec => []LimiterInv
<1>1. ASSUME LimiterInv, [Next]_vars
      PROVE  LimiterInv'
  <2>1. CASE Tick
    BY <1>1, <2>1, TickInv
  <2>2. CASE PublicRoute
    BY <1>1, <2>2, RequestInv DEF PublicRoute
  <2>3. CASE LoginRoute
    BY <1>1, <2>3, LoginInv, LoginFailedInv, LoginSucceededInv DEF LoginRoute
  <2>4. CASE UNCHANGED vars
    BY <1>1, <2>4, StutterInv
  <2> QED
    BY <1>1, <2>1, <2>2, <2>3, <2>4 DEF Next
<1> QED
  BY <1>1, InitInv, PTL DEF Spec

-----------------------------------------------------------------------------
(* Theorems                                                                *)

\* The types hold, and no key ever has max_fails failures on record:
\* record_failure turns them into a lockout.
THEOREM TypeCorrect == Spec => []TypeOK
<1>1. LimiterInv => TypeOK
  BY DEF LimiterInv
<1> QED
  BY <1>1, Invariance, PTL

\* As many numbers are in an interval as its length says.
LEMMA IntervalCardinality ==
    ASSUME NEW p \in Nat, NEW n \in Nat \ {0}
    PROVE  IsFiniteSet(p .. p + n - 1) /\ Cardinality(p .. p + n - 1) = n
<1>1. PICK q : q = p + n - 1
  OBVIOUS
<1>2. q \in Int /\ ~ p > q /\ q - p + 1 = n
  BY <1>1
<1>3. IsFiniteSet(p .. q) /\ Cardinality(p .. q) = n
  BY <1>2, FS_Interval
<1> QED
  BY <1>1, <1>3

\* Admissions that follow each other at the distance of MaxFails are too far
\* apart for one span: no more than MaxFails of them are in it.
LEMMA SpacedIsRate ==
    ASSUME NEW a \in Seq(Times), NEW n \in Nat, n > 0, NEW t \in Nat,
           \A i, j \in 1 .. Len(a) : i <= j => a[i] <= a[j],
           \A i \in 1 .. Len(a) - MaxFails : a[i + MaxFails] >= a[i] + n
    PROVE  Cardinality({i \in DOMAIN a : a[i] <= t /\ t - a[i] < n}) <= MaxFails
<1> DEFINE S == {i \in DOMAIN a : a[i] <= t /\ t - a[i] < n}
<1>1. Len(a) \in Nat /\ DOMAIN a = 1 .. Len(a) /\ MaxFails \in Nat
  BY LenProperties, FailsAssumption
<1>2. \A i \in 1 .. Len(a) : a[i] \in Nat
  BY SeqFacts
<1> SUFFICES Cardinality(S) <= MaxFails
  OBVIOUS
<1>3. CASE S = {}
  <2> HIDE DEF S
  <2> QED
    BY <1>1, <1>3, FS_EmptySet
<1>4. CASE S # {}
  <2>1. S \subseteq Nat
    BY <1>1
  <2>2. PICK p \in S : \A i \in S : p <= i
    BY <1>4, <2>1, LeastNatural
  <2>3. ASSUME NEW i \in S
        PROVE  i \in p .. p + MaxFails - 1
    <3>1. i \in 1 .. Len(a) /\ p \in 1 .. Len(a) /\ p <= i
      BY <1>1, <2>2
    <3>2. SUFFICES ASSUME i >= p + MaxFails
                   PROVE  FALSE
      BY <1>1, <3>1
    <3>3. /\ p \in 1 .. Len(a) - MaxFails
          /\ p + MaxFails \in 1 .. Len(a) /\ p + MaxFails <= i
      BY <1>1, <3>1, <3>2
    <3>4. a[p + MaxFails] >= a[p] + n /\ a[p + MaxFails] <= a[i]
      BY <3>1, <3>3
    <3>5. a[i] <= t /\ t - a[p] < n
      BY <2>2
    <3>6. a[i] \in Nat /\ a[p] \in Nat /\ a[p + MaxFails] \in Nat
      BY <1>2, <3>1, <3>3
    <3> QED
      BY <3>4, <3>5, <3>6
  <2>4. p \in Nat
    BY <2>1, <2>2
  <2>5. /\ IsFiniteSet(p .. p + MaxFails - 1)
        /\ Cardinality(p .. p + MaxFails - 1) = MaxFails
    BY <2>4, FailsAssumption, IntervalCardinality
  <2>6. S \subseteq p .. p + MaxFails - 1
    BY <2>3
  <2> HIDE DEF S
  <2> QED
    BY <2>5, <2>6, FS_Subset
<1> QED
  BY <1>3, <1>4

\* What a link's limiter does keep (app.py:855): for every window, lockout and
\* max_fails, no span as long as the shorter of both has more than max_fails
\* admitted requests of a key.
THEOREM ShorterSpans ==
    Spec => [](public => \A k \in Keys, t \in 0 .. now :
                             Cardinality(Admissions(k, t, Shorter)) <= MaxFails)
<1>1. ASSUME LimiterInv
      PROVE  public => \A k \in Keys, t \in 0 .. now :
                           Cardinality(Admissions(k, t, Shorter)) <= MaxFails
  <2> SUFFICES ASSUME public, NEW k \in Keys, NEW t \in 0 .. now
               PROVE  Cardinality(Admissions(k, t, Shorter)) <= MaxFails
    OBVIOUS
  <2>1. PublicOK(fails[k], admitted[k], locked[k], now, lastSweep)
    BY <1>1 DEF LimiterInv
  <2>2. t \in Nat /\ Shorter \in Nat /\ Shorter > 0
    BY <1>1, InvFacts, TimesAssumption DEF Shorter
  <2> QED
    BY <2>1, <2>2, SpacedIsRate DEF PublicOK, InOrder, Spaced, Admissions
<1> QED
  BY <1>1, Invariance, PTL

\* The limit per window is kept (app.py's _throttle) wherever the lockout is as
\* long as the window: for every such limiter, no window has more than
\* max_fails admitted requests of a key.
THEOREM RateIsKept == Spec => []RateKept
<1>1. ASSUME public => \A k \in Keys, t \in 0 .. now :
                           Cardinality(Admissions(k, t, Shorter)) <= MaxFails
      PROVE  RateKept
  <2> SUFFICES ASSUME Window <= Lockout
               PROVE  LimitPerWindow
    BY DEF RateKept
  <2>1. Shorter = Window
    BY TimesAssumption DEF Shorter
  <2> QED
    BY <1>1, <2>1 DEF LimitPerWindow
<1> QED
  BY <1>1, ShorterSpans, PTL

\* A refusal has its cause (RateLimiter.allowed and record_failure): when a key
\* of the public routes is locked out, max_fails admissions in one window began
\* the lockout, and it is not over.
THEOREM RefusalHasCause == Spec => []RefusedForCause
<1>1. ASSUME LimiterInv
      PROVE  RefusedForCause
  <2> SUFFICES ASSUME public, NEW k \in Keys, locked[k] > now
               PROVE  \E t \in 0 .. now :
                          /\ now - t < Lockout
                          /\ Cardinality(Admissions(k, t, Window)) >= MaxFails
    BY DEF RefusedForCause
  <2>1. /\ now \in Nat /\ locked[k] \in Nat /\ locked[k] # 0 /\ admitted[k] \in Seq(Times)
        /\ Len(admitted[k]) \in Nat /\ MaxFails \in Nat /\ MaxFails >= 1
    BY <1>1, InvFacts, SeqFacts, FailsAssumption
  <2>2. PICK a : a = admitted[k]
    OBVIOUS
  <2>3. /\ Len(a) >= MaxFails /\ locked[k] = a[Len(a)] + Lockout
        /\ a[Len(a)] < a[Len(a) - MaxFails + 1] + Window
        /\ InOrder(a, now)
    BY <1>1, <2>1, <2>2 DEF LimiterInv, PublicOK, LockedForCause
  <2>4. Len(a) \in 1 .. Len(a) /\ Len(a) - MaxFails + 1 \in 1 .. Len(a)
    BY <2>1, <2>2, <2>3
  <2>5. \A i \in 1 .. Len(a) : a[i] \in Nat /\ a[i] <= now
    BY <2>1, <2>2, <2>3, SeqFacts DEF InOrder
  <2>6. a[Len(a)] \in 0 .. now /\ now - a[Len(a)] < Lockout
    BY <2>1, <2>3, <2>4, <2>5, TimesAssumption
  <2> DEFINE last == Len(a) - MaxFails + 1 .. Len(a)
             S == Admissions(k, a[Len(a)], Window)
  <2>7. last \subseteq S
    <3> SUFFICES ASSUME NEW i \in last
                 PROVE  i \in S
      OBVIOUS
    <3>1. /\ i \in 1 .. Len(a) /\ i \in DOMAIN a
          /\ i <= Len(a) /\ Len(a) - MaxFails + 1 <= i
      <4>1. i \in 1 .. Len(a) /\ i <= Len(a) /\ Len(a) - MaxFails + 1 <= i
        BY <2>1, <2>2, <2>4
      <4> QED
        BY <2>1, <2>2, <4>1, LenProperties
    <3>2. a[i] <= a[Len(a)] /\ a[Len(a) - MaxFails + 1] <= a[i]
      BY <2>3, <2>4, <3>1 DEF InOrder
    <3>3. a[Len(a)] - a[i] < Window
      BY <2>3, <2>4, <2>5, <3>1, <3>2, TimesAssumption
    <3> QED
      BY <2>2, <3>1, <3>2, <3>3 DEF Admissions
  <2>8. IsFiniteSet(S)
    <3>1. IsFiniteSet(1 .. Len(a))
      BY <2>1, <2>2, FS_Interval
    <3>2. S \subseteq 1 .. Len(a)
      BY <2>1, <2>2, LenProperties DEF Admissions
    <3> HIDE DEF S
    <3> QED
      BY <3>1, <3>2, FS_Subset
  <2>9. Cardinality(last) = MaxFails
    <3>1. /\ Len(a) - MaxFails + 1 \in Int /\ Len(a) \in Int
          /\ ~ Len(a) - MaxFails + 1 > Len(a)
          /\ Len(a) - (Len(a) - MaxFails + 1) + 1 = MaxFails
      BY <2>1, <2>2
    <3> QED
      BY <3>1, FS_Interval
  <2>10. Cardinality(S) >= MaxFails
    <3>1. Cardinality(last) <= Cardinality(S) /\ Cardinality(S) \in Nat
      <4> HIDE DEF S, last
      <4> QED
        BY <2>7, <2>8, FS_Subset, FS_CardinalityType
    <3> QED
      BY <2>1, <2>9, <3>1
  <2> QED
    BY <2>6, <2>10
<1> QED
  BY <1>1, Invariance, PTL

\* A step lets a lockout go only when it is over, but for the login that was in
\* flight when it began: a sweep, a refused or a late failing attempt never
\* shortens it (_sweep, allowed, record_failure).
THEOREM LockoutIsKept == Spec => LockoutKept
<1>1. ASSUME LimiterInv, [Next]_vars, NEW k \in Keys, locked[k] > now'
      PROVE  locked'[k] >= locked[k] \/ LoginSucceeded(k)
  <2>1. /\ now \in Nat /\ locked[k] \in Nat /\ locked[k] <= now + Lockout /\ Lockout \in Nat
        /\ locked \in [Keys -> 0 .. MaxTime + Lockout]
    BY <1>1, InvFacts, TimesAssumption DEF LimiterInv, KeyOK, TypeOK
  <2>2. now <= now'
    BY <1>1, <2>1 DEF Next, Tick, PublicRoute, LoginRoute, Request, Login, LoginFailed,
                      LoginSucceeded, vars
  <2>3. now' \in Nat
    BY <1>1, <2>1 DEF Next, Tick, PublicRoute, LoginRoute, Request, Login, LoginFailed,
                      LoginSucceeded, vars
  <2>4. ~ locked[k] <= now
    BY <1>1, <2>1, <2>2, <2>3
  <2>5. Locked0[k] = locked[k] /\ ~ Allowed(k)
    BY <1>1, <2>4, SweepEffect DEF Allowed
  <2>6. PICK ls \in [Keys -> Nat] : ls = Locked0
    BY <1>1, SweptTables
  <2>7. CASE PublicRoute
    <3>1. PICK j \in Keys : Request(j)
      BY <2>7 DEF PublicRoute
    <3>2. CASE j = k
      BY <2>1, <2>5, <3>1, <3>2 DEF Request, Locked1
    <3>3. CASE j # k
      <4>1. PICK l1 \in [Keys -> Nat] : l1 = Locked1(j) /\ l1[k] = locked[k]
        <5>1. PICK l0 \in [Keys -> Nat] : l0 = [ls EXCEPT ![j] = 0]
          OBVIOUS
        <5>2. Locked1(j) = ls \/ Locked1(j) = l0
          BY <2>6, <5>1 DEF Locked1
        <5>3. ls[k] = locked[k] /\ l0[k] = locked[k]
          BY <2>5, <2>6, <3>3, <5>1
        <5> QED
          BY <5>2, <5>3
      <4>2. locked' = l1 \/ locked' = [l1 EXCEPT ![j] = now + Lockout]
        BY <3>1, <4>1 DEF Request, RecordFailure
      <4>3. locked'[k] = locked[k]
        BY <3>3, <4>1, <4>2
      <4> QED
        BY <2>1, <4>3
    <3> QED
      BY <3>2, <3>3
  <2>8. CASE LoginRoute
    <3>1. PICK j \in Keys : Login(j) \/ LoginFailed(j) \/ LoginSucceeded(j)
      BY <2>8 DEF LoginRoute
    <3>2. CASE Login(j)
      <4>1. CASE j = k
        BY <2>1, <2>5, <3>2, <4>1 DEF Login, Locked1
      <4>2. CASE j # k
        <5>1. Locked1(j)[k] = locked[k]
          BY <2>5, <2>6, <4>2 DEF Locked1
        <5> QED
          BY <2>1, <3>2, <5>1 DEF Login
      <4> QED
        BY <4>1, <4>2
    <3>3. CASE LoginFailed(j)
      <4>1. locked' = ls \/ locked' = [ls EXCEPT ![j] = now + Lockout]
        BY <2>6, <3>3 DEF LoginFailed, RecordFailure
      <4>2. locked'[k] = locked[k] \/ locked'[k] = now + Lockout
        BY <2>5, <2>6, <4>1
      <4> QED
        BY <2>1, <4>2
    <3>4. CASE LoginSucceeded(j)
      <4>1. CASE j = k
        BY <3>4, <4>1
      <4>2. CASE j # k
        <5>1. locked'[k] = locked[k]
          BY <2>1, <3>4, <4>2 DEF LoginSucceeded
        <5> QED
          BY <2>1, <5>1
      <4> QED
        BY <4>1, <4>2
    <3> QED
      BY <3>1, <3>2, <3>3, <3>4
  <2>9. CASE Tick \/ UNCHANGED vars
    BY <2>1, <2>9 DEF Tick, vars, limiter
  <2> QED
    BY <1>1, <2>7, <2>8, <2>9 DEF Next
<1>2. LimiterInv /\ [Next]_vars =>
          \A k \in Keys : locked[k] > now' => locked'[k] >= locked[k] \/ LoginSucceeded(k)
  BY <1>1
<1>3. LimiterInv /\ [Next]_vars =>
          [\A k \in Keys : locked[k] > now' => locked'[k] >= locked[k] \/ LoginSucceeded(k)]_vars
  BY <1>2
<1> QED
  BY <1>3, Invariance, PTL DEF Spec, LockoutKept

\* The maps hold only clients that were active of late (_sweep): after a public
\* request the failures of a key that is not locked out end less than two windows
\* ago, and a lockout that is over ended less than a window ago.
THEOREM MapsAreBounded == Spec => Bounded
<1> DEFINE Touched == public /\ (lastSweep' = now \/ fails' # fails \/ locked' # locked)
           Recently(k) ==
               /\ fails'[k] # <<>> /\ locked'[k] <= now =>
                      \E i \in DOMAIN fails'[k] : now - fails'[k][i] < 2 * Window
               /\ locked'[k] # 0 => now < locked'[k] + Window
<1>1. ASSUME LimiterInv, LimiterInv', [Next]_vars, Touched, NEW k \in Keys
      PROVE  Recently(k)
  <2>1. PICK f : f = fails'[k]
    OBVIOUS
  <2>2. PICK lk : lk = locked'[k]
    OBVIOUS
  <2>3. PICK w : w = lastSweep'
    OBVIOUS
  <2>4. public /\ now \in Nat /\ Window \in Nat
    BY <1>1, InvFacts, TimesAssumption
  <2>5. public' /\ w \in Nat /\ now < w + Window
    <3>1. CASE PublicRoute
      <4>1. public' /\ w = SweepAt
        BY <2>3, <2>4, <3>1 DEF PublicRoute, Request, SweepTime, SweepAt
      <4> QED
        BY <1>1, <4>1, InvFacts
    <3>2. CASE Tick \/ UNCHANGED vars
      <4>1. /\ fails' = fails /\ locked' = locked /\ lastSweep' = lastSweep /\ public' = public
        BY <3>2 DEF Tick, vars, limiter
      <4>2. w = now
        BY <1>1, <2>3, <4>1
      <4> QED
        BY <2>4, <4>1, <4>2, TimesAssumption
    <3> QED
      BY <1>1, <2>4, <3>1, <3>2 DEF Next, LoginRoute
  <2>6. f \in Seq(Times) /\ lk \in Nat /\ SweptOK(f, lk, w)
    BY <1>1, <2>1, <2>2, <2>3, <2>5 DEF LimiterInv, KeyOK, PublicOK, SweptOK, Times
  <2>7. lk # 0 => now < lk + Window
    BY <2>4, <2>5, <2>6 DEF SweptOK
  <2>8. ASSUME f # <<>>
        PROVE  \E i \in DOMAIN f : now - f[i] < 2 * Window
    <3>1. /\ Len(f) \in 1 .. Len(f) /\ DOMAIN f = 1 .. Len(f) /\ f[Len(f)] \in Nat
      BY <2>6, <2>8, SeqFacts, LenProperties
    <3>2. w < f[Len(f)] + Window
      BY <2>6, <2>8 DEF SweptOK
    <3>3. now - f[Len(f)] < 2 * Window
      BY <2>4, <2>5, <3>1, <3>2
    <3> QED
      BY <3>1, <3>3
  <2> QED
    BY <2>1, <2>2, <2>7, <2>8
<1>2. LimiterInv /\ LimiterInv' /\ [Next]_vars => (Touched => \A k \in Keys : Recently(k))
  BY <1>1
<1>3. LimiterInv /\ LimiterInv' /\ [Next]_vars => [Touched => \A k \in Keys : Recently(k)]_vars
  BY <1>2
<1> QED
  BY <1>3, Invariance, PTL DEF Spec, Bounded

=============================================================================

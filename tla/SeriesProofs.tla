---------------------------- MODULE SeriesProofs ----------------------------
(***************************************************************************)
(* What the edits of a recurring event show (Series): series stay series,  *)
(* "this event" changes one occurrence, "all events" moves all of them     *)
(* alike, and a split or a truncation keeps every occurrence.              *)
(*                                                                         *)
(* What is shown is one occurrence for each slot of Seen, at StartOf.  So  *)
(* each edit comes down to the slots seen afterwards: for "all events" by  *)
(* remainders modulo Week, for a split by counting the slots of the rule   *)
(* before the anchor.                                                      *)
(***************************************************************************)
EXTENDS Series, FiniteSetTheorems, SequenceTheorems, TLAPS

-----------------------------------------------------------------------------
(* Remainders                                                              *)

LEMMA Quotient ==
    ASSUME NEW w \in Nat \ {0}, NEW a \in Int
    PROVE  /\ a \div w \in Int /\ a % w \in 0 .. w - 1
           /\ a = w * (a \div w) + (a % w)
  OBVIOUS

\* Only one multiple of w is less than w away.
LEMMA NoMultipleBetween ==
    ASSUME NEW w \in Nat \ {0}, NEW k \in Int, NEW r \in 0 .. w - 1, NEW q \in 0 .. w - 1,
           q - r = w * k
    PROVE  k = 0 /\ q = r
<1>1. w * k < w /\ w * k > -w
  OBVIOUS
<1>2. k < 1
  <2>1. SUFFICES ASSUME k >= 1 PROVE FALSE
    OBVIOUS
  <2>2. w * k >= w * 1
    BY <2>1
  <2> QED
    BY <1>1, <2>2
<1>3. k > -1
  <2>1. SUFFICES ASSUME k <= -1 PROVE FALSE
    OBVIOUS
  <2>2. w * k <= w * (-1)
    BY <2>1
  <2> QED
    BY <1>1, <2>2
<1> QED
  BY <1>2, <1>3

LEMMA SameRemainder ==
    ASSUME NEW w \in Nat \ {0}, NEW a \in Int, NEW b \in Int
    PROVE  a % w = b % w <=> \E k \in Int : a - b = w * k
<1>1. PICK m \in Int : m = a \div w
  BY Quotient
<1>2. PICK n \in Int : n = b \div w
  BY Quotient
<1>3. PICK r \in 0 .. w - 1 : r = a % w
  BY Quotient
<1>4. PICK q \in 0 .. w - 1 : q = b % w
  BY Quotient
<1>5. a = w * m + r /\ b = w * n + q
  BY <1>1, <1>2, <1>3, <1>4, Quotient
<1>6. ASSUME r = q
      PROVE  \E k \in Int : a - b = w * k
  <2>1. a - b = w * (m - n)
    BY <1>5, <1>6
  <2> QED
    BY <2>1
<1>7. ASSUME NEW k \in Int, a - b = w * k
      PROVE  r = q
  <2>1. q - r = w * (m - n - k)
    BY <1>5, <1>7
  <2> QED
    BY <2>1, NoMultipleBetween
<1> QED
  BY <1>3, <1>4, <1>6, <1>7

\* Moving both by the same offset keeps two days on the same weekday.
LEMMA MovedRemainder ==
    ASSUME NEW w \in Nat \ {0}, NEW a \in Int, NEW b \in Int, NEW d \in Int
    PROVE  (a + d) % w = (b + d) % w <=> a % w = b % w
<1>1. PICK e \in Int : e = a - b
  OBVIOUS
<1>2. (a + d) - (b + d) = e /\ a + d \in Int /\ b + d \in Int
  BY <1>1
<1>3. (a + d) % w = (b + d) % w <=> \E k \in Int : e = w * k
  BY <1>2, SameRemainder
<1>4. a % w = b % w <=> \E k \in Int : e = w * k
  BY <1>1, SameRemainder
<1> QED
  BY <1>3, <1>4

LEMMA OwnRemainder ==
    ASSUME NEW w \in Nat \ {0}, NEW a \in 0 .. w - 1
    PROVE  a % w = a
<1>1. PICK k \in Int : k = a \div w
  BY Quotient
<1>2. PICK r \in 0 .. w - 1 : r = a % w
  BY Quotient
<1>3. a = w * k + r
  BY <1>1, <1>2, Quotient
<1>4. a - r = w * k
  BY <1>3
<1> QED
  BY <1>2, <1>4, NoMultipleBetween

LEMMA Multiple ==
    ASSUME NEW w \in Nat \ {0}, NEW a \in Int
    PROVE  a % w = 0 <=> \E m \in Int : a = w * m
<1>1. PICK z \in Int : z = 0
  OBVIOUS
<1>2. z % w = z
  BY <1>1, OwnRemainder
<1>3. a % w = z % w <=> \E m \in Int : a - z = w * m
  BY SameRemainder
<1>4. a - z = a
  BY <1>1
<1> QED
  BY <1>1, <1>2, <1>3, <1>4

\* Multiples can be subtracted.
LEMMA ZeroRemainder ==
    ASSUME NEW w \in Nat \ {0}, NEW a \in Int, NEW b \in Int, b % w = 0
    PROVE  (a - b) % w = 0 <=> a % w = 0
<1>2. PICK k \in Int : b = w * k
  BY Multiple
<1>3. a % w = 0 <=> \E m \in Int : a = w * m
  BY Multiple
<1>4. (a - b) % w = 0 <=> \E m \in Int : a - b = w * m
  <2>1. PICK c \in Int : c = a - b
    OBVIOUS
  <2> QED
    BY <2>1, Multiple
<1>5. ASSUME NEW m \in Int, a = w * m
      PROVE  \E n \in Int : a - b = w * n
  <2>1. a - b = w * (m - k)
    BY <1>2, <1>5
  <2> QED
    BY <2>1
<1>6. ASSUME NEW m \in Int, a - b = w * m
      PROVE  \E n \in Int : a = w * n
  <2>1. a = w * (m + k)
    BY <1>2, <1>6
  <2> QED
    BY <2>1
<1> QED
  BY <1>3, <1>4, <1>5, <1>6

-----------------------------------------------------------------------------
(* Counting                                                                *)

\* Moving a set of days does not change how many they are.
LEMMA MovedSameSize ==
    ASSUME NEW S \in SUBSET Int, NEW T \in SUBSET Int, NEW d \in Int, IsFiniteSet(S),
           \A t \in Int : t + d \in T <=> t \in S
    PROVE  IsFiniteSet(T) /\ Cardinality(T) = Cardinality(S)
<1>1. PICK f : f = [t \in S |-> t + d]
  OBVIOUS
<1>2. f \in [S -> T] /\ \A t \in S : f[t] = t + d
  BY <1>1
<1>3. \A t, u \in S : f[t] = f[u] => t = u
  BY <1>2
<1>4. \A t \in T : \E u \in S : f[u] = t
  <2>1. SUFFICES ASSUME NEW t \in T
                 PROVE  \E u \in S : f[u] = t
    OBVIOUS
  <2>2. t - d \in Int /\ (t - d) + d = t
    OBVIOUS
  <2>3. t - d \in S
    BY <2>2
  <2> QED
    BY <1>2, <2>2, <2>3
<1>5. f \in Bijection(S, T)
  BY <1>2, <1>3, <1>4 DEF Bijection, Injection, Surjection, IsInjective
<1> QED
  BY <1>5, FS_Bijection DEF ExistsBijection

-----------------------------------------------------------------------------
(* The slots of a series                                                   *)

LEMMA SeriesTypes ==
    ASSUME NEW s, IsSeries(s)
    PROVE  /\ s.start \in Int
           /\ s.exdate \subseteq Int /\ s.rdate \subseteq Int /\ DOMAIN s.over \subseteq Int
           /\ \A x \in DOMAIN s.over : s.over[x] \in Int
           /\ \A x \in Int : StartOf(s, x) \in Int
           /\ s.rule # None => /\ s.rule \in Rule
                               /\ s.rule.by \subseteq 0 .. Week - 1
                               /\ s.rule.count # None => s.rule.count \in Nat \ {0}
                               /\ s.rule.until # None => s.rule.until \in Int
  BY DEF IsSeries, Days, Rule, StartOf

\* The slots the rule has before day t.
Earlier(s, t) == {u \in s.start .. t - 1 : OnRule(s, u)}

\* The rule generates slot t.
OnSlot(s, t) ==
    /\ OnRule(s, t)
    /\ s.rule.until # None => t <= s.rule.until
    /\ s.rule.count # None => Cardinality(Earlier(s, t)) < s.rule.count

LEMMA GeneratedAre ==
    ASSUME NEW s, IsSeries(s), NEW h \in Int
    PROVE  /\ Generated(s, h) \subseteq Int
           /\ \A t \in Int : t \in Generated(s, h) <=> t <= h /\ OnSlot(s, t)
<1>1. s.start \in Int
  BY SeriesTypes
<1> QED
  BY <1>1 DEF Generated, OnSlot, Earlier, OnRule

LEMMA EarlierFinite ==
    ASSUME NEW s, IsSeries(s), NEW t \in Int
    PROVE  /\ IsFiniteSet(Earlier(s, t)) /\ Cardinality(Earlier(s, t)) \in Nat
           /\ Earlier(s, t) \subseteq Int
<1>1. s.start \in Int
  BY SeriesTypes
<1>2. IsFiniteSet(s.start .. t - 1)
  BY <1>1, FS_Interval
<1>3. Earlier(s, t) \subseteq s.start .. t - 1
  BY DEF Earlier
<1>4. IsFiniteSet(Earlier(s, t))
  BY <1>2, <1>3, FS_Subset
<1> QED
  BY <1>1, <1>3, <1>4, FS_CardinalityType

\* The slots shown, overridden or not.
Seen(s, h) == Slots(s, h) \cup {x \in DOMAIN s.over : x <= h}

LEMMA SeenIs ==
    ASSUME NEW s, IsSeries(s), NEW h \in Int
    PROVE  /\ Seen(s, h) \subseteq Int
           /\ \A t \in Int : t \in Seen(s, h) <=>
                  /\ t <= h
                  /\ \/ /\ OnSlot(s, t) \/ t \in StartSlot(s) \/ t \in s.rdate
                        /\ t \notin s.exdate
                     \/ t \in DOMAIN s.over
<1>1. StartSlot(s) \subseteq Int
  BY SeriesTypes DEF StartSlot
<1> QED
  BY <1>1, GeneratedAre, SeriesTypes DEF Seen, Slots

LEMMA ShownAre ==
    ASSUME NEW s, IsSeries(s), NEW h \in Int
    PROVE  Shown(s, h) = {[slot |-> x, at |-> StartOf(s, x)] : x \in Seen(s, h)}
<1>1. Slots(s, h) \subseteq Int /\ \A x \in Slots(s, h) : x <= h
  BY SeenIs DEF Seen, Slots
<1>2. ASSUME NEW o \in Shown(s, h)
      PROVE  \E x \in Seen(s, h) : o = [slot |-> x, at |-> StartOf(s, x)]
  BY <1>2 DEF Shown, Seen, StartOf
<1>3. ASSUME NEW x \in Seen(s, h)
      PROVE  [slot |-> x, at |-> StartOf(s, x)] \in Shown(s, h)
  <2>1. CASE x \in DOMAIN s.over
    BY <1>1, <1>3, <2>1 DEF Shown, Seen, StartOf
  <2>2. CASE x \notin DOMAIN s.over
    BY <1>3, <2>2 DEF Shown, Seen, StartOf
  <2> QED
    BY <2>1, <2>2
<1> QED
  BY <1>2, <1>3

LEMMA PicksAre ==
    ASSUME NEW s, IsSeries(s), NEW h \in Int
    PROVE  {o.slot : o \in Shown(s, h)} = Seen(s, h)
<1>1. ASSUME NEW o \in Shown(s, h)
      PROVE  o.slot \in Seen(s, h)
  BY <1>1, ShownAre
<1>2. ASSUME NEW x \in Seen(s, h)
      PROVE  \E o \in Shown(s, h) : o.slot = x
  <2>1. PICK o : o = [slot |-> x, at |-> StartOf(s, x)]
    OBVIOUS
  <2>2. o \in Shown(s, h) /\ o.slot = x
    BY <1>2, <2>1, ShownAre
  <2> QED
    BY <2>2
<1> QED
  BY <1>1, <1>2

\* The occurrences shown of s whose slots are in X.
Portion(s, h, X) == {o \in Shown(s, h) : o.slot \in X}

\* Day y is d days after day x.
After(y, x, d) == y = x + d

\* If u shows, d days later, the slots of s that are in X, at the days that s
\* does, then what is shown of u is the part of s in X, moved.
LEMMA MapShown ==
    ASSUME NEW s, IsSeries(s), NEW u, IsSeries(u), NEW h \in Int, NEW k \in Int, NEW d \in Int,
           NEW X, X \subseteq Seen(s, h),
           \A x, y \in Int : After(y, x, d) => (y \in Seen(u, k) <=> x \in X),
           \A x \in X, y \in Int : After(y, x, d) => StartOf(u, y) = StartOf(s, x) + d
    PROVE  Shown(u, k) = ShownMoved(Portion(s, h, X), d)
<1>1. X \subseteq Int /\ Seen(u, k) \subseteq Int
  BY SeenIs
<1>2. PICK O : O = {o \in Shown(s, h) : o.slot \in X}
  OBVIOUS
<1>3. O = {[slot |-> x, at |-> StartOf(s, x)] : x \in X}
  BY <1>2, ShownAre
<1>4. \A o \in O : \E x \in X : o = [slot |-> x, at |-> StartOf(s, x)]
  BY <1>3
<1>5. \A x \in X : [slot |-> x, at |-> StartOf(s, x)] \in O
  BY <1>3
<1>6. Shown(u, k) = {[slot |-> y, at |-> StartOf(u, y)] : y \in Seen(u, k)}
  BY ShownAre
<1>7. ASSUME NEW e \in Shown(u, k)
      PROVE  \E o \in O : e = [slot |-> o.slot + d, at |-> o.at + d]
  <2>1. PICK y \in Seen(u, k) : e = [slot |-> y, at |-> StartOf(u, y)]
    BY <1>6, <1>7
  <2>2. PICK x \in Int : x = y - d
    BY <1>1, <2>1
  <2>3. After(y, x, d) /\ x \in X
    BY <1>1, <2>1, <2>2 DEF After
  <2>4. PICK o \in O : o = [slot |-> x, at |-> StartOf(s, x)]
    BY <1>5, <2>3
  <2>5. StartOf(u, y) = StartOf(s, x) + d
    BY <2>3
  <2> QED
    BY <2>1, <2>3, <2>4, <2>5 DEF After
<1>8. ASSUME NEW o \in O
      PROVE  [slot |-> o.slot + d, at |-> o.at + d] \in Shown(u, k)
  <2>1. PICK x \in X : o = [slot |-> x, at |-> StartOf(s, x)]
    BY <1>4, <1>8
  <2>2. PICK y \in Int : y = x + d
    BY <1>1, <2>1
  <2>3. y \in Seen(u, k) /\ StartOf(u, y) = StartOf(s, x) + d
    BY <1>1, <2>1, <2>2 DEF After
  <2> QED
    BY <1>6, <2>1, <2>2, <2>3 DEF After
<1>9. Shown(u, k) = {[slot |-> o.slot + d, at |-> o.at + d] : o \in O}
  BY <1>7, <1>8
<1> QED
  BY <1>2, <1>9 DEF ShownMoved, Portion

-----------------------------------------------------------------------------
(* "This event"                                                            *)

\* Two series with the same start and rule have the same slots on the rule.
LEMMA SameRule ==
    ASSUME NEW s, IsSeries(s), NEW u, u.start = s.start, u.rule = s.rule
    PROVE  /\ StartSlot(u) = StartSlot(s)
           /\ \A t \in Int : OnSlot(u, t) <=> OnSlot(s, t)
<1>1. \A t : OnRule(u, t) <=> OnRule(s, t)
  BY DEF OnRule
<1>2. \A t : Earlier(u, t) = Earlier(s, t)
  BY <1>1 DEF Earlier
<1> QED
  BY <1>1, <1>2 DEF OnSlot, StartSlot

LEMMA ExcludedFields ==
    ASSUME NEW s, IsSeries(s), NEW r \in Int, NEW u, u = Excluded(s, r)
    PROVE  /\ IsSeries(u)
           /\ u.start = s.start /\ u.rule = s.rule /\ u.rdate = s.rdate
           /\ u.exdate = s.exdate \cup {r}
           /\ DOMAIN u.over = DOMAIN s.over \ {r}
           /\ \A x \in DOMAIN u.over : u.over[x] = s.over[x]
<1>1. PICK o : o = Kept(s.over, DOMAIN s.over \ {r})
  OBVIOUS
<1>2. DOMAIN o = DOMAIN s.over \ {r} /\ \A x \in DOMAIN o : o[x] = s.over[x]
  BY <1>1 DEF Kept, Restrict
<1>3. /\ DOMAIN u = DOMAIN s /\ u.over = o /\ u.exdate = s.exdate \cup {r}
      /\ u.start = s.start /\ u.rule = s.rule /\ u.rdate = s.rdate
  BY <1>1 DEF Excluded, IsSeries
<1>4. IsSeries(u)
  BY <1>2, <1>3 DEF IsSeries, Days
<1> QED
  BY <1>2, <1>3, <1>4

\* A deleted occurrence is not shown, and all others are.
LEMMA ExcludedShows ==
    ASSUME NEW s, IsSeries(s), NEW r \in Int, NEW h \in Int
    PROVE  Shown(Excluded(s, r), h) = {o \in Shown(s, h) : o.slot # r}
<1>1. PICK u : u = Excluded(s, r)
  OBVIOUS
<1>2. /\ IsSeries(u)
      /\ u.start = s.start /\ u.rule = s.rule /\ u.rdate = s.rdate
      /\ u.exdate = s.exdate \cup {r}
      /\ DOMAIN u.over = DOMAIN s.over \ {r}
      /\ \A x \in DOMAIN u.over : u.over[x] = s.over[x]
  BY <1>1, ExcludedFields
<1>3. StartSlot(u) = StartSlot(s) /\ \A t \in Int : OnSlot(u, t) <=> OnSlot(s, t)
  BY <1>2, SameRule
<1>4. Seen(u, h) \subseteq Int /\ Seen(s, h) \subseteq Int
  BY <1>2, SeenIs
<1>5. \A x \in Int : x \in Seen(u, h) <=> x \in Seen(s, h) /\ x # r
  BY <1>2, <1>3, SeenIs
<1>6. \A x \in Seen(u, h) : StartOf(u, x) = StartOf(s, x)
  BY <1>2, <1>4, <1>5 DEF StartOf
<1>7. Shown(u, h) = {[slot |-> x, at |-> StartOf(u, x)] : x \in Seen(u, h)}
  BY <1>2, ShownAre
<1>8. Shown(s, h) = {[slot |-> x, at |-> StartOf(s, x)] : x \in Seen(s, h)}
  BY ShownAre
<1>9. ASSUME NEW o
      PROVE  o \in Shown(u, h) <=> o \in Shown(s, h) /\ o.slot # r
  BY <1>4, <1>5, <1>6, <1>7, <1>8
<1> QED
  BY <1>1, <1>9

LEMMA OverriddenFields ==
    ASSUME NEW s, IsSeries(s), NEW r \in Int, NEW t \in Int, NEW u, u = Overridden(s, r, t)
    PROVE  /\ IsSeries(u)
           /\ u.start = s.start /\ u.rule = s.rule
           /\ u.rdate = s.rdate /\ u.exdate = s.exdate
           /\ DOMAIN u.over = DOMAIN s.over \cup {r}
           /\ u.over[r] = t
           /\ \A x \in DOMAIN s.over : x # r => u.over[x] = s.over[x]
<1>1. PICK o : o = [x \in DOMAIN s.over \cup {r} |-> IF x = r THEN t ELSE s.over[x]]
  OBVIOUS
<1>2. /\ DOMAIN o = DOMAIN s.over \cup {r} /\ o[r] = t
      /\ \A x \in DOMAIN s.over : x # r => o[x] = s.over[x]
  BY <1>1
<1>3. /\ DOMAIN u = DOMAIN s /\ u.over = o /\ u.exdate = s.exdate
      /\ u.start = s.start /\ u.rule = s.rule /\ u.rdate = s.rdate
  BY <1>1 DEF Overridden, IsSeries
<1>4. IsSeries(u)
  BY <1>2, <1>3 DEF IsSeries, Days
<1> QED
  BY <1>2, <1>3, <1>4

\* A moved occurrence is shown where it was moved to, and all others stay.
LEMMA OverriddenShows ==
    ASSUME NEW s, IsSeries(s), NEW h \in Int, NEW r \in Seen(s, h), NEW t \in Int
    PROVE  Shown(Overridden(s, r, t), h)
               = {o \in Shown(s, h) : o.slot # r} \cup {[slot |-> r, at |-> t]}
<1>1. PICK u : u = Overridden(s, r, t)
  OBVIOUS
<1>2. r \in Int /\ r <= h /\ Seen(s, h) \subseteq Int
  BY SeenIs
<1>3. /\ IsSeries(u)
      /\ u.start = s.start /\ u.rule = s.rule
      /\ u.rdate = s.rdate /\ u.exdate = s.exdate
      /\ DOMAIN u.over = DOMAIN s.over \cup {r}
      /\ u.over[r] = t
      /\ \A x \in DOMAIN s.over : x # r => u.over[x] = s.over[x]
  BY <1>1, <1>2, OverriddenFields
<1>4. StartSlot(u) = StartSlot(s) /\ \A x \in Int : OnSlot(u, x) <=> OnSlot(s, x)
  BY <1>3, SameRule
<1>5. Seen(u, h) \subseteq Int
  BY <1>3, SeenIs
<1>6. \A x \in Int : x \in Seen(u, h) <=> x \in Seen(s, h)
  BY <1>2, <1>3, <1>4, SeenIs
<1>7. Seen(u, h) = Seen(s, h)
  BY <1>2, <1>5, <1>6
<1>8. \A x \in Seen(s, h) : StartOf(u, x) = IF x = r THEN t ELSE StartOf(s, x)
  BY <1>3 DEF StartOf
<1>9. Shown(u, h) = {[slot |-> x, at |-> StartOf(u, x)] : x \in Seen(u, h)}
  BY <1>3, ShownAre
<1>10. Shown(s, h) = {[slot |-> x, at |-> StartOf(s, x)] : x \in Seen(s, h)}
  BY ShownAre
<1>11. ASSUME NEW o \in Shown(u, h)
       PROVE  \/ o \in Shown(s, h) /\ o.slot # r
              \/ o = [slot |-> r, at |-> t]
  BY <1>7, <1>8, <1>9, <1>10, <1>11
<1>12. ASSUME NEW o \in Shown(s, h), o.slot # r
       PROVE  o \in Shown(u, h)
  <2>1. PICK x \in Seen(s, h) : o = [slot |-> x, at |-> StartOf(s, x)]
    BY <1>10, <1>12
  <2>2. x # r
    BY <1>12, <2>1
  <2> QED
    BY <1>7, <1>8, <1>9, <2>1, <2>2
<1>13. [slot |-> r, at |-> t] \in Shown(u, h)
  BY <1>7, <1>8, <1>9
<1> QED
  BY <1>1, <1>11, <1>12, <1>13

-----------------------------------------------------------------------------
(* "All events"                                                            *)

LEMMA MovedSet ==
    ASSUME NEW S \in SUBSET Int, NEW d \in Int
    PROVE  Moved(S, d) \subseteq Int /\ \A x \in Int : x + d \in Moved(S, d) <=> x \in S
  BY DEF Moved

\* The rotated BYDAY list names the weekday of a moved day iff the old list
\* names that of the day.
LEMMA Rotated ==
    ASSUME NEW by \in SUBSET (0 .. Week - 1), NEW t \in Int, NEW d \in Int
    PROVE  (\E w \in by : (t + d) % Week = (w + d) % Week) <=> t % Week \in by
<1>1. ASSUME NEW w \in by
      PROVE  (t + d) % Week = (w + d) % Week <=> t % Week = w
  <2>1. w \in 0 .. Week - 1 /\ w \in Int
    BY WeekAssumption DEF WeekAssumption
  <2>2. w % Week = w
    BY <2>1, WeekAssumption, OwnRemainder DEF WeekAssumption
  <2>3. (t + d) % Week = (w + d) % Week <=> t % Week = w % Week
    BY <2>1, WeekAssumption, MovedRemainder DEF WeekAssumption
  <2> QED
    BY <2>2, <2>3
<1> QED
  BY <1>1

LEMMA ShiftedFields ==
    ASSUME NEW s, IsSeries(s), NEW d \in Int, NEW u, u = Shifted(s, d)
    PROVE  /\ IsSeries(u)
           /\ u.start = s.start + d
           /\ u.rule = MovedRule(s.rule, d)
           /\ \A x \in Int : /\ x + d \in u.exdate <=> x \in s.exdate
                             /\ x + d \in u.rdate <=> x \in s.rdate
                             /\ x + d \in DOMAIN u.over <=> x \in DOMAIN s.over
           /\ \A x \in DOMAIN s.over : u.over[x + d] = s.over[x] + d
           /\ s.rule = None => u.rule = None
           /\ s.rule # None =>
                  /\ u.rule # None
                  /\ u.rule.by = {(w + d) % Week : w \in s.rule.by}
                  /\ u.rule.count = s.rule.count
                  /\ u.rule.until = IF s.rule.until = None THEN None ELSE s.rule.until + d
<1>1. PICK o : o = [x \in Moved(DOMAIN s.over, d) |-> s.over[x - d] + d]
  OBVIOUS
<1>2. PICK rule : rule = MovedRule(s.rule, d)
  OBVIOUS
<1>3. /\ u = [start |-> s.start + d, rule |-> rule, exdate |-> Moved(s.exdate, d),
              rdate |-> Moved(s.rdate, d), over |-> o]
  BY <1>1, <1>2 DEF Shifted
<1>4. /\ DOMAIN u = {"start", "rule", "exdate", "rdate", "over"}
      /\ u.start = s.start + d /\ u.rule = rule /\ u.exdate = Moved(s.exdate, d)
      /\ u.rdate = Moved(s.rdate, d) /\ u.over = o
  BY <1>3
<1>5. /\ s.exdate \in SUBSET Int /\ s.rdate \in SUBSET Int /\ DOMAIN s.over \in SUBSET Int
      /\ s.start \in Int /\ \A x \in DOMAIN s.over : s.over[x] \in Int
  BY SeriesTypes
<1>6. DOMAIN o = Moved(DOMAIN s.over, d)
  BY <1>1
<1>7. ASSUME NEW x \in DOMAIN s.over
      PROVE  x + d \in DOMAIN o /\ o[x + d] = s.over[x] + d
  <2>1. x \in Int /\ x + d \in Moved(DOMAIN s.over, d) /\ (x + d) - d = x
    BY <1>5, MovedSet
  <2> QED
    BY <1>1, <2>1
<1>8. ASSUME NEW y \in DOMAIN o
      PROVE  o[y] \in Int
  <2>1. PICK x \in DOMAIN s.over : y = x + d
    BY <1>6 DEF Moved
  <2> QED
    BY <1>5, <1>7, <2>1
<1>9. s.rule = None => rule = None
  BY <1>2 DEF MovedRule
<1>10. s.rule # None =>
           /\ rule \in Rule /\ rule # None
           /\ rule.by = {(w + d) % Week : w \in s.rule.by}
           /\ rule.count = s.rule.count
           /\ rule.until = IF s.rule.until = None THEN None ELSE s.rule.until + d
  <2>1. SUFFICES ASSUME s.rule # None
                 PROVE  /\ rule \in Rule /\ rule # None
                        /\ rule.by = {(w + d) % Week : w \in s.rule.by}
                        /\ rule.count = s.rule.count
                        /\ rule.until = IF s.rule.until = None THEN None ELSE s.rule.until + d
    OBVIOUS
  <2>2. PICK old \in Rule : old = s.rule
    BY <2>1, SeriesTypes
  <2>3. PICK by : by = {(w + d) % Week : w \in old.by}
    OBVIOUS
  <2>4. old.by \subseteq 0 .. Week - 1
    BY <2>2 DEF Rule
  <2>5. by \in SUBSET (0 .. Week - 1)
    <3>1. \A w \in old.by : w + d \in Int
      BY <2>4, WeekAssumption DEF WeekAssumption
    <3>2. \A w \in old.by : (w + d) % Week \in 0 .. Week - 1
      BY <3>1, WeekAssumption, Quotient DEF WeekAssumption
    <3> QED
      BY <2>3, <3>2
  <2>6. PICK until : until = IF old.until = None THEN None ELSE old.until + d
    OBVIOUS
  <2>7. rule = [old EXCEPT !.by = by, !.until = until]
    BY <1>2, <2>1, <2>2, <2>3, <2>6 DEF MovedRule
  <2>8. /\ rule.by = by /\ rule.count = old.count /\ rule.until = until
        /\ rule \in Rule
    <3>1. rule.by = by /\ rule.count = old.count /\ rule.until = until
      BY <2>7 DEF Rule
    <3>2. CASE old \in [by : SUBSET (0 .. Week - 1), count : Nat \ {0}, until : {None}]
      <4>1. until = None
        BY <2>6, <3>2
      <4>2. rule \in [by : SUBSET (0 .. Week - 1), count : Nat \ {0}, until : {None}]
        BY <2>5, <2>7, <3>2, <4>1
      <4> QED
        BY <3>1, <4>2 DEF Rule
    <3>3. CASE old \in [by : SUBSET (0 .. Week - 1), count : {None}, until : Days \cup {None}]
      <4>1. until \in Days \cup {None}
        BY <2>6, <3>3 DEF Days
      <4>2. rule \in [by : SUBSET (0 .. Week - 1), count : {None}, until : Days \cup {None}]
        BY <2>5, <2>7, <3>3, <4>1
      <4> QED
        BY <3>1, <4>2 DEF Rule
    <3> QED
      BY <3>2, <3>3 DEF Rule
  <2> QED
    BY <2>2, <2>3, <2>6, <2>8, NoneAssumption DEF NoneAssumption
<1>11. IsSeries(u)
  <2>1. Moved(s.exdate, d) \subseteq Int /\ Moved(s.rdate, d) \subseteq Int /\ DOMAIN o \subseteq Int
    BY <1>5, <1>6, MovedSet
  <2>2. rule \in Rule \cup {None}
    BY <1>9, <1>10
  <2> QED
    BY <1>4, <1>5, <1>8, <2>1, <2>2 DEF IsSeries, Days
<1>12. \A x \in Int : /\ x + d \in u.exdate <=> x \in s.exdate
                      /\ x + d \in u.rdate <=> x \in s.rdate
                      /\ x + d \in DOMAIN u.over <=> x \in DOMAIN s.over
  BY <1>4, <1>5, <1>6, MovedSet
<1> QED
  BY <1>2, <1>4, <1>7, <1>9, <1>10, <1>11, <1>12

LEMMA ShiftedRule ==
    ASSUME NEW s, IsSeries(s), NEW d \in Int, NEW u, u = Shifted(s, d), NEW t \in Int
    PROVE  OnRule(u, t + d) <=> OnRule(s, t)
<1>1. /\ IsSeries(u) /\ u.start = s.start + d
      /\ s.rule = None => u.rule = None
      /\ s.rule # None => /\ u.rule # None
                          /\ u.rule.by = {(w + d) % Week : w \in s.rule.by}
  BY ShiftedFields
<1>2. CASE s.rule = None
  BY <1>1, <1>2 DEF OnRule
<1>3. CASE s.rule # None
  <2>1. PICK by \in SUBSET (0 .. Week - 1) : by = s.rule.by
    BY <1>3, SeriesTypes
  <2>2. PICK start \in Int : start = s.start
    BY SeriesTypes
  <2>3. t + d >= start + d <=> t >= start
    OBVIOUS
  <2>4. u.rule.by = {} <=> by = {}
    BY <1>1, <1>3, <2>1
  <2>5. (t + d) - (start + d) = t - start
    OBVIOUS
  <2>6. (t + d) % Week \in u.rule.by <=> t % Week \in by
    <3>1. PICK rotated : rotated = {(w + d) % Week : w \in by}
      OBVIOUS
    <3>2. (t + d) % Week \in rotated <=> \E w \in by : (t + d) % Week = (w + d) % Week
      BY <3>1, Zenon
    <3>3. u.rule.by = rotated
      BY <1>1, <1>3, <2>1, <3>1
    <3>4. (\E w \in by : (t + d) % Week = (w + d) % Week) <=> t % Week \in by
      BY Rotated, Zenon
    <3> QED
      BY <3>2, <3>3, <3>4, Zenon
  <2> QED
    BY <1>1, <1>3, <2>1, <2>2, <2>3, <2>4, <2>5, <2>6 DEF OnRule
<1> QED
  BY <1>2, <1>3

LEMMA ShiftedSlots ==
    ASSUME NEW s, IsSeries(s), NEW d \in Int, NEW u, u = Shifted(s, d), NEW t \in Int
    PROVE  /\ OnSlot(u, t + d) <=> OnSlot(s, t)
           /\ t + d \in StartSlot(u) <=> t \in StartSlot(s)
<1>1. /\ IsSeries(u) /\ u.start = s.start + d /\ s.start \in Int
      /\ s.rule = None => u.rule = None
      /\ s.rule # None =>
             /\ u.rule # None
             /\ u.rule.count = s.rule.count
             /\ u.rule.until = IF s.rule.until = None THEN None ELSE s.rule.until + d
             /\ s.rule.until # None => s.rule.until \in Int
  <2>1. /\ IsSeries(u) /\ u.start = s.start + d
        /\ s.rule = None => u.rule = None
        /\ s.rule # None =>
               /\ u.rule # None
               /\ u.rule.count = s.rule.count
               /\ u.rule.until = IF s.rule.until = None THEN None ELSE s.rule.until + d
    BY ShiftedFields, Zenon
  <2> QED
    BY <2>1, SeriesTypes
<1>2. \A x \in Int : OnRule(u, x + d) <=> OnRule(s, x)
  BY ShiftedRule
<1>3. Cardinality(Earlier(u, t + d)) = Cardinality(Earlier(s, t))
  <2>1. t + d \in Int
    OBVIOUS
  <2>2. Earlier(s, t) \in SUBSET Int /\ Earlier(u, t + d) \in SUBSET Int /\ IsFiniteSet(Earlier(s, t))
    BY <1>1, <2>1, EarlierFinite
  <2>3. ASSUME NEW x \in Int
        PROVE  x + d \in Earlier(u, t + d) <=> x \in Earlier(s, t)
    BY <1>1, <1>2 DEF Earlier
  <2> QED
    BY <2>2, <2>3, MovedSameSize
<1>4. CASE s.rule = None
  BY <1>1, <1>4 DEF OnSlot, OnRule, StartSlot
<1>5. CASE s.rule # None
  <2>1. u.rule.until # None <=> s.rule.until # None
    BY <1>1, <1>5, NoneAssumption DEF NoneAssumption
  <2>2. s.rule.until # None => (t + d <= u.rule.until <=> t <= s.rule.until)
    BY <1>1, <1>5
  <2>3. OnSlot(u, t + d) <=> OnSlot(s, t)
    BY <1>1, <1>2, <1>3, <1>5, <2>1, <2>2 DEF OnSlot
  <2>4. s.rule.until # None => (u.start > u.rule.until <=> s.start > s.rule.until)
    BY <1>1, <1>5
  <2> QED
    BY <1>1, <1>5, <2>1, <2>3, <2>4 DEF StartSlot
<1> QED
  BY <1>4, <1>5

\* Dragging all events moves every occurrence shown, and shows no other.
LEMMA ShiftedShows ==
    ASSUME NEW s, IsSeries(s), NEW h \in Int, NEW d \in Int
    PROVE  Shown(Shifted(s, d), h + d) = ShownMoved(Shown(s, h), d)
<1>1. PICK u : u = Shifted(s, d)
  OBVIOUS
<1>2. /\ IsSeries(u)
      /\ \A x \in Int : /\ x + d \in u.exdate <=> x \in s.exdate
                        /\ x + d \in u.rdate <=> x \in s.rdate
                        /\ x + d \in DOMAIN u.over <=> x \in DOMAIN s.over
      /\ \A x \in DOMAIN s.over : u.over[x + d] = s.over[x] + d
  BY <1>1, ShiftedFields
<1>3. PICK k \in Int : k = h + d
  OBVIOUS
<1>4. PICK X : X = Seen(s, h)
  OBVIOUS
<1>5. X \subseteq Int
  BY <1>4, SeenIs
<1>6. ASSUME NEW x \in Int, NEW y \in Int, y = x + d
      PROVE  y \in Seen(u, k) <=> x \in X
  <2>2. y <= k <=> x <= h
    BY <1>3, <1>6
  <2>3. y \in Seen(u, k) <=>
            /\ y <= k
            /\ \/ (OnSlot(u, y) \/ y \in StartSlot(u) \/ y \in u.rdate) /\ y \notin u.exdate
               \/ y \in DOMAIN u.over
    BY <1>2, SeenIs
  <2>4. x \in X <=>
            /\ x <= h
            /\ \/ (OnSlot(s, x) \/ x \in StartSlot(s) \/ x \in s.rdate) /\ x \notin s.exdate
               \/ x \in DOMAIN s.over
    BY <1>4, SeenIs
  <2>5. (OnSlot(u, y) <=> OnSlot(s, x)) /\ (y \in StartSlot(u) <=> x \in StartSlot(s))
    BY <1>1, <1>6, ShiftedSlots
  <2> QED
    BY <1>2, <1>6, <2>2, <2>3, <2>4, <2>5
<1>7. ASSUME NEW x \in X, NEW y \in Int, y = x + d
      PROVE  StartOf(u, y) = StartOf(s, x) + d
  BY <1>2, <1>5, <1>7 DEF StartOf
<1>8. Shown(u, k) = ShownMoved(Portion(s, h, X), d)
  <2>1. X \subseteq Seen(s, h)
    BY <1>4
  <2>2. \A x, y \in Int : After(y, x, d) => (y \in Seen(u, k) <=> x \in X)
    BY <1>6 DEF After
  <2>3. \A x \in X, y \in Int : After(y, x, d) => StartOf(u, y) = StartOf(s, x) + d
    BY <1>7 DEF After
  <2> QED
    BY <1>2, <2>1, <2>2, <2>3, MapShown
<1>9. Portion(s, h, X) = Shown(s, h)
  BY <1>4, ShownAre DEF Portion
<1> QED
  BY <1>1, <1>3, <1>8, <1>9

-----------------------------------------------------------------------------
(* "This and following": the head                                          *)

\* An anchor of the rule, or after the start if there is none.
Anchors(s, r) == IF s.rule = None THEN r > s.start ELSE OnSlot(s, r)

LEMMA EarlierGrows ==
    ASSUME NEW s, IsSeries(s), NEW x \in Int, NEW y \in Int, x <= y
    PROVE  /\ Earlier(s, x) \subseteq Earlier(s, y)
           /\ Cardinality(Earlier(s, x)) <= Cardinality(Earlier(s, y))
<1>1. s.start \in Int
  BY SeriesTypes
<1>2. Earlier(s, x) \subseteq Earlier(s, y)
  BY <1>1 DEF Earlier
<1> QED
  BY <1>2, EarlierFinite, FS_Subset

\* The rule generates every slot before one that it generates.
LEMMA SlotsBefore ==
    ASSUME NEW s, IsSeries(s), NEW r \in Int, OnSlot(s, r), NEW x \in Int, x <= r
    PROVE  OnSlot(s, x) <=> OnRule(s, x)
<1>1. /\ s.rule # None
      /\ s.rule.until # None => s.rule.until \in Int
      /\ s.rule.count # None => s.rule.count \in Nat \ {0}
  BY SeriesTypes DEF OnSlot, OnRule
<1>2. s.rule.until # None => x <= s.rule.until
  BY <1>1 DEF OnSlot
<1>3. s.rule.count # None => Cardinality(Earlier(s, x)) < s.rule.count
  <2>1. Cardinality(Earlier(s, x)) <= Cardinality(Earlier(s, r))
    BY EarlierGrows
  <2>2. Cardinality(Earlier(s, x)) \in Nat /\ Cardinality(Earlier(s, r)) \in Nat
    BY EarlierFinite
  <2> QED
    BY <1>1, <2>1, <2>2 DEF OnSlot
<1> QED
  BY <1>2, <1>3 DEF OnSlot

LEMMA KeptFields ==
    ASSUME NEW over, NEW S, S \subseteq DOMAIN over
    PROVE  DOMAIN Kept(over, S) = S /\ \A x \in S : Kept(over, S)[x] = over[x]
  BY DEF Kept, Restrict

LEMMA HeadFields ==
    ASSUME NEW s, IsSeries(s), NEW r \in Int, NEW u, u = HeadOf(s, r)
    PROVE  /\ IsSeries(u)
           /\ u.start = s.start
           /\ \A x : /\ x \in u.exdate <=> x \in s.exdate /\ x < r
                     /\ x \in u.rdate <=> x \in s.rdate /\ x < r
                     /\ x \in DOMAIN u.over <=> x \in DOMAIN s.over /\ x < r
           /\ \A x \in DOMAIN u.over : u.over[x] = s.over[x]
           /\ s.rule = None => u.rule = None
           /\ s.rule # None =>
                  /\ u.rule # None /\ u.rule.by = s.rule.by
                  /\ u.rule.count = None /\ u.rule.until = r - 1
<1>1. PICK S : S = {t \in DOMAIN s.over : t < r}
  OBVIOUS
<1>2. PICK o : o = Kept(s.over, S)
  OBVIOUS
<1>3. DOMAIN o = S /\ \A x \in S : o[x] = s.over[x]
  BY <1>1, <1>2, KeptFields
<1>4. PICK rule : rule = IF s.rule = None THEN None
                         ELSE [s.rule EXCEPT !.count = None, !.until = r - 1]
  OBVIOUS
<1>5. /\ DOMAIN u = DOMAIN s /\ u.start = s.start
      /\ u.rule = rule /\ u.over = o
      /\ u.exdate = {t \in s.exdate : t < r}
      /\ u.rdate = {t \in s.rdate : t < r}
  BY <1>1, <1>2, <1>4 DEF HeadOf, IsSeries
<1>6. s.rule # None => /\ rule \in Rule /\ rule # None /\ rule.by = s.rule.by
                       /\ rule.count = None /\ rule.until = r - 1
  <2>1. SUFFICES ASSUME s.rule # None
                 PROVE  /\ rule \in Rule /\ rule # None /\ rule.by = s.rule.by
                        /\ rule.count = None /\ rule.until = r - 1
    OBVIOUS
  <2>2. PICK old \in Rule : old = s.rule
    BY <2>1, SeriesTypes
  <2>3. rule = [old EXCEPT !.count = None, !.until = r - 1]
    BY <1>4, <2>1, <2>2
  <2>4. rule.by = old.by /\ rule.count = None /\ rule.until = r - 1
    BY <2>3 DEF Rule
  <2>5. rule \in [by : SUBSET (0 .. Week - 1), count : {None}, until : Days \cup {None}]
    <3>1. r - 1 \in Days \cup {None}
      BY DEF Days
    <3>2. CASE old \in [by : SUBSET (0 .. Week - 1), count : Nat \ {0}, until : {None}]
      BY <2>3, <3>1, <3>2
    <3>3. CASE old \in [by : SUBSET (0 .. Week - 1), count : {None}, until : Days \cup {None}]
      BY <2>3, <3>1, <3>3
    <3> QED
      BY <3>2, <3>3 DEF Rule
  <2> QED
    BY <2>2, <2>4, <2>5, NoneAssumption DEF Rule, NoneAssumption
<1>7. IsSeries(u)
  BY <1>1, <1>3, <1>4, <1>5, <1>6 DEF IsSeries, Days
<1> QED
  BY <1>1, <1>3, <1>4, <1>5, <1>6, <1>7

\* The head shows exactly what was shown before the anchor.
LEMMA HeadShows ==
    ASSUME NEW s, IsSeries(s), NEW h \in Int, NEW r \in Int, Anchors(s, r)
    PROVE  Shown(HeadOf(s, r), h) = {o \in Shown(s, h) : o.slot < r}
<1>1. PICK u : u = HeadOf(s, r)
  OBVIOUS
<1>2. /\ IsSeries(u)
      /\ u.start = s.start
      /\ \A x : /\ x \in u.exdate <=> x \in s.exdate /\ x < r
                /\ x \in u.rdate <=> x \in s.rdate /\ x < r
                /\ x \in DOMAIN u.over <=> x \in DOMAIN s.over /\ x < r
      /\ \A x \in DOMAIN u.over : u.over[x] = s.over[x]
      /\ s.rule = None => u.rule = None
      /\ s.rule # None =>
             /\ u.rule # None /\ u.rule.by = s.rule.by
             /\ u.rule.count = None /\ u.rule.until = r - 1
  BY <1>1, HeadFields
<1>3. /\ s.start \in Int
      /\ s.rule # None /\ s.rule.until # None => s.rule.until \in Int
  BY SeriesTypes
<1>4. ASSUME NEW x \in Int
      PROVE  /\ OnSlot(u, x) <=> OnSlot(s, x) /\ x < r
             /\ x \in StartSlot(u) <=> x \in StartSlot(s) /\ x < r
  <2>1. CASE s.rule = None
    BY <1>2, <1>3, <2>1 DEF OnSlot, OnRule, StartSlot, Anchors
  <2>2. CASE s.rule # None
    <3>1. OnSlot(s, r) /\ r >= s.start
      BY <2>2 DEF Anchors, OnSlot, OnRule
    <3>2. s.rule.until # None => r <= s.rule.until
      BY <3>1 DEF OnSlot
    <3>3. OnRule(u, x) <=> OnRule(s, x)
      BY <1>2, <2>2 DEF OnRule
    <3>4. OnSlot(u, x) <=> OnRule(s, x) /\ x < r
      BY <1>2, <2>2, <3>3, NoneAssumption DEF OnSlot, NoneAssumption
    <3>5. OnSlot(s, x) /\ x < r <=> OnRule(s, x) /\ x < r
      BY <3>1, SlotsBefore
    <3>6. x \in StartSlot(s) <=> x = s.start
      BY <1>3, <2>2, <3>1, <3>2 DEF StartSlot
    <3>7. x \in StartSlot(u) <=> x = s.start /\ s.start < r
      BY <1>2, <1>3, <2>2, NoneAssumption DEF StartSlot, NoneAssumption
    <3> QED
      BY <3>4, <3>5, <3>6, <3>7
  <2> QED
    BY <2>1, <2>2
<1>5. Seen(u, h) \subseteq Int /\ Seen(s, h) \subseteq Int
  BY <1>2, SeenIs
<1>6. \A x \in Int : x \in Seen(u, h) <=> x \in Seen(s, h) /\ x < r
  BY <1>2, <1>4, SeenIs
<1>7. \A x \in Seen(u, h) : StartOf(u, x) = StartOf(s, x)
  BY <1>2, <1>5, <1>6 DEF StartOf
<1>8. Shown(u, h) = {[slot |-> x, at |-> StartOf(u, x)] : x \in Seen(u, h)}
  BY <1>2, ShownAre
<1>9. Shown(s, h) = {[slot |-> x, at |-> StartOf(s, x)] : x \in Seen(s, h)}
  BY ShownAre
<1>10. ASSUME NEW o
       PROVE  o \in Shown(u, h) <=> o \in Shown(s, h) /\ o.slot < r
  BY <1>5, <1>6, <1>7, <1>8, <1>9
<1> QED
  BY <1>1, <1>10

-----------------------------------------------------------------------------
(* "This and following": the tail                                          *)

LEMMA RemainingIs ==
    ASSUME NEW s, IsSeries(s), s.rule # None, s.rule.count # None, NEW r \in Int
    PROVE  /\ Remaining(s, r) \in Nat \ {0}
           /\ OnSlot(s, r) => Remaining(s, r) = s.rule.count - Cardinality(Earlier(s, r))
<1>1. s.rule.count \in Nat \ {0} /\ s.start \in Int
  BY SeriesTypes
<1>2. IsFiniteSet(s.start .. r - 1)
  BY <1>1, FS_Interval
<1>3. Generated(s, r - 1) \subseteq s.start .. r - 1
  BY DEF Generated
<1>4. IsFiniteSet(Generated(s, r - 1))
  BY <1>2, <1>3, FS_Subset
<1>5. PICK n \in Nat : n = Cardinality(Generated(s, r - 1))
  BY <1>4, FS_CardinalityType
<1>6. PICK m \in Int : m = s.rule.count - n
  BY <1>1
<1>7. Remaining(s, r) = Max({m, 1})
  BY <1>5, <1>6 DEF Remaining, CountConsumed
<1>8. Max({m, 1}) = IF m > 1 THEN m ELSE 1
  BY DEF Max
<1>9. ASSUME OnSlot(s, r)
      PROVE  n = Cardinality(Earlier(s, r)) /\ n < s.rule.count
  <2>1. PICK k \in Int : k = r - 1
    OBVIOUS
  <2>2. \A t \in Int : t \in Generated(s, k) <=> t <= k /\ OnSlot(s, t)
    BY GeneratedAre
  <2>3. \A t \in Int : t <= k => (OnSlot(s, t) <=> OnRule(s, t))
    BY <1>9, <2>1, SlotsBefore
  <2>4. Earlier(s, r) = {u \in s.start .. k : OnRule(s, u)}
    BY <2>1 DEF Earlier
  <2>5. \A t \in Int : OnRule(s, t) => t >= s.start
    BY DEF OnRule
  <2>6. \A t \in Int : t \in Generated(s, k) <=> t \in Earlier(s, r)
    BY <1>1, <2>2, <2>3, <2>4, <2>5
  <2>7. Generated(s, k) \subseteq Int /\ Earlier(s, r) \subseteq Int
    BY GeneratedAre, EarlierFinite
  <2>8. Generated(s, k) = Earlier(s, r)
    BY <2>6, <2>7
  <2> QED
    BY <1>5, <1>9, <2>1, <2>8 DEF OnSlot
<1> QED
  BY <1>1, <1>5, <1>6, <1>7, <1>8, <1>9

LEMMA TailFields ==
    ASSUME NEW s, IsSeries(s), NEW r \in Int, NEW t \in Int, NEW u, u = TailOf(s, r, t)
    PROVE  /\ IsSeries(u)
           /\ u.start = t
           /\ \A x : /\ x \in u.exdate <=> x \in s.exdate /\ x >= r
                     /\ x \in u.rdate <=> x \in s.rdate /\ x >= r
                     /\ x \in DOMAIN u.over <=> x \in DOMAIN s.over /\ x >= r
           /\ \A x \in DOMAIN u.over : u.over[x] = s.over[x]
           /\ s.rule = None => u.rule = None
           /\ s.rule # None =>
                  /\ u.rule # None /\ u.rule.by = s.rule.by /\ u.rule.until = s.rule.until
                  /\ u.rule.count = IF s.rule.count = None THEN None ELSE Remaining(s, r)
<1>1. PICK S : S = {x \in DOMAIN s.over : x >= r}
  OBVIOUS
<1>2. PICK o : o = Kept(s.over, S)
  OBVIOUS
<1>3. DOMAIN o = S /\ \A x \in S : o[x] = s.over[x]
  BY <1>1, <1>2, KeptFields
<1>4. PICK rule : rule = IF s.rule = None \/ s.rule.count = None THEN s.rule
                         ELSE [s.rule EXCEPT !.count = Remaining(s, r)]
  OBVIOUS
<1>5. /\ DOMAIN u = DOMAIN s /\ u.start = t
      /\ u.rule = rule /\ u.over = o
      /\ u.exdate = {x \in s.exdate : x >= r}
      /\ u.rdate = {x \in s.rdate : x >= r}
  BY <1>1, <1>2, <1>4 DEF TailOf, IsSeries
<1>6. s.rule # None => /\ rule \in Rule /\ rule # None
                       /\ rule.by = s.rule.by /\ rule.until = s.rule.until
                       /\ rule.count = IF s.rule.count = None THEN None ELSE Remaining(s, r)
  <2>1. CASE s.rule = None \/ s.rule.count = None
    BY <1>4, <2>1, SeriesTypes
  <2>2. CASE s.rule # None /\ s.rule.count # None
    <3>1. PICK old \in Rule : old = s.rule
      BY <2>2, SeriesTypes
    <3>2. PICK n \in Nat \ {0} : n = Remaining(s, r)
      BY <2>2, RemainingIs
    <3>3. rule = [old EXCEPT !.count = n]
      BY <1>4, <2>2, <3>1, <3>2
    <3>4. old \in [by : SUBSET (0 .. Week - 1), count : Nat \ {0}, until : {None}]
      BY <2>2, <3>1 DEF Rule
    <3>5. /\ rule \in [by : SUBSET (0 .. Week - 1), count : Nat \ {0}, until : {None}]
          /\ rule.by = old.by /\ rule.until = old.until /\ rule.count = n
      BY <3>3, <3>4
    <3> QED
      BY <2>2, <3>1, <3>2, <3>5, NoneAssumption DEF Rule, NoneAssumption
  <2> QED
    BY <2>1, <2>2
<1>7. IsSeries(u)
  BY <1>1, <1>3, <1>4, <1>5, <1>6 DEF IsSeries, Days
<1> QED
  BY <1>1, <1>3, <1>4, <1>5, <1>6, <1>7

\* A series that just repeats.
Bare(s) == /\ s.rule # None /\ s.rule.until = None /\ s.rule.by = {}
           /\ DOMAIN s.over = {} /\ s.exdate \cup s.rdate = {}

\* A split that is known to keep the occurrences: without a time change, or of
\* a series that just repeats.
Keeps(s, r, t) == t = r \/ Bare(s)

\* The rule of the tail goes on where that of the head stops.
LEMMA TailRule ==
    ASSUME NEW s, IsSeries(s), NEW r \in Int, OnSlot(s, r), NEW d \in Int, d = 0 \/ Bare(s),
           NEW t \in Int, t = r + d, NEW u, u = TailOf(s, r, t), NEW x \in Int
    PROVE  OnRule(u, x + d) <=> OnRule(s, x) /\ x >= r
<1>1. /\ IsSeries(u) /\ u.start = r + d
      /\ s.rule # None => u.rule # None /\ u.rule.by = s.rule.by
  BY TailFields
<1>2. s.rule # None /\ r >= s.start /\ s.start \in Int
  BY SeriesTypes DEF OnSlot, OnRule
<1>3. x + d >= u.start <=> x >= r
  BY <1>1
<1>4. CASE s.rule.by = {}
  <2>1. PICK a \in Int : a = x - s.start
    BY <1>2
  <2>2. PICK b \in Int : b = r - s.start
    BY <1>2
  <2>3. b % Week = 0
    BY <1>4, <2>2 DEF OnSlot, OnRule
  <2>4. (a - b) % Week = 0 <=> a % Week = 0
    BY <2>3, WeekAssumption, ZeroRemainder DEF WeekAssumption
  <2>5. (x + d) - u.start = a - b
    BY <1>1, <1>2, <2>1, <2>2
  <2> QED
    BY <1>1, <1>2, <1>3, <1>4, <2>1, <2>4, <2>5 DEF OnRule
<1>5. CASE s.rule.by # {}
  <2>1. d = 0 /\ x + d = x
    BY <1>5 DEF Bare
  <2> QED
    BY <1>1, <1>2, <1>3, <1>5, <2>1 DEF OnRule
<1> QED
  BY <1>4, <1>5

\* The tail's COUNT is what is left of it: slots before the anchor and slots
\* from it on add up.
LEMMA TailRuleFields ==
    ASSUME NEW s, IsSeries(s), s.rule # None, NEW r \in Int, NEW t \in Int
    PROVE  /\ IsSeries(TailOf(s, r, t)) /\ TailOf(s, r, t).start = t
           /\ TailOf(s, r, t).rule # None
           /\ TailOf(s, r, t).rule.until = s.rule.until
           /\ TailOf(s, r, t).rule.count
                  = IF s.rule.count = None THEN None ELSE Remaining(s, r)
<1>1. PICK u : u = TailOf(s, r, t)
  OBVIOUS
<1> QED
  BY <1>1, TailFields

LEMMA TailSlots ==
    ASSUME NEW s, IsSeries(s), NEW r \in Int, OnSlot(s, r),
           NEW t \in Int, Keeps(s, r, t), NEW u, u = TailOf(s, r, t),
           NEW x \in Int, NEW y \in Int, After(y, x, t - r)
    PROVE  /\ OnSlot(u, y) <=> OnSlot(s, x) /\ x >= r
           /\ y \in StartSlot(u) <=> x = r
<1>0. PICK d \in Int : t = r + d /\ y = x + d /\ (d = 0 \/ Bare(s))
  <2>1. PICK d \in Int : d = t - r
    OBVIOUS
  <2> QED
    BY <2>1 DEF Keeps, After
<1>1. /\ IsSeries(u) /\ u.start = t
      /\ u.rule # None /\ u.rule.until = s.rule.until
      /\ u.rule.count = IF s.rule.count = None THEN None ELSE Remaining(s, r)
  <2>1. s.rule # None
    BY DEF OnSlot, OnRule
  <2> QED
    BY <2>1, TailRuleFields
<1>2. /\ s.rule # None /\ r >= s.start /\ s.start \in Int
      /\ s.rule.until # None => s.rule.until \in Int /\ r <= s.rule.until
      /\ s.rule.count # None => /\ s.rule.count \in Nat \ {0}
                                /\ Cardinality(Earlier(s, r)) < s.rule.count
  BY SeriesTypes DEF OnSlot, OnRule
<1>3. \A z \in Int : OnRule(u, z + d) <=> OnRule(s, z) /\ z >= r
  BY <1>0, TailRule
<1>4. s.rule.until # None => d = 0
  BY <1>0 DEF Bare
<1>5. y \in StartSlot(u) <=> x = r
  <2>1. s.rule.until # None => ~ r > s.rule.until
    BY <1>2
  <2>2. u.rule.until # None => ~ u.start > u.rule.until
    <3>1. u.rule.until # None => u.start = r
      BY <1>0, <1>1, <1>4
    <3> QED
      BY <1>1, <2>1, <3>1
  <2>3. StartSlot(u) = {u.start}
    BY <2>2 DEF StartSlot
  <2>4. y \in StartSlot(u) <=> x + d = r + d
    BY <1>0, <1>1, <2>3
  <2> QED
    BY <2>4
<1>6. s.rule.until # None => (y <= u.rule.until <=> x <= s.rule.until)
  BY <1>0, <1>1, <1>2, <1>4
<1>7. ASSUME x >= r, s.rule.count # None
      PROVE  Cardinality(Earlier(u, y)) < u.rule.count
                 <=> Cardinality(Earlier(s, x)) < s.rule.count
  <2>1. PICK L : L = {z \in Earlier(s, x) : z >= r}
    OBVIOUS
  <2>2. IsFiniteSet(Earlier(s, x)) /\ Earlier(s, x) \subseteq Int /\ IsFiniteSet(Earlier(s, r))
    BY EarlierFinite
  <2>3. L \in SUBSET Int /\ IsFiniteSet(L)
    BY <2>1, <2>2, FS_Subset
  <2>4. Earlier(s, x) = Earlier(s, r) \cup L /\ Earlier(s, r) \cap L = {}
    <3>1. Earlier(s, r) \subseteq Earlier(s, x)
      BY <1>7, EarlierGrows
    <3>2. \A z \in Earlier(s, x) : z \in Earlier(s, r) <=> z < r
      BY <1>2, <2>2 DEF Earlier
    <3> QED
      BY <2>1, <2>2, <3>1, <3>2
  <2>5. PICK m \in Nat : m = Cardinality(Earlier(s, r))
    BY EarlierFinite
  <2>6. PICK n \in Nat : n = Cardinality(L)
    BY <2>3, FS_CardinalityType
  <2>7. Cardinality(Earlier(s, x)) = m + n
    <3>1. Cardinality({}) = 0
      BY FS_EmptySet
    <3>2. Cardinality(Earlier(s, r) \cup L)
              = Cardinality(Earlier(s, r)) + Cardinality(L) - Cardinality(Earlier(s, r) \cap L)
      BY <2>2, <2>3, FS_Union
    <3>3. Cardinality(Earlier(s, r) \cap L) = 0
      BY <2>4, <3>1
    <3>4. Cardinality(Earlier(s, r) \cup L) = m + n - 0
      BY <2>5, <2>6, <3>2, <3>3
    <3> QED
      BY <2>4, <3>4
  <2>8. Cardinality(Earlier(u, y)) = n
    <3>1. Earlier(u, y) \in SUBSET Int
      BY <1>1, EarlierFinite
    <3>2. ASSUME NEW z \in Int
          PROVE  z + d \in Earlier(u, y) <=> z \in L
      <4>1. z + d \in Earlier(u, y) <=> z < x /\ z >= r /\ OnRule(s, z)
        <5>1. OnRule(u, z + d) <=> OnRule(s, z) /\ z >= r
          BY <1>3
        <5>2. u.start = r + d /\ y = x + d
          BY <1>0, <1>1
        <5>3. z + d \in Earlier(u, y)
                  <=> z + d \in r + d .. (x + d) - 1 /\ OnRule(u, z + d)
          BY <5>2, Zenon DEF Earlier
        <5> QED
          BY <5>1, <5>3
      <4>2. z \in L <=> z < x /\ z >= r /\ OnRule(s, z)
        BY <1>2, <2>1 DEF Earlier
      <4> QED
        BY <4>1, <4>2
    <3> QED
      BY <2>3, <2>6, <3>1, <3>2, MovedSameSize
  <2>9. u.rule.count = s.rule.count - m
    BY <1>1, <1>2, <1>7, <2>5, RemainingIs
  <2> QED
    BY <1>2, <1>7, <2>5, <2>7, <2>8, <2>9
<1>8. s.rule.count # None <=> u.rule.count # None
  BY <1>1, <1>2, RemainingIs, NoneAssumption DEF NoneAssumption
<1>9. CASE x >= r
  BY <1>0, <1>1, <1>2, <1>3, <1>5, <1>6, <1>7, <1>8, <1>9 DEF OnSlot
<1>10. CASE ~ x >= r
  BY <1>0, <1>3, <1>5, <1>10 DEF OnSlot
<1> QED
  BY <1>9, <1>10

\* The tail shows exactly what was shown from the anchor on, moved.
LEMMA TailShows ==
    ASSUME NEW s, IsSeries(s), NEW h \in Int, NEW r \in Seen(s, h), Anchors(s, r),
           NEW d \in Int, d = 0 \/ Bare(s)
    PROVE  Shown(TailOf(s, r, r + d), h + d)
               = ShownMoved({o \in Shown(s, h) : o.slot >= r}, d)
<1>0. PICK t \in Int : t = r + d
  BY SeenIs
<1>1. PICK u : u = TailOf(s, r, t)
  OBVIOUS
<1>2. PICK k \in Int : k = h + d
  OBVIOUS
<1>3. r \in Int /\ r <= h /\ s.start \in Int
  BY SeenIs, SeriesTypes
<1>4. /\ IsSeries(u)
      /\ u.start = t
      /\ \A x : /\ x \in u.exdate <=> x \in s.exdate /\ x >= r
                /\ x \in u.rdate <=> x \in s.rdate /\ x >= r
                /\ x \in DOMAIN u.over <=> x \in DOMAIN s.over /\ x >= r
      /\ \A x \in DOMAIN u.over : u.over[x] = s.over[x]
      /\ s.rule = None => u.rule = None
  BY <1>1, <1>3, TailFields
<1>5. PICK X : X = {x \in Seen(s, h) : x >= r}
  OBVIOUS
<1>6. X \subseteq Seen(s, h) /\ X \subseteq Int
  BY <1>5, SeenIs
<1>7. ASSUME NEW x \in Int, NEW y \in Int, y = x + d
      PROVE  y \in Seen(u, k) <=> x \in X
  <2>2. y \in Seen(u, k) <=>
            /\ y <= k
            /\ \/ (OnSlot(u, y) \/ y \in StartSlot(u) \/ y \in u.rdate) /\ y \notin u.exdate
               \/ y \in DOMAIN u.over
    BY <1>4, SeenIs
  <2>3. x \in Seen(s, h) <=>
            /\ x <= h
            /\ \/ (OnSlot(s, x) \/ x \in StartSlot(s) \/ x \in s.rdate) /\ x \notin s.exdate
               \/ x \in DOMAIN s.over
    BY SeenIs
  <2>4. y <= k <=> x <= h
    BY <1>2, <1>7
  <2>5. CASE s.rule = None
    <3>1. d = 0 /\ y = x
      BY <1>7, <2>5 DEF Bare
    <3>2. r > s.start
      BY <2>5 DEF Anchors
    <3>3. /\ ~ OnSlot(s, x) /\ ~ OnSlot(u, y)
          /\ x \in StartSlot(s) <=> x = s.start
          /\ y \in StartSlot(u) <=> x = r
      BY <1>0, <1>3, <1>4, <2>5, <3>1 DEF OnSlot, OnRule, StartSlot
    <3>4. r \in DOMAIN s.over \/ r \notin s.exdate
      BY SeenIs
    <3> QED
      BY <1>3, <1>4, <1>5, <2>2, <2>3, <2>4, <3>1, <3>2, <3>3, <3>4
  <2>6. CASE s.rule # None
    <3>1. OnSlot(s, r)
      BY <2>6 DEF Anchors
    <3>2. /\ OnSlot(u, y) <=> OnSlot(s, x) /\ x >= r
          /\ y \in StartSlot(u) <=> x = r
      <4>1. After(y, x, t - r) /\ Keeps(s, r, t)
        BY <1>0, <1>3, <1>7 DEF Keeps, After
      <4> QED
        BY <1>1, <1>3, <3>1, <4>1, TailSlots
    <3>3. x \in StartSlot(s) /\ x >= r => x = r
      BY <1>3, <3>1 DEF StartSlot, OnSlot, OnRule
    <3>4. CASE d = 0
      <4>1. y = x
        BY <1>7, <3>4
      <4>2. /\ y \in u.exdate <=> x \in s.exdate /\ x >= r
            /\ y \in u.rdate <=> x \in s.rdate /\ x >= r
            /\ y \in DOMAIN u.over <=> x \in DOMAIN s.over /\ x >= r
        BY <1>4, <4>1
      <4>3. CASE x = r
        BY <1>5, <2>2, <2>3, <2>4, <3>1, <3>2, <4>2, <4>3
      <4>4. CASE x # r
        BY <1>3, <1>5, <2>2, <2>3, <2>4, <3>2, <3>3, <4>2, <4>4
      <4> QED
        BY <4>3, <4>4
    <3>5. CASE d # 0
      <4>1. DOMAIN s.over = {} /\ s.exdate = {} /\ s.rdate = {}
        BY <3>5 DEF Bare
      <4>2. y \notin u.exdate /\ y \notin u.rdate /\ y \notin DOMAIN u.over
        BY <1>4, <4>1
      <4>3. CASE x = r
        BY <1>5, <2>2, <2>3, <2>4, <3>1, <3>2, <4>1, <4>2, <4>3
      <4>4. CASE x # r
        BY <1>3, <1>5, <2>2, <2>3, <2>4, <3>2, <3>3, <4>1, <4>2, <4>4
      <4> QED
        BY <4>3, <4>4
    <3> QED
      BY <3>4, <3>5
  <2> QED
    BY <2>5, <2>6
<1>8. ASSUME NEW x \in X, NEW y \in Int, y = x + d
      PROVE  StartOf(u, y) = StartOf(s, x) + d
  <2>1. x \in Int /\ x >= r
    BY <1>5, <1>6
  <2>2. CASE d = 0
    BY <1>4, <1>8, <2>1, <2>2, SeriesTypes DEF StartOf
  <2>3. CASE d # 0
    <3>1. DOMAIN s.over = {}
      BY <2>3 DEF Bare
    <3> QED
      BY <1>4, <1>8, <2>1, <3>1 DEF StartOf
  <2> QED
    BY <2>2, <2>3
<1>9. Shown(u, k) = ShownMoved(Portion(s, h, X), d)
  <2>1. \A x, y \in Int : After(y, x, d) => (y \in Seen(u, k) <=> x \in X)
    BY <1>7 DEF After
  <2>2. \A x \in X, y \in Int : After(y, x, d) => StartOf(u, y) = StartOf(s, x) + d
    BY <1>8 DEF After
  <2> QED
    <3>1. IsSeries(u) /\ X \subseteq Seen(s, h)
      BY <1>4, <1>6
    <3> QED
      BY <2>1, <2>2, <3>1, MapShown
<1>10. Portion(s, h, X) = {o \in Shown(s, h) : o.slot >= r}
  BY <1>5, ShownAre DEF Portion
<1> QED
  BY <1>0, <1>1, <1>2, <1>9, <1>10

-----------------------------------------------------------------------------
(* Type correctness                                                        *)

IsSeq(q) == \E S : q \in Seq(S)

Types == TypeOK /\ IsSeq(parts)

LEMMA ReplacedPart ==
    ASSUME NEW q, IsSeq(q), NEW p \in DOMAIN q, NEW a, NEW r, r = [q EXCEPT ![p] = a]
    PROVE  /\ IsSeq(r) /\ DOMAIN r = DOMAIN q /\ r[p] = a
           /\ \A i \in DOMAIN q : i # p => r[i] = q[i]
<1>1. PICK S : q \in Seq(S)
  BY DEF IsSeq
<1>2. PICK T : T = S \cup {a}
  OBVIOUS
<1>3. /\ DOMAIN r = DOMAIN q /\ r[p] = a
      /\ \A i \in DOMAIN q : i # p => r[i] = q[i]
  BY <1>1
<1>4. /\ Len(q) \in Nat /\ DOMAIN q = 1 .. Len(q)
      /\ \A i \in 1 .. Len(q) : q[i] \in S
  BY <1>1
<1>5. r \in [1 .. Len(q) -> T]
  BY <1>1, <1>2, <1>3, <1>4
<1>6. r \in Seq(T)
  BY <1>4, <1>5, SeqDef
<1> QED
  BY <1>3, <1>6 DEF IsSeq

\* r is q with b at its end.
Adds(r, q, b) == r = Append(q, b)

Grown(r, q, b) ==
    /\ IsSeq(r) /\ Len(r) = Len(q) + 1
    /\ DOMAIN q = 1 .. Len(q) /\ Len(q) \in Nat
    /\ DOMAIN r = 1 .. Len(q) + 1
    /\ r[Len(r)] = b /\ \A i \in DOMAIN q : r[i] = q[i]

LEMMA AddedPart ==
    ASSUME NEW q, IsSeq(q), NEW b, NEW r, Adds(r, q, b)
    PROVE  Grown(r, q, b)
<1>1. PICK S : q \in Seq(S)
  BY DEF IsSeq
<1>2. PICK T : T = S \cup {b}
  OBVIOUS
<1>3. q \in Seq(T) /\ b \in T
  BY <1>1, <1>2
<1> QED
  BY <1>3 DEF IsSeq, Adds, Grown

\* What a user can pick, and where it is.
LEMMA PickFacts ==
    ASSUME Types, NEW p \in DOMAIN parts, NEW r \in Picks(p)
    PROVE  /\ IsSeries(parts[p]) /\ IsSeq(parts) /\ Horizon \in Int
           /\ r \in Int /\ r <= Horizon /\ r \in Seen(parts[p], Horizon)
           /\ StartOf(parts[p], r) \in Int
<1>1. IsSeries(parts[p]) /\ IsSeq(parts) /\ Horizon \in Int
  BY WeekAssumption DEF Types, TypeOK, WeekAssumption
<1>2. r \in Seen(parts[p], Horizon)
  BY <1>1, PicksAre DEF Picks
<1> QED
  BY <1>1, <1>2, SeenIs, SeriesTypes

Divided(r, q, p, a, b) ==
    /\ IsSeq(r) /\ r[p] = a /\ r[Len(r)] = b
    /\ \A i \in DOMAIN r : r[i] = a \/ r[i] = b \/ (i \in DOMAIN q /\ r[i] = q[i])

LEMMA SplitParts ==
    ASSUME NEW q, IsSeq(q), NEW p \in DOMAIN q, NEW a, NEW b,
           NEW m, m = [q EXCEPT ![p] = a], NEW r, Adds(r, m, b)
    PROVE  Divided(r, q, p, a, b)
<1>2. /\ IsSeq(m) /\ DOMAIN m = DOMAIN q /\ m[p] = a
      /\ \A i \in DOMAIN q : i # p => m[i] = q[i]
  BY ReplacedPart
<1>4. /\ IsSeq(r) /\ Len(r) = Len(m) + 1
      /\ DOMAIN m = 1 .. Len(m) /\ Len(m) \in Nat
      /\ DOMAIN r = 1 .. Len(m) + 1
      /\ r[Len(r)] = b /\ \A i \in DOMAIN m : r[i] = m[i]
  <2>1. IsSeq(m)
    BY <1>2
  <2>2. Grown(r, m, b)
    BY <2>1, AddedPart, Zenon
  <2> QED
    BY <2>2 DEF Grown
<1>5. \A i \in DOMAIN r : i \in DOMAIN m \/ i = Len(r)
  BY <1>4
<1> QED
  BY <1>2, <1>4, <1>5 DEF Divided

\* No rule repeats zero times.
LEMMA NoEmptyRule ==
    ASSUME NEW s, IsSeries(s), s.rule # None
    PROVE  s.rule.count # 0
  BY SeriesTypes, NoneAssumption DEF NoneAssumption

LEMMA TypesInit == Init => Types
<1> SUFFICES ASSUME Init PROVE Types
  OBVIOUS
<1>1. PICK s \in Inputs : parts = <<s>>
  BY DEF Init
<1>2. IsSeries(s)
  BY InputsAssumption DEF InputsAssumption
<1>3. parts \in Seq({s}) /\ DOMAIN parts = {1} /\ parts[1] = s
  BY <1>1
<1>4. edits \in 0 .. MaxEdits
  BY WeekAssumption DEF Init, WeekAssumption
<1>5. \A p \in DOMAIN parts : parts[p] = s
  BY <1>3
<1> QED
  BY <1>2, <1>3, <1>4, <1>5, NoEmptyRule DEF Types, TypeOK, IsSeq

\* Every edit turns series into series.
LEMMA TypesStep == Types /\ [Next]_vars => Types'
<1> SUFFICES ASSUME Types, [Next]_vars PROVE Types'
  OBVIOUS
<1>1. CASE UNCHANGED vars
  BY <1>1 DEF Types, TypeOK, vars
<1>2. ASSUME NEW p \in DOMAIN parts, NEW r \in Picks(p), Pick(p, r),
             NEW a, IsSeries(a), parts' = [parts EXCEPT ![p] = a]
      PROVE  Types'
  <2>1. /\ IsSeq(parts') /\ DOMAIN parts' = DOMAIN parts /\ parts'[p] = a
        /\ \A i \in DOMAIN parts : i # p => parts'[i] = parts[i]
    BY <1>2, ReplacedPart DEF Types
  <2>2. \A i \in DOMAIN parts' : IsSeries(parts'[i])
    BY <1>2, <2>1 DEF Types, TypeOK
  <2>3. edits' \in 0 .. MaxEdits
    BY <1>2, WeekAssumption DEF Types, TypeOK, Pick, WeekAssumption
  <2> QED
    BY <2>1, <2>2, <2>3, NoEmptyRule DEF Types, TypeOK
<1>3. ASSUME NEW p \in DOMAIN parts, NEW r \in Picks(p), Pick(p, r),
             NEW a, IsSeries(a), NEW b, IsSeries(b),
             parts' = Append([parts EXCEPT ![p] = a], b)
      PROVE  Types'
  <2>1. /\ IsSeq(parts')
        /\ \A i \in DOMAIN parts' : \/ parts'[i] = a \/ parts'[i] = b
                                    \/ i \in DOMAIN parts /\ parts'[i] = parts[i]
    <3>1. PICK q : q = parts
      OBVIOUS
    <3>2. PICK r1 : r1 = parts'
      OBVIOUS
    <3>3. IsSeq(q) /\ p \in DOMAIN q
      BY <3>1 DEF Types
    <3>4. PICK m : m = [q EXCEPT ![p] = a]
      OBVIOUS
    <3>6. Adds(r1, m, b)
      BY <1>3, <3>1, <3>2, <3>4 DEF Adds
    <3>5. /\ IsSeq(r1)
          /\ \A i \in DOMAIN r1 : r1[i] = a \/ r1[i] = b \/ (i \in DOMAIN q /\ r1[i] = q[i])
      <4>1. Divided(r1, q, p, a, b)
        BY <3>3, <3>4, <3>6, SplitParts, Zenon
      <4> QED
        BY <4>1 DEF Divided
    <3> QED
      BY <3>1, <3>2, <3>5
  <2>2. \A i \in DOMAIN parts' : IsSeries(parts'[i])
    BY <1>3, <2>1 DEF Types, TypeOK
  <2>3. edits' \in 0 .. MaxEdits
    BY <1>3, WeekAssumption DEF Types, TypeOK, Pick, WeekAssumption
  <2> QED
    BY <2>1, <2>2, <2>3, NoEmptyRule DEF Types, TypeOK
<1>4. ASSUME NEW p \in DOMAIN parts, NEW r \in Picks(p)
      PROVE  /\ IsSeries(parts[p]) /\ r \in Int /\ StartOf(parts[p], r) \in Int
  BY <1>4, PickFacts
<1>5. ASSUME NEW p \in DOMAIN parts, NEW r \in Picks(p), ExcludeEvent(p, r)
      PROVE  Types'
  <2>1. IsSeries(Excluded(parts[p], r))
    BY <1>4, ExcludedFields
  <2> QED
    BY <1>2, <1>5, <2>1 DEF ExcludeEvent
<1>6. ASSUME NEW p \in DOMAIN parts, NEW r \in Picks(p), TruncateEvent(p, r)
      PROVE  Types'
  <2>1. IsSeries(HeadOf(parts[p], r))
    BY <1>4, HeadFields
  <2> QED
    BY <1>2, <1>6, <2>1 DEF TruncateEvent
<1>7. ASSUME NEW p \in DOMAIN parts, NEW r \in Picks(p), NEW d \in Int, OverrideEvent(p, r, d)
      PROVE  Types'
  <2>1. PICK t \in Int : t = StartOf(parts[p], r) + d
    BY <1>4
  <2>2. IsSeries(Overridden(parts[p], r, t))
    BY <1>4, OverriddenFields
  <2> QED
    BY <1>2, <1>7, <2>1, <2>2 DEF OverrideEvent
<1>8. ASSUME NEW p \in DOMAIN parts, NEW r \in Picks(p), NEW d \in Int, ShiftEvent(p, r, d)
      PROVE  Types'
  <2>1. IsSeries(Shifted(parts[p], d))
    BY <1>4, ShiftedFields, Zenon
  <2> QED
    BY <1>2, <1>8, <2>1 DEF ShiftEvent
<1>9. ASSUME NEW p \in DOMAIN parts, NEW r \in Picks(p), NEW d \in Int, SplitEvent(p, r, d)
      PROVE  Types'
  <2>1. PICK t \in Int : t = IF d = 0 THEN r ELSE StartOf(parts[p], r) + d
    BY <1>4
  <2>2. IsSeries(HeadOf(parts[p], r)) /\ IsSeries(TailOf(parts[p], r, t))
    BY <1>4, HeadFields, TailFields
  <2>3. parts' = Append([parts EXCEPT ![p] = HeadOf(parts[p], r)], TailOf(parts[p], r, t))
    BY <1>9, <2>1 DEF SplitEvent
  <2> QED
    BY <1>3, <1>9, <2>2, <2>3 DEF SplitEvent
<1>10. \A d \in Deltas \cup {0} : d \in Int
  BY DeltasAssumption DEF DeltasAssumption
<1> QED
  BY <1>1, <1>5, <1>6, <1>7, <1>8, <1>9, <1>10 DEF Next, Picks

\* Whatever is edited stays a series that clients accept.
THEOREM TypeCorrect == Spec => []TypeOK
<1>1. Types => TypeOK
  BY DEF Types
<1> QED
  BY <1>1, TypesInit, TypesStep, PTL DEF Spec


-----------------------------------------------------------------------------
(* What each edit shows                                                    *)

\* The edits that change one resource in place.
LEMMA EditedPart ==
    ASSUME Types, NEW p \in DOMAIN parts, NEW a, parts' = [parts EXCEPT ![p] = a]
    PROVE  parts'[p] = a
<1>1. PICK q : q = parts
  OBVIOUS
<1>2. PICK m : m = parts'
  OBVIOUS
<1>3. IsSeq(q) /\ p \in DOMAIN q /\ m = [q EXCEPT ![p] = a]
  BY <1>1, <1>2 DEF Types
<1>4. m[p] = a
  BY <1>3, ReplacedPart
<1> QED
  BY <1>2, <1>4

LEMMA ExcludeShows ==
    ASSUME Types, NEW p \in DOMAIN parts, NEW r \in Picks(p), ExcludeEvent(p, r)
    PROVE  Shown(parts'[p], Horizon) = Others(parts[p], r)
<1>1. parts'[p] = Excluded(parts[p], r)
  BY EditedPart DEF ExcludeEvent
<1>2. PICK s : s = parts[p]
  OBVIOUS
<1>3. IsSeries(s) /\ r \in Int /\ Horizon \in Int
  BY <1>2, PickFacts
<1>4. Shown(Excluded(s, r), Horizon) = Others(s, r)
  BY <1>3, ExcludedShows DEF Others
<1> QED
  BY <1>1, <1>2, <1>4

LEMMA OverrideShows ==
    ASSUME Types, NEW p \in DOMAIN parts, NEW r \in Picks(p), NEW d \in Deltas,
           OverrideEvent(p, r, d)
    PROVE  Shown(parts'[p], Horizon)
               = Others(parts[p], r) \cup {[slot |-> r, at |-> StartOf(parts[p], r) + d]}
<1>1. parts'[p] = Overridden(parts[p], r, StartOf(parts[p], r) + d)
  BY EditedPart DEF OverrideEvent
<1>2. PICK s : s = parts[p]
  OBVIOUS
<1>3. IsSeries(s) /\ r \in Seen(s, Horizon) /\ Horizon \in Int /\ StartOf(s, r) \in Int
  BY <1>2, PickFacts
<1>4. PICK t \in Int : t = StartOf(s, r) + d
  BY <1>3, DeltasAssumption DEF DeltasAssumption
<1>5. Shown(Overridden(s, r, t), Horizon) = Others(s, r) \cup {[slot |-> r, at |-> t]}
  BY <1>3, OverriddenShows DEF Others
<1> QED
  BY <1>1, <1>2, <1>4, <1>5

\* An edit of "this event" changes this occurrence and no other
\* (apply_occurrence_override, exclude_occurrence).
THEOREM EditsOnlyThis == Spec => OnlyThis
<1>1. Types /\ [Next]_vars =>
          [\A p \in DOMAIN parts : \A r \in Picks(p) :
               /\ ExcludeEvent(p, r) => Shown(parts'[p], Horizon) = Others(parts[p], r)
               /\ \A d \in Deltas : OverrideEvent(p, r, d) =>
                      Shown(parts'[p], Horizon) =
                          Others(parts[p], r) \cup {[slot |-> r, at |-> StartOf(parts[p], r) + d]}]_vars
  BY ExcludeShows, OverrideShows
<1> QED
  BY <1>1, TypesInit, TypesStep, PTL DEF Spec, OnlyThis

\* Dragging "all events" moves every occurrence by the same offset
\* (shift_series).
THEOREM ShiftsMoveAll == Spec => ShiftsAll
<1>1. ASSUME Types, NEW p \in DOMAIN parts, NEW d \in Deltas, NEW r \in Picks(p),
             ShiftEvent(p, r, d)
      PROVE  Shown(parts'[p], Horizon + d) = ShownMoved(Shown(parts[p], Horizon), d)
  <2>1. parts'[p] = Shifted(parts[p], d)
    BY <1>1, EditedPart DEF ShiftEvent
  <2>2. PICK s : s = parts[p]
    OBVIOUS
  <2>3. IsSeries(s) /\ Horizon \in Int /\ d \in Int
    BY <1>1, <2>2, PickFacts, DeltasAssumption DEF DeltasAssumption
  <2>4. Shown(Shifted(s, d), Horizon + d) = ShownMoved(Shown(s, Horizon), d)
    BY <2>3, ShiftedShows, Zenon
  <2> QED
    BY <2>1, <2>2, <2>4
<1>2. Types /\ [Next]_vars =>
          [\A p \in DOMAIN parts, d \in Deltas : \A r \in Picks(p) :
               ShiftEvent(p, r, d) =>
                   Shown(parts'[p], Horizon + d)
                       = ShownMoved(Shown(parts[p], Horizon), d)]_vars
  BY <1>1
<1> QED
  BY <1>2, TypesInit, TypesStep, PTL DEF Spec, ShiftsAll

-----------------------------------------------------------------------------
(* Splits                                                                  *)

LEMMA RegularAnchors ==
    ASSUME Types, NEW p \in DOMAIN parts, NEW r \in Picks(p), Regular(parts[p], r)
    PROVE  /\ IsSeries(parts[p]) /\ Horizon \in Int /\ r \in Int
           /\ r \in Seen(parts[p], Horizon) /\ StartOf(parts[p], r) \in Int
           /\ Anchors(parts[p], r)
<1>1. /\ IsSeries(parts[p]) /\ Horizon \in Int /\ r \in Int
      /\ r \in Seen(parts[p], Horizon) /\ StartOf(parts[p], r) \in Int
  BY PickFacts
<1>2. PICK s : s = parts[p]
  OBVIOUS
<1>3. ASSUME s.rule # None PROVE OnSlot(s, r)
  <2>1. r \in Generated(s, Horizon)
    BY <1>2, <1>3 DEF Regular
  <2> QED
    BY <1>1, <1>2, <2>1, GeneratedAre
<1>4. Anchors(s, r)
  BY <1>2, <1>3 DEF Regular, Anchors
<1> QED
  BY <1>1, <1>2, <1>4

\* Where the tail starts, if the split is one that keeps the occurrences.
LEMMA TailStart ==
    ASSUME NEW s, NEW r \in Int, NEW d \in Int, StartOf(s, r) \in Int, d = 0 \/ Bare(s)
    PROVE  (IF d = 0 THEN r ELSE StartOf(s, r) + d) = r + d
<1>1. CASE d = 0
  BY <1>1
<1>2. CASE d # 0
  BY <1>2 DEF Bare, StartOf
<1> QED
  BY <1>1, <1>2

LEMMA HeadIsExact ==
    ASSUME Types, NEW p \in DOMAIN parts, NEW r \in Picks(p), Regular(parts[p], r)
    PROVE  HeadExact(parts[p], r, HeadOf(parts[p], r))
<1>1. PICK s : s = parts[p]
  OBVIOUS
<1>2. IsSeries(s) /\ Horizon \in Int /\ r \in Int /\ Anchors(s, r)
  BY <1>1, RegularAnchors
<1>3. Shown(HeadOf(s, r), Horizon) = {o \in Shown(s, Horizon) : o.slot < r}
  BY <1>2, HeadShows
<1> QED
  BY <1>1, <1>3 DEF HeadExact

LEMMA SplitIsExact ==
    ASSUME Types, NEW p \in DOMAIN parts, NEW r \in Picks(p), Regular(parts[p], r),
           NEW d \in Int, SplitEvent(p, r, d), d = 0 \/ Bare(parts[p])
    PROVE  /\ HeadExact(parts[p], r, parts'[p])
           /\ TailExact(parts[p], r, d, parts'[Len(parts')])
<1>1. PICK s : s = parts[p]
  OBVIOUS
<1>2. /\ IsSeries(s) /\ Horizon \in Int /\ r \in Int /\ Anchors(s, r)
      /\ r \in Seen(s, Horizon) /\ StartOf(s, r) \in Int
  BY <1>1, RegularAnchors
<1>3. d = 0 \/ Bare(s)
  BY <1>1
<1>4. PICK q : q = parts
  OBVIOUS
<1>5. PICK m : m = parts'
  OBVIOUS
<1>6. PICK w : w = [q EXCEPT ![p] = HeadOf(s, r)]
  OBVIOUS
<1>7. IsSeq(q) /\ p \in DOMAIN q
  BY <1>4 DEF Types
<1>8. Adds(m, w, TailOf(s, r, r + d))
  <2>1. (IF d = 0 THEN r ELSE StartOf(s, r) + d) = r + d
    BY <1>2, <1>3, TailStart
  <2>2. parts' = Append([parts EXCEPT ![p] = HeadOf(s, r)],
                        TailOf(s, r, IF d = 0 THEN r ELSE StartOf(s, r) + d))
    BY <1>1 DEF SplitEvent
  <2> QED
    BY <1>4, <1>5, <1>6, <2>1, <2>2 DEF Adds
<1>9. Divided(m, q, p, HeadOf(s, r), TailOf(s, r, r + d))
  BY <1>6, <1>7, <1>8, SplitParts, Zenon
<1>10. m[p] = HeadOf(s, r) /\ m[Len(m)] = TailOf(s, r, r + d)
  BY <1>9 DEF Divided
<1>11. HeadExact(s, r, HeadOf(s, r))
  BY <1>1, HeadIsExact
<1>12. Shown(TailOf(s, r, r + d), Horizon + d)
           = ShownMoved({o \in Shown(s, Horizon) : o.slot >= r}, d)
  <2>1. IsSeries(s) /\ Horizon \in Int /\ r \in Seen(s, Horizon) /\ Anchors(s, r)
    BY <1>2
  <2> QED
    BY <1>3, <2>1, TailShows, SMT
<1>13. TailExact(s, r, d, TailOf(s, r, r + d))
  BY <1>12 DEF TailExact
<1> QED
  BY <1>1, <1>5, <1>10, <1>11, <1>13

\* Splitting a series, or cutting it off, at an occurrence of its rule loses
\* nothing, doubles nothing and brings nothing back (split_series,
\* truncate_series): always, when the time stays, and with a time change, when
\* the series just repeats.
THEOREM SplitsKeep == Spec => SplitKeeps
<1>1. ASSUME Types, NEW p \in DOMAIN parts, NEW r \in Picks(p), Regular(parts[p], r),
             TruncateEvent(p, r)
      PROVE  HeadExact(parts[p], r, parts'[p])
  <2>1. parts'[p] = HeadOf(parts[p], r)
    BY <1>1, EditedPart DEF TruncateEvent
  <2> QED
    BY <1>1, <2>1, HeadIsExact
<1>2. \A d \in Deltas \cup {0} : d \in Int
  BY DeltasAssumption DEF DeltasAssumption
<1>3. Types /\ [Next]_vars =>
          [\A p \in DOMAIN parts : \A r \in Picks(p) : Regular(parts[p], r) =>
               LET s == parts[p]
                   bare == s.rule # None /\ s.rule.until = None /\ s.rule.by = {}
                              /\ DOMAIN s.over = {} /\ s.exdate \cup s.rdate = {}
               IN /\ TruncateEvent(p, r) => HeadExact(s, r, parts'[p])
                  /\ \A d \in Deltas \cup {0} : SplitEvent(p, r, d) /\ (d = 0 \/ bare) =>
                         HeadExact(s, r, parts'[p]) /\ TailExact(s, r, d, parts'[Len(parts')])]_vars
  BY <1>1, <1>2, SplitIsExact DEF Bare
<1> QED
  BY <1>3, TypesInit, TypesStep, PTL DEF Spec, SplitKeeps

=============================================================================

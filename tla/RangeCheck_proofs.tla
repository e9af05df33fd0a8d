-------------------------- MODULE RangeCheck_proofs --------------------------
(***************************************************************************)
(* What the driver's range list guarantees (malloc_lab/mdriver.c): for     *)
(* every heap, alignment and sequence of blocks, two accepted payloads     *)
(* overlap only when the newer one contains the older one, and no two      *)
(* start at the same place.                                                *)
(***************************************************************************)
EXTENDS RangeCheck, SequenceTheorems, TLAPS

NonEmpty(s) == \A i \in DOMAIN s : s[i].lo <= s[i].hi

Contained(s) == \A i, j \in DOMAIN s :
    i < j => Disjoint(s[i], s[j]) \/ StrictlyInside(s[j], s[i])

Good(s) == s \in Seq(Range_t(HeapFrom, HeapTo)) /\ NonEmpty(s) /\ Contained(s)

RangesInv == Good(ranges) /\ valid \in BOOLEAN
-----------------------------------------------------------------------------
(* add_range and remove_range keep a good list                             *)

LEMMA RangeIsInt ==
    ASSUME NEW s \in Seq(Range_t(HeapFrom, HeapTo)), NEW i \in DOMAIN s
    PROVE  s[i].lo \in Int /\ s[i].hi \in Int
<1>1. s[i] \in Range_t(HeapFrom, HeapTo)
  OBVIOUS
<1> QED BY <1>1, RangeCheckAssumption DEF Range_t

\* A non-empty payload that add_range accepts overlaps an older one only by
\* containing it (mdriver.c:407-416).
LEMMA AcceptedContains ==
    ASSUME NEW old \in Seq(Range_t(HeapFrom, HeapTo)), NonEmpty(old),
           NEW lo \in Nat, NEW size \in Nat \ {0},
           Accepts(old, lo, size, HeapFrom, HeapTo),
           NEW k \in DOMAIN old
    PROVE  LET r == [lo |-> lo, hi |-> Hi(lo, size)]
           IN  Disjoint(r, old[k]) \/ StrictlyInside(old[k], r)
<1>1. /\ old[k].lo \in Int /\ old[k].hi \in Int
      /\ old[k].lo <= old[k].hi
  BY RangeIsInt DEF NonEmpty
<1>2. ~ (lo \in old[k].lo .. old[k].hi) /\ ~ (Hi(lo, size) \in old[k].lo .. old[k].hi)
  BY DEF Accepts, Overlaps
<1> QED BY <1>1, <1>2 DEF Hi, Disjoint, StrictlyInside

\* The list after add_range (mdriver.c:418-429) is good.
LEMMA AddedGood ==
    ASSUME NEW old, Good(old), NEW lo \in Nat, NEW size \in Nat \ {0},
           Accepts(old, lo, size, HeapFrom, HeapTo)
    PROVE  Good(Added(old, lo, size))
<1> DEFINE r == [lo |-> lo, hi |-> Hi(lo, size)]
           s == Added(old, lo, size)
<1>1. old \in Seq(Range_t(HeapFrom, HeapTo)) /\ NonEmpty(old) /\ Contained(old)
  BY DEF Good
<1>2. r \in Range_t(HeapFrom, HeapTo)
  BY DEF Accepts, InHeap, Range_t
<1>3. s = <<r>> \o old
  BY DEF Added
<1>4. /\ s \in Seq(Range_t(HeapFrom, HeapTo))
      /\ Len(s) = Len(old) + 1
      /\ s[1] = r
      /\ \A i \in DOMAIN s : i # 1 => i - 1 \in DOMAIN old /\ s[i] = old[i - 1]
  <2> HIDE DEF r, s
  <2> QED BY <1>1, <1>2, <1>3
<1>5. DOMAIN s = 1 .. Len(s) /\ Len(s) \in Nat
  <2> HIDE DEF s
  <2> QED BY <1>4
<1>6. NonEmpty(s)
  <2> SUFFICES ASSUME NEW i \in DOMAIN s PROVE s[i].lo <= s[i].hi
    BY DEF NonEmpty
  <2>1. CASE i = 1
    <3>1. r.lo = lo /\ r.hi = lo + size - 1 BY DEF Hi
    <3> HIDE DEF r, s
    <3> QED BY <3>1, <2>1, <1>4
  <2>2. CASE i # 1
    <3> HIDE DEF r, s
    <3> QED BY <2>2, <1>1, <1>4 DEF NonEmpty
  <2> QED BY <2>1, <2>2
<1>7. Contained(s)
  <2> SUFFICES ASSUME NEW i \in DOMAIN s, NEW j \in DOMAIN s, i < j
               PROVE  Disjoint(s[i], s[j]) \/ StrictlyInside(s[j], s[i])
    BY DEF Contained
  <2>1. i \in Nat /\ j \in Nat /\ j # 1 /\ j - 1 \in DOMAIN old /\ s[j] = old[j - 1]
    <3> HIDE DEF r, s
    <3> QED BY <1>4, <1>5
  <2>2. CASE i = 1
    <3>1. Disjoint(r, old[j - 1]) \/ StrictlyInside(old[j - 1], r)
      BY <1>1, <2>1, AcceptedContains
    <3> HIDE DEF r, s
    <3> QED BY <3>1, <2>1, <2>2, <1>4
  <2>3. CASE i # 1
    <3>1. i - 1 \in DOMAIN old /\ s[i] = old[i - 1] /\ i - 1 < j - 1
      <4> HIDE DEF r, s
      <4> QED BY <2>1, <2>3, <1>4
    <3> HIDE DEF r, s
    <3> QED BY <3>1, <2>1, <1>1 DEF Contained
  <2> QED BY <2>2, <2>3
<1> QED BY <1>4, <1>6, <1>7 DEF Good

\* In a good list no two payloads start at the same place, so remove_range has one
\* range to find (mdriver.c:439).
LEMMA GoodStartsDistinct ==
    ASSUME NEW s, Good(s), NEW i \in DOMAIN s, NEW j \in DOMAIN s, s[i].lo = s[j].lo
    PROVE  i = j
<1>1. /\ s[i].lo \in Int /\ s[i].hi \in Int /\ s[i].lo <= s[i].hi
      /\ s[j].lo \in Int /\ s[j].hi \in Int /\ s[j].lo <= s[j].hi
  BY RangeIsInt DEF Good, NonEmpty
<1>2. ~ Disjoint(s[i], s[j]) /\ ~ StrictlyInside(s[j], s[i])
  BY <1>1 DEF Disjoint, StrictlyInside
<1>3. ~ Disjoint(s[j], s[i]) /\ ~ StrictlyInside(s[i], s[j])
  BY <1>1 DEF Disjoint, StrictlyInside
<1>4. ~ (i < j) /\ ~ (j < i)
  BY <1>2, <1>3 DEF Good, Contained
<1> QED BY <1>4 DEF Good

\* The list after remove_range (mdriver.c:431-449) is good.
LEMMA RemovedGood ==
    ASSUME NEW old, Good(old), NEW lo
    PROVE  Good(Removed(old, lo))
<1> DEFINE S == {i \in DOMAIN old : old[i].lo = lo}
           n == CHOOSE i \in S : \A j \in S : i <= j
           s == Removed(old, lo)
<1>1. old \in Seq(Range_t(HeapFrom, HeapTo)) /\ NonEmpty(old) /\ Contained(old)
  BY DEF Good
<1>2. CASE S = {}
  BY <1>2 DEF Removed
<1>3. CASE S # {}
  <2>1. S \subseteq Nat
    BY <1>1
  <2>2. \E i \in S : \A j \in S : i <= j
    <3>1. PICK i \in S : TRUE
      BY <1>3
    <3>2. \A j \in S : j = i
      BY GoodStartsDistinct
    <3> QED BY <2>1, <3>1, <3>2
  <2>3. n \in DOMAIN old
    BY <2>2
  <2>4. s = SubSeq(old, 1, n - 1) \o SubSeq(old, n + 1, Len(old))
    BY <1>3 DEF Removed, RemoveAt
  <2>5. /\ s \in Seq(Range_t(HeapFrom, HeapTo))
        /\ \A i \in DOMAIN s : /\ i \in Nat
                               /\ i < n => i \in DOMAIN old /\ s[i] = old[i]
                               /\ i >= n => i + 1 \in DOMAIN old /\ s[i] = old[i + 1]
    <3> DEFINE a == SubSeq(old, 1, n - 1)
               b == SubSeq(old, n + 1, Len(old))
    <3>1. Len(old) \in Nat /\ n \in 1 .. Len(old)
      BY <1>1, <2>3
    <3> HIDE DEF S, n
    <3>2. /\ a \in Seq(Range_t(HeapFrom, HeapTo)) /\ Len(a) = n - 1
          /\ \A i \in 1 .. n - 1 : a[i] = old[i]
      BY <1>1, <3>1
    <3>3. /\ b \in Seq(Range_t(HeapFrom, HeapTo)) /\ Len(b) = Len(old) - n
          /\ \A i \in 1 .. Len(old) - n : b[i] = old[i + n]
      BY <1>1, <3>1
    <3> HIDE DEF a, b
    <3>4. /\ a \o b \in Seq(Range_t(HeapFrom, HeapTo))
          /\ Len(a \o b) = Len(old) - 1
      <4>1. a \o b \in Seq(Range_t(HeapFrom, HeapTo)) /\ Len(a \o b) = Len(a) + Len(b)
        <5> DEFINE R == Range_t(HeapFrom, HeapTo)
        <5>1. a \in Seq(R) /\ b \in Seq(R)
          BY <3>2, <3>3
        <5> HIDE DEF R
        <5>2. a \o b \in Seq(R) /\ Len(a \o b) = Len(a) + Len(b)
          BY <5>1, ConcatProperties
        <5> QED BY <5>2 DEF R
      <4> QED BY <3>1, <3>2, <3>3, <4>1
    <3>5. \A i \in 1 .. Len(old) - 1 :
            (a \o b)[i] = IF i < n THEN a[i] ELSE b[i - (n - 1)]
      BY <3>1, <3>2, <3>3
    <3>6. s = a \o b
      BY <2>4 DEF a, b
    <3> HIDE DEF s
    <3>7. DOMAIN s = 1 .. Len(old) - 1 /\ DOMAIN old = 1 .. Len(old)
      BY <1>1, <3>4, <3>6
    <3> QED BY <3>1, <3>2, <3>3, <3>4, <3>5, <3>6, <3>7
  <2> HIDE DEF S, n, s
  <2>6. n \in Nat
    BY <1>1, <2>3
  <2>7. NonEmpty(s)
    BY <1>1, <2>5, <2>6 DEF NonEmpty
  <2>8. Contained(s)
    BY <1>1, <2>5, <2>6 DEF Contained
  <2>9. Good(s)
    BY <2>5, <2>7, <2>8 DEF Good
  <2> QED BY <2>9 DEF s
<1> QED BY <1>2, <1>3
-----------------------------------------------------------------------------
(* every step of the trace                                                 *)

LEMMA RangesInit == Init => RangesInv
BY DEF Init, RangesInv, Good, NonEmpty, Contained

LEMMA RangesNext == RangesInv /\ [Next]_vars => RangesInv'
<1> SUFFICES ASSUME RangesInv, [Next]_vars PROVE RangesInv'
  OBVIOUS
<1>1. Good(ranges) /\ valid \in BOOLEAN
  BY DEF RangesInv
<1>2. ASSUME NEW old, Good(old), NEW lo \in Addresses, NEW size \in 1 .. MaxSize,
             Check(old, lo, size)
      PROVE  RangesInv'
  <2>1. valid' = Accepts(old, lo, size, HeapFrom, HeapTo) /\ valid' \in BOOLEAN
    BY <1>2 DEF Check, Accepts
  <2>2. CASE valid'
    <3>1. lo \in Nat /\ size \in Nat \ {0}
      BY RangeCheckAssumption DEF Addresses
    <3>2. Good(Added(old, lo, size))
      BY <1>2, <2>1, <2>2, <3>1, AddedGood
    <3> QED BY <1>2, <2>1, <2>2, <3>2 DEF Check, RangesInv
  <2>3. CASE ~ valid'
    BY <1>2, <2>1, <2>3 DEF Check, RangesInv
  <2> QED BY <2>2, <2>3
<1>3. CASE ReturnedNull
  BY <1>1, <1>3 DEF ReturnedNull, RangesInv
<1>4. CASE Alloc
  BY <1>1, <1>2, <1>3, <1>4 DEF Alloc
<1>5. CASE Realloc
  <2>1. PICK i \in DOMAIN ranges :
          \/ ReturnedNull
          \/ \E lo \in Addresses, size \in 1 .. MaxSize :
                Check(Removed(ranges, ranges[i].lo), lo, size)
    BY <1>5 DEF Realloc
  <2>2. Good(Removed(ranges, ranges[i].lo))
    BY <1>1, RemovedGood
  <2> QED BY <1>2, <1>3, <2>1, <2>2
<1>6. CASE Free
  BY <1>1, <1>6, RemovedGood DEF Free, RangesInv
<1>7. CASE Clear
  BY <1>7 DEF Clear, RangesInv, Good, NonEmpty, Contained
<1>8. CASE UNCHANGED vars
  BY <1>1, <1>8 DEF vars, RangesInv
<1> QED BY <1>4, <1>5, <1>6, <1>7, <1>8 DEF Next

\* The list of the driver is good after every request of every trace.
THEOREM RangesCorrect == Spec => []RangesInv
BY RangesInit, RangesNext, PTL DEF Spec

\* The range list holds extents inside the heap.
THEOREM RangeTypeCorrect == Spec => []TypeOK
<1>1. RangesInv => TypeOK
  BY DEF RangesInv, Good, TypeOK
<1> QED BY <1>1, RangesCorrect, PTL

\* Two payloads that add_range has accepted overlap only when the newer one
\* strictly contains the older one (mdriver.c:407-416).
THEOREM OnlyContainmentOverlaps == Spec => []OverlapOnlyByContainment
<1>1. RangesInv => OverlapOnlyByContainment
  BY DEF RangesInv, Good, Contained, OverlapOnlyByContainment
<1> QED BY <1>1, RangesCorrect, PTL

\* remove_range has one range to find (mdriver.c:431-449).
THEOREM StartsAreDistinct == Spec => []StartsDistinct
<1>1. RangesInv => StartsDistinct
  BY GoodStartsDistinct DEF RangesInv, StartsDistinct
<1> QED BY <1>1, RangesCorrect, PTL
=============================================================================

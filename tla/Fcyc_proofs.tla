----------------------------- MODULE Fcyc_proofs -----------------------------
(***************************************************************************)
(* Theorems about the K-best timer for any word size, settings, epsilon,   *)
(* costs and number of calls that the assumptions of Fcyc admit.           *)
(***************************************************************************)
EXTENDS Fcyc, SequenceTheorems, FiniteSetTheorems, WellFoundedInduction, TLAPS
-----------------------------------------------------------------------------
(* Arithmetic of products and quotients.                                   *)
LEMMA MulAtLeast ==
  ASSUME NEW a \in Int, NEW b \in Int, a >= 1, b >= 0
  PROVE  a * b >= b
<1>1. a = (a - 1) + 1
  OBVIOUS
<1>2. a * b = (a - 1) * b + b
  OBVIOUS
<1>3. (a - 1) * b >= 0
  OBVIOUS
<1>4. QED
  BY <1>2, <1>3

LEMMA MulMono ==
  ASSUME NEW d \in Nat, NEW a \in Int, NEW b \in Int, a <= b
  PROVE  d * a <= d * b
OBVIOUS

LEMMA MulMono2 ==
  ASSUME NEW a \in Nat, NEW b \in Nat, NEW c \in Nat, NEW d \in Nat, a <= c, b <= d
  PROVE  a * b <= c * d
<1>1. a * b <= a * d
  BY MulMono
<1>2. d * a <= d * c
  BY MulMono
<1>3. QED
  BY <1>1, <1>2

LEMMA ModRange ==
  ASSUME NEW x \in Int, NEW B \in Nat \ {0}
  PROVE  x % B \in 0 .. B - 1 /\ x \div B \in Int /\ x = (x \div B) * B + (x % B)
OBVIOUS

LEMMA ModUnique ==
  ASSUME NEW q \in Int, NEW B \in Nat \ {0}, NEW r \in 0 .. B - 1
  PROVE  (q * B + r) % B = r /\ (q * B + r) \div B = q
<1> DEFINE x == q * B + r
           q2 == x \div B
           r2 == x % B
<1>1. x \in Int /\ r2 \in 0 .. B - 1 /\ q2 \in Int /\ x = q2 * B + r2
  BY ModRange
<1> HIDE DEF q2, r2
<1>2. (q - q2) * B = r2 - r
  BY <1>1
<1>3. q - q2 < 1
  <2>1. SUFFICES ASSUME q - q2 >= 1 PROVE FALSE
    BY <1>1
  <2>2. (q - q2) * B >= B
    BY <1>1, <2>1, MulAtLeast
  <2>3. QED
    BY <1>1, <1>2, <2>2
<1>4. q2 - q < 1
  <2>1. SUFFICES ASSUME q2 - q >= 1 PROVE FALSE
    BY <1>1
  <2>2. (q2 - q) * B >= B
    BY <1>1, <2>1, MulAtLeast
  <2>3. (q2 - q) * B = r - r2
    BY <1>1
  <2>4. QED
    BY <1>1, <2>2, <2>3
<1>5. q = q2
  BY <1>1, <1>3, <1>4
<1>6. r = r2
  BY <1>1, <1>2, <1>5
<1>7. QED
  BY <1>5, <1>6 DEF q2, r2

LEMMA Quotient ==
  ASSUME NEW x \in Nat, NEW B \in Nat \ {0}
  PROVE  x \div B \in Nat /\ (x \div B) * B <= x
<1> DEFINE q == x \div B
           r == x % B
<1>1. r \in 0 .. B - 1 /\ q \in Int /\ x = q * B + r /\ x \in Int
  BY ModRange
<1> HIDE DEF q, r
<1>2. q > -1
  <2>1. SUFFICES ASSUME -q >= 1 PROVE FALSE
    BY <1>1
  <2>2. (-q) * B >= B
    BY <1>1, <2>1, MulAtLeast
  <2>3. (-q) * B = - (q * B)
    BY <1>1
  <2>4. QED
    BY <1>1, <2>2, <2>3
<1>3. q * B <= x
  BY <1>1
<1>4. QED
  BY <1>1, <1>2, <1>3 DEF q

LEMMA HighWord ==
  ASSUME NEW B \in Nat \ {0}, NEW x \in 0 .. B * B - 1
  PROVE  x \div B \in 0 .. B - 1 /\ x % B \in 0 .. B - 1
<1> DEFINE q == x \div B
           r == x % B
<1>1. r \in 0 .. B - 1 /\ q \in Int /\ x = q * B + r /\ x \in Int
  BY ModRange
<1> HIDE DEF q, r
<1>2. q < B
  <2>1. SUFFICES ASSUME q >= B PROVE FALSE
    BY <1>1
  <2>2. B * B <= B * q
    BY <1>1, <2>1, MulMono
  <2>3. QED
    BY <1>1, <2>2
<1>3. q \in Nat
  BY <1>1, Quotient DEF q
<1>4. QED
  BY <1>1, <1>2, <1>3 DEF q, r

-----------------------------------------------------------------------------
(* The cycle counter.                                                      *)

\* Two readings of the counter that are less than a turn apart, subtracted word by
\* word with the borrow, give the cycles between them.
LEMMA DoublePrecision ==
  ASSUME cyc_hi \in 0 .. Base - 1, cyc_lo \in 0 .. Base - 1, NEW d \in 0 .. Base * Base - 1,
         NEW now, now = (cyc_hi * Base + cyc_lo + d) % (Base * Base)
  PROVE  Difference(now \div Base, now % Base) = d
<1> DEFINE dh == d \div Base
           dl == d % Base
           cl == IF cyc_lo + dl < Base THEN 0 ELSE 1
           nlo == cyc_lo + dl - cl * Base
           ch == IF cyc_hi + dh + cl < Base THEN 0 ELSE 1
           nhi == cyc_hi + dh + cl - ch * Base
<1>1. Base \in Nat \ {0} /\ Base * Base \in Nat /\ d \in Int
  BY CounterAssumption
<1>2. dh \in 0 .. Base - 1 /\ dl \in 0 .. Base - 1 /\ d = dh * Base + dl
  <2>1. d = dh * Base + dl
    BY <1>1, ModRange
  <2>2. QED
    BY <1>1, <2>1, HighWord
<1> HIDE DEF dh, dl
<1>3. cl \in {0, 1} /\ cl * Base = (IF cl = 0 THEN 0 ELSE Base) /\ nlo \in 0 .. Base - 1
  BY <1>1, <1>2
<1> HIDE DEF cl
<1>4. ch \in {0, 1} /\ ch * Base = (IF ch = 0 THEN 0 ELSE Base) /\ nhi \in 0 .. Base - 1
  BY <1>1, <1>2, <1>3
<1> HIDE DEF ch
\* The words of the second reading.
<1>5. now = nhi * Base + nlo
  <2>1. cyc_hi * Base + cyc_lo + d = ch * (Base * Base) + (nhi * Base + nlo)
    <3>1. cyc_hi * Base + cyc_lo + d = (cyc_hi + dh) * Base + (cyc_lo + dl)
      BY <1>1, <1>2
    <3>2. cyc_lo + dl = cl * Base + nlo
      BY <1>1, <1>2, <1>3
    <3>3. (cyc_hi + dh) * Base + cl * Base = (cyc_hi + dh + cl) * Base
      BY <1>1, <1>2, <1>3
    <3>4. cyc_hi + dh + cl = ch * Base + nhi
      BY <1>1, <1>2, <1>3, <1>4
    <3>5. (ch * Base + nhi) * Base = ch * (Base * Base) + nhi * Base
      BY <1>1, <1>4
    <3> HIDE DEF nhi, nlo
    <3>6. cyc_hi * Base + cyc_lo + d = (ch * Base + nhi) * Base + nlo
      BY <1>1, <1>2, <1>3, <1>4, <3>1, <3>2, <3>3, <3>4
    <3>7. QED
      BY <1>1, <1>3, <1>4, <3>5, <3>6
  <2> HIDE DEF nhi, nlo
  <2>2. nhi * Base + nlo \in 0 .. Base * Base - 1
    <3>1. nhi * Base <= (Base - 1) * Base
      BY <1>1, <1>4, MulMono
    <3>2. (Base - 1) * Base = Base * Base - Base
      BY <1>1
    <3>3. nhi * Base >= 0
      BY <1>1, <1>4
    <3>4. QED
      BY <1>1, <1>3, <1>4, <3>1, <3>2, <3>3
  <2>3. Base * Base \in Nat \ {0}
    BY <1>1
  <2>4. (ch * (Base * Base) + (nhi * Base + nlo)) % (Base * Base) = nhi * Base + nlo
    <3>1. PICK B \in Nat \ {0} : B = Base * Base
      BY <2>3
    <3>2. PICK r \in 0 .. B - 1 : r = nhi * Base + nlo
      BY <2>2, <3>1
    <3>3. ch \in Int /\ (ch * B + r) % B = r
      BY <1>4, ModUnique
    <3>4. QED
      BY <3>1, <3>2, <3>3
  <2>5. QED
    BY <2>1, <2>4
<1>6. now \div Base = nhi /\ now % Base = nlo
  <2> HIDE DEF nhi, nlo
  <2>1. nhi \in Int
    BY <1>1, <1>4
  <2>2. (nhi * Base + nlo) % Base = nlo /\ (nhi * Base + nlo) \div Base = nhi
    BY <1>1, <1>3, <2>1, ModUnique
  <2>3. QED
    BY <1>5, <2>2
\* The subtraction of the words.
<1>7. (nlo - cyc_lo) % Base = dl
  <2>1. nlo - cyc_lo = (- cl) * Base + dl
    BY <1>1, <1>2, <1>3
  <2>2. - cl \in Int
    BY <1>3
  <2>3. ((- cl) * Base + dl) % Base = dl
    BY <1>1, <1>2, <2>2, ModUnique
  <2>4. QED
    BY <2>1, <2>3
<1>8. (IF dl > nlo THEN 1 ELSE 0) = cl
  BY <1>1, <1>2, <1>3
<1>9. (nhi - cyc_hi - cl) % Base = dh
  <2>1. nhi - cyc_hi - cl = (- ch) * Base + dh
    BY <1>1, <1>2, <1>3, <1>4
  <2>2. - ch \in Int
    BY <1>4
  <2>3. ((- ch) * Base + dh) % Base = dh
    BY <1>1, <1>2, <2>2, ModUnique
  <2>4. QED
    BY <2>1, <2>3
<1>10. Difference(nhi, nlo) = dh * Base + dl
  <2> HIDE DEF nhi, nlo
  <2>1. QED
    BY <1>7, <1>8, <1>9 DEF Difference
<1>11. QED
  BY <1>2, <1>6, <1>10

-----------------------------------------------------------------------------
(* Ranks in a sequence of samples, and the insertion sort.                 *)

LEMMA LeastMember ==
  ASSUME NEW S, S \subseteq Nat, S # {}
  PROVE  \E x \in S : \A y \in S : x <= y
<1>1. PICK x \in S : \A y \in S : ~ (<<y, x>> \in OpToRel(<, Nat))
  BY NatLessThanWellFounded, WFMin
<1>2. \A y \in S : ~ (y < x)
  BY <1>1 DEF OpToRel
<1>3. QED
  BY <1>2

\* The members of a sequence below a value, and those up to it.
Lower(s, v) == Cardinality({i \in 1 .. Len(s) : s[i] < v})
Upper(s, v) == Cardinality({i \in 1 .. Len(s) : s[i] <= v})

LEMMA CountTypes ==
  ASSUME NEW s \in Seq(Int), NEW v \in Int
  PROVE  /\ Lower(s, v) \in Nat /\ Lower(s, v) <= Len(s)
         /\ Upper(s, v) \in Nat /\ Upper(s, v) <= Len(s)
<1>1. Len(s) \in Nat /\ IsFiniteSet(1 .. Len(s)) /\ Cardinality(1 .. Len(s)) = Len(s)
  <2>1. Len(s) \in Nat /\ 1 \in Int
    BY LenProperties
  <2>2. /\ IsFiniteSet(1 .. Len(s))
        /\ Cardinality(1 .. Len(s)) = IF 1 > Len(s) THEN 0 ELSE Len(s) - 1 + 1
    BY <2>1, FS_Interval
  <2>3. QED
    BY <2>1, <2>2
<1>2. ASSUME NEW T \in SUBSET (1 .. Len(s))
      PROVE  Cardinality(T) \in Nat /\ Cardinality(T) <= Len(s)
  BY <1>1, FS_Subset, FS_CardinalityType
<1>3. QED
  BY <1>1, <1>2 DEF Lower, Upper

LEMMA CountMonotone ==
  ASSUME NEW s \in Seq(Int), NEW v \in Int, NEW w \in Int
  PROVE  /\ v <= w => Lower(s, v) <= Lower(s, w) /\ Upper(s, v) <= Upper(s, w)
         /\ v < w => Upper(s, v) <= Lower(s, w)
<1>1. IsFiniteSet(1 .. Len(s)) /\ \A i \in 1 .. Len(s) : s[i] \in Int
  BY FS_Interval, ElementOfSeq
<1>2. ASSUME NEW T, NEW U, T \subseteq U, U \subseteq 1 .. Len(s)
      PROVE  Cardinality(T) <= Cardinality(U)
  <2>1. IsFiniteSet(U)
    BY <1>1, <1>2, FS_Subset
  <2>2. QED
    BY <1>2, <2>1, FS_Subset
<1> DEFINE L(x) == {i \in 1 .. Len(s) : s[i] < x}
           U(x) == {i \in 1 .. Len(s) : s[i] <= x}
<1>3. v <= w => L(v) \subseteq L(w) /\ U(v) \subseteq U(w)
  BY <1>1
<1>4. v < w => U(v) \subseteq L(w)
  BY <1>1
<1>5. \A x : L(x) \subseteq 1 .. Len(s) /\ U(x) \subseteq 1 .. Len(s)
  OBVIOUS
<1>6. \A x : Lower(s, x) = Cardinality(L(x)) /\ Upper(s, x) = Cardinality(U(x))
  BY DEF Lower, Upper
<1> HIDE DEF L, U
<1>7. QED
  BY <1>2, <1>3, <1>4, <1>5, <1>6

LEMMA CountAppend ==
  ASSUME NEW s \in Seq(Int), NEW v \in Int, NEW x \in Int
  PROVE  /\ Append(s, x) \in Seq(Int) /\ Len(Append(s, x)) = Len(s) + 1
         /\ Lower(Append(s, x), v) = Lower(s, v) + (IF x < v THEN 1 ELSE 0)
         /\ Upper(Append(s, x), v) = Upper(s, v) + (IF x <= v THEN 1 ELSE 0)
<1> DEFINE t == Append(s, x)
           n == Len(s)
<1>1. /\ n \in Nat /\ t \in Seq(Int) /\ Len(t) = n + 1 /\ t[n + 1] = x
      /\ \A i \in 1 .. n : t[i] = s[i]
  BY AppendProperties, LenProperties
<1> HIDE DEF t
<1>2. \A i \in 1 .. n + 1 : i \in 1 .. n \/ i = n + 1
  BY <1>1
<1>3. 1 .. n \subseteq 1 .. n + 1 /\ n + 1 \in 1 .. n + 1 /\ n + 1 \notin 1 .. n
  BY <1>1
<1>4. ASSUME NEW T, T \subseteq 1 .. n
      PROVE  Cardinality(T \cup {n + 1}) = Cardinality(T) + 1 /\ Cardinality(T) \in Nat
  <2>1. IsFiniteSet(1 .. n)
    BY <1>1, FS_Interval
  <2>2. IsFiniteSet(T) /\ n + 1 \notin T
    BY <1>3, <1>4, <2>1, FS_Subset
  <2>3. QED
    BY <2>2, FS_AddElement, FS_CardinalityType
<1> DEFINE L == {i \in 1 .. n : s[i] < v}
           U == {i \in 1 .. n : s[i] <= v}
<1>5. {i \in 1 .. n + 1 : t[i] < v} = IF x < v THEN L \cup {n + 1} ELSE L
  BY <1>1, <1>2, <1>3
<1>6. {i \in 1 .. n + 1 : t[i] <= v} = IF x <= v THEN U \cup {n + 1} ELSE U
  BY <1>1, <1>2, <1>3
<1>7. L \subseteq 1 .. n /\ U \subseteq 1 .. n
  OBVIOUS
<1>8. Lower(s, v) = Cardinality(L) /\ Upper(s, v) = Cardinality(U)
  BY DEF Lower, Upper
<1>9. /\ Lower(t, v) = Cardinality(IF x < v THEN L \cup {n + 1} ELSE L)
      /\ Upper(t, v) = Cardinality(IF x <= v THEN U \cup {n + 1} ELSE U)
  BY <1>1, <1>5, <1>6 DEF Lower, Upper
<1> HIDE DEF L, U
<1>10. /\ Cardinality(L \cup {n + 1}) = Cardinality(L) + 1 /\ Cardinality(L) \in Nat
       /\ Cardinality(U \cup {n + 1}) = Cardinality(U) + 1 /\ Cardinality(U) \in Nat
  BY <1>4, <1>7
<1>11. QED
  BY <1>1, <1>8, <1>9, <1>10 DEF t

\* By rank, the cells of w are the smallest members of s in order.
Ranked(s, w) == \A i \in 1 .. Len(w) : Lower(s, w[i]) < i /\ i <= Upper(s, w[i])

LEMMA RankedIsSorted ==
  ASSUME NEW s \in Seq(Int), NEW w \in Seq(Int), Ranked(s, w),
         NEW i \in 1 .. Len(w), NEW j \in 1 .. Len(w), i <= j
  PROVE  w[i] <= w[j]
<1>1. w[i] \in Int /\ w[j] \in Int
  BY ElementOfSeq
<1>2. SUFFICES ASSUME w[j] < w[i] PROVE FALSE
  BY <1>1
<1>3. Upper(s, w[j]) <= Lower(s, w[i])
  BY <1>1, <1>2, CountMonotone
<1>4. Lower(s, w[i]) < i /\ j <= Upper(s, w[j])
  BY DEF Ranked
<1>5. Lower(s, w[i]) \in Nat /\ Upper(s, w[j]) \in Nat
  BY <1>1, CountTypes
<1>6. QED
  BY <1>3, <1>4, <1>5

\* The insertion of add_sample, into a free cell or in the place of the largest.
Fits(n, val) ==
    \/ Len(values) = n - 1 /\ Len(samples) = n - 1
    \/ Len(values) = n /\ val < values[n]

LEMMA InsertPlace ==
  ASSUME values \in Seq(Int), NEW n \in Nat \ {0}, NEW val \in Int, Fits(n, val)
  PROVE  \E i \in 0 .. n - 1 : /\ i = 0 \/ values[i] <= val
                               /\ \A j \in i + 1 .. n - 1 : values[j] > val
<1> DEFINE T == {m \in 0 .. n - 1 : \A j \in m + 1 .. n - 1 : values[j] > val}
<1>1. n - 1 \in T /\ T \subseteq Nat
  OBVIOUS
<1>2. PICK m \in T : \A k \in T : m <= k
  BY <1>1, LeastMember
<1>3. CASE m = 0
  BY <1>2, <1>3
<1>4. CASE m # 0
  <2>1. m - 1 \in 0 .. n - 1 /\ m \in 1 .. n - 1
    BY <1>2, <1>4
  <2>2. m - 1 \notin T
    <3>1. ~ (m <= m - 1)
      BY <2>1
    <3>2. QED
      BY <1>2, <3>1
  <2>3. PICK j \in m .. n - 1 : ~ (values[j] > val)
    BY <2>1, <2>2
  <2>4. j = m
    BY <1>2, <2>1, <2>3
  <2>5. m \in 1 .. Len(values)
    BY <2>1, LenProperties DEF Fits
  <2>6. values[m] \in Int
    BY <2>5, ElementOfSeq
  <2>7. values[m] <= val
    BY <2>3, <2>4, <2>6
  <2>8. QED
    BY <1>2, <2>7
<1>5. QED
  BY <1>3, <1>4

LEMMA InsertRanked ==
  ASSUME values \in Seq(Int), samples \in Seq(Int), Ranked(samples, values),
         NEW n \in Nat \ {0}, NEW val \in Int, Fits(n, val)
  PROVE  /\ Insert(n, val) \in Seq(Int) /\ Len(Insert(n, val)) = n
         /\ Ranked(Append(samples, val), Insert(n, val))
<1> DEFINE stop == CHOOSE i \in 0 .. n - 1 :
                     /\ i = 0 \/ values[i] <= val
                     /\ \A j \in i + 1 .. n - 1 : values[j] > val
           w == [i \in 1 .. n |-> IF i <= stop THEN values[i]
                                  ELSE IF i = stop + 1 THEN val ELSE values[i - 1]]
           t == Append(samples, val)
<1>1. Insert(n, val) = w
  BY DEF Insert
<1>2. /\ stop \in 0 .. n - 1
      /\ stop = 0 \/ values[stop] <= val
      /\ \A j \in stop + 1 .. n - 1 : values[j] > val
  BY InsertPlace
<1> HIDE DEF stop
<1>3. Len(values) \in Nat /\ n - 1 <= Len(values) /\ Len(values) <= n /\ Len(samples) \in Nat
  BY LenProperties DEF Fits
<1>4. \A i \in 1 .. n - 1 : values[i] \in Int
  BY <1>3, ElementOfSeq
<1>5. \A i \in 1 .. n : w[i] \in Int
  BY <1>2, <1>4
<1>6. w \in Seq(Int) /\ Len(w) = n
  <2>1. w \in [1 .. n -> Int]
    BY <1>5
  <2>2. QED
    BY <2>1, LenProperties, IsASeq
<1>7. ASSUME NEW i \in 1 .. n - 1
      PROVE  Lower(samples, values[i]) < i /\ i <= Upper(samples, values[i])
  BY <1>3 DEF Ranked
<1>8. ASSUME NEW v \in Int
      PROVE  /\ Lower(samples, v) \in Nat /\ Upper(samples, v) \in Nat
             /\ Lower(samples, v) <= Len(samples)
             /\ Lower(t, v) = Lower(samples, v) + (IF val < v THEN 1 ELSE 0)
             /\ Upper(t, v) = Upper(samples, v) + (IF val <= v THEN 1 ELSE 0)
  <2>1. /\ Lower(samples, v) \in Nat /\ Upper(samples, v) \in Nat
        /\ Lower(samples, v) <= Len(samples)
    BY CountTypes
  <2>2. /\ Lower(t, v) = Lower(samples, v) + (IF val < v THEN 1 ELSE 0)
        /\ Upper(t, v) = Upper(samples, v) + (IF val <= v THEN 1 ELSE 0)
    BY CountAppend
  <2>3. QED
    BY <2>1, <2>2
<1> HIDE DEF t
<1>9. ASSUME NEW i \in 1 .. n
      PROVE  Lower(t, w[i]) < i /\ i <= Upper(t, w[i])
  <2>1. CASE i <= stop
    <3>1. w[i] = values[i] /\ i \in 1 .. n - 1 /\ stop \in 1 .. n - 1
      BY <1>2, <2>1
    <3>2. values[i] <= values[stop]
      <4>1. i \in 1 .. Len(values) /\ stop \in 1 .. Len(values)
        BY <1>3, <3>1
      <4>2. QED
        BY <2>1, <4>1, RankedIsSorted
    <3>3. values[i] \in Int /\ values[stop] \in Int /\ values[stop] <= val
      BY <1>2, <1>4, <3>1
    <3>4. PICK v \in Int : v = values[i]
      BY <3>3
    <3>5. ~ (val < v)
      BY <3>2, <3>3, <3>4
    <3>6. Lower(samples, v) < i /\ i <= Upper(samples, v)
      BY <1>7, <3>1, <3>4
    <3>7. /\ Lower(samples, v) \in Nat /\ Upper(samples, v) \in Nat
          /\ Lower(t, v) = Lower(samples, v) + (IF val < v THEN 1 ELSE 0)
          /\ Upper(t, v) = Upper(samples, v) + (IF val <= v THEN 1 ELSE 0)
      BY <1>8
    <3>8. Lower(t, v) < i /\ i <= Upper(t, v)
      BY <3>5, <3>6, <3>7
    <3>9. QED
      BY <3>1, <3>4, <3>8
  <2>2. CASE i = stop + 1
    <3>1. w[i] = val
      BY <1>2, <2>2
    <3>2. Lower(samples, val) < i
      <4>1. CASE i <= Len(values) /\ (i <= n - 1 \/ Len(values) = n)
        <5>1. i \in 1 .. Len(values)
          BY <4>1
        <5>2. PICK v \in Int : v = values[i]
          BY <5>1, ElementOfSeq
        <5>3. val < v
          BY <1>2, <1>3, <2>2, <4>1, <5>2 DEF Fits
        <5>4. Lower(samples, val) <= Lower(samples, v)
          BY <5>3, CountMonotone
        <5>5. Lower(samples, v) < i
          BY <5>1, <5>2 DEF Ranked
        <5>6. Lower(samples, v) \in Nat /\ Lower(samples, val) \in Nat
          BY <1>8
        <5>7. QED
          BY <5>4, <5>5, <5>6
      <4>2. CASE Len(samples) = n - 1 /\ i = n
        <5>1. Lower(samples, val) \in Nat /\ Lower(samples, val) <= Len(samples)
          BY <1>8
        <5>2. QED
          BY <4>2, <5>1
      <4>3. QED
        BY <1>3, <4>1, <4>2 DEF Fits
    <3>3. stop <= Upper(samples, val)
      <4>1. CASE stop = 0
        BY <1>8, <4>1
      <4>2. CASE stop # 0
        <5>1. stop \in 1 .. n - 1 /\ values[stop] <= val
          BY <1>2, <4>2
        <5>2. PICK v \in Int : v = values[stop]
          BY <1>4, <5>1
        <5>3. Upper(samples, v) <= Upper(samples, val)
          BY <5>1, <5>2, CountMonotone
        <5>4. stop <= Upper(samples, v)
          BY <1>7, <5>1, <5>2
        <5>5. Upper(samples, v) \in Nat /\ Upper(samples, val) \in Nat
          BY <1>8
        <5>6. QED
          BY <1>2, <5>3, <5>4, <5>5
      <4>3. QED
        BY <4>1, <4>2
    <3>4. Lower(t, val) = Lower(samples, val) /\ Upper(t, val) = Upper(samples, val) + 1
      BY <1>8
    <3>5. Upper(samples, val) \in Nat
      BY <1>8
    <3>6. QED
      BY <1>2, <2>2, <3>1, <3>2, <3>3, <3>4, <3>5
  <2>3. CASE i > stop + 1
    <3>1. w[i] = values[i - 1] /\ i - 1 \in 1 .. n - 1 /\ i - 1 \in stop + 1 .. n - 1
      BY <1>2, <2>3
    <3>2. values[i - 1] \in Int /\ values[i - 1] > val
      BY <1>2, <1>4, <3>1
    <3>3. PICK v \in Int : v = values[i - 1]
      BY <3>2
    <3>4. val < v /\ Lower(samples, v) < i - 1 /\ i - 1 <= Upper(samples, v)
      BY <1>7, <3>1, <3>2, <3>3
    <3>5. /\ Lower(samples, v) \in Nat /\ Upper(samples, v) \in Nat
          /\ Lower(t, v) = Lower(samples, v) + (IF val < v THEN 1 ELSE 0)
          /\ Upper(t, v) = Upper(samples, v) + (IF val <= v THEN 1 ELSE 0)
      BY <1>8
    <3>6. Lower(t, v) < i /\ i <= Upper(t, v)
      BY <3>4, <3>5
    <3>7. QED
      BY <3>1, <3>3, <3>6
  <2>4. QED
    BY <1>2, <2>1, <2>2, <2>3
<1> HIDE DEF w
<1>10. Ranked(t, w)
  BY <1>6, <1>9 DEF Ranked
<1>11. QED
  BY <1>1, <1>6, <1>10 DEF t

\* A sample that is not smaller than the largest value leaves the values.
LEMMA KeptRanked ==
  ASSUME values \in Seq(Int), samples \in Seq(Int), Ranked(samples, values),
         NEW n \in Nat \ {0}, Len(values) = n, NEW val \in Int, ~ (val < values[n])
  PROVE  Ranked(Append(samples, val), values)
<1> DEFINE t == Append(samples, val)
<1>1. SUFFICES ASSUME NEW i \in 1 .. n
               PROVE  Lower(t, values[i]) < i /\ i <= Upper(t, values[i])
  BY DEF Ranked
<1>2. values[i] \in Int /\ values[n] \in Int
  BY ElementOfSeq
<1>3. values[i] <= values[n]
  <2>1. i \in 1 .. Len(values) /\ n \in 1 .. Len(values) /\ i <= n
    OBVIOUS
  <2>2. QED
    BY <2>1, RankedIsSorted
<1>4. PICK v \in Int : v = values[i]
  BY <1>2
<1>5. ~ (val < v)
  BY <1>2, <1>3, <1>4
<1>6. /\ Lower(samples, v) \in Nat /\ Upper(samples, v) \in Nat
      /\ Lower(t, v) = Lower(samples, v) + (IF val < v THEN 1 ELSE 0)
      /\ Upper(t, v) = Upper(samples, v) + (IF val <= v THEN 1 ELSE 0)
  <2>1. Lower(samples, v) \in Nat /\ Upper(samples, v) \in Nat
    BY CountTypes
  <2>2. /\ Lower(t, v) = Lower(samples, v) + (IF val < v THEN 1 ELSE 0)
        /\ Upper(t, v) = Upper(samples, v) + (IF val <= v THEN 1 ELSE 0)
    BY CountAppend
  <2>3. QED
    BY <2>1, <2>2
<1>7. Lower(samples, v) < i /\ i <= Upper(samples, v)
  BY <1>4 DEF Ranked
<1> HIDE DEF t
<1>8. Lower(t, v) < i /\ i <= Upper(t, v)
  BY <1>5, <1>6, <1>7
<1>9. QED
  BY <1>4, <1>8

-----------------------------------------------------------------------------
(***************************************************************************)
(* The inductive invariant.                                                *)
(***************************************************************************)

\* values[] has the smallest samples in order, and fcyc returns for one of its
\* two reasons.
SamplerInv ==
  /\ pc # "idle" =>
       /\ Len(samples) = samplecount
       /\ Len(values) = IF samplecount < set.k THEN samplecount ELSE set.k
       /\ Ranked(samples, values)
  /\ pc = "return" => has_converged \/ samplecount >= set.max

\* A sample has the work, the ticks that fell into it and the cost of at most two
\* more interruptions; what no tick took is spent.
Costs == OtherCosts \cup {0, TickCost}
SampleShort ==
  /\ pc = "f" => elapsed \in Costs /\ (calm => elapsed = 0)
  /\ pc = "stop" => \E w \in Works, m \in WorkTicks, c, d \in Costs :
                      elapsed = w + (m * TickCost) + c + d /\ (calm => d = 0)
  /\ pc = "ticks" => set.compensate
TickPaid == pc \in {"f", "stop", "ticks"} =>
  \E n \in Nat : n <= ticks /\ elapsed = spent + n * TickCost

\* A gap is not negative.
GapInt == pc = "newc" => time \in Nat

\* Where ticks stand out, a gap that callibrate takes for a tick has a tick in it,
\* and nothing below the cost of a tick is recorded.
Gap ==
  /\ pc = "newt" =>
       \/ elapsed < THRESHOLD
       \/ ~ calm /\ \E c \in OtherCosts : elapsed < THRESHOLD + c
       \/ ~ calm /\ elapsed \in TickCost .. TickCost + THRESHOLD - 1
  /\ pc = "newc" =>
       /\ IF calm THEN elapsed = 0 ELSE elapsed \in Costs
       /\ time \in 0 .. RECORDTHRESH \/ time \in TickCost .. 2 * RECORDTHRESH
  /\ cyc_per_tick = 0 \/ cyc_per_tick >= TickCost
ClockInv == SampleShort /\ TickPaid /\ GapInt /\ CountsCycles

FcycInv == TypeOK /\ SamplerInv /\ ClockInv

\* The constants as numbers.
LEMMA Constants ==
  /\ Base \in Nat \ {0} /\ Base * Base \in Nat
  /\ EpsNum \in Nat /\ EpsDen \in Nat \ {0}
  /\ TickCost \in Nat \ {0} /\ LoopCost \in Nat \ {0} /\ THRESHOLD \in Nat \ {0}
  /\ RECORDTHRESH \in Nat \ {0} /\ NEVENT \in Nat /\ MaxRuns \in Nat
  /\ Costs \subseteq Nat /\ OtherCosts \subseteq Nat /\ Works \subseteq Nat /\ WorkTicks \subseteq Nat
  /\ \A s \in Settings : s.k \in Nat \ {0} /\ s.max \in Nat \ {0} /\ s.compensate \in BOOLEAN
<1>1. Base \in Nat \ {0} /\ Base * Base \in Nat
  BY CounterAssumption
<1>2. EpsNum \in Nat /\ EpsDen \in Nat \ {0}
  BY EpsilonAssumption
<1>3. /\ {TickCost, LoopCost, THRESHOLD, RECORDTHRESH, NEVENT, MaxRuns} \subseteq Nat \ {0}
      /\ OtherCosts \subseteq Nat /\ Works \subseteq Nat /\ WorkTicks \subseteq Nat
  BY CostAssumption
<1>4. Costs \subseteq Nat
  <2>1. TickCost \in Nat /\ 0 \in Nat
    BY <1>3
  <2>2. QED
    BY <1>3, <2>1 DEF Costs
<1>5. \A s \in Settings : s.k \in Nat \ {0} /\ s.max \in Nat \ {0} /\ s.compensate \in BOOLEAN
  BY SettingsAssumption DEF Setting
<1>6. QED
  BY <1>1, <1>2, <1>3, <1>4, <1>5

LEMMA InitFcyc == Init => FcycInv
<1> SUFFICES ASSUME Init PROVE FcycInv
  OBVIOUS
<1>1. TypeOK
  <2>1. <<>> \in Seq(Int)
    BY EmptySeq
  <2>2. 0 \in 0 .. Base - 1
    BY Constants
  <2>3. QED
    BY <2>1, <2>2 DEF Init, TypeOK
<1>2. SamplerInv /\ ClockInv
  BY DEF Init, SamplerInv, ClockInv, SampleShort, TickPaid, GapInt, CountsCycles
<1>3. QED
  BY <1>1, <1>2 DEF FcycInv

\* add_sample: a sample into the values.
LEMMA AddedSample ==
  ASSUME FcycInv, Sample
  PROVE  /\ samples' \in Seq(Int) /\ values' \in Seq(Int)
         /\ samplecount' \in Nat /\ Len(samples') = samplecount'
         /\ Len(values') = IF samplecount' < set.k THEN samplecount' ELSE set.k
         /\ Ranked(samples', values')
<1>1. /\ values \in Seq(Int) /\ samples \in Seq(Int) /\ time \in Int /\ samplecount \in Nat
      /\ set.k \in Nat \ {0} /\ pc = "add"
  BY Constants DEF FcycInv, TypeOK, Sample
<1>2. /\ Len(samples) = samplecount
      /\ Len(values) = IF samplecount < set.k THEN samplecount ELSE set.k
      /\ Ranked(samples, values)
  BY <1>1 DEF FcycInv, SamplerInv
<1>3. /\ samples' = Append(samples, time) /\ samplecount' = samplecount + 1
      /\ values' = IF samplecount < set.k THEN Insert(samplecount + 1, time)
                   ELSE IF Replaces(time) THEN Insert(set.k, time) ELSE values
  BY DEF Sample, AddSample
<1>4. samples' \in Seq(Int) /\ Len(samples') = samplecount'
  BY <1>1, <1>2, <1>3, CountAppend
<1>5. CASE samplecount < set.k
  <2> DEFINE n == samplecount + 1
  <2>1. n \in Nat \ {0} /\ n - 1 = samplecount /\ values' = Insert(n, time)
    BY <1>1, <1>3, <1>5
  <2>2. Fits(n, time)
    BY <1>2, <1>5, <2>1 DEF Fits
  <2> HIDE DEF n
  <2>3. /\ Insert(n, time) \in Seq(Int) /\ Len(Insert(n, time)) = n
        /\ Ranked(Append(samples, time), Insert(n, time))
    BY <1>1, <1>2, <2>1, <2>2, InsertRanked
  <2>4. QED
    BY <1>1, <1>3, <1>4, <1>5, <2>1, <2>3 DEF n
<1>6. CASE ~ (samplecount < set.k) /\ Replaces(time)
  <2>1. values' = Insert(set.k, time) /\ Fits(set.k, time)
    BY <1>2, <1>3, <1>6 DEF Fits, Replaces
  <2>2. /\ Insert(set.k, time) \in Seq(Int) /\ Len(Insert(set.k, time)) = set.k
        /\ Ranked(Append(samples, time), Insert(set.k, time))
    BY <1>1, <1>2, <2>1, InsertRanked
  <2>3. QED
    BY <1>1, <1>3, <1>4, <1>6, <2>1, <2>2
<1>7. CASE ~ (samplecount < set.k) /\ ~ Replaces(time)
  <2>1. values' = values /\ Len(values) = set.k /\ ~ (time < values[set.k])
    BY <1>2, <1>3, <1>7 DEF Replaces
  <2>2. Ranked(Append(samples, time), values)
    BY <1>1, <1>2, <2>1, KeptRanked
  <2>3. QED
    BY <1>1, <1>3, <1>4, <1>7, <2>1, <2>2
<1>8. QED
  BY <1>5, <1>6, <1>7

LEMMA SamplerStep == FcycInv /\ [Next]_vars => SamplerInv'
<1> SUFFICES ASSUME FcycInv, [Next]_vars PROVE SamplerInv'
  OBVIOUS
<1> USE DEF sampler
<1>1. CASE pc' = "idle"
  BY <1>1 DEF SamplerInv
<1>2. CASE Call
  <2>1. values' = <<>> /\ samples' = <<>> /\ samplecount' = 0
        /\ pc' \in {"comp", "start"}
    BY <1>2 DEF Call, Goto, FirstOfSample
  <2>2. set'.k \in Nat \ {0} /\ Len(<<>>) = 0
    BY <1>2, Constants DEF Call, FcycInv, TypeOK
  <2>3. QED
    BY <2>1, <2>2 DEF SamplerInv, Ranked
<1>3. CASE Sample
  <2>1. set' = set /\ pc' = IF ~ has_converged' /\ samplecount' < set.max THEN FirstOfSample ELSE "return"
    BY <1>3 DEF Sample
  <2>2. samplecount' \in Nat /\ set.max \in Nat
    BY <1>3, AddedSample, Constants DEF FcycInv, TypeOK
  <2>3. pc' = "return" => has_converged' \/ samplecount' >= set'.max
    BY <2>1, <2>2 DEF FirstOfSample
  <2>4. /\ Len(samples') = samplecount'
        /\ Len(values') = IF samplecount' < set'.k THEN samplecount' ELSE set'.k
        /\ Ranked(samples', values')
    BY <1>3, <2>1, AddedSample
  <2>5. QED
    BY <2>3, <2>4 DEF SamplerInv
<1>4. CASE UNCHANGED <<sampler, set>> /\ pc # "idle" /\ (pc' = "return" => pc = "return")
  BY <1>4 DEF FcycInv, SamplerInv, has_converged
<1>5. CASE UNCHANGED <<pc, sampler>> /\ pc = "idle"
  BY <1>1, <1>5
<1>6. CASE UNCHANGED vars
  BY <1>4, <1>5, <1>6 DEF vars
<1>7. QED
  BY <1>1, <1>2, <1>3, <1>4, <1>5, <1>6
     DEF Next, SetParameters, Program, StartComp, callibrate, FirstTimes, FirstReading,
         Spin, SecondTimes, StartTicks, start_counter, Measured, get_counter,
         get_comp_counter, Return, Tick, Other, Interrupt, Goto

LEMMA TypeStep == FcycInv /\ [Next]_vars => TypeOK'
<1> SUFFICES ASSUME FcycInv, [Next]_vars PROVE TypeOK'
  OBVIOUS
<1> USE DEF sampler, counter, machine, Goto
<1>1. TypeOK
  BY DEF FcycInv
<1>2. /\ TickCost \in Nat /\ LoopCost \in Nat /\ Works \subseteq Nat /\ OtherCosts \subseteq Nat
      /\ WorkTicks \subseteq Nat
      /\ elapsed \in Nat /\ spent \in Nat /\ ticks \in Nat /\ cyc_per_tick \in Nat /\ time \in Int
  BY <1>1, Constants DEF TypeOK
<1>3. CASE SetParameters
  BY <1>1, <1>3 DEF SetParameters, TypeOK
<1>4. CASE Call
  <2>1. <<>> \in Seq(Int)
    BY EmptySeq
  <2>2. QED
    BY <1>1, <1>4, <2>1 DEF Call, TypeOK, FirstOfSample
<1>5. CASE StartComp \/ FirstTimes \/ FirstReading \/ StartTicks
  <2>1. CASE StartComp
    BY <1>1, <2>1 DEF StartComp, TypeOK
  <2>2. CASE FirstTimes \/ StartTicks
    BY <1>1, <2>2 DEF FirstTimes, StartTicks, TypeOK
  <2>3. CASE FirstReading
    BY <1>1, <2>3 DEF FirstReading, TypeOK
  <2>4. QED
    BY <1>5, <2>1, <2>2, <2>3
<1>6. CASE Spin
  <2>1. elapsed' \in Nat /\ time' \in Int /\ calm' = TRUE
    BY <1>2, <1>6 DEF Spin
  <2>2. pc' \in {"newt", "newc"}
    BY <1>6 DEF Spin
  <2>3. QED
    BY <1>1, <1>6, <2>1, <2>2 DEF Spin, TypeOK
<1>7. CASE SecondTimes
  <2>1. time \in Nat
    BY <1>7, Constants DEF SecondTimes, FcycInv, ClockInv, GapInt
  <2>2. ticks > 0 => time \div ticks \in Nat
    BY <1>2, <2>1, Quotient
  <2>3. cyc_per_tick' \in Nat
    BY <1>1, <1>7, <2>2 DEF SecondTimes, Recorded, TypeOK
  <2>4. QED
    BY <1>1, <1>7, <2>3 DEF SecondTimes, TypeOK
<1>8. CASE start_counter
  <2>1. PICK c \in Starts : cyc_hi' = c \div Base /\ cyc_lo' = c % Base
    BY <1>8 DEF start_counter
  <2>2. c \in 0 .. Base * Base - 1 /\ Base \in Nat \ {0}
    BY CounterAssumption
  <2>3. cyc_hi' \in 0 .. Base - 1 /\ cyc_lo' \in 0 .. Base - 1
    BY <2>1, <2>2, HighWord
  <2>4. QED
    BY <1>1, <1>8, <2>3 DEF start_counter, TypeOK
<1>9. CASE Measured
  <2>1. PICK w \in Works, n \in WorkTicks : /\ elapsed' = elapsed + w + n * TickCost
                                           /\ spent' = spent + w /\ ticks' = ticks + n
    BY <1>9 DEF Measured
  <2>2. n * TickCost \in Nat
    BY <1>2
  <2>3. elapsed' \in Nat /\ spent' \in Nat /\ ticks' \in Nat
    BY <1>2, <2>1, <2>2
  <2>4. QED
    BY <1>1, <1>9, <2>3 DEF Measured, TypeOK
<1>10. CASE get_counter
  <2>1. \A a, b : a \in Int /\ b \in Int => Difference(a, b) \in Int
    <3>1. ASSUME NEW a \in Int, NEW b \in Int PROVE Difference(a, b) \in Int
      <4> DEFINE lo == (b - cyc_lo) % Base
                 borrow == IF lo > b THEN 1 ELSE 0
                 hi == (a - cyc_hi - borrow) % Base
      <4>1. lo \in Int /\ borrow \in Int
        BY <1>1, Constants DEF TypeOK
      <4>2. hi \in Int
        <5> HIDE DEF lo, borrow
        <5>1. QED
          BY <1>1, <4>1, Constants DEF TypeOK
      <4>3. Difference(a, b) = hi * Base + lo
        BY DEF Difference
      <4> HIDE DEF lo, hi
      <4>4. QED
        BY <4>1, <4>2, <4>3, Constants
    <3>2. QED
      BY <3>1
  <2> DEFINE now == (cyc_hi * Base + cyc_lo + elapsed) % (Base * Base)
  <2>2. now \in Int
    <3>1. Base * Base \in Nat \ {0} /\ cyc_hi * Base + cyc_lo + elapsed \in Int
      BY <1>1, Constants DEF TypeOK
    <3>2. QED
      BY <3>1, ModRange
  <2>3. time' = Difference(now \div Base, now % Base)
    BY <1>10 DEF get_counter
  <2> HIDE DEF now
  <2>4. now \div Base \in Int /\ now % Base \in Int
    BY <2>2, Constants, ModRange
  <2>5. time' \in Int
    BY <2>1, <2>3, <2>4
  <2>6. QED
    BY <1>1, <1>10, <2>5 DEF get_counter, TypeOK
<1>11. CASE get_comp_counter
  <2>1. ticks * cyc_per_tick \in Int
    BY <1>1 DEF TypeOK
  <2>2. QED
    BY <1>1, <1>11, <2>1 DEF get_comp_counter, TypeOK
<1>12. CASE Sample
  <2>1. samples' \in Seq(Int) /\ values' \in Seq(Int) /\ samplecount' \in Nat
    BY <1>12, AddedSample
  <2>2. QED
    BY <1>1, <1>12, <2>1 DEF Sample, TypeOK, FirstOfSample
<1>13. CASE Return
  <2>1. <<>> \in Seq(Int)
    BY EmptySeq
  <2>2. QED
    BY <1>1, <1>13, <2>1 DEF Return, TypeOK
<1>14. CASE Tick
  <2>1. elapsed' \in Nat /\ ticks' \in Nat /\ spent' \in Nat /\ calm' = FALSE
    BY <1>2, <1>14 DEF Tick, Interrupt
  <2>2. QED
    BY <1>1, <1>14, <2>1 DEF Tick, Interrupt, TypeOK
<1>15. CASE Other
  <2>1. elapsed' \in Nat /\ ticks' \in Nat /\ spent' \in Nat /\ calm' = FALSE
    BY <1>2, <1>15 DEF Other, Interrupt
  <2>2. QED
    BY <1>1, <1>15, <2>1 DEF Other, Interrupt, TypeOK
<1>16. CASE UNCHANGED vars
  BY <1>1, <1>16 DEF vars, TypeOK
<1>17. QED
  BY <1>3, <1>4, <1>5, <1>6, <1>7, <1>8, <1>9, <1>10, <1>11, <1>12, <1>13, <1>14,
     <1>15, <1>16 DEF Next, Program, callibrate

-----------------------------------------------------------------------------
(* The clock.                                                              *)

\* A step of the program that neither measures nor calibrates.
LEMMA ShortStep == FcycInv /\ [Next]_vars => SampleShort'
<1> SUFFICES ASSUME FcycInv, [Next]_vars PROVE SampleShort'
  OBVIOUS
<1> USE DEF machine, Goto
<1>1. SampleShort /\ elapsed \in Nat /\ Costs \subseteq Nat /\ Works \subseteq Nat
  BY Constants DEF FcycInv, TypeOK, ClockInv
<1>2. CASE start_counter
  BY <1>2 DEF start_counter, SampleShort, Costs
<1>3. CASE Measured
  <2>1. PICK w \in Works, m \in WorkTicks :
          elapsed' = elapsed + w + m * TickCost /\ pc = "f" /\ pc' = "stop"
    BY <1>3 DEF Measured
  <2>2. elapsed \in Costs /\ 0 \in Costs
    BY <1>1, <2>1 DEF SampleShort, Costs
  <2>3. elapsed' = w + (m * TickCost) + elapsed + 0
    <3>1. m * TickCost \in Int /\ w \in Int
      BY Constants
    <3>2. QED
      BY <1>1, <2>1, <3>1
  <2>4. QED
    BY <2>1, <2>2, <2>3 DEF SampleShort
<1>4. CASE Tick \/ Other
  <2>1. PICK c \in Costs : Interrupt(c)
    BY <1>4 DEF Tick, Other, Costs
  <2>2. /\ calm /\ calm' = FALSE /\ pc' = pc /\ set' = set
        /\ pc \in {"f", "stop"} => elapsed' = elapsed + c
    BY <2>1 DEF Interrupt, Timed
  <2>3. CASE pc = "f"
    <3>1. elapsed' = c
      BY <1>1, <2>2, <2>3 DEF SampleShort
    <3>2. QED
      BY <2>2, <2>3, <3>1 DEF SampleShort
  <2>4. CASE pc = "stop"
    <3>1. PICK w \in Works, m \in WorkTicks, b \in Costs, d \in Costs :
            elapsed = w + (m * TickCost) + b + d /\ d = 0
      BY <1>1, <2>2, <2>4 DEF SampleShort
    <3>2. m * TickCost \in Int
      BY Constants
    <3>3. elapsed' = w + (m * TickCost) + b + c
      BY <1>1, <2>2, <2>4, <3>1, <3>2
    <3>4. QED
      BY <2>2, <2>4, <3>3 DEF SampleShort
  <2>5. QED
    BY <1>1, <2>2, <2>3, <2>4 DEF SampleShort
<1>5. CASE get_counter
  BY <1>5 DEF get_counter, SampleShort
<1>6. CASE Sample
  BY <1>6 DEF Sample, SampleShort, FirstOfSample
<1>7. CASE UNCHANGED vars
  BY <1>1, <1>7 DEF vars, SampleShort
<1>8. QED
  BY <1>1, <1>2, <1>3, <1>4, <1>5, <1>6, <1>7
     DEF Next, SetParameters, Program, Call, StartComp, callibrate, FirstTimes, FirstReading,
         Spin, SecondTimes, StartTicks, get_comp_counter, Return, SampleShort,
         FirstOfSample

LEMMA PaidStep == FcycInv /\ [Next]_vars => TickPaid'
<1> SUFFICES ASSUME FcycInv, [Next]_vars PROVE TickPaid'
  OBVIOUS
<1> USE DEF machine, Goto
<1>1. /\ TickPaid /\ elapsed \in Nat /\ spent \in Nat /\ ticks \in Nat /\ TickCost \in Nat
      /\ OtherCosts \subseteq Nat /\ Works \subseteq Nat
  BY Constants DEF FcycInv, TypeOK, ClockInv
<1>2. CASE start_counter
  <2>1. ticks' \in Nat /\ elapsed' = 0 /\ spent' = 0
    BY <1>1, <1>2 DEF start_counter
  <2>2. 0 <= ticks' /\ elapsed' = spent' + 0 * TickCost
    BY <1>1, <2>1
  <2>3. QED
    BY <2>2 DEF TickPaid
\* The function or another interruption: both counts grow by the same.
<1>3. ASSUME NEW w \in Nat, elapsed' = elapsed + w, spent' = spent + w, ticks' = ticks,
             pc \in {"f", "stop"}
      PROVE  TickPaid'
  <2>1. PICK n \in Nat : n <= ticks /\ elapsed = spent + n * TickCost
    BY <1>1, <1>3 DEF TickPaid
  <2>2. n * TickCost \in Int
    BY <1>1
  <2>3. n <= ticks' /\ elapsed' = spent' + n * TickCost
    BY <1>1, <1>3, <2>1, <2>2
  <2>4. QED
    BY <2>3 DEF TickPaid
<1>4. CASE Measured
  <2>1. PICK w \in Works, m \in WorkTicks :
          /\ elapsed' = elapsed + w + m * TickCost /\ spent' = spent + w /\ ticks' = ticks + m
          /\ pc = "f"
    BY <1>4 DEF Measured
  <2>2. PICK n \in Nat : n <= ticks /\ elapsed = spent + n * TickCost
    BY <1>1, <2>1 DEF TickPaid
  <2>3. w \in Nat /\ m \in Nat
    BY Constants
  <2>4. /\ (n + m) * TickCost = n * TickCost + m * TickCost
        /\ n * TickCost \in Int /\ m * TickCost \in Int
    BY <1>1, <2>3
  <2>5. n + m \in Nat /\ n + m <= ticks' /\ elapsed' = spent' + (n + m) * TickCost
    BY <1>1, <2>1, <2>2, <2>3, <2>4
  <2>6. QED
    BY <2>5 DEF TickPaid
<1>5. ASSUME UNCHANGED <<elapsed, spent>>, ticks' \in Nat, ticks <= ticks', pc \in {"f", "stop", "ticks"}
      PROVE  TickPaid'
  <2>1. PICK n \in Nat : n <= ticks /\ elapsed = spent + n * TickCost
    BY <1>1, <1>5 DEF TickPaid
  <2>2. n <= ticks'
    BY <1>1, <1>5, <2>1
  <2>3. QED
    BY <1>5, <2>1, <2>2 DEF TickPaid
<1>6. CASE Tick
  <2>1. pc' = pc /\ ticks' = ticks + 1 /\ spent' = spent
    BY <1>6 DEF Tick, Interrupt
  <2>2. CASE pc \in {"f", "stop"}
    <3>1. elapsed' = elapsed + TickCost
      BY <1>6, <2>2 DEF Tick, Interrupt, Timed
    <3>2. PICK n \in Nat : n <= ticks /\ elapsed = spent + n * TickCost
      BY <1>1, <2>2 DEF TickPaid
    <3>3. (n + 1) * TickCost = n * TickCost + TickCost /\ n * TickCost \in Int
      BY <1>1
    <3>4. n + 1 \in Nat /\ n + 1 <= ticks' /\ elapsed' = spent' + (n + 1) * TickCost
      BY <1>1, <2>1, <3>1, <3>2, <3>3
    <3>5. QED
      BY <3>4 DEF TickPaid
  <2>3. CASE pc = "ticks"
    BY <1>1, <1>5, <1>6, <2>1, <2>3 DEF Tick, Interrupt, Timed, Spinning
  <2>4. QED
    BY <2>1, <2>2, <2>3 DEF TickPaid
<1>7. CASE Other
  <2>1. PICK c \in OtherCosts : Interrupt(c) /\ ticks' = ticks /\ spent' = IF Timed THEN spent + c ELSE spent
    BY <1>7 DEF Other
  <2>2. CASE pc \in {"f", "stop"}
    BY <1>1, <1>3, <2>1, <2>2 DEF Interrupt, Timed
  <2>3. CASE pc = "ticks"
    BY <1>1, <1>5, <2>1, <2>3 DEF Interrupt, Timed, Spinning
  <2>4. pc' = pc
    BY <2>1 DEF Interrupt
  <2>5. QED
    BY <2>2, <2>3, <2>4 DEF TickPaid
<1>8. CASE get_counter
  BY <1>1, <1>5, <1>8 DEF get_counter
<1>9. CASE Sample
  BY <1>9 DEF Sample, TickPaid, FirstOfSample
<1>10. CASE UNCHANGED vars
  BY <1>1, <1>10 DEF vars, TickPaid
<1>11. QED
  BY <1>1, <1>2, <1>4, <1>6, <1>7, <1>8, <1>9, <1>10
     DEF Next, SetParameters, Program, Call, StartComp, callibrate, FirstTimes, FirstReading,
         Spin, SecondTimes, StartTicks, get_comp_counter, Return, TickPaid,
         FirstOfSample

\* A quotient above RECORDTHRESH has the whole cost of a tick in it.
LEMMA QuotientHasTick ==
  ASSUME NEW t \in Nat \ {0},
         time \in 0 .. RECORDTHRESH \/ time \in TickCost .. 2 * RECORDTHRESH,
         time \div t > RECORDTHRESH
  PROVE  time \div t >= TickCost
<1> DEFINE q == time \div t
<1>1. RECORDTHRESH \in Nat \ {0} /\ TickCost \in Nat
  BY Constants
<1>2. time \in Nat
  BY <1>1
<1>3. q \in Nat /\ q * t <= time /\ q > RECORDTHRESH
  BY <1>2, Quotient
<1>4. t = 1 => q = time
  BY <1>2
<1> HIDE DEF q
<1>5. t < 2
  <2>1. SUFFICES ASSUME t >= 2 PROVE FALSE
    OBVIOUS
  <2>2. q * 2 <= q * t
    BY <1>3, <2>1, MulMono
  <2>3. QED
    BY <1>1, <1>2, <1>3, <2>2
<1>6. QED
  BY <1>1, <1>3, <1>4, <1>5 DEF q

LEMMA GapIntStep == FcycInv /\ [Next]_vars => GapInt'
<1> SUFFICES ASSUME FcycInv, [Next]_vars PROVE GapInt'
  OBVIOUS
<1> USE DEF machine, Goto
<1>1. GapInt /\ elapsed \in Nat /\ LoopCost \in Nat
  BY Constants DEF FcycInv, ClockInv, TypeOK
<1>2. CASE Spin
  BY <1>1, <1>2 DEF Spin, GapInt
<1>3. CASE Sample
  BY <1>3 DEF Sample, GapInt, FirstOfSample
<1>4. CASE Tick \/ Other
  BY <1>1, <1>4 DEF Tick, Other, Interrupt, GapInt
<1>5. CASE UNCHANGED vars
  BY <1>1, <1>5 DEF vars, GapInt
<1>6. CASE SetParameters
  BY <1>1, <1>6 DEF SetParameters, GapInt
<1>7. QED
  BY <1>1, <1>2, <1>3, <1>4, <1>5, <1>6
     DEF Next, Program, Call, StartComp, callibrate, FirstTimes, FirstReading, SecondTimes,
         StartTicks, start_counter, Measured, get_counter, get_comp_counter, Return, GapInt,
         FirstOfSample

LEMMA GapStep == TicksStandOut /\ FcycInv /\ Gap /\ [Next]_vars => Gap'
<1> SUFFICES ASSUME TicksStandOut, FcycInv, Gap, [Next]_vars PROVE Gap'
  OBVIOUS
<1> USE DEF machine, Goto
<1>1. Gap /\ elapsed \in Nat /\ ticks \in Nat /\ cyc_per_tick \in Nat
  BY DEF FcycInv, TypeOK, ClockInv
<1>2. /\ TickCost \in Nat /\ LoopCost \in Nat \ {0} /\ THRESHOLD \in Nat \ {0} /\ RECORDTHRESH \in Nat
      /\ OtherCosts \subseteq Nat /\ Costs \subseteq Nat
  BY Constants
<1>3. /\ \A c \in OtherCosts : c + THRESHOLD + LoopCost <= RECORDTHRESH
      /\ THRESHOLD + LoopCost <= RECORDTHRESH
      /\ RECORDTHRESH < TickCost
      /\ TickCost + THRESHOLD + LoopCost <= 2 * RECORDTHRESH
  BY DEF TicksStandOut
<1>4. CASE FirstReading
  BY <1>1, <1>2, <1>4 DEF FirstReading, Gap
<1>5. CASE Spin
  <2> DEFINE gap == elapsed + LoopCost
  <2>1. cyc_per_tick' = cyc_per_tick /\ calm' = TRUE
    BY <1>5 DEF Spin
  <2>2. CASE gap >= THRESHOLD
    <3>1. pc' = "newc" /\ time' = gap /\ elapsed' = 0
      BY <1>5, <2>2 DEF Spin
    <3>2. \/ elapsed < THRESHOLD
          \/ \E c \in OtherCosts : elapsed < THRESHOLD + c
          \/ elapsed \in TickCost .. TickCost + THRESHOLD - 1
      BY <1>1, <1>5 DEF Spin, Gap
    <3>3. gap \in 0 .. RECORDTHRESH \/ gap \in TickCost .. 2 * RECORDTHRESH
      BY <1>1, <1>2, <1>3, <3>2
    <3>4. QED
      BY <1>1, <2>1, <3>1, <3>3 DEF Gap
  <2>3. CASE ~ (gap >= THRESHOLD)
    <3>1. pc' = "newt" /\ elapsed' = gap
      BY <1>5, <2>3 DEF Spin
    <3>2. gap < THRESHOLD
      BY <1>1, <1>2, <2>3
    <3>3. QED
      BY <1>1, <2>1, <3>1, <3>2 DEF Gap
  <2>4. QED
    BY <2>2, <2>3
<1>6. CASE SecondTimes
  <2>1. /\ pc = "newc" /\ pc' \in {"newt", "times"} /\ UNCHANGED <<elapsed, calm>>
        /\ cyc_per_tick' = IF ticks > 0 THEN Recorded(time \div ticks) ELSE cyc_per_tick
    BY <1>6 DEF SecondTimes
  <2>2. cyc_per_tick' = 0 \/ cyc_per_tick' >= TickCost
    <3>1. ticks > 0 /\ time \div ticks > RECORDTHRESH => time \div ticks >= TickCost
      BY <1>1, <2>1, QuotientHasTick DEF Gap
    <3>2. QED
      BY <1>1, <2>1, <3>1 DEF Gap, Recorded
  <2>3. \/ elapsed < THRESHOLD
        \/ ~ calm /\ \E c \in OtherCosts : elapsed < THRESHOLD + c
        \/ ~ calm /\ elapsed \in TickCost .. TickCost + THRESHOLD - 1
    <3>1. IF calm THEN elapsed = 0 ELSE elapsed \in Costs
      BY <1>1, <2>1 DEF Gap
    <3>2. elapsed = 0 => elapsed < THRESHOLD
      BY <1>2
    <3>3. \A c \in OtherCosts : elapsed = c => elapsed < THRESHOLD + c
      BY <1>2
    <3>4. elapsed = TickCost => elapsed \in TickCost .. TickCost + THRESHOLD - 1
      BY <1>2
    <3>5. QED
      BY <3>1, <3>2, <3>3, <3>4 DEF Costs
  <2>4. QED
    BY <2>1, <2>2, <2>3 DEF Gap
<1>7. CASE Tick \/ Other
  <2>1. PICK c \in OtherCosts \cup {TickCost} : Interrupt(c)
    BY <1>7 DEF Tick, Other
  <2>2. /\ calm /\ calm' = FALSE /\ UNCHANGED <<pc, time, cyc_per_tick>>
        /\ pc \in {"newt", "newc"} => elapsed' = elapsed + c
    BY <2>1 DEF Interrupt, Spinning
  <2>3. CASE pc = "newt"
    <3>1. elapsed < THRESHOLD /\ elapsed' = elapsed + c
      BY <1>1, <2>2, <2>3 DEF Gap
    <3>2. c \in OtherCosts => elapsed' < THRESHOLD + c
      BY <1>1, <1>2, <3>1
    <3>3. c = TickCost => elapsed' \in TickCost .. TickCost + THRESHOLD - 1
      BY <1>1, <1>2, <3>1
    <3>4. QED
      BY <1>1, <2>2, <2>3, <3>2, <3>3 DEF Gap
  <2>4. CASE pc = "newc"
    <3>1. elapsed = 0 /\ elapsed' = elapsed + c /\ c \in Nat
      BY <1>1, <1>2, <2>2, <2>4 DEF Gap
    <3>2. elapsed' \in Costs
      BY <3>1 DEF Costs
    <3>3. QED
      BY <1>1, <2>2, <2>4, <3>2 DEF Gap
  <2>5. QED
    BY <1>1, <2>2, <2>3, <2>4 DEF Gap
<1>8. CASE Sample
  BY <1>1, <1>8 DEF Sample, Gap, FirstOfSample
<1>9. CASE UNCHANGED vars
  BY <1>1, <1>9 DEF vars, Gap
<1>10. CASE get_counter
  BY <1>1, <1>10 DEF get_counter, Gap
<1>11. CASE SetParameters
  <2>1. UNCHANGED <<pc, elapsed, calm, time, cyc_per_tick>>
    BY <1>11 DEF SetParameters
  <2>2. QED
    BY <1>1, <2>1 DEF Gap
<1>12. QED
  BY <1>1, <1>4, <1>5, <1>6, <1>7, <1>8, <1>9, <1>10, <1>11
     DEF Next, Program, Call, StartComp, callibrate, FirstTimes,
         StartTicks, start_counter, Measured, get_comp_counter, Return, Gap,
         FirstOfSample

\* get_counter reads what has passed: a sample is shorter than a turn.
LEMMA ReadsElapsed ==
  ASSUME FcycInv, get_counter
  PROVE  time' = elapsed
<1>1. /\ pc = "stop" /\ cyc_hi \in 0 .. Base - 1 /\ cyc_lo \in 0 .. Base - 1 /\ elapsed \in Nat
  BY DEF get_counter, Goto, FcycInv, TypeOK
<1>2. PICK w \in Works, m \in WorkTicks, c \in Costs, d \in Costs :
        elapsed = w + (m * TickCost) + c + d
  BY <1>1 DEF FcycInv, ClockInv, SampleShort
<1>3. /\ w \in Nat /\ c \in Nat /\ d \in Nat /\ TickCost \in Nat /\ Base * Base \in Nat
      /\ OtherCosts \subseteq Nat /\ m * TickCost \in Nat
  BY Constants
<1>4. PICK c1 \in OtherCosts \cup {TickCost} : c <= c1
  BY <1>3 DEF Costs
<1>5. PICK d1 \in OtherCosts \cup {TickCost} : d <= d1
  BY <1>3 DEF Costs
<1>6. w + m * TickCost + c1 + d1 < Base * Base
  BY RangeAssumption
<1>7. c1 \in Nat /\ d1 \in Nat
  BY <1>3
<1>8. elapsed \in 0 .. Base * Base - 1
  BY <1>1, <1>2, <1>3, <1>4, <1>5, <1>6, <1>7
<1> DEFINE now == (cyc_hi * Base + cyc_lo + elapsed) % (Base * Base)
<1>9. time' = Difference(now \div Base, now % Base)
  BY DEF get_counter
<1> HIDE DEF now
<1>10. now = (cyc_hi * Base + cyc_lo + elapsed) % (Base * Base)
  BY DEF now
<1>11. Difference(now \div Base, now % Base) = elapsed
  BY <1>1, <1>8, <1>10, DoublePrecision
<1>12. QED
  BY <1>9, <1>11

LEMMA CountsStep == FcycInv /\ [Next]_vars => CountsCycles'
<1> SUFFICES ASSUME FcycInv, [Next]_vars PROVE CountsCycles'
  OBVIOUS
<1> USE DEF machine, Goto
<1>1. CountsCycles /\ SampleShort
  BY DEF FcycInv, ClockInv
<1>2. CASE get_counter
  <2>1. time' = elapsed /\ elapsed' = elapsed
    BY <1>2, ReadsElapsed DEF get_counter
  <2>2. QED
    BY <2>1 DEF CountsCycles
<1>3. CASE get_comp_counter
  BY <1>1, <1>3 DEF get_comp_counter, CountsCycles, SampleShort
<1>4. CASE Tick \/ Other
  <2>1. PICK c : Interrupt(c)
    BY <1>4 DEF Tick, Other
  <2>2. UNCHANGED <<pc, set, time>> /\ (pc \in {"ticks", "add"} => elapsed' = elapsed)
    BY <2>1 DEF Interrupt, Timed, Spinning
  <2>3. QED
    BY <1>1, <2>2 DEF CountsCycles
<1>5. CASE Sample
  BY <1>5 DEF Sample, CountsCycles, FirstOfSample
<1>6. CASE UNCHANGED vars
  BY <1>1, <1>6 DEF vars, CountsCycles
<1>7. QED
  BY <1>2, <1>3, <1>4, <1>5, <1>6
     DEF Next, SetParameters, Program, Call, StartComp, callibrate, FirstTimes, FirstReading,
         Spin, SecondTimes, StartTicks, start_counter, Measured, Return, CountsCycles,
         FirstOfSample

LEMMA DeductsStep == FcycInv /\ Gap /\ TicksAreDeducted /\ [Next]_vars => TicksAreDeducted'
<1> SUFFICES ASSUME FcycInv, Gap, TicksAreDeducted, [Next]_vars PROVE TicksAreDeducted'
  OBVIOUS
<1> USE DEF machine, Goto
<1>1. /\ TicksAreDeducted /\ TickPaid /\ CountsCycles /\ Gap
      /\ spent \in Nat /\ ticks \in Nat /\ cyc_per_tick \in Nat /\ TickCost \in Nat
  BY Constants DEF FcycInv, ClockInv, TypeOK
<1>2. CASE get_comp_counter
  <2>1. /\ pc = "ticks" /\ time' = time - ticks * cyc_per_tick
        /\ UNCHANGED <<spent, cyc_per_tick>>
    BY <1>2 DEF get_comp_counter
  <2>2. PICK n \in Nat : n <= ticks /\ elapsed = spent + n * TickCost
    BY <1>1, <2>1 DEF TickPaid
  <2>3. time = spent + n * TickCost
    BY <1>1, <2>1, <2>2 DEF CountsCycles
  <2>4. cyc_per_tick > 0 => n * TickCost <= ticks * cyc_per_tick
    BY <1>1, <2>2, MulMono2 DEF Gap
  <2>5. n * TickCost \in Int /\ ticks * cyc_per_tick \in Int
    BY <1>1
  <2>6. cyc_per_tick > 0 => time' <= spent'
    BY <1>1, <2>1, <2>3, <2>4, <2>5
  <2>7. QED
    BY <2>1, <2>6 DEF TicksAreDeducted
<1>3. CASE get_counter
  <2>1. pc' = "add" => ~ set'.compensate
    BY <1>3 DEF get_counter
  <2>2. QED
    BY <2>1 DEF TicksAreDeducted
<1>4. CASE Tick \/ Other
  <2>1. PICK c : Interrupt(c)
    BY <1>4 DEF Tick, Other
  <2>2. UNCHANGED <<pc, set, time, cyc_per_tick>>
    BY <2>1 DEF Interrupt
  <2>3. pc = "add" => spent' = spent
    BY <1>4 DEF Tick, Other, Timed
  <2>4. QED
    BY <1>1, <2>2, <2>3 DEF TicksAreDeducted
<1>5. CASE Sample
  BY <1>5 DEF Sample, TicksAreDeducted, FirstOfSample
<1>6. CASE UNCHANGED vars
  BY <1>1, <1>6 DEF vars, TicksAreDeducted
<1>7. QED
  BY <1>2, <1>3, <1>4, <1>5, <1>6
     DEF Next, SetParameters, Program, Call, StartComp, callibrate, FirstTimes, FirstReading,
         Spin, SecondTimes, StartTicks, start_counter, Measured, Return, TicksAreDeducted,
         FirstOfSample

\* The invariant holds whatever the settings, the costs and the interruptions.
LEMMA FcycInvariant == Spec => []FcycInv
<1>1. FcycInv /\ [Next]_vars => FcycInv'
  BY TypeStep, SamplerStep, ShortStep, PaidStep, GapIntStep, CountsStep
     DEF FcycInv, ClockInv
<1>2. QED
  BY <1>1, InitFcyc, PTL DEF Spec

\* The sampler, the counter and the calibration keep their types.
THEOREM FcycTypeCorrect == Spec => []TypeOK
<1>1. FcycInv => TypeOK
  BY DEF FcycInv
<1>2. QED
  BY <1>1, FcycInvariant, PTL

\* values[] is always the K smallest samples in order: the insertion of
\* add_sample moves a sample past exactly the larger ones.
THEOREM ValuesAreBest == Spec => []KBest
<1>1. FcycInv => KBest
  BY DEF FcycInv, SamplerInv, KBest, Ranked, Lower, Upper, Below, UpTo
<1>2. QED
  BY <1>1, FcycInvariant, PTL

\* fcyc stops before maxsamples only when the K smallest samples agree.
THEOREM StopsOnAgreement == Spec => []StopsWhenBestAgree
<1>1. ASSUME FcycInv, pc = "return", samplecount < set.max
      PROVE  \E v \in {samples[i] : i \in 1 .. Len(samples)} :
               /\ Below(v) = 0
               /\ Cardinality({i \in 1 .. Len(samples) :
                                 EpsDen * samples[i] <= (EpsDen + EpsNum) * v}) >= set.k
  <2> DEFINE k == set.k
  <2>1. /\ k \in Nat \ {0} /\ samplecount \in Nat /\ set.max \in Nat
        /\ values \in Seq(Int) /\ samples \in Seq(Int)
        /\ EpsDen \in Nat /\ EpsNum \in Nat
    BY <1>1, Constants DEF FcycInv, TypeOK
  <2>2. samplecount >= k /\ (EpsDen + EpsNum) * values[1] >= EpsDen * values[k]
    BY <1>1, <2>1 DEF FcycInv, SamplerInv, has_converged
  <2>3. Len(values) = k /\ Ranked(samples, values)
    BY <1>1, <2>1, <2>2 DEF FcycInv, SamplerInv
  <2> HIDE DEF k
  <2>4. 1 \in 1 .. Len(values) /\ k \in 1 .. Len(values)
    BY <2>1, <2>3
  <2>5. PICK v \in Int : v = values[1]
    BY <2>1, <2>4, ElementOfSeq
  <2>6. PICK u \in Int : u = values[k]
    BY <2>1, <2>4, ElementOfSeq
  <2>7. Lower(samples, v) < 1 /\ 1 <= Upper(samples, v) /\ k <= Upper(samples, u)
    BY <2>3, <2>4, <2>5, <2>6 DEF Ranked
  <2>8. Lower(samples, v) \in Nat /\ Upper(samples, v) \in Nat /\ Upper(samples, u) \in Nat
    BY <2>1, CountTypes
  <2>9. Below(v) = 0
    BY <2>7, <2>8 DEF Below, Lower
  <2>10. IsFiniteSet(1 .. Len(samples)) /\ \A i \in 1 .. Len(samples) : samples[i] \in Int
    <3>1. Len(samples) \in Nat /\ 1 \in Int
      BY <2>1, LenProperties
    <3>2. QED
      BY <2>1, <3>1, FS_Interval, ElementOfSeq
  \* The best value is a sample: some sample is up to it and none is below.
  <2>11. v \in {samples[i] : i \in 1 .. Len(samples)}
    <3> DEFINE U == {i \in 1 .. Len(samples) : samples[i] <= v}
               L == {i \in 1 .. Len(samples) : samples[i] < v}
    <3>1. IsFiniteSet(U) /\ IsFiniteSet(L)
      BY <2>10, FS_Subset
    <3>2. U # {}
      BY <2>7, <2>8, <3>1, FS_EmptySet DEF Upper
    <3>3. L = {}
      <4>1. Cardinality(L) = Lower(samples, v)
        BY DEF Lower
      <4>2. Cardinality(L) = 0
        BY <2>7, <2>8, <4>1
      <4> HIDE DEF L
      <4>3. QED
        BY <3>1, <4>2, FS_EmptySet
    <3>4. PICK i \in 1 .. Len(samples) : samples[i] <= v /\ ~ (samples[i] < v)
      BY <3>2, <3>3
    <3>5. samples[i] = v
      BY <2>10, <3>4
    <3>6. QED
      BY <3>5
  <2>12. Cardinality({i \in 1 .. Len(samples) :
                        EpsDen * samples[i] <= (EpsDen + EpsNum) * v}) >= k
    <3> DEFINE A == {i \in 1 .. Len(samples) : EpsDen * samples[i] <= (EpsDen + EpsNum) * v}
               U == {i \in 1 .. Len(samples) : samples[i] <= u}
    <3>1. ASSUME NEW i \in 1 .. Len(samples), samples[i] <= u
          PROVE  EpsDen * samples[i] <= (EpsDen + EpsNum) * v
      <4>1. PICK x \in Int : x = samples[i]
        BY <2>10
      <4>2. EpsDen * x <= EpsDen * u
        BY <2>1, <3>1, <4>1, MulMono
      <4>3. EpsDen * u <= (EpsDen + EpsNum) * v
        BY <2>2, <2>5, <2>6
      <4>4. EpsDen * x \in Int /\ EpsDen * u \in Int /\ (EpsDen + EpsNum) * v \in Int
        BY <2>1
      <4>5. EpsDen * x <= (EpsDen + EpsNum) * v
        BY <4>2, <4>3, <4>4
      <4>6. QED
        BY <4>1, <4>5
    <3>2. U \subseteq A /\ A \subseteq 1 .. Len(samples)
      BY <3>1
    <3>3. IsFiniteSet(A)
      BY <2>10, <3>2, FS_Subset
    <3> HIDE DEF A
    <3>4. Cardinality(U) <= Cardinality(A) /\ Cardinality(A) \in Nat
      BY <3>2, <3>3, FS_Subset, FS_CardinalityType
    <3>5. Cardinality(U) = Upper(samples, u)
      BY DEF Upper
    <3> HIDE DEF U
    <3>6. Cardinality(A) >= k
      BY <2>1, <2>7, <2>8, <3>4, <3>5
    <3>7. QED
      BY <3>6 DEF A
  <2>13. QED
    BY <2>9, <2>11, <2>12 DEF k
<1>2. FcycInv => StopsWhenBestAgree
  BY <1>1 DEF StopsWhenBestAgree
<1>3. QED
  BY <1>2, FcycInvariant, PTL

\* The difference of the two words with the borrow is the cycles that passed,
\* also when the low word or the whole counter has wrapped around.
THEOREM CounterIsExact == Spec => []CountsCycles
<1>1. FcycInv => CountsCycles
  BY DEF FcycInv, ClockInv
<1>2. QED
  BY <1>1, FcycInvariant, PTL

\* On a machine where ticks stand out (only a tick is longer than RECORDTHRESH, none
\* is twice as long, and two never fall between two readings of callibrate), a sample
\* that is compensated after a tick has been recorded charges no timer interrupt to
\* the function, however many fell into it and wherever they fall between the readings
\* of the counter and of times() (get_comp_counter, clock.c:263-279).
THEOREM CompensationDeductsTicks == ASSUME TicksStandOut PROVE Spec => []TicksAreDeducted
<1>1. Init => Gap /\ TicksAreDeducted
  BY DEF Init, Gap, TicksAreDeducted
<1>2. FcycInv /\ (Gap /\ TicksAreDeducted) /\ [Next]_vars => (Gap /\ TicksAreDeducted)'
  BY GapStep, DeductsStep
<1>3. QED
  BY <1>1, <1>2, FcycInvariant, PTL DEF Spec
=============================================================================

--------------------------- MODULE MDriver_proofs ---------------------------
(***************************************************************************)
(* Theorems about MDriver, the check of a trace, and Passes, the replays   *)
(* after it, for any heap, page and list sizes, block indices and requests *)
(* with room for two list pointers (RoomForLinks).                         *)
(*                                                                         *)
(* The argument is about the shape of a heap: the blocks B between the     *)
(* prologue and the epilogue, their sizes S, the allocated ones A, and     *)
(* holes H, blocks an operation is working on, whose tags are right and    *)
(* whose contents are not known.  A lemma per helper of mm.c says from     *)
(* which shape to which it leads, and that it writes over no block of A;   *)
(* mm_malloc, mm_free and mm_realloc then lead from shapes without holes   *)
(* to shapes without holes.  The driver's invariant is that the heap has a *)
(* shape whose allocated blocks are the live ones of the trace, filled.    *)
(* The passes start from any memory, and keep the shape without the        *)
(* contents.                                                               *)
(***************************************************************************)
EXTENDS Passes, FiniteSetTheorems, SequenceTheorems, WellFoundedInduction, TLAPS

\* The heaps of memlib.c with the alternation of place.
Heap == [mem : [Word -> Int], brk : Int, cnt : {0, 1}]

LEMMA Consts ==
  /\ HeapLo \in Nat /\ HeapLo > 0 /\ PageWords \in Nat /\ PageWords > 0
  /\ segregated_list_num \in Nat /\ segregated_list_num > 0
  /\ MAX_HEAP \in Nat /\ SmallLog \in Nat
  BY MMAssumption

\* What PUT does to a heap.
Wrote(g, h, a, v) ==
    /\ g \in Heap /\ g.brk = h.brk /\ g.cnt = h.cnt
    /\ g.mem[a] = v /\ \A b \in Word \ {a} : g.mem[b] = h.mem[b]

LEMMA PutHeap ==
  ASSUME NEW h \in Heap, NEW a \in Word, NEW v \in Int
  PROVE  Wrote(PUT(h, a, v), h, a, v)
  BY DEF Heap, PUT, Wrote
-----------------------------------------------------------------------------
(* the free lists                                                          *)

\* F is the set of free blocks in the lists, c the list of a block, pos its
\* place in the list.
Chains(F, c, pr, nx, hd, pos) ==
    /\ \A p \in F :
          /\ pos[p] \in Nat \ {0}
          /\ pr[p] # NULL => /\ pr[p] \in F /\ c[pr[p]] = c[p]
                             /\ nx[pr[p]] = p /\ pos[p] = pos[pr[p]] + 1
          /\ pr[p] = NULL => hd[c[p]] = p /\ pos[p] = 1
          /\ nx[p] # NULL => nx[p] \in F /\ pr[nx[p]] = p
    /\ \A l \in Lists : hd[l] # NULL => hd[l] \in F /\ c[hd[l]] = l /\ pr[hd[l]] = NULL
    /\ \A p, q \in F : c[p] = c[q] /\ pos[p] = pos[q] => p = q

\* Doubly linked lists stay such without one of their blocks.
LEMMA ChainsUnlink ==
  ASSUME NEW F \in SUBSET Word, NEW c \in [Word -> Lists],
         NEW pr, NEW nx, NEW hd, NEW pos, Chains(F, c, pr, nx, hd, pos),
         NEW p \in F, NEW pr2, NEW nx2, NEW hd2, NEW pos2,
         \A q \in F : pr2[q] = IF q = nx[p] THEN pr[p] ELSE pr[q],
         \A q \in F : nx2[q] = IF q = pr[p] THEN nx[p] ELSE nx[q],
         \A l \in Lists : hd2[l] = IF l = c[p] /\ pr[p] = NULL THEN nx[p] ELSE hd[l],
         \A q \in F : pos2[q] = IF c[q] = c[p] /\ pos[q] > pos[p] THEN pos[q] - 1 ELSE pos[q]
  PROVE  Chains(F \ {p}, c, pr2, nx2, hd2, pos2)
<1> DEFINE G == F \ {p}
<1> USE DEF NULL
<1>0. NULL \notin F
  BY MMAssumption DEF Word
<1>1. \A q \in G : /\ pos2[q] \in Nat \ {0}
                   /\ pr2[q] # NULL => /\ pr2[q] \in G /\ c[pr2[q]] = c[q]
                                       /\ nx2[pr2[q]] = q /\ pos2[q] = pos2[pr2[q]] + 1
                   /\ pr2[q] = NULL => hd2[c[q]] = q /\ pos2[q] = 1
                   /\ nx2[q] # NULL => nx2[q] \in G /\ pr2[nx2[q]] = q
  <2>1. TAKE q \in G
  <2>a. pos[p] \in Nat \ {0} /\ pos[q] \in Nat \ {0} /\ c[q] \in Lists /\ c[p] \in Lists
    BY DEF Chains
  <2>2. pos2[q] \in Nat \ {0}
    BY <2>a
  <2>3. pr2[q] # NULL => /\ pr2[q] \in G /\ c[pr2[q]] = c[q]
                         /\ nx2[pr2[q]] = q /\ pos2[q] = pos2[pr2[q]] + 1
    <3>1. CASE q = nx[p]
      <4>1. pr2[q] = pr[p] /\ pr[q] = p /\ c[q] = c[p] /\ pos[q] = pos[p] + 1
        BY <3>1, <1>0 DEF Chains
      <4>2. ASSUME pr[p] # NULL
            PROVE  /\ pr[p] \in F /\ c[pr[p]] = c[p] /\ nx[pr[p]] = p
                   /\ pos[p] = pos[pr[p]] + 1 /\ pos[pr[p]] \in Nat
        BY <4>2 DEF Chains
      <4>3. QED
        BY <4>1, <4>2, <3>1, <2>a
    <3>2. CASE q # nx[p]
      <4>1. pr2[q] = pr[q]
        BY <3>2
      <4>2. ASSUME pr[q] # NULL
            PROVE  /\ pr[q] \in F /\ c[pr[q]] = c[q] /\ nx[pr[q]] = q
                   /\ pos[q] = pos[pr[q]] + 1 /\ pos[pr[q]] \in Nat
        BY <4>2 DEF Chains
      <4>3. ASSUME pr[q] # NULL PROVE pr[q] # p
        BY <4>2, <4>3, <3>2
      <4>4. ASSUME pr[q] # NULL PROVE pr[q] # pr[p]
        BY <4>2, <4>4 DEF Chains
      <4>5. ASSUME pr[q] # NULL, c[q] = c[p] PROVE pos[pr[q]] # pos[p]
        BY <4>2, <4>3, <4>5 DEF Chains
      <4>6. ASSUME pr[q] # NULL PROVE pos2[q] = pos2[pr[q]] + 1
        BY <4>2, <4>3, <4>5, <4>6, <2>a
      <4>7. QED
        BY <4>1, <4>2, <4>3, <4>4, <4>6
    <3>3. QED
      BY <3>1, <3>2
  <2>4. pr2[q] = NULL => hd2[c[q]] = q /\ pos2[q] = 1
    <3>1. CASE q = nx[p]
      <4>1. /\ pr2[q] = pr[p] /\ pr[q] = p /\ c[q] = c[p] /\ pos[q] = pos[p] + 1
            /\ pr[p] = NULL => pos[p] = 1
        BY <3>1, <1>0 DEF Chains
      <4>2. pr2[q] = NULL => hd2[c[q]] = nx[p]
        BY <4>1, <2>a
      <4>3. pr2[q] = NULL => pos2[q] = 1
        BY <4>1, <2>a
      <4>4. QED
        BY <4>2, <4>3, <3>1
    <3>2. CASE q # nx[p]
      <4>1. pr2[q] = pr[q]
        BY <3>2
      <4>2. ASSUME pr[q] = NULL PROVE hd[c[q]] = q /\ pos[q] = 1 /\ ~ (c[q] = c[p] /\ pr[p] = NULL)
        BY <4>2 DEF Chains
      <4>3. ASSUME pr[q] = NULL PROVE hd2[c[q]] = q
        BY <4>2, <4>3, <2>a
      <4>4. ASSUME pr[q] = NULL PROVE pos2[q] = 1
        BY <4>2, <4>4, <2>a
      <4>5. QED
        BY <4>1, <4>3, <4>4
    <3>3. QED
      BY <3>1, <3>2
  <2>5. nx2[q] # NULL => nx2[q] \in G /\ pr2[nx2[q]] = q
    <3>1. CASE q = pr[p]
      BY <3>1, <1>0 DEF Chains
    <3>2. CASE q # pr[p]
      BY <3>2, <1>0 DEF Chains
    <3>3. QED
      BY <3>1, <3>2
  <2>6. QED
    BY <2>2, <2>3, <2>4, <2>5
<1>2. \A l \in Lists : hd2[l] # NULL => hd2[l] \in G /\ c[hd2[l]] = l /\ pr2[hd2[l]] = NULL
  <2>1. TAKE l \in Lists
  <2>2. CASE l = c[p] /\ pr[p] = NULL
    BY <2>2, <1>0 DEF Chains
  <2>3. CASE ~ (l = c[p] /\ pr[p] = NULL)
    <3>1. hd2[l] = hd[l]
      BY <2>3
    <3>2. ASSUME hd[l] # NULL
          PROVE  hd[l] \in F /\ c[hd[l]] = l /\ pr[hd[l]] = NULL /\ hd[l] # p /\ hd[l] # nx[p]
      BY <3>2, <2>3, <1>0 DEF Chains
    <3>3. QED
      BY <3>1, <3>2
  <2>4. QED
    BY <2>2, <2>3
<1>3. \A q, r \in G : c[q] = c[r] /\ pos2[q] = pos2[r] => q = r
  <2>1. TAKE q, r \in G
  <2>2. /\ pos[p] \in Nat /\ pos[q] \in Nat /\ pos[r] \in Nat
        /\ c[q] = c[p] => pos[q] # pos[p]
        /\ c[r] = c[p] => pos[r] # pos[p]
        /\ c[q] = c[r] /\ pos[q] = pos[r] => q = r
    BY DEF Chains
  <2>3. QED
    BY <2>2
<1>4. QED
  BY <1>1, <1>2, <1>3 DEF Chains

\* Doubly linked lists stay such with a block put at the head of one.
LEMMA ChainsInsert ==
  ASSUME NEW F \in SUBSET Word, NEW c \in [Word -> Lists],
         NEW pr, NEW nx, NEW hd, NEW pos, Chains(F, c, pr, nx, hd, pos),
         NEW p \in Word \ F, NEW pr2, NEW nx2, NEW hd2, NEW pos2,
         \A q \in F : pr2[q] = IF q = hd[c[p]] THEN p ELSE pr[q], pr2[p] = NULL,
         \A q \in F : nx2[q] = nx[q], nx2[p] = hd[c[p]],
         \A l \in Lists : hd2[l] = IF l = c[p] THEN p ELSE hd[l],
         \A q \in F : pos2[q] = IF c[q] = c[p] THEN pos[q] + 1 ELSE pos[q], pos2[p] = 1
  PROVE  Chains(F \cup {p}, c, pr2, nx2, hd2, pos2)
<1> DEFINE G == F \cup {p}
<1> USE DEF NULL
<1>0. NULL \notin G /\ c[p] \in Lists
  BY MMAssumption DEF Word
<1>1. \A q \in G : /\ pos2[q] \in Nat \ {0}
                   /\ pr2[q] # NULL => /\ pr2[q] \in G /\ c[pr2[q]] = c[q]
                                       /\ nx2[pr2[q]] = q /\ pos2[q] = pos2[pr2[q]] + 1
                   /\ pr2[q] = NULL => hd2[c[q]] = q /\ pos2[q] = 1
                   /\ nx2[q] # NULL => nx2[q] \in G /\ pr2[nx2[q]] = q
  <2>1. TAKE q \in G
  <2>2. CASE q = p
    <3>1. hd[c[p]] # NULL => hd[c[p]] \in F
      BY <1>0 DEF Chains
    <3>2. QED
      BY <2>2, <3>1, <1>0
  <2>3. CASE q \in F /\ q = hd[c[p]]
    <3>1. c[q] = c[p] /\ pr[q] = NULL /\ pos[q] = 1
      BY <2>3, <1>0 DEF Chains
    <3>2. nx[q] # NULL => nx[q] \in F /\ pr[nx[q]] = q
      BY <2>3 DEF Chains
    <3>3. QED
      BY <2>3, <3>1, <3>2, <1>0
  <2>4. CASE q \in F /\ q # hd[c[p]]
    <3>1. pos[q] \in Nat \ {0} /\ c[q] \in Lists
      BY <2>4 DEF Chains
    <3>2. pr[q] # NULL => /\ pr[q] \in F /\ c[pr[q]] = c[q] /\ nx[pr[q]] = q
                          /\ pos[q] = pos[pr[q]] + 1
      BY <2>4 DEF Chains
    <3>3. pr[q] = NULL => hd[c[q]] = q /\ pos[q] = 1
      BY <2>4 DEF Chains
    <3>4. nx[q] # NULL => nx[q] \in F /\ pr[nx[q]] = q /\ nx[q] # hd[c[p]]
      BY <2>4, <1>0 DEF Chains
    <3>5. QED
      BY <2>4, <3>1, <3>2, <3>3, <3>4
  <2>5. QED
    BY <2>2, <2>3, <2>4
<1>2. \A l \in Lists : hd2[l] # NULL => hd2[l] \in G /\ c[hd2[l]] = l /\ pr2[hd2[l]] = NULL
  <2>1. TAKE l \in Lists
  <2>2. CASE l = c[p]
    BY <2>2
  <2>3. CASE l # c[p]
    <3>1. hd[l] # NULL => hd[l] \in F /\ c[hd[l]] = l /\ pr[hd[l]] = NULL
      BY DEF Chains
    <3>2. hd[c[p]] # NULL => c[hd[c[p]]] = c[p]
      BY <1>0 DEF Chains
    <3>3. QED
      BY <2>3, <3>1, <3>2
  <2>4. QED
    BY <2>2, <2>3
<1>3. \A q, r \in G : c[q] = c[r] /\ pos2[q] = pos2[r] => q = r
  <2>1. TAKE q, r \in G
  <2>2. /\ q \in F => pos[q] \in Nat \ {0}
        /\ r \in F => pos[r] \in Nat \ {0}
        /\ q \in F /\ r \in F /\ c[q] = c[r] /\ pos[q] = pos[r] => q = r
    BY DEF Chains
  <2>3. QED
    BY <2>2
<1>4. QED
  BY <1>1, <1>2, <1>3 DEF Chains

\* The list of each block.
ListOf(S) == [p \in Word |-> dispatch_size(S[p])]

\* The words that hold the lists F.
Ptrs(m, F, pr, nx, hd) ==
    /\ \A p \in F : m[p] = 2 * pr[p] /\ m[p + 1] = 2 * nx[p]
    /\ \A l \in Lists : m[HeapLo + l] = 2 * hd[l]

\* The memory m holds the lists of F.
LinkedAs(m, F, S) ==
    \E pr, nx, pos \in [Word -> Nat], hd \in [Lists -> Nat] :
       /\ Ptrs(m, F, pr, nx, hd) /\ Chains(F, ListOf(S), pr, nx, hd, pos)

\* The words that hold list heads and list pointers.
Linkage(a, F) == a - HeapLo \in Lists \/ a \in F \/ a - 1 \in F

\* Blocks with room for two pointers between their tags.
Spread(F) ==
    /\ \A q \in F : q \in Word /\ q + 1 \in Word /\ q > HeapLo + segregated_list_num
    /\ \A q, r \in F : q < r => q + 1 < r

\* g is h with the lists F instead.
Relinked(g, h, F, S) ==
    /\ g \in Heap /\ g.brk = h.brk /\ g.cnt = h.cnt
    /\ LinkedAs(g.mem, F, S)
    /\ \A a \in Word : ~ Linkage(a, F) => g.mem[a] = h.mem[a]

Pow(k) == 2 ^ k

LEMMA PowNat == ASSUME NEW k \in Nat PROVE Pow(k) \in Nat
<1>1. IsFiniteSet(1 .. k) /\ Cardinality(1 .. k) = k
  BY FS_Interval
<1>2. IsFiniteSet(SUBSET (1 .. k)) /\ Cardinality(SUBSET (1 .. k)) = 2 ^ Cardinality(1 .. k)
  BY <1>1, FS_SUBSET
<1>3. Cardinality(SUBSET (1 .. k)) \in Nat
  BY <1>2, FS_CardinalityType
<1>4. QED
  BY <1>1, <1>2, <1>3 DEF Pow

\* The lists whose smallest size is at most size; dispatch_size counts them.
Above(size) == {k \in 1 .. segregated_list_num - 1 : Pow(SmallLog + k) <= size}

LEMMA DispatchIs ==
  ASSUME NEW size PROVE dispatch_size(size) = Cardinality(Above(size))
  BY DEF dispatch_size, Above, Pow

LEMMA AboveFinite ==
  ASSUME NEW size
  PROVE  /\ IsFiniteSet(Above(size)) /\ Cardinality(Above(size)) \in Nat
         /\ Cardinality(Above(size)) <= segregated_list_num - 1
<1>1. Above(size) \subseteq 1 .. segregated_list_num - 1
  BY DEF Above
<1>2. /\ IsFiniteSet(1 .. segregated_list_num - 1)
      /\ Cardinality(1 .. segregated_list_num - 1) = segregated_list_num - 1
  <2>1. segregated_list_num - 1 \in Nat
    BY MMAssumption
  <2>2. QED
    BY <2>1, FS_Interval
<1>3. QED
  BY <1>1, <1>2, FS_Subset, FS_CardinalityType

LEMMA DispatchInLists ==
  ASSUME NEW size PROVE dispatch_size(size) \in Lists
  BY DispatchIs, AboveFinite, MMAssumption DEF Lists

\* The blocks of the lists below that of a request are smaller than it.
LEMMA DispatchMonotone ==
  ASSUME NEW s \in Nat, NEW t \in Nat, s <= t
  PROVE  dispatch_size(s) <= dispatch_size(t)
<1>1. Above(s) \subseteq Above(t)
  <2>1. SUFFICES ASSUME NEW k \in 1 .. segregated_list_num - 1, Pow(SmallLog + k) <= s
                 PROVE  Pow(SmallLog + k) <= t
    BY DEF Above
  <2>2. SmallLog + k \in Nat
    BY MMAssumption
  <2>3. Pow(SmallLog + k) \in Nat
    BY <2>2, PowNat
  <2>4. QED
    BY <2>1, <2>3
<1>2. QED
  BY <1>1, AboveFinite, DispatchIs, FS_Subset

LEMMA ListOfType == ASSUME NEW S PROVE ListOf(S) \in [Word -> Lists]
  BY DispatchInLists DEF ListOf

LEMMA HeadWord == ASSUME NEW l \in Lists, NEW F, Spread(F), F # {}
                  PROVE HeapLo + l \in Word
  BY MMAssumption DEF Lists, Spread, Word

\* The writes of remove_from_linked_list.
LEMMA UnlinkWrites ==
  ASSUME NEW h \in Heap, NEW p, NEW l \in Lists, l = dispatch_size(GET_SIZE(h, p)),
         NEW prev \in Nat, prev = PREV_FREE_BLK(h, p),
         NEW next \in Nat, next = NEXT_FREE_BLK(h, p),
         HeapLo + l \in Word, prev # NULL => prev + 1 \in Word, next # NULL => next \in Word,
         NEW g, g = Unlink(h, p)
  PROVE  /\ g \in Heap /\ g.brk = h.brk /\ g.cnt = h.cnt
         /\ \A b \in Word : g.mem[b] = IF b = (IF prev = NULL THEN HeapLo + l ELSE prev + 1)
                                       THEN 2 * next
                                       ELSE IF next # NULL /\ b = next THEN 2 * prev ELSE h.mem[b]
<1>1. PICK h1 : h1 = IF next = NULL THEN h ELSE SET_PREV_FREE_BLK(h, next, prev)
  OBVIOUS
<1>2. g = IF prev = NULL THEN SetListHead(h1, l, next) ELSE SET_NEXT_FREE_BLK(h1, prev, next)
  BY <1>1 DEF Unlink
<1>3. /\ h1 \in Heap /\ h1.brk = h.brk /\ h1.cnt = h.cnt
      /\ next # NULL => h1.mem[next] = 2 * prev
      /\ \A b \in Word : next = NULL \/ b # next => h1.mem[b] = h.mem[b]
  <2>1. CASE next = NULL
    BY <2>1, <1>1
  <2>2. CASE next # NULL
    <3>1. h1 = PUT(h, next, 2 * prev) /\ 2 * prev \in Int /\ next \in Word
      BY <2>2, <1>1 DEF SET_PREV_FREE_BLK
    <3>2. Wrote(h1, h, next, 2 * prev)
      BY <3>1, PutHeap
    <3>3. QED
      BY <2>2, <3>2 DEF Wrote
  <2>3. QED
    BY <2>1, <2>2
<1>4. PICK a \in Word : a = IF prev = NULL THEN HeapLo + l ELSE prev + 1
  OBVIOUS
<1>5. g = PUT(h1, a, 2 * next) /\ 2 * next \in Int
  BY <1>2, <1>4 DEF SetListHead, SET_NEXT_FREE_BLK
<1>6. Wrote(g, h1, a, 2 * next)
  BY <1>3, <1>5, PutHeap
<1>7. QED
  BY <1>3, <1>4, <1>6 DEF Wrote

\* remove_from_linked_list takes a block out of its list.
LEMMA UnlinkOK ==
  ASSUME NEW h \in Heap, NEW F, NEW S, Spread(F), LinkedAs(h.mem, F, S),
         NEW p \in F, GET_SIZE(h, p) = S[p], NEW g, g = Unlink(h, p)
  PROVE  Relinked(g, h, F \ {p}, S)
<1>1. PICK pr \in [Word -> Nat], nx \in [Word -> Nat], pos \in [Word -> Nat], hd \in [Lists -> Nat] :
          Ptrs(h.mem, F, pr, nx, hd) /\ Chains(F, ListOf(S), pr, nx, hd, pos)
  BY DEF LinkedAs
<1> DEFINE c == ListOf(S)
           prev == pr[p]
           next == nx[p]
           l == c[p]
           pr2 == [q \in Word |-> IF q = next THEN prev ELSE pr[q]]
           nx2 == [q \in Word |-> IF q = prev THEN next ELSE nx[q]]
           hd2 == [k \in Lists |-> IF k = l /\ prev = NULL THEN next ELSE hd[k]]
           pos2 == [q \in Word |-> IF c[q] = c[p] /\ pos[q] > pos[p] THEN pos[q] - 1 ELSE pos[q]]
<1>2. F \in SUBSET Word /\ c \in [Word -> Lists] /\ p \in Word /\ l \in Lists
  BY ListOfType DEF Spread
<1>3. l = dispatch_size(GET_SIZE(h, p))
  BY <1>2 DEF ListOf
<1>4. /\ prev \in Nat /\ next \in Nat
      /\ prev # NULL => prev \in F /\ prev # p /\ prev # next
      /\ next # NULL => next \in F /\ next # p
      /\ prev # NULL => prev \in Word /\ prev + 1 \in Word
      /\ next # NULL => next \in Word
  <2>1. prev \in Nat /\ next \in Nat
    BY <1>1, <1>2
  <2>2. prev # NULL => prev \in F /\ pos[p] = pos[prev] + 1 /\ nx[prev] = p
    BY <1>1 DEF Chains
  <2>3. next # NULL => next \in F /\ pr[next] = p
    BY <1>1 DEF Chains
  <2>4. NULL \notin F
    BY <1>2, MMAssumption DEF Word, NULL
  <2>5. pos[p] \in Nat /\ (next # NULL => pos[next] = pos[p] + 1)
    BY <1>1, <1>2, <2>3, <2>4 DEF Chains
  <2>6. prev # NULL => pos[prev] \in Nat
    BY <1>1, <2>2, <1>2
  <2>7. next # NULL => pos[next] \in Nat
    BY <1>1, <2>3, <1>2
  <2>8. next # p /\ prev # p
    BY <2>2, <2>3, <2>4, <2>5, <2>6, <2>7
  <2>9. prev # NULL => prev # next
    BY <2>2, <2>3, <2>4, <2>5, <2>6, <2>7
  <2>10. QED
    BY <2>1, <2>2, <2>3, <2>8, <2>9 DEF Spread
<1>5. PREV_FREE_BLK(h, p) = prev /\ NEXT_FREE_BLK(h, p) = next
  <2>1. h.mem[p] = 2 * prev /\ h.mem[p + 1] = 2 * next
    BY <1>1 DEF Ptrs
  <2>2. (2 * prev) \div 2 = prev /\ (2 * next) \div 2 = next
    BY <1>4
  <2>3. QED
    BY <2>1, <2>2 DEF PREV_FREE_BLK, NEXT_FREE_BLK, GET
<1>6. HeapLo + l \in Word
  BY <1>2, HeadWord
<1>7. /\ g \in Heap /\ g.brk = h.brk /\ g.cnt = h.cnt
      /\ \A b \in Word : g.mem[b] = IF b = (IF prev = NULL THEN HeapLo + l ELSE prev + 1)
                                    THEN 2 * next
                                    ELSE IF next # NULL /\ b = next THEN 2 * prev ELSE h.mem[b]
  <2> HIDE DEF l, prev, next
  <2>1. QED
    BY <1>2, <1>3, <1>4, <1>5, <1>6, UnlinkWrites
<1> HIDE DEF c, l, prev, next
<1>10. Chains(F \ {p}, c, pr2, nx2, hd2, pos2)
  <2>1. Chains(F, c, pr, nx, hd, pos)
    BY <1>1 DEF c
  <2>2. QED
    BY <1>2, <2>1, ChainsUnlink DEF c, l, prev, next
<1>11. Ptrs(g.mem, F \ {p}, pr2, nx2, hd2)
  <2>1. ASSUME NEW q \in F \ {p} PROVE g.mem[q] = 2 * pr2[q] /\ g.mem[q + 1] = 2 * nx2[q]
    <3>1. h.mem[q] = 2 * pr[q] /\ h.mem[q + 1] = 2 * nx[q] /\ q \in Word /\ q + 1 \in Word
      BY <1>1 DEF Ptrs, Spread
    <3>a. q \in Int /\ q > HeapLo + segregated_list_num /\ l \in Int /\ l < segregated_list_num
      BY <1>2, Consts DEF Spread, Lists, Word
    <3>2. q # HeapLo + l /\ q + 1 # HeapLo + l
      BY <3>a, Consts
    <3>3. prev # NULL => q # prev + 1 /\ (q + 1 = prev + 1 => q = prev)
      BY <1>4, <3>a DEF Spread
    <3>4. next # NULL => q + 1 # next
      <4>1. next # NULL => (q < next => q + 1 < next) /\ next \in Int
        BY <1>4 DEF Spread, Word
      <4>2. QED
        BY <4>1, <3>a
    <3>5. pr2[q] = IF q = next THEN prev ELSE pr[q]
      BY <3>1
    <3>6. nx2[q] = IF q = prev THEN next ELSE nx[q]
      BY <3>1
    <3>7. q # NULL
      BY <3>1, MMAssumption DEF Word, NULL
    <3>8. g.mem[q] = 2 * pr2[q]
      BY <3>1, <3>2, <3>3, <3>5, <3>7, <1>7
    <3>9. g.mem[q + 1] = 2 * nx2[q]
      BY <3>1, <3>2, <3>3, <3>4, <3>6, <3>7, <1>7
    <3>10. QED
      BY <3>8, <3>9
  <2>2. ASSUME NEW k \in Lists PROVE g.mem[HeapLo + k] = 2 * hd2[k]
    <3>1. h.mem[HeapLo + k] = 2 * hd[k] /\ HeapLo + k \in Word
      BY <1>1, HeadWord DEF Ptrs
    <3>2. prev # NULL => HeapLo + k # prev + 1
      BY <1>4, MMAssumption DEF Spread, Lists
    <3>3. next # NULL => HeapLo + k # next
      BY <1>4, MMAssumption DEF Spread, Lists
    <3>4. HeapLo + k = HeapLo + l <=> k = l
      BY <1>2, MMAssumption DEF Lists
    <3>5. hd2[k] = IF k = l /\ prev = NULL THEN next ELSE hd[k]
      OBVIOUS
    <3>6. QED
      BY <3>1, <3>2, <3>3, <3>4, <3>5, <1>7
  <2>3. QED
    BY <2>1, <2>2 DEF Ptrs
<1>12. /\ pr2 \in [Word -> Nat] /\ nx2 \in [Word -> Nat] /\ pos2 \in [Word -> Nat]
       /\ hd2 \in [Lists -> Nat]
  <2>1. \A q \in Word : pos[q] > pos[p] => pos[q] - 1 \in Nat
    BY <1>2
  <2>2. QED
    BY <1>4, <2>1
<1>13. LinkedAs(g.mem, F \ {p}, S)
  <2> HIDE DEF pr2, nx2, hd2, pos2
  <2> QED
    BY <1>10, <1>11, <1>12 DEF LinkedAs, c
<1>14. ASSUME NEW a \in Word, ~ Linkage(a, F \ {p}) PROVE g.mem[a] = h.mem[a]
  <2>1. a # HeapLo + l
    BY <1>2, <1>14, Consts DEF Linkage, Lists, Word
  <2>2. prev # NULL => a # prev + 1
    BY <1>4, <1>14 DEF Linkage
  <2>3. next # NULL => a # next
    BY <1>4, <1>14 DEF Linkage
  <2>4. QED
    BY <2>1, <2>2, <2>3, <1>7
<1>15. QED
  BY <1>7, <1>13, <1>14 DEF Relinked

\* The writes of insert_to_linked_list_head.
LEMMA InsertWrites ==
  ASSUME NEW h \in Heap, NEW p \in Word, p + 1 \in Word,
         NEW l \in Lists, l = dispatch_size(GET_SIZE(h, p)),
         NEW first \in Nat, first = ListHead(h, l), first # NULL => first \in Word,
         NEW a \in Word, a = HeapLo + l, a # p, a # p + 1, first # p, first # p + 1, first # a,
         NEW g, g = InsertHead(h, p)
  PROVE  /\ g \in Heap /\ g.brk = h.brk /\ g.cnt = h.cnt
         /\ g.mem[a] = 2 * p /\ g.mem[p] = 2 * NULL /\ g.mem[p + 1] = 2 * first
         /\ first # NULL => g.mem[first] = 2 * p
         /\ \A b \in Word \ {a, p, p + 1} : first = NULL \/ b # first => g.mem[b] = h.mem[b]
<1>1. PICK h1 : h1 = IF first = NULL THEN h ELSE SET_PREV_FREE_BLK(h, first, p)
  OBVIOUS
<1>2. PICK h2 : h2 = SET_NEXT_FREE_BLK(h1, p, first)
  OBVIOUS
<1>3. PICK h3 : h3 = SET_PREV_FREE_BLK(h2, p, NULL)
  OBVIOUS
<1>4. g = SetListHead(h3, l, p)
  BY <1>1, <1>2, <1>3 DEF InsertHead
<1>5. p \in Int /\ 2 * p \in Int /\ 2 * first \in Int /\ 2 * NULL \in Int /\ p # p + 1
  BY Consts DEF Word, NULL
<1>6. /\ h1 \in Heap /\ h1.brk = h.brk /\ h1.cnt = h.cnt
      /\ first # NULL => h1.mem[first] = 2 * p
      /\ \A b \in Word : first = NULL \/ b # first => h1.mem[b] = h.mem[b]
  <2>1. CASE first = NULL
    BY <2>1, <1>1
  <2>2. CASE first # NULL
    <3>1. h1 = PUT(h, first, 2 * p) /\ first \in Word
      BY <2>2, <1>1 DEF SET_PREV_FREE_BLK
    <3>2. Wrote(h1, h, first, 2 * p)
      BY <3>1, <1>5, PutHeap
    <3>3. QED
      BY <2>2, <3>2 DEF Wrote
  <2>3. QED
    BY <2>1, <2>2
<1>7. Wrote(h2, h1, p + 1, 2 * first)
  <2>1. h2 = PUT(h1, p + 1, 2 * first) /\ h1 \in Heap
    BY <1>2, <1>6 DEF SET_NEXT_FREE_BLK
  <2>2. QED
    BY <2>1, <1>5, PutHeap
<1>8. Wrote(h3, h2, p, 2 * NULL)
  <2>1. h3 = PUT(h2, p, 2 * NULL) /\ h2 \in Heap
    BY <1>3, <1>7 DEF SET_PREV_FREE_BLK, Wrote
  <2>2. QED
    BY <2>1, <1>5, PutHeap
<1>9. Wrote(g, h3, a, 2 * p)
  <2>1. g = PUT(h3, a, 2 * p) /\ h3 \in Heap
    BY <1>4, <1>8 DEF SetListHead, Wrote
  <2>2. QED
    BY <2>1, <1>5, PutHeap
<1>10. /\ h2 \in Heap /\ h2.brk = h.brk /\ h2.cnt = h.cnt
       /\ h2.mem[p + 1] = 2 * first
       /\ first # NULL => h2.mem[first] = 2 * p
       /\ \A b \in Word \ {p + 1} : first = NULL \/ b # first => h2.mem[b] = h.mem[b]
  BY <1>6, <1>7 DEF Wrote
<1>11. /\ h3 \in Heap /\ h3.brk = h.brk /\ h3.cnt = h.cnt
       /\ h3.mem[p + 1] = 2 * first /\ h3.mem[p] = 2 * NULL
       /\ first # NULL => h3.mem[first] = 2 * p
       /\ \A b \in Word \ {p, p + 1} : first = NULL \/ b # first => h3.mem[b] = h.mem[b]
  BY <1>5, <1>8, <1>10 DEF Wrote
<1>12. QED
  BY <1>9, <1>11 DEF Wrote

\* insert_to_linked_list_head puts a block first in the list of its size.
LEMMA InsertOK ==
  ASSUME NEW h \in Heap, NEW F, NEW S, NEW p, p \notin F, Spread(F \cup {p}),
         LinkedAs(h.mem, F, S), GET_SIZE(h, p) = S[p], NEW g, g = InsertHead(h, p)
  PROVE  Relinked(g, h, F \cup {p}, S)
<1>1. PICK pr \in [Word -> Nat], nx \in [Word -> Nat], pos \in [Word -> Nat], hd \in [Lists -> Nat] :
          Ptrs(h.mem, F, pr, nx, hd) /\ Chains(F, ListOf(S), pr, nx, hd, pos)
  BY DEF LinkedAs
<1> DEFINE c == ListOf(S)
           l == c[p]
           first == hd[l]
           pr2 == [q \in Word |-> IF q = p THEN NULL ELSE IF q = first THEN p ELSE pr[q]]
           nx2 == [q \in Word |-> IF q = p THEN first ELSE nx[q]]
           hd2 == [k \in Lists |-> IF k = l THEN p ELSE hd[k]]
           pos2 == [q \in Word |-> IF q = p THEN 1 ELSE IF c[q] = c[p] THEN pos[q] + 1 ELSE pos[q]]
<1>2. /\ F \in SUBSET Word /\ c \in [Word -> Lists] /\ p \in Word /\ l \in Lists
      /\ p + 1 \in Word /\ p \in Nat
  <2>1. F \in SUBSET Word /\ p \in Word /\ p + 1 \in Word
    BY DEF Spread
  <2>2. p \in Nat
    BY <2>1, Consts DEF Word
  <2>3. c \in [Word -> Lists]
    BY ListOfType
  <2>4. QED
    BY <2>1, <2>2, <2>3
<1>3. l = dispatch_size(GET_SIZE(h, p))
  BY <1>2 DEF ListOf
<1>4. first \in Nat /\ (first # NULL => first \in F /\ first \in Word)
  BY <1>1, <1>2 DEF Chains
<1>5. first = ListHead(h, l)
  <2>1. h.mem[HeapLo + l] = 2 * first
    BY <1>1, <1>2 DEF Ptrs
  <2>2. (2 * first) \div 2 = first
    BY <1>4
  <2>3. QED
    BY <2>1, <2>2 DEF ListHead, GET
<1>6. HeapLo + l \in Word
  BY <1>2, HeadWord
<1> HIDE DEF c, l, first
<1>a. p \in Int /\ p > HeapLo + segregated_list_num /\ l \in Int /\ l < segregated_list_num /\ l >= 0
  BY <1>2, Consts DEF Spread, Lists, Word
<1>7. /\ HeapLo + l # p /\ HeapLo + l # p + 1
      /\ first # p /\ first # p + 1 /\ first # HeapLo + l
  <2>1. HeapLo + l # p /\ HeapLo + l # p + 1
    BY <1>a, Consts
  <2>2. CASE first = NULL
    BY <1>a, <2>2, Consts DEF NULL
  <2>3. CASE first # NULL
    <3>1. /\ first \in F /\ first \in Int /\ first > HeapLo + segregated_list_num /\ first # p
          /\ p < first => p + 1 < first
      BY <1>4, <2>3 DEF Spread
    <3>2. QED
      BY <1>a, <3>1, Consts
  <2>4. QED
    BY <2>1, <2>2, <2>3
<1>8. /\ g \in Heap /\ g.brk = h.brk /\ g.cnt = h.cnt
      /\ g.mem[HeapLo + l] = 2 * p /\ g.mem[p] = 2 * NULL /\ g.mem[p + 1] = 2 * first
      /\ first # NULL => g.mem[first] = 2 * p
      /\ \A b \in Word \ {HeapLo + l, p, p + 1} : first = NULL \/ b # first => g.mem[b] = h.mem[b]
  <2>1. PICK a \in Word : a = HeapLo + l
    BY <1>6
  <2>2. a # p /\ a # p + 1 /\ first # a
    BY <2>1, <1>7
  <2>3. /\ g \in Heap /\ g.brk = h.brk /\ g.cnt = h.cnt
        /\ g.mem[a] = 2 * p /\ g.mem[p] = 2 * NULL /\ g.mem[p + 1] = 2 * first
        /\ first # NULL => g.mem[first] = 2 * p
        /\ \A b \in Word \ {a, p, p + 1} : first = NULL \/ b # first => g.mem[b] = h.mem[b]
    BY <1>2, <1>3, <1>4, <1>5, <1>7, <2>1, <2>2, InsertWrites
  <2>4. QED
    BY <2>1, <2>3
<1>9. Chains(F \cup {p}, c, pr2, nx2, hd2, pos2)
  <2>1. Chains(F, c, pr, nx, hd, pos)
    BY <1>1 DEF c
  <2>2. QED
    BY <1>2, <2>1, ChainsInsert DEF l, first
<1>10. Ptrs(g.mem, F \cup {p}, pr2, nx2, hd2)
  <2>1. ASSUME NEW q \in F PROVE g.mem[q] = 2 * pr2[q] /\ g.mem[q + 1] = 2 * nx2[q]
    <3>1. h.mem[q] = 2 * pr[q] /\ h.mem[q + 1] = 2 * nx[q] /\ q \in Word /\ q + 1 \in Word
      BY <1>1 DEF Ptrs, Spread
    <3>2. q \in Int /\ q > HeapLo + segregated_list_num /\ q # p
      BY Consts DEF Spread, Word
    <3>3. q # HeapLo + l /\ q + 1 # HeapLo + l
      BY <3>2, <1>a, Consts
    <3>4. (q < p => q + 1 < p) /\ (p < q => p + 1 < q)
      BY DEF Spread
    <3>5. q # p + 1 /\ q + 1 # p /\ q + 1 # p + 1
      BY <3>2, <3>4, <1>a
    <3>6. first # NULL => q + 1 # first
      <4>1. first # NULL => (q < first => q + 1 < first) /\ first \in Int
        BY <1>4 DEF Spread
      <4>2. QED
        BY <4>1, <3>2
    <3>7. q # NULL
      BY <3>1, Consts DEF Word, NULL
    <3>8. g.mem[q] = 2 * pr2[q]
      BY <3>1, <3>2, <3>3, <3>5, <3>7, <1>8
    <3>9. g.mem[q + 1] = 2 * nx2[q]
      BY <3>1, <3>2, <3>3, <3>5, <3>6, <3>7, <1>8
    <3>10. QED
      BY <3>8, <3>9
  <2>2. g.mem[p] = 2 * pr2[p] /\ g.mem[p + 1] = 2 * nx2[p]
    BY <1>2, <1>8
  <2>3. ASSUME NEW k \in Lists PROVE g.mem[HeapLo + k] = 2 * hd2[k]
    <3>1. h.mem[HeapLo + k] = 2 * hd[k] /\ HeapLo + k \in Word
      BY <1>1, HeadWord DEF Ptrs
    <3>2. k \in Int /\ k < segregated_list_num
      BY Consts DEF Lists
    <3>3. HeapLo + k # p /\ HeapLo + k # p + 1
      BY <3>2, <1>a, Consts
    <3>4. first # NULL => HeapLo + k # first
      <4>1. first # NULL => first \in Int /\ first > HeapLo + segregated_list_num
        BY <1>4 DEF Spread
      <4>2. QED
        BY <4>1, <3>2, Consts
    <3>5. HeapLo + k = HeapLo + l <=> k = l
      BY <3>2, <1>a, Consts
    <3>6. QED
      BY <3>1, <3>3, <3>4, <3>5, <1>8
  <2>4. QED
    BY <2>1, <2>2, <2>3 DEF Ptrs
<1>11. /\ pr2 \in [Word -> Nat] /\ nx2 \in [Word -> Nat] /\ pos2 \in [Word -> Nat]
       /\ hd2 \in [Lists -> Nat]
  BY <1>2, <1>4 DEF NULL
<1>12. LinkedAs(g.mem, F \cup {p}, S)
  <2> HIDE DEF pr2, nx2, hd2, pos2
  <2> QED
    BY <1>9, <1>10, <1>11 DEF LinkedAs, c
<1>13. ASSUME NEW a \in Word, ~ Linkage(a, F \cup {p}) PROVE g.mem[a] = h.mem[a]
  <2>1. a # HeapLo + l
    BY <1>2, <1>13, Consts DEF Linkage, Lists, Word
  <2>2. a # p /\ a # p + 1
    BY <1>a, <1>13 DEF Linkage
  <2>3. first # NULL => a # first
    BY <1>4, <1>13 DEF Linkage
  <2>4. QED
    BY <2>1, <2>2, <2>3, <1>8
<1>14. QED
  BY <1>8, <1>12, <1>13 DEF Relinked

\* The lists depend on their own words and on the sizes of their blocks.
LEMMA LinkFrame ==
  ASSUME NEW m, NEW n, NEW F, NEW S, NEW T, Spread(F), LinkedAs(m, F, S),
         \A l \in Lists : HeapLo + l \in Word,
         \A a \in Word : Linkage(a, F) => n[a] = m[a],
         \A q \in F : T[q] = S[q]
  PROVE  LinkedAs(n, F, T)
<1>1. PICK pr \in [Word -> Nat], nx \in [Word -> Nat], pos \in [Word -> Nat], hd \in [Lists -> Nat] :
          Ptrs(m, F, pr, nx, hd) /\ Chains(F, ListOf(S), pr, nx, hd, pos)
  BY DEF LinkedAs
<1>2. \A q \in F : ListOf(T)[q] = ListOf(S)[q]
  BY DEF ListOf, Spread
<1>3. Chains(F, ListOf(T), pr, nx, hd, pos)
  BY <1>1, <1>2 DEF Chains
<1>4. \A q \in F : n[q] = m[q] /\ n[q + 1] = m[q + 1]
  <2>1. TAKE q \in F
  <2>2. q \in Word /\ q + 1 \in Word /\ (q + 1) - 1 = q
    BY Consts DEF Spread, Word
  <2>3. QED
    BY <2>2 DEF Linkage
<1>5. \A l \in Lists : n[HeapLo + l] = m[HeapLo + l]
  <2>1. TAKE l \in Lists
  <2>2. (HeapLo + l) - HeapLo = l
    BY Consts DEF Lists
  <2>3. QED
    BY <2>2 DEF Linkage
<1>6. Ptrs(n, F, pr, nx, hd)
  BY <1>1, <1>4, <1>5 DEF Ptrs
<1>7. QED
  BY <1>1, <1>3, <1>6 DEF LinkedAs
-----------------------------------------------------------------------------
(* the blocks                                                              *)

\* The first block after the prologue.
FirstBlock == PRELOGUE_BLK + 2

\* B are the blocks between prologue and epilogue, S their sizes.
Tiles(brk, B, S) ==
    /\ brk \in Int /\ brk <= HeapLo + MAX_HEAP
    /\ S \in [Word -> Nat]
    /\ B \subseteq Word /\ FirstBlock \in B
    /\ \A p \in B : /\ FirstBlock <= p /\ S[p] >= 4
                    /\ p + S[p] <= brk /\ (p + S[p] \in B \/ p + S[p] = brk)
    /\ \A p, q \in B : p < q => p + S[p] <= q
    /\ \A q \in B : q = FirstBlock \/ \E p \in B : p + S[p] = q
    /\ \E p \in B : p + S[p] = brk

\* The words of block p, tags included.
Zone(p, S) == p - 1 .. p + S[p] - 2

Tagged(m, p, size, alloc) ==
    m[p - 1] = PACK(size, alloc) /\ m[p + size - 2] = PACK(size, alloc)

Bit(p, A) == IF p \in A THEN 1 ELSE 0

\* The heap is made of the blocks B of sizes S, of which A are allocated and the
\* others free and in their lists; nothing is known of the contents of H.
Shape(h, B, S, A, H) ==
    /\ h \in Heap /\ Tiles(h.brk, B, S)
    /\ A \subseteq B /\ H \subseteq B /\ A \cap H = {}
    /\ h.mem[PRELOGUE_BLK - 1] = PACK(2, 1) /\ h.mem[PRELOGUE_BLK] = PACK(2, 1)
    /\ h.mem[h.brk - 1] = PACK(0, 1)
    /\ \A p \in B \ H : Tagged(h.mem, p, S[p], Bit(p, A))
    /\ LinkedAs(h.mem, (B \ A) \ H, S)

\* No step writes over an allocated block.
Untouched(h, g, A, S) == \A q \in A : \A a \in Zone(q, S) : g.mem[a] = h.mem[a]

LEMMA ZoneWord ==
  ASSUME NEW brk, NEW B, NEW S, Tiles(brk, B, S), NEW p \in B
  PROVE  /\ p \in Int /\ S[p] \in Nat /\ S[p] >= 4 /\ brk \in Int
         /\ FirstBlock = HeapLo + segregated_list_num + 3 /\ FirstBlock <= p
         /\ p + S[p] <= brk /\ brk <= HeapLo + MAX_HEAP
         /\ Zone(p, S) \subseteq Word
         /\ \A a \in Zone(p, S) : a \in Int /\ a > HeapLo + segregated_list_num + 1 /\ a < brk - 1
<1>1. /\ p \in Word /\ S[p] \in Nat /\ S[p] >= 4 /\ brk \in Int /\ FirstBlock <= p
      /\ p + S[p] <= brk /\ brk <= HeapLo + MAX_HEAP
  BY DEF Tiles
<1>2. p \in Int /\ FirstBlock = HeapLo + segregated_list_num + 3
  BY <1>1, Consts DEF Word, FirstBlock, PRELOGUE_BLK
<1>3. \A a \in Zone(p, S) : a \in Int /\ a >= p - 1 /\ a <= p + S[p] - 2
  BY <1>1, <1>2 DEF Zone
<1>4. \A a \in Zone(p, S) : a > HeapLo + segregated_list_num + 1 /\ a < brk - 1
  BY <1>1, <1>2, <1>3, Consts
<1>5. Zone(p, S) \subseteq Word
  BY <1>1, <1>2, <1>3, Consts DEF Word
<1>6. QED
  BY <1>1, <1>2, <1>3, <1>4, <1>5

LEMMA ZonesApart ==
  ASSUME NEW brk, NEW B, NEW S, Tiles(brk, B, S), NEW p \in B, NEW q \in B, p # q
  PROVE  Zone(p, S) \cap Zone(q, S) = {}
<1>1. p \in Int /\ q \in Int /\ S[p] \in Nat /\ S[q] \in Nat
  BY ZoneWord
<1>2. p + S[p] <= q \/ q + S[q] <= p
  BY <1>1 DEF Tiles
<1>3. QED
  BY <1>1, <1>2 DEF Zone

\* Blocks between tags leave room for two pointers each.
LEMMA TilesSpread ==
  ASSUME NEW brk, NEW B, NEW S, Tiles(brk, B, S), NEW F, F \subseteq B
  PROVE  /\ Spread(F)
         /\ \A q \in F : q \in Zone(q, S) /\ q + 1 \in Zone(q, S)
         /\ \A l \in Lists : HeapLo + l \in Word
         /\ PRELOGUE_BLK - 1 \in Word /\ PRELOGUE_BLK \in Word /\ brk - 1 \in Word
<1>1. \A q \in F : q \in Zone(q, S) /\ q + 1 \in Zone(q, S) /\ Zone(q, S) \subseteq Word
  <2>1. TAKE q \in F
  <2>2. q \in Int /\ S[q] \in Nat /\ S[q] >= 4 /\ Zone(q, S) \subseteq Word
    BY ZoneWord
  <2>3. QED
    BY <2>2 DEF Zone
<1>2. \A q \in F : q > HeapLo + segregated_list_num
  <2>1. TAKE q \in F
  <2>2. q \in Int /\ FirstBlock = HeapLo + segregated_list_num + 3 /\ FirstBlock <= q
    BY ZoneWord
  <2>3. QED
    BY <2>2, Consts
<1>3. \A q, r \in F : q < r => q + 1 < r
  <2>1. TAKE q, r \in F
  <2>2. q \in Int /\ r \in Int /\ S[q] \in Nat /\ S[q] >= 4 /\ (q < r => q + S[q] <= r)
    BY ZoneWord DEF Tiles
  <2>3. QED
    BY <2>2
<1>4. Spread(F)
  BY <1>1, <1>2, <1>3 DEF Spread
<1>5. FirstBlock \in B
  BY DEF Tiles
<1>6. /\ FirstBlock = HeapLo + segregated_list_num + 3 /\ FirstBlock + 4 <= brk
      /\ brk \in Int /\ brk <= HeapLo + MAX_HEAP
  BY <1>5, ZoneWord, Consts
<1>7. QED
  BY <1>1, <1>4, <1>6, Consts DEF Lists, Word, PRELOGUE_BLK

\* No list pointer lies in an allocated block.
LEMMA ZoneLinkage ==
  ASSUME NEW brk, NEW B, NEW S, Tiles(brk, B, S), NEW F, F \subseteq B,
         NEW p \in B, p \notin F, NEW a \in Zone(p, S)
  PROVE  ~ Linkage(a, F)
<1>1. a \in Int /\ a > HeapLo + segregated_list_num + 1 /\ a < brk - 1
  BY ZoneWord
<1>2. a - HeapLo \notin Lists
  BY <1>1, Consts DEF Lists
<1>3. ASSUME a \in F PROVE FALSE
  BY <1>3, ZonesApart, TilesSpread
<1>4. ASSUME a - 1 \in F PROVE FALSE
  <2>1. a - 1 + 1 = a
    BY <1>1
  <2>2. a \in Zone(a - 1, S)
    BY <1>4, <2>1, TilesSpread
  <2>3. QED
    BY <1>4, <2>2, ZonesApart
<1>5. QED
  BY <1>2, <1>3, <1>4 DEF Linkage

LEMMA EndsLinkage ==
  ASSUME NEW brk, NEW B, NEW S, Tiles(brk, B, S), NEW F, F \subseteq B
  PROVE  ~ Linkage(PRELOGUE_BLK - 1, F) /\ ~ Linkage(PRELOGUE_BLK, F) /\ ~ Linkage(brk - 1, F)
<1>1. \A q \in F : /\ q \in Int /\ S[q] \in Nat /\ S[q] >= 4 /\ q + S[q] <= brk
                   /\ HeapLo + segregated_list_num + 3 <= q
  BY ZoneWord
<1>2. brk \in Int /\ HeapLo + segregated_list_num + 3 + 4 <= brk
  <2>1. FirstBlock \in B
    BY DEF Tiles
  <2>2. QED
    BY <2>1, ZoneWord, Consts
<1>3. QED
  BY <1>1, <1>2, Consts DEF Linkage, Lists, PRELOGUE_BLK

\* No list pointer lies in a tag.
LEMMA TagLinkage ==
  ASSUME NEW brk, NEW B, NEW S, Tiles(brk, B, S), NEW F, F \subseteq B, NEW p \in B
  PROVE  /\ p - 1 \in Zone(p, S) /\ p + S[p] - 2 \in Zone(p, S)
         /\ p - 1 \in Word /\ p + S[p] - 2 \in Word
         /\ ~ Linkage(p - 1, F) /\ ~ Linkage(p + S[p] - 2, F)
<1>1. p \in Int /\ S[p] \in Nat /\ S[p] >= 4 /\ Zone(p, S) \subseteq Word
  BY ZoneWord
<1>2. p - 1 \in Zone(p, S) /\ p + S[p] - 2 \in Zone(p, S)
  BY <1>1 DEF Zone
<1> DEFINE G == F \ {p}
<1>3. ~ Linkage(p - 1, G) /\ ~ Linkage(p + S[p] - 2, G)
  BY <1>2, ZoneLinkage
<1>4. p - 1 # p /\ p - 1 - 1 # p /\ p + S[p] - 2 # p /\ p + S[p] - 2 - 1 # p
  BY <1>1
<1>5. QED
  BY <1>1, <1>2, <1>3, <1>4 DEF Linkage

\* The tags of a block that is not a hole.
LEMMA SizeOf ==
  ASSUME NEW h, NEW B, NEW S, NEW A, NEW H, Shape(h, B, S, A, H), NEW p \in B \ H
  PROVE  GET_SIZE(h, p) = S[p] /\ (IsFree(h, p) <=> p \notin A)
<1>1. h.mem[p - 1] = PACK(S[p], Bit(p, A))
  BY DEF Shape, Tagged
<1>2. S[p] \in Nat
  BY ZoneWord DEF Shape
<1>3. QED
  BY <1>1, <1>2 DEF PACK, Bit, GET_SIZE, IsFree, GET_ALLOC, GET

\* What changes outside the blocks, their lists and the tags leaves the shape alone.
LEMMA ShapeFrame ==
  ASSUME NEW h, NEW B, NEW S, NEW A, NEW H, Shape(h, B, S, A, H),
         NEW g \in Heap, g.brk = h.brk,
         \A a \in Word : (\A p \in H : a \notin Zone(p, S)) => g.mem[a] = h.mem[a]
  PROVE  Shape(g, B, S, A, H) /\ Untouched(h, g, A, S)
<1> DEFINE F == (B \ A) \ H
<1>1. Tiles(h.brk, B, S) /\ A \subseteq B /\ H \subseteq B /\ A \cap H = {} /\ F \subseteq B
  BY DEF Shape
<1>2. \A q \in B \ H : \A a \in Zone(q, S) : g.mem[a] = h.mem[a] /\ a \in Word
  <2>1. TAKE q \in B \ H
  <2>2. TAKE a \in Zone(q, S)
  <2>3. a \in Word
    BY <1>1, ZoneWord
  <2>4. \A p \in H : a \notin Zone(p, S)
    BY <1>1, ZonesApart
  <2>5. QED
    BY <2>3, <2>4
<1>3. ASSUME NEW a \in Word, a \in {PRELOGUE_BLK - 1, PRELOGUE_BLK, h.brk - 1} \/ Linkage(a, F)
      PROVE  g.mem[a] = h.mem[a]
  <2>1. ASSUME NEW p \in H, a \in Zone(p, S) PROVE FALSE
    <3>1. p \in B /\ p \notin F
      BY <1>1
    <3>2. ~ Linkage(a, F)
      BY <1>1, <2>1, <3>1, ZoneLinkage
    <3>3. a \in Int /\ a > HeapLo + segregated_list_num + 1 /\ a < h.brk - 1 /\ h.brk \in Int
      BY <1>1, <2>1, <3>1, ZoneWord
    <3>4. QED
      BY <1>3, <3>2, <3>3, Consts DEF PRELOGUE_BLK
  <2>2. QED
    BY <2>1
<1>4. /\ g.mem[PRELOGUE_BLK - 1] = PACK(2, 1) /\ g.mem[PRELOGUE_BLK] = PACK(2, 1)
      /\ g.mem[g.brk - 1] = PACK(0, 1)
  <2>1. PRELOGUE_BLK - 1 \in Word /\ PRELOGUE_BLK \in Word /\ h.brk - 1 \in Word
    BY <1>1, TilesSpread
  <2>2. QED
    BY <2>1, <1>3 DEF Shape
<1>5. \A p \in B \ H : Tagged(g.mem, p, S[p], Bit(p, A))
  <2>1. TAKE p \in B \ H
  <2>2. p - 1 \in Zone(p, S) /\ p + S[p] - 2 \in Zone(p, S)
    <3>1. p \in Int /\ S[p] \in Nat /\ S[p] >= 4
      BY <1>1, ZoneWord
    <3>2. QED
      BY <3>1 DEF Zone
  <2>3. Tagged(h.mem, p, S[p], Bit(p, A))
    BY DEF Shape
  <2>4. QED
    BY <1>2, <2>2, <2>3 DEF Tagged
<1>6. LinkedAs(g.mem, F, S)
  <2>1. Spread(F) /\ \A l \in Lists : HeapLo + l \in Word
    BY <1>1, TilesSpread
  <2>2. LinkedAs(h.mem, F, S)
    BY DEF Shape
  <2>3. QED
    BY <1>3, <2>1, <2>2, LinkFrame
<1>7. Untouched(h, g, A, S)
  BY <1>1, <1>2 DEF Untouched
<1>8. QED
  BY <1>1, <1>4, <1>5, <1>6, <1>7 DEF Shape

\* A free block that is taken out of its list becomes a hole.
LEMMA UnlinkShape ==
  ASSUME NEW h, NEW B, NEW S, NEW A, NEW H, Shape(h, B, S, A, H),
         NEW p, p \in B, p \notin A, p \notin H, NEW g, g = Unlink(h, p)
  PROVE  /\ Shape(g, B, S, A, H \cup {p}) /\ Untouched(h, g, A, S)
         /\ g.brk = h.brk /\ g.cnt = h.cnt
<1> DEFINE F == (B \ A) \ H
           G == F \ {p}
<1>1. /\ h \in Heap /\ Tiles(h.brk, B, S) /\ A \subseteq B /\ H \subseteq B /\ A \cap H = {}
      /\ F \subseteq B /\ p \in F /\ G \subseteq B /\ G = (B \ A) \ (H \cup {p})
  BY DEF Shape
<1>2. Spread(F) /\ LinkedAs(h.mem, F, S) /\ GET_SIZE(h, p) = S[p]
  <2>1. Spread(F)
    BY <1>1, TilesSpread
  <2>2. LinkedAs(h.mem, F, S)
    BY DEF Shape
  <2>3. GET_SIZE(h, p) = S[p]
    BY SizeOf
  <2>4. QED
    BY <2>1, <2>2, <2>3
<1>3. /\ g \in Heap /\ g.brk = h.brk /\ g.cnt = h.cnt
      /\ LinkedAs(g.mem, G, S)
      /\ \A a \in Word : ~ Linkage(a, G) => g.mem[a] = h.mem[a]
  <2> HIDE DEF F
  <2>1. Relinked(g, h, F \ {p}, S)
    BY <1>1, <1>2, UnlinkOK
  <2>2. QED
    BY <2>1 DEF Relinked
<1> HIDE DEF F, G
<1>4. \A q \in B \ G : \A a \in Zone(q, S) : g.mem[a] = h.mem[a]
  BY <1>1, <1>3, ZoneLinkage, ZoneWord
<1>5. /\ g.mem[PRELOGUE_BLK - 1] = PACK(2, 1) /\ g.mem[PRELOGUE_BLK] = PACK(2, 1)
      /\ g.mem[g.brk - 1] = PACK(0, 1)
  <2>1. PRELOGUE_BLK - 1 \in Word /\ PRELOGUE_BLK \in Word /\ h.brk - 1 \in Word
    BY <1>1, TilesSpread
  <2>2. ~ Linkage(PRELOGUE_BLK - 1, G) /\ ~ Linkage(PRELOGUE_BLK, G) /\ ~ Linkage(h.brk - 1, G)
    BY <1>1, EndsLinkage
  <2>3. QED
    BY <2>1, <2>2, <1>3 DEF Shape
<1>6. \A q \in B \ (H \cup {p}) : Tagged(g.mem, q, S[q], Bit(q, A))
  <2>1. TAKE q \in B \ (H \cup {p})
  <2>2. Tagged(h.mem, q, S[q], Bit(q, A))
    BY DEF Shape
  <2>3. ~ Linkage(q - 1, G) /\ ~ Linkage(q + S[q] - 2, G) /\ q - 1 \in Word /\ q + S[q] - 2 \in Word
    BY <1>1, TagLinkage
  <2>4. QED
    BY <1>3, <2>2, <2>3 DEF Tagged
<1>7. QED
  BY <1>1, <1>3, <1>4, <1>5, <1>6 DEF Shape, Untouched, G

\* A hole with the tags of a free block is filled by inserting it.
LEMMA InsertShape ==
  ASSUME NEW h, NEW B, NEW S, NEW A, NEW H, Shape(h, B, S, A, H),
         NEW p \in H, Tagged(h.mem, p, S[p], 0), NEW g, g = InsertHead(h, p)
  PROVE  /\ Shape(g, B, S, A, H \ {p}) /\ Untouched(h, g, A, S)
         /\ g.brk = h.brk /\ g.cnt = h.cnt
<1> DEFINE F == (B \ A) \ H
           G == F \cup {p}
<1>1. /\ h \in Heap /\ Tiles(h.brk, B, S) /\ A \subseteq B /\ H \subseteq B /\ A \cap H = {}
      /\ F \subseteq B /\ p \notin F /\ p \in B /\ p \notin A
      /\ G \subseteq B /\ G = (B \ A) \ (H \ {p})
  BY DEF Shape
<1>2. Spread(G) /\ LinkedAs(h.mem, F, S) /\ GET_SIZE(h, p) = S[p]
  <2>1. Spread(G)
    BY <1>1, TilesSpread
  <2>2. LinkedAs(h.mem, F, S)
    BY DEF Shape
  <2>3. S[p] \in Nat
    BY <1>1, ZoneWord
  <2>4. GET_SIZE(h, p) = S[p]
    BY <2>3 DEF Tagged, GET_SIZE, GET, PACK
  <2>5. QED
    BY <2>1, <2>2, <2>4
<1>3. /\ g \in Heap /\ g.brk = h.brk /\ g.cnt = h.cnt
      /\ LinkedAs(g.mem, G, S)
      /\ \A a \in Word : ~ Linkage(a, G) => g.mem[a] = h.mem[a]
  <2>1. h \in Heap /\ p \notin F /\ Spread(F \cup {p})
    BY <1>1, <1>2
  <2>2. LinkedAs(h.mem, F, S) /\ GET_SIZE(h, p) = S[p]
    BY <1>2
  <2> HIDE DEF F
  <2>3. Relinked(g, h, F \cup {p}, S)
    BY <2>1, <2>2, InsertOK
  <2>4. QED
    BY <2>3 DEF Relinked
<1> HIDE DEF F, G
<1>4. \A q \in B \ G : \A a \in Zone(q, S) : g.mem[a] = h.mem[a]
  BY <1>1, <1>3, ZoneLinkage, ZoneWord
<1>5. /\ g.mem[PRELOGUE_BLK - 1] = PACK(2, 1) /\ g.mem[PRELOGUE_BLK] = PACK(2, 1)
      /\ g.mem[g.brk - 1] = PACK(0, 1)
  <2>1. PRELOGUE_BLK - 1 \in Word /\ PRELOGUE_BLK \in Word /\ h.brk - 1 \in Word
    BY <1>1, TilesSpread
  <2>2. ~ Linkage(PRELOGUE_BLK - 1, G) /\ ~ Linkage(PRELOGUE_BLK, G) /\ ~ Linkage(h.brk - 1, G)
    BY <1>1, EndsLinkage
  <2>3. QED
    BY <2>1, <2>2, <1>3 DEF Shape
<1>6. \A q \in B \ (H \ {p}) : Tagged(g.mem, q, S[q], Bit(q, A))
  <2>1. TAKE q \in B \ (H \ {p})
  <2>2. Tagged(h.mem, q, S[q], Bit(q, A))
    <3>1. CASE q = p
      BY <3>1, <1>1 DEF Bit
    <3>2. CASE q # p
      BY <3>2 DEF Shape
    <3>3. QED
      BY <3>1, <3>2
  <2>3. ~ Linkage(q - 1, G) /\ ~ Linkage(q + S[q] - 2, G) /\ q - 1 \in Word /\ q + S[q] - 2 \in Word
    BY <1>1, TagLinkage
  <2>4. QED
    BY <1>3, <2>2, <2>3 DEF Tagged
<1>7. QED
  BY <1>1, <1>3, <1>4, <1>5, <1>6 DEF Shape, Untouched, G

\* A hole with the tags of an allocated block is one.
LEMMA AllocateShape ==
  ASSUME NEW h, NEW B, NEW S, NEW A, NEW H, Shape(h, B, S, A, H),
         NEW p \in H, Tagged(h.mem, p, S[p], 1)
  PROVE  Shape(h, B, S, A \cup {p}, H \ {p})
<1>1. (B \ (A \cup {p})) \ (H \ {p}) = (B \ A) \ H
  BY DEF Shape
<1>2. \A q \in B \ (H \ {p}) : Tagged(h.mem, q, S[q], Bit(q, A \cup {p}))
  BY DEF Shape, Bit
<1>3. QED
  BY <1>1, <1>2 DEF Shape

\* What is allocated may be forgotten.
LEMMA ForgetShape ==
  ASSUME NEW h, NEW B, NEW S, NEW A, NEW H, Shape(h, B, S, A, H), NEW p \in A
  PROVE  Shape(h, B, S, A \ {p}, H \cup {p})
<1>1. (B \ (A \ {p})) \ (H \cup {p}) = (B \ A) \ H
  BY DEF Shape
<1>2. \A q \in B \ (H \cup {p}) : Tagged(h.mem, q, S[q], Bit(q, A \ {p}))
  BY DEF Shape, Bit
<1>3. QED
  BY <1>1, <1>2 DEF Shape

\* The writes of a header and a footer.
LEMMA TagWrites ==
  ASSUME NEW h \in Heap, NEW p \in Int, NEW size \in Nat, size >= 2,
         p - 1 \in Word, p + size - 2 \in Word, NEW alloc \in {0, 1},
         NEW g, g = Tag(h, p, size, alloc)
  PROVE  /\ g \in Heap /\ g.brk = h.brk /\ g.cnt = h.cnt
         /\ Tagged(g.mem, p, size, alloc)
         /\ \A a \in Word \ {p - 1, p + size - 2} : g.mem[a] = h.mem[a]
<1> DEFINE v == PACK(size, alloc)
           f == p + size - 2
           d == p - 1
<1>1. v \in Int /\ d \in Word /\ f \in Word /\ d # f
  BY DEF PACK
<1>2. PICK h1 : h1 = PUT(h, d, v)
  OBVIOUS
<1>3. g = PUT(h1, f, v)
  BY <1>2 DEF Tag
<1>4. v = PACK(size, alloc) /\ d = p - 1 /\ f = p + size - 2
  OBVIOUS
<1> HIDE DEF v, d, f
<1>5. Wrote(h1, h, d, v)
  BY <1>1, <1>2, PutHeap
<1>6. h1 \in Heap
  BY <1>5 DEF Wrote
<1>7. Wrote(g, h1, f, v)
  BY <1>1, <1>3, <1>6, PutHeap
<1>8. /\ g \in Heap /\ g.brk = h.brk /\ g.cnt = h.cnt
      /\ g.mem[d] = v /\ g.mem[f] = v /\ \A a \in Word \ {d, f} : g.mem[a] = h.mem[a]
  BY <1>1, <1>5, <1>7 DEF Wrote
<1>9. QED
  BY <1>4, <1>8 DEF Tagged

\* g is h with other tags for the hole p.
Retagged(g, h, B, S, A, H, p, alloc) ==
    /\ Shape(g, B, S, A, H) /\ Untouched(h, g, A, S)
    /\ Tagged(g.mem, p, S[p], alloc) /\ g.brk = h.brk /\ g.cnt = h.cnt
    /\ \A a \in Word \ {p - 1, p + S[p] - 2} : g.mem[a] = h.mem[a]

\* The tags of a hole may be written.
LEMMA TagShape ==
  ASSUME NEW h, NEW B, NEW S, NEW A, NEW H, Shape(h, B, S, A, H),
         NEW p \in H, NEW alloc \in {0, 1}, NEW g, g = Tag(h, p, S[p], alloc)
  PROVE  Retagged(g, h, B, S, A, H, p, alloc)
<1>1. h \in Heap /\ Tiles(h.brk, B, S) /\ p \in B
  BY DEF Shape
<1>2. /\ p - 1 \in Zone(p, S) /\ p + S[p] - 2 \in Zone(p, S)
      /\ p - 1 \in Word /\ p + S[p] - 2 \in Word
  BY <1>1, TagLinkage
<1>3. p \in Int /\ S[p] \in Nat /\ S[p] >= 2
  BY <1>1, ZoneWord
<1>4. /\ g \in Heap /\ g.brk = h.brk /\ g.cnt = h.cnt
      /\ Tagged(g.mem, p, S[p], alloc)
      /\ \A a \in Word \ {p - 1, p + S[p] - 2} : g.mem[a] = h.mem[a]
  BY <1>1, <1>2, <1>3, TagWrites
<1>5. \A a \in Word : (\A q \in H : a \notin Zone(q, S)) => g.mem[a] = h.mem[a]
  BY <1>2, <1>4
<1>6. QED
  BY <1>4, <1>5, ShapeFrame DEF Retagged

SplitAt(S, p, size) == [S EXCEPT ![p] = size, ![p + size] = S[p] - size]
MergedAt(S, p, q) == [S EXCEPT ![p] = S[p] + S[q]]
GrownAt(S, p, incr) == [S EXCEPT ![p] = incr]

\* A tile cut in two leaves a tiling.
LEMMA TilesSplit ==
  ASSUME NEW brk, NEW B, NEW S, Tiles(brk, B, S), NEW p \in B,
         NEW size \in Nat, size >= 4, size + 4 <= S[p]
  PROVE  /\ Tiles(brk, B \cup {p + size}, SplitAt(S, p, size)) /\ p + size \notin B
         /\ SplitAt(S, p, size)[p] = size /\ SplitAt(S, p, size)[p + size] = S[p] - size
         /\ \A x \in B \ {p} : SplitAt(S, p, size)[x] = S[x]
         /\ p + size # p /\ p + size \in Zone(p, S)
<1> DEFINE q == p + size
           C == B \cup {q}
           T == SplitAt(S, p, size)
<1>1. /\ p \in Int /\ S[p] \in Nat /\ brk \in Int /\ p + S[p] <= brk /\ Zone(p, S) \subseteq Word
      /\ FirstBlock \in Int /\ FirstBlock <= p
  BY ZoneWord, Consts
<1>2. q \in Int /\ q > p /\ q + 4 <= p + S[p] /\ q \in Zone(p, S) /\ q \in Word
  BY <1>1 DEF Zone
<1>3. q \notin B
  BY <1>1, <1>2 DEF Tiles
<1>4. /\ T[p] = size /\ T[q] = S[p] - size /\ T \in [Word -> Nat]
      /\ \A x \in B \ {p} : T[x] = S[x]
  <2>1. S \in [Word -> Nat] /\ p \in Word /\ B \subseteq Word
    BY DEF Tiles
  <2>2. S[p] - size \in Nat
    BY <1>1
  <2>3. QED
    BY <1>2, <1>3, <2>1, <2>2 DEF SplitAt
<1>5. \A x \in B \ {p} : /\ x \in Int /\ S[x] \in Nat /\ FirstBlock <= x /\ S[x] >= 4
                         /\ x + S[x] <= brk /\ (x + S[x] \in B \/ x + S[x] = brk)
                         /\ x < p => x + S[x] <= p
                         /\ p < x => p + S[p] <= x
  BY ZoneWord DEF Tiles
<1>6. p + S[p] \in B \/ p + S[p] = brk
  BY DEF Tiles
<1>a. p + T[p] = q /\ q + T[q] = p + S[p]
  BY <1>1, <1>2, <1>4
<1> HIDE DEF q, T
<1>7. \A x \in C : /\ FirstBlock <= x /\ T[x] >= 4
                   /\ x + T[x] <= brk /\ (x + T[x] \in C \/ x + T[x] = brk)
  <2>1. TAKE x \in C
  <2>2. CASE x = p
    BY <2>2, <1>1, <1>2, <1>4, <1>a
  <2>3. CASE x = q
    BY <2>3, <1>1, <1>2, <1>4, <1>6, <1>a
  <2>4. CASE x # p /\ x # q
    BY <2>4, <1>4, <1>5
  <2>5. QED
    BY <2>2, <2>3, <2>4
<1>8. \A x, y \in C : x < y => x + T[x] <= y
  <2>1. TAKE x, y \in C
  <2>2. CASE x = p
    BY <2>2, <1>1, <1>2, <1>4, <1>5, <1>a
  <2>3. CASE x = q
    BY <2>3, <1>1, <1>2, <1>4, <1>5, <1>a
  <2>4. CASE x # p /\ x # q /\ y # q
    <3>1. x \in B /\ y \in B /\ T[x] = S[x]
      BY <2>4, <1>4
    <3>2. QED
      BY <3>1 DEF Tiles
  <2>5. CASE x # p /\ x # q /\ y = q
    BY <2>5, <1>1, <1>2, <1>4, <1>5
  <2>6. QED
    BY <2>2, <2>3, <2>4, <2>5
<1>9. \A y \in C : y = FirstBlock \/ \E x \in C : x + T[x] = y
  <2>1. TAKE y \in C
  <2>2. CASE y = q
    BY <2>2, <1>a
  <2>3. CASE y \in B /\ y # FirstBlock
    <3>1. PICK x \in B : x + S[x] = y
      BY <2>3 DEF Tiles
    <3>2. CASE x = p
      BY <3>1, <3>2, <1>a
    <3>3. CASE x # p
      BY <3>1, <3>3, <1>4
    <3>4. QED
      BY <3>2, <3>3
  <2>4. QED
    BY <2>2, <2>3
<1>10. \E x \in C : x + T[x] = brk
  <2>1. PICK x \in B : x + S[x] = brk
    BY DEF Tiles
  <2>2. CASE x = p
    BY <2>1, <2>2, <1>a
  <2>3. CASE x # p
    BY <2>1, <2>3, <1>4
  <2>4. QED
    BY <2>2, <2>3
<1>11. Tiles(brk, C, T)
  BY <1>2, <1>4, <1>7, <1>8, <1>9, <1>10 DEF Tiles
<1>12. QED
  BY <1>2, <1>3, <1>4, <1>11 DEF q, T

\* Two neighbours made one leave a tiling.
LEMMA TilesMerge ==
  ASSUME NEW brk, NEW B, NEW S, Tiles(brk, B, S), NEW p \in B, NEW q \in B, q = p + S[p]
  PROVE  /\ Tiles(brk, B \ {q}, MergedAt(S, p, q)) /\ q # p
         /\ MergedAt(S, p, q)[p] = S[p] + S[q]
         /\ \A x \in B \ {p} : MergedAt(S, p, q)[x] = S[x]
<1> DEFINE C == B \ {q}
           T == MergedAt(S, p, q)
<1>1. /\ p \in Int /\ S[p] \in Nat /\ S[p] >= 4 /\ FirstBlock <= p
      /\ q \in Int /\ S[q] \in Nat /\ S[q] >= 4 /\ q + S[q] <= brk /\ brk \in Int
      /\ FirstBlock \in Int
  BY ZoneWord, Consts
<1>2. /\ T \in [Word -> Nat] /\ T[p] = S[p] + S[q]
      /\ \A x \in B \ {p} : T[x] = S[x]
  BY <1>1 DEF Tiles, MergedAt
<1>3. \A x \in B : /\ x \in Int /\ S[x] \in Nat /\ FirstBlock <= x /\ S[x] >= 4
                   /\ x + S[x] <= brk /\ (x + S[x] \in B \/ x + S[x] = brk)
                   /\ x < p => x + S[x] <= p
                   /\ p < x => p + S[p] <= x
                   /\ q < x => q + S[q] <= x
                   /\ x < q => x + S[x] <= q
  BY ZoneWord DEF Tiles
<1>4. p < q /\ p + T[p] = q + S[q]
  BY <1>1, <1>2
<1> HIDE DEF T
<1>5. \A x \in C : /\ FirstBlock <= x /\ T[x] >= 4
                   /\ x + T[x] <= brk /\ (x + T[x] \in C \/ x + T[x] = brk)
  <2>1. TAKE x \in C
  <2>2. CASE x = p
    BY <2>2, <1>1, <1>2, <1>3, <1>4
  <2>3. CASE x # p
    <3>1. T[x] = S[x]
      BY <2>3, <1>2
    <3>2. x + S[x] # q
      BY <2>3, <1>1, <1>3
    <3>3. QED
      BY <3>1, <3>2, <1>3
  <2>4. QED
    BY <2>2, <2>3
<1>6. \A x, y \in C : x < y => x + T[x] <= y
  <2>1. TAKE x, y \in C
  <2>2. CASE x = p
    BY <2>2, <1>1, <1>2, <1>3, <1>4
  <2>3. CASE x # p
    BY <2>3, <1>2 DEF Tiles
  <2>4. QED
    BY <2>2, <2>3
<1>7. \A y \in C : y = FirstBlock \/ \E x \in C : x + T[x] = y
  <2>1. TAKE y \in C
  <2>2. SUFFICES ASSUME y # FirstBlock PROVE \E x \in C : x + T[x] = y
    OBVIOUS
  <2>3. PICK x \in B : x + S[x] = y
    BY <2>2 DEF Tiles
  <2>4. CASE x = q
    BY <2>3, <2>4, <1>1, <1>4
  <2>5. CASE x # q
    <3>1. x # p
      BY <2>3
    <3>2. QED
      BY <2>3, <2>5, <3>1, <1>2
  <2>6. QED
    BY <2>4, <2>5
<1>8. \E x \in C : x + T[x] = brk
  <2>1. PICK x \in B : x + S[x] = brk
    BY DEF Tiles
  <2>2. CASE x = q
    BY <2>1, <2>2, <1>1, <1>4
  <2>3. CASE x # q
    <3>1. x # p
      BY <2>1, <1>1
    <3>2. QED
      BY <2>1, <2>3, <3>1, <1>2
  <2>4. QED
    BY <2>2, <2>3
<1>9. FirstBlock \in C
  BY <1>1, <1>4 DEF Tiles
<1>10. Tiles(brk, C, T)
  BY <1>2, <1>5, <1>6, <1>7, <1>8, <1>9 DEF Tiles
<1>11. QED
  BY <1>1, <1>2, <1>4, <1>10 DEF T

\* A tile at the break, moved on, leaves a tiling.
LEMMA TilesGrow ==
  ASSUME NEW brk, NEW B, NEW S, Tiles(brk, B, S), NEW incr \in Nat, incr >= 4,
         NEW end, end = brk + incr, end <= HeapLo + MAX_HEAP, NEW T, T = GrownAt(S, brk, incr)
  PROVE  /\ Tiles(end, B \cup {brk}, T) /\ brk \notin B
         /\ T[brk] = incr /\ \A x \in B : T[x] = S[x]
<1> DEFINE C == B \cup {brk}
<1>1. \A x \in B : /\ x \in Int /\ S[x] \in Nat /\ FirstBlock <= x /\ S[x] >= 4
                   /\ x + S[x] <= brk /\ (x + S[x] \in B \/ x + S[x] = brk)
                   /\ FirstBlock \in Int
  BY ZoneWord, Consts DEF Tiles
<1>2. brk \in Int /\ FirstBlock \in B /\ FirstBlock + 4 <= brk /\ brk \in Word /\ brk \notin B
  <2>1. FirstBlock \in B /\ brk \in Int
    BY DEF Tiles
  <2>2. FirstBlock = HeapLo + segregated_list_num + 3 /\ FirstBlock + 4 <= brk
    BY <2>1, ZoneWord, Consts
  <2>3. QED
    BY <1>1, <2>1, <2>2, Consts DEF Word
<1>3. T \in [Word -> Nat] /\ T[brk] = incr /\ \A x \in B : T[x] = S[x]
  BY <1>2 DEF Tiles, GrownAt
<1>4. \A x \in C : /\ FirstBlock <= x /\ T[x] >= 4
                   /\ x + T[x] <= brk + incr /\ (x + T[x] \in C \/ x + T[x] = brk + incr)
  BY <1>1, <1>2, <1>3
<1>5. \A x, y \in C : x < y => x + T[x] <= y
  <2>1. TAKE x, y \in C
  <2>2. CASE x \in B /\ y \in B
    BY <2>2, <1>3 DEF Tiles
  <2>3. CASE x \in B /\ y = brk
    BY <2>3, <1>1, <1>3
  <2>4. CASE x = brk
    <3>1. y \in B => y < brk
      BY <1>1, <1>2
    <3>2. QED
      BY <2>4, <3>1, <1>1, <1>2
  <2>5. QED
    BY <2>2, <2>3, <2>4
<1>6. \A y \in C : y = FirstBlock \/ \E x \in C : x + T[x] = y
  <2>1. TAKE y \in C
  <2>2. y \in B => y = FirstBlock \/ \E x \in B : x + S[x] = y
    BY DEF Tiles
  <2>3. \E x \in B : x + S[x] = brk
    BY DEF Tiles
  <2>4. QED
    BY <2>2, <2>3, <1>3
<1>7. \E x \in C : x + T[x] = brk + incr
  BY <1>3
<1>8. Tiles(end, C, T)
  <2>1. C \subseteq Word /\ end \in Int
    BY <1>2 DEF Tiles
  <2>2. QED
    BY <1>2, <1>3, <1>4, <1>5, <1>6, <1>7, <2>1 DEF Tiles
<1>9. QED
  BY <1>2, <1>3, <1>8

\* The holes may be cut in another way.
LEMMA ShapeRetile ==
  ASSUME NEW h, NEW B, NEW S, NEW A, NEW H, Shape(h, B, S, A, H),
         NEW C, NEW T, NEW K, Tiles(h.brk, C, T), K \subseteq C, C \ K = B \ H,
         \A x \in B \ H : T[x] = S[x]
  PROVE  Shape(h, C, T, A, K)
<1> DEFINE F == (B \ A) \ H
<1>1. /\ h \in Heap /\ Tiles(h.brk, B, S) /\ A \subseteq B /\ H \subseteq B /\ A \cap H = {}
      /\ LinkedAs(h.mem, F, S) /\ F \subseteq B
  BY DEF Shape
<1>2. (C \ A) \ K = F /\ A \subseteq C /\ A \cap K = {}
  BY <1>1
<1>3. LinkedAs(h.mem, F, T)
  <2>1. Spread(F) /\ \A l \in Lists : HeapLo + l \in Word
    BY <1>1, TilesSpread
  <2>2. \A x \in F : T[x] = S[x]
    BY <1>1
  <2> HIDE DEF F
  <2>3. QED
    BY <1>1, <2>1, <2>2, LinkFrame
<1>4. \A x \in C \ K : Tagged(h.mem, x, T[x], Bit(x, A))
  BY DEF Shape
<1>5. QED
  BY <1>1, <1>2, <1>3, <1>4 DEF Shape

\* The hole p of h as two holes, p and q.
IsSplit(h, B, S, A, p, size, q) ==
    /\ Shape(h, B \cup {q}, SplitAt(S, p, size), A, {p, q})
    /\ q \notin B /\ q # p /\ q \in Zone(p, S)
    /\ SplitAt(S, p, size)[p] = size /\ SplitAt(S, p, size)[q] = S[p] - size
    /\ \A x \in A : SplitAt(S, p, size)[x] = S[x]

\* A hole is split in two.
LEMMA SplitShape ==
  ASSUME NEW h, NEW B, NEW S, NEW A, NEW p, Shape(h, B, S, A, {p}),
         NEW size \in Nat, size >= 4, size + 4 <= S[p]
  PROVE  IsSplit(h, B, S, A, p, size, p + size)
<1> DEFINE q == p + size
           C == B \cup {q}
           T == SplitAt(S, p, size)
           K == {p, q}
<1>1. Tiles(h.brk, B, S) /\ p \in B /\ A \subseteq B /\ p \notin A
  BY DEF Shape
<1>2. /\ Tiles(h.brk, C, T) /\ q \notin B /\ q # p /\ q \in Zone(p, S)
      /\ T[p] = size /\ T[q] = S[p] - size /\ \A x \in B \ {p} : T[x] = S[x]
  BY <1>1, TilesSplit
<1>3. K \subseteq C /\ C \ K = B \ {p}
  BY <1>1, <1>2
<1> HIDE DEF C, T, K
<1>4. Shape(h, C, T, A, K)
  BY <1>2, <1>3, ShapeRetile
<1>5. QED
  BY <1>1, <1>2, <1>4 DEF C, T, K, IsSplit

\* The holes p and q of h as one hole p.
IsMerged(h, B, S, A, H, p, q) ==
    /\ Shape(h, B \ {q}, MergedAt(S, p, q), A, H \ {q})
    /\ p # q /\ MergedAt(S, p, q)[p] = S[p] + S[q]
    /\ \A x \in B \ {p} : MergedAt(S, p, q)[x] = S[x]

\* Two holes that are neighbours are merged.
LEMMA MergeShape ==
  ASSUME NEW h, NEW B, NEW S, NEW A, NEW H, Shape(h, B, S, A, H),
         NEW p \in H, NEW q \in H, q = p + S[p]
  PROVE  IsMerged(h, B, S, A, H, p, q)
<1> DEFINE C == B \ {q}
           T == MergedAt(S, p, q)
           K == H \ {q}
<1>1. Tiles(h.brk, B, S) /\ H \subseteq B /\ p \in B /\ q \in B
  BY DEF Shape
<1>2. /\ Tiles(h.brk, C, T) /\ q # p /\ T[p] = S[p] + S[q] /\ \A x \in B \ {p} : T[x] = S[x]
  BY <1>1, TilesMerge
<1>3. K \subseteq C /\ C \ K = B \ H
  BY <1>1
<1> HIDE DEF C, T, K
<1>4. Shape(h, C, T, A, K)
  BY <1>2, <1>3, ShapeRetile
<1>5. QED
  BY <1>2, <1>4 DEF C, T, K, IsMerged

\* g is h with a new hole of incr words at the break b.
IsGrown(g, h, S, A, b, incr) ==
    \E C, T : /\ Shape(g, C, T, A, {b}) /\ T[b] = incr
              /\ g.brk = b + incr /\ g.cnt = h.cnt
              /\ Untouched(h, g, A, S)
              /\ \A x \in A : T[x] = S[x]

\* The break moves up: the old epilogue becomes the header of a hole.
LEMMA GrowShape ==
  ASSUME NEW h, NEW B, NEW S, NEW A, Shape(h, B, S, A, {}),
         NEW incr \in Nat, incr >= 4, CanGrow(h, incr),
         NEW g, g = PUT(mem_sbrk(h, incr), h.brk + incr - 1, PACK(0, 1))
  PROVE  IsGrown(g, h, S, A, h.brk, incr)
<1>b. PICK end : end = h.brk + incr
  OBVIOUS
<1>0. PICK T : T = GrownAt(S, h.brk, incr)
  OBVIOUS
<1> DEFINE C == B \cup {h.brk}
           F == B \ A
           e == h.brk + incr - 1
<1>1. /\ h \in Heap /\ Tiles(h.brk, B, S) /\ A \subseteq B /\ h.brk + incr <= HeapLo + MAX_HEAP
      /\ F \subseteq B
  BY DEF Shape, CanGrow
<1>2. /\ Tiles(end, C, T) /\ h.brk \notin B /\ T[h.brk] = incr
      /\ \A x \in B : T[x] = S[x]
  <2>1. PICK b : b = h.brk
    OBVIOUS
  <2>2. /\ Tiles(b, B, S) /\ end = b + incr /\ end <= HeapLo + MAX_HEAP
        /\ T = GrownAt(S, b, incr)
    BY <1>0, <1>1, <1>b, <2>1
  <2>3. /\ Tiles(end, B \cup {b}, T) /\ b \notin B
        /\ T[b] = incr /\ \A x \in B : T[x] = S[x]
    <3> HIDE DEF C
    <3> QED
      BY ONLY <2>2, TilesGrow, incr \in Nat, incr >= 4
  <2>4. QED
    BY <2>1, <2>3
<1>3. h.brk \in Int /\ e \in Word /\ PACK(0, 1) \in Int
  <2>1. h.brk \in C
    OBVIOUS
  <2>2. h.brk \in Int /\ FirstBlock = HeapLo + segregated_list_num + 3 /\ FirstBlock <= h.brk
    BY <1>2, <2>1, ZoneWord
  <2>3. QED
    BY <1>1, <2>2, Consts DEF Word, PACK
<1>4. Wrote(g, mem_sbrk(h, incr), e, PACK(0, 1))
  <2>1. mem_sbrk(h, incr) \in Heap
    BY <1>1, <1>3 DEF Heap, mem_sbrk
  <2>2. QED
    BY <1>3, <2>1, PutHeap
<1>5. /\ g \in Heap /\ g.brk = h.brk + incr /\ g.cnt = h.cnt
      /\ g.mem[e] = PACK(0, 1) /\ \A b \in Word \ {e} : g.mem[b] = h.mem[b]
  <2>1. /\ mem_sbrk(h, incr).mem = h.mem /\ mem_sbrk(h, incr).brk = h.brk + incr
        /\ mem_sbrk(h, incr).cnt = h.cnt
    BY <1>1 DEF Heap, mem_sbrk
  <2>2. QED
    BY <1>4, <2>1 DEF Wrote
<1>6. ASSUME NEW q \in B, NEW a \in Zone(q, S) PROVE g.mem[a] = h.mem[a]
  <2>1. a \in Word /\ a \in Int /\ a < h.brk - 1
    BY <1>1, <1>6, ZoneWord
  <2>2. a # e
    BY <1>3, <2>1
  <2>3. QED
    BY <1>5, <2>1, <2>2
<1>7. \A q \in C \ {h.brk} : Tagged(g.mem, q, T[q], Bit(q, A))
  <2>1. TAKE q \in C \ {h.brk}
  <2>2. q \in B /\ Tagged(h.mem, q, S[q], Bit(q, A)) /\ T[q] = S[q]
    BY <1>2 DEF Shape
  <2>3. q - 1 \in Zone(q, S) /\ q + S[q] - 2 \in Zone(q, S)
    BY <1>1, <2>2, TagLinkage
  <2>4. QED
    BY <1>6, <2>2, <2>3 DEF Tagged
<1>8. LinkedAs(g.mem, F, T)
  <2>1. Spread(F) /\ \A l \in Lists : HeapLo + l \in Word
    BY <1>1, TilesSpread
  <2>2. LinkedAs(h.mem, F, S)
    <3>1. (B \ A) \ {} = F
      OBVIOUS
    <3>2. QED
      BY <3>1 DEF Shape
  <2>3. \A x \in F : T[x] = S[x]
    BY <1>2
  <2>4. ~ Linkage(e, F)
    <3>1. F \subseteq C
      OBVIOUS
    <3>2. e = end - 1
      BY <1>b, <1>3
    <3> HIDE DEF F, C, e
    <3>3. ~ Linkage(end - 1, F)
      BY <1>2, <3>1, EndsLinkage
    <3>4. QED
      BY <3>2, <3>3
  <2>5. \A a \in Word : Linkage(a, F) => g.mem[a] = h.mem[a]
    BY <1>5, <2>4
  <2> HIDE DEF F, e
  <2>6. QED
    BY <2>1, <2>2, <2>3, <2>5, LinkFrame
<1>9. /\ g.mem[PRELOGUE_BLK - 1] = PACK(2, 1) /\ g.mem[PRELOGUE_BLK] = PACK(2, 1)
      /\ g.mem[g.brk - 1] = PACK(0, 1)
  <2>1. PRELOGUE_BLK - 1 \in Word /\ PRELOGUE_BLK \in Word
    BY <1>1, TilesSpread
  <2>2. FirstBlock = HeapLo + segregated_list_num + 3 /\ FirstBlock <= h.brk
    BY <1>2, ZoneWord
  <2>3. PRELOGUE_BLK - 1 # e /\ PRELOGUE_BLK # e
    BY <1>3, <2>2, Consts DEF PRELOGUE_BLK
  <2>4. g.brk - 1 = e
    BY <1>3, <1>5
  <2>5. h.mem[PRELOGUE_BLK - 1] = PACK(2, 1) /\ h.mem[PRELOGUE_BLK] = PACK(2, 1)
    BY DEF Shape
  <2> HIDE DEF e
  <2>6. QED
    BY <1>5, <2>1, <2>3, <2>4, <2>5
<1>10. (C \ A) \ {h.brk} = F /\ A \cap {h.brk} = {} /\ A \subseteq C /\ {h.brk} \subseteq C
  BY <1>1, <1>2
<1>11. Shape(g, C, T, A, {h.brk})
  <2> HIDE DEF C, F
  <2>1. QED
    BY <1>b, <1>2, <1>5, <1>7, <1>8, <1>9, <1>10 DEF Shape
<1>12. Untouched(h, g, A, S)
  BY <1>1, <1>6 DEF Untouched
<1>13. QED
  <2> HIDE DEF C
  <2>1. QED
    BY <1>1, <1>2, <1>5, <1>11, <1>12 DEF IsGrown

\* r.p is a block of its own in r.h, of at least size words and not so large
\* that place would have split it, and the blocks A are as they were in h.
Allotted(h, r, S, A, size) ==
    \E C, T : /\ Shape(r.h, C, T, A \cup {r.p}, {}) /\ r.p \in C /\ r.p \notin A
              /\ T[r.p] \in size .. size + 4
              /\ \A x \in A : T[x] = S[x]
              /\ Untouched(h, r.h, A, S)

\* The payload of r.p is what it was in h.
SamePayload(h, r, size) == \A a \in r.p .. r.p + size - 3 : r.h.mem[a] = h.mem[a]
-----------------------------------------------------------------------------
(* place                                                                   *)

\* What TwoTags and TwoParts yield.
TwoTagged(g, h, S, A, p, size, q, rest, a1, a2) ==
    \E C, T : /\ Shape(g, C, T, A, {p, q}) /\ q # p /\ p \in C /\ q \in C
              /\ p \notin A /\ q \notin A
              /\ T[p] = size /\ T[q] = rest
              /\ Tagged(g.mem, p, size, a1) /\ Tagged(g.mem, q, rest, a2)
              /\ \A x \in A : T[x] = S[x]
              /\ g.brk = h.brk /\ g.cnt = h.cnt
              /\ Untouched(h, g, A, S)
              /\ \A a \in Word : a \notin {p - 1, p + size - 2, q - 1, q + rest - 2} =>
                     g.mem[a] = h.mem[a]

\* A part of a hole is allocated, the other is in its list.
PartAllotted(k, h, S, A, mine, size) ==
    \E C, T : /\ Shape(k, C, T, A \cup {mine}, {}) /\ mine \in C /\ mine \notin A
              /\ T[mine] = size
              /\ \A x \in A : T[x] = S[x]
              /\ k.brk = h.brk /\ k.cnt = h.cnt
              /\ Untouched(h, k, A, S)
              /\ \A a \in mine .. mine + size - 3 : k.mem[a] = h.mem[a]

\* A hole is split in two, with tags.
LEMMA TwoTags ==
  ASSUME NEW h, NEW B, NEW S, NEW A, NEW p, Shape(h, B, S, A, {p}),
         NEW size \in Nat, size >= 4, size + 4 <= S[p],
         NEW a1 \in {0, 1}, NEW a2 \in {0, 1},
         NEW q, q = p + size, NEW rest, rest = S[p] - size,
         NEW g, g = Tag(Tag(h, p, size, a1), q, rest, a2)
  PROVE  TwoTagged(g, h, S, A, p, size, q, rest, a1, a2)
<1>1. PICK C, T : C = B \cup {q} /\ T = SplitAt(S, p, size)
  OBVIOUS
<1>2. /\ Shape(h, C, T, A, {p, q}) /\ q \notin B /\ q # p
      /\ T[p] = size /\ T[q] = rest /\ \A x \in A : T[x] = S[x]
  <2>1. IsSplit(h, B, S, A, p, size, p + size)
    BY SplitShape
  <2>2. QED
    BY <1>1, <2>1 DEF IsSplit
<1>3. PICK g1 : g1 = Tag(h, p, size, a1)
  OBVIOUS
<1>4. /\ Shape(g1, C, T, A, {p, q}) /\ Untouched(h, g1, A, T)
      /\ Tagged(g1.mem, p, size, a1) /\ g1.brk = h.brk /\ g1.cnt = h.cnt
      /\ \A a \in Word \ {p - 1, p + size - 2} : g1.mem[a] = h.mem[a]
  <2>1. g1 = Tag(h, p, T[p], a1) /\ p \in {p, q}
    BY <1>2, <1>3
  <2>2. PICK K : K = {p, q}
    OBVIOUS
  <2>3. Shape(h, C, T, A, K) /\ p \in K
    BY <1>2, <2>2
  <2>4. Retagged(g1, h, C, T, A, K, p, a1)
    BY <2>1, <2>3, TagShape
  <2>5. QED
    BY <1>2, <2>2, <2>4 DEF Retagged
<1>5. /\ Shape(g, C, T, A, {p, q}) /\ Untouched(g1, g, A, T)
      /\ Tagged(g.mem, q, rest, a2) /\ g.brk = h.brk /\ g.cnt = h.cnt
      /\ \A a \in Word \ {q - 1, q + rest - 2} : g.mem[a] = g1.mem[a]
  <2>1. g = Tag(g1, q, T[q], a2) /\ q \in {p, q}
    BY <1>2, <1>3
  <2>2. PICK K : K = {p, q}
    OBVIOUS
  <2>3. Shape(g1, C, T, A, K) /\ q \in K
    BY <1>4, <2>2
  <2>4. Retagged(g, g1, C, T, A, K, q, a2)
    BY <2>1, <2>3, TagShape
  <2>5. QED
    BY <1>2, <1>4, <2>2, <2>4 DEF Retagged
<1>6. Tiles(h.brk, C, T) /\ p \in C /\ q \in C /\ A \subseteq C /\ p \notin A /\ q \notin A
  BY <1>2 DEF Shape
<1>7. /\ p \in Int /\ q \in Int /\ rest \in Nat /\ rest >= 4
      /\ p - 1 \in Word /\ p + size - 2 \in Word
  <2>1. p \in Int /\ q \in Int /\ T[q] \in Nat /\ T[q] >= 4
    BY <1>6, ZoneWord
  <2>2. p - 1 \in Word /\ p + T[p] - 2 \in Word
    BY <1>6, TagLinkage
  <2>3. QED
    BY <1>2, <2>1, <2>2
<1>8. Tagged(g.mem, p, size, a1)
  <2>1. p - 1 # q - 1 /\ p - 1 # q + rest - 2 /\ p + size - 2 # q - 1 /\ p + size - 2 # q + rest - 2
    BY <1>7
  <2>2. g.mem[p - 1] = g1.mem[p - 1] /\ g.mem[p + size - 2] = g1.mem[p + size - 2]
    BY <1>5, <1>7, <2>1
  <2>3. QED
    BY <1>4, <2>2 DEF Tagged
<1>9. Untouched(h, g, A, S)
  <2>1. \A x \in A : Zone(x, T) = Zone(x, S)
    BY <1>2 DEF Zone
  <2>2. QED
    BY <1>4, <1>5, <2>1 DEF Untouched
<1>10. \A a \in Word : a \notin {p - 1, p + size - 2, q - 1, q + rest - 2} => g.mem[a] = h.mem[a]
  BY <1>4, <1>5
<1>11. QED
  BY <1>2, <1>5, <1>6, <1>8, <1>9, <1>10 DEF TwoTagged

LEMMA ResultParts == ASSUME NEW h, NEW p, NEW r, r = Result(h, p) PROVE r.h = h /\ r.p = p
  BY DEF Result

Flip(g) == [g EXCEPT !.cnt = 1 - @]

\* The cases of place.
LEMMA PlaceIs ==
  ASSUME NEW h, NEW p, NEW size, NEW blk, NEW r, r = place(h, p, size, blk, FALSE)
  PROVE  /\ ~ Split(h, blk, size) => r = Result(Tag(h, p, blk, 1), p)
         /\ AllocateLast(h, blk, size) =>
              r = Result(Flip(InsertHead(Tag(Tag(h, p, blk - size, 0), p + blk - size, size, 1), p)),
                         p + blk - size)
         /\ Split(h, blk, size) /\ ~ AllocateLast(h, blk, size) =>
              r = Result(Flip(InsertHead(Tag(Tag(h, p, size, 1), p + size, blk - size, 0), p + size)), p)
<1>1. ASSUME ~ Split(h, blk, size) PROVE r = Result(Tag(h, p, blk, 1), p)
  <2>1. ~ AllocateLast(h, blk, size)
    BY <1>1 DEF AllocateLast
  <2>2. QED
    BY <1>1, <2>1 DEF place, Flip
<1>2. ASSUME AllocateLast(h, blk, size)
      PROVE  r = Result(Flip(InsertHead(Tag(Tag(h, p, blk - size, 0), p + blk - size, size, 1), p)),
                        p + blk - size)
  <2>1. Split(h, blk, size)
    BY <1>2 DEF AllocateLast
  <2>2. QED
    BY <1>2, <2>1 DEF place, Flip
<1>3. ASSUME Split(h, blk, size), ~ AllocateLast(h, blk, size)
      PROVE  r = Result(Flip(InsertHead(Tag(Tag(h, p, size, 1), p + size, blk - size, 0), p + size)), p)
  BY <1>3 DEF place, Flip
<1>4. QED
  BY <1>1, <1>2, <1>3

\* place of a block that is in its list takes it out first.
LEMMA PlaceFree ==
  ASSUME NEW h, NEW p, NEW size, NEW blk
  PROVE  place(h, p, size, blk, TRUE) = place(Unlink(h, p), p, size, blk, FALSE)
  BY DEF place

\* flipped of place.
LEMMA FlipShape ==
  ASSUME NEW h, NEW B, NEW S, NEW A, Shape(h, B, S, A, {}),
         NEW g, g = Flip(h)
  PROVE  Shape(g, B, S, A, {}) /\ g.brk = h.brk /\ g.mem = h.mem
<1>1. h \in Heap
  BY DEF Shape
<1>2. g \in Heap /\ g.brk = h.brk /\ g.mem = h.mem
  BY <1>1 DEF Heap, Flip
<1>3. QED
  BY <1>2, ShapeFrame

\* One part of a hole is allocated, the other put in its list.
LEMMA TwoParts ==
  ASSUME NEW h, NEW B, NEW S, NEW A, NEW p, Shape(h, B, S, A, {p}),
         NEW size \in Nat, size >= 4, size + 4 <= S[p],
         NEW q, q = p + size, NEW rest, rest = S[p] - size,
         NEW mine \in {p, q}, NEW other \in {p, q}, mine # other,
         NEW g, g = Tag(Tag(h, p, size, IF mine = p THEN 1 ELSE 0),
                        q, rest, IF mine = q THEN 1 ELSE 0),
         NEW k, k = InsertHead(g, other),
         NEW psize, psize = IF mine = p THEN size ELSE rest
  PROVE  PartAllotted(k, h, S, A, mine, psize)
<1>1. PICK a1 \in {0, 1}, a2 \in {0, 1} : /\ a1 = (IF mine = p THEN 1 ELSE 0)
                                          /\ a2 = (IF mine = q THEN 1 ELSE 0)
  OBVIOUS
<1>2. PICK C, T : /\ Shape(g, C, T, A, {p, q}) /\ q # p /\ p \in C /\ q \in C /\ p \notin A /\ q \notin A
                  /\ T[p] = size /\ T[q] = rest
                  /\ Tagged(g.mem, p, size, a1) /\ Tagged(g.mem, q, rest, a2)
                  /\ \A x \in A : T[x] = S[x]
                  /\ g.brk = h.brk /\ g.cnt = h.cnt
                  /\ Untouched(h, g, A, S)
                  /\ \A a \in Word : a \notin {p - 1, p + size - 2, q - 1, q + rest - 2} =>
                         g.mem[a] = h.mem[a]
  <2>1. g = Tag(Tag(h, p, size, a1), q, rest, a2)
    BY <1>1
  <2>2. TwoTagged(g, h, S, A, p, size, q, rest, a1, a2)
    BY <2>1, TwoTags
  <2>3. QED
    BY <2>2 DEF TwoTagged
<1>3. Tagged(g.mem, mine, T[mine], 1) /\ Tagged(g.mem, other, T[other], 0)
  BY <1>1, <1>2
<1>4. {p, q} \ {mine} = {other} /\ {other} \ {other} = {} /\ mine \in C /\ mine \notin A
  BY <1>2
<1>5. Shape(g, C, T, A \cup {mine}, {other})
  <2>1. Shape(g, C, T, A \cup {mine}, {p, q} \ {mine})
    BY <1>2, <1>3, AllocateShape
  <2>2. QED
    BY <1>4, <2>1
<1>6. /\ Shape(k, C, T, A \cup {mine}, {}) /\ Untouched(g, k, A \cup {mine}, T)
      /\ k.brk = g.brk /\ k.cnt = g.cnt
  <2>1. PICK K, D : K = {other} /\ D = A \cup {mine}
    OBVIOUS
  <2>2. Shape(g, C, T, D, K) /\ other \in K /\ K \ {other} = {}
    BY <1>5, <2>1
  <2>3. /\ Shape(k, C, T, D, K \ {other}) /\ Untouched(g, k, D, T)
        /\ k.brk = g.brk /\ k.cnt = g.cnt
    BY <1>3, <2>2, InsertShape
  <2>4. QED
    BY <2>1, <2>2, <2>3
<1>7. Untouched(h, k, A, S)
  <2>1. \A x \in A : Zone(x, T) = Zone(x, S)
    BY <1>2 DEF Zone
  <2>2. QED
    BY <1>2, <1>6, <2>1 DEF Untouched
<1>8. ASSUME NEW a \in mine .. mine + T[mine] - 3 PROVE k.mem[a] = h.mem[a]
  <2>1. Tiles(g.brk, C, T)
    BY <1>2 DEF Shape
  <2>2. /\ mine \in Int /\ T[mine] \in Nat /\ T[mine] >= 4 /\ Zone(mine, T) \subseteq Word
        /\ p \in Int /\ T[p] \in Nat /\ T[p] >= 4 /\ q \in Int /\ T[q] \in Nat /\ T[q] >= 4
    BY <1>2, <1>4, <2>1, ZoneWord
  <2>3. a \in Zone(mine, T) /\ a \in Int /\ mine <= a /\ a <= mine + T[mine] - 3
    BY <2>2 DEF Zone
  <2>4. k.mem[a] = g.mem[a]
    BY <1>6, <2>3 DEF Untouched
  <2>5. a \notin {p - 1, p + size - 2, q - 1, q + rest - 2}
    BY <1>2, <2>2, <2>3
  <2>6. QED
    BY <1>2, <2>2, <2>3, <2>4, <2>5
<1>9. T[mine] = psize
  BY <1>2
<1>10. QED
  BY <1>2, <1>4, <1>6, <1>7, <1>8, <1>9 DEF PartAllotted

\* What place makes of the hole p.
IsPlaced(h, r, S, A, p, size, blk) ==
    /\ Allotted(h, r, S, A, size) /\ SamePayload(h, r, size)
    /\ r.p = IF AllocateLast(h, blk, size) THEN p + blk - size ELSE p
    /\ r.h.brk = h.brk

\* place on a hole: it is allocated, whole or split.
LEMMA PlaceHole ==
  ASSUME NEW h, NEW B, NEW S, NEW A, NEW p, Shape(h, B, S, A, {p}),
         NEW size \in Nat, size >= 4, NEW blk, blk = S[p], size <= blk,
         NEW r, r = place(h, p, size, blk, FALSE)
  PROVE  IsPlaced(h, r, S, A, p, size, blk)
<1>1. h \in Heap /\ Tiles(h.brk, B, S) /\ A \subseteq B /\ p \in B /\ p \notin A
  BY DEF Shape
<1>2. p \in Int /\ blk \in Nat /\ blk >= 4 /\ Zone(p, S) \subseteq Word
  BY <1>1, ZoneWord
<1>3. CASE ~ Split(h, blk, size)
  <2>1. PICK g : g = Tag(h, p, S[p], 1)
    OBVIOUS
  <2>2. r.h = g /\ r.p = p
    <3>1. r = Result(g, p)
      BY <1>3, <2>1, PlaceIs
    <3>2. QED
      BY <3>1, ResultParts
  <2>3. /\ Shape(g, B, S, A, {p}) /\ Untouched(h, g, A, S)
        /\ Tagged(g.mem, p, S[p], 1) /\ g.brk = h.brk
        /\ \A a \in Word \ {p - 1, p + S[p] - 2} : g.mem[a] = h.mem[a]
    <3>1. PICK K : K = {p}
      OBVIOUS
    <3>2. Retagged(g, h, B, S, A, K, p, 1)
      BY <2>1, <3>1, TagShape
    <3>3. QED
      BY <3>1, <3>2 DEF Retagged
  <2>4. Shape(g, B, S, A \cup {p}, {})
    <3>1. Shape(g, B, S, A \cup {p}, {p} \ {p})
      BY <2>3, AllocateShape
    <3>2. QED
      BY <3>1
  <2>5. ~ AllocateLast(h, blk, size)
    BY <1>3 DEF AllocateLast
  <2>6. Allotted(h, r, S, A, size)
    <3>1. S[p] \in size .. size + 4
      BY <1>2, <1>3 DEF Split, min_malloc_size
    <3>2. QED
      BY <1>1, <2>2, <2>3, <2>4, <3>1 DEF Allotted
  <2>7. ASSUME NEW a \in p .. p + size - 3 PROVE g.mem[a] = h.mem[a]
    <3>1. a \in Zone(p, S) /\ a # p - 1 /\ a # p + S[p] - 2
      BY <1>2 DEF Zone
    <3>2. QED
      BY <1>2, <2>3, <3>1
  <2>8. QED
    BY <2>2, <2>3, <2>5, <2>6, <2>7 DEF SamePayload, IsPlaced
<1>4. CASE AllocateLast(h, blk, size)
  <2> DEFINE cut == blk - size
             q == p + blk - size
             g == Tag(Tag(h, p, cut, 0), q, size, 1)
             k == InsertHead(g, p)
             f == Flip(k)
  <2>1. cut \in Nat /\ cut >= 4 /\ cut + 4 <= S[p] /\ S[p] - cut = size /\ q = p + cut /\ q # p
    BY <1>2, <1>4 DEF AllocateLast, Split, min_malloc_size
  <2>2. r.h = f /\ r.p = q
    <3>1. r = Result(f, q)
      BY <1>4, PlaceIs
    <3> HIDE DEF f, q
    <3>2. QED
      BY <3>1, ResultParts
  <2>3. g = Tag(Tag(h, p, cut, IF q = p THEN 1 ELSE 0), q, size, IF q = q THEN 1 ELSE 0)
    BY <2>1
  <2> HIDE DEF cut, q, g, k, f
  <2>4. PICK C, T : /\ Shape(k, C, T, A \cup {q}, {}) /\ q \in C /\ q \notin A
                    /\ T[q] = size
                    /\ \A x \in A : T[x] = S[x]
                    /\ k.brk = h.brk /\ k.cnt = h.cnt
                    /\ Untouched(h, k, A, S)
                    /\ \A a \in q .. q + size - 3 : k.mem[a] = h.mem[a]
    <3>1. q = p + cut /\ size = S[p] - cut /\ q \in {p, q} /\ p \in {p, q} /\ k = InsertHead(g, p)
      BY <2>1 DEF k
    <3>2. PartAllotted(k, h, S, A, q, size)
      BY <2>1, <2>3, <3>1, TwoParts
    <3>3. QED
      BY <3>2 DEF PartAllotted
  <2>5. Shape(f, C, T, A \cup {q}, {}) /\ f.brk = k.brk /\ f.mem = k.mem
    BY <2>4, FlipShape DEF f
  <2>6. Allotted(h, r, S, A, size)
    <3>1. Shape(r.h, C, T, A \cup {r.p}, {}) /\ r.p \in C /\ r.p \notin A /\ T[r.p] = size
      BY <2>2, <2>4, <2>5, Zenon
    <3>a. T[r.p] \in size .. size + 4
      BY <3>1
    <3>2. Untouched(h, r.h, A, S)
      BY <2>2, <2>4, <2>5 DEF Untouched
    <3>3. QED
      BY <2>4, <3>1, <3>a, <3>2 DEF Allotted
  <2>7. SamePayload(h, r, size)
    BY <2>2, <2>4, <2>5 DEF SamePayload
  <2>8. r.h.brk = h.brk /\ r.p = p + blk - size
    BY <2>2, <2>4, <2>5 DEF q
  <2>9. QED
    BY <1>4, <2>6, <2>7, <2>8 DEF IsPlaced
<1>5. CASE Split(h, blk, size) /\ ~ AllocateLast(h, blk, size)
  <2> DEFINE q == p + size
             rest == blk - size
             g == Tag(Tag(h, p, size, 1), q, rest, 0)
             k == InsertHead(g, q)
             f == Flip(k)
  <2>1. size + 4 <= S[p] /\ rest = S[p] - size /\ q # p
    BY <1>2, <1>5 DEF Split, min_malloc_size
  <2>2. r.h = f /\ r.p = p
    <3>1. r = Result(f, p)
      BY <1>5, PlaceIs
    <3> HIDE DEF f, q
    <3>2. QED
      BY <3>1, ResultParts
  <2>3. g = Tag(Tag(h, p, size, IF p = p THEN 1 ELSE 0), q, rest, IF p = q THEN 1 ELSE 0)
    BY <2>1
  <2> HIDE DEF q, rest, g, k, f
  <2>4. PICK C, T : /\ Shape(k, C, T, A \cup {p}, {}) /\ p \in C /\ p \notin A
                    /\ T[p] = size
                    /\ \A x \in A : T[x] = S[x]
                    /\ k.brk = h.brk /\ k.cnt = h.cnt
                    /\ Untouched(h, k, A, S)
                    /\ \A a \in p .. p + size - 3 : k.mem[a] = h.mem[a]
    <3>1. q = p + size /\ q \in {p, q} /\ p \in {p, q} /\ k = InsertHead(g, q)
      BY DEF q, k
    <3>2. PartAllotted(k, h, S, A, p, size)
      BY <2>1, <2>3, <3>1, TwoParts
    <3>3. QED
      BY <3>2 DEF PartAllotted
  <2>5. Shape(f, C, T, A \cup {p}, {}) /\ f.brk = k.brk /\ f.mem = k.mem
    BY <2>4, FlipShape DEF f
  <2>6. Allotted(h, r, S, A, size)
    <3>1. Shape(r.h, C, T, A \cup {r.p}, {}) /\ r.p \in C /\ r.p \notin A /\ T[r.p] = size
      BY <2>2, <2>4, <2>5, Zenon
    <3>a. T[r.p] \in size .. size + 4
      BY <3>1
    <3>2. Untouched(h, r.h, A, S)
      BY <2>2, <2>4, <2>5 DEF Untouched
    <3>3. QED
      BY <2>4, <3>1, <3>a, <3>2 DEF Allotted
  <2>7. SamePayload(h, r, size)
    BY <2>2, <2>4, <2>5 DEF SamePayload
  <2>8. QED
    BY <1>5, <2>2, <2>4, <2>5, <2>6, <2>7 DEF IsPlaced
<1>6. QED
  BY <1>3, <1>4, <1>5

\* The block after p, when it is free, and the size that its header gives.
LEMMA NextOf ==
  ASSUME NEW h, NEW B, NEW S, NEW A, Shape(h, B, S, A, {}), NEW p \in B,
         NEW n, n = NEXT_BLK(h, p)
  PROVE  /\ n = p + S[p] /\ GET_SIZE(h, n) \in Nat
         /\ IsFree(h, n) => n \in B /\ n \notin A /\ GET_SIZE(h, n) = S[n] /\ n # p
<1>1. Tiles(h.brk, B, S) /\ h.mem[h.brk - 1] = PACK(0, 1)
  BY DEF Shape
<1>2. p \in Int /\ S[p] \in Nat /\ S[p] >= 4
  BY <1>1, ZoneWord
<1>3. n = p + S[p]
  <2>1. GET_SIZE(h, p) = S[p]
    BY SizeOf
  <2>2. QED
    BY <2>1 DEF NEXT_BLK
<1>4. CASE n \in B
  <2>1. GET_SIZE(h, n) = S[n] /\ (IsFree(h, n) <=> n \notin A)
    BY <1>4, SizeOf
  <2>2. S[n] \in Nat
    BY <1>1, <1>4, ZoneWord
  <2>3. QED
    BY <1>2, <1>3, <1>4, <2>1, <2>2
<1>5. CASE n = h.brk
  <2>1. h.mem[n - 1] = 1
    BY <1>1, <1>5 DEF PACK
  <2>2. GET_SIZE(h, n) = 0 /\ ~ IsFree(h, n)
    BY <2>1 DEF GET_SIZE, IsFree, GET_ALLOC, GET
  <2>3. QED
    BY <1>3, <2>2
<1>6. n \in B \/ n = h.brk
  BY <1>1, <1>3 DEF Tiles
<1>7. QED
  BY <1>4, <1>5, <1>6

\* The block before p, when it is free.
LEMMA PrevOf ==
  ASSUME NEW h, NEW B, NEW S, NEW A, Shape(h, B, S, A, {}), NEW p \in B,
         NEW v, v = PREV_BLK(h, p)
  PROVE  /\ GET_SIZE(h, v) \in Nat
         /\ IsFree(h, v) => /\ v \in B /\ v \notin A /\ GET_SIZE(h, v) = S[v]
                            /\ v + S[v] = p /\ v # p
<1>1. /\ Tiles(h.brk, B, S)
      /\ h.mem[PRELOGUE_BLK - 1] = PACK(2, 1) /\ h.mem[PRELOGUE_BLK] = PACK(2, 1)
  BY DEF Shape
<1>2. p \in Int /\ PRELOGUE_BLK \in Int
  BY <1>1, ZoneWord, Consts DEF PRELOGUE_BLK
<1>3. CASE p = FirstBlock
  <2>1. p - 2 = PRELOGUE_BLK
    BY <1>2, <1>3 DEF FirstBlock
  <2>2. h.mem[p - 2] = 5
    BY <1>1, <2>1 DEF PACK
  <2>3. v = PRELOGUE_BLK
    BY <1>2, <2>1, <2>2 DEF PREV_BLK, GET
  <2>4. h.mem[v - 1] = 5
    BY <1>1, <2>3 DEF PACK
  <2>5. GET_SIZE(h, v) = 2 /\ ~ IsFree(h, v)
    BY <2>4 DEF GET_SIZE, IsFree, GET_ALLOC, GET
  <2>6. QED
    BY <2>5
<1>4. ASSUME NEW x \in B, x + S[x] = p
      PROVE  /\ GET_SIZE(h, v) \in Nat
             /\ IsFree(h, v) => /\ v \in B /\ v \notin A /\ GET_SIZE(h, v) = S[v]
                                /\ v + S[v] = p /\ v # p
  <2>1. x \in Int /\ S[x] \in Nat /\ S[x] >= 4
    BY <1>1, ZoneWord
  <2>2. h.mem[x + S[x] - 2] = PACK(S[x], Bit(x, A))
    BY DEF Shape, Tagged
  <2>3. h.mem[p - 2] \div 2 = S[x]
    BY <1>4, <2>1, <2>2 DEF PACK, Bit
  <2>4. v = x
    BY <1>4, <2>1, <2>3 DEF PREV_BLK, GET
  <2>5. GET_SIZE(h, x) = S[x] /\ (IsFree(h, x) <=> x \notin A)
    BY SizeOf
  <2>6. x # p
    BY <1>4, <2>1
  <2>7. QED
    BY <1>4, <2>1, <2>4, <2>5, <2>6
<1>5. p = FirstBlock \/ \E x \in B : x + S[x] = p
  BY <1>1 DEF Tiles
<1>6. QED
  BY <1>3, <1>4, <1>5
-----------------------------------------------------------------------------
(* coalesce and mm_free                                                    *)

\* g is h with other free blocks: those of A are as they were.
Kept(g, h, S, A) ==
    \E C, T : /\ Shape(g, C, T, A, {})
              /\ \A x \in A : T[x] = S[x]
              /\ Untouched(h, g, A, S)
              /\ g.brk = h.brk /\ g.cnt = h.cnt

\* What two steps leave alone.
LEMMA UntouchedTwice ==
  ASSUME NEW h, NEW g, NEW k, NEW A, NEW S, NEW T, \A x \in A : T[x] = S[x],
         Untouched(h, g, A, S), Untouched(g, k, A, T)
  PROVE  Untouched(h, k, A, S)
<1>1. \A x \in A : Zone(x, T) = Zone(x, S)
  BY DEF Zone
<1>2. QED
  BY <1>1 DEF Untouched

\* g is h without holes.
IsFilled(g, h, B, S, A) ==
    Shape(g, B, S, A, {}) /\ Untouched(h, g, A, S) /\ g.brk = h.brk /\ g.cnt = h.cnt

\* A hole becomes a free block in its list.
LEMMA FillShape ==
  ASSUME NEW h, NEW B, NEW S, NEW A, NEW p, NEW H, H = {p}, Shape(h, B, S, A, H),
         NEW t, t = Tag(h, p, S[p], 0), NEW g, g = InsertHead(t, p)
  PROVE  IsFilled(g, h, B, S, A)
<1>3. p \in H /\ H \ {p} = {}
  OBVIOUS
<1>4. Retagged(t, h, B, S, A, H, p, 0)
  BY <1>3, TagShape
<1>5. /\ Shape(t, B, S, A, H) /\ Tagged(t.mem, p, S[p], 0) /\ Untouched(h, t, A, S)
      /\ t.brk = h.brk /\ t.cnt = h.cnt
  BY <1>4 DEF Retagged
<1>7. Shape(g, B, S, A, H \ {p}) /\ Untouched(t, g, A, S) /\ g.brk = t.brk /\ g.cnt = t.cnt
  BY <1>3, <1>5, InsertShape
<1>8. Untouched(h, g, A, S)
  BY <1>5, <1>7 DEF Untouched
<1>9. QED
  BY <1>3, <1>5, <1>7, <1>8 DEF IsFilled

\* A hole with other holes next to it.
IsHole(g, h, B, S, A, p, size) ==
    \E C, T : /\ Shape(g, C, T, A, {p}) /\ T[p] = size
              /\ \A x \in A : T[x] = S[x]
              /\ Untouched(h, g, A, S)
              /\ g.brk = h.brk /\ g.cnt = h.cnt

\* Two holes that are neighbours are one.
LEMMA TwoHoles ==
  ASSUME NEW g, NEW h, NEW B, NEW S, NEW A, NEW p, NEW q, NEW H, H = {p, q}, Shape(g, B, S, A, H),
         q = p + S[p], Untouched(h, g, A, S), g.brk = h.brk, g.cnt = h.cnt
  PROVE  IsHole(g, h, B, S, A, p, S[p] + S[q])
<1>1. p \in H /\ q \in H
  OBVIOUS
<1>2. IsMerged(g, B, S, A, H, p, q)
  BY <1>1, MergeShape
<1>3. PICK T : T = MergedAt(S, p, q)
  OBVIOUS
<1>4. H \ {q} = {p}
  BY <1>2 DEF IsMerged
<1>5. Shape(g, B \ {q}, T, A, {p}) /\ T[p] = S[p] + S[q] /\ \A x \in B \ {p} : T[x] = S[x]
  BY <1>2, <1>3, <1>4 DEF IsMerged
<1>6. A \subseteq B \ {p}
  BY <1>1 DEF Shape
<1>7. QED
  BY <1>5, <1>6 DEF IsHole

\* Three holes that are neighbours are one.
LEMMA ThreeHoles ==
  ASSUME NEW g, NEW h, NEW B, NEW S, NEW A, NEW v, NEW p, NEW n, NEW H, H = {v, p, n},
         Shape(g, B, S, A, H), n = p + S[p], p = v + S[v], v # n,
         Untouched(h, g, A, S), g.brk = h.brk, g.cnt = h.cnt
  PROVE  IsHole(g, h, B, S, A, v, S[v] + (S[p] + S[n]))
<1>1. p \in H /\ n \in H /\ v \in H /\ A \subseteq B /\ H \subseteq B /\ A \cap H = {}
  BY DEF Shape
<1>2. IsMerged(g, B, S, A, H, p, n)
  BY <1>1, MergeShape
<1>3. PICK C, T, K : C = B \ {n} /\ T = MergedAt(S, p, n) /\ K = H \ {n}
  OBVIOUS
<1>4. /\ Shape(g, C, T, A, K) /\ p # n
      /\ T[p] = S[p] + S[n] /\ \A x \in B \ {p} : T[x] = S[x]
  BY <1>2, <1>3 DEF IsMerged
<1>5. Tiles(g.brk, B, S)
  BY DEF Shape
<1>6. v # p
  <2>1. v \in Int /\ S[v] \in Nat /\ S[v] >= 4
    BY <1>1, <1>5, ZoneWord
  <2>2. QED
    BY <2>1
<1>7. K = {v, p} /\ T[v] = S[v] /\ p = v + T[v] /\ \A x \in A : T[x] = S[x]
  BY <1>1, <1>3, <1>4, <1>6
<1>8. v \in K /\ p \in K
  BY <1>7
<1>9. IsMerged(g, C, T, A, K, v, p)
  BY <1>4, <1>7, <1>8, MergeShape
<1>10. PICK U : U = MergedAt(T, v, p)
  OBVIOUS
<1>11. K \ {p} = {v}
  BY <1>6, <1>7
<1>12. Shape(g, C \ {p}, U, A, {v}) /\ U[v] = T[v] + T[p] /\ \A x \in C \ {v} : U[x] = T[x]
  BY <1>9, <1>10, <1>11 DEF IsMerged
<1>13. A \subseteq C \ {v}
  BY <1>1, <1>3
<1>14. U[v] = S[v] + (S[p] + S[n]) /\ \A x \in A : U[x] = S[x]
  BY <1>4, <1>7, <1>12, <1>13
<1>15. QED
  BY <1>12, <1>14 DEF IsHole

\* A hole with its neighbours, tagged and put in its list.
LEMMA HoleKept ==
  ASSUME NEW g, NEW h, NEW B, NEW S, NEW A, NEW p, NEW size, IsHole(g, h, B, S, A, p, size),
         NEW k, k = InsertHead(Tag(g, p, size, 0), p)
  PROVE  Kept(k, h, S, A)
<1>1. PICK C, T : /\ Shape(g, C, T, A, {p}) /\ T[p] = size
                  /\ \A x \in A : T[x] = S[x]
                  /\ Untouched(h, g, A, S)
                  /\ g.brk = h.brk /\ g.cnt = h.cnt
  BY DEF IsHole
<1>2. Shape(k, C, T, A, {}) /\ Untouched(g, k, A, T) /\ k.brk = g.brk /\ k.cnt = g.cnt
  <2>1. PICK H, t : H = {p} /\ t = Tag(g, p, T[p], 0)
    OBVIOUS
  <2>2. Shape(g, C, T, A, H) /\ k = InsertHead(t, p)
    BY <1>1, <2>1
  <2>3. IsFilled(k, g, C, T, A)
    BY <2>1, <2>2, FillShape
  <2>4. QED
    BY <2>3 DEF IsFilled
<1>3. Untouched(h, k, A, S)
  BY <1>1, <1>2, UntouchedTwice
<1>4. QED
  BY <1>1, <1>2, <1>3 DEF Kept
\* coalesce of a block that is in its list.
LEMMA CoalesceShape ==
  ASSUME NEW h, NEW B, NEW S, NEW A, Shape(h, B, S, A, {}), NEW p, p \in B, p \notin A,
         NEW k, k = coalesce(h, p)
  PROVE  Kept(k, h, S, A)
<1> DEFINE v == PREV_BLK(h, p)
           n == NEXT_BLK(h, p)
<1>1. /\ n = p + S[p] /\ GET_SIZE(h, n) \in Nat
      /\ IsFree(h, n) => n \in B /\ n \notin A /\ GET_SIZE(h, n) = S[n] /\ n # p
  <2> HIDE DEF n
  <2>1. n = NEXT_BLK(h, p)
    BY DEF n
  <2>2. QED
    BY <2>1, NextOf
<1>2. /\ GET_SIZE(h, v) \in Nat
      /\ IsFree(h, v) => /\ v \in B /\ v \notin A /\ GET_SIZE(h, v) = S[v]
                         /\ v + S[v] = p /\ v # p
  <2> HIDE DEF v
  <2>1. v = PREV_BLK(h, p)
    BY DEF v
  <2>2. QED
    BY <2>1, PrevOf
<1>3. GET_SIZE(h, p) = S[p] /\ S[p] \in Nat /\ p \in Int /\ Tiles(h.brk, B, S) /\ S[p] >= 4
  <2>1. GET_SIZE(h, p) = S[p]
    BY SizeOf
  <2>2. Tiles(h.brk, B, S)
    BY DEF Shape
  <2>3. QED
    BY <2>1, <2>2, ZoneWord
<1>4. CASE ~ IsFree(h, v) /\ ~ IsFree(h, n)
  <2>1. k = h
    BY <1>4 DEF coalesce
  <2>2. QED
    BY <2>1 DEF Kept, Untouched
<1>5. ASSUME IsFree(h, v), ~ IsFree(h, n) PROVE Kept(k, h, S, A)
  <2>1. PICK g : g = Unlink(Unlink(h, p), v)
    OBVIOUS
  <2>2. k = InsertHead(Tag(g, v, S[v] + S[p], 0), v)
    <3>1. k = InsertHead(Tag(g, v, S[p] + S[v] + 0, 0), v)
      BY <1>2, <1>3, <1>5, <2>1 DEF coalesce
    <3>2. S[p] + S[v] + 0 = S[v] + S[p]
      BY <1>2, <1>3, <1>5
    <3>3. QED
      BY <3>1, <3>2
  <2> HIDE DEF v, n
  <2>3. PICK g1 : g1 = Unlink(h, p)
    OBVIOUS
  <2>4. Shape(g1, B, S, A, {} \cup {p}) /\ Untouched(h, g1, A, S) /\ g1.brk = h.brk /\ g1.cnt = h.cnt
    BY <2>3, UnlinkShape
  <2>5. PICK K : K = {p}
    OBVIOUS
  <2>6. Shape(g1, B, S, A, K) /\ v \in B /\ v \notin A /\ v \notin K /\ g = Unlink(g1, v)
    BY <1>2, <1>5, <2>1, <2>3, <2>4, <2>5
  <2>7. Shape(g, B, S, A, K \cup {v}) /\ Untouched(g1, g, A, S) /\ g.brk = g1.brk /\ g.cnt = g1.cnt
    BY <2>6, UnlinkShape
  <2>8. PICK H : H = K \cup {v}
    OBVIOUS
  <2>9. H = {v, p} /\ Shape(g, B, S, A, H) /\ p = v + S[v]
    BY <1>2, <1>5, <2>5, <2>7, <2>8
  <2>10. Untouched(h, g, A, S) /\ g.brk = h.brk /\ g.cnt = h.cnt
    BY <2>4, <2>7 DEF Untouched
  <2>11. IsHole(g, h, B, S, A, v, S[v] + S[p])
    BY <2>9, <2>10, TwoHoles
  <2>12. QED
    BY <2>2, <2>11, HoleKept
<1>6. ASSUME ~ IsFree(h, v), IsFree(h, n) PROVE Kept(k, h, S, A)
  <2>1. PICK g : g = Unlink(Unlink(h, n), p)
    OBVIOUS
  <2>2. k = InsertHead(Tag(g, p, S[p] + S[n], 0), p)
    <3>1. k = InsertHead(Tag(g, p, S[p] + 0 + S[n], 0), p)
      BY <1>1, <1>3, <1>6, <2>1 DEF coalesce
    <3>2. S[p] + 0 + S[n] = S[p] + S[n]
      BY <1>1, <1>3, <1>6
    <3>3. QED
      BY <3>1, <3>2
  <2> HIDE DEF v, n
  <2>3. PICK g1 : g1 = Unlink(h, n)
    OBVIOUS
  <2>4. Shape(g1, B, S, A, {} \cup {n}) /\ Untouched(h, g1, A, S) /\ g1.brk = h.brk /\ g1.cnt = h.cnt
    BY <1>1, <1>6, <2>3, UnlinkShape
  <2>5. PICK K : K = {n}
    OBVIOUS
  <2>6. Shape(g1, B, S, A, K) /\ p \in B /\ p \notin A /\ p \notin K /\ g = Unlink(g1, p)
    BY <1>1, <1>6, <2>1, <2>3, <2>4, <2>5
  <2>7. Shape(g, B, S, A, K \cup {p}) /\ Untouched(g1, g, A, S) /\ g.brk = g1.brk /\ g.cnt = g1.cnt
    BY <2>6, UnlinkShape
  <2>8. PICK H : H = K \cup {p}
    OBVIOUS
  <2>9. H = {p, n} /\ Shape(g, B, S, A, H) /\ n = p + S[p]
    BY <1>1, <1>6, <2>5, <2>7, <2>8
  <2>10. Untouched(h, g, A, S) /\ g.brk = h.brk /\ g.cnt = h.cnt
    BY <2>4, <2>7 DEF Untouched
  <2>11. IsHole(g, h, B, S, A, p, S[p] + S[n])
    BY <2>9, <2>10, TwoHoles
  <2>12. QED
    BY <2>2, <2>11, HoleKept
<1>7. ASSUME IsFree(h, v), IsFree(h, n) PROVE Kept(k, h, S, A)
  <2>1. PICK g : g = Unlink(Unlink(Unlink(h, p), v), n)
    OBVIOUS
  <2>2. k = InsertHead(Tag(g, v, S[v] + (S[p] + S[n]), 0), v)
    <3>1. k = InsertHead(Tag(g, v, S[p] + S[v] + S[n], 0), v)
      BY <1>1, <1>2, <1>3, <1>7, <2>1 DEF coalesce
    <3>2. S[p] + S[v] + S[n] = S[v] + (S[p] + S[n])
      BY <1>1, <1>2, <1>3, <1>7
    <3>3. QED
      BY <3>1, <3>2
  <2> HIDE DEF v, n
  <2>3. PICK g1 : g1 = Unlink(h, p)
    OBVIOUS
  <2>a. PICK g2 : g2 = Unlink(g1, v)
    OBVIOUS
  <2>4. Shape(g1, B, S, A, {} \cup {p}) /\ Untouched(h, g1, A, S) /\ g1.brk = h.brk /\ g1.cnt = h.cnt
    BY <2>3, UnlinkShape
  <2>5. PICK K : K = {p}
    OBVIOUS
  <2>6. Shape(g1, B, S, A, K) /\ v \in B /\ v \notin A /\ v \notin K
    BY <1>2, <1>7, <2>4, <2>5
  <2>7. Shape(g2, B, S, A, K \cup {v}) /\ Untouched(g1, g2, A, S) /\ g2.brk = g1.brk /\ g2.cnt = g1.cnt
    BY <2>6, <2>a, UnlinkShape
  <2>8. PICK L : L = K \cup {v}
    OBVIOUS
  <2>b. v # n
    <3>1. v \in Int /\ S[v] \in Nat /\ S[v] >= 4
      BY <1>2, <1>3, <1>7, ZoneWord
    <3>2. QED
      BY <3>1, <1>1, <1>2, <1>3, <1>7
  <2>9. Shape(g2, B, S, A, L) /\ n \in B /\ n \notin A /\ n \notin L /\ g = Unlink(g2, n)
    BY <1>1, <1>7, <2>1, <2>3, <2>a, <2>5, <2>7, <2>8, <2>b
  <2>10. Shape(g, B, S, A, L \cup {n}) /\ Untouched(g2, g, A, S) /\ g.brk = g2.brk /\ g.cnt = g2.cnt
    BY <2>9, UnlinkShape
  <2>11. PICK H : H = L \cup {n}
    OBVIOUS
  <2>12. H = {v, p, n} /\ Shape(g, B, S, A, H) /\ n = p + S[p] /\ p = v + S[v]
    BY <1>1, <1>2, <1>7, <2>5, <2>8, <2>10, <2>11
  <2>13. Untouched(h, g, A, S) /\ g.brk = h.brk /\ g.cnt = h.cnt
    BY <2>4, <2>7, <2>10 DEF Untouched
  <2>14. IsHole(g, h, B, S, A, v, S[v] + (S[p] + S[n]))
    BY <2>b, <2>12, <2>13, ThreeHoles
  <2>15. QED
    BY <2>2, <2>14, HoleKept
<1>8. QED
  BY <1>4, <1>5, <1>6, <1>7

\* mm_free gives a block back.
LEMMA FreeShape ==
  ASSUME NEW h, NEW B, NEW S, NEW A, Shape(h, B, S, A, {}), NEW p \in A,
         NEW k, k = mm_free(h, p)
  PROVE  Kept(k, h, S, A \ {p})
<1>1. PICK D : D = A \ {p}
  OBVIOUS
<1>2. p \in B /\ p \notin D /\ D \subseteq A
  BY <1>1 DEF Shape
<1>3. GET_SIZE(h, p) = S[p]
  BY <1>2, SizeOf
<1>4. PICK H : H = {p} /\ Shape(h, B, S, D, H)
  <2>1. Shape(h, B, S, A \ {p}, {} \cup {p})
    BY ForgetShape
  <2>2. QED
    BY <1>1, <2>1
<1>5. PICK t, g : t = Tag(h, p, S[p], 0) /\ g = InsertHead(t, p)
  OBVIOUS
<1>6. Shape(g, B, S, D, {}) /\ Untouched(h, g, D, S) /\ g.brk = h.brk /\ g.cnt = h.cnt
  <2>1. IsFilled(g, h, B, S, D)
    BY <1>4, <1>5, FillShape
  <2>2. QED
    BY <2>1 DEF IsFilled
<1>7. k = coalesce(g, p)
  BY <1>3, <1>5 DEF mm_free
<1>8. Kept(k, g, S, D)
  BY <1>2, <1>6, <1>7, CoalesceShape
<1>9. Kept(k, h, S, D)
  BY <1>6, <1>8, UntouchedTwice DEF Kept, Untouched
<1>10. QED
  BY <1>1, <1>9
-----------------------------------------------------------------------------
(* first fit                                                               *)

LEMMA LeastNat ==
  ASSUME NEW S, S \subseteq Nat, S # {}
  PROVE  \E x \in S : \A y \in S : x <= y
<1>1. PICK x \in S : \A y \in S : ~ (<<y, x>> \in OpToRel(<, Nat))
  BY NatLessThanWellFounded, WFMin
<1>2. \A y \in S : ~ (y < x)
  BY <1>1 DEF OpToRel
<1>3. QED
  BY <1>2

\* The places before that of p are taken by blocks of its list.
IsInPlace(F, c, pos, p) ==
    /\ pos[p] \in Nat \ {0} /\ pos[p] <= Cardinality(F) /\ pos[p] <= MAX_HEAP
    /\ \A k \in 1 .. pos[p] : \E q \in F : c[q] = c[p] /\ pos[q] = k
    /\ Cardinality(F) \in Nat

\* A block is not further down its list than there are blocks, or words.
LEMMA PlacesTaken ==
  ASSUME NEW F \in SUBSET Word, NEW c, NEW pr, NEW nx, NEW hd, NEW pos,
         Chains(F, c, pr, nx, hd, pos), NEW p \in F
  PROVE  IsInPlace(F, c, pos, p)
<1>1. \A q \in F : pos[q] \in Nat \ {0}
  BY DEF Chains
<1>2. PICK n \in Nat \ {0} : n = pos[p]
  BY <1>1
<1> DEFINE At(k) == {q \in F : c[q] = c[p] /\ pos[q] = n - k}
           None == {k \in Nat : k < n /\ At(k) = {}}
<1>3. None = {}
  <2>1. SUFFICES ASSUME None # {} PROVE FALSE
    OBVIOUS
  <2>2. PICK k \in None : \A j \in None : k <= j
    BY <2>1, LeastNat
  <2>3. k # 0
    <3>1. p \in At(0)
      BY <1>2
    <3>2. QED
      BY <3>1
  <2>4. k - 1 \in Nat /\ k - 1 < n /\ k - 1 \notin None
    BY <2>2, <2>3
  <2>5. PICK q \in F : c[q] = c[p] /\ pos[q] = n - (k - 1)
    BY <2>4
  <2>6. pos[q] # 1
    BY <2>5, <2>4, <1>2
  <2>7. pr[q] \in F /\ c[pr[q]] = c[q] /\ pos[q] = pos[pr[q]] + 1
    BY <2>6 DEF Chains
  <2>8. pos[pr[q]] = n - k
    BY <2>5, <2>7, <1>1, <1>2
  <2>9. pr[q] \in At(k)
    BY <2>5, <2>7, <2>8
  <2>10. QED
    BY <2>9
<1>4. \A k \in 1 .. n : \E q \in F : c[q] = c[p] /\ pos[q] = k
  <2>1. TAKE k \in 1 .. n
  <2>2. n - k \in Nat /\ n - k < n /\ n - (n - k) = k
    BY <1>2
  <2>3. n - k \notin None
    BY <1>3
  <2>4. QED
    BY <2>2, <2>3
<1> HIDE DEF None
<1> DEFINE f == [k \in 1 .. n |-> CHOOSE q \in F : c[q] = c[p] /\ pos[q] = k]
<1>5. \A k \in 1 .. n : f[k] \in F /\ pos[f[k]] = k
  BY <1>4
<1>6. f \in Injection(1 .. n, F)
  <2>1. f \in [1 .. n -> F]
    BY <1>5
  <2>2. \A j, k \in 1 .. n : f[j] = f[k] => j = k
    BY <1>5
  <2> HIDE DEF f
  <2>3. QED
    BY <2>1, <2>2 DEF Injection, IsInjective
<1> HIDE DEF f
<1>7. IsFiniteSet(Word) /\ Cardinality(Word) <= MAX_HEAP
  <2>1. PICK b \in Int : b = HeapLo + MAX_HEAP - 1
    BY Consts
  <2>2. /\ IsFiniteSet(HeapLo .. b)
        /\ Cardinality(HeapLo .. b) = IF HeapLo > b THEN 0 ELSE b - HeapLo + 1
    <3>1. HeapLo \in Int
      BY Consts
    <3>2. QED
      BY <3>1, FS_Interval
  <2>3. Word = HeapLo .. b
    BY <2>1 DEF Word
  <2>4. QED
    BY <2>1, <2>2, <2>3, Consts
<1>8. Cardinality(1 .. n) = n /\ IsFiniteSet(1 .. n)
  <2>1. n \in Nat
    BY <1>2
  <2>2. QED
    BY <2>1, FS_Interval
<1>9. IsFiniteSet(F) /\ Cardinality(F) <= Cardinality(Word)
  <2>1. F \subseteq Word
    OBVIOUS
  <2>2. QED
    BY <1>7, <2>1, FS_Subset
<1>10. Cardinality(Word) \in Nat /\ Cardinality(F) \in Nat
  BY <1>7, <1>9, FS_CardinalityType
<1>11. Cardinality(1 .. n) <= Cardinality(F)
  BY <1>6, <1>9, FS_Injection
<1>12. n <= Cardinality(F) /\ n <= MAX_HEAP
  BY <1>2, <1>7, <1>8, <1>9, <1>10, <1>11, Consts
<1>13. QED
  BY <1>2, <1>4, <1>10, <1>12 DEF IsInPlace

LEMMA PlaceInList ==
  ASSUME NEW F \in SUBSET Word, NEW c, NEW pr, NEW nx, NEW hd, NEW pos,
         Chains(F, c, pr, nx, hd, pos), NEW p \in F
  PROVE  pos[p] \in Nat \ {0} /\ pos[p] <= MAX_HEAP
  BY PlacesTaken DEF IsInPlace

Steps == 0 .. MAX_HEAP

WalkStep(h, l, size, f) ==
    [i \in Steps |-> IF i = 0 THEN ListHead(h, l)
                     ELSE LET p == f[i - 1]
                          IN  IF p = NULL \/ GET_SIZE(h, p) >= size THEN p ELSE NEXT_FREE_BLK(h, p)]

LEMMA StepsNat == Steps \subseteq Nat /\ MAX_HEAP \in Steps /\ \A i \in Steps : i # 0 => i - 1 \in Steps
  BY Consts DEF Steps

\* The recursion of FitIn has one solution.
LEMMA WalkUnique ==
  ASSUME NEW h, NEW l, NEW size, NEW f, f = WalkStep(h, l, size, f),
         NEW g, g = WalkStep(h, l, size, g), NEW i \in Steps
  PROVE  f[i] = g[i]
<1> DEFINE Differ == {k \in Steps : f[k] # g[k]}
<1>1. SUFFICES ASSUME Differ # {} PROVE FALSE
  OBVIOUS
<1>2. PICK k \in Differ : \A j \in Differ : k <= j
  BY <1>1, StepsNat, LeastNat
<1>3. /\ WalkStep(h, l, size, f)[k] =
           IF k = 0 THEN ListHead(h, l)
           ELSE IF f[k - 1] = NULL \/ GET_SIZE(h, f[k - 1]) >= size THEN f[k - 1]
                ELSE NEXT_FREE_BLK(h, f[k - 1])
      /\ WalkStep(h, l, size, g)[k] =
           IF k = 0 THEN ListHead(h, l)
           ELSE IF g[k - 1] = NULL \/ GET_SIZE(h, g[k - 1]) >= size THEN g[k - 1]
                ELSE NEXT_FREE_BLK(h, g[k - 1])
  BY DEF WalkStep
<1>4. k # 0
  BY <1>3
<1>5. f[k - 1] = g[k - 1]
  BY <1>2, <1>4, StepsNat
<1>6. QED
  BY <1>3, <1>5

\* The walk of FitIn is the function its steps define.
LEMMA FitInIs ==
  ASSUME NEW h, NEW l, NEW size, NEW g, g = WalkStep(h, l, size, g)
  PROVE  FitIn(h, l, size) = g[MAX_HEAP]
<1> DEFINE f == CHOOSE f1 : f1 = WalkStep(h, l, size, f1)
<1>1. f = WalkStep(h, l, size, f)
  OBVIOUS
<1>2. FitIn(h, l, size) = f[MAX_HEAP]
  BY DEF FitIn, WalkStep, Steps
<1> HIDE DEF f
<1>3. f[MAX_HEAP] = g[MAX_HEAP]
  BY <1>1, StepsNat, WalkUnique
<1>4. QED
  BY <1>2, <1>3

\* p is where the walk along list l is after i steps.
ReachedBy(F, S, c, pos, l, size, i, p) ==
    /\ p \in F /\ c[p] = l
    /\ pos[p] = i + 1 \/ (pos[p] <= i /\ S[p] >= size)
    /\ \A q \in F : c[q] = l /\ pos[q] < pos[p] => S[q] < size

Walk(F, S, c, pos, l, size) ==
    [i \in Steps |-> IF \E p \in F : ReachedBy(F, S, c, pos, l, size, i, p)
                     THEN CHOOSE p \in F : ReachedBy(F, S, c, pos, l, size, i, p)
                     ELSE NULL]

WalkedTo(F, S, c, pos, l, size, i, w) ==
    /\ \A p \in F : ReachedBy(F, S, c, pos, l, size, i, p) => w = p
    /\ (\A p \in F : ~ ReachedBy(F, S, c, pos, l, size, i, p)) => w = NULL
    /\ w # NULL => w \in F /\ ReachedBy(F, S, c, pos, l, size, i, w)

\* What Walk is at each step.
LEMMA WalkAt ==
  ASSUME NEW F \in SUBSET Word, NEW S \in [Word -> Nat], NEW c, NEW pr, NEW nx, NEW hd, NEW pos,
         Chains(F, c, pr, nx, hd, pos), NEW l, NEW size \in Nat, NEW i \in Steps,
         NEW w, w = Walk(F, S, c, pos, l, size)[i]
  PROVE  WalkedTo(F, S, c, pos, l, size, i, w)
<1>1. i \in Nat
  BY StepsNat
<1>2. ASSUME NEW p \in F, NEW q \in F, ReachedBy(F, S, c, pos, l, size, i, p),
             ReachedBy(F, S, c, pos, l, size, i, q)
      PROVE  p = q
  <2>1. /\ pos[p] \in Nat /\ pos[q] \in Nat /\ S[p] \in Nat /\ S[q] \in Nat
        /\ c[p] = c[q] /\ pos[p] = pos[q] => p = q
    BY DEF Chains
  <2>2. /\ c[p] = l /\ (pos[p] = i + 1 \/ (pos[p] <= i /\ S[p] >= size))
        /\ c[q] = l /\ (pos[q] = i + 1 \/ (pos[q] <= i /\ S[q] >= size))
        /\ pos[q] < pos[p] => S[q] < size
        /\ pos[p] < pos[q] => S[p] < size
    BY <1>2 DEF ReachedBy
  <2>3. c[p] = l /\ c[q] = l
    BY <1>2 DEF ReachedBy
  <2>4. pos[p] = pos[q]
    BY <2>1, <2>2, <1>1
  <2>5. QED
    BY <2>1, <2>3, <2>4
<1>3. w = IF \E p \in F : ReachedBy(F, S, c, pos, l, size, i, p)
          THEN CHOOSE p \in F : ReachedBy(F, S, c, pos, l, size, i, p) ELSE NULL
  BY DEF Walk
<1>4. QED
  BY <1>2, <1>3 DEF WalkedTo

\* The walk solves the recursion of FitIn.
LEMMA WalkSolves ==
  ASSUME NEW h, NEW F \in SUBSET Word, NEW S \in [Word -> Nat], NEW c, NEW pr, NEW nx, NEW hd, NEW pos,
         Chains(F, c, pr, nx, hd, pos), NEW l \in Lists, NEW size \in Nat,
         ListHead(h, l) = hd[l],
         \A p \in F : NEXT_FREE_BLK(h, p) = nx[p] /\ GET_SIZE(h, p) = S[p],
         NEW g, g = Walk(F, S, c, pos, l, size)
  PROVE  g = WalkStep(h, l, size, g)
<1> DEFINE R(i, p) == ReachedBy(F, S, c, pos, l, size, i, p)
<1>0. NULL \notin F
  BY Consts DEF Word, NULL
<1>1. ASSUME NEW i \in Steps
      PROVE  /\ \A p \in F : R(i, p) => g[i] = p
             /\ (\A p \in F : ~ R(i, p)) => g[i] = NULL
             /\ g[i] # NULL => g[i] \in F /\ R(i, g[i])
  <2>1. PICK w : w = g[i]
    OBVIOUS
  <2>2. w = Walk(F, S, c, pos, l, size)[i]
    BY <2>1
  <2>3. WalkedTo(F, S, c, pos, l, size, i, w)
    BY <2>2, WalkAt
  <2>4. QED
    BY <2>1, <2>3 DEF WalkedTo
<1>2. \A p \in F : pos[p] \in Nat \ {0} /\ S[p] \in Nat
  BY DEF Chains
<1>3. 0 \in Steps => g[0] = hd[l]
  <2>1. SUFFICES ASSUME 0 \in Steps PROVE g[0] = hd[l]
    OBVIOUS
  <2>2. CASE hd[l] = NULL
    <3>1. ASSUME NEW p \in F, R(0, p) PROVE FALSE
      <4>1. c[p] = l /\ pos[p] = 1
        BY <3>1, <1>2 DEF ReachedBy
      <4>2. pr[p] = NULL
        <5>1. pr[p] # NULL => pr[p] \in F /\ pos[p] = pos[pr[p]] + 1
          BY DEF Chains
        <5>2. QED
          BY <5>1, <4>1, <1>2
      <4>3. hd[c[p]] = p
        BY <4>2 DEF Chains
      <4>4. QED
        BY <4>1, <4>3, <2>2, <1>0
    <3>2. QED
      BY <2>1, <2>2, <3>1, <1>1
  <2>3. CASE hd[l] # NULL
    <3>1. hd[l] \in F /\ c[hd[l]] = l /\ pr[hd[l]] = NULL
      BY <2>3 DEF Chains
    <3>2. pos[hd[l]] = 1
      BY <3>1 DEF Chains
    <3>3. R(0, hd[l])
      BY <3>1, <3>2, <1>2 DEF ReachedBy
    <3>4. QED
      BY <2>1, <3>1, <3>3, <1>1
  <2>4. QED
    BY <2>2, <2>3
<1>4. ASSUME NEW i \in Steps, i # 0, g[i - 1] = NULL PROVE g[i] = NULL
  <2>1. i \in Nat /\ i - 1 \in Steps /\ i >= 1
    BY <1>4, StepsNat
  <2>2. ASSUME NEW p \in F, R(i, p) PROVE FALSE
    <3>1. /\ c[p] = l /\ (pos[p] = i + 1 \/ (pos[p] <= i /\ S[p] >= size))
          /\ \A q \in F : c[q] = l /\ pos[q] < pos[p] => S[q] < size
      BY <2>2 DEF ReachedBy
    <3>2. CASE pos[p] = i + 1
      <4>1. pos[p] # 1
        BY <3>2, <2>1
      <4>2. pr[p] \in F /\ c[pr[p]] = c[p] /\ pos[p] = pos[pr[p]] + 1
        BY <4>1 DEF Chains
      <4>3. pos[pr[p]] = i
        BY <3>2, <4>2, <1>2, <2>1
      <4>4. (i - 1) + 1 = i
        BY <2>1
      <4>5. \A q \in F : pos[q] < i => pos[q] < pos[p]
        BY <3>2, <1>2, <2>1
      <4>6. R(i - 1, pr[p])
        BY <3>1, <4>2, <4>3, <4>4, <4>5 DEF ReachedBy
      <4>7. QED
        BY <4>2, <4>6, <1>0, <1>1, <1>4, <2>1
    <3>3. CASE pos[p] <= i /\ S[p] >= size
      <4>1. pos[p] = (i - 1) + 1 \/ pos[p] <= i - 1
        BY <3>3, <1>2, <2>1
      <4>2. R(i - 1, p)
        BY <3>1, <3>3, <4>1 DEF ReachedBy
      <4>3. QED
        BY <4>2, <1>0, <1>1, <1>4, <2>1
    <3>4. QED
      BY <3>1, <3>2, <3>3
  <2>3. QED
    BY <2>2, <1>1
<1>5. ASSUME NEW i \in Steps, i # 0, g[i - 1] # NULL, S[g[i - 1]] >= size PROVE g[i] = g[i - 1]
  <2>1. i \in Nat /\ i - 1 \in Steps /\ i >= 1
    BY <1>5, StepsNat
  <2>2. PICK p \in F : p = g[i - 1] /\ R(i - 1, p)
    BY <2>1, <1>1, <1>5
  <2>3. pos[p] <= i
    BY <2>1, <2>2, <1>2 DEF ReachedBy
  <2>4. R(i, p)
    BY <1>5, <2>2, <2>3 DEF ReachedBy
  <2>5. QED
    BY <2>2, <2>4, <1>1
<1>6. ASSUME NEW i \in Steps, i # 0, g[i - 1] # NULL, ~ (S[g[i - 1]] >= size)
      PROVE  g[i] = nx[g[i - 1]]
  <2>1. i \in Nat /\ i - 1 \in Steps /\ i >= 1 /\ (i - 1) + 1 = i
    BY <1>6, StepsNat
  <2>2. PICK p \in F : p = g[i - 1] /\ R(i - 1, p)
    BY <2>1, <1>1, <1>6
  <2>3. /\ c[p] = l /\ pos[p] = i /\ S[p] < size
        /\ \A q \in F : c[q] = l /\ pos[q] < pos[p] => S[q] < size
    BY <1>2, <1>6, <2>1, <2>2 DEF ReachedBy
  <2>4. \A q \in F : c[q] = l /\ pos[q] <= i => S[q] < size
    <3>1. TAKE q \in F
    <3>2. c[q] = l /\ pos[q] = i => q = p
      BY <2>3 DEF Chains
    <3>3. QED
      BY <2>1, <2>3, <3>2, <1>2
  <2>5. CASE nx[p] # NULL
    <3>1. PICK q \in F : q = nx[p] /\ pr[q] = p
      BY <2>5 DEF Chains
    <3>2. c[q] = l /\ pos[q] = i + 1
      BY <2>3, <3>1, <1>0 DEF Chains
    <3>3. \A r \in F : pos[r] < pos[q] => pos[r] <= i
      BY <2>1, <3>2, <1>2
    <3>4. R(i, q)
      BY <2>4, <3>2, <3>3 DEF ReachedBy
    <3>5. QED
      BY <2>2, <3>1, <3>4, <1>1
  <2>6. CASE nx[p] = NULL
    <3>1. ASSUME NEW q \in F, R(i, q) PROVE FALSE
      <4>1. c[q] = l /\ (pos[q] = i + 1 \/ (pos[q] <= i /\ S[q] >= size))
        BY <3>1 DEF ReachedBy
      <4>2. pos[q] = i + 1
        BY <2>4, <4>1, <1>2
      <4>3. pos[q] # 1
        BY <2>1, <4>2
      <4>4. pr[q] \in F /\ c[pr[q]] = c[q] /\ nx[pr[q]] = q /\ pos[q] = pos[pr[q]] + 1
        BY <4>3 DEF Chains
      <4>5. pos[pr[q]] = i
        BY <4>2, <4>4, <1>2, <2>1
      <4>6. pr[q] = p
        BY <2>3, <4>1, <4>4, <4>5 DEF Chains
      <4>7. QED
        BY <2>6, <4>4, <4>6, <1>0
    <3>2. QED
      BY <2>2, <2>6, <3>1, <1>1
  <2>7. QED
    BY <2>5, <2>6
<1>7. \A i \in Steps : g[i] = IF i = 0 THEN ListHead(h, l)
                             ELSE IF g[i - 1] = NULL \/ GET_SIZE(h, g[i - 1]) >= size THEN g[i - 1]
                                  ELSE NEXT_FREE_BLK(h, g[i - 1])
  <2>1. TAKE i \in Steps
  <2>2. CASE i = 0
    BY <2>2, <1>3
  <2>3. CASE i # 0 /\ g[i - 1] = NULL
    BY <2>3, <1>4
  <2>4. CASE i # 0 /\ g[i - 1] # NULL
    <3>1. g[i - 1] \in F
      BY <2>4, <1>1, StepsNat
    <3>2. QED
      BY <2>4, <3>1, <1>5, <1>6
  <2>5. QED
    BY <2>2, <2>3, <2>4
<1>8. g = [i \in Steps |-> g[i]]
  BY DEF Walk
<1>9. QED
  <2> HIDE DEF R
  <2>1. QED
    BY <1>7, <1>8 DEF WalkStep

\* r is a block of list l of at least size words, or NULL when there is none.
FitsIn(r, F, S, l, size) ==
    /\ r # NULL => r \in F /\ dispatch_size(S[r]) = l /\ S[r] >= size
    /\ r = NULL => \A q \in F : dispatch_size(S[q]) = l => S[q] < size

\* FitIn finds a block of a list that is large enough.
LEMMA FitInFits ==
  ASSUME NEW h, NEW B, NEW S, NEW A, Shape(h, B, S, A, {}), NEW l \in Lists, NEW size \in Nat,
         NEW r, r = FitIn(h, l, size)
  PROVE  FitsIn(r, B \ A, S, l, size)
<1>1. PICK F : F = B \ A
  OBVIOUS
<1>2. Tiles(h.brk, B, S) /\ F \subseteq B /\ LinkedAs(h.mem, F, S)
  <2>1. (B \ A) \ {} = F
    BY <1>1
  <2>2. QED
    BY <1>1, <2>1 DEF Shape
<1>3. F \in SUBSET Word /\ S \in [Word -> Nat]
  BY <1>2 DEF Tiles
<1>4. PICK pr \in [Word -> Nat], nx \in [Word -> Nat], pos \in [Word -> Nat], hd \in [Lists -> Nat] :
          Ptrs(h.mem, F, pr, nx, hd) /\ Chains(F, ListOf(S), pr, nx, hd, pos)
  BY <1>2 DEF LinkedAs
<1>5. PICK c : c = ListOf(S)
  OBVIOUS
<1>6. ListHead(h, l) = hd[l]
  <2>1. h.mem[HeapLo + l] = 2 * hd[l] /\ hd[l] \in Nat
    BY <1>4 DEF Ptrs
  <2>2. QED
    BY <2>1 DEF ListHead, GET
<1>7. \A p \in F : NEXT_FREE_BLK(h, p) = nx[p] /\ GET_SIZE(h, p) = S[p]
  <2>1. TAKE p \in F
  <2>2. h.mem[p + 1] = 2 * nx[p] /\ nx[p] \in Nat
    BY <1>3, <1>4 DEF Ptrs
  <2>3. GET_SIZE(h, p) = S[p]
    BY <1>2, SizeOf
  <2>4. QED
    BY <2>2, <2>3 DEF NEXT_FREE_BLK, GET
<1>8. PICK g : g = Walk(F, S, c, pos, l, size)
  OBVIOUS
<1>9. Chains(F, c, pr, nx, hd, pos)
  BY <1>4, <1>5
<1>10. g = WalkStep(h, l, size, g)
  BY <1>3, <1>6, <1>7, <1>8, <1>9, WalkSolves
<1>11. r = g[MAX_HEAP]
  BY <1>10, FitInIs
<1>12. WalkedTo(F, S, c, pos, l, size, MAX_HEAP, r)
  <2>1. MAX_HEAP \in Steps /\ r = Walk(F, S, c, pos, l, size)[MAX_HEAP]
    BY <1>8, <1>11, StepsNat
  <2>2. QED
    BY <1>3, <1>9, <2>1, WalkAt
<1>13. \A p \in F : /\ pos[p] \in Nat \ {0} /\ pos[p] <= MAX_HEAP /\ S[p] \in Nat
                    /\ c[p] = dispatch_size(S[p])
  <2>1. TAKE p \in F
  <2>2. pos[p] \in Nat \ {0} /\ pos[p] <= MAX_HEAP
    BY <1>3, <1>9, PlaceInList
  <2>3. QED
    BY <2>2, <1>3, <1>5 DEF ListOf
<1>14. r # NULL => r \in F /\ dispatch_size(S[r]) = l /\ S[r] >= size
  BY <1>12, <1>13, Consts DEF WalkedTo, ReachedBy
<1>15. ASSUME r = NULL, NEW q \in F, dispatch_size(S[q]) = l PROVE S[q] < size
  <2> DEFINE Fits == {p \in F : c[p] = l /\ S[p] >= size}
             Places == {pos[p] : p \in Fits}
  <2>1. SUFFICES ASSUME ~ (S[q] < size) PROVE FALSE
    OBVIOUS
  <2>2. q \in Fits
    BY <1>13, <1>15, <2>1
  <2>3. Places \subseteq Nat /\ Places # {}
    BY <1>13, <2>2
  <2>4. PICK p \in Fits : \A x \in Fits : pos[p] <= pos[x]
    <3>1. PICK n \in Places : \A k \in Places : n <= k
      BY <2>3, LeastNat
    <3>2. QED
      BY <3>1
  <2>5. \A x \in F : c[x] = l /\ pos[x] < pos[p] => S[x] < size
    BY <2>4, <1>13
  <2>6. ReachedBy(F, S, c, pos, l, size, MAX_HEAP, p)
    BY <2>4, <2>5, <1>13 DEF ReachedBy
  <2>7. r = p
    BY <1>12, <2>4, <2>6 DEF WalkedTo
  <2>8. NULL \notin F
    BY <1>3, Consts DEF Word, NULL
  <2>9. QED
    BY <1>15, <2>4, <2>7, <2>8
<1>16. QED
  BY <1>1, <1>14, <1>15 DEF FitsIn

\* r is a free block of at least size words, or NULL when there is none.
IsFit(r, F, S, size) ==
    /\ r # NULL => r \in F /\ S[r] >= size
    /\ r = NULL => \A q \in F : S[q] < size

\* first_fit finds a free block that is large enough if there is one: the lists
\* below that of the size hold smaller blocks.
LEMMA FirstFitFits ==
  ASSUME NEW h, NEW B, NEW S, NEW A, Shape(h, B, S, A, {}), NEW size \in Nat,
         NEW r, r = linked_list_first_fit(h, size)
  PROVE  IsFit(r, B \ A, S, size)
<1> DEFINE L == {l \in Lists : l >= dispatch_size(size) /\ FitIn(h, l, size) # NULL}
<1>1. \A l \in Lists : FitsIn(FitIn(h, l, size), B \ A, S, l, size)
  BY FitInFits
<1>2. CASE L = {}
  <2>1. r = NULL
    BY <1>2 DEF linked_list_first_fit
  <2>2. ASSUME NEW q \in B \ A PROVE S[q] < size
    <3>1. S[q] \in Nat
      BY ZoneWord DEF Shape
    <3>2. SUFFICES ASSUME size <= S[q] PROVE FALSE
      BY <3>1
    <3>3. PICK l \in Lists : l = dispatch_size(S[q])
      BY DispatchInLists
    <3>4. l >= dispatch_size(size)
      BY <3>1, <3>2, <3>3, DispatchMonotone, DispatchInLists DEF Lists
    <3>5. FitIn(h, l, size) = NULL
      BY <1>2, <3>4
    <3>6. S[q] < size
      BY <1>1, <3>3, <3>5 DEF FitsIn
    <3>7. QED
      BY <3>1, <3>2, <3>6
  <2>3. QED
    BY <2>1, <2>2 DEF IsFit
<1>3. CASE L # {}
  <2>1. r = FitIn(h, Min(L), size)
    BY <1>3 DEF linked_list_first_fit
  <2>2. Min(L) \in L
    <3>1. L \subseteq Nat
      BY DEF Lists
    <3> HIDE DEF L
    <3>2. \E x \in L : \A y \in L : x <= y
      BY <1>3, <3>1, LeastNat
    <3>3. QED
      BY <3>2 DEF Min
  <2>3. r # NULL
    BY <2>1, <2>2
  <2>4. r \in B \ A /\ S[r] >= size
    BY <1>1, <2>1, <2>2, <2>3 DEF FitsIn
  <2>5. QED
    BY <2>3, <2>4 DEF IsFit
<1>4. QED
  BY <1>2, <1>3
-----------------------------------------------------------------------------
(* mm_malloc                                                               *)

\* What is allotted after a step that touches no block of A is allotted.
LEMMA AllottedFrom ==
  ASSUME NEW h, NEW g, NEW r, NEW S, NEW T, NEW A, NEW size, Allotted(g, r, T, A, size),
         \A x \in A : T[x] = S[x], Untouched(h, g, A, S)
  PROVE  Allotted(h, r, S, A, size)
<1>1. PICK C, U : /\ Shape(r.h, C, U, A \cup {r.p}, {}) /\ r.p \in C /\ r.p \notin A
                  /\ U[r.p] \in size .. size + 4
                  /\ \A x \in A : U[x] = T[x]
                  /\ Untouched(g, r.h, A, T)
  BY DEF Allotted
<1>2. Untouched(h, r.h, A, S)
  <2>1. PICK k : k = r.h
    OBVIOUS
  <2>2. Untouched(h, k, A, S)
    BY <1>1, <2>1, UntouchedTwice
  <2>3. QED
    BY <2>1, <2>2
<1>3. \A x \in A : U[x] = S[x]
  BY <1>1
<1>4. QED
  BY <1>1, <1>2, <1>3 DEF Allotted

LEMMA AllottedNotNull ==
  ASSUME NEW h, NEW r, NEW S, NEW A, NEW size, Allotted(h, r, S, A, size)
  PROVE  r.p # NULL
  BY Consts DEF Allotted, Shape, Tiles, Word, NULL

\* What mm_malloc returns: a block for itself, or NULL, and it grows the heap or
\* fails only when no free block is large enough.
Mallocked(h, r, B, S, A, need) ==
    /\ r.p = NULL => r.h = h
    /\ r.p # NULL => Allotted(h, r, S, A, need)
    /\ r.p = NULL \/ r.h.brk # h.brk => \A q \in B \ A : S[q] < need
    /\ r.h.brk >= h.brk

\* The cases of mm_malloc.
MallocCases(h, r, need, fit, incr) ==
    /\ fit # NULL => r = place(Unlink(h, fit), fit, need, GET_SIZE(h, fit), FALSE)
    /\ fit = NULL /\ CanGrow(h, incr) =>
         r = place(PUT(mem_sbrk(h, incr), h.brk + incr - 1, PACK(0, 1)), h.brk, need, incr, FALSE)
    /\ fit = NULL /\ ~ CanGrow(h, incr) => r = Result(h, NULL)

\* mm_malloc has these cases and no other.
LEMMA MallocIs ==
  ASSUME NEW h, NEW size, NEW r, r = mm_malloc(h, size), NEW need, need = BlockSize(size),
         NEW fit, fit = linked_list_first_fit(h, need),
         NEW incr, incr = IF need > CHUNK_SIZE THEN need ELSE CHUNK_SIZE
  PROVE  MallocCases(h, r, need, fit, incr)
<1>1. ASSUME fit # NULL PROVE r = place(Unlink(h, fit), fit, need, GET_SIZE(h, fit), FALSE)
  <2>1. r = place(h, fit, need, GET_SIZE(h, fit), TRUE)
    BY <1>1 DEF mm_malloc
  <2>2. QED
    BY <2>1, PlaceFree
<1>2. ASSUME fit = NULL, CanGrow(h, incr)
      PROVE  r = place(PUT(mem_sbrk(h, incr), h.brk + incr - 1, PACK(0, 1)), h.brk, need, incr, FALSE)
  BY <1>2 DEF mm_malloc
<1>3. ASSUME fit = NULL, ~ CanGrow(h, incr) PROVE r = Result(h, NULL)
  BY <1>3 DEF mm_malloc
<1>4. QED
  BY <1>1, <1>2, <1>3 DEF MallocCases

\* mm_malloc on a heap without holes.
LEMMA MallocShape ==
  ASSUME NEW h, NEW B, NEW S, NEW A, Shape(h, B, S, A, {}), NEW size \in Nat, size >= 2,
         NEW r, r = mm_malloc(h, size), NEW need, need = BlockSize(size)
  PROVE  Mallocked(h, r, B, S, A, need)
<1>1. need \in Nat /\ need >= 4
  BY DEF BlockSize
<1>2. PICK fit : fit = linked_list_first_fit(h, need)
  OBVIOUS
<1>3. PICK incr : incr = IF need > CHUNK_SIZE THEN need ELSE CHUNK_SIZE
  OBVIOUS
<1>4. incr \in Nat /\ incr >= need
  BY <1>1, <1>3, Consts DEF CHUNK_SIZE
<1>5. IsFit(fit, B \ A, S, need)
  BY <1>1, <1>2, FirstFitFits
<1>6. /\ fit # NULL => r = place(Unlink(h, fit), fit, need, GET_SIZE(h, fit), FALSE)
      /\ fit = NULL /\ CanGrow(h, incr) =>
           r = place(PUT(mem_sbrk(h, incr), h.brk + incr - 1, PACK(0, 1)), h.brk, need, incr, FALSE)
      /\ fit = NULL /\ ~ CanGrow(h, incr) => r = Result(h, NULL)
  <2>1. MallocCases(h, r, need, fit, incr)
    BY <1>2, <1>3, MallocIs
  <2>2. QED
    BY <2>1 DEF MallocCases
<1>7. h.brk \in Int /\ A \subseteq B
  BY DEF Shape, Tiles
<1>8. CASE fit # NULL
  <2>1. fit \in B /\ fit \notin A /\ S[fit] >= need
    BY <1>5, <1>8 DEF IsFit
  <2>2. PICK g : g = Unlink(h, fit)
    OBVIOUS
  <2>3. /\ Shape(g, B, S, A, {} \cup {fit}) /\ Untouched(h, g, A, S)
        /\ g.brk = h.brk
    BY <2>1, <2>2, UnlinkShape
  <2>4. Shape(g, B, S, A, {fit})
    <3>1. {} \cup {fit} = {fit}
      OBVIOUS
    <3>2. QED
      BY <2>3, <3>1
  <2>5. PICK blk : blk = S[fit]
    OBVIOUS
  <2>6. need <= blk /\ r = place(g, fit, need, blk, FALSE)
    <3>1. GET_SIZE(h, fit) = S[fit] /\ S[fit] \in Nat
      <4>1. fit \in B \ {} /\ Tiles(h.brk, B, S)
        BY <2>1 DEF Shape
      <4>2. QED
        BY <4>1, SizeOf, ZoneWord
    <3>2. QED
      BY <1>1, <1>6, <1>8, <2>1, <2>2, <2>5, <3>1
  <2>7. Allotted(g, r, S, A, need) /\ r.h.brk = g.brk
    <3>1. IsPlaced(g, r, S, A, fit, need, blk)
      BY <1>1, <2>4, <2>5, <2>6, PlaceHole
    <3>2. QED
      BY <3>1 DEF IsPlaced
  <2>8. Allotted(h, r, S, A, need)
    BY <2>3, <2>7, AllottedFrom
  <2>9. r.p # NULL
    BY <2>8, AllottedNotNull
  <2>10. QED
    BY <1>7, <2>3, <2>7, <2>8, <2>9 DEF Mallocked
<1>9. CASE fit = NULL /\ CanGrow(h, incr)
  <2>1. PICK b : b = h.brk
    OBVIOUS
  <2>2. PICK g : g = PUT(mem_sbrk(h, incr), h.brk + incr - 1, PACK(0, 1))
    OBVIOUS
  <2>3. IsGrown(g, h, S, A, b, incr)
    <3>1. IsGrown(g, h, S, A, h.brk, incr)
      BY <1>1, <1>4, <1>9, <2>2, GrowShape
    <3>2. QED
      BY <2>1, <3>1
  <2>4. PICK C, T : /\ Shape(g, C, T, A, {b}) /\ T[b] = incr
                    /\ g.brk = b + incr
                    /\ Untouched(h, g, A, S)
                    /\ \A x \in A : T[x] = S[x]
    BY <2>3 DEF IsGrown
  <2>5. r = place(g, b, need, incr, FALSE)
    BY <1>6, <1>9, <2>1, <2>2
  <2>6. Allotted(g, r, T, A, need) /\ r.h.brk = g.brk
    <3>1. IsPlaced(g, r, T, A, b, need, incr)
      BY <1>1, <1>4, <2>4, <2>5, PlaceHole
    <3>2. QED
      BY <3>1 DEF IsPlaced
  <2>7. Allotted(h, r, S, A, need)
    BY <2>4, <2>6, AllottedFrom
  <2>8. r.p # NULL
    BY <2>7, AllottedNotNull
  <2>9. r.h.brk >= h.brk
    BY <1>4, <1>7, <2>1, <2>4, <2>6
  <2>10. QED
    BY <1>5, <1>9, <2>7, <2>8, <2>9 DEF Mallocked, IsFit
<1>10. CASE fit = NULL /\ ~ CanGrow(h, incr)
  <2>1. r.h = h /\ r.p = NULL
    BY <1>6, <1>10, ResultParts
  <2>2. r.h.brk >= h.brk
    BY <1>7, <2>1
  <2>3. QED
    BY <1>5, <1>10, <2>1, <2>2 DEF Mallocked, IsFit
<1>11. QED
  BY <1>8, <1>9, <1>10
-----------------------------------------------------------------------------
(* mm_realloc                                                              *)

\* n words from p on are at r.p.
Copied(h, r, p, n) == \A k \in 0 .. n - 1 : r.h.mem[r.p + k] = h.mem[p + k]

LEMMA CopyWrites ==
  ASSUME NEW h \in Heap, NEW dst \in Int, NEW src \in Int, NEW n \in Nat,
         src .. src + n - 1 \subseteq Word, NEW g, g = mm_memcpy(h, dst, src, n)
  PROVE  /\ g \in Heap /\ g.brk = h.brk /\ g.cnt = h.cnt
         /\ \A a \in Word : g.mem[a] = IF a \in dst .. dst + n - 1 THEN h.mem[src + (a - dst)] ELSE h.mem[a]
<1>1. \A a \in Word : a \in dst .. dst + n - 1 => src + a - dst = src + (a - dst) /\ src + a - dst \in Word
  BY Consts DEF Word
<1>2. /\ g.mem = [a \in Word |-> IF a \in dst .. dst + n - 1 THEN h.mem[src + a - dst] ELSE h.mem[a]]
      /\ g.brk = h.brk /\ g.cnt = h.cnt /\ g = [h EXCEPT !.mem = g.mem]
  BY DEF mm_memcpy, Heap
<1>3. \A a \in Word : g.mem[a] \in Int
  BY <1>1, <1>2 DEF Heap
<1>4. g.mem \in [Word -> Int]
  BY <1>2, <1>3
<1>5. g \in Heap
  BY <1>2, <1>4 DEF Heap
<1>6. QED
  BY <1>1, <1>2, <1>5

\* What is copied into a hole leaves the shape alone.
LEMMA CopyShape ==
  ASSUME NEW h, NEW B, NEW S, NEW A, NEW p, NEW H, H = {p}, Shape(h, B, S, A, H),
         NEW dst \in Int, NEW src \in Int, NEW n \in Nat,
         src .. src + n - 1 \subseteq Word, p <= dst, dst + n <= p + S[p] - 2,
         NEW g, g = mm_memcpy(h, dst, src, n)
  PROVE  /\ Shape(g, B, S, A, H) /\ Untouched(h, g, A, S)
<1>1. h \in Heap /\ Tiles(h.brk, B, S) /\ p \in B
  BY DEF Shape
<1>2. p \in Int /\ S[p] \in Nat
  BY <1>1, ZoneWord
<1>3. /\ g \in Heap /\ g.brk = h.brk
      /\ \A a \in Word : g.mem[a] = IF a \in dst .. dst + n - 1 THEN h.mem[src + (a - dst)] ELSE h.mem[a]
  BY <1>1, CopyWrites
<1>4. dst .. dst + n - 1 \subseteq Zone(p, S)
  BY <1>2 DEF Zone
<1>5. \A a \in Word : (\A q \in H : a \notin Zone(q, S)) => g.mem[a] = h.mem[a]
  BY <1>3, <1>4
<1>6. QED
  BY <1>3, <1>5, ShapeFrame

\* What MoveAndPlace makes of the hole v.
IsMoved(h, r, S, A, p, size, n) ==
    Allotted(h, r, S, A, size) /\ Copied(h, r, p, n) /\ r.h.brk = h.brk

\* The payload of p is moved into the hole v.
LEMMA MoveShape ==
  ASSUME NEW h, NEW B, NEW S, NEW A, NEW v, NEW H, H = {v}, Shape(h, B, S, A, H),
         NEW p \in Int, NEW n \in Nat, n = GET_SIZE(h, p) - 2, p .. p + n - 1 \subseteq Word,
         NEW size \in Nat, size >= 4, n + 2 <= size, NEW total, total = S[v], size <= total,
         NEW r, r = MoveAndPlace(h, p, v, size, total)
  PROVE  IsMoved(h, r, S, A, p, size, n)
<1>1. PICK dst : dst = IF AllocateLast(h, total, size) THEN v + total - size ELSE v
  OBVIOUS
<1>2. PICK m : m = mm_memcpy(h, dst, p, n)
  OBVIOUS
<1>3. h \in Heap /\ v \in Int /\ S[v] \in Nat
  <2>1. h \in Heap /\ Tiles(h.brk, B, S) /\ v \in B
    BY DEF Shape
  <2>2. QED
    BY <2>1, ZoneWord
<1>4. dst \in Int /\ v <= dst /\ dst + size <= v + total /\ dst + n <= v + S[v] - 2
  BY <1>1, <1>3
<1>5. /\ m.brk = h.brk /\ m.cnt = h.cnt
      /\ \A a \in Word : m.mem[a] = IF a \in dst .. dst + n - 1 THEN h.mem[p + (a - dst)] ELSE h.mem[a]
  BY <1>2, <1>3, <1>4, CopyWrites
<1>6. Shape(m, B, S, A, H) /\ Untouched(h, m, A, S)
  BY <1>2, <1>4, CopyShape
<1>7. r = place(m, v, size, total, FALSE)
  BY <1>1, <1>2 DEF MoveAndPlace
<1>8. IsPlaced(m, r, S, A, v, size, total)
  <2>1. Shape(m, B, S, A, {v})
    BY <1>6
  <2>2. QED
    BY <2>1, <1>7, PlaceHole
<1>9. Allotted(m, r, S, A, size) /\ SamePayload(m, r, size) /\ r.h.brk = m.brk
  BY <1>8 DEF IsPlaced
<1>10. r.p = dst
  <2>1. AllocateLast(m, total, size) <=> AllocateLast(h, total, size)
    BY <1>5 DEF AllocateLast, Split
  <2>2. QED
    BY <1>1, <1>8, <2>1 DEF IsPlaced
<1>11. Copied(h, r, p, n)
  <2>1. SUFFICES ASSUME NEW k \in 0 .. n - 1 PROVE r.h.mem[dst + k] = h.mem[p + k]
    BY <1>10 DEF Copied
  <2>2. PICK a : a = dst + k
    OBVIOUS
  <2>3. a \in Int /\ a \in dst .. dst + size - 3 /\ a \in dst .. dst + n - 1 /\ a - dst = k
    BY <1>4, <2>2
  <2>4. a \in Word
    <3>1. Tiles(h.brk, B, S) /\ v \in B
      BY DEF Shape
    <3>2. Zone(v, S) \subseteq Word
      BY <3>1, ZoneWord
    <3>3. a \in Zone(v, S)
      BY <1>3, <1>4, <2>3 DEF Zone
    <3>4. QED
      BY <3>2, <3>3
  <2>5. r.h.mem[a] = m.mem[a]
    BY <1>9, <1>10, <2>3 DEF SamePayload
  <2>6. m.mem[a] = h.mem[p + k]
    BY <1>5, <2>3, <2>4
  <2>7. QED
    BY <2>2, <2>5, <2>6
<1>12. Allotted(h, r, S, A, size)
  BY <1>6, <1>9, AllottedFrom
<1>13. QED
  BY <1>5, <1>9, <1>11, <1>12 DEF IsMoved

\* The cases of mm_realloc, for a block and a request that is not zero.
ReallocCases(h, r, p, size, need, mine, v, n) ==
    /\ need = mine => r = Result(h, p)
    /\ need < mine => r = place(h, p, need, mine, FALSE)
    /\ need > mine /\ IsFree(h, n) /\ mine + GET_SIZE(h, n) >= need =>
         r = place([Unlink(h, n) EXCEPT !.cnt = 0], p, need, mine + GET_SIZE(h, n), FALSE)
    /\ need > mine /\ ~ (IsFree(h, n) /\ mine + GET_SIZE(h, n) >= need)
         /\ IsFree(h, v) /\ mine + GET_SIZE(h, v) >= need =>
         r = MoveAndPlace(Unlink(h, v), p, v, need, mine + GET_SIZE(h, v))
    /\ need > mine /\ ~ (IsFree(h, n) /\ mine + GET_SIZE(h, n) >= need)
         /\ ~ (IsFree(h, v) /\ mine + GET_SIZE(h, v) >= need)
         /\ IsFree(h, v) /\ IsFree(h, n) /\ (mine + GET_SIZE(h, n)) + GET_SIZE(h, v) >= need =>
         r = MoveAndPlace(Unlink(Unlink(h, v), n), p, v, need, (mine + GET_SIZE(h, n)) + GET_SIZE(h, v))
    /\ need > mine /\ ~ (IsFree(h, n) /\ mine + GET_SIZE(h, n) >= need)
         /\ ~ (IsFree(h, v) /\ mine + GET_SIZE(h, v) >= need)
         /\ ~ (IsFree(h, v) /\ IsFree(h, n) /\ (mine + GET_SIZE(h, n)) + GET_SIZE(h, v) >= need) =>
         r = (IF mm_malloc(h, size).p = NULL THEN mm_malloc(h, size)
              ELSE Result(mm_free(mm_memcpy(mm_malloc(h, size).h, mm_malloc(h, size).p, p, mine - 2), p),
                          mm_malloc(h, size).p))

\* mm_realloc has these cases and no other.
LEMMA ReallocIs ==
  ASSUME NEW h, NEW p, p # NULL, NEW size \in Nat, size # 0, NEW r, r = mm_realloc(h, p, size),
         NEW need \in Int, need = BlockSize(size), NEW mine \in Int, mine = GET_SIZE(h, p),
         NEW v, v = PREV_BLK(h, p), NEW n, n = NEXT_BLK(h, p)
  PROVE  ReallocCases(h, r, p, size, need, mine, v, n)
<1> DEFINE useNext == IsFree(h, n) /\ mine + GET_SIZE(h, n) >= need
           usePrev == IsFree(h, v) /\ mine + GET_SIZE(h, v) >= need
           useBoth == IsFree(h, v) /\ IsFree(h, n) /\ (mine + GET_SIZE(h, n)) + GET_SIZE(h, v) >= need
<1>1. r = CASE p = NULL -> mm_malloc(h, size)
          [] p # NULL /\ size = 0 -> Result(mm_free(h, p), p)
          [] p # NULL /\ size # 0 /\ need = mine -> Result(h, p)
          [] p # NULL /\ size # 0 /\ need < mine -> place(h, p, need, mine, FALSE)
          [] p # NULL /\ need > mine /\ useNext ->
                place([Unlink(h, n) EXCEPT !.cnt = 0], p, need, mine + GET_SIZE(h, n), FALSE)
          [] p # NULL /\ need > mine /\ ~useNext /\ usePrev ->
                MoveAndPlace(Unlink(h, v), p, v, need, mine + GET_SIZE(h, v))
          [] p # NULL /\ need > mine /\ ~useNext /\ ~usePrev /\ useBoth ->
                MoveAndPlace(Unlink(Unlink(h, v), n), p, v, need, (mine + GET_SIZE(h, n)) + GET_SIZE(h, v))
          [] OTHER ->
                IF mm_malloc(h, size).p = NULL THEN mm_malloc(h, size)
                ELSE Result(mm_free(mm_memcpy(mm_malloc(h, size).h, mm_malloc(h, size).p, p, mine - 2), p),
                            mm_malloc(h, size).p)
  BY DEF mm_realloc
<1> HIDE DEF useNext, usePrev, useBoth
<1>2. ASSUME need = mine
      PROVE  r = Result(h, p)
  <2>1. size # 0 /\ p # NULL /\ ~ (need < mine) /\ ~ (need > mine)
    BY <1>2
  <2>2. QED
    BY <1>1, <1>2, <2>1, Zenon
<1>3. ASSUME need < mine
      PROVE  r = place(h, p, need, mine, FALSE)
  <2>1. size # 0 /\ p # NULL /\ need # mine /\ ~ (need > mine)
    BY <1>3
  <2>2. QED
    BY <1>1, <1>3, <2>1, Zenon
<1>4. ASSUME need > mine, useNext
      PROVE  r = place([Unlink(h, n) EXCEPT !.cnt = 0], p, need, mine + GET_SIZE(h, n), FALSE)
  <2>1. size # 0 /\ p # NULL /\ need # mine /\ ~ (need < mine)
    BY <1>4
  <2>2. QED
    BY <1>1, <1>4, <2>1, Zenon
<1>5. ASSUME need > mine, ~ useNext, usePrev
      PROVE  r = MoveAndPlace(Unlink(h, v), p, v, need, mine + GET_SIZE(h, v))
  <2>1. size # 0 /\ p # NULL /\ need # mine /\ ~ (need < mine)
    BY <1>5
  <2>2. QED
    BY <1>1, <1>5, <2>1, Zenon
<1>6. ASSUME need > mine, ~ useNext, ~ usePrev, useBoth
      PROVE  r = MoveAndPlace(Unlink(Unlink(h, v), n), p, v, need, (mine + GET_SIZE(h, n)) + GET_SIZE(h, v))
  <2>1. size # 0 /\ p # NULL /\ need # mine /\ ~ (need < mine)
    BY <1>6
  <2>2. QED
    BY <1>1, <1>6, <2>1, Zenon
<1>7. ASSUME need > mine, ~ useNext, ~ usePrev, ~ useBoth
      PROVE  r = (IF mm_malloc(h, size).p = NULL THEN mm_malloc(h, size)
                  ELSE Result(mm_free(mm_memcpy(mm_malloc(h, size).h, mm_malloc(h, size).p, p, mine - 2), p),
                              mm_malloc(h, size).p))
  <2>1. size # 0 /\ p # NULL /\ need # mine /\ ~ (need < mine)
    BY <1>7
  <2>2. QED
    BY <1>1, <1>7, <2>1, Zenon
<1>8. QED
  BY <1>2, <1>3, <1>4, <1>5, <1>6, <1>7, Zenon DEF ReallocCases, useNext, usePrev, useBoth

\* g is h with the holes H.
WithHoles(g, h, B, S, A, H) ==
    Shape(g, B, S, A, H) /\ Untouched(h, g, A, S) /\ g.brk = h.brk /\ g.cnt = h.cnt

\* A free block out of its list is a hole.
LEMMA UnlinkHole ==
  ASSUME NEW h, NEW B, NEW S, NEW A, NEW H, Shape(h, B, S, A, H),
         NEW p, p \in B, p \notin A, p \notin H, NEW g, g = Unlink(h, p), NEW K, K = H \cup {p}
  PROVE  WithHoles(g, h, B, S, A, K)
<1>1. Shape(g, B, S, A, H \cup {p}) /\ Untouched(h, g, A, S) /\ g.brk = h.brk /\ g.cnt = h.cnt
  BY UnlinkShape
<1>2. QED
  BY <1>1 DEF WithHoles

\* The block r.p in place of p, with n words of its payload.
Relocated(h, r, S, D, p, size, n) ==
    Allotted(h, r, S, D, size) /\ Copied(h, r, p, n) /\ r.h.brk >= h.brk

\* The payload of an allocated block, when nothing has touched it.
LEMMA Payload ==
  ASSUME NEW h, NEW B, NEW S, NEW A, NEW H, Shape(h, B, S, A, H), NEW p, p \in A,
         NEW g, Untouched(h, g, A, S)
  PROVE  /\ p \in Int /\ S[p] \in Nat /\ S[p] >= 4 /\ p # NULL /\ h.brk \in Int
         /\ p .. p + (S[p] - 2) - 1 \subseteq Word
         /\ GET_SIZE(g, p) = S[p]
         /\ \A k \in 0 .. (S[p] - 2) - 1 : g.mem[p + k] = h.mem[p + k]
<1>1. Tiles(h.brk, B, S) /\ p \in B /\ p \notin H
  BY DEF Shape
<1>2. p \in Int /\ S[p] \in Nat /\ S[p] >= 4 /\ h.brk \in Int /\ Zone(p, S) \subseteq Word /\ p \in Word
  BY <1>1, ZoneWord DEF Tiles
<1>3. \A a \in Zone(p, S) : g.mem[a] = h.mem[a]
  BY DEF Untouched
<1>4. p - 1 \in Zone(p, S) /\ p .. p + (S[p] - 2) - 1 \subseteq Zone(p, S)
  BY <1>2 DEF Zone
<1>5. GET_SIZE(g, p) = S[p]
  <2>1. GET_SIZE(h, p) = S[p]
    BY <1>1, SizeOf
  <2>2. QED
    BY <1>3, <1>4, <2>1 DEF GET_SIZE, GET
<1>6. ASSUME NEW k \in 0 .. (S[p] - 2) - 1 PROVE g.mem[p + k] = h.mem[p + k]
  <2>1. p + k \in p .. p + (S[p] - 2) - 1
    BY <1>2
  <2>2. QED
    BY <1>3, <1>4, <2>1
<1>7. QED
  BY <1>2, <1>4, <1>5, <1>6, Consts DEF Word, NULL

\* The payload of an allocated block is moved into a hole that takes its place.
LEMMA MoveIntoHole ==
  ASSUME NEW h, NEW B, NEW S, NEW A, Shape(h, B, S, A, {}), NEW p, p \in A, NEW D, D = A \ {p},
         NEW g, NEW v, NEW total, IsHole(g, h, B, S, D, v, total), Untouched(h, g, A, S),
         NEW need \in Nat, need > S[p], need <= total,
         NEW r, r = MoveAndPlace(g, p, v, need, total),
         NEW n, n = S[p] - 2
  PROVE  Relocated(h, r, S, D, p, need, n)
<1>1. PICK C, T, H : /\ H = {v} /\ Shape(g, C, T, D, H) /\ T[v] = total
                     /\ \A x \in D : T[x] = S[x]
                     /\ Untouched(h, g, D, S)
                     /\ g.brk = h.brk
  BY DEF IsHole
<1>2. /\ p \in Int /\ S[p] \in Nat /\ S[p] >= 4 /\ h.brk \in Int
      /\ p .. p + n - 1 \subseteq Word
      /\ GET_SIZE(g, p) = S[p]
      /\ \A k \in 0 .. n - 1 : g.mem[p + k] = h.mem[p + k]
  BY Payload
<1>3. n \in Nat /\ n = GET_SIZE(g, p) - 2 /\ n + 2 <= need /\ need >= 4
  BY <1>2
<1>4. IsMoved(g, r, T, D, p, need, n)
  BY <1>1, <1>2, <1>3, MoveShape
<1>5. Allotted(g, r, T, D, need) /\ Copied(g, r, p, n) /\ r.h.brk = g.brk
  BY <1>4 DEF IsMoved
<1>6. Allotted(h, r, S, D, need)
  BY <1>1, <1>5, AllottedFrom
<1>7. Copied(h, r, p, n)
  BY <1>2, <1>5 DEF Copied
<1>8. r.h.brk >= h.brk
  BY <1>1, <1>2, <1>5
<1>9. QED
  BY <1>6, <1>7, <1>8 DEF Relocated

\* mm_realloc with the free block before p.
LEMMA ReallocPrev ==
  ASSUME NEW h, NEW B, NEW S, NEW A, Shape(h, B, S, A, {}), NEW p, p \in A, NEW D, D = A \ {p},
         NEW v, v \in B, v \notin A, v + S[v] = p,
         NEW need \in Nat, need > S[p], NEW total, total = S[p] + S[v], need <= total,
         NEW r, r = MoveAndPlace(Unlink(h, v), p, v, need, total),
         NEW n, n = S[p] - 2
  PROVE  Relocated(h, r, S, D, p, need, n)
<1>1. PICK g : g = Unlink(h, v)
  OBVIOUS
<1>2. Shape(g, B, S, A, {} \cup {v}) /\ Untouched(h, g, A, S) /\ g.brk = h.brk /\ g.cnt = h.cnt
  BY <1>1, UnlinkShape
<1>3. PICK K : K = {} \cup {v}
  OBVIOUS
<1>4. Shape(g, B, S, A \ {p}, K \cup {p})
  BY <1>2, <1>3, ForgetShape
<1>5. PICK H : H = K \cup {p}
  OBVIOUS
<1>6. H = {v, p} /\ Shape(g, B, S, D, H) /\ p = v + S[v]
  BY <1>3, <1>4, <1>5
<1>7. Untouched(h, g, D, S)
  BY <1>2 DEF Untouched
<1>8. IsHole(g, h, B, S, D, v, S[v] + S[p])
  BY <1>2, <1>6, <1>7, TwoHoles
<1>9. S[v] + S[p] = total
  <2>1. Tiles(h.brk, B, S) /\ p \in B
    BY DEF Shape
  <2>2. S[v] \in Nat /\ S[p] \in Nat
    BY <2>1, ZoneWord
  <2>3. QED
    BY <2>2
<1>10. IsHole(g, h, B, S, D, v, total) /\ r = MoveAndPlace(g, p, v, need, total)
  BY <1>1, <1>8, <1>9
<1>11. QED
  BY <1>2, <1>10, MoveIntoHole

\* mm_realloc with both neighbours.
LEMMA ReallocBoth ==
  ASSUME NEW h, NEW B, NEW S, NEW A, Shape(h, B, S, A, {}), NEW p, p \in A, NEW D, D = A \ {p},
         NEW v, v \in B, v \notin A, v + S[v] = p, NEW x, x \in B, x \notin A, x = p + S[p],
         NEW need \in Nat, need > S[p], NEW total, total = (S[p] + S[x]) + S[v], need <= total,
         NEW r, r = MoveAndPlace(Unlink(Unlink(h, v), x), p, v, need, total),
         NEW n, n = S[p] - 2
  PROVE  Relocated(h, r, S, D, p, need, n)
<1>a. Tiles(h.brk, B, S) /\ p \in B
  BY DEF Shape
<1>b. /\ S[v] \in Nat /\ S[p] \in Nat /\ S[x] \in Nat /\ v \in Int /\ S[p] >= 4 /\ S[v] >= 4
      /\ p \in Int
  BY <1>a, ZoneWord
<1>c. v # x
  BY <1>b
<1>1. PICK f, g : f = Unlink(h, v) /\ g = Unlink(f, x)
  OBVIOUS
<1>3. PICK N, K : N = {} /\ K = N \cup {v}
  OBVIOUS
<1>2. Shape(f, B, S, A, K) /\ Untouched(h, f, A, S) /\ f.brk = h.brk /\ f.cnt = h.cnt
  <2>1. Shape(h, B, S, A, N) /\ v \notin N
    BY <1>3
  <2>2. WithHoles(f, h, B, S, A, K)
    BY <1>1, <1>3, <2>1, UnlinkHole
  <2>3. QED
    BY <2>2 DEF WithHoles
<1>4. x \notin K
  BY <1>3, <1>c
<1>6. PICK L : L = K \cup {x}
  OBVIOUS
<1>5. Shape(g, B, S, A, L) /\ Untouched(f, g, A, S) /\ g.brk = f.brk /\ g.cnt = f.cnt
  <2>1. WithHoles(g, f, B, S, A, L)
    BY <1>1, <1>2, <1>4, <1>6, UnlinkHole
  <2>2. QED
    BY <2>1 DEF WithHoles
<1>7. Shape(g, B, S, A \ {p}, L \cup {p})
  BY <1>5, <1>6, ForgetShape
<1>8. PICK H : H = L \cup {p}
  OBVIOUS
<1>9. H = {v, p, x} /\ Shape(g, B, S, D, H) /\ p = v + S[v]
  BY <1>3, <1>6, <1>7, <1>8
<1>10. Untouched(h, g, A, S) /\ Untouched(h, g, D, S) /\ g.brk = h.brk /\ g.cnt = h.cnt
  BY <1>2, <1>5 DEF Untouched
<1>11. IsHole(g, h, B, S, D, v, S[v] + (S[p] + S[x]))
  BY <1>9, <1>10, <1>c, ThreeHoles
<1>12. S[v] + (S[p] + S[x]) = total
  BY <1>b
<1>13. IsHole(g, h, B, S, D, v, total) /\ r = MoveAndPlace(g, p, v, need, total)
  BY <1>1, <1>11, <1>12
<1>14. QED
  BY <1>10, <1>13, MoveIntoHole

\* mm_realloc with the free block after p: cnt is 0, so the block stays where it is.
LEMMA ReallocNext ==
  ASSUME NEW h, NEW B, NEW S, NEW A, Shape(h, B, S, A, {}), NEW p, p \in A, NEW D, D = A \ {p},
         NEW x, x \in B, x \notin A, x = p + S[p],
         NEW need \in Nat, need > S[p], NEW total, total = S[p] + S[x], need <= total,
         NEW r, r = place([Unlink(h, x) EXCEPT !.cnt = 0], p, need, total, FALSE),
         NEW n, n = S[p] - 2
  PROVE  Relocated(h, r, S, D, p, need, n)
<1>1. PICK f, g : f = Unlink(h, x) /\ g = [f EXCEPT !.cnt = 0]
  OBVIOUS
<1>3. PICK N, K : N = {} /\ K = N \cup {x}
  OBVIOUS
<1>2. Untouched(h, f, A, S) /\ f.brk = h.brk /\ Shape(f, B, S, A, K)
  <2>1. Shape(h, B, S, A, N) /\ x \notin N
    BY <1>3
  <2>2. WithHoles(f, h, B, S, A, K)
    BY <1>1, <1>3, <2>1, UnlinkHole
  <2>3. QED
    BY <2>2 DEF WithHoles
<1>4. Shape(f, B, S, A, K)
  BY <1>2
<1>5. g \in Heap /\ g.brk = f.brk /\ g.mem = f.mem /\ g.cnt = 0
  <2>1. f \in Heap
    BY <1>4 DEF Shape
  <2>2. QED
    BY <1>1, <2>1 DEF Heap
<1>6. Shape(g, B, S, A, K)
  BY <1>4, <1>5, ShapeFrame
<1>7. Shape(g, B, S, A \ {p}, K \cup {p})
  BY <1>6, ForgetShape
<1>8. PICK H : H = K \cup {p}
  OBVIOUS
<1>9. H = {p, x} /\ Shape(g, B, S, D, H)
  BY <1>3, <1>7, <1>8
<1>10. Untouched(h, g, A, S) /\ Untouched(h, g, D, S)
  BY <1>2, <1>5 DEF Untouched
<1>12. IsHole(g, g, B, S, D, p, total)
  <2>1. Untouched(g, g, D, S)
    BY DEF Untouched
  <2>2. QED
    BY <1>9, <2>1, TwoHoles
<1>13. PICK C, T : Shape(g, C, T, D, {p}) /\ T[p] = total /\ \A y \in D : T[y] = S[y]
  BY <1>12 DEF IsHole
<1>14. /\ p \in Int /\ S[p] \in Nat /\ S[p] >= 4 /\ h.brk \in Int
       /\ \A k \in 0 .. n - 1 : g.mem[p + k] = h.mem[p + k]
  BY <1>10, Payload
<1>15. IsPlaced(g, r, T, D, p, need, total)
  <2>1. r = place(g, p, need, total, FALSE) /\ need >= 4
    BY <1>1, <1>14
  <2>2. QED
    BY <1>13, <2>1, PlaceHole
<1>16. Allotted(g, r, T, D, need) /\ SamePayload(g, r, need) /\ r.h.brk = g.brk /\ r.p = p
  <2>1. ~ AllocateLast(g, total, need)
    BY <1>5 DEF AllocateLast
  <2>2. QED
    BY <1>15, <2>1 DEF IsPlaced
<1>17. Allotted(h, r, S, D, need)
  BY <1>10, <1>13, <1>16, AllottedFrom
<1>18. Copied(h, r, p, n)
  <2>1. SUFFICES ASSUME NEW k \in 0 .. n - 1 PROVE r.h.mem[p + k] = h.mem[p + k]
    BY <1>16 DEF Copied
  <2>2. p + k \in p .. p + need - 3
    BY <1>14
  <2>3. r.h.mem[p + k] = g.mem[p + k]
    BY <1>16, <2>2 DEF SamePayload
  <2>4. QED
    BY <1>14, <2>3
<1>19. r.h.brk >= h.brk
  <2>1. r.h.brk = h.brk
    BY <1>2, <1>5, <1>16
  <2>2. PICK b \in Int : b = h.brk
    BY <1>14
  <2>3. b >= b
    BY <2>2
  <2>4. QED
    BY <2>1, <2>2, <2>3, Zenon
<1>20. QED
  BY <1>17, <1>18, <1>19 DEF Relocated

\* mm_realloc out of place: a block from mm_malloc, the payload copied, p freed.
LEMMA ReallocFar ==
  ASSUME NEW h, NEW B, NEW S, NEW A, Shape(h, B, S, A, {}), NEW p, p \in A, NEW D, D = A \ {p},
         NEW need \in Nat, need > S[p],
         NEW new, Allotted(h, new, S, A, need), new.h.brk >= h.brk,
         NEW n, n = S[p] - 2,
         NEW k, k = mm_free(mm_memcpy(new.h, new.p, p, n), p),
         NEW r, r = Result(k, new.p)
  PROVE  Relocated(h, r, S, D, p, need, n)
<1>1. PICK g, q : g = new.h /\ q = new.p
  OBVIOUS
<1>2. PICK C, T : /\ Shape(g, C, T, A \cup {q}, {}) /\ q \in C /\ q \notin A
                  /\ T[q] \in need .. need + 4
                  /\ \A y \in A : T[y] = S[y]
                  /\ Untouched(h, g, A, S)
  BY <1>1 DEF Allotted
<1>3. /\ p \in Int /\ S[p] \in Nat /\ S[p] >= 4
      /\ p .. p + n - 1 \subseteq Word
      /\ \A i \in 0 .. n - 1 : g.mem[p + i] = h.mem[p + i]
  BY <1>2, Payload
<1>4. PICK H, E : H = {q} /\ E = A \cup {q}
  OBVIOUS
<1>5. Shape(g, C, T, A, H)
  <2>1. Shape(g, C, T, E, {}) /\ q \in E
    BY <1>2, <1>4
  <2>2. Shape(g, C, T, E \ {q}, {} \cup {q})
    BY <2>1, ForgetShape
  <2>3. E \ {q} = A /\ {} \cup {q} = H
    BY <1>2, <1>4
  <2>4. QED
    BY <2>2, <2>3
<1>6. PICK m : m = mm_memcpy(g, q, p, n)
  OBVIOUS
<1>7. Tiles(g.brk, C, T) /\ g \in Heap
  BY <1>5 DEF Shape
<1>8. q \in Int /\ T[q] \in Nat /\ T[q] >= need /\ n \in Nat /\ Zone(q, T) \subseteq Word /\ T[q] >= 4
  BY <1>2, <1>3, <1>7, ZoneWord
<1>9. Shape(m, C, T, A, H) /\ Untouched(g, m, A, T)
  <2>1. q <= q /\ q + n <= q + T[q] - 2
    BY <1>3, <1>8
  <2>2. QED
    BY <1>3, <1>4, <1>5, <1>6, <1>8, <2>1, CopyShape
<1>10. /\ m.brk = g.brk
       /\ \A a \in Word : m.mem[a] = IF a \in q .. q + n - 1 THEN g.mem[p + (a - q)] ELSE g.mem[a]
  BY <1>3, <1>6, <1>7, <1>8, CopyWrites
<1>11. Tagged(m.mem, q, T[q], 1)
  <2>1. Tagged(g.mem, q, T[q], Bit(q, A \cup {q}))
    BY <1>2 DEF Shape
  <2>2. q - 1 \in Word /\ q + T[q] - 2 \in Word
    <3>1. q - 1 \in Zone(q, T) /\ q + T[q] - 2 \in Zone(q, T)
      BY <1>8 DEF Zone
    <3>2. QED
      BY <1>8, <3>1
  <2>3. q - 1 \notin q .. q + n - 1 /\ q + T[q] - 2 \notin q .. q + n - 1
    BY <1>3, <1>8
  <2>4. m.mem[q - 1] = g.mem[q - 1] /\ m.mem[q + T[q] - 2] = g.mem[q + T[q] - 2]
    BY <1>10, <2>2, <2>3
  <2>5. QED
    BY <2>1, <2>4 DEF Tagged, Bit
<1>12. Shape(m, C, T, E, {})
  <2>1. Shape(m, C, T, A \cup {q}, H \ {q})
    BY <1>4, <1>9, <1>11, AllocateShape
  <2>2. H \ {q} = {}
    BY <1>4
  <2>3. QED
    BY <1>4, <2>1, <2>2
<1>13. PICK G : G = E \ {p}
  OBVIOUS
<1>14. Kept(k, m, T, G)
  <2>1. p \in E /\ k = mm_free(m, p)
    BY <1>1, <1>4, <1>6
  <2>2. QED
    BY <1>12, <1>13, <2>1, FreeShape
<1>15. p # q /\ G = D \cup {q} /\ q \notin D
  BY <1>2, <1>4, <1>13
<1>16. PICK Q, U : /\ Shape(k, Q, U, G, {})
                   /\ \A y \in G : U[y] = T[y]
                   /\ Untouched(m, k, G, T)
                   /\ k.brk = m.brk
  BY <1>14 DEF Kept
<1>17. r.h = k /\ r.p = q
  BY <1>1, ResultParts
<1>18. Untouched(h, k, D, S)
  <2>1. \A y \in D : T[y] = S[y] /\ y \in A /\ y \in G
    BY <1>2, <1>15
  <2>2. \A y \in D : Zone(y, T) = Zone(y, S)
    BY <2>1 DEF Zone
  <2>3. QED
    BY <1>2, <1>9, <1>16, <2>1, <2>2 DEF Untouched
<1>19. Allotted(h, r, S, D, need)
  <2>1. \A y \in D : U[y] = S[y]
    BY <1>2, <1>15, <1>16
  <2>2. Shape(r.h, Q, U, D \cup {r.p}, {}) /\ r.p \in Q /\ r.p \notin D
    <3>1. q \in Q
      BY <1>15, <1>16 DEF Shape
    <3>2. QED
      BY <1>15, <1>16, <1>17, <3>1
  <2>3. U[r.p] \in need .. need + 4
    BY <1>2, <1>15, <1>16, <1>17
  <2>4. QED
    BY <1>17, <1>18, <2>1, <2>2, <2>3 DEF Allotted
<1>20. Copied(h, r, p, n)
  <2>1. SUFFICES ASSUME NEW i \in 0 .. n - 1 PROVE k.mem[q + i] = h.mem[p + i]
    BY <1>17 DEF Copied
  <2>2. PICK a : a = q + i
    OBVIOUS
  <2>3. a \in Zone(q, T) /\ a \in q .. q + n - 1 /\ a - q = i
    BY <1>3, <1>8, <2>2 DEF Zone
  <2>4. k.mem[a] = m.mem[a]
    BY <1>15, <1>16, <2>3 DEF Untouched
  <2>5. m.mem[a] = g.mem[p + i]
    BY <1>8, <1>10, <2>3
  <2>6. QED
    BY <1>3, <2>2, <2>4, <2>5
<1>21. r.h.brk >= h.brk
  <2>1. r.h.brk = new.h.brk
    BY <1>1, <1>10, <1>16, <1>17
  <2>2. QED
    BY <2>1
<1>22. QED
  BY <1>19, <1>20, <1>21 DEF Relocated

\* What mm_realloc returns: a block that holds as much of the payload of p as fits,
\* unless p is cut in two, or NULL.
Reallocked(h, r, S, A, p, need, n) ==
    /\ r.p = NULL => r.h = h
    /\ r.p # NULL => /\ Allotted(h, r, S, A \ {p}, need)
                     /\ S[p] < need + 5 => Copied(h, r, p, n)
    /\ r.h.brk >= h.brk

\* mm_realloc of an allocated block of a heap without holes.
LEMMA ReallocShape ==
  ASSUME NEW h, NEW B, NEW S, NEW A, Shape(h, B, S, A, {}), NEW p, p \in A,
         NEW size \in Nat, size >= 2, NEW need, need = BlockSize(size),
         NEW r, r = mm_realloc(h, p, size),
         NEW n, n = (IF S[p] < need THEN S[p] ELSE need) - 2
  PROVE  Reallocked(h, r, S, A, p, need, n)
<1>1. PICK D : D = A \ {p}
  OBVIOUS
<1>2. need \in Nat /\ need >= 4 /\ size # 0
  BY DEF BlockSize
<1>3. /\ p \in Int /\ S[p] \in Nat /\ S[p] >= 4 /\ p # NULL /\ h.brk \in Int
      /\ GET_SIZE(h, p) = S[p] /\ p \in B
  <2>1. PICK g : g = h
    OBVIOUS
  <2>2. Untouched(h, g, A, S)
    BY <2>1 DEF Untouched
  <2>3. p \in B
    BY DEF Shape
  <2>4. /\ p \in Int /\ S[p] \in Nat /\ S[p] >= 4 /\ p # NULL /\ h.brk \in Int
        /\ GET_SIZE(g, p) = S[p]
    BY <2>2, Payload
  <2>5. QED
    BY <2>1, <2>3, <2>4
<1>4. PICK v, x : v = PREV_BLK(h, p) /\ x = NEXT_BLK(h, p)
  OBVIOUS
<1>5. /\ x = p + S[p] /\ GET_SIZE(h, x) \in Nat
      /\ IsFree(h, x) => x \in B /\ x \notin A /\ GET_SIZE(h, x) = S[x]
  BY <1>3, <1>4, NextOf
<1>6. /\ GET_SIZE(h, v) \in Nat
      /\ IsFree(h, v) => v \in B /\ v \notin A /\ GET_SIZE(h, v) = S[v] /\ v + S[v] = p
  BY <1>3, <1>4, PrevOf
<1>7. PICK mine \in Int : mine = S[p]
  BY <1>3
<1>8. ReallocCases(h, r, p, size, need, mine, v, x)
  <2>1. need \in Int /\ mine = GET_SIZE(h, p)
    BY <1>2, <1>3, <1>7
  <2>2. QED
    BY <1>2, <1>3, <1>4, <2>1, ReallocIs
<1>9. ASSUME need > mine, Relocated(h, r, S, D, p, need, mine - 2) PROVE Reallocked(h, r, S, A, p, need, n)
  <2>1. n = mine - 2
    BY <1>2, <1>7, <1>9
  <2>2. r.p # NULL
    BY <1>9, AllottedNotNull DEF Relocated
  <2>3. QED
    BY <1>1, <1>9, <2>1, <2>2 DEF Relocated, Reallocked
<1>10. CASE need = mine
  <2>1. r.h = h /\ r.p = p
    BY <1>8, <1>10, ResultParts DEF ReallocCases
  <2>2. Allotted(h, r, S, A \ {p}, need)
    <3>1. (A \ {p}) \cup {p} = A
      OBVIOUS
    <3>2. S[p] \in need .. need + 4
      BY <1>2, <1>7, <1>10
    <3>3. Untouched(h, h, A \ {p}, S)
      BY DEF Untouched
    <3>4. QED
      BY <1>3, <2>1, <3>1, <3>2, <3>3 DEF Allotted
  <2>3. Copied(h, r, p, n)
    BY <2>1 DEF Copied
  <2>4. r.h.brk >= h.brk
    <3>1. PICK b \in Int : b = h.brk
      BY <1>3
    <3>2. QED
      BY <2>1, <3>1
  <2>5. QED
    BY <1>3, <2>1, <2>2, <2>3, <2>4 DEF Reallocked
<1>11. CASE need < mine
  <2>1. r = place(h, p, need, mine, FALSE)
    BY <1>8, <1>11 DEF ReallocCases
  <2>2. Shape(h, B, S, D, {p})
    <3>1. Shape(h, B, S, A \ {p}, {} \cup {p})
      BY ForgetShape
    <3>2. {} \cup {p} = {p}
      OBVIOUS
    <3>3. QED
      BY <1>1, <3>1, <3>2
  <2>3. need <= mine
    BY <1>2, <1>11
  <2>4. IsPlaced(h, r, S, D, p, need, mine)
    BY <1>2, <1>7, <2>1, <2>2, <2>3, PlaceHole
  <2>5. Allotted(h, r, S, D, need) /\ SamePayload(h, r, need) /\ r.h.brk = h.brk
    BY <2>4 DEF IsPlaced
  <2>6. ASSUME S[p] < need + 5 PROVE Copied(h, r, p, n)
    <3>1. ~ AllocateLast(h, mine, need)
      BY <1>2, <1>7, <2>6 DEF AllocateLast, Split, min_malloc_size
    <3>2. r.p = p
      BY <2>4, <3>1 DEF IsPlaced
    <3>3. n = need - 2
      BY <1>2, <1>7, <1>11
    <3>4. SUFFICES ASSUME NEW k \in 0 .. n - 1 PROVE r.h.mem[p + k] = h.mem[p + k]
      BY <3>2 DEF Copied
    <3>5. p + k \in p .. p + need - 3
      BY <1>2, <1>3, <3>3
    <3>6. QED
      BY <2>5, <3>2, <3>5 DEF SamePayload
  <2>7. r.h.brk >= h.brk
    <3>1. PICK b \in Int : b = h.brk
      BY <1>3
    <3>2. QED
      BY <2>5, <3>1
  <2>8. r.p # NULL
    BY <2>5, AllottedNotNull
  <2>9. QED
    BY <1>1, <2>5, <2>6, <2>7, <2>8 DEF Reallocked
<1>12. CASE need > mine
  <2> DEFINE useNext == IsFree(h, x) /\ mine + GET_SIZE(h, x) >= need
             usePrev == IsFree(h, v) /\ mine + GET_SIZE(h, v) >= need
             useBoth == IsFree(h, v) /\ IsFree(h, x) /\ (mine + GET_SIZE(h, x)) + GET_SIZE(h, v) >= need
  <2>a. PICK k : k = mine - 2
    OBVIOUS
  <2>b. k = S[p] - 2 /\ need > S[p]
    BY <1>7, <1>12, <2>a
  <2>1. CASE useNext
    <3>1. PICK total : total = S[p] + S[x]
      OBVIOUS
    <3>2. x \in B /\ x \notin A /\ GET_SIZE(h, x) = S[x] /\ need <= total
      BY <1>2, <1>5, <1>7, <2>1, <3>1
    <3>3. r = place([Unlink(h, x) EXCEPT !.cnt = 0], p, need, total, FALSE)
      <4>1. total = mine + GET_SIZE(h, x)
        BY <1>7, <3>1, <3>2
      <4>2. QED
        BY <1>8, <1>12, <2>1, <4>1 DEF ReallocCases
    <3>4. /\ p \in A /\ D = A \ {p} /\ x = p + S[p] /\ need \in Nat /\ need > S[p] /\ k = S[p] - 2
          /\ x \in B /\ x \notin A /\ need <= total
      BY <1>1, <1>2, <1>5, <2>b, <3>2
    <3>5. Relocated(h, r, S, D, p, need, k)
      BY <3>1, <3>3, <3>4, ReallocNext, ZenonT(30)
    <3>6. QED
      BY <1>9, <1>12, <2>a, <3>5
  <2>2. CASE ~ useNext /\ usePrev
    <3>1. PICK total : total = S[p] + S[v]
      OBVIOUS
    <3>2. v \in B /\ v \notin A /\ GET_SIZE(h, v) = S[v] /\ v + S[v] = p /\ need <= total
      BY <1>2, <1>6, <1>7, <2>2, <3>1
    <3>3. r = MoveAndPlace(Unlink(h, v), p, v, need, total)
      <4>1. total = mine + GET_SIZE(h, v)
        BY <1>7, <3>1, <3>2
      <4>2. QED
        BY <1>8, <1>12, <2>2, <4>1 DEF ReallocCases
    <3>4. /\ p \in A /\ D = A \ {p} /\ need \in Nat /\ need > S[p] /\ k = S[p] - 2
          /\ v \in B /\ v \notin A /\ v + S[v] = p /\ need <= total
      BY <1>1, <1>2, <2>b, <3>2
    <3>5. Relocated(h, r, S, D, p, need, k)
      BY <3>1, <3>3, <3>4, ReallocPrev, ZenonT(30)
    <3>6. QED
      BY <1>9, <1>12, <2>a, <3>5
  <2>3. CASE ~ useNext /\ ~ usePrev /\ useBoth
    <3>1. PICK total : total = (S[p] + S[x]) + S[v]
      OBVIOUS
    <3>2. /\ v \in B /\ v \notin A /\ GET_SIZE(h, v) = S[v] /\ v + S[v] = p
          /\ x \in B /\ x \notin A /\ GET_SIZE(h, x) = S[x] /\ need <= total
      BY <1>2, <1>5, <1>6, <1>7, <2>3, <3>1
    <3>3. r = MoveAndPlace(Unlink(Unlink(h, v), x), p, v, need, total)
      <4>1. total = (mine + GET_SIZE(h, x)) + GET_SIZE(h, v)
        BY <1>7, <3>1, <3>2
      <4>2. QED
        BY <1>8, <1>12, <2>3, <4>1 DEF ReallocCases
    <3>4. /\ p \in A /\ D = A \ {p} /\ x = p + S[p] /\ need \in Nat /\ need > S[p] /\ k = S[p] - 2
          /\ v \in B /\ v \notin A /\ v + S[v] = p /\ x \in B /\ x \notin A /\ need <= total
      BY <1>1, <1>2, <1>5, <2>b, <3>2
    <3>5. Relocated(h, r, S, D, p, need, k)
      BY <3>1, <3>3, <3>4, ReallocBoth, ZenonT(30)
    <3>6. QED
      BY <1>9, <1>12, <2>a, <3>5
  <2>4. CASE ~ useNext /\ ~ usePrev /\ ~ useBoth
    <3>1. PICK new : new = mm_malloc(h, size)
      OBVIOUS
    <3>2. Mallocked(h, new, B, S, A, need)
      BY <3>1, MallocShape
    <3>3. r = IF new.p = NULL THEN new
              ELSE Result(mm_free(mm_memcpy(new.h, new.p, p, k), p), new.p)
      BY <1>8, <1>12, <2>a, <2>4, <3>1 DEF ReallocCases
    <3>4. CASE new.p = NULL
      <4>1. r = new
        BY <3>3, <3>4
      <4>2. QED
        BY <3>2, <3>4, <4>1 DEF Mallocked, Reallocked
    <3>5. CASE new.p # NULL
      <4>1. PICK f : f = mm_free(mm_memcpy(new.h, new.p, p, k), p)
        OBVIOUS
      <4>2. r = Result(f, new.p)
        BY <3>3, <3>5, <4>1
      <4>3. Allotted(h, new, S, A, need) /\ new.h.brk >= h.brk
        BY <3>2, <3>5 DEF Mallocked
      <4>4. Relocated(h, r, S, D, p, need, k)
        BY <1>1, <1>2, <2>b, <4>1, <4>2, <4>3, ReallocFar
      <4>5. QED
        BY <1>9, <1>12, <2>a, <4>4
    <3>6. QED
      BY <3>4, <3>5
  <2>5. QED
    BY <2>1, <2>2, <2>3, <2>4
<1>13. QED
  BY <1>2, <1>10, <1>11, <1>12

-----------------------------------------------------------------------------
(* mm_init                                                                 *)

FirstSizes == [a \in Word |-> CHUNK_SIZE]

\* The heap as mm_init leaves it is one free block.
IsInitial(g) == Shape(g, {FirstBlock}, FirstSizes, {}, {})

LEMMA NoLists ==
  ASSUME NEW m, NEW S, \A l \in Lists : m[HeapLo + l] = 0
  PROVE  LinkedAs(m, {}, S)
<1>1. PICK z : z = [a \in Word |-> 0]
  OBVIOUS
<1>2. PICK hd : hd = [l \in Lists |-> 0]
  OBVIOUS
<1>3. z \in [Word -> Nat] /\ hd \in [Lists -> Nat]
  BY <1>1, <1>2
<1>4. Ptrs(m, {}, z, z, hd)
  BY <1>2 DEF Ptrs
<1>5. Chains({}, ListOf(S), z, z, hd, z)
  BY <1>2 DEF Chains, NULL
<1>6. QED
  BY <1>3, <1>4, <1>5 DEF LinkedAs

LEMMA FirstTiles ==
  ASSUME NEW brk, brk = FirstBlock + CHUNK_SIZE, brk <= HeapLo + MAX_HEAP
  PROVE  Tiles(brk, {FirstBlock}, FirstSizes)
<1>1. PICK f, c : f = FirstBlock /\ c = CHUNK_SIZE
  OBVIOUS
<1>2. f \in Int /\ c \in Nat /\ c >= 4 /\ f = HeapLo + segregated_list_num + 3
  BY <1>1, MMAssumption DEF FirstBlock, CHUNK_SIZE, PRELOGUE_BLK
<1>3. f \in Word /\ brk = f + c /\ brk \in Int
  BY <1>1, <1>2, Consts DEF Word
<1>4. PICK S : S = FirstSizes
  OBVIOUS
<1>5. S \in [Word -> Nat] /\ S[f] = c
  BY <1>1, <1>2, <1>3, <1>4 DEF FirstSizes
<1>6. Tiles(brk, {f}, S)
  BY <1>1, <1>2, <1>3, <1>5 DEF Tiles
<1>7. QED
  BY <1>1, <1>4, <1>6

\* mm_init on the memory that earlier traces have left.
LEMMA InitShape ==
  ASSUME NEW h \in Heap, h.brk = HeapLo,
         CHUNK_SIZE + segregated_list_num + 3 <= MAX_HEAP, NEW g, g = mm_init(h)
  PROVE  IsInitial(g)
<1>1. PICK size, p, e, r, brk : /\ size = CHUNK_SIZE + segregated_list_num + 3 /\ p = PRELOGUE_BLK
                           /\ e = HeapLo + size - 1 /\ r = FirstBlock /\ brk = HeapLo + size
  OBVIOUS
<1>2. /\ p \in Int /\ e \in Int /\ r \in Int /\ brk \in Int /\ size \in Nat
      /\ p = HeapLo + segregated_list_num + 1 /\ r = p + 2
      /\ brk = r + CHUNK_SIZE /\ e = brk - 1 /\ CHUNK_SIZE \in Nat /\ CHUNK_SIZE >= 4
      /\ brk <= HeapLo + MAX_HEAP
  BY <1>1, MMAssumption DEF FirstBlock, CHUNK_SIZE, PRELOGUE_BLK
<1>3. /\ e \in Word /\ p - 1 \in Word /\ p \in Word /\ e # p - 1 /\ e # p
      /\ \A l \in Lists : HeapLo + l \in Word /\ HeapLo + l \notin {e, p - 1, p}
                          /\ (HeapLo + l) - HeapLo \in Lists
  BY <1>2, Consts DEF Word, Lists
<1>4. PICK h0 : h0 = init_segregated_list(mem_sbrk(h, size))
  OBVIOUS
<1>5. h0 \in Heap /\ h0.brk = brk /\ \A l \in Lists : h0.mem[HeapLo + l] = 0
  <2>1. PICK k : k = mem_sbrk(h, size)
    OBVIOUS
  <2>2. k \in Heap /\ k.brk = brk
    BY <1>1, <1>2, <2>1, Consts DEF mem_sbrk, Heap
  <2>3. PICK m : m = [a \in Word |-> IF a - HeapLo \in Lists THEN NULL ELSE k.mem[a]]
    OBVIOUS
  <2>4. h0 = [k EXCEPT !.mem = m]
    BY <1>4, <2>1, <2>3 DEF init_segregated_list
  <2>5. m \in [Word -> Int]
    BY <2>2, <2>3 DEF Heap, NULL
  <2>6. \A l \in Lists : m[HeapLo + l] = 0
    BY <1>3, <2>3 DEF NULL
  <2>7. QED
    BY <2>2, <2>4, <2>5, <2>6 DEF Heap
<1>6. PICK k : k = PUT(h0, e, PACK(0, 1))
  OBVIOUS
<1>7. Wrote(k, h0, e, PACK(0, 1))
  BY <1>3, <1>5, <1>6, PutHeap DEF PACK
<1>8. PICK h1 : h1 = Tag(k, p, 2, 1)
  OBVIOUS
<1>9. /\ h1 \in Heap /\ h1.brk = k.brk /\ Tagged(h1.mem, p, 2, 1)
      /\ \A a \in Word \ {p - 1, p + 2 - 2} : h1.mem[a] = k.mem[a]
  <2>1. k \in Heap /\ p + 2 - 2 \in Word
    BY <1>2, <1>3, <1>7 DEF Wrote
  <2>2. QED
    BY <1>2, <1>3, <1>8, <2>1, TagWrites
<1>10. PICK one, two : one = PACK(0, 1) /\ two = PACK(2, 1)
  OBVIOUS
<1>11. /\ h1.mem[e] = one /\ h1.mem[p - 1] = two /\ h1.mem[p] = two
       /\ \A l \in Lists : h1.mem[HeapLo + l] = 0
  <2>1. h0.mem \in [Word -> Int] /\ p + 2 - 2 = p
    BY <1>2, <1>5 DEF Heap
  <2>2. k.mem[e] = one /\ \A a \in Word \ {e} : k.mem[a] = h0.mem[a]
    BY <1>7, <1>10 DEF Wrote
  <2>3. h1.mem[p - 1] = two /\ h1.mem[p] = two /\ \A a \in Word \ {p - 1, p} : h1.mem[a] = k.mem[a]
    BY <1>9, <1>10, <2>1 DEF Tagged
  <2>4. h1.mem[e] = one
    BY <1>3, <2>2, <2>3
  <2>5. \A l \in Lists : h1.mem[HeapLo + l] = 0
    BY <1>3, <1>5, <2>2, <2>3
  <2>6. QED
    BY <2>3, <2>4, <2>5
<1>12. h1.brk = brk
  BY <1>5, <1>7, <1>9 DEF Wrote
<1>13. PICK S, B : S = FirstSizes /\ B = {FirstBlock}
  OBVIOUS
<1>14. Tiles(h1.brk, B, S)
  BY <1>1, <1>2, <1>12, <1>13, FirstTiles
<1>15. LinkedAs(h1.mem, {}, S)
  BY <1>11, NoLists
<1>16. Shape(h1, B, S, {}, B)
  <2>1. B \ B = {} /\ (B \ {}) \ B = {} /\ {} \cap B = {}
    OBVIOUS
  <2>2. h1.mem[h1.brk - 1] = PACK(0, 1)
    BY <1>2, <1>10, <1>11, <1>12
  <2>3. h1.mem[PRELOGUE_BLK - 1] = PACK(2, 1) /\ h1.mem[PRELOGUE_BLK] = PACK(2, 1)
    BY <1>1, <1>10, <1>11
  <2>4. QED
    BY <1>9, <1>14, <1>15, <2>1, <2>2, <2>3 DEF Shape
<1>17. S[r] = CHUNK_SIZE
  BY <1>1, <1>13, <1>14 DEF FirstSizes, Tiles
<1>18. PICK t : t = Tag(h1, r, S[r], 0)
  OBVIOUS
<1>19. g = InsertHead(t, r)
  <2>1. g = InsertHead(Tag(h1, p + 2, CHUNK_SIZE, 0), p + 2)
    BY <1>1, <1>4, <1>6, <1>8 DEF mm_init
  <2>2. QED
    BY <1>2, <1>17, <1>18, <2>1
<1>20. PICK A : A = {}
  OBVIOUS
<1>21. IsFilled(g, h1, B, S, A)
  <2>1. B = {r} /\ Shape(h1, B, S, A, B)
    BY <1>1, <1>13, <1>16, <1>20
  <2>2. QED
    BY <1>18, <1>19, <2>1, FillShape
<1>22. QED
  BY <1>13, <1>20, <1>21 DEF IsFilled, IsInitial

-----------------------------------------------------------------------------
(* the walk from header to header                                          *)

\* Where blocks can start.
Spots == PRELOGUE_BLK + 2 .. HeapLo + MAX_HEAP

\* A set of places that the walk from one of its members does not leave.
Closed(X) == \A q \in X : q + Size(q) <= heap.brk /\ Size(q + Size(q)) > 0 => q + Size(q) \in X

\* The places of the walk from p, with their headers.
Visited(p) == IF Size(p) <= 0 THEN {}
              ELSE {q \in Spots : \A X \in SUBSET Spots : p \in X /\ Closed(X) => q \in X}

BlocksStep(f) ==
    [p \in Spots |-> IF Size(p) <= 0 THEN {}
                      ELSE {p} \cup IF p + Size(p) <= heap.brk THEN f[p + Size(p)] ELSE {}]

LEMMA SizeInt ==
  ASSUME heap \in Heap, NEW p \in Spots
  PROVE  p \in Int /\ Size(p) \in Int
<1>1. p \in Int /\ p - 1 \in Word
  BY Consts DEF Spots, PRELOGUE_BLK, Word
<1>2. heap.mem[p - 1] \in Int
  BY <1>1 DEF Heap
<1>3. PICK v \in Int : v = heap.mem[p - 1]
  BY <1>2
<1>4. v \div 2 \in Int
  BY <1>3
<1>5. QED
  BY <1>1, <1>3, <1>4 DEF Size, GET_SIZE, GET

\* The places that a walk visits solve the recursion of Blocks.
LEMMA VisitedSolves ==
  ASSUME heap \in Heap, heap.brk <= HeapLo + MAX_HEAP, NEW f, f = [p \in Spots |-> Visited(p)]
  PROVE  f = BlocksStep(f)
<1>1. SUFFICES ASSUME NEW p \in Spots
               PROVE  f[p] = IF Size(p) <= 0 THEN {}
                      ELSE {p} \cup IF p + Size(p) <= heap.brk THEN f[p + Size(p)] ELSE {}
  BY DEF BlocksStep
<1>2. CASE Size(p) <= 0
  BY <1>2 DEF Visited
<1>3. CASE ~ (Size(p) <= 0)
  <2>1. f[p] = {q \in Spots : \A X \in SUBSET Spots : p \in X /\ Closed(X) => q \in X}
    BY <1>3 DEF Visited
  <2>2. PICK n : n = p + Size(p)
    OBVIOUS
  <2>3. CASE n <= heap.brk
    <3>1. n \in Spots
      <4>1. p \in Int /\ Size(p) \in Int /\ heap.brk \in Int
        BY SizeInt DEF Heap
      <4>2. PRELOGUE_BLK \in Int /\ HeapLo + MAX_HEAP \in Int
        BY Consts DEF PRELOGUE_BLK
      <4>3. QED
        BY <1>3, <2>2, <2>3, <4>1, <4>2 DEF Spots
    <3>2. f[n] = Visited(n)
      BY <3>1
    <3>3. Visited(n) \subseteq Spots
      BY DEF Visited
    <3>4. ASSUME NEW X \in SUBSET Spots, p \in X, Closed(X) PROVE Visited(n) \subseteq X
      <4>1. CASE Size(n) <= 0
        BY <4>1 DEF Visited
      <4>2. CASE ~ (Size(n) <= 0)
        <5>1. Size(n) > 0
          BY <3>1, <4>2, SizeInt
        <5>2. n \in X
          BY <2>2, <2>3, <3>4, <5>1 DEF Closed
        <5>3. QED
          BY <3>4, <4>2, <5>2 DEF Visited
      <4>3. QED
        BY <4>1, <4>2
    <3>5. PICK X : X = {p} \cup Visited(n)
      OBVIOUS
    <3>6. X \in SUBSET Spots /\ p \in X
      BY <3>3, <3>5
    <3>7. ASSUME NEW q \in X, q + Size(q) <= heap.brk, Size(q + Size(q)) > 0
          PROVE  q + Size(q) \in X
      <4>1. CASE q = p
        <5>1. n \in Visited(n)
          <6>1. Size(n) \in Int /\ Size(n) > 0
            BY <2>2, <3>1, <3>7, <4>1, SizeInt
          <6>2. ~ (Size(n) <= 0)
            BY <6>1
          <6>3. QED
            BY <3>1, <6>2 DEF Visited
        <5>2. QED
          BY <2>2, <3>5, <4>1, <5>1
      <4>2. CASE q \in Visited(n)
        <5>1. /\ ~ (Size(n) <= 0)
              /\ \A Y \in SUBSET Spots : n \in Y /\ Closed(Y) => q \in Y
          BY <4>2 DEF Visited
        <5>2. PICK m : m = q + Size(q)
          OBVIOUS
        <5>3. m \in Spots
          <6>1. ~ (Size(n) <= 0) /\ Visited(n) \subseteq Spots
            BY <3>3, <5>1
          <6>2. PICK Y : Y = {y \in Spots : Size(y) > 0}
            OBVIOUS
          <6>3. Closed(Y)
            <7>1. ASSUME NEW y \in Y, y + Size(y) <= heap.brk, Size(y + Size(y)) > 0
                  PROVE  y + Size(y) \in Y
              <8>1. y \in Spots /\ Size(y) > 0
                BY <6>2
              <8>2. y \in Int /\ Size(y) \in Int /\ heap.brk \in Int
                BY <8>1, SizeInt DEF Heap
              <8>3. PRELOGUE_BLK \in Int /\ HeapLo + MAX_HEAP \in Int
                BY Consts DEF PRELOGUE_BLK
              <8>4. y + Size(y) \in Spots
                BY <7>1, <8>1, <8>2, <8>3 DEF Spots
              <8>5. QED
                BY <6>2, <7>1, <8>4
            <7>2. QED
              BY <7>1 DEF Closed
          <6>4. n \in Y
            BY <3>1, <5>1, <6>2, SizeInt
          <6>5. Y \in SUBSET Spots
            BY <6>2
          <6>6. q \in Y
            BY <5>1, <6>3, <6>4, <6>5
          <6>7. q \in Spots /\ Size(q) > 0
            BY <6>2, <6>6
          <6>8. q \in Int /\ Size(q) \in Int /\ heap.brk \in Int
            BY <6>7, SizeInt DEF Heap
          <6>9. PRELOGUE_BLK \in Int /\ HeapLo + MAX_HEAP \in Int
            BY Consts DEF PRELOGUE_BLK
          <6>10. QED
            BY <3>7, <5>2, <6>7, <6>8, <6>9 DEF Spots
        <5>4. ASSUME NEW Y \in SUBSET Spots, n \in Y, Closed(Y) PROVE m \in Y
          <6>1. q \in Y
            BY <5>1, <5>4
          <6>2. QED
            BY <3>7, <5>2, <5>4, <6>1 DEF Closed
        <5>5. m \in Visited(n)
          BY <5>1, <5>3, <5>4 DEF Visited
        <5>6. QED
          BY <3>5, <5>2, <5>5
      <4>3. QED
        BY <3>5, <3>7, <4>1, <4>2
    <3>8. Closed(X)
      BY <3>7 DEF Closed
    <3>9. f[p] \subseteq X
      BY <2>1, <3>6, <3>8
    <3>10. X \subseteq f[p]
      BY <2>1, <3>3, <3>4, <3>5
    <3>11. f[p] = {p} \cup f[n]
      BY <3>2, <3>5, <3>9, <3>10
    <3>12. QED
      BY <1>3, <2>2, <2>3, <3>11
  <2>4. CASE ~ (n <= heap.brk)
    <3>1. {p} \in SUBSET Spots /\ p \in {p}
      OBVIOUS
    <3>2. Closed({p})
      BY <2>2, <2>4 DEF Closed
    <3>3. f[p] = {p}
      BY <2>1, <3>1, <3>2
    <3>4. QED
      BY <1>3, <2>2, <2>4, <3>3
  <2>5. QED
    BY <2>3, <2>4
<1>4. QED
  BY <1>2, <1>3

\* Blocks is the set that the walk visits from the first block on.
LEMMA BlocksSolve ==
  ASSUME heap \in Heap, heap.brk <= HeapLo + MAX_HEAP
  PROVE  \E f : f = BlocksStep(f) /\ Blocks = f[FirstBlock]
<1> DEFINE f == CHOOSE f1 : f1 = BlocksStep(f1)
<1>1. f = BlocksStep(f)
  <2>1. PICK g : g = [p \in Spots |-> Visited(p)]
    OBVIOUS
  <2>2. g = BlocksStep(g)
    BY <2>1, VisitedSolves
  <2>3. QED
    BY <2>2
<1>2. Blocks = f[FirstBlock]
  BY DEF Blocks, BlocksStep, FirstBlock, Spots
<1>3. QED
  BY <1>1, <1>2

\* The walk from the first block visits the blocks of the heap.
LEMMA BlocksAre ==
  ASSUME NEW B, NEW S, NEW A, Shape(heap, B, S, A, {})
  PROVE  Blocks = B
<1>1. heap \in Heap /\ Tiles(heap.brk, B, S) /\ heap.mem[heap.brk - 1] = PACK(0, 1)
  BY DEF Shape
<1>2. PICK b \in Int : b = heap.brk
  BY <1>1 DEF Tiles
<1>3. /\ b <= HeapLo + MAX_HEAP /\ FirstBlock \in B
      /\ \A p, q \in B : p < q => p + S[p] <= q
  BY <1>1, <1>2 DEF Tiles
<1>4. ASSUME NEW p \in B
      PROVE  /\ p \in Int /\ p \in Spots /\ Size(p) = S[p] /\ S[p] \in Nat /\ S[p] >= 4 /\ FirstBlock <= p
             /\ p + S[p] <= b /\ (p + S[p] \in B \/ p + S[p] = b)
  <2>1. /\ p \in Int /\ S[p] \in Nat /\ S[p] >= 4 /\ FirstBlock <= p /\ p + S[p] <= b
        /\ FirstBlock = HeapLo + segregated_list_num + 3
    BY <1>1, <1>2, ZoneWord
  <2>2. p + S[p] \in B \/ p + S[p] = b
    BY <1>1, <1>2 DEF Tiles
  <2>3. p \in Spots
    BY <1>3, <2>1, Consts DEF Spots, FirstBlock, PRELOGUE_BLK
  <2>4. Size(p) = S[p]
    BY SizeOf DEF Size
  <2>5. QED
    BY <2>1, <2>2, <2>3, <2>4
<1>5. b \in Spots /\ Size(b) = 0
  <2>1. b \in Spots
    <3>1. PICK r \in B : r = FirstBlock
      BY <1>3
    <3>2. r \in Int /\ S[r] \in Nat /\ r + S[r] <= b
      BY <1>4
    <3>3. r <= b
      BY <3>2
    <3>4. QED
      BY <1>3, <3>1, <3>2, <3>3, Consts DEF Spots, FirstBlock
  <2>2. heap.mem[b - 1] = 1
    BY <1>1, <1>2 DEF PACK
  <2>3. 1 \div 2 = 0
    OBVIOUS
  <2>4. QED
    BY <2>1, <2>2, <2>3 DEF Size, GET_SIZE, GET
<1>6. PICK f : f = BlocksStep(f) /\ Blocks = f[FirstBlock]
  BY <1>1, <1>2, <1>3, BlocksSolve
<1>7. \A p \in Spots : f[p] = IF Size(p) <= 0 THEN {}
                          ELSE {p} \cup IF p + Size(p) <= b THEN f[p + Size(p)] ELSE {}
  BY <1>2, <1>6 DEF BlocksStep
<1>8. f[b] = {}
  <2>1. 0 <= 0
    OBVIOUS
  <2>2. Size(b) <= 0
    BY <1>5, <2>1, Zenon
  <2>3. QED
    BY <1>5, <1>7, <2>2, Zenon
<1> DEFINE From(p) == {q \in B : p <= q}
           Wrong == {k \in Nat : \E p \in B : k = b - p /\ f[p] # From(p)}
<1>9. Wrong = {}
  <2>1. SUFFICES ASSUME Wrong # {} PROVE FALSE
    OBVIOUS
  <2>2. PICK k \in Wrong : \A j \in Wrong : k <= j
    BY <2>1, LeastNat
  <2>3. PICK p \in B : k = b - p /\ f[p] # From(p)
    BY <2>2
  <2>4. PICK n : n = p + S[p]
    OBVIOUS
  <2>5. n \in Int /\ n > p /\ n <= b /\ (n \in B \/ n = b)
    BY <1>4, <2>4
  <2>6. f[p] = {p} \cup f[n]
    <3>1. ~ (Size(p) <= 0) /\ p \in Spots /\ Size(p) = S[p]
      BY <1>4
    <3>2. QED
      BY <1>7, <2>4, <2>5, <3>1
  <2>7. f[n] = From(n)
    <3>1. CASE n \in B
      <4>1. b - n \in Nat /\ b - n < k
        BY <1>4, <2>3, <2>5
      <4>2. b - n \notin Wrong
        BY <2>2, <4>1
      <4>3. QED
        BY <3>1, <4>1, <4>2
    <3>2. CASE n = b
      <4>1. ASSUME NEW q \in B PROVE ~ (b <= q)
        <5>1. q \in Int /\ S[q] \in Nat /\ S[q] >= 4 /\ q + S[q] <= b
          BY <1>4
        <5>2. QED
          BY <5>1
      <4>2. QED
        BY <1>8, <3>2, <4>1
    <3>3. QED
      BY <2>5, <3>1, <3>2
  <2>8. \A q \in B : p <= q <=> q = p \/ n <= q
    <3>1. TAKE q \in B
    <3>2. q \in Int /\ p \in Int
      BY <1>4
    <3>3. p < q => n <= q
      BY <1>3, <2>4
    <3>4. QED
      BY <2>5, <3>2, <3>3
  <2>9. From(p) = {p} \cup From(n)
    BY <2>8
  <2>10. QED
    BY <2>3, <2>6, <2>7, <2>9
<1>10. f[FirstBlock] = From(FirstBlock)
  <2>1. b - FirstBlock \in Nat
    BY <1>3, <1>4
  <2>2. b - FirstBlock \notin Wrong
    BY <1>9
  <2>3. QED
    BY <1>3, <2>1, <2>2
<1>11. From(FirstBlock) = B
  BY <1>4
<1>12. QED
  BY <1>6, <1>10, <1>11

-----------------------------------------------------------------------------
(* the walk along a list                                                   *)

ListStep(l, f) ==
    [n \in Nat |-> IF n = 0 THEN {ListHead(heap, l)}
                   ELSE f[n - 1] \cup {NEXT_FREE_BLK(heap, p) : p \in f[n - 1] \cap FreeBlocks}]

\* The first n + 1 blocks of list l.
FirstOf(F, c, pos, l, n) == {p \in F : c[p] = l /\ pos[p] <= n + 1}

\* Where the walk along list l has been after n steps.
Reached(F, c, pos, l) ==
    [n \in Nat |-> FirstOf(F, c, pos, l, n) \cup
                   IF \E p \in F : c[p] = l /\ pos[p] = n + 1 THEN {} ELSE {NULL}]

\* The recursion of ListBlocks has Reached as a solution.
LEMMA ReachedSolves ==
  ASSUME NEW F \in SUBSET Word, NEW c, NEW pr, NEW nx, NEW hd, NEW pos,
         Chains(F, c, pr, nx, hd, pos), NEW l \in Lists, FreeBlocks = F,
         ListHead(heap, l) = hd[l], \A p \in F : NEXT_FREE_BLK(heap, p) = nx[p],
         NEW g, g = Reached(F, c, pos, l)
  PROVE  g = ListStep(l, g)
<1>1. NULL \notin F
  BY Consts DEF Word, NULL
<1>2. \A p \in F : pos[p] \in Nat \ {0}
  BY DEF Chains
<1>3. \A n \in Nat : g[n] = FirstOf(F, c, pos, l, n) \cup
                   IF \E p \in F : c[p] = l /\ pos[p] = n + 1 THEN {} ELSE {NULL}
  BY DEF Reached
<1>4. g[0] = {hd[l]}
  <2>1. g[0] = FirstOf(F, c, pos, l, 0) \cup
                   IF \E p \in F : c[p] = l /\ pos[p] = 0 + 1 THEN {} ELSE {NULL}
    BY <1>3
  <2>2. \A p \in F : c[p] = l /\ pos[p] = 1 => hd[l] = p
    <3>1. TAKE p \in F
    <3>2. HAVE c[p] = l /\ pos[p] = 1
    <3>3. pr[p] # NULL => pr[p] \in F /\ pos[p] = pos[pr[p]] + 1
      BY DEF Chains
    <3>4. pr[p] = NULL
      BY <1>2, <3>2, <3>3
    <3>5. QED
      BY <3>2, <3>4 DEF Chains
  <2>3. hd[l] # NULL => hd[l] \in F /\ c[hd[l]] = l /\ pos[hd[l]] = 1
    BY DEF Chains
  <2>4. FirstOf(F, c, pos, l, 0) = {p \in F : c[p] = l /\ pos[p] = 1}
    BY <1>2 DEF FirstOf
  <2>5. CASE hd[l] = NULL
    <3>1. \A p \in F : ~ (c[p] = l /\ pos[p] = 1)
      BY <1>1, <2>2, <2>5
    <3>2. QED
      BY <2>1, <2>4, <2>5, <3>1
  <2>6. CASE hd[l] # NULL
    <3>1. {p \in F : c[p] = l /\ pos[p] = 1} = {hd[l]}
      BY <2>2, <2>3, <2>6
    <3>2. QED
      BY <2>1, <2>3, <2>4, <2>6, <3>1
  <2>7. QED
    BY <2>5, <2>6
<1>5. ASSUME NEW n \in Nat, n # 0
      PROVE  g[n] = g[n - 1] \cup {NEXT_FREE_BLK(heap, p) : p \in g[n - 1] \cap FreeBlocks}
  <2>1. n - 1 \in Nat /\ (n - 1) + 1 = n
    BY <1>5
  <2> DEFINE Before == {p \in F : c[p] = l /\ pos[p] <= n}
             At(k) == \E p \in F : c[p] = l /\ pos[p] = k
  <2>2. g[n] = {p \in F : c[p] = l /\ pos[p] <= n + 1} \cup IF At(n + 1) THEN {} ELSE {NULL}
    BY <1>3 DEF FirstOf
  <2>3. g[n - 1] = Before \cup IF At(n) THEN {} ELSE {NULL}
    <3>1. FirstOf(F, c, pos, l, n - 1) = Before
      BY <2>1 DEF FirstOf
    <3>2. QED
      BY <1>3, <2>1, <3>1
  <2>4. g[n - 1] \cap FreeBlocks = Before
    BY <1>1, <2>3
  <2>5. {NEXT_FREE_BLK(heap, p) : p \in g[n - 1] \cap FreeBlocks} = {nx[p] : p \in Before}
    BY <2>4
  <2>6. At(n + 1) => At(n)
    <3>1. HAVE At(n + 1)
    <3>2. PICK p \in F : c[p] = l /\ pos[p] = n + 1
      BY <3>1
    <3>3. pos[p] # 1
      BY <1>5, <3>2
    <3>4. pr[p] \in F /\ c[pr[p]] = l /\ pos[p] = pos[pr[p]] + 1
      BY <3>2, <3>3 DEF Chains
    <3>5. pos[pr[p]] = n
      BY <1>2, <3>2, <3>4
    <3>6. QED
      BY <3>4, <3>5
  <2>7. ASSUME NEW p \in Before
        PROVE  nx[p] # NULL => nx[p] \in F /\ c[nx[p]] = l /\ pos[nx[p]] = pos[p] + 1
    <3>1. nx[p] # NULL => nx[p] \in F /\ pr[nx[p]] = p
      BY DEF Chains
    <3>2. p # NULL
      BY <1>1
    <3>3. QED
      BY <3>1, <3>2 DEF Chains
  <2>8. ASSUME NEW p \in Before, nx[p] = NULL, At(n + 1) PROVE FALSE
    <3>1. PICK q \in F : c[q] = l /\ pos[q] = n + 1
      BY <2>8
    <3>2. IsInPlace(F, c, pos, q)
      BY PlacesTaken
    <3>3. pos[p] + 1 \in 1 .. pos[q]
      BY <1>2, <3>1
    <3>4. PICK r \in F : c[r] = l /\ pos[r] = pos[p] + 1
      BY <3>1, <3>2, <3>3 DEF IsInPlace
    <3>5. pos[r] # 1
      BY <1>2, <3>4
    <3>6. pr[r] \in F /\ c[pr[r]] = l /\ nx[pr[r]] = r /\ pos[r] = pos[pr[r]] + 1
      BY <3>4, <3>5 DEF Chains
    <3>7. pos[pr[r]] = pos[p]
      BY <1>2, <3>4, <3>6
    <3>8. pr[r] = p
      BY <3>6, <3>7 DEF Chains
    <3>9. QED
      BY <1>1, <2>8, <3>6, <3>8
  <2>9. ASSUME NEW p \in F, c[p] = l, pos[p] = n + 1 PROVE p \in {nx[q] : q \in Before}
    <3>1. pos[p] # 1
      BY <1>5, <2>9
    <3>2. pr[p] \in F /\ c[pr[p]] = l /\ nx[pr[p]] = p /\ pos[p] = pos[pr[p]] + 1
      BY <2>9, <3>1 DEF Chains
    <3>3. pos[pr[p]] <= n
      BY <1>2, <2>9, <3>2
    <3>4. QED
      BY <3>2, <3>3
  <2>10. g[n] \subseteq g[n - 1] \cup {nx[p] : p \in Before}
    <3>1. SUFFICES ASSUME NEW x \in g[n] PROVE x \in g[n - 1] \cup {nx[p] : p \in Before}
      OBVIOUS
    <3>2. CASE x \in F
      <4>1. c[x] = l /\ pos[x] <= n + 1 /\ pos[x] \in Nat
        BY <1>1, <1>2, <2>2, <3>2
      <4>2. CASE pos[x] = n + 1
        BY <2>9, <3>2, <4>1, <4>2
      <4>3. CASE pos[x] # n + 1
        <5>1. pos[x] <= n
          BY <4>1, <4>3
        <5>2. QED
          BY <2>3, <3>2, <4>1, <5>1
      <4>4. QED
        BY <4>2, <4>3
    <3>3. CASE x \notin F
      <4>1. x = NULL /\ ~ At(n + 1)
        BY <2>2, <3>3
      <4>2. CASE At(n)
        <5>1. PICK p \in F : c[p] = l /\ pos[p] = n
          BY <4>2
        <5>2. p \in Before
          BY <5>1
        <5>3. nx[p] = NULL
          BY <2>7, <4>1, <5>1, <5>2
        <5>4. QED
          BY <4>1, <5>2, <5>3
      <4>3. CASE ~ At(n)
        BY <2>3, <4>1, <4>3
      <4>4. QED
        BY <4>2, <4>3
    <3>4. QED
      BY <3>2, <3>3
  <2>11. g[n - 1] \subseteq g[n]
    <3>1. \A p \in F : pos[p] <= n => pos[p] <= n + 1
      BY <1>2
    <3>2. QED
      BY <2>2, <2>3, <2>6, <3>1
  <2>12. \A p \in Before : nx[p] \in g[n]
    <3>1. TAKE p \in Before
    <3>2. CASE nx[p] = NULL
      BY <2>2, <2>8, <3>2
    <3>3. CASE nx[p] # NULL
      <4>1. pos[nx[p]] <= n + 1
        BY <1>2, <2>7, <3>3
      <4>2. QED
        BY <2>2, <2>7, <3>3, <4>1
    <3>4. QED
      BY <3>2, <3>3
  <2> HIDE DEF Before
  <2>13. g[n] = g[n - 1] \cup {nx[p] : p \in Before}
    BY <2>10, <2>11, <2>12
  <2>14. QED
    BY <2>5, <2>13
<1>6. PICK k : k = ListStep(l, g)
  OBVIOUS
<1>7. k = [n \in Nat |-> k[n]] /\ g = [n \in Nat |-> g[n]]
  BY <1>6 DEF ListStep, Reached
<1>8. \A n \in Nat : k[n] = g[n]
  <2>1. TAKE n \in Nat
  <2>2. k[n] = IF n = 0 THEN {ListHead(heap, l)}
               ELSE g[n - 1] \cup {NEXT_FREE_BLK(heap, p) : p \in g[n - 1] \cap FreeBlocks}
    BY <1>6 DEF ListStep
  <2>3. CASE n = 0
    BY <1>4, <2>2, <2>3
  <2>4. CASE n # 0
    BY <1>5, <2>2, <2>4
  <2>5. QED
    BY <2>3, <2>4
<1>9. QED
  BY <1>6, <1>7, <1>8

\* The recursion of ListBlocks has one solution.
LEMMA ListUnique ==
  ASSUME NEW l, NEW f, f = ListStep(l, f), NEW g, g = ListStep(l, g), NEW i \in Nat
  PROVE  f[i] = g[i]
<1> DEFINE Differ == {k \in Nat : f[k] # g[k]}
<1>1. SUFFICES ASSUME Differ # {} PROVE FALSE
  OBVIOUS
<1>2. PICK k \in Differ : \A j \in Differ : k <= j
  BY <1>1, LeastNat
<1>3. /\ f[k] = IF k = 0 THEN {ListHead(heap, l)}
                ELSE f[k - 1] \cup {NEXT_FREE_BLK(heap, p) : p \in f[k - 1] \cap FreeBlocks}
      /\ g[k] = IF k = 0 THEN {ListHead(heap, l)}
                ELSE g[k - 1] \cup {NEXT_FREE_BLK(heap, p) : p \in g[k - 1] \cap FreeBlocks}
  BY DEF ListStep
<1>4. k # 0
  BY <1>3
<1>5. k - 1 \in Nat /\ ~ (k <= k - 1)
  BY <1>4
<1>6. f[k - 1] = g[k - 1]
  BY <1>2, <1>5
<1>7. QED
  BY <1>3, <1>6

\* ListBlocks takes the last step of that recursion.
LEMMA ListBlocksIs ==
  ASSUME NEW l, NEW g, g = ListStep(l, g), Cardinality(FreeBlocks) \in Nat
  PROVE  ListBlocks(l) = g[Cardinality(FreeBlocks)] \ {NULL}
<1> DEFINE f == CHOOSE f1 : f1 = ListStep(l, f1)
<1>1. f = ListStep(l, f)
  OBVIOUS
<1>2. ListBlocks(l) = f[Cardinality(FreeBlocks)] \ {NULL}
  BY DEF ListBlocks, ListStep
<1> HIDE DEF f
<1>3. f[Cardinality(FreeBlocks)] = g[Cardinality(FreeBlocks)]
  BY <1>1, ListUnique
<1>4. QED
  BY <1>2, <1>3

-----------------------------------------------------------------------------
(* what a shape says of the heap                                           *)

\* Blocks and FreeBlocks are those of the shape.
LEMMA FreeBlocksAre ==
  ASSUME NEW B, NEW S, NEW A, Shape(heap, B, S, A, {})
  PROVE  FreeBlocks = B \ A /\ Blocks = B
<1>1. Blocks = B
  BY BlocksAre
<1>2. \A p \in B : IsFree(heap, p) <=> p \notin A
  BY SizeOf
<1>3. QED
  BY <1>1, <1>2 DEF FreeBlocks

LEMMA TiledOf ==
  ASSUME NEW B, NEW S, NEW A, Shape(heap, B, S, A, {})
  PROVE  Tiled
<1>1. /\ Tiles(heap.brk, B, S) /\ Blocks = B
      /\ \A p \in B : Tagged(heap.mem, p, S[p], Bit(p, A)) /\ Size(p) = S[p]
  <2>1. Blocks = B
    BY BlocksAre
  <2>2. Tiles(heap.brk, B, S) /\ \A p \in B : Tagged(heap.mem, p, S[p], Bit(p, A))
    BY DEF Shape
  <2>3. \A p \in B : Size(p) = S[p]
    BY SizeOf DEF Size
  <2>4. QED
    BY <2>1, <2>2, <2>3
<1>2. ASSUME NEW p \in Blocks
      PROVE  p + Size(p) <= heap.brk /\ GET(heap, FTRP(heap, p)) = GET(heap, p - 1)
  <2>1. p + S[p] <= heap.brk
    BY <1>1 DEF Tiles
  <2>2. heap.mem[p + S[p] - 2] = heap.mem[p - 1]
    BY <1>1 DEF Tagged
  <2>3. FTRP(heap, p) = p + S[p] - 2
    BY <1>1 DEF FTRP, Size
  <2>4. QED
    BY <1>1, <2>1, <2>2, <2>3 DEF GET
<1>3. \E p \in Blocks : p + Size(p) = heap.brk
  BY <1>1 DEF Tiles
<1>4. GET(heap, heap.brk - 1) = PACK(0, 1)
  BY DEF Shape, GET
<1>5. QED
  BY <1>2, <1>3, <1>4 DEF Tiled

\* One list, as ListsExact states it.
ListExact(l) ==
    /\ ListBlocks(l) = {p \in FreeBlocks : dispatch_size(Size(p)) = l}
    /\ \A p \in ListBlocks(l) :
          /\ (PREV_FREE_BLK(heap, p) = NULL) = (p = ListHead(heap, l))
          /\ NEXT_FREE_BLK(heap, p) # NULL =>
                PREV_FREE_BLK(heap, NEXT_FREE_BLK(heap, p)) = p

LEMMA ListExactOf ==
  ASSUME NEW B, NEW S, NEW A, Shape(heap, B, S, A, {}), NEW l \in Lists
  PROVE  ListExact(l)
<1>1. PICK F : F = B \ A
  OBVIOUS
<1>2. Tiles(heap.brk, B, S) /\ F \subseteq B /\ LinkedAs(heap.mem, F, S) /\ FreeBlocks = F
  <2>1. (B \ A) \ {} = F
    BY <1>1
  <2>2. QED
    BY <1>1, <2>1, FreeBlocksAre DEF Shape
<1>3. F \in SUBSET Word /\ S \in [Word -> Nat] /\ NULL \notin F
  BY <1>2, Consts DEF Tiles, Word, NULL
<1>4. PICK pr \in [Word -> Nat], nx \in [Word -> Nat], pos \in [Word -> Nat], hd \in [Lists -> Nat] :
          Ptrs(heap.mem, F, pr, nx, hd) /\ Chains(F, ListOf(S), pr, nx, hd, pos)
  BY <1>2 DEF LinkedAs
<1>5. PICK c : c = ListOf(S)
  OBVIOUS
<1>6. ListHead(heap, l) = hd[l]
  <2>1. heap.mem[HeapLo + l] = 2 * hd[l] /\ hd[l] \in Nat
    BY <1>4 DEF Ptrs
  <2>2. QED
    BY <2>1 DEF ListHead, GET
<1>7. ASSUME NEW p \in F
      PROVE  /\ NEXT_FREE_BLK(heap, p) = nx[p] /\ PREV_FREE_BLK(heap, p) = pr[p]
             /\ Size(p) = S[p] /\ c[p] = dispatch_size(S[p])
  <2>2. heap.mem[p + 1] = 2 * nx[p] /\ nx[p] \in Nat /\ heap.mem[p] = 2 * pr[p] /\ pr[p] \in Nat
    BY <1>3, <1>4 DEF Ptrs
  <2>3. Size(p) = S[p]
    BY <1>2, SizeOf DEF Size
  <2>4. c[p] = dispatch_size(S[p])
    BY <1>3, <1>5 DEF ListOf
  <2>5. QED
    BY <2>2, <2>3, <2>4 DEF NEXT_FREE_BLK, PREV_FREE_BLK, GET
<1>8. Chains(F, c, pr, nx, hd, pos)
  BY <1>4, <1>5
<1>9. PICK g : g = Reached(F, c, pos, l)
  OBVIOUS
<1>10. g = ListStep(l, g)
  <2>1. \A p \in F : NEXT_FREE_BLK(heap, p) = nx[p]
    BY <1>7
  <2>2. QED
    BY <1>2, <1>3, <1>6, <1>8, <1>9, <2>1, ReachedSolves
<1>11. PICK n : n = Cardinality(F)
  OBVIOUS
<1>12. n \in Nat
  <2>1. IsFiniteSet(Word)
    <3>1. PICK b \in Int : b = HeapLo + MAX_HEAP - 1
      BY Consts
    <3>2. IsFiniteSet(HeapLo .. b)
      <4>1. HeapLo \in Int
        BY Consts
      <4>2. QED
        BY <4>1, FS_Interval
    <3>3. QED
      BY <3>1, <3>2 DEF Word
  <2>2. IsFiniteSet(F)
    BY <1>3, <2>1, FS_Subset
  <2>3. QED
    BY <1>11, <2>2, FS_CardinalityType
<1>13. ListBlocks(l) = g[n] \ {NULL}
  BY <1>2, <1>10, <1>11, <1>12, ListBlocksIs
<1>14. \A p \in F : pos[p] \in Nat /\ pos[p] <= n + 1
  <2>1. TAKE p \in F
  <2>2. IsInPlace(F, c, pos, p)
    BY <1>3, <1>8, PlacesTaken
  <2>3. QED
    BY <1>11, <1>12, <2>2 DEF IsInPlace
<1>15. ListBlocks(l) = {p \in F : c[p] = l}
  <2>1. g[n] = FirstOf(F, c, pos, l, n) \cup
                   IF \E p \in F : c[p] = l /\ pos[p] = n + 1 THEN {} ELSE {NULL}
    BY <1>9, <1>12 DEF Reached
  <2>2. FirstOf(F, c, pos, l, n) = {p \in F : c[p] = l}
    BY <1>14 DEF FirstOf
  <2>3. QED
    BY <1>3, <1>13, <2>1, <2>2
<1>16. ListBlocks(l) = {p \in FreeBlocks : dispatch_size(Size(p)) = l}
  BY <1>2, <1>7, <1>15
<1>17. ASSUME NEW p \in ListBlocks(l)
       PROVE  /\ (PREV_FREE_BLK(heap, p) = NULL) = (p = ListHead(heap, l))
              /\ NEXT_FREE_BLK(heap, p) # NULL =>
                    PREV_FREE_BLK(heap, NEXT_FREE_BLK(heap, p)) = p
  <2>1. p \in F /\ c[p] = l
    BY <1>15
  <2>2. PREV_FREE_BLK(heap, p) = pr[p] /\ NEXT_FREE_BLK(heap, p) = nx[p]
    BY <1>7, <2>1
  <2>3. pr[p] = NULL => p = hd[l]
    BY <1>8, <2>1 DEF Chains
  <2>4. p = hd[l] => pr[p] = NULL
    <3>1. p # NULL
      BY <1>3, <2>1
    <3>2. QED
      BY <1>8, <3>1 DEF Chains
  <2>5. (PREV_FREE_BLK(heap, p) = NULL) <=> (p = ListHead(heap, l))
    BY <1>6, <2>2, <2>3, <2>4
  <2>6. (PREV_FREE_BLK(heap, p) = NULL) = (p = ListHead(heap, l))
    BY <2>5
  <2>7. ASSUME nx[p] # NULL PROVE PREV_FREE_BLK(heap, nx[p]) = p
    <3>1. nx[p] \in F /\ pr[nx[p]] = p
      BY <1>8, <2>1, <2>7 DEF Chains
    <3>2. QED
      BY <1>7, <3>1
  <2>8. QED
    BY <2>2, <2>6, <2>7
<1>18. QED
  BY <1>16, <1>17 DEF ListExact

LEMMA ListsOf ==
  ASSUME NEW B, NEW S, NEW A, Shape(heap, B, S, A, {})
  PROVE  ListsExact
<1>1. \A l \in Lists : ListExact(l)
  BY ListExactOf
<1>2. QED
  BY <1>1 DEF ListExact, ListsExact

-----------------------------------------------------------------------------
(* the trace's blocks in the heap                                          *)

\* The payload of block i holds what the trace has written.
Holds(h, p, size, i) == \A a \in p .. Hi(p, size) : GET(h, a) = Data(i)

\* g is h with the payload q of block i filled.
IsWritten(g, h, B, S, A, q, size, i) ==
    /\ Shape(g, B, S, A, {}) /\ Untouched(h, g, A \ {q}, S)
    /\ Holds(g, q, size, i) /\ g.brk = h.brk

\* What Fill writes.
HasFilled(g, h, q, size, i) ==
    /\ g \in Heap /\ g.brk = h.brk
    /\ \A a \in Word : g.mem[a] = IF a \in q .. Hi(q, size) THEN Data(i) ELSE h.mem[a]

LEMMA FillWrites ==
  ASSUME NEW h \in Heap, NEW q \in Int, NEW size \in Nat, NEW i \in Nat, NEW g, g = Fill(h, q, size, i)
  PROVE  HasFilled(g, h, q, size, i)
<1>1. /\ g.mem = [a \in Word |-> IF a \in q .. Hi(q, size) THEN Data(i) ELSE h.mem[a]]
      /\ g.brk = h.brk /\ g.cnt = h.cnt /\ g = [h EXCEPT !.mem = g.mem]
  BY DEF Fill, Heap
<1>2. \A a \in Word : g.mem[a] \in Int
  BY <1>1 DEF Heap, Data, FillByte
<1>3. g.mem \in [Word -> Int]
  BY <1>1, <1>2
<1>4. g \in Heap
  BY <1>1, <1>3 DEF Heap
<1>5. QED
  BY <1>1, <1>4 DEF HasFilled

\* Writing the payload of an allocated block leaves the shape alone.
LEMMA WriteShape ==
  ASSUME NEW h, NEW B, NEW S, NEW A, Shape(h, B, S, A, {}), NEW q \in A,
         NEW size \in Nat, size + 2 <= S[q], NEW i \in Nat, NEW g, g = Fill(h, q, size, i)
  PROVE  IsWritten(g, h, B, S, A, q, size, i)
<1>1. h \in Heap /\ Tiles(h.brk, B, S) /\ q \in B /\ Tagged(h.mem, q, S[q], 1)
  BY DEF Shape, Bit
<1>2. q \in Int /\ S[q] \in Nat /\ S[q] >= 4 /\ Zone(q, S) \subseteq Word
  BY <1>1, ZoneWord
<1>3. /\ g \in Heap /\ g.brk = h.brk
      /\ \A a \in Word : g.mem[a] = IF a \in q .. Hi(q, size) THEN Data(i) ELSE h.mem[a]
  <2>1. HasFilled(g, h, q, size, i)
    BY <1>1, <1>2, FillWrites
  <2>2. QED
    BY <2>1 DEF HasFilled
<1>4. q .. Hi(q, size) \subseteq Zone(q, S) /\ q .. Hi(q, size) \subseteq q .. q + S[q] - 3
  BY <1>2 DEF Zone, Hi
<1>5. PICK D, H : D = A \ {q} /\ H = {q}
  OBVIOUS
<1>6. Shape(h, B, S, D, H)
  <2>1. Shape(h, B, S, A \ {q}, {} \cup {q})
    BY ForgetShape
  <2>2. QED
    BY <1>5, <2>1
<1>7. Shape(g, B, S, D, H) /\ Untouched(h, g, D, S)
  <2>1. \A a \in Word : (\A p \in H : a \notin Zone(p, S)) => g.mem[a] = h.mem[a]
    BY <1>3, <1>4, <1>5
  <2>2. QED
    BY <1>3, <1>6, <2>1, ShapeFrame
<1>8. Tagged(g.mem, q, S[q], 1)
  <2>1. /\ q - 1 \in Word /\ q + S[q] - 2 \in Word
        /\ q - 1 \notin q .. q + S[q] - 3 /\ q + S[q] - 2 \notin q .. q + S[q] - 3
    BY <1>2 DEF Zone
  <2>2. g.mem[q - 1] = h.mem[q - 1] /\ g.mem[q + S[q] - 2] = h.mem[q + S[q] - 2]
    BY <1>3, <1>4, <2>1
  <2>3. QED
    BY <1>1, <2>2 DEF Tagged
<1>9. Shape(g, B, S, A, {})
  <2>1. D \cup {q} = A /\ H \ {q} = {} /\ q \in H
    BY <1>5
  <2>2. Shape(g, B, S, D \cup {q}, H \ {q})
    BY <1>7, <1>8, <2>1, AllocateShape
  <2>3. QED
    BY <2>1, <2>2
<1>10. Holds(g, q, size, i)
  BY <1>2, <1>3, <1>4 DEF Holds, GET
<1>11. QED
  BY <1>3, <1>5, <1>7, <1>9, <1>10 DEF IsWritten

\* The payloads of the blocks I.
At(bl, I) == {bl[i] : i \in I}

\* Block i is one of the allocated blocks, no larger than a split would leave it.
IsTraced(h, S, p, size, i) ==
    /\ size \in Sizes /\ S[p] \in BlockSize(size) .. BlockSize(size) + 4
    /\ Holds(h, p, size, i)

\* The blocks I of the trace are the allocated ones.
Traced(h, S, A, bl, sz, I) ==
    /\ A = At(bl, I)
    /\ \A i, j \in I : bl[i] = bl[j] => i = j
    /\ \A i \in I : IsTraced(h, S, bl[i], sz[i], i)

\* The heap has a shape, in which the blocks of the trace are allocated.
Sound(h, bl, sz, I) == \E B, S, A : Shape(h, B, S, A, {}) /\ Traced(h, S, A, bl, sz, I)

\* What has not been written over is as the trace knows it.
LEMMA TracedKept ==
  ASSUME NEW h, NEW B, NEW S, NEW E, Shape(h, B, S, E, {}), NEW bl, NEW sz, NEW I,
         NEW A, A \subseteq E, Traced(h, S, A, bl, sz, I),
         NEW J, J \subseteq I, NEW D, D = At(bl, J),
         NEW g, NEW T, \A x \in D : T[x] = S[x], Untouched(h, g, D, S)
  PROVE  Traced(g, T, D, bl, sz, J)
<1>1. \A i, j \in J : bl[i] = bl[j] => i = j
  BY DEF Traced
<1>2. ASSUME NEW i \in J PROVE IsTraced(g, T, bl[i], sz[i], i)
  <2>1. PICK p, n : p = bl[i] /\ n = sz[i]
    OBVIOUS
  <2>2. p \in A /\ p \in D /\ IsTraced(h, S, p, n, i)
    BY <2>1 DEF Traced, At
  <2>3. n \in Nat
    BY <2>2, MDriverAssumption DEF IsTraced
  <2>4. p \in Int /\ S[p] \in Nat /\ S[p] >= n + 2
    <3>1. p \in Int /\ S[p] \in Nat
      BY <2>2, ZoneWord DEF Shape
    <3>2. S[p] \in BlockSize(n) .. BlockSize(n) + 4
      BY <2>2 DEF IsTraced
    <3>3. QED
      BY <2>3, <3>1, <3>2 DEF BlockSize
  <2>5. \A a \in p .. Hi(p, n) : a \in Zone(p, S)
    BY <2>3, <2>4 DEF Zone, Hi
  <2>6. Holds(g, p, n, i)
    BY <2>2, <2>5 DEF IsTraced, Holds, Untouched, GET
  <2>7. IsTraced(g, T, p, n, i)
    BY <2>2, <2>6 DEF IsTraced
  <2>8. QED
    BY <2>1, <2>7
<1>3. QED
  BY <1>1, <1>2 DEF Traced

\* How a block is received.
IsReceived(g, bl2, sz2, bl, sz, r, i, size) ==
    /\ g = Fill(r.h, r.p, size, i)
    /\ bl2 = [bl EXCEPT ![i] = r.p] /\ sz2 = [sz EXCEPT ![i] = size]
    /\ bl \in [Ids -> Int] /\ sz \in [Ids -> Nat]

\* The block that a request returns, filled, is the trace's block i.
LEMMA ReceiveSound ==
  ASSUME NEW h, NEW B, NEW S, NEW A, Shape(h, B, S, A, {}), NEW bl, NEW sz, NEW I,
         I \subseteq Ids, Traced(h, S, A, bl, sz, I),
         NEW i \in Ids, NEW J, J = I \ {i}, NEW D, D = At(bl, J),
         NEW size \in Sizes, NEW need, need = BlockSize(size),
         NEW r, Allotted(h, r, S, D, need),
         NEW g, NEW bl2, NEW sz2, IsReceived(g, bl2, sz2, bl, sz, r, i, size),
         NEW K, K = J \cup {i}
  PROVE  Sound(g, bl2, sz2, K)
<1>1. PICK k, q : k = r.h /\ q = r.p
  OBVIOUS
<1>0. /\ g = Fill(r.h, r.p, size, i)
      /\ bl2 = [bl EXCEPT ![i] = r.p] /\ sz2 = [sz EXCEPT ![i] = size]
      /\ bl \in [Ids -> Int] /\ sz \in [Ids -> Nat]
  BY DEF IsReceived
<1>2. PICK C, T : /\ Shape(k, C, T, D \cup {q}, {}) /\ q \in C /\ q \notin D
                  /\ T[q] \in need .. need + 4
                  /\ \A x \in D : T[x] = S[x]
                  /\ Untouched(h, k, D, S)
  BY <1>1 DEF Allotted
<1>3. Traced(k, T, D, bl, sz, J)
  <2>1. A \subseteq A /\ J \subseteq I
    OBVIOUS
  <2>2. (\A x \in D : T[x] = S[x]) /\ Untouched(h, k, D, S)
    BY <1>2
  <2>3. QED
    BY <2>1, <2>2, TracedKept
<1>4. PICK E : E = D \cup {q}
  OBVIOUS
<1>5. size \in Nat /\ i \in Nat
  BY MDriverAssumption
<1>6. IsWritten(g, k, C, T, E, q, size, i)
  <2>1. size + 2 <= T[q]
    BY <1>2, <1>5 DEF BlockSize
  <2>2. q \in E /\ Shape(k, C, T, E, {}) /\ g = Fill(k, q, size, i)
    BY <1>0, <1>1, <1>2, <1>4
  <2>3. QED
    BY <1>5, <2>1, <2>2, WriteShape
<1>7. Shape(g, C, T, E, {}) /\ Untouched(k, g, D, T) /\ Holds(g, q, size, i)
  <2>1. E \ {q} = D
    BY <1>2, <1>4
  <2>2. QED
    BY <1>6, <2>1 DEF IsWritten
<1>8. /\ bl2[i] = q /\ sz2[i] = size
      /\ \A j \in J : j # i /\ bl2[j] = bl[j] /\ sz2[j] = sz[j] /\ bl[j] \in D
  BY <1>0, <1>1 DEF At
<1>9. Traced(g, T, E, bl2, sz2, K)
  <2>1. E = At(bl2, K)
    BY <1>4, <1>8 DEF At
  <2>2. \A x, y \in K : bl2[x] = bl2[y] => x = y
    <3>1. \A x, y \in J : bl[x] = bl[y] => x = y
      BY <1>3 DEF Traced
    <3>2. QED
      BY <1>2, <1>8, <3>1
  <2>3. IsTraced(g, T, bl2[i], sz2[i], i)
    BY <1>2, <1>7, <1>8 DEF IsTraced
  <2>4. ASSUME NEW j \in J PROVE IsTraced(g, T, bl2[j], sz2[j], j)
    <3>1. Traced(g, T, D, bl, sz, J)
      <4>1. Shape(k, C, T, E, {}) /\ D \subseteq E /\ D = At(bl, J) /\ J \subseteq J
            /\ (\A x \in D : T[x] = T[x]) /\ Untouched(k, g, D, T)
        BY <1>2, <1>4, <1>7
      <4>2. QED
        BY <1>3, <4>1, TracedKept
    <3>2. QED
      BY <1>8, <3>1 DEF Traced
  <2>5. QED
    BY <2>1, <2>2, <2>3, <2>4 DEF Traced
<1>10. QED
  BY <1>7, <1>9 DEF Sound

-----------------------------------------------------------------------------
(* the requests of a trace                                                 *)

\* Requests of up to eight bytes give blocks without room for the list pointers;
\* the results are about traces without them.
RoomForLinks == \A size \in Sizes : size >= 2

\* The heap has a shape without holes.
Shaped(h) == \E B, S, A : Shape(h, B, S, A, {})

\* Types of the driver's variables.
TraceType ==
    /\ blocks \in [Ids -> Word \cup {NULL}] /\ block_sizes \in [Ids -> Nat]
    /\ \A i \in Ids : blocks[i] = NULL => block_sizes[i] = 0
    /\ ops \in 0 .. MaxOps /\ verdict \in Verdicts

\* The inductive invariant of the driver.
DriverInv ==
    /\ TraceType
    /\ Shaped(heap)
    /\ verdict = "running" => Sound(heap, blocks, block_sizes, Live)

\* What the cases of Judged say.
JudgedAs(v, i, r, old, size, kept) ==
    /\ v \in Verdicts
    /\ v = "out of memory" => r.p = NULL
    /\ v # "out of memory" => r.p # NULL
    /\ v = "bad range" => ~ Accepts(old, r.p, size, HeapLo, r.h.brk - 1)
    /\ v = "running" \/ v = "data lost" => Accepts(old, r.p, size, HeapLo, r.h.brk - 1)
    /\ v = "data lost" => ~ Preserved(i, r, kept)
    /\ v = "running" => Preserved(i, r, kept)

LEMMA JudgedIs ==
  ASSUME NEW i, NEW r, NEW old, NEW size, NEW kept, NEW v, v = Judged(i, r, old, size, kept)
  PROVE  JudgedAs(v, i, r, old, size, kept)
<1> DEFINE ok == Accepts(old, r.p, size, HeapLo, r.h.brk - 1)
<1>1. v = CASE r.p = NULL -> "out of memory"
            [] r.p # NULL /\ ~ ok -> "bad range"
            [] OTHER -> IF Preserved(i, r, kept) THEN "running" ELSE "data lost"
  BY DEF Judged
<1> HIDE DEF ok
<1>2. ASSUME r.p = NULL PROVE v = "out of memory"
  BY <1>1, <1>2, Zenon
<1>3. ASSUME r.p # NULL, ~ ok PROVE v = "bad range"
  BY <1>1, <1>3, Zenon
<1>4. ASSUME r.p # NULL, ok PROVE v = IF Preserved(i, r, kept) THEN "running" ELSE "data lost"
  BY <1>1, <1>4, Zenon
<1>5. CASE r.p = NULL
  BY <1>2, <1>5 DEF JudgedAs, Verdicts
<1>6. CASE r.p # NULL /\ ~ ok
  BY <1>3, <1>6 DEF JudgedAs, Verdicts, ok
<1>7. CASE r.p # NULL /\ ok
  BY <1>4, <1>7 DEF JudgedAs, Verdicts, ok
<1>8. QED
  BY <1>5, <1>6, <1>7

\* What a request makes of the heap, before the driver looks at it.
Outcome(r, i, size) ==
    \E B, S, A : /\ Shape(heap, B, S, A, {})
                 /\ Traced(heap, S, A, blocks, block_sizes, Live)
                 /\ r.p = NULL => r.h = heap
                 /\ r.p # NULL => Allotted(heap, r, S, At(blocks, Live \ {i}), BlockSize(size))
                 /\ r.h.brk >= heap.brk

\* mm_malloc gives the driver such a result.
LEMMA AllocOutcome ==
  ASSUME DriverInv, verdict = "running", RoomForLinks, NEW i \in Ids, i \notin Live,
         NEW size \in Sizes, NEW r, r = mm_malloc(heap, size)
  PROVE  Outcome(r, i, size)
<1>1. PICK B, S, A : Shape(heap, B, S, A, {}) /\ Traced(heap, S, A, blocks, block_sizes, Live)
  BY DEF DriverInv, Sound
<1>2. size \in Nat /\ size >= 2
  BY MDriverAssumption DEF RoomForLinks
<1>3. PICK h, need : h = heap /\ need = BlockSize(size)
  OBVIOUS
<1>4. Mallocked(h, r, B, S, A, need)
  <2>1. Shape(h, B, S, A, {}) /\ r = mm_malloc(h, size)
    BY <1>1, <1>3
  <2>2. QED
    BY <1>2, <1>3, <2>1, MallocShape
<1>5. At(blocks, Live \ {i}) = A
  <2>1. Live \ {i} = Live
    OBVIOUS
  <2>2. QED
    BY <1>1, <2>1 DEF Traced
<1>6. QED
  BY <1>1, <1>3, <1>4, <1>5 DEF Mallocked, Outcome

LEMMA OneLess ==
  ASSUME NEW h, NEW S, NEW A, NEW bl, NEW sz, NEW I, Traced(h, S, A, bl, sz, I), NEW i \in I
  PROVE  bl[i] \in A /\ At(bl, I \ {i}) = A \ {bl[i]}
  BY DEF Traced, At

\* So does mm_realloc.
LEMMA ReallocOutcome ==
  ASSUME DriverInv, verdict = "running", RoomForLinks, NEW i \in Live,
         NEW size \in Sizes, NEW r, r = mm_realloc(heap, blocks[i], size)
  PROVE  Outcome(r, i, size)
<1>1. PICK B, S, A : Shape(heap, B, S, A, {}) /\ Traced(heap, S, A, blocks, block_sizes, Live)
  BY DEF DriverInv, Sound
<1>2. size \in Nat /\ size >= 2
  BY MDriverAssumption DEF RoomForLinks
<1>3. PICK h, p, need : h = heap /\ p = blocks[i] /\ need = BlockSize(size)
  OBVIOUS
<1>4. p \in A /\ At(blocks, Live \ {i}) = A \ {p}
  <2>1. PICK bl, sz, I : bl = blocks /\ sz = block_sizes /\ I = Live
    OBVIOUS
  <2>2. Traced(h, S, A, bl, sz, I) /\ i \in I
    BY <1>1, <1>3, <2>1
  <2>3. bl[i] \in A /\ At(bl, I \ {i}) = A \ {bl[i]}
    BY <2>2, OneLess
  <2>4. QED
    BY <1>3, <2>1, <2>3
<1>5. PICK n : n = (IF S[p] < need THEN S[p] ELSE need) - 2
  OBVIOUS
<1>6. Reallocked(h, r, S, A, p, need, n)
  <2>1. Shape(h, B, S, A, {}) /\ r = mm_realloc(h, p, size)
    BY <1>1, <1>3
  <2>2. QED
    BY <1>2, <1>3, <1>4, <1>5, <2>1, ReallocShape
<1>7. QED
  BY <1>1, <1>3, <1>4, <1>6 DEF Reallocked, Outcome

\* Receiving it preserves the invariant.
LEMMA ReceiveInv ==
  ASSUME DriverInv, verdict = "running", NEW i \in Ids, NEW size \in Sizes,
         NEW r, Outcome(r, i, size), NEW old, NEW kept, Receive(i, r, old, size, kept),
         ops' \in 0 .. MaxOps
  PROVE  DriverInv'
<1>1. PICK B, S, A : /\ Shape(heap, B, S, A, {})
                     /\ Traced(heap, S, A, blocks, block_sizes, Live)
                     /\ r.p = NULL => r.h = heap
                     /\ r.p # NULL => Allotted(heap, r, S, At(blocks, Live \ {i}), BlockSize(size))
  BY DEF Outcome
<1>2. JudgedAs(verdict', i, r, old, size, kept)
  <2>1. verdict' = Judged(i, r, old, size, kept)
    BY DEF Receive
  <2>2. QED
    BY <2>1, JudgedIs
<1>3. verdict' \in Verdicts
  BY <1>2 DEF JudgedAs
<1>4. Shaped(r.h)
  <2>1. CASE r.p = NULL
    <3>1. r.h = heap
      BY <1>1, <2>1
    <3>2. QED
      BY <1>1, <3>1 DEF Shaped
  <2>2. CASE r.p # NULL
    BY <1>1, <2>2 DEF Allotted, Shaped
  <2>3. QED
    BY <2>1, <2>2
<1>5. CASE verdict' # "running"
  <2>1. heap' = r.h /\ blocks' = blocks /\ block_sizes' = block_sizes
    BY <1>5 DEF Receive
  <2>2. TraceType'
    BY <1>3, <2>1 DEF DriverInv, TraceType
  <2>3. Shaped(heap')
    BY <1>4, <2>1
  <2>4. QED
    BY <1>5, <2>2, <2>3 DEF DriverInv
<1>6. CASE verdict' = "running"
  <2>1. /\ heap' = Fill(r.h, r.p, size, i) /\ blocks' = [blocks EXCEPT ![i] = r.p]
        /\ block_sizes' = [block_sizes EXCEPT ![i] = size]
    BY <1>6 DEF Receive
  <2>2. r.p # NULL /\ Allotted(heap, r, S, At(blocks, Live \ {i}), BlockSize(size))
    BY <1>1, <1>2, <1>6 DEF JudgedAs
  <2>3. r.p \in Word
    BY <2>2 DEF Allotted, Shape, Tiles
  <2>4. TraceType'
    <3>1. blocks' \in [Ids -> Word \cup {NULL}]
      BY <2>1, <2>3 DEF DriverInv, TraceType
    <3>2. size \in Nat
      BY MDriverAssumption
    <3>3. block_sizes' \in [Ids -> Nat]
      BY <2>1, <3>2 DEF DriverInv, TraceType
    <3>4. ASSUME NEW j \in Ids, blocks'[j] = NULL PROVE block_sizes'[j] = 0
      <4>1. j # i
        BY <2>1, <2>2, <3>4 DEF DriverInv, TraceType
      <4>2. blocks'[j] = blocks[j] /\ block_sizes'[j] = block_sizes[j]
        BY <2>1, <4>1 DEF DriverInv, TraceType
      <4>3. QED
        BY <3>4, <4>2 DEF DriverInv, TraceType
    <3>5. QED
      BY <1>3, <3>1, <3>3, <3>4 DEF TraceType
  <2>5. Live' = (Live \ {i}) \cup {i}
    BY <2>1, <2>2 DEF Live, DriverInv, TraceType
  <2>6. Sound(heap', blocks', block_sizes', Live')
    <3>1. PICK bl, sz, I : bl = blocks /\ sz = block_sizes /\ I = Live
      OBVIOUS
    <3>2. bl \in [Ids -> Int] /\ sz \in [Ids -> Nat] /\ I \subseteq Ids
      BY <3>1, Consts DEF DriverInv, TraceType, Live, Word, NULL
    <3>3. PICK bl2, sz2, K, g, J, D, need :
             /\ bl2 = blocks' /\ sz2 = block_sizes' /\ K = Live' /\ g = heap' /\ J = I \ {i}
             /\ D = At(bl, J) /\ need = BlockSize(size)
      OBVIOUS
    <3>4. PICK h : h = heap
      OBVIOUS
    <3>5. /\ Shape(h, B, S, A, {}) /\ Traced(h, S, A, bl, sz, I) /\ Allotted(h, r, S, D, need)
      BY <1>1, <2>2, <3>1, <3>3, <3>4
    <3>6. /\ g = Fill(r.h, r.p, size, i) /\ bl2 = [bl EXCEPT ![i] = r.p]
          /\ sz2 = [sz EXCEPT ![i] = size] /\ K = J \cup {i}
      BY <2>1, <2>5, <3>1, <3>3
    <3>7. Sound(g, bl2, sz2, K)
      <4>1. J = I \ {i} /\ D = At(bl, J) /\ need = BlockSize(size)
        BY <3>3
      <4>2. IsReceived(g, bl2, sz2, bl, sz, r, i, size)
        BY <3>2, <3>6 DEF IsReceived
      <4>3. QED
        BY <3>2, <3>5, <3>6, <4>1, <4>2, ReceiveSound
    <3>8. QED
      BY <3>3, <3>7
  <2>7. Shaped(heap')
    BY <2>6 DEF Sound, Shaped
  <2>8. QED
    BY <2>4, <2>6, <2>7 DEF DriverInv
<1>7. QED
  BY <1>5, <1>6

LEMMA FreeInv ==
  ASSUME DriverInv, NEW i \in Ids, FreeBlock(i)
  PROVE  DriverInv'
<1>1. /\ verdict = "running" /\ verdict' = verdict /\ ops' \in 0 .. MaxOps /\ i \in Live
      /\ heap' = mm_free(heap, blocks[i]) /\ blocks' = [blocks EXCEPT ![i] = NULL]
      /\ block_sizes' = [block_sizes EXCEPT ![i] = 0]
  BY MDriverAssumption DEF FreeBlock, Request, DriverInv, TraceType
<1>2. PICK B, S, A : Shape(heap, B, S, A, {}) /\ Traced(heap, S, A, blocks, block_sizes, Live)
  BY <1>1 DEF DriverInv, Sound
<1>3. PICK h, p, J, D, k : /\ h = heap /\ p = blocks[i] /\ J = Live \ {i} /\ D = A \ {p} /\ k = heap'
  OBVIOUS
<1>4. p \in A /\ D = At(blocks, J)
  BY <1>1, <1>2, <1>3, OneLess
<1>5. Kept(k, h, S, A \ {p})
  <2>1. Shape(h, B, S, A, {}) /\ k = mm_free(h, p)
    BY <1>1, <1>2, <1>3
  <2>2. QED
    BY <1>4, <2>1, FreeShape
<1>6. PICK C, T : /\ Shape(k, C, T, D, {}) /\ \A x \in D : T[x] = S[x]
                  /\ Untouched(h, k, D, S)
  BY <1>3, <1>5 DEF Kept
<1>7. PICK bl, sz, I : bl = blocks /\ sz = block_sizes /\ I = Live
  OBVIOUS
<1>8. Traced(k, T, D, bl, sz, J)
  <2>1. Shape(h, B, S, A, {}) /\ Traced(h, S, A, bl, sz, I) /\ A \subseteq A /\ J \subseteq I /\ D = At(bl, J)
    BY <1>2, <1>3, <1>4, <1>7
  <2>2. QED
    BY <1>6, <2>1, TracedKept
<1>9. Live' = J
  BY <1>1, <1>3 DEF Live, DriverInv, TraceType
<1>10. \A j \in J : blocks'[j] = bl[j] /\ block_sizes'[j] = sz[j]
  BY <1>1, <1>3, <1>7 DEF DriverInv, TraceType, Live
<1>11. Traced(heap', T, D, blocks', block_sizes', Live')
  <2>1. PICK bl2, sz2 : bl2 = blocks' /\ sz2 = block_sizes'
    OBVIOUS
  <2>2. At(bl2, J) = At(bl, J)
    BY <1>10, <2>1 DEF At
  <2>3. Traced(k, T, D, bl2, sz2, J)
    BY <1>8, <1>10, <2>1, <2>2 DEF Traced
  <2>4. QED
    BY <1>3, <1>9, <2>1, <2>3
<1>12. Sound(heap', blocks', block_sizes', Live') /\ Shaped(heap')
  BY <1>3, <1>6, <1>11 DEF Sound, Shaped
<1>13. TraceType'
  <2>1. blocks' \in [Ids -> Word \cup {NULL}] /\ block_sizes' \in [Ids -> Nat]
    BY <1>1 DEF DriverInv, TraceType
  <2>2. \A j \in Ids : blocks'[j] = NULL => block_sizes'[j] = 0
    BY <1>1 DEF DriverInv, TraceType
  <2>3. QED
    BY <1>1, <2>1, <2>2 DEF DriverInv, TraceType
<1>14. QED
  BY <1>12, <1>13 DEF DriverInv

LEMMA NoBlockSound == ASSUME NEW h, NEW B, NEW S, Shape(h, B, S, {}, {}), NEW bl, NEW sz
                      PROVE  Sound(h, bl, sz, {})
<1>1. Traced(h, S, {}, bl, sz, {})
  BY DEF Traced, At
<1>2. QED
  BY <1>1 DEF Sound

LEMMA DriverInit == ASSUME Init PROVE DriverInv
<1>1. PICK parity \in {0, 1} : heap = mm_init([mem_init EXCEPT !.cnt = parity])
  BY DEF Init
<1>2. PICK h, g : h = [mem_init EXCEPT !.cnt = parity] /\ g = heap
  OBVIOUS
<1>3. h \in Heap /\ h.brk = HeapLo
  BY <1>2, Consts DEF mem_init, Heap
<1>4. IsInitial(g)
  <2>1. g = mm_init(h) /\ CHUNK_SIZE + segregated_list_num + 3 <= MAX_HEAP
    BY <1>1, <1>2, MDriverAssumption
  <2>2. QED
    BY <1>3, <2>1, InitShape
<1>5. Live = {}
  BY DEF Init, Live
<1>6. Sound(heap, blocks, block_sizes, Live) /\ Shaped(heap)
  BY <1>2, <1>4, <1>5, NoBlockSound DEF IsInitial, Shaped
<1>7. TraceType
  BY MDriverAssumption DEF Init, TraceType, Verdicts
<1>8. QED
  BY <1>6, <1>7 DEF DriverInv

LEMMA AllocInv ==
  ASSUME DriverInv, RoomForLinks, NEW i \in Ids, NEW size \in Sizes, Alloc(i, size)
  PROVE  DriverInv'
<1>1. PICK r : r = mm_malloc(heap, size)
  OBVIOUS
<1>2. /\ verdict = "running" /\ ops' \in 0 .. MaxOps /\ i \notin Live
      /\ Receive(i, r, ranges, size, 0)
  BY <1>1, MDriverAssumption DEF Alloc, Request, DriverInv, TraceType
<1>3. Outcome(r, i, size)
  BY <1>1, <1>2, AllocOutcome
<1>4. QED
  BY <1>2, <1>3, ReceiveInv

LEMMA ReallocInv ==
  ASSUME DriverInv, RoomForLinks, NEW i \in Ids, NEW size \in Sizes, Realloc(i, size)
  PROVE  DriverInv'
<1>1. PICK r, old, kept : /\ r = mm_realloc(heap, blocks[i], size)
                          /\ old = Removed(ranges, blocks[i])
                          /\ kept = Min({size, block_sizes[i]})
  OBVIOUS
<1>2. /\ verdict = "running" /\ ops' \in 0 .. MaxOps /\ i \in Live
      /\ Receive(i, r, old, size, kept)
  BY <1>1, MDriverAssumption DEF Realloc, Request, DriverInv, TraceType
<1>3. Outcome(r, i, size)
  BY <1>1, <1>2, ReallocOutcome
<1>4. QED
  BY <1>2, <1>3, ReceiveInv

LEMMA DriverStep == ASSUME DriverInv, RoomForLinks, [Next]_vars PROVE DriverInv'
<1>1. CASE UNCHANGED vars
  <2>1. Live' = Live
    BY <1>1 DEF vars, Live
  <2>2. QED
    BY <1>1, <2>1 DEF vars, DriverInv, TraceType
<1>2. ASSUME NEW i \in Ids, NEW size \in Sizes, Alloc(i, size) PROVE DriverInv'
  BY <1>2, AllocInv
<1>3. ASSUME NEW i \in Ids, NEW size \in Sizes, Realloc(i, size) PROVE DriverInv'
  BY <1>3, ReallocInv
<1>4. ASSUME NEW i \in Ids, FreeBlock(i) PROVE DriverInv'
  BY <1>4, FreeInv
<1>5. QED
  BY <1>1, <1>2, <1>3, <1>4 DEF Next

\* The heap always has a shape, and while the trace runs its blocks are the
\* allocated ones of the heap (mm.c, eval_mm_valid of mdriver.c:556-690).
THEOREM DriverInvariant == ASSUME RoomForLinks PROVE Spec => []DriverInv
<1>1. Init => DriverInv
  BY DriverInit
<1>2. DriverInv /\ [Next]_vars => DriverInv'
  BY DriverStep
<1>3. QED
  BY <1>1, <1>2, PTL DEF Spec

\* Boundary tags: from the prologue to the epilogue the blocks tile the heap, with
\* equal header and footer, after every mm_malloc, mm_free and mm_realloc.
THEOREM BlocksTile == ASSUME RoomForLinks PROVE Spec => []Tiled
<1>1. DriverInv => Tiled
  BY TiledOf DEF DriverInv, Shaped
<1>2. QED
  BY <1>1, DriverInvariant, PTL

\* Every free block is in the list of its size, and in no other, linked both ways.
THEOREM FreeListsExact == ASSUME RoomForLinks PROVE Spec => []ListsExact
<1>1. DriverInv => ListsExact
  BY ListsOf DEF DriverInv, Shaped
<1>2. QED
  BY <1>1, DriverInvariant, PTL

LEMMA LiveIntactOf == ASSUME DriverInv PROVE LiveIntact
<1>1. SUFFICES ASSUME verdict = "running"
               PROVE  /\ Blocks \ FreeBlocks = {blocks[i] : i \in Live}
                      /\ \A i \in Live : /\ Size(blocks[i]) >= BlockSize(block_sizes[i])
                                         /\ \A a \in blocks[i] .. Hi(blocks[i], block_sizes[i]) :
                                               GET(heap, a) = Data(i)
  BY DEF LiveIntact
<1>2. PICK B, S, A : Shape(heap, B, S, A, {}) /\ Traced(heap, S, A, blocks, block_sizes, Live)
  BY <1>1 DEF DriverInv, Sound
<1>3. FreeBlocks = B \ A /\ Blocks = B
  BY <1>2, FreeBlocksAre
<1>4. A \subseteq B
  BY <1>2 DEF Shape
<1>5. Blocks \ FreeBlocks = {blocks[i] : i \in Live}
  BY <1>2, <1>3, <1>4 DEF Traced, At
<1>6. ASSUME NEW i \in Live
      PROVE  /\ Size(blocks[i]) >= BlockSize(block_sizes[i])
             /\ \A a \in blocks[i] .. Hi(blocks[i], block_sizes[i]) : GET(heap, a) = Data(i)
  <2>1. PICK p, n : p = blocks[i] /\ n = block_sizes[i]
    OBVIOUS
  <2>2. p \in A /\ IsTraced(heap, S, p, n, i)
    BY <1>2, <2>1 DEF Traced, At
  <2>3. Size(p) = S[p]
    BY <1>2, <1>4, <2>2, SizeOf DEF Size
  <2>4. n \in Nat /\ S[p] \in BlockSize(n) .. BlockSize(n) + 4
    BY <2>2, MDriverAssumption DEF IsTraced
  <2>5. S[p] >= BlockSize(n)
    BY <2>4 DEF BlockSize
  <2>6. Size(p) >= BlockSize(n)
    BY <2>3, <2>5
  <2>7. QED
    BY <2>1, <2>2, <2>6 DEF IsTraced, Holds
<1>7. QED
  BY <1>5, <1>6

\* The allocated blocks of the heap are the trace's live ones, each large enough,
\* and nothing has been written over what the trace has put into them.
THEOREM LivePayloadsIntact == ASSUME RoomForLinks PROVE Spec => []LiveIntact
<1>1. DriverInv => LiveIntact
  BY LiveIntactOf
<1>2. QED
  BY <1>1, DriverInvariant, PTL

-----------------------------------------------------------------------------
(* the range list                                                          *)

\* The unit of the model is the alignment of the code, the 8-byte word.
WordAligned == ALIGNMENT = 1

\* Each range is that of a live block, and no two are of the same.
Ranged(s, bl, sz, I) ==
    /\ \A k \in DOMAIN s : \E i \in I : s[k].lo = bl[i] /\ s[k].hi = Hi(bl[i], sz[i])
    /\ \A k, m \in DOMAIN s : s[k].lo = s[m].lo => k = m

\* s is old with v in front.
IsPushed(s, old, v, V) ==
    /\ s \in Seq(V) /\ DOMAIN s \subseteq Nat \ {0} /\ s[1] = v
    /\ \A k \in DOMAIN s : k # 1 => k - 1 \in DOMAIN old /\ s[k] = old[k - 1]

\* What Added makes of one.
LEMMA Pushed ==
  ASSUME NEW V, NEW old \in Seq(V), NEW v \in V, NEW s, s = <<v>> \o old
  PROVE  IsPushed(s, old, v, V)
<1>1. /\ s \in Seq(V) /\ Len(s) = Len(old) + 1 /\ s[1] = v
      /\ \A k \in DOMAIN s : k # 1 => k - 1 \in DOMAIN old /\ s[k] = old[k - 1]
  OBVIOUS
<1>2. DOMAIN s = 1 .. Len(s) /\ Len(s) \in Nat
  BY <1>1
<1>3. QED
  BY <1>1, <1>2 DEF IsPushed

\* s is old without its n-th element.
IsDropped(s, old, n, V) ==
    /\ s \in Seq(V)
    /\ \A k \in DOMAIN s : /\ k \in Nat
                           /\ k < n => k \in DOMAIN old /\ s[k] = old[k]
                           /\ k >= n => k + 1 \in DOMAIN old /\ s[k] = old[k + 1]

\* What Removed leaves of a range list.
LEMMA Dropped ==
  ASSUME NEW V, NEW old \in Seq(V), NEW n \in 1 .. Len(old), NEW s, s = RemoveAt(old, n)
  PROVE  IsDropped(s, old, n, V)
<1>1. Len(old) \in Nat /\ DOMAIN old = 1 .. Len(old)
  OBVIOUS
<1> DEFINE a == SubSeq(old, 1, n - 1)
           b == SubSeq(old, n + 1, Len(old))
<1>4. s = a \o b
  BY DEF RemoveAt
<1>5. a \in Seq(V) /\ Len(a) = n - 1 /\ \A k \in 1 .. n - 1 : a[k] = old[k]
  BY <1>1
<1>6. b \in Seq(V) /\ Len(b) = Len(old) - n /\ \A k \in 1 .. Len(old) - n : b[k] = old[k + n]
  <2>1. PICK e, f : e = Len(old) /\ f = n + 1
    OBVIOUS
  <2>2. /\ e \in Nat /\ f \in 1 .. e + 1 /\ e = Len(old) /\ b = SubSeq(old, f, e)
        /\ e - f + 1 = Len(old) - n
    BY <1>1, <2>1
  <2> HIDE DEF b
  <2>3. b \in Seq(V) /\ Len(b) = Len(old) - n
    BY <2>2
  <2>4. \A k \in 1 .. Len(old) - n : b[k] = old[k + n]
    <3>1. TAKE k \in 1 .. Len(old) - n
    <3>2. k \in 1 .. (e - f + 1) /\ f + k - 1 = k + n
      BY <1>1, <2>1, <2>2
    <3>3. b[k] = old[f + k - 1]
      BY <2>2, <3>2
    <3>4. QED
      BY <3>2, <3>3
  <2>5. QED
    BY <2>3, <2>4
<1> HIDE DEF a, b
<1>7. s \in Seq(V) /\ Len(s) = Len(a) + Len(b)
  BY <1>4, <1>5, <1>6, ConcatProperties
<1>8. DOMAIN s = 1 .. Len(old) - 1
  <2>1. Len(s) = Len(old) - 1
    BY <1>1, <1>5, <1>6, <1>7
  <2>2. DOMAIN s = 1 .. Len(s)
    BY <1>7
  <2>3. QED
    BY <2>1, <2>2
<1>9. \A k \in 1 .. Len(old) - 1 : s[k] = IF k < n THEN a[k] ELSE b[k - (n - 1)]
  BY <1>1, <1>4, <1>5, <1>6
<1>10. ASSUME NEW k \in DOMAIN s
       PROVE  /\ k \in Nat
              /\ k < n => k \in DOMAIN old /\ s[k] = old[k]
              /\ k >= n => k + 1 \in DOMAIN old /\ s[k] = old[k + 1]
  <2>1. k \in Nat /\ k + 1 \in 1 .. Len(old) /\ k \in 1 .. Len(old)
    BY <1>1, <1>8
  <2>2. ASSUME k < n PROVE s[k] = old[k]
    <3>1. s[k] = a[k] /\ k \in 1 .. n - 1
      BY <1>8, <1>9, <2>1, <2>2
    <3>2. QED
      BY <1>5, <3>1
  <2>3. ASSUME k >= n PROVE s[k] = old[k + 1]
    <3>1. s[k] = b[k - (n - 1)] /\ k - (n - 1) \in 1 .. Len(old) - n /\ k - (n - 1) + n = k + 1
      BY <1>1, <1>8, <1>9, <2>1, <2>3
    <3>2. QED
      BY <1>6, <3>1
  <2>4. QED
    BY <1>1, <2>1, <2>2, <2>3
<1>11. QED
  BY <1>7, <1>10 DEF IsDropped

\* The list after add_range.
LEMMA AddedRanged ==
  ASSUME NEW V, NEW old \in Seq(V), NEW bl, NEW sz, NEW J, Ranged(old, bl, sz, J),
         NEW p, p \notin At(bl, J), NEW size, NEW v \in V, v = [lo |-> p, hi |-> Hi(p, size)],
         NEW i, i \notin J, NEW bl2, NEW sz2, bl2[i] = p, sz2[i] = size,
         \A j \in J : bl2[j] = bl[j] /\ sz2[j] = sz[j],
         NEW K, K = J \cup {i}, NEW s, s = Added(old, p, size)
  PROVE  s \in Seq(V) /\ Ranged(s, bl2, sz2, K)
<1>3. IsPushed(s, old, v, V)
  <2>1. s = <<v>> \o old /\ v \in V
    BY DEF Added
  <2>2. QED
    BY <2>1, Pushed
<1>4. v.lo = bl2[i] /\ v.hi = Hi(bl2[i], sz2[i])
  OBVIOUS
<1>5. \A k \in DOMAIN old : old[k].lo \in At(bl, J)
  BY DEF Ranged, At
<1>6. ASSUME NEW k \in DOMAIN s
      PROVE  \E j \in K : s[k].lo = bl2[j] /\ s[k].hi = Hi(bl2[j], sz2[j])
  <2>1. CASE k = 1
    BY <1>3, <1>4, <2>1 DEF IsPushed
  <2>2. CASE k # 1
    <3>1. PICK j \in J : old[k - 1].lo = bl[j] /\ old[k - 1].hi = Hi(bl[j], sz[j])
      BY <1>3, <2>2 DEF IsPushed, Ranged
    <3>2. QED
      BY <1>3, <2>2, <3>1 DEF IsPushed
  <2>3. QED
    BY <2>1, <2>2
<1>7. ASSUME NEW k \in DOMAIN s, NEW m \in DOMAIN s, s[k].lo = s[m].lo PROVE k = m
  <2>1. k \in Nat /\ m \in Nat /\ v.lo = p
    BY <1>3 DEF IsPushed
  <2>2. \A x \in DOMAIN s : x # 1 => s[x].lo # p
    BY <1>3, <1>5 DEF IsPushed
  <2>3. s[1].lo = p
    BY <1>3, <2>1 DEF IsPushed
  <2>4. CASE k = 1 \/ m = 1
    BY <1>7, <2>2, <2>3, <2>4
  <2>5. CASE k # 1 /\ m # 1
    <3>1. k - 1 \in DOMAIN old /\ m - 1 \in DOMAIN old /\ old[k - 1].lo = old[m - 1].lo
      BY <1>3, <1>7, <2>5 DEF IsPushed
    <3>2. k - 1 = m - 1
      BY <3>1 DEF Ranged
    <3>3. QED
      BY <2>1, <3>2
  <2>6. QED
    BY <2>4, <2>5
<1>8. QED
  BY <1>3, <1>6, <1>7 DEF Ranged, IsPushed

\* The list after remove_range.
LEMMA RemovedRanged ==
  ASSUME NEW V, NEW old \in Seq(V), NEW bl, NEW sz, NEW I, Ranged(old, bl, sz, I),
         NEW i \in I, NEW s, s = Removed(old, bl[i])
  PROVE  s \in Seq(V) /\ Ranged(s, bl, sz, I \ {i})
<1> DEFINE K == {k \in DOMAIN old : old[k].lo = bl[i]}
<1>1. s = IF K = {} THEN old ELSE RemoveAt(old, CHOOSE k \in K : \A j \in K : k <= j)
  BY DEF Removed
<1>2. CASE K = {}
  <2>1. s = old
    BY <1>1, <1>2
  <2>2. ASSUME NEW k \in DOMAIN old
        PROVE  \E j \in I \ {i} : old[k].lo = bl[j] /\ old[k].hi = Hi(bl[j], sz[j])
    <3>1. PICK j \in I : old[k].lo = bl[j] /\ old[k].hi = Hi(bl[j], sz[j])
      BY DEF Ranged
    <3>2. j # i
      BY <1>2, <3>1
    <3>3. QED
      BY <3>1, <3>2
  <2>3. QED
    BY <2>1, <2>2 DEF Ranged
<1>3. CASE K # {}
  <2>1. PICK n \in K : \A k \in K : k = n
    BY <1>3 DEF Ranged
  <2>2. n \in 1 .. Len(old) /\ DOMAIN old = 1 .. Len(old) /\ Len(old) \in Nat
    BY <2>1
  <2>3. (CHOOSE k \in K : \A j \in K : k <= j) = n
    <3>1. n <= n
      BY <2>2
    <3>2. \A j \in K : n <= j
      BY <2>1, <3>1
    <3>3. QED
      BY <2>1, <3>2
  <2>4. s = RemoveAt(old, n)
    BY <1>1, <1>3, <2>3
  <2>5. IsDropped(s, old, n, V)
    BY <2>2, <2>4, Dropped
  <2> DEFINE from == [k \in DOMAIN s |-> IF k < n THEN k ELSE k + 1]
  <2>6. ASSUME NEW k \in DOMAIN s
        PROVE  k \in Nat /\ from[k] \in DOMAIN old /\ from[k] # n /\ s[k] = old[from[k]]
    <3>1. k \in Nat /\ n \in Nat
      BY <2>2, <2>5 DEF IsDropped
    <3>2. QED
      BY <2>5, <3>1 DEF IsDropped
  <2>7. ASSUME NEW k \in DOMAIN s, NEW m \in DOMAIN s, from[k] = from[m] PROVE k = m
    <3>1. k \in Nat /\ m \in Nat /\ n \in Nat
      BY <2>2, <2>6
    <3>2. QED
      BY <2>7, <3>1
  <2> HIDE DEF from
  <2>8. ASSUME NEW k \in DOMAIN s
        PROVE  \E j \in I \ {i} : s[k].lo = bl[j] /\ s[k].hi = Hi(bl[j], sz[j])
    <3>1. PICK x \in DOMAIN old : x = from[k] /\ x # n /\ s[k] = old[x]
      BY <2>6
    <3>2. PICK j \in I : old[x].lo = bl[j] /\ old[x].hi = Hi(bl[j], sz[j])
      BY DEF Ranged
    <3>3. x \notin K
      BY <2>1, <3>1
    <3>4. j # i
      BY <3>2, <3>3
    <3>5. QED
      BY <3>1, <3>2, <3>4
  <2>9. ASSUME NEW k \in DOMAIN s, NEW m \in DOMAIN s, s[k].lo = s[m].lo PROVE k = m
    <3>1. from[k] = from[m]
      BY <2>6, <2>9 DEF Ranged
    <3>2. QED
      BY <2>7, <3>1
  <2>10. s \in Seq(V)
    BY <2>5 DEF IsDropped
  <2>11. QED
    BY <2>8, <2>9, <2>10 DEF Ranged
<1>4. QED
  BY <1>2, <1>3

\* Where the block that a request returns lies.
IsPlacedApart(r, i, size) ==
    /\ r.p \in Word /\ r.h.brk \in Int
    /\ HeapLo <= r.p /\ r.p + size < r.h.brk /\ r.h.brk <= HeapLo + MAX_HEAP
    /\ \A j \in Live \ {i} : \/ blocks[j] + block_sizes[j] < r.p
                             \/ r.p + size < blocks[j]

\* A request returns a block in the heap, apart from the other live ones.
LEMMA OutcomeApart ==
  ASSUME NEW i \in Ids, NEW size \in Sizes, NEW r, r.p # NULL, Outcome(r, i, size)
  PROVE  IsPlacedApart(r, i, size)
<1>1. PICK S, A : /\ Traced(heap, S, A, blocks, block_sizes, Live)
                  /\ Allotted(heap, r, S, At(blocks, Live \ {i}), BlockSize(size))
  BY DEF Outcome
<1>2. PICK D, q, k, b : D = At(blocks, Live \ {i}) /\ q = r.p /\ k = r.h /\ b = k.brk
  OBVIOUS
<1>3. PICK C, T : /\ Shape(k, C, T, D \cup {q}, {}) /\ q \in C /\ q \notin D
                  /\ T[q] \in BlockSize(size) .. BlockSize(size) + 4
                  /\ \A x \in D : T[x] = S[x]
  BY <1>1, <1>2 DEF Allotted
<1>4. Tiles(b, C, T) /\ D \subseteq C
  BY <1>2, <1>3 DEF Shape
<1>5. /\ q \in Int /\ T[q] \in Nat /\ b \in Int /\ q \in Word
      /\ q + T[q] <= b /\ b <= HeapLo + MAX_HEAP
  BY <1>3, <1>4, ZoneWord DEF Tiles
<1>6. size \in Nat /\ T[q] >= size + 2
  BY <1>3, <1>5, MDriverAssumption DEF BlockSize
<1>7. HeapLo <= q /\ q + size < b
  BY <1>5, <1>6, Consts DEF Word
<1>8. ASSUME NEW j \in Live \ {i}
      PROVE  blocks[j] + block_sizes[j] < q \/ q + size < blocks[j]
  <2>1. PICK p, n : p = blocks[j] /\ n = block_sizes[j]
    OBVIOUS
  <2>2. p \in D /\ IsTraced(heap, S, p, n, j)
    BY <1>1, <1>2, <2>1 DEF Traced, At
  <2>3. p \in C /\ T[p] = S[p] /\ p # q
    BY <1>3, <1>4, <2>2
  <2>4. p \in Int /\ T[p] \in Nat
    BY <1>4, <2>3, ZoneWord
  <2>5. n \in Nat /\ T[p] \in BlockSize(n) .. BlockSize(n) + 4
    BY <2>2, <2>3, MDriverAssumption DEF IsTraced
  <2>6. T[p] >= n + 2
    BY <2>4, <2>5 DEF BlockSize
  <2>7. p + T[p] <= q \/ q + T[q] <= p
    <3>1. p < q \/ q < p
      BY <1>5, <2>3, <2>4
    <3>2. QED
      BY <1>3, <1>4, <2>3, <3>1 DEF Tiles
  <2>8. p + n < q \/ q + size < p
    BY <1>5, <1>6, <2>4, <2>5, <2>6, <2>7
  <2>9. QED
    BY <2>1, <2>8
<1>9. QED
  BY <1>2, <1>5, <1>7, <1>8 DEF IsPlacedApart

\* The driver accepts what the allocator returns.
LEMMA OutcomeAccepted ==
  ASSUME TraceType, WordAligned, NEW i \in Ids, NEW size \in Sizes, NEW r, IsPlacedApart(r, i, size),
         NEW old, Ranged(old, blocks, block_sizes, Live \ {i})
  PROVE  Accepts(old, r.p, size, HeapLo, r.h.brk - 1)
<1>1. PICK q, b, J : q = r.p /\ b = r.h.brk /\ J = Live \ {i}
  OBVIOUS
<1>2. /\ q \in Word /\ b \in Int /\ HeapLo <= q /\ q + size < b
      /\ \A j \in J : blocks[j] + block_sizes[j] < q \/ q + size < blocks[j]
  BY <1>1 DEF IsPlacedApart
<1>3. q \in Int /\ size \in Nat /\ size > 0 /\ HeapLo \in Int
  BY <1>2, Consts, MDriverAssumption DEF Word
<1>4. Aligned(q)
  <2>1. q % 1 = 0
    BY <1>3
  <2>2. QED
    BY <2>1 DEF Aligned, WordAligned
<1>5. InHeap(q, Hi(q, size), HeapLo, b - 1)
  BY <1>2, <1>3 DEF InHeap, Hi
<1>6. ASSUME NEW k \in DOMAIN old PROVE ~ Overlaps(q, Hi(q, size), old[k])
  <2>1. PICK j \in J : old[k].lo = blocks[j] /\ old[k].hi = Hi(blocks[j], block_sizes[j])
    BY <1>1 DEF Ranged
  <2>2. PICK p, n : p = blocks[j] /\ n = block_sizes[j]
    OBVIOUS
  <2>3. p \in Int /\ n \in Nat
    BY <1>1, <2>2, Consts DEF TraceType, Live, Word, NULL
  <2>4. p + n < q \/ q + size < p
    BY <1>2, <2>2
  <2>5. old[k].lo = p /\ old[k].hi = p + n - 1
    BY <2>1, <2>2 DEF Hi
  <2>6. q \notin p .. p + n - 1 /\ q + size - 1 \notin p .. p + n - 1
    BY <1>3, <2>3, <2>4
  <2>7. QED
    BY <2>5, <2>6 DEF Overlaps, Hi
<1>7. QED
  BY <1>1, <1>4, <1>5, <1>6 DEF Accepts

\* The range list is that of the live payloads; no block is found in a bad range.
RangesInv ==
    /\ ranges \in Seq(Range_t(HeapLo, heap.brk - 1))
    /\ verdict = "running" => Ranged(ranges, blocks, block_sizes, Live)
    /\ verdict # "bad range"

\* Ranges of a heap are ranges of a larger one.
LEMMA RangesWiden ==
  ASSUME NEW a \in Int, NEW b \in Int, a <= b, NEW s \in Seq(Range_t(HeapLo, a - 1))
  PROVE  s \in Seq(Range_t(HeapLo, b - 1))
<1>1. PICK V, W : V = Range_t(HeapLo, a - 1) /\ W = Range_t(HeapLo, b - 1)
  OBVIOUS
<1>2. V \subseteq W
  BY <1>1, Consts DEF Range_t
<1>3. s \in Seq(V)
  BY <1>1
<1>4. s \in Seq(W)
  BY <1>2, <1>3
<1>5. QED
  BY <1>1, <1>4

\* Receiving a block puts its range in front.
LEMMA ReceiveRanges ==
  ASSUME DriverInv, RangesInv, WordAligned, verdict = "running", NEW i \in Ids, NEW size \in Sizes,
         NEW r, Outcome(r, i, size), NEW kept,
         NEW old \in Seq(Range_t(HeapLo, heap.brk - 1)),
         Ranged(old, blocks, block_sizes, Live \ {i}),
         Receive(i, r, old, size, kept)
  PROVE  RangesInv'
<1>1. JudgedAs(verdict', i, r, old, size, kept)
  <2>1. verdict' = Judged(i, r, old, size, kept)
    BY DEF Receive
  <2>2. QED
    BY <2>1, JudgedIs
<1>2. heap.brk \in Int
  BY DEF DriverInv, Shaped, Shape, Tiles
<1>3. CASE r.p = NULL
  <2>1. r.h = heap /\ verdict' = "out of memory"
    BY <1>1, <1>3 DEF Outcome, JudgedAs
  <2>2. ranges' = ranges /\ heap' = heap
    BY <2>1 DEF Receive
  <2>3. QED
    BY <2>1, <2>2 DEF RangesInv
<1>4. CASE r.p # NULL
  <2>1. IsPlacedApart(r, i, size)
    BY <1>4, OutcomeApart
  <2>2. Accepts(old, r.p, size, HeapLo, r.h.brk - 1)
    BY <2>1, OutcomeAccepted DEF DriverInv
  <2>3. verdict' # "bad range" /\ verdict' # "out of memory"
    BY <1>1, <1>4, <2>2 DEF JudgedAs
  <2>4. ranges' = Added(old, r.p, size)
    <3>1. ranges' = CASE verdict' = "out of memory" -> ranges
                      [] verdict' = "bad range" -> old
                      [] OTHER -> Added(old, r.p, size)
      BY DEF Receive
    <3>2. QED
      BY <2>3, <3>1, Zenon
  <2>5. PICK b, V : b = r.h.brk /\ V = Range_t(HeapLo, b - 1)
    OBVIOUS
  <2>6. b \in Int /\ heap.brk <= b
    BY <1>2, <2>1, <2>5 DEF IsPlacedApart, Outcome
  <2>7. heap'.brk = b
    <3>1. CASE verdict' = "running"
      <4>1. heap' = Fill(r.h, r.p, size, i)
        BY <3>1 DEF Receive
      <4>2. PICK k : k = r.h
        OBVIOUS
      <4>3. Fill(k, r.p, size, i).brk = k.brk
        BY DEF Fill
      <4>4. QED
        BY <2>5, <4>1, <4>2, <4>3
    <3>2. CASE verdict' # "running"
      BY <2>5, <3>2 DEF Receive
    <3>3. QED
      BY <3>1, <3>2
  <2>8. old \in Seq(V)
    <3>1. PICK a : a = heap.brk
      OBVIOUS
    <3>2. a \in Int /\ a <= b /\ old \in Seq(Range_t(HeapLo, a - 1))
      BY <1>2, <2>6, <3>1
    <3>3. QED
      BY <2>5, <2>6, <3>2, RangesWiden
  <2>9. [lo |-> r.p, hi |-> Hi(r.p, size)] \in V
    BY <2>2, <2>5 DEF Accepts, InHeap, Range_t
  <2>10. PICK bl, sz, J, q : bl = blocks /\ sz = block_sizes /\ J = Live \ {i} /\ q = r.p
    OBVIOUS
  <2>11. q \notin At(bl, J)
    <3>1. SUFFICES ASSUME NEW j \in J, q = bl[j] PROVE FALSE
      BY DEF At
    <3>2. bl[j] + sz[j] < q \/ q + size < bl[j]
      BY <2>1, <2>10 DEF IsPlacedApart
    <3>3. q \in Int /\ sz[j] \in Nat /\ size \in Nat
      BY <2>1, <2>10, MDriverAssumption, Consts DEF IsPlacedApart, Word, DriverInv, TraceType, Live
    <3>4. QED
      BY <3>1, <3>2, <3>3
  <2>12. CASE verdict' = "running"
    <3>1. PICK bl2, sz2, K : bl2 = blocks' /\ sz2 = block_sizes' /\ K = J \cup {i}
      OBVIOUS
    <3>2. blocks' = [blocks EXCEPT ![i] = r.p] /\ block_sizes' = [block_sizes EXCEPT ![i] = size]
      BY <2>12 DEF Receive
    <3>3. /\ bl2[i] = q /\ sz2[i] = size /\ i \notin J
          /\ \A j \in J : bl2[j] = bl[j] /\ sz2[j] = sz[j]
      BY <2>10, <3>1, <3>2 DEF DriverInv, TraceType, Live
    <3>4. Live' = K
      BY <1>4, <2>10, <3>1, <3>2 DEF DriverInv, TraceType, Live
    <3>5. PICK v, s : v = [lo |-> q, hi |-> Hi(q, size)] /\ s = Added(old, q, size)
      OBVIOUS
    <3>7. Ranged(old, bl, sz, J) /\ v \in V
      BY <2>9, <2>10, <3>5
    <3>8. s \in Seq(V) /\ Ranged(s, bl2, sz2, K)
      BY <2>8, <2>11, <3>1, <3>3, <3>5, <3>7, AddedRanged
    <3>9. Ranged(ranges', blocks', block_sizes', Live') /\ ranges' \in Seq(V)
      BY <2>4, <2>10, <3>1, <3>4, <3>5, <3>8
    <3>10. QED
      BY <2>3, <2>5, <2>7, <3>9 DEF RangesInv
  <2>13. CASE verdict' # "running"
    <3>1. PICK v : v = [lo |-> r.p, hi |-> Hi(r.p, size)]
      OBVIOUS
    <3>2. PICK s : s = Added(old, r.p, size)
      OBVIOUS
    <3>3. s = <<v>> \o old /\ v \in V
      BY <2>9, <3>1, <3>2 DEF Added
    <3>4. IsPushed(s, old, v, V)
      BY <2>8, <3>3, Pushed
    <3>5. ranges' \in Seq(V)
      BY <2>4, <3>2, <3>4 DEF IsPushed
    <3>6. QED
      BY <2>3, <2>5, <2>7, <2>13, <3>5 DEF RangesInv
  <2>14. QED
    BY <2>12, <2>13
<1>5. QED
  BY <1>3, <1>4

LEMMA AllocRanges ==
  ASSUME DriverInv, RangesInv, RoomForLinks, WordAligned,
         NEW i \in Ids, NEW size \in Sizes, Alloc(i, size)
  PROVE  RangesInv'
<1>1. PICK r : r = mm_malloc(heap, size)
  OBVIOUS
<1>2. /\ verdict = "running" /\ i \notin Live
      /\ Receive(i, r, ranges, size, 0)
  BY <1>1 DEF Alloc, Request
<1>3. Outcome(r, i, size)
  BY <1>1, <1>2, AllocOutcome
<1>4. Ranged(ranges, blocks, block_sizes, Live \ {i})
  <2>1. Live \ {i} = Live
    BY <1>2
  <2>2. QED
    BY <1>2, <2>1 DEF RangesInv
<1>5. PICK old : old = ranges
  OBVIOUS
<1>6. /\ old \in Seq(Range_t(HeapLo, heap.brk - 1)) /\ Receive(i, r, old, size, 0)
      /\ Ranged(old, blocks, block_sizes, Live \ {i})
  BY <1>2, <1>4, <1>5 DEF RangesInv
<1>7. QED
  BY <1>2, <1>3, <1>6, ReceiveRanges

LEMMA WithoutRange ==
  ASSUME RangesInv, verdict = "running", NEW i \in Live, NEW old, old = Removed(ranges, blocks[i])
  PROVE  /\ old \in Seq(Range_t(HeapLo, heap.brk - 1))
         /\ Ranged(old, blocks, block_sizes, Live \ {i})
<1>1. PICK bl, sz, I, s, V : /\ bl = blocks /\ sz = block_sizes /\ I = Live /\ s = ranges
                             /\ V = Range_t(HeapLo, heap.brk - 1)
  OBVIOUS
<1>2. s \in Seq(V) /\ Ranged(s, bl, sz, I) /\ i \in I /\ old = Removed(s, bl[i])
  BY <1>1 DEF RangesInv
<1>3. old \in Seq(V) /\ Ranged(old, bl, sz, I \ {i})
  BY <1>2, RemovedRanged
<1>4. QED
  BY <1>1, <1>3

LEMMA ReallocRanges ==
  ASSUME DriverInv, RangesInv, RoomForLinks, WordAligned,
         NEW i \in Ids, NEW size \in Sizes, Realloc(i, size)
  PROVE  RangesInv'
<1>1. PICK r, old, kept : /\ r = mm_realloc(heap, blocks[i], size)
                          /\ old = Removed(ranges, blocks[i])
                          /\ kept = Min({size, block_sizes[i]})
  OBVIOUS
<1>2. /\ verdict = "running" /\ i \in Live
      /\ Receive(i, r, old, size, kept)
  BY <1>1 DEF Realloc, Request
<1>3. Outcome(r, i, size)
  BY <1>1, <1>2, ReallocOutcome
<1>4. /\ old \in Seq(Range_t(HeapLo, heap.brk - 1))
      /\ Ranged(old, blocks, block_sizes, Live \ {i})
  BY <1>1, <1>2, WithoutRange
<1>5. QED
  BY <1>2, <1>3, <1>4, ReceiveRanges

LEMMA FreeRanges ==
  ASSUME DriverInv, RangesInv, NEW i \in Ids, FreeBlock(i)
  PROVE  RangesInv'
<1>1. /\ verdict = "running" /\ verdict' = verdict /\ i \in Live
      /\ heap' = mm_free(heap, blocks[i]) /\ blocks' = [blocks EXCEPT ![i] = NULL]
      /\ block_sizes' = [block_sizes EXCEPT ![i] = 0]
      /\ ranges' = Removed(ranges, blocks[i])
  BY DEF FreeBlock, Request
<1>2. /\ ranges' \in Seq(Range_t(HeapLo, heap.brk - 1))
      /\ Ranged(ranges', blocks, block_sizes, Live \ {i})
  BY <1>1, WithoutRange
<1>3. heap'.brk = heap.brk
  <2>1. PICK B, S, A : Shape(heap, B, S, A, {}) /\ Traced(heap, S, A, blocks, block_sizes, Live)
    BY <1>1 DEF DriverInv, Sound
  <2>2. PICK h, p, k : h = heap /\ p = blocks[i] /\ k = heap'
    OBVIOUS
  <2>3. p \in A
    BY <1>1, <2>1, <2>2 DEF Traced, At
  <2>4. Shape(h, B, S, A, {}) /\ k = mm_free(h, p)
    BY <1>1, <2>1, <2>2
  <2>5. Kept(k, h, S, A \ {p})
    BY <2>3, <2>4, FreeShape
  <2>6. QED
    BY <2>2, <2>5 DEF Kept
<1>4. Live' = Live \ {i}
  BY <1>1 DEF Live, DriverInv, TraceType
<1>5. \A j \in Live \ {i} : blocks'[j] = blocks[j] /\ block_sizes'[j] = block_sizes[j]
  BY <1>1 DEF DriverInv, TraceType, Live
<1>6. Ranged(ranges', blocks', block_sizes', Live')
  BY <1>2, <1>4, <1>5 DEF Ranged
<1>7. QED
  BY <1>1, <1>2, <1>3, <1>6 DEF RangesInv

LEMMA RangesStep ==
  ASSUME DriverInv, RangesInv, RoomForLinks, WordAligned, [Next]_vars
  PROVE  RangesInv'
<1>1. CASE UNCHANGED vars
  <2>1. Live' = Live
    BY <1>1 DEF vars, Live
  <2>2. QED
    BY <1>1, <2>1 DEF vars, RangesInv
<1>2. ASSUME NEW i \in Ids, NEW size \in Sizes, Alloc(i, size) PROVE RangesInv'
  BY <1>2, AllocRanges
<1>3. ASSUME NEW i \in Ids, NEW size \in Sizes, Realloc(i, size) PROVE RangesInv'
  BY <1>3, ReallocRanges
<1>4. ASSUME NEW i \in Ids, FreeBlock(i) PROVE RangesInv'
  BY <1>4, FreeRanges
<1>5. QED
  BY <1>1, <1>2, <1>3, <1>4 DEF Next

\* The range list is that of the live payloads, and the driver never finds a
\* returned block misaligned, outside the heap or over another one
\* (add_range, mdriver.c:393-429).
THEOREM NoBadRange == ASSUME RoomForLinks, WordAligned PROVE Spec => []RangesInv
<1>1. Init => RangesInv
  BY DEF Init, RangesInv, Ranged
<1>2. DriverInv /\ RangesInv /\ [Next]_vars => RangesInv'
  BY RangesStep
<1>3. QED
  BY <1>1, <1>2, DriverInvariant, PTL DEF Spec

LEMMA DriverTypes == ASSUME DriverInv, RangesInv PROVE TypeOK
<1>1. PICK h, b : h = heap /\ b = heap.brk
  OBVIOUS
<1>2. PICK B, S, A : Shape(h, B, S, A, {})
  BY <1>1 DEF DriverInv, Shaped
<1>3. h \in Heap /\ Tiles(b, B, S) /\ FirstBlock \in B
  BY <1>1, <1>2 DEF Shape, Tiles
<1>4. h.cnt \in {0, 1} /\ DOMAIN h.mem = Word /\ \A a \in Word : h.mem[a] \in Int
  BY <1>3 DEF Heap
<1>5. PICK f : f = FirstBlock
  OBVIOUS
<1>6. /\ f \in Int /\ S[f] \in Nat /\ b \in Int /\ HeapLo <= f /\ f + S[f] <= b /\ b <= HeapLo + MAX_HEAP
  BY <1>3, <1>5, ZoneWord, Consts
<1>7. b \in Word \cup {HeapLo + MAX_HEAP}
  BY <1>6, Consts DEF Word
<1>8. QED
  BY <1>1, <1>4, <1>7 DEF TypeOK, DriverInv, TraceType, RangesInv

\* Types: the break stays in the simulated memory and every range in the heap.
THEOREM DriverTypeCorrect == ASSUME RoomForLinks, WordAligned PROVE Spec => []TypeOK
<1>1. DriverInv /\ RangesInv => TypeOK
  BY DriverTypes
<1>2. QED
  BY <1>1, DriverInvariant, NoBadRange, PTL

LEMMA GrowsOf ==
  ASSUME DriverInv, RangesInv, RangesInv', RoomForLinks, NEW i \in Ids, NEW size \in Sizes,
         Alloc(i, size), heap'.brk # heap.brk \/ blocks'[i] = NULL, NEW p \in FreeBlocks
  PROVE  Size(p) < BlockSize(size)
<1>1. PICK r : r = mm_malloc(heap, size)
  OBVIOUS
<1>2. /\ verdict = "running" /\ i \notin Live /\ Receive(i, r, ranges, size, 0)
  BY <1>1 DEF Alloc, Request
<1>3. PICK B, S, A : Shape(heap, B, S, A, {}) /\ Traced(heap, S, A, blocks, block_sizes, Live)
  BY <1>2 DEF DriverInv, Sound
<1>4. size \in Nat /\ size >= 2
  BY MDriverAssumption DEF RoomForLinks
<1>5. PICK h, need : h = heap /\ need = BlockSize(size)
  OBVIOUS
<1>6. Mallocked(h, r, B, S, A, need)
  <2>1. Shape(h, B, S, A, {}) /\ r = mm_malloc(h, size)
    BY <1>1, <1>3, <1>5
  <2>2. QED
    BY <1>4, <1>5, <2>1, MallocShape
<1>7. JudgedAs(verdict', i, r, ranges, size, 0)
  <2>1. verdict' = Judged(i, r, ranges, size, 0)
    BY <1>2 DEF Receive
  <2>2. QED
    BY <2>1, JudgedIs
<1>8. p \in B \ A /\ Size(p) = S[p]
  <2>1. p \in B \ A /\ A \subseteq B
    BY <1>3, FreeBlocksAre DEF Shape
  <2>2. QED
    BY <1>3, <2>1, SizeOf DEF Size
<1>9. r.p = NULL \/ r.h.brk # h.brk
  <2>1. CASE verdict' = "running"
    <3>1. heap' = Fill(r.h, r.p, size, i) /\ blocks' = [blocks EXCEPT ![i] = r.p]
      BY <1>2, <2>1 DEF Receive
    <3>2. heap'.brk = r.h.brk
      BY <3>1 DEF Fill
    <3>3. blocks'[i] = r.p
      BY <3>1 DEF DriverInv, TraceType
    <3>4. QED
      BY <1>5, <3>2, <3>3
  <2>2. CASE verdict' # "running"
    <3>1. \A a \in r.p .. Hi(r.p, 0) : FALSE
      <4>1. CASE r.p \in Int
        BY <4>1 DEF Hi
      <4>2. CASE r.p \notin Int
        <5>1. r.p = NULL
          <6>1. r.p # NULL => r.p \in Word
            BY <1>6 DEF Mallocked, Allotted, Shape, Tiles
          <6>2. QED
            BY <4>2, <6>1, Consts DEF Word
        <5>2. QED
          BY <4>2, <5>1 DEF NULL
      <4>3. QED
        BY <4>1, <4>2
    <3>2. Preserved(i, r, 0)
      BY <3>1 DEF Preserved
    <3>3. verdict' # "bad range" /\ verdict' \in Verdicts
      BY <1>7 DEF RangesInv, JudgedAs
    <3>4. verdict' = "out of memory"
      BY <1>7, <2>2, <3>2, <3>3 DEF JudgedAs, Verdicts
    <3>5. QED
      BY <1>7, <3>4 DEF JudgedAs
  <2>3. QED
    BY <2>1, <2>2
<1>10. QED
  BY <1>5, <1>6, <1>8, <1>9 DEF Mallocked

\* mm_malloc extends the heap, or fails, only when no free block is large enough:
\* first fit over the lists from that of the request on misses none
\* (linked_list_first_fit, mm.c).
THEOREM NoNeedlessGrowth == ASSUME RoomForLinks, WordAligned PROVE Spec => GrowsOnlyWhenFull
<1>1. ASSUME DriverInv, RangesInv, RangesInv'
      PROVE  \A i \in Ids, size \in Sizes :
               Alloc(i, size) /\ (heap'.brk # heap.brk \/ blocks'[i] = NULL) =>
                 \A p \in FreeBlocks : Size(p) < BlockSize(size)
  BY <1>1, GrowsOf
<1>2. DriverInv /\ RangesInv /\ RangesInv' =>
        [\A i \in Ids, size \in Sizes :
           Alloc(i, size) /\ (heap'.brk # heap.brk \/ blocks'[i] = NULL) =>
             \A p \in FreeBlocks : Size(p) < BlockSize(size)]_vars
  BY <1>1
<1>3. QED
  BY <1>2, DriverInvariant, NoBadRange, PTL DEF GrowsOnlyWhenFull

-----------------------------------------------------------------------------
(* the driver and the allocator implement Allocator                        *)

\* The refinement mapping: the cells of each block, and whether they are intact.
Extents == [i \in Ids |-> blocks[i] .. Hi(blocks[i], block_sizes[i])]
Intacts == [i \in Ids |-> \A a \in blocks[i] .. Hi(blocks[i], block_sizes[i]) : GET(heap, a) = Data(i)]

LEMMA PromiseStutter ==
  ASSUME Extents' = Extents, Intacts' = Intacts, verdict' = verdict
  PROVE  UNCHANGED <<[i \in Ids |-> blocks[i] .. Hi(blocks[i], block_sizes[i])],
                     [i \in Ids |-> \A a \in blocks[i] .. Hi(blocks[i], block_sizes[i]) :
                                      GET(heap, a) = Data(i)], verdict>>
  BY DEF Extents, Intacts

LEMMA PromiseInit ==
  ASSUME Extents = [i \in Ids |-> {}], Intacts = [i \in Ids |-> TRUE], verdict = "running"
  PROVE  Promise!AllocInit
  BY DEF Promise!AllocInit, Extents, Intacts

LEMMA PromiseRefuse ==
  ASSUME verdict = "running", verdict' = "out of memory", Extents' = Extents, Intacts' = Intacts
  PROVE  Promise!AllocNext
<1>1. Promise!Refuse
  BY DEF Promise!Refuse, Extents, Intacts
<1>2. QED
  BY <1>1 DEF Promise!AllocNext

LEMMA PromiseRelease ==
  ASSUME verdict = "running", NEW i \in Ids, Extents[i] # {},
         Extents' = [Extents EXCEPT ![i] = {}], Intacts' = Intacts, verdict' = verdict
  PROVE  Promise!AllocNext
<1>1. Promise!Release(i)
  BY DEF Promise!Release, Promise!IsLive, Extents, Intacts
<1>2. QED
  BY <1>1 DEF Promise!AllocNext

LEMMA PromisePlaced ==
  ASSUME verdict = "running", NEW i \in Ids, NEW size \in Sizes, NEW lo \in Word,
         lo .. lo + size - 1 \subseteq Word,
         \A j \in Ids \ {i} : Extents[j] \cap (lo .. lo + size - 1) = {},
         Extents[i] # {} => i \notin Unread,
         Extents' = [Extents EXCEPT ![i] = lo .. lo + size - 1],
         Intacts' = Intacts, verdict' = verdict
  PROVE  Promise!AllocNext
<1>1. Promise!Placed(i, size)
  BY DEF Promise!Placed, Promise!Extent, Extents, Intacts
<1>2. Promise!Malloc(i, size) \/ Promise!Resize(i, size)
  BY <1>1 DEF Promise!Malloc, Promise!Resize, Promise!IsLive, Extents
<1>3. QED
  BY <1>2 DEF Promise!AllocNext

LEMMA PromiseLose ==
  ASSUME verdict = "running", NEW i \in Ids, NEW size \in Sizes, Extents[i] # {},
         size < Cardinality(Extents[i]) \/ i \in Unread,
         verdict' = "data lost", NEW b \in BOOLEAN, Intacts' = [Intacts EXCEPT ![i] = b],
         Extents' = Extents
  PROVE  Promise!AllocNext
<1>1. Promise!Lose(i, size)
  <2>1. \E c \in BOOLEAN : Intacts' = [Intacts EXCEPT ![i] = c]
    BY Zenon
  <2>2. size < Promise!Cardinality(Extents[i]) \/ i \in Unread
    BY Zenon DEF Promise!Cardinality, Cardinality
  <2>3. QED
    BY <2>1, <2>2, Zenon DEF Promise!Lose, Promise!IsLive, Extents, Intacts
<1>2. QED
  BY <1>1 DEF Promise!AllocNext

\* While the trace runs, a block is live when it has cells, and all are intact.
LEMMA ExtentsLive ==
  ASSUME DriverInv, verdict = "running", NEW i \in Ids
  PROVE  /\ Extents[i] = blocks[i] .. blocks[i] + block_sizes[i] - 1
         /\ blocks[i] \in Int /\ block_sizes[i] \in Nat
         /\ i \in Live <=> Extents[i] # {}
<1>1. PICK p, n : p = blocks[i] /\ n = block_sizes[i]
  OBVIOUS
<1>2. p \in Int /\ n \in Nat /\ (p = NULL => n = 0)
  BY <1>1, Consts DEF DriverInv, TraceType, Word, NULL
<1>3. Extents[i] = p .. p + n - 1
  BY <1>1 DEF Extents, Hi
<1>4. i \in Live => n > 0
  <2>1. ASSUME i \in Live PROVE n > 0
    <3>1. PICK B, S, A : Traced(heap, S, A, blocks, block_sizes, Live)
      BY DEF DriverInv, Sound
    <3>2. n \in Sizes
      BY <1>1, <2>1, <3>1 DEF Traced, IsTraced
    <3>3. QED
      BY <3>2, MDriverAssumption
  <2>2. QED
    BY <2>1
<1>5. i \notin Live => n = 0
  BY <1>1, <1>2 DEF Live
<1>6. i \in Live <=> p .. p + n - 1 # {}
  <2>1. n > 0 => p \in p .. p + n - 1
    BY <1>2
  <2>2. n = 0 => p .. p + n - 1 = {}
    BY <1>2
  <2>3. QED
    BY <1>4, <1>5, <2>1, <2>2
<1>7. QED
  BY <1>1, <1>2, <1>3, <1>6

\* While the trace runs, every payload is intact.
LEMMA RunningIntact ==
  ASSUME DriverInv, verdict = "running"
  PROVE  Intacts = [i \in Ids |-> TRUE]
<1>1. ASSUME NEW i \in Ids
      PROVE  \A a \in blocks[i] .. Hi(blocks[i], block_sizes[i]) : GET(heap, a) = Data(i)
  <2>1. CASE i \in Live
    <3>1. PICK B, S, A : Traced(heap, S, A, blocks, block_sizes, Live)
      BY DEF DriverInv, Sound
    <3>2. QED
      BY <2>1, <3>1 DEF Traced, IsTraced, Holds
  <2>2. CASE i \notin Live
    <3>1. blocks[i] .. Hi(blocks[i], block_sizes[i]) = {}
      BY <2>2, ExtentsLive DEF Extents
    <3>2. QED
      BY <3>1
  <2>3. QED
    BY <2>1, <2>2
<1>2. QED
  BY <1>1 DEF Intacts

LEMMA MinTwo ==
  ASSUME NEW a \in Int, NEW b \in Int, NEW m, m = Min({a, b})
  PROVE  m \in Int /\ m <= a /\ m <= b
<1>1. \E x \in {a, b} : \A y \in {a, b} : x <= y
  <2>1. CASE a <= b
    BY <2>1
  <2>2. CASE b <= a
    BY <2>2
  <2>3. QED
    BY <2>1, <2>2
<1>2. m \in {a, b} /\ \A y \in {a, b} : m <= y
  BY <1>1 DEF Min
<1>3. QED
  BY <1>2

\* mm_realloc loses data only when it cuts a block in two.
LEMMA LostOnShrink ==
  ASSUME DriverInv, verdict = "running", RoomForLinks, NEW i \in Live,
         NEW size \in Sizes, NEW r, r = mm_realloc(heap, blocks[i], size), r.p # NULL,
         NEW kept, kept = Min({size, block_sizes[i]}), ~ Holds(r.h, r.p, kept, i)
  PROVE  size < block_sizes[i]
<1>1. PICK B, S, A : Shape(heap, B, S, A, {}) /\ Traced(heap, S, A, blocks, block_sizes, Live)
  BY DEF DriverInv, Sound
<1>2. size \in Nat /\ size >= 2
  BY MDriverAssumption DEF RoomForLinks
<1>3. PICK h, p, need, old : h = heap /\ p = blocks[i] /\ need = BlockSize(size) /\ old = block_sizes[i]
  OBVIOUS
<1>4. p \in A /\ IsTraced(h, S, p, old, i)
  BY <1>1, <1>3 DEF Traced, At
<1>5. PICK n : n = (IF S[p] < need THEN S[p] ELSE need) - 2
  OBVIOUS
<1>6. Reallocked(h, r, S, A, p, need, n)
  <2>1. Shape(h, B, S, A, {}) /\ r = mm_realloc(h, p, size)
    BY <1>1, <1>3
  <2>2. QED
    BY <1>2, <1>3, <1>4, <1>5, <2>1, ReallocShape
<1>7. p \in Int /\ S[p] \in Nat /\ r.p \in Int
  <2>1. p \in B /\ Tiles(h.brk, B, S)
    BY <1>1, <1>3, <1>4 DEF Shape
  <2>2. Allotted(h, r, S, A \ {p}, need)
    BY <1>6 DEF Reallocked
  <2>3. r.p \in Word
    BY <2>2 DEF Allotted, Shape, Tiles
  <2>4. QED
    BY <2>1, <2>3, ZoneWord, Consts DEF Word
<1>8. old \in Nat /\ S[p] >= old + 2 /\ S[p] <= old + 6
  <2>1. old \in Nat /\ S[p] \in BlockSize(old) .. BlockSize(old) + 4
    BY <1>4, MDriverAssumption DEF IsTraced
  <2>2. QED
    BY <1>7, <2>1 DEF BlockSize
<1>9. SUFFICES ASSUME ~ (size < old) PROVE FALSE
  BY <1>3
<1>10. S[p] < need + 5
  BY <1>2, <1>3, <1>7, <1>8, <1>9 DEF BlockSize
<1>11. Copied(h, r, p, n)
  BY <1>6, <1>10 DEF Reallocked
<1>12. kept \in Int /\ kept <= size /\ kept <= old
  BY <1>2, <1>3, <1>8, MinTwo
<1>13. n \in Int /\ kept <= n
  BY <1>2, <1>3, <1>5, <1>7, <1>8, <1>12 DEF BlockSize
<1>14. ASSUME NEW a \in r.p .. Hi(r.p, kept) PROVE GET(r.h, a) = Data(i)
  <2>1. PICK k \in 0 .. n - 1 : k = a - r.p /\ a = r.p + k /\ p + k \in p .. Hi(p, old)
    <3>1. a \in Int /\ r.p <= a /\ a <= r.p + kept - 1
      BY <1>7, <1>12, <1>14 DEF Hi
    <3>2. /\ a - r.p \in 0 .. n - 1 /\ a = r.p + (a - r.p)
          /\ p + (a - r.p) \in p .. p + old - 1
      BY <1>7, <1>8, <1>12, <1>13, <3>1
    <3>3. QED
      BY <3>2 DEF Hi
  <2>2. r.h.mem[r.p + k] = h.mem[p + k]
    BY <1>11, <2>1 DEF Copied
  <2>3. h.mem[p + k] = Data(i)
    BY <1>4, <2>1 DEF IsTraced, Holds, GET
  <2>4. QED
    BY <2>1, <2>2, <2>3 DEF GET
<1>15. QED
  BY <1>14 DEF Holds

\* A request leaves the other blocks of the trace as they were.
LEMMA OthersIntact ==
  ASSUME NEW i \in Ids, NEW size \in Sizes, NEW r, r.p # NULL, Outcome(r, i, size),
         NEW j \in Live, j # i
  PROVE  Holds(r.h, blocks[j], block_sizes[j], j)
<1>1. PICK B, S, A : /\ Shape(heap, B, S, A, {})
                     /\ Traced(heap, S, A, blocks, block_sizes, Live)
                     /\ Allotted(heap, r, S, At(blocks, Live \ {i}), BlockSize(size))
  BY DEF Outcome
<1>2. PICK bl, sz, I, J, D, h, g : /\ bl = blocks /\ sz = block_sizes /\ I = Live /\ J = Live \ {i}
                                   /\ D = At(bl, J) /\ h = heap /\ g = r.h
  OBVIOUS
<1>3. PICK T : (\A x \in D : T[x] = S[x]) /\ Untouched(h, g, D, S)
  BY <1>1, <1>2 DEF Allotted
<1>4. /\ Shape(h, B, S, A, {}) /\ Traced(h, S, A, bl, sz, I) /\ A \subseteq A
      /\ J \subseteq I /\ D = At(bl, J)
  BY <1>1, <1>2
<1>5. Traced(g, T, D, bl, sz, J)
  BY <1>3, <1>4, TracedKept
<1>6. QED
  BY <1>2, <1>5 DEF Traced, IsTraced

\* The trace reports lost data only when a block shrinks or cannot be recognised.
Loses(i, size) == verdict' = "data lost" => i \in Live /\ (size < block_sizes[i] \/ i \in Unread)

\* A block that is resized can be recognised.
Resizes(i) == verdict' = "running" /\ i \in Live => i \notin Unread

LEMMA IntervalSize ==
  ASSUME NEW p \in Int, NEW n \in Nat
  PROVE  Cardinality(p .. p + n - 1) = n
<1>1. PICK e \in Int : e = p + n - 1
  OBVIOUS
<1>2. Cardinality(p .. e) = IF p > e THEN 0 ELSE e - p + 1
  BY FS_Interval
<1>3. QED
  BY <1>1, <1>2

\* The block of an accepted request lies in the memory and apart from the others.
LEMMA PlacedApart ==
  ASSUME DriverInv, verdict = "running", NEW i \in Ids, NEW size \in Sizes,
         NEW r, IsPlacedApart(r, i, size), NEW q, q = r.p
  PROVE  /\ q \in Word /\ q .. q + size - 1 \subseteq Word
         /\ \A j \in Ids \ {i} : Extents[j] \cap (q .. q + size - 1) = {}
<1>1. size \in Nat /\ size > 0
  BY MDriverAssumption
<1>2. PICK b : /\ q \in Word /\ b \in Int /\ HeapLo <= q /\ q + size < b /\ b <= HeapLo + MAX_HEAP
               /\ \A j \in Live \ {i} : \/ blocks[j] + block_sizes[j] < q
                                         \/ q + size < blocks[j]
  BY DEF IsPlacedApart
<1>3. q \in Int
  BY <1>2, Consts DEF Word
<1>4. ASSUME NEW j \in Ids \ {i} PROVE Extents[j] \cap (q .. q + size - 1) = {}
  <2>1. CASE j \in Live
    <3>1. PICK p, n : p = blocks[j] /\ n = block_sizes[j]
      OBVIOUS
    <3>2. p \in Int /\ n \in Nat /\ Extents[j] = p .. p + n - 1
      BY <3>1, ExtentsLive
    <3>3. p + n < q \/ q + size < p
      BY <1>2, <2>1, <3>1
    <3>4. QED
      BY <1>1, <1>3, <3>2, <3>3
  <2>2. CASE j \notin Live
    BY <2>2, ExtentsLive
  <2>3. QED
    BY <2>1, <2>2
<1>5. q .. q + size - 1 \subseteq Word
  BY <1>1, <1>2, <1>3, Consts DEF Word
<1>6. QED
  BY <1>2, <1>4, <1>5

RunsIntact == DriverInv /\ verdict = "running" => Intacts = [i \in Ids |-> TRUE]

LEMMA StaysIntact == RunsIntact'
<1>1. RunsIntact
  BY RunningIntact DEF RunsIntact
<1>2. QED
  BY <1>1, PTL

\* A realloc must always keep some words.
LEMMA KeptSome ==
  ASSUME DriverInv, verdict = "running", NEW i \in Live, NEW size \in Sizes,
         NEW kept, kept = Min({size, block_sizes[i]})
  PROVE  kept \in Int /\ kept > 0
<1>1. PICK n : n = block_sizes[i]
  OBVIOUS
<1>2. n \in Sizes
  <2>1. PICK B, S, A : Traced(heap, S, A, blocks, block_sizes, Live)
    BY DEF DriverInv, Sound
  <2>2. QED
    BY <1>1, <2>1 DEF Traced, IsTraced
<1>3. size \in Nat /\ n \in Nat /\ size > 0 /\ n > 0
  BY <1>2, MDriverAssumption
<1>4. kept \in {size, n}
  <2>1. \E x \in {size, n} : \A y \in {size, n} : x <= y
    <3>1. CASE size <= n
      BY <1>3, <3>1
    <3>2. CASE n <= size
      BY <1>3, <3>2
    <3>3. QED
      BY <1>3, <3>1, <3>2
  <2>2. QED
    BY <1>1, <2>1 DEF Min
<1>5. QED
  BY <1>3, <1>4

\* A request that is received is a step of the promise.
LEMMA RequestPromise ==
  ASSUME DriverInv, DriverInv', RangesInv', verdict = "running", NEW i \in Ids, NEW size \in Sizes,
         NEW r, Outcome(r, i, size), NEW old, NEW kept, Receive(i, r, old, size, kept),
         Loses(i, size), Resizes(i)
  PROVE  Promise!AllocNext
<1>1. JudgedAs(verdict', i, r, old, size, kept)
  <2>1. verdict' = Judged(i, r, old, size, kept)
    BY DEF Receive
  <2>2. QED
    BY <2>1, JudgedIs
<1>2. Intacts = [j \in Ids |-> TRUE]
  BY RunningIntact
<1>3. size \in Nat /\ size > 0
  BY MDriverAssumption
<1>4. CASE verdict' = "out of memory"
  <2>1. r.p = NULL
    BY <1>1, <1>4 DEF JudgedAs
  <2>2. heap' = heap /\ blocks' = blocks /\ block_sizes' = block_sizes
    BY <1>4, <2>1 DEF Receive, Outcome
  <2>3. Extents' = Extents /\ Intacts' = Intacts
    BY <2>2 DEF Extents, Intacts
  <2>4. QED
    BY <1>4, <2>3, PromiseRefuse
<1>5. CASE verdict' = "data lost"
  <2>1. r.p # NULL
    BY <1>1, <1>5 DEF JudgedAs
  <2>2. heap' = r.h /\ blocks' = blocks /\ block_sizes' = block_sizes
    BY <1>5 DEF Receive
  <2>3. Extents' = Extents
    BY <2>2 DEF Extents
  <2>4. size < Cardinality(Extents[i]) \/ i \in Unread
    <3>1. PICK p, n : p = blocks[i] /\ n = block_sizes[i]
      OBVIOUS
    <3>2. p \in Int /\ n \in Nat /\ Extents[i] = p .. p + n - 1
      BY <3>1, ExtentsLive
    <3>3. Cardinality(p .. p + n - 1) = n
      BY <3>2, IntervalSize
    <3>4. size < n \/ i \in Unread
      BY <1>5, <3>1 DEF Loses
    <3>5. QED
      BY <3>2, <3>3, <3>4, Zenon
  <2>5. PICK b \in BOOLEAN :
          b = (\A a \in blocks[i] .. Hi(blocks[i], block_sizes[i]) : GET(heap', a) = Data(i))
    OBVIOUS
  <2>6. ASSUME NEW j \in Ids, j # i
        PROVE  \A a \in blocks[j] .. Hi(blocks[j], block_sizes[j]) : GET(heap', a) = Data(j)
    <3>1. CASE j \in Live
      <4>1. Holds(r.h, blocks[j], block_sizes[j], j)
        BY <2>1, <2>6, <3>1, OthersIntact
      <4>2. QED
        BY <2>2, <4>1 DEF Holds
    <3>2. CASE j \notin Live
      <4>1. blocks[j] .. Hi(blocks[j], block_sizes[j]) = {}
        BY <3>2, ExtentsLive DEF Extents
      <4>2. QED
        BY <4>1
    <3>3. QED
      BY <3>1, <3>2
  <2>7. Intacts' = [Intacts EXCEPT ![i] = b]
    <3>1. Intacts' = [j \in Ids |->
                        \A a \in blocks[j] .. Hi(blocks[j], block_sizes[j]) : GET(heap', a) = Data(j)]
      BY <2>2 DEF Intacts
    <3>2. Intacts' = [j \in Ids |-> IF j = i THEN b ELSE TRUE]
      BY <2>5, <2>6, <3>1
    <3>3. QED
      BY <1>2, <3>2
  <2>8. Extents[i] # {}
    BY <1>5, ExtentsLive DEF Loses
  <2>9. QED
    BY <1>5, <2>3, <2>4, <2>7, <2>8, PromiseLose
<1>6. CASE verdict' = "running"
  <2>1. r.p # NULL /\ blocks' = [blocks EXCEPT ![i] = r.p] /\ block_sizes' = [block_sizes EXCEPT ![i] = size]
    BY <1>1, <1>6 DEF JudgedAs, Receive
  <2>2. IsPlacedApart(r, i, size)
    BY <2>1, OutcomeApart
  <2>3. PICK q : q = r.p
    OBVIOUS
  <2>5. /\ q \in Word /\ q .. q + size - 1 \subseteq Word
        /\ \A j \in Ids \ {i} : Extents[j] \cap (q .. q + size - 1) = {}
    BY <2>2, <2>3, PlacedApart
  <2>7. Extents' = [Extents EXCEPT ![i] = q .. q + size - 1]
    <3>1. ASSUME NEW j \in Ids, j # i PROVE blocks'[j] = blocks[j] /\ block_sizes'[j] = block_sizes[j]
      BY <2>1, <3>1 DEF DriverInv, TraceType
    <3>2. blocks'[i] = q /\ block_sizes'[i] = size
      BY <2>1, <2>3 DEF DriverInv, TraceType
    <3>3. Extents' = [j \in Ids |-> blocks'[j] .. blocks'[j] + block_sizes'[j] - 1]
      BY DEF Extents, Hi
    <3>4. Extents = [j \in Ids |-> blocks[j] .. blocks[j] + block_sizes[j] - 1]
      BY DEF Extents, Hi
    <3>5. PICK X : X = q .. q + size - 1
      OBVIOUS
    <3>6. Extents'[i] = X /\ \A j \in Ids : j # i => Extents'[j] = Extents[j]
      BY <3>1, <3>2, <3>3, <3>4, <3>5
    <3>7. Extents' = [Extents EXCEPT ![i] = X]
      BY <3>3, <3>4, <3>6
    <3>8. QED
      BY <3>5, <3>7
  <2>8. Intacts' = Intacts
    <3>1. (DriverInv /\ verdict = "running" => Intacts = [j \in Ids |-> TRUE])'
      BY StaysIntact DEF RunsIntact
    <3>2. QED
      BY <1>2, <1>6, <3>1
  <2>9. Extents[i] # {} => i \notin Unread
    BY <1>6, ExtentsLive DEF Resizes
  <2>10. QED
    BY <1>6, <2>5, <2>7, <2>8, <2>9, PromisePlaced
<1>7. QED
  BY <1>1, <1>4, <1>5, <1>6 DEF JudgedAs, Verdicts, RangesInv

LEMMA AllocPromise ==
  ASSUME DriverInv, DriverInv', RangesInv', RoomForLinks, NEW i \in Ids, NEW size \in Sizes, Alloc(i, size)
  PROVE  Promise!AllocNext
<1>1. PICK r, old : r = mm_malloc(heap, size) /\ old = ranges
  OBVIOUS
<1>2. verdict = "running" /\ i \notin Live /\ Receive(i, r, old, size, 0)
  BY <1>1 DEF Alloc, Request
<1>3. Outcome(r, i, size)
  BY <1>1, <1>2, AllocOutcome
<1>4. verdict' # "data lost"
  <2>1. JudgedAs(verdict', i, r, old, size, 0)
    <3>1. verdict' = Judged(i, r, old, size, 0)
      BY <1>2 DEF Receive
    <3>2. QED
      BY <3>1, JudgedIs
  <2>2. SUFFICES ASSUME verdict' = "data lost" PROVE FALSE
    OBVIOUS
  <2>3. r.p # NULL /\ ~ Preserved(i, r, 0)
    BY <2>1, <2>2 DEF JudgedAs
  <2>4. IsPlacedApart(r, i, size)
    BY <1>3, <2>3, OutcomeApart
  <2>5. PICK q : q = r.p /\ q \in Int
    BY <2>4, Consts DEF IsPlacedApart, Word
  <2>6. q .. Hi(q, 0) = {}
    BY <2>5 DEF Hi
  <2>7. QED
    BY <2>3, <2>5, <2>6 DEF Preserved
<1>5. Loses(i, size) /\ Resizes(i)
  BY <1>2, <1>4 DEF Loses, Resizes
<1>6. QED
  BY <1>2, <1>3, <1>5, RequestPromise

LEMMA ReallocPromise ==
  ASSUME DriverInv, DriverInv', RangesInv', RoomForLinks, NEW i \in Ids, NEW size \in Sizes, Realloc(i, size)
  PROVE  Promise!AllocNext
<1>1. PICK r, old, kept : /\ r = mm_realloc(heap, blocks[i], size)
                          /\ old = Removed(ranges, blocks[i])
                          /\ kept = Min({size, block_sizes[i]})
  OBVIOUS
<1>2. verdict = "running" /\ i \in Live /\ Receive(i, r, old, size, kept)
  BY <1>1 DEF Realloc, Request
<1>3. Outcome(r, i, size)
  BY <1>1, <1>2, ReallocOutcome
<1>4. JudgedAs(verdict', i, r, old, size, kept)
  <2>1. verdict' = Judged(i, r, old, size, kept)
    BY <1>2 DEF Receive
  <2>2. QED
    BY <2>1, JudgedIs
<1>5. Loses(i, size)
  <2>1. ASSUME verdict' = "data lost", i \notin Unread PROVE size < block_sizes[i]
    <3>1. r.p # NULL /\ ~ Preserved(i, r, kept)
      BY <1>4, <2>1 DEF JudgedAs
    <3>2. ~ Holds(r.h, r.p, kept, i)
      BY <2>1, <3>1 DEF Preserved, Holds
    <3>3. QED
      BY <1>1, <1>2, <3>1, <3>2, LostOnShrink
  <2>2. QED
    BY <1>2, <2>1 DEF Loses
<1>6. Resizes(i)
  <2>1. ASSUME verdict' = "running" PROVE i \notin Unread
    <3>1. r.p # NULL /\ Preserved(i, r, kept)
      BY <1>4, <2>1 DEF JudgedAs
    <3>2. IsPlacedApart(r, i, size)
      BY <1>3, <3>1, OutcomeApart
    <3>3. PICK q : q = r.p /\ q \in Int
      BY <3>2, Consts DEF IsPlacedApart, Word
    <3>4. kept \in Int /\ kept > 0
      BY <1>1, <1>2, KeptSome
    <3>5. q \in q .. Hi(q, kept)
      BY <3>3, <3>4 DEF Hi
    <3>6. QED
      BY <3>1, <3>3, <3>5 DEF Preserved
  <2>2. QED
    BY <2>1 DEF Resizes
<1>7. QED
  BY <1>2, <1>3, <1>5, <1>6, RequestPromise

LEMMA FreePromise ==
  ASSUME DriverInv, DriverInv', NEW i \in Ids, FreeBlock(i)
  PROVE  Promise!AllocNext
<1>1. /\ verdict = "running" /\ verdict' = verdict /\ i \in Live
      /\ blocks' = [blocks EXCEPT ![i] = NULL]
      /\ block_sizes' = [block_sizes EXCEPT ![i] = 0]
  BY DEF FreeBlock, Request
<1>2. Extents[i] # {}
  BY <1>1, ExtentsLive
<1>3. Intacts' = Intacts
  BY <1>1, RunningIntact, StaysIntact DEF RunsIntact
<1>4. Extents' = [Extents EXCEPT ![i] = {}]
  <2>1. ASSUME NEW j \in Ids, j # i PROVE blocks'[j] = blocks[j] /\ block_sizes'[j] = block_sizes[j]
    BY <1>1, <2>1 DEF DriverInv, TraceType
  <2>2. blocks'[i] = 0 /\ block_sizes'[i] = 0
    BY <1>1 DEF DriverInv, TraceType, NULL
  <2>3. Extents' = [j \in Ids |-> blocks'[j] .. Hi(blocks'[j], block_sizes'[j])]
    BY DEF Extents
  <2>4. Extents = [j \in Ids |-> blocks[j] .. Hi(blocks[j], block_sizes[j])]
    BY DEF Extents
  <2>5. 0 .. Hi(0, 0) = {}
    BY DEF Hi
  <2>6. Extents'[i] = {} /\ \A j \in Ids : j # i => Extents'[j] = Extents[j]
    BY <2>1, <2>2, <2>3, <2>4, <2>5
  <2>7. QED
    BY <2>3, <2>4, <2>6
<1>5. QED
  BY <1>1, <1>2, <1>3, <1>4, PromiseRelease

LEMMA InitPromise == ASSUME Init PROVE Promise!AllocInit
<1>1. verdict = "running" /\ blocks = [i \in Ids |-> NULL] /\ block_sizes = [i \in Ids |-> 0]
  BY DEF Init
<1>2. 0 .. Hi(0, 0) = {}
  BY DEF Hi
<1>3. Extents = [i \in Ids |-> {}]
  BY <1>1, <1>2 DEF Extents, NULL
<1>4. Intacts = [i \in Ids |-> TRUE]
  BY <1>1, <1>2 DEF Intacts, NULL
<1>5. QED
  BY <1>1, <1>3, <1>4, PromiseInit

LEMMA PromiseStep ==
  ASSUME DriverInv, DriverInv', RangesInv', RoomForLinks, [Next]_vars
  PROVE  \/ Promise!AllocNext
         \/ Extents' = Extents /\ Intacts' = Intacts /\ verdict' = verdict
<1>1. CASE UNCHANGED vars
  BY <1>1 DEF vars, Extents, Intacts
<1>2. ASSUME NEW i \in Ids, NEW size \in Sizes, Alloc(i, size) PROVE Promise!AllocNext
  BY <1>2, AllocPromise
<1>3. ASSUME NEW i \in Ids, NEW size \in Sizes, Realloc(i, size) PROVE Promise!AllocNext
  BY <1>3, ReallocPromise
<1>4. ASSUME NEW i \in Ids, FreeBlock(i) PROVE Promise!AllocNext
  BY <1>4, FreePromise
<1>5. QED
  BY <1>1, <1>2, <1>3, <1>4 DEF Next

\* The driver's trace gets what Allocator promises: payloads in memory and apart from
\* each other, that keep their data unless a realloc shrinks them; a refused request
\* changes nothing.  A realloc of a block whose index has a low byte above 127 is
\* rejected whatever the allocator does (eval_mm_valid, mdriver.c:577-685, over mm.c).
THEOREM DriverIsAllocator == ASSUME RoomForLinks, WordAligned PROVE Spec => ImplementsAllocator
<1>1. Init => Promise!AllocInit
  BY InitPromise
<1>2. DriverInv /\ DriverInv' /\ RangesInv' /\ [Next]_vars =>
        [Promise!AllocNext]_<<[i \in Ids |-> blocks[i] .. Hi(blocks[i], block_sizes[i])],
                              [i \in Ids |-> \A a \in blocks[i] .. Hi(blocks[i], block_sizes[i]) :
                                               GET(heap, a) = Data(i)], verdict>>
  BY PromiseStep, PromiseStutter
<1>3. QED
  BY <1>1, <1>2, DriverInvariant, NoBadRange, PTL DEF Spec, ImplementsAllocator, Promise!AllocSpec

-----------------------------------------------------------------------------
(* the passes of the driver: the trace                                     *)

\* Requests of block i among the first n of t that give it a size.
Gives(t, n, i) == {m \in 1 .. n : t[m].index = i /\ t[m].type # "f"}
\* The size that block i was last given by the first n requests of t.
GivenBy(t, n, i) == t[Max(Gives(t, n, i))].size

\* What one more request, o, makes of the blocks I and their sizes.
IsNext(o, I, gv, I2, gv2) ==
    /\ o \in Op /\ I \subseteq Ids
    /\ o.type = "a" => o.index \notin I
    /\ o.type # "a" => o.index \in I
    /\ o.type = "f" => I2 = I \ {o.index}
    /\ o.type # "f" => I2 = (I \ {o.index}) \cup {o.index} /\ gv2[o.index] = o.size
    /\ \A j \in I \ {o.index} : gv2[j] = gv[j]

GivenSizes(t, n) == [i \in Ids |-> GivenBy(t, n, i)]

IsTrace(t) == t \in Seq(Op) /\ WellFormed(t) /\ Len(t) <= MaxOps

LEMMA MaxIs ==
  ASSUME NEW X, X \subseteq Int, NEW m \in X, \A x \in X : x <= m
  PROVE  Max(X) = m
<1>1. \E x \in X : \A y \in X : x >= y
  <2>1. \A y \in X : m >= y
    OBVIOUS
  <2>2. QED
    BY <2>1, Zenon
<1>2. PICK n : n = Max(X)
  OBVIOUS
<1>3. n \in X /\ \A y \in X : n >= y
  BY <1>1, <1>2, Zenon DEF Max
<1>4. QED
  BY <1>2, <1>3

\* Whether block j is allocated after one more request.
LEMMA LiveNext ==
  ASSUME NEW t, NEW n \in Nat, NEW o, o = t[n + 1], NEW j \in Ids
  PROVE  /\ o.index # j => (j \in LiveAfter(t, n + 1) <=> j \in LiveAfter(t, n))
         /\ o.index = j /\ o.type = "f" => j \notin LiveAfter(t, n + 1)
         /\ o.index = j /\ o.type # "f" => j \in LiveAfter(t, n + 1)
<1> DEFINE Gave(k) == t[k].index = j /\ t[k].type # "f"
           Freed(m) == t[m].index = j /\ t[m].type = "f"
<1>1. \A x \in Nat : j \in LiveAfter(t, x) <=> \E k \in 1 .. x : Gave(k) /\ \A m \in k + 1 .. x : ~ Freed(m)
  BY DEF LiveAfter
<1>2. o.index # j => ~ Gave(n + 1) /\ ~ Freed(n + 1)
  OBVIOUS
<1>3. o.index = j /\ o.type = "f" => ~ Gave(n + 1) /\ Freed(n + 1)
  OBVIOUS
<1>4. o.index = j /\ o.type # "f" => Gave(n + 1)
  OBVIOUS
<1> HIDE DEF Gave, Freed
<1>5. CASE o.index # j
  <2>1. ASSUME j \in LiveAfter(t, n + 1) PROVE j \in LiveAfter(t, n)
    <3>1. PICK k \in 1 .. n + 1 : Gave(k) /\ \A m \in k + 1 .. n + 1 : ~ Freed(m)
      BY <1>1, <2>1
    <3>2. k # n + 1
      BY <1>2, <1>5, <3>1
    <3>3. k \in 1 .. n /\ \A m \in k + 1 .. n : m \in k + 1 .. n + 1
      BY <3>2
    <3>4. QED
      BY <1>1, <3>1, <3>3
  <2>2. ASSUME j \in LiveAfter(t, n) PROVE j \in LiveAfter(t, n + 1)
    <3>1. PICK k \in 1 .. n : Gave(k) /\ \A m \in k + 1 .. n : ~ Freed(m)
      BY <1>1, <2>2
    <3>2. k \in 1 .. n + 1 /\ \A m \in k + 1 .. n + 1 : m = n + 1 \/ m \in k + 1 .. n
      OBVIOUS
    <3>3. \A m \in k + 1 .. n + 1 : ~ Freed(m)
      BY <1>2, <1>5, <3>1, <3>2
    <3>4. QED
      BY <1>1, <3>1, <3>2, <3>3
  <2>3. QED
    BY <1>5, <2>1, <2>2
<1>6. CASE o.index = j /\ o.type = "f"
  <2>1. ASSUME NEW k \in 1 .. n + 1, Gave(k) PROVE \E m \in k + 1 .. n + 1 : Freed(m)
    <3>1. k # n + 1
      BY <1>3, <1>6, <2>1
    <3>2. n + 1 \in k + 1 .. n + 1
      BY <3>1
    <3>3. QED
      BY <1>3, <1>6, <3>2
  <2>2. QED
    BY <1>1, <1>6, <2>1
<1>7. CASE o.index = j /\ o.type # "f"
  <2>1. n + 1 \in 1 .. n + 1 /\ \A m \in n + 1 + 1 .. n + 1 : FALSE
    OBVIOUS
  <2>2. \E k \in 1 .. n + 1 : Gave(k) /\ \A m \in k + 1 .. n + 1 : ~ Freed(m)
    BY <1>4, <1>7, <2>1
  <2>3. QED
    BY <1>1, <1>7, <2>2
<1>8. QED
  BY <1>5, <1>6, <1>7

\* The request after the first n of a trace.
LEMMA NextRequest ==
  ASSUME NEW t, IsTrace(t), NEW n \in Nat, n < Len(t), NEW o, o = t[n + 1],
         NEW I, I = LiveAfter(t, n), NEW I2, I2 = LiveAfter(t, n + 1),
         NEW gv, gv = GivenSizes(t, n), NEW gv2, gv2 = GivenSizes(t, n + 1)
  PROVE  IsNext(o, I, gv, I2, gv2)
<1>1. n + 1 \in DOMAIN t /\ o \in Op
  BY DEF IsTrace
<1>2. PICK i \in Ids : i = o.index
  BY <1>1 DEF Op
<1>3. (o.type = "a") = (i \notin I)
  <2>1. n + 1 - 1 = n
    OBVIOUS
  <2>2. (t[n + 1].type = "a") = (t[n + 1].index \notin LiveAfter(t, n + 1 - 1))
    BY <1>1 DEF IsTrace, WellFormed
  <2>3. QED
    BY <1>2, <2>1, <2>2
<1>4. I \subseteq Ids /\ I2 \subseteq Ids
  BY DEF LiveAfter
<1>5. o.type = "f" => I2 = I \ {i}
  BY <1>2, <1>4, LiveNext
<1>6. o.type # "f" => I2 = (I \ {i}) \cup {i}
  BY <1>2, <1>4, LiveNext
<1>7. o.type # "f" => gv2[i] = o.size
  <2>1. SUFFICES ASSUME o.type # "f" PROVE gv2[i] = o.size
    OBVIOUS
  <2>2. n + 1 \in Gives(t, n + 1, i) /\ Gives(t, n + 1, i) \subseteq 1 .. n + 1
    BY <1>2, <2>1 DEF Gives
  <2>3. Max(Gives(t, n + 1, i)) = n + 1
    BY <2>2, MaxIs
  <2>4. QED
    BY <2>3 DEF GivenSizes, GivenBy
<1>8. ASSUME NEW j \in I \ {i} PROVE gv2[j] = gv[j]
  <2>1. Gives(t, n + 1, j) = Gives(t, n, j)
    BY <1>2 DEF Gives
  <2>2. QED
    BY <1>4, <2>1 DEF GivenSizes, GivenBy
<1>9. QED
  BY <1>1, <1>2, <1>3, <1>4, <1>5, <1>6, <1>7, <1>8 DEF IsNext

-----------------------------------------------------------------------------
(* a replay keeps its blocks apart                                         *)

\* The blocks I are the allocated ones, each large enough for the size it was given.
Laid(S, A, bl, gv, I) ==
    /\ A = At(bl, I)
    /\ \A i, j \in I : bl[i] = bl[j] => i = j
    /\ \A i \in I : gv[i] \in Sizes /\ S[bl[i]] >= BlockSize(gv[i])

\* The heap has a shape, in which the blocks I are the allocated ones.
Unchecked(h, bl, gv, I) == \E B, S, A : Shape(h, B, S, A, {}) /\ Laid(S, A, bl, gv, I)

\* Block i of the trace is where the allocator has put it.
IsPut(bl2, bl, gv2, gv, i, p, size, J) ==
    /\ bl \in [Ids -> Int] /\ bl2 = [bl EXCEPT ![i] = p]
    /\ gv2[i] = size /\ \A j \in J : gv2[j] = gv[j]

LEMMA LaidWith ==
  ASSUME NEW h, NEW S, NEW A, NEW bl, NEW gv, NEW I, I \subseteq Ids, Laid(S, A, bl, gv, I),
         NEW i \in Ids, NEW J, J = I \ {i}, NEW D, D = At(bl, J), NEW size \in Sizes,
         NEW r, Allotted(h, r, S, D, BlockSize(size)),
         NEW bl2, NEW gv2, IsPut(bl2, bl, gv2, gv, i, r.p, size, J),
         NEW K, K = J \cup {i}
  PROVE  Unchecked(r.h, bl2, gv2, K)
<1>1. PICK q, need : q = r.p /\ need = BlockSize(size)
  OBVIOUS
<1>2. PICK C, T : /\ Shape(r.h, C, T, D \cup {q}, {}) /\ q \in C /\ q \notin D
                  /\ T[q] \in need .. need + 4
                  /\ \A x \in D : T[x] = S[x]
  BY <1>1 DEF Allotted
<1>3. /\ bl2[i] = q /\ gv2[i] = size
      /\ \A j \in J : j # i /\ bl2[j] = bl[j] /\ gv2[j] = gv[j] /\ bl[j] \in D
  BY <1>1 DEF IsPut, At
<1>4. D \cup {q} = At(bl2, K)
  BY <1>3 DEF At
<1>5. \A x, y \in K : bl2[x] = bl2[y] => x = y
  <2>1. \A x, y \in J : bl[x] = bl[y] => x = y
    BY DEF Laid
  <2>2. \A x, y \in J : bl2[x] = bl2[y] => x = y
    BY <1>3, <2>1
  <2>3. \A x \in J : bl2[x] # bl2[i]
    BY <1>2, <1>3
  <2>4. QED
    BY <2>2, <2>3
<1>6. ASSUME NEW j \in K PROVE gv2[j] \in Sizes /\ T[bl2[j]] >= BlockSize(gv2[j])
  <2>1. CASE j = i
    <3>1. need \in Int
      BY <1>1, MDriverAssumption DEF BlockSize
    <3>2. T[q] >= need
      BY <1>2, <3>1
    <3>3. QED
      BY <1>1, <1>3, <2>1, <3>2
  <2>2. CASE j \in J
    <3>1. gv[j] \in Sizes /\ S[bl[j]] >= BlockSize(gv[j])
      BY <2>2 DEF Laid
    <3>2. T[bl[j]] = S[bl[j]]
      BY <1>2, <1>3, <2>2
    <3>3. QED
      BY <1>3, <2>2, <3>1, <3>2
  <2>3. QED
    BY <2>1, <2>2
<1>7. QED
  BY <1>2, <1>4, <1>5, <1>6 DEF Unchecked, Laid

LEMMA LaidLess ==
  ASSUME NEW h, NEW S, NEW A, NEW bl, NEW gv, NEW I, Laid(S, A, bl, gv, I),
         NEW i \in I, NEW J, J = I \ {i}, NEW g, Kept(g, h, S, A \ {bl[i]}),
         NEW gv2, \A j \in J : gv2[j] = gv[j]
  PROVE  Unchecked(g, bl, gv2, J)
<1>1. A \ {bl[i]} = At(bl, J)
  BY DEF Laid, At
<1>2. PICK C, T : Shape(g, C, T, At(bl, J), {}) /\ \A x \in At(bl, J) : T[x] = S[x]
  BY <1>1 DEF Kept
<1>3. ASSUME NEW j \in J PROVE gv2[j] \in Sizes /\ T[bl[j]] >= BlockSize(gv2[j])
  <2>1. bl[j] \in At(bl, J) /\ gv2[j] = gv[j]
    BY DEF At
  <2>2. T[bl[j]] = S[bl[j]]
    BY <1>2, <2>1
  <2>3. QED
    BY <2>1, <2>2 DEF Laid
<1>4. \A x, y \in J : bl[x] = bl[y] => x = y
  BY DEF Laid
<1>5. QED
  BY <1>2, <1>3, <1>4 DEF Unchecked, Laid

\* What a request of a replay makes of the heap and the blocks.
Answered(h, r, bl2, gv2, I2) ==
    /\ r.p # NULL => Unchecked(r.h, bl2, gv2, I2)
    /\ r.h \in Heap /\ r.h.brk >= h.brk

ServedBy(h, r, o, bl) ==
    /\ o.type = "a" => r = mm_malloc(h, o.size)
    /\ o.type = "r" => r = mm_realloc(h, bl[o.index], o.size)
    /\ o.type = "f" => r = Result(mm_free(h, bl[o.index]), bl[o.index])

LEMMA ReplayAnswer ==
  ASSUME RoomForLinks, NEW h, NEW bl \in [Ids -> Int], NEW gv, NEW I, Unchecked(h, bl, gv, I),
         NEW o, NEW I2, NEW gv2, IsNext(o, I, gv, I2, gv2), NEW r, ServedBy(h, r, o, bl),
         NEW bl2, bl2 = [bl EXCEPT ![o.index] = r.p]
  PROVE  Answered(h, r, bl2, gv2, I2)
<1>1. PICK B, S, A : Shape(h, B, S, A, {}) /\ Laid(S, A, bl, gv, I)
  BY DEF Unchecked
<1>2. PICK i, size, need, J : i = o.index /\ size = o.size /\ need = BlockSize(size) /\ J = I \ {i}
  OBVIOUS
<1>3. i \in Ids /\ size \in Sizes /\ size \in Nat /\ size >= 2 /\ I \subseteq Ids
      /\ (o.type = "a" \/ o.type = "r" \/ o.type = "f")
  BY <1>2, MDriverAssumption DEF IsNext, Op, RoomForLinks
<1>4. h \in Heap /\ h.brk \in Int
  BY <1>1 DEF Shape, Heap
<1>5. PICK D : D = At(bl, J)
  OBVIOUS
<1>6. ASSUME o.type # "f", r.p # NULL, Allotted(h, r, S, D, need)
      PROVE  Unchecked(r.h, bl2, gv2, I2) /\ r.h \in Heap
  <2>1. IsPut(bl2, bl, gv2, gv, i, r.p, size, J) /\ I2 = J \cup {i}
    BY <1>2, <1>6 DEF IsPut, IsNext
  <2>2. /\ Laid(S, A, bl, gv, I) /\ J = I \ {i} /\ D = At(bl, J)
        /\ Allotted(h, r, S, D, BlockSize(size))
    BY <1>1, <1>2, <1>5, <1>6
  <2>3. Unchecked(r.h, bl2, gv2, I2)
    BY <1>3, <2>1, <2>2, LaidWith, ZenonT(30)
  <2>4. QED
    BY <1>6, <2>3 DEF Allotted, Shape
<1>7. CASE o.type = "a"
  <2>1. r = mm_malloc(h, size) /\ i \notin I
    BY <1>2, <1>7 DEF ServedBy, IsNext
  <2>2. Mallocked(h, r, B, S, A, need)
    BY <1>1, <1>2, <1>3, <2>1, MallocShape
  <2>3. D = A
    BY <1>1, <1>2, <1>5, <2>1 DEF Laid, At
  <2>4. r.p # NULL => Allotted(h, r, S, D, need)
    BY <2>2, <2>3 DEF Mallocked
  <2>5. r.h \in Heap /\ r.h.brk >= h.brk
    BY <1>4, <1>6, <1>7, <2>2, <2>4 DEF Mallocked
  <2>6. QED
    BY <1>6, <1>7, <2>4, <2>5 DEF Answered
<1>8. CASE o.type = "r"
  <2>0. PICK p : p = bl[i]
    OBVIOUS
  <2>1. r = mm_realloc(h, p, size) /\ i \in I
    BY <1>2, <1>8, <2>0 DEF ServedBy, IsNext
  <2>2. p \in A /\ D = A \ {p}
    BY <1>1, <1>2, <1>5, <2>0, <2>1 DEF Laid, At
  <2>3. PICK n : n = (IF S[p] < need THEN S[p] ELSE need) - 2
    OBVIOUS
  <2>4. Reallocked(h, r, S, A, p, need, n)
    BY <1>1, <1>2, <1>3, <2>1, <2>2, <2>3, ReallocShape
  <2>5. r.p # NULL => Allotted(h, r, S, D, need)
    BY <2>2, <2>4 DEF Reallocked
  <2>6. r.h \in Heap /\ r.h.brk >= h.brk
    BY <1>4, <1>6, <1>8, <2>4, <2>5 DEF Reallocked
  <2>7. QED
    BY <1>6, <1>8, <2>5, <2>6 DEF Answered
<1>9. CASE o.type = "f"
  <2>0. PICK p, k : p = bl[i] /\ k = mm_free(h, p)
    OBVIOUS
  <2>1. r = Result(k, p) /\ i \in I /\ I2 = J
    BY <1>2, <1>9, <2>0 DEF ServedBy, IsNext
  <2>2. r.h = k /\ r.p = p
    BY <2>1 DEF Result
  <2>3. p \in A
    BY <1>1, <2>0, <2>1 DEF Laid, At
  <2>4. Kept(k, h, S, A \ {p})
    BY <1>1, <2>0, <2>3, FreeShape
  <2>5. bl2 = bl
    BY <1>2, <2>0, <2>2
  <2>6. Unchecked(k, bl, gv2, J)
    <3>1. \A j \in J : gv2[j] = gv[j]
      BY <1>2 DEF IsNext
    <3>2. Laid(S, A, bl, gv, I) /\ i \in I /\ J = I \ {i} /\ Kept(k, h, S, A \ {bl[i]})
      BY <1>1, <1>2, <2>0, <2>1, <2>4
    <3>3. QED
      BY <3>1, <3>2, LaidLess, ZenonT(30)
  <2>7. k \in Heap /\ k.brk = h.brk
    BY <2>4 DEF Kept, Shape
  <2>8. QED
    BY <1>4, <2>1, <2>2, <2>5, <2>6, <2>7 DEF Answered
<1>10. QED
  BY <1>3, <1>7, <1>8, <1>9

-----------------------------------------------------------------------------
(* the words in use                                                        *)

\* The words of the payloads of the blocks I.
Payloads(bl, gv, I) == UNION {bl[i] .. bl[i] + gv[i] - 1 : i \in I}

\* Two payloads of an unchecked heap.
LEMMA LaidApart ==
  ASSUME NEW h, NEW B, NEW S, NEW A, Shape(h, B, S, A, {}), NEW bl, NEW gv, NEW I,
         Laid(S, A, bl, gv, I), NEW i \in I, NEW p, NEW n, p = bl[i], n = gv[i]
  PROVE  /\ p \in Int /\ n \in Nat /\ n > 0 /\ FirstBlock <= p /\ FirstBlock > HeapLo
         /\ h.brk \in Int /\ p + n < h.brk /\ HeapLo \in Int
         /\ \A j \in I \ {i} : p + n < bl[j] \/ bl[j] + gv[j] < p
<1>1. PICK brk : brk = h.brk
  OBVIOUS
<1>2. Tiles(brk, B, S) /\ A \subseteq B
  BY <1>1 DEF Shape
<1>3. ASSUME NEW j \in I
      PROVE  /\ bl[j] \in B /\ bl[j] \in Int /\ S[bl[j]] \in Nat /\ brk \in Int
             /\ gv[j] \in Nat /\ gv[j] > 0 /\ S[bl[j]] >= gv[j] + 2
             /\ FirstBlock <= bl[j] /\ bl[j] + S[bl[j]] <= brk
             /\ FirstBlock = HeapLo + segregated_list_num + 3
  <2>1. bl[j] \in B
    BY <1>2 DEF Laid, At
  <2>2. /\ bl[j] \in Int /\ S[bl[j]] \in Nat /\ brk \in Int /\ FirstBlock <= bl[j]
        /\ bl[j] + S[bl[j]] <= brk /\ FirstBlock = HeapLo + segregated_list_num + 3
    BY <1>2, <2>1, ZoneWord
  <2>3. gv[j] \in Nat /\ gv[j] > 0 /\ S[bl[j]] >= gv[j] + 2
    <3>1. PICK m, z : m = gv[j] /\ z = S[bl[j]]
      OBVIOUS
    <3>2. m \in Sizes /\ z >= BlockSize(m)
      BY <3>1 DEF Laid
    <3>3. m \in Nat /\ m > 0
      BY <3>2, MDriverAssumption
    <3>4. z >= m + 2
      BY <3>2 DEF BlockSize
    <3>5. QED
      BY <3>1, <3>3, <3>4
  <2>4. QED
    BY <2>1, <2>2, <2>3
<1>4. ASSUME NEW j \in I \ {i} PROVE p + n < bl[j] \/ bl[j] + gv[j] < p
  <2>1. bl[j] # p
    BY DEF Laid
  <2>2. PICK q, m, sp, sq : q = bl[j] /\ m = gv[j] /\ sp = S[p] /\ sq = S[q]
    OBVIOUS
  <2>3. /\ p \in B /\ p \in Int /\ n \in Nat /\ sp \in Nat /\ sp >= n + 2
        /\ q \in B /\ q \in Int /\ m \in Nat /\ sq \in Nat /\ sq >= m + 2
    BY <1>3, <2>2
  <2>4. p < q \/ q < p
    BY <2>1, <2>2, <2>3
  <2>5. (p < q => p + sp <= q) /\ (q < p => q + sq <= p)
    BY <1>2, <2>2, <2>3 DEF Tiles
  <2>6. p + n < q \/ q + m < p
    BY <2>3, <2>4, <2>5
  <2>7. QED
    BY <2>2, <2>6
<1>5. PICK sp : sp = S[p]
  OBVIOUS
<1>6. /\ p \in Int /\ n \in Nat /\ n > 0 /\ sp \in Nat /\ sp >= n + 2 /\ brk \in Int
      /\ FirstBlock <= p /\ p + sp <= brk
      /\ FirstBlock = HeapLo + segregated_list_num + 3
  BY <1>3, <1>5
<1>7. p + n < brk /\ FirstBlock > HeapLo
  BY <1>6, Consts
<1>8. QED
  BY <1>1, <1>4, <1>6, <1>7, Consts

\* A heap is at least as large as the payloads in it.
LEMMA PayloadsFit ==
  ASSUME NEW h, NEW bl, NEW gv, NEW I, Unchecked(h, bl, gv, I), NEW U, U = Payloads(bl, gv, I)
  PROVE  /\ IsFiniteSet(U) /\ Cardinality(U) \in Nat /\ h.brk \in Int /\ h.brk >= HeapLo
         /\ Cardinality(U) <= h.brk - HeapLo
<1>1. PICK B, S, A : Shape(h, B, S, A, {}) /\ Laid(S, A, bl, gv, I)
  BY DEF Unchecked
<1>2. PICK lo, brk : lo = HeapLo /\ brk = h.brk
  OBVIOUS
<1>3. lo \in Int /\ brk \in Int /\ brk >= lo
  <2>1. Tiles(brk, B, S) /\ FirstBlock \in B
    BY <1>1, <1>2 DEF Shape, Tiles
  <2>2. PICK f, z : f = FirstBlock /\ z = S[f]
    OBVIOUS
  <2>3. /\ f \in Int /\ z \in Nat /\ brk \in Int /\ f + z <= brk
        /\ f = HeapLo + segregated_list_num + 3
    BY <2>1, <2>2, ZoneWord
  <2>4. QED
    BY <1>2, <2>3, Consts
<1>4. PICK n \in Nat : n = brk - lo
  BY <1>3
<1>5. U \subseteq lo .. lo + n - 1
  <2>1. ASSUME NEW i \in I, NEW a \in bl[i] .. bl[i] + gv[i] - 1 PROVE a \in lo .. lo + n - 1
    <3>1. PICK p, m : p = bl[i] /\ m = gv[i]
      OBVIOUS
    <3>2. p \in Int /\ m \in Nat /\ FirstBlock <= p /\ FirstBlock > lo /\ p + m < brk /\ FirstBlock \in Int
      <4>1. p \in Int /\ m \in Nat /\ FirstBlock <= p /\ FirstBlock > lo /\ p + m < brk
        BY <1>1, <1>2, <3>1, LaidApart
      <4>2. FirstBlock \in Int
        BY Consts DEF FirstBlock, PRELOGUE_BLK
      <4>3. QED
        BY <4>1, <4>2
    <3>3. a \in p .. p + m - 1
      BY <3>1
    <3>4. QED
      BY <1>3, <1>4, <3>2, <3>3
  <2>2. QED
    BY <2>1 DEF Payloads
<1>6. Cardinality(lo .. lo + n - 1) = n /\ IsFiniteSet(lo .. lo + n - 1)
  <2>1. PICK e \in Int : e = lo + n - 1
    BY <1>3
  <2>2. IsFiniteSet(lo .. e)
    BY <1>3, FS_Interval
  <2>3. QED
    BY <1>3, <2>1, <2>2, IntervalSize
<1>7. IsFiniteSet(U) /\ Cardinality(U) <= n
  BY <1>5, <1>6, FS_Subset
<1>8. Cardinality(U) \in Nat
  BY <1>7, FS_CardinalityType
<1>9. QED
  BY <1>2, <1>3, <1>4, <1>7, <1>8

\* One payload more.
LEMMA PayloadsWith ==
  ASSUME NEW h, NEW bl, NEW gv, NEW I, Unchecked(h, bl, gv, I), NEW i \in I,
         NEW U, U = Payloads(bl, gv, I), NEW V, V = Payloads(bl, gv, I \ {i})
  PROVE  Cardinality(U) = Cardinality(V) + gv[i] /\ Cardinality(V) \in Nat /\ gv[i] \in Nat
<1>1. PICK B, S, A : Shape(h, B, S, A, {}) /\ Laid(S, A, bl, gv, I)
  BY DEF Unchecked
<1>2. PICK p, n, X : p = bl[i] /\ n = gv[i] /\ X = p .. p + n - 1
  OBVIOUS
<1>3. /\ p \in Int /\ n \in Nat
      /\ \A j \in I \ {i} : p + n < bl[j] \/ bl[j] + gv[j] < p
  BY <1>1, <1>2, LaidApart
<1>4. U = V \cup X
  BY <1>2 DEF Payloads
<1>5. V \cap X = {}
  <2>1. ASSUME NEW j \in I \ {i}, NEW a \in bl[j] .. bl[j] + gv[j] - 1, a \in X PROVE FALSE
    <3>1. PICK q, m : q = bl[j] /\ m = gv[j]
      OBVIOUS
    <3>2. q \in Int /\ m \in Nat
      BY <1>1, <3>1, LaidApart
    <3>3. p + n < q \/ q + m < p
      BY <1>3, <3>1
    <3>4. a \in q .. q + m - 1 /\ a \in p .. p + n - 1
      BY <1>2, <2>1, <3>1
    <3>5. QED
      BY <1>3, <3>2, <3>3, <3>4
  <2>2. QED
    BY <2>1 DEF Payloads
<1>6. IsFiniteSet(V) /\ IsFiniteSet(X)
  <2>1. IsFiniteSet(U)
    BY PayloadsFit
  <2>2. QED
    BY <1>4, <2>1, FS_Subset
<1>7. Cardinality(V) \in Nat /\ Cardinality(X) = n /\ Cardinality(V \cap X) = 0
  BY <1>2, <1>3, <1>5, <1>6, FS_CardinalityType, FS_EmptySet, IntervalSize
<1>8. Cardinality(U) = Cardinality(V) + Cardinality(X) - Cardinality(V \cap X)
  BY <1>4, <1>6, FS_Union
<1>9. QED
  BY <1>2, <1>3, <1>7, <1>8

\* What request o makes of the number u of words in use.
Recounts(u, v, o, old) ==
    /\ u \in Nat /\ v \in Nat
    /\ o.type = "a" => v = u + o.size
    /\ o.type = "r" => v = u + o.size - old
    /\ o.type = "f" => v = u - old

\* What a request adds to the payloads and what it takes off.
LEMMA PayloadsNext ==
  ASSUME NEW h, NEW bl, NEW gv, NEW I, Unchecked(h, bl, gv, I),
         NEW g, NEW bl2, NEW gv2, NEW I2, Unchecked(g, bl2, gv2, I2),
         NEW o, IsNext(o, I, gv, I2, gv2), NEW i, i = o.index, \A j \in I \ {i} : bl2[j] = bl[j],
         NEW u, u = Cardinality(Payloads(bl, gv, I)), NEW v, v = Cardinality(Payloads(bl2, gv2, I2))
  PROVE  Recounts(u, v, o, gv[i])
<1>1. PICK J : J = I \ {i}
  OBVIOUS
<1>2. PICK w : w = Cardinality(Payloads(bl, gv, J))
  OBVIOUS
<1>3. u \in Nat /\ v \in Nat
  BY PayloadsFit
<1>4. Payloads(bl2, gv2, J) = Payloads(bl, gv, J)
  <2>1. \A j \in J : bl2[j] = bl[j] /\ gv2[j] = gv[j]
    BY <1>1 DEF IsNext
  <2>2. QED
    BY <2>1 DEF Payloads
<1>5. o.type = "a" => u = w
  <2>1. o.type = "a" => J = I
    BY <1>1 DEF IsNext
  <2>2. QED
    BY <1>2, <2>1
<1>6. o.type # "a" => u = w + gv[i] /\ w \in Nat /\ gv[i] \in Nat
  <2>1. o.type # "a" => i \in I
    BY DEF IsNext
  <2>2. QED
    BY <1>1, <1>2, <2>1, PayloadsWith
<1>7. o.type # "f" => v = w + o.size /\ w \in Nat /\ o.size \in Nat
  <2>1. o.type # "f" => i \in I2 /\ I2 \ {i} = J /\ gv2[i] = o.size
    BY <1>1 DEF IsNext
  <2>2. o.type # "f" => /\ v = Cardinality(Payloads(bl2, gv2, J)) + gv2[i] /\ gv2[i] \in Nat
                        /\ Cardinality(Payloads(bl2, gv2, J)) \in Nat
    BY <2>1, PayloadsWith
  <2>3. QED
    BY <1>2, <1>4, <2>1, <2>2
<1>8. o.type = "f" => v = w
  <2>1. o.type = "f" => I2 = J
    BY <1>1 DEF IsNext
  <2>2. QED
    BY <1>2, <1>4, <2>1
<1>9. QED
  <2>1. PICK old : old = gv[i]
    OBVIOUS
  <2>2. Recounts(u, v, o, old)
    BY <1>3, <1>5, <1>6, <1>7, <1>8, <2>1 DEF Recounts
  <2>3. QED
    BY <2>1, <2>2

-----------------------------------------------------------------------------
(* the invariant of the main loop                                          *)

\* The invariant of the main loop: a trace being checked keeps the driver's invariant;
\* a trace being replayed keeps its blocks the allocated ones of the heap, each as
\* large as its last request; eval_mm_util counts the words of their payloads.
GivenNow == GivenSizes(trace, ops)
LiveNow == LiveAfter(trace, ops)

PassType ==
    /\ heap \in Heap /\ IsTrace(trace) /\ ops \in 0 .. MaxOps
    /\ blocks \in [Ids -> Int] /\ stats \in Seq([valid : BOOLEAN, used : Int, of : Int])

Replayed == ops <= Len(trace) /\ Unchecked(heap, blocks, GivenNow, LiveNow)

Counted ==
    /\ block_sizes \in [Ids -> Nat] /\ \A i \in LiveNow : block_sizes[i] = GivenNow[i]
    /\ total_size = Cardinality(Payloads(blocks, GivenNow, LiveNow))
    /\ max_total_size \in Nat /\ max_total_size <= mem_heapsize(heap)

StatsFit == \A k \in DOMAIN stats : stats[k].used <= stats[k].of

PassInv ==
    /\ PassType /\ StatsFit
    /\ pass = "valid" => DriverInv
    /\ pass \in {"util", "speed"} => Replayed
    /\ pass = "util" => Counted

LEMMA NoneLive == ASSUME NEW t PROVE LiveAfter(t, 0) = {}
  BY DEF LiveAfter

\* mm_init on what the pass before has left.
LEMMA ResetFresh == ASSUME heap \in Heap, Reset PROVE heap' \in Heap /\ IsInitial(heap') /\ ops' = 0
<1>1. PICK h, g : h = mem_reset_brk(heap) /\ g = heap'
  OBVIOUS
<1>2. h \in Heap /\ h.brk = HeapLo /\ g = mm_init(h)
  <2>1. h \in Heap /\ h.brk = HeapLo
    BY <1>1, Consts DEF mem_reset_brk, Heap
  <2>2. QED
    BY <1>1, <2>1 DEF Reset
<1>3. CHUNK_SIZE + segregated_list_num + 3 <= MAX_HEAP
  BY MDriverAssumption
<1>4. IsInitial(g)
  BY <1>2, <1>3, InitShape
<1>5. QED
  BY <1>1, <1>4 DEF IsInitial, Shape, Reset

LEMMA FreshUnchecked ==
  ASSUME NEW h, IsInitial(h), NEW bl, NEW gv PROVE Unchecked(h, bl, gv, {})
<1>1. Laid(FirstSizes, {}, bl, gv, {})
  BY DEF Laid, At
<1>2. QED
  BY <1>1 DEF IsInitial, Unchecked

LEMMA TypedBlocks == ASSUME TraceType PROVE blocks \in [Ids -> Int] /\ block_sizes \in [Ids -> Nat]
  BY Consts DEF TraceType, Word, NULL

LEMMA EmptyTrace == IsTrace(<<>>)
  BY MDriverAssumption DEF IsTrace, WellFormed

LEMMA PassInit == ASSUME MainInit PROVE PassInv
<1>1. heap \in Heap
  BY Consts DEF MainInit, mem_init, Heap
<1>2. PassType
  <2>1. trace = <<>> /\ ops = 0 /\ blocks = [i \in Ids |-> NULL] /\ stats = <<>>
    BY DEF MainInit
  <2>2. IsTrace(trace)
    BY <2>1, EmptyTrace
  <2>3. QED
    BY <1>1, <2>1, <2>2, MDriverAssumption DEF PassType, NULL
<1>3. StatsFit
  BY DEF MainInit, StatsFit
<1>4. QED
  BY <1>2, <1>3 DEF MainInit, PassInv

\* A new trace meets the invariant of the driver.
LEMMA ReadInv == ASSUME PassInv, ReadTrace PROVE PassInv'
<1>1. heap' \in Heap /\ IsInitial(heap') /\ ops' = 0
  BY ResetFresh DEF PassInv, PassType, ReadTrace
<1>2. /\ pass' = "valid" /\ trace' \in Traces /\ verdict' = "running" /\ stats' = stats
      /\ blocks' = [i \in Ids |-> NULL] /\ block_sizes' = [i \in Ids |-> 0]
  BY DEF ReadTrace
<1>3. IsTrace(trace')
  BY <1>2, TraceAssumption DEF IsTrace
<1>4. TraceType'
  BY <1>1, <1>2, MDriverAssumption DEF TraceType, Verdicts
<1>5. Live' = {}
  BY <1>2 DEF Live
<1>6. DriverInv'
  <2>1. PICK g, bl, sz : g = heap' /\ bl = blocks' /\ sz = block_sizes'
    OBVIOUS
  <2>2. Sound(g, bl, sz, {}) /\ Shaped(g)
    BY <1>1, <2>1, NoBlockSound DEF IsInitial, Shaped
  <2>3. QED
    BY <1>4, <1>5, <2>1, <2>2 DEF DriverInv
<1>7. PassType'
  <2>1. blocks' \in [Ids -> Int]
    BY <1>2 DEF NULL
  <2>2. QED
    BY <1>1, <1>2, <1>3, <2>1, MDriverAssumption DEF PassInv, PassType
<1>8. StatsFit'
  BY <1>2 DEF PassInv, StatsFit
<1>9. QED
  BY <1>2, <1>6, <1>7, <1>8 DEF PassInv

LEMMA NextOp == ASSUME PassType, More PROVE op \in Op /\ op.index \in Ids /\ op.size \in Sizes
<1>1. trace \in Seq(Op) /\ ops \in Nat /\ ops < Len(trace)
  BY DEF PassType, IsTrace, More
<1>2. ops + 1 \in 1 .. Len(trace)
  BY <1>1
<1>3. op \in Op
  BY <1>1, <1>2 DEF op
<1>4. QED
  BY <1>3 DEF Op

\* A request of the checked pass.
LEMMA ValidOpInv == ASSUME PassInv, RoomForLinks, ValidOp PROVE PassInv'
<1>1. /\ pass = "valid" /\ DriverInv /\ More /\ pass' = pass /\ trace' = trace /\ stats' = stats
  BY DEF ValidOp, PassInv, passVars
<1>2. PICK i \in Ids, size \in Sizes, o \in Op : o = op /\ i = o.index /\ size = o.size
  BY <1>1, NextOp DEF PassInv
<1>3. (CASE o.type = "a" -> Alloc(i, size)
         [] o.type = "r" -> Realloc(i, size)
         [] o.type = "f" -> FreeBlock(i))
  BY <1>2, Zenon DEF ValidOp
<1>4. Alloc(i, size) \/ Realloc(i, size) \/ FreeBlock(i)
  <2>1. o.type = "a" \/ o.type = "r" \/ o.type = "f"
    BY DEF Op
  <2>2. QED
    BY <1>3, <2>1
<1>5. DriverInv'
  BY <1>1, <1>4, AllocInv, ReallocInv, FreeInv
<1>6. PassType'
  <2>1. heap' \in Heap /\ TraceType'
    BY <1>5 DEF DriverInv, Shaped, Shape
  <2>2. blocks' \in [Ids -> Int] /\ ops' \in 0 .. MaxOps
    BY <2>1, Consts DEF TraceType, Word, NULL
  <2>3. QED
    BY <1>1, <2>1, <2>2 DEF PassInv, PassType
<1>7. StatsFit'
  BY <1>1 DEF PassInv, StatsFit
<1>8. QED
  BY <1>1, <1>5, <1>6, <1>7 DEF PassInv

\* One more trace is done, and its utilisation is at most one.
LEMMA StatsAppend ==
  ASSUME NEW s \in Seq([valid : BOOLEAN, used : Int, of : Int]), \A k \in DOMAIN s : s[k].used <= s[k].of,
         NEW u \in Int, NEW v \in Int, u <= v, NEW b \in BOOLEAN,
         NEW s2, s2 = Append(s, [valid |-> b, used |-> u, of |-> v])
  PROVE  /\ s2 \in Seq([valid : BOOLEAN, used : Int, of : Int])
         /\ \A k \in DOMAIN s2 : s2[k].used <= s2[k].of
<1>1. PICK e \in [valid : BOOLEAN, used : Int, of : Int] : e = [valid |-> b, used |-> u, of |-> v]
  OBVIOUS
<1>2. e.used = u /\ e.of = v
  BY <1>1
<1>3. s2 \in Seq([valid : BOOLEAN, used : Int, of : Int])
  BY <1>1
<1>4. ASSUME NEW k \in DOMAIN s2 PROVE s2[k].used <= s2[k].of
  <2>1. \/ k \in DOMAIN s /\ s2[k] = s[k]
        \/ s2[k] = e
    BY <1>1
  <2>2. QED
    BY <1>2, <2>1
<1>5. QED
  BY <1>3, <1>4

LEMMA InvalidInv == ASSUME PassInv, Invalid PROVE PassInv'
<1>1. /\ pass' = "read" /\ stats' = Append(stats, [valid |-> FALSE, used |-> 0, of |-> 0])
      /\ heap' = heap /\ trace' = trace /\ ops' = ops /\ blocks' = blocks
  BY DEF Invalid, vars
<1>2. PICK s, s2 : s = stats /\ s2 = stats'
  OBVIOUS
<1>3. s \in Seq([valid : BOOLEAN, used : Int, of : Int]) /\ \A k \in DOMAIN s : s[k].used <= s[k].of
  BY <1>2 DEF PassInv, PassType, StatsFit
<1>4. s2 = Append(s, [valid |-> FALSE, used |-> 0, of |-> 0]) /\ FALSE \in BOOLEAN /\ 0 \in Int /\ 0 <= 0
  BY <1>1, <1>2
<1>5. s2 \in Seq([valid : BOOLEAN, used : Int, of : Int]) /\ \A k \in DOMAIN s2 : s2[k].used <= s2[k].of
  BY <1>3, <1>4, StatsAppend
<1>6. PassType'
  BY <1>1, <1>2, <1>5 DEF PassInv, PassType
<1>7. StatsFit'
  BY <1>2, <1>5 DEF StatsFit
<1>8. QED
  BY <1>1, <1>6, <1>7 DEF PassInv

\* Every pass starts from the heap that mm_init leaves, with no block allocated.
LEMMA StartReplay ==
  ASSUME PassInv, Reset, blocks' = blocks, trace' = trace
  PROVE  /\ heap' \in Heap /\ ops' = 0 /\ ops' \in 0 .. MaxOps
         /\ LiveNow' = {} /\ Replayed'
<1>1. heap' \in Heap /\ IsInitial(heap') /\ ops' = 0
  BY ResetFresh DEF PassInv, PassType
<1>2. LiveNow' = {}
  <2>1. LiveAfter(trace', 0) = {}
    BY NoneLive
  <2>2. QED
    BY <1>1, <2>1 DEF LiveNow
<1>3. PICK g, bl, gv : g = heap' /\ bl = blocks' /\ gv = GivenNow'
  OBVIOUS
<1>4. Unchecked(g, bl, gv, {})
  BY <1>1, <1>3, FreshUnchecked
<1>5. Unchecked(heap', blocks', GivenNow', LiveNow')
  BY <1>2, <1>3, <1>4
<1>6. ops' <= Len(trace')
  BY <1>1 DEF PassInv, PassType, IsTrace
<1>7. QED
  BY <1>1, <1>2, <1>5, <1>6, MDriverAssumption DEF Replayed

LEMMA ValidInv == ASSUME PassInv, Valid PROVE PassInv'
<1>1. /\ pass = "valid" /\ pass' = "util" /\ Reset /\ total_size' = 0 /\ max_total_size' = 0
      /\ blocks' = blocks /\ block_sizes' = block_sizes /\ trace' = trace /\ stats' = stats
  BY DEF Valid
<1>2. heap' \in Heap /\ ops' = 0 /\ ops' \in 0 .. MaxOps /\ LiveNow' = {} /\ Replayed'
  BY <1>1, StartReplay
<1>3. block_sizes \in [Ids -> Nat]
  BY <1>1 DEF PassInv, DriverInv, TraceType
<1>4. Counted'
  <2>1. Cardinality(Payloads(blocks', GivenNow', LiveNow')) = 0
    <3>1. Payloads(blocks', GivenNow', LiveNow') = {}
      BY <1>2 DEF Payloads
    <3>2. QED
      BY <3>1, FS_EmptySet
  <2>2. mem_heapsize(heap') \in Int /\ mem_heapsize(heap') >= 0
    <3>1. Unchecked(heap', blocks', GivenNow', LiveNow')
      BY <1>2 DEF Replayed
    <3>2. PICK g, bl, gv, I, U : /\ g = heap' /\ bl = blocks' /\ gv = GivenNow' /\ I = LiveNow'
                                 /\ U = Payloads(bl, gv, I)
      OBVIOUS
    <3>3. g.brk \in Int /\ g.brk >= HeapLo
      BY <3>1, <3>2, PayloadsFit
    <3>4. QED
      BY <3>2, <3>3, Consts DEF mem_heapsize
  <2>3. QED
    BY <1>1, <1>2, <1>3, <2>1, <2>2 DEF Counted
<1>5. PassType' /\ StatsFit'
  BY <1>1, <1>2 DEF PassInv, PassType, StatsFit
<1>6. QED
  BY <1>1, <1>2, <1>4, <1>5 DEF PassInv

\* What the allocator answers to a request of a replay.
IsReplayed(I2, gv2) ==
    /\ Served.h \in Heap
    /\ IsNext(op, LiveNow, GivenNow, I2, gv2)
    /\ ops + 1 \in 0 .. MaxOps /\ ops + 1 <= Len(trace)
    /\ Served.p # NULL =>
         /\ Unchecked(Served.h, [blocks EXCEPT ![op.index] = Served.p], gv2, I2)
         /\ Served.h.brk >= heap.brk

LEMMA ServedIs == ASSUME op \in Op PROVE ServedBy(heap, Served, op, blocks)
<1>1. PICK r, o : r = Served /\ o = op
  OBVIOUS
<1>2. r = CASE o.type = "a" -> mm_malloc(heap, o.size)
            [] o.type = "r" -> mm_realloc(heap, blocks[o.index], o.size)
            [] o.type = "f" -> Result(mm_free(heap, blocks[o.index]), blocks[o.index])
  BY <1>1, Zenon DEF Served
<1>3. ASSUME o.type = "a" PROVE r = mm_malloc(heap, o.size)
  BY <1>2, <1>3
<1>4. ASSUME o.type = "r" PROVE r = mm_realloc(heap, blocks[o.index], o.size)
  BY <1>2, <1>4
<1>5. ASSUME o.type = "f" PROVE r = Result(mm_free(heap, blocks[o.index]), blocks[o.index])
  BY <1>2, <1>5
<1>6. QED
  BY <1>1, <1>3, <1>4, <1>5 DEF ServedBy

LEMMA ReplayIs ==
  ASSUME PassType, Replayed, RoomForLinks, More,
         NEW I2, I2 = LiveAfter(trace, ops + 1), NEW gv2, gv2 = GivenSizes(trace, ops + 1)
  PROVE  IsReplayed(I2, gv2)
<1>1. PICK h, bl, I, gv, t, n : /\ h = heap /\ bl = blocks /\ I = LiveNow /\ gv = GivenNow
                                /\ t = trace /\ n = ops
  OBVIOUS
<1>2. PICK o, r : o = op /\ r = Served
  OBVIOUS
<1>3. /\ bl \in [Ids -> Int] /\ Unchecked(h, bl, gv, I) /\ IsTrace(t) /\ n \in Nat
      /\ n < Len(t) /\ o = t[n + 1] /\ I = LiveAfter(t, n) /\ gv = GivenSizes(t, n)
      /\ I2 = LiveAfter(t, n + 1) /\ gv2 = GivenSizes(t, n + 1)
  BY <1>1, <1>2 DEF PassType, Replayed, More, op, LiveNow, GivenNow
<1>4. IsNext(o, I, gv, I2, gv2)
  BY <1>3, NextRequest
<1>5. ServedBy(h, r, o, bl)
  BY <1>1, <1>2, NextOp, ServedIs
<1>6. PICK bl2 : bl2 = [bl EXCEPT ![o.index] = r.p]
  OBVIOUS
<1>7. Answered(h, r, bl2, gv2, I2)
  BY <1>3, <1>4, <1>5, <1>6, ReplayAnswer
<1>8. ops + 1 \in 0 .. MaxOps /\ ops + 1 <= Len(trace)
  <2>1. Len(t) \in Nat /\ Len(t) <= MaxOps
    BY <1>3 DEF IsTrace
  <2>2. QED
    BY <1>1, <1>3, <2>1, MDriverAssumption
<1>9. QED
  BY <1>1, <1>2, <1>4, <1>6, <1>7, <1>8 DEF Answered, IsReplayed

\* A request of a replay, whichever pass makes it.
LEMMA ReplayInv ==
  ASSUME PassInv, RoomForLinks, pass \in {"util", "speed"}, More, Replay,
         trace' = trace, stats' = stats
  PROVE  /\ PassType' /\ StatsFit'
         /\ pass' # "exit" =>
              /\ pass' = pass /\ Replayed' /\ heap'.brk >= heap.brk
              /\ IsNext(op, LiveNow, GivenNow, LiveNow', GivenNow')
              /\ blocks' = [blocks EXCEPT ![op.index] = Served.p]
<1>1. PassType /\ Replayed /\ StatsFit
  BY DEF PassInv
<1>2. PICK I2, gv2 : I2 = LiveAfter(trace, ops + 1) /\ gv2 = GivenSizes(trace, ops + 1)
  OBVIOUS
<1>3. IsReplayed(I2, gv2)
  BY <1>1, <1>2, ReplayIs
<1>4. heap' \in Heap /\ heap' = Served.h
  BY <1>3 DEF IsReplayed, Replay
<1>5. StatsFit'
  BY <1>1 DEF StatsFit
<1>6. CASE Served.p = NULL
  <2>1. pass' = "exit" /\ ops' = ops /\ blocks' = blocks
    BY <1>6 DEF Replay
  <2>2. QED
    BY <1>1, <1>4, <1>5, <2>1 DEF PassType
<1>7. CASE Served.p # NULL
  <2>1. pass' = pass /\ ops' = ops + 1 /\ blocks' = [blocks EXCEPT ![op.index] = Served.p]
    BY <1>7 DEF Replay
  <2>2. LiveNow' = I2 /\ GivenNow' = gv2
    BY <1>2, <2>1 DEF LiveNow, GivenNow
  <2>3. Unchecked(heap', blocks', GivenNow', LiveNow') /\ heap'.brk >= heap.brk
    BY <1>3, <1>4, <1>7, <2>1, <2>2 DEF IsReplayed
  <2>4. ops' \in 0 .. MaxOps /\ ops' <= Len(trace')
    BY <1>3, <2>1 DEF IsReplayed
  <2>5. blocks' \in [Ids -> Int]
    <3>1. PICK p : p = Served.p
      OBVIOUS
    <3>2. PICK g, bl2, i : g = heap' /\ bl2 = blocks' /\ i = op.index
      OBVIOUS
    <3>3. i \in LiveNow' \/ op.type = "f"
      BY <1>3, <2>2, <3>2 DEF IsReplayed, IsNext
    <3>4. p \in Int
      <4>1. CASE op.type = "f"
        <5>1. ServedBy(heap, Served, op, blocks)
          BY <1>1, NextOp, ServedIs
        <5>2. p = blocks[i]
          BY <3>1, <3>2, <4>1, <5>1 DEF ServedBy, Result
        <5>3. QED
          BY <1>1, <3>2, <5>2, NextOp DEF PassType
      <4>2. CASE i \in LiveNow'
        <5>1. bl2[i] = p /\ i \in Ids
          BY <1>1, <2>1, <3>1, <3>2, NextOp DEF PassType
        <5>2. PICK B, S, A : Shape(g, B, S, A, {}) /\ Laid(S, A, bl2, GivenNow', LiveNow')
          BY <2>3, <3>2 DEF Unchecked
        <5>3. p \in B /\ B \subseteq Word
          BY <4>2, <5>1, <5>2 DEF Shape, Tiles, Laid, At
        <5>4. QED
          BY <5>3, Consts DEF Word
      <4>3. QED
        BY <3>3, <4>1, <4>2
    <3>5. QED
      BY <1>1, <2>1, <3>1, <3>4 DEF PassType
  <2>6. PassType' /\ Replayed'
    BY <1>1, <1>4, <2>3, <2>4, <2>5 DEF PassType, Replayed
  <2>7. QED
    BY <1>3, <1>5, <2>1, <2>2, <2>3, <2>6 DEF IsReplayed
<1>8. QED
  BY <1>6, <1>7

LEMMA SpeedOpInv == ASSUME PassInv, RoomForLinks, SpeedOp PROVE PassInv'
<1>1. pass = "speed" /\ More /\ Replay /\ trace' = trace /\ stats' = stats
  BY DEF SpeedOp
<1>2. PassType' /\ StatsFit' /\ (pass' # "exit" => pass' = pass /\ Replayed')
  BY <1>1, ReplayInv
<1>3. QED
  BY <1>1, <1>2 DEF PassInv

\* What eval_mm_util makes of its counts.
LEMMA MaxTwo ==
  ASSUME NEW a \in Int, NEW b \in Int, NEW m, m = Max({a, b})
  PROVE  m \in {a, b}
<1>1. \E x \in {a, b} : \A y \in {a, b} : x >= y
  <2>1. CASE a >= b
    BY <2>1
  <2>2. CASE b >= a
    BY <2>2
  <2>3. QED
    BY <2>1, <2>2
<1>2. QED
  BY <1>1 DEF Max

LEMMA TotalIs ==
  ASSUME op \in Op
  PROVE  /\ op.type = "a" => Total = total_size + op.size
         /\ op.type = "r" => Total = total_size + op.size - block_sizes[op.index]
         /\ op.type = "f" => Total = total_size - block_sizes[op.index]
<1>1. PICK v, o : v = Total /\ o = op
  OBVIOUS
<1>2. v = CASE o.type = "a" -> total_size + o.size
            [] o.type = "r" -> total_size + o.size - block_sizes[o.index]
            [] o.type = "f" -> total_size - block_sizes[o.index]
  BY <1>1, Zenon DEF Total
<1>3. ASSUME o.type = "a" PROVE v = total_size + o.size
  BY <1>2, <1>3
<1>4. ASSUME o.type = "r" PROVE v = total_size + o.size - block_sizes[o.index]
  BY <1>2, <1>4
<1>5. ASSUME o.type = "f" PROVE v = total_size - block_sizes[o.index]
  BY <1>2, <1>5
<1>6. QED
  BY <1>1, <1>3, <1>4, <1>5

LEMMA UtilOpInv == ASSUME PassInv, RoomForLinks, UtilOp PROVE PassInv'
<1>1. /\ pass = "util" /\ More /\ Replay /\ trace' = trace /\ stats' = stats
  BY DEF UtilOp
<1>2. /\ PassType' /\ StatsFit'
      /\ pass' # "exit" =>
           /\ pass' = pass /\ Replayed' /\ heap'.brk >= heap.brk
           /\ IsNext(op, LiveNow, GivenNow, LiveNow', GivenNow')
           /\ blocks' = [blocks EXCEPT ![op.index] = Served.p]
  BY <1>1, ReplayInv
<1>3. CASE pass' = "exit"
  BY <1>2, <1>3 DEF PassInv
<1>4. CASE pass' # "exit"
  <2>1. PICK o, i, I, I2, gv, gv2 : /\ o = op /\ i = op.index /\ I = LiveNow /\ I2 = LiveNow'
                                    /\ gv = GivenNow /\ gv2 = GivenNow'
    OBVIOUS
  <2>2. PICK h, bl, g, bl2 : h = heap /\ bl = blocks /\ g = heap' /\ bl2 = blocks'
    OBVIOUS
  <2>3. IsNext(o, I, gv, I2, gv2) /\ bl2 = [bl EXCEPT ![i] = Served.p] /\ bl \in [Ids -> Int]
    BY <1>2, <1>4, <2>1, <2>2 DEF PassInv, PassType
  <2>4. Unchecked(h, bl, gv, I) /\ Unchecked(g, bl2, gv2, I2)
    BY <1>1, <1>2, <1>4, <2>1, <2>2 DEF PassInv, Replayed
  <2>5. PICK u, v : u = Cardinality(Payloads(bl, gv, I)) /\ v = Cardinality(Payloads(bl2, gv2, I2))
    OBVIOUS
  <2>6. \A j \in I \ {i} : bl2[j] = bl[j]
    BY <2>3 DEF IsNext
  <2>7. /\ u \in Nat /\ v \in Nat
        /\ o.type = "a" => v = u + o.size
        /\ o.type = "r" => v = u + o.size - gv[i]
        /\ o.type = "f" => v = u - gv[i]
    <3>1. i = o.index
      BY <2>1
    <3>2. Recounts(u, v, o, gv[i])
      BY <2>3, <2>4, <2>5, <2>6, <3>1, PayloadsNext
    <3>3. QED
      BY <3>2 DEF Recounts
  <2>8. Counted /\ total_size = u
    BY <1>1, <2>1, <2>2, <2>5 DEF PassInv, Counted
  <2>9. op \in Op /\ i \in Ids /\ o.size \in Nat
    <3>1. op \in Op /\ op.index \in Ids /\ op.size \in Sizes
      BY <1>1, NextOp DEF PassInv
    <3>2. QED
      BY <2>1, <3>1, MDriverAssumption
  <2>10. o.type # "a" => block_sizes[i] = gv[i]
    BY <2>1, <2>3, <2>8 DEF Counted, IsNext
  <2>11. Total = v
    <3>1. PICK sz : sz = block_sizes
      OBVIOUS
    <3>2. /\ o.type = "a" => Total = u + o.size
          /\ o.type = "r" => Total = u + o.size - sz[i]
          /\ o.type = "f" => Total = u - sz[i]
      BY <2>1, <2>8, <2>9, <3>1, TotalIs
    <3>3. o.type = "a" \/ o.type = "r" \/ o.type = "f"
      BY <2>1, <2>9 DEF Op
    <3>4. o.type # "a" => sz[i] = gv[i]
      BY <2>10, <3>1
    <3>5. QED
      BY <2>7, <3>2, <3>3, <3>4
  <2>12. /\ total_size' = v /\ max_total_size' = Max({max_total_size, v})
         /\ block_sizes' = IF o.type = "f" THEN block_sizes ELSE [block_sizes EXCEPT ![i] = o.size]
    BY <1>4, <2>1, <2>11 DEF UtilOp
  <2>13. \A j \in I2 : block_sizes'[j] = gv2[j]
    <3>1. PICK sz, sz2 : sz = block_sizes /\ sz2 = block_sizes'
      OBVIOUS
    <3>2. sz \in [Ids -> Nat] /\ \A j \in I : sz[j] = gv[j]
      BY <2>1, <2>8, <3>1 DEF Counted
    <3>3. CASE o.type = "f"
      <4>1. sz2 = sz /\ I2 = I \ {i} /\ \A j \in I \ {i} : gv2[j] = gv[j]
        BY <2>1, <2>3, <2>12, <3>1, <3>3 DEF IsNext
      <4>2. QED
        BY <3>1, <3>2, <4>1
    <3>4. CASE o.type # "f"
      <4>1. /\ sz2 = [sz EXCEPT ![i] = o.size] /\ I2 = (I \ {i}) \cup {i} /\ gv2[i] = o.size
            /\ I \subseteq Ids /\ \A j \in I \ {i} : gv2[j] = gv[j]
        BY <2>1, <2>3, <2>12, <3>1, <3>4 DEF IsNext
      <4>2. sz2[i] = gv2[i]
        BY <2>9, <3>2, <4>1
      <4>3. \A j \in I \ {i} : sz2[j] = sz[j]
        BY <3>2, <4>1
      <4>4. QED
        BY <3>1, <3>2, <4>1, <4>2, <4>3
    <3>5. QED
      BY <3>3, <3>4
  <2>14. block_sizes' \in [Ids -> Nat]
    <3>1. block_sizes \in [Ids -> Nat]
      BY <2>8 DEF Counted
    <3>2. QED
      BY <2>9, <2>12, <3>1
  <2>15. max_total_size' \in Nat /\ max_total_size' <= mem_heapsize(heap')
    <3>1. PICK m, m2, b, b2, lo : /\ m = max_total_size /\ m2 = max_total_size' /\ b = h.brk
                                  /\ b2 = g.brk /\ lo = HeapLo
      OBVIOUS
    <3>2. m \in Nat /\ m <= b - lo
      BY <2>2, <2>8, <3>1 DEF Counted, mem_heapsize
    <3>3. b \in Int /\ b2 \in Int /\ v <= b2 - lo /\ lo \in Int
      <4>1. h.brk \in Int /\ g.brk \in Int /\ v <= g.brk - HeapLo
        BY <2>4, <2>5, PayloadsFit
      <4>2. QED
        BY <3>1, <4>1, Consts
    <3>4. b2 >= b
      BY <1>2, <1>4, <2>2, <3>1
    <3>5. m2 = m \/ m2 = v
      <4>1. m \in Int /\ v \in Int /\ m2 = Max({m, v})
        BY <2>7, <2>12, <3>1, <3>2
      <4>2. QED
        BY <4>1, MaxTwo
    <3>6. m2 \in Nat /\ m2 <= b2 - lo
      BY <2>7, <3>2, <3>3, <3>4, <3>5
    <3>7. QED
      BY <2>2, <3>1, <3>6 DEF mem_heapsize
  <2>16. Counted'
    BY <2>1, <2>2, <2>5, <2>12, <2>13, <2>14, <2>15 DEF Counted
  <2>17. QED
    BY <1>1, <1>2, <1>4, <2>16 DEF PassInv
<1>5. QED
  BY <1>3, <1>4

LEMMA UtilDoneInv == ASSUME PassInv, UtilDone PROVE PassInv'
<1>1. /\ pass = "util" /\ pass' = "speed" /\ Reset /\ blocks' = blocks /\ trace' = trace
      /\ stats' = Append(stats, [valid |-> TRUE, used |-> max_total_size, of |-> mem_heapsize(heap)])
  BY DEF UtilDone
<1>2. heap' \in Heap /\ ops' \in 0 .. MaxOps /\ Replayed'
  BY <1>1, StartReplay
<1>3. PICK s, s2, u, v : s = stats /\ s2 = stats' /\ u = max_total_size /\ v = mem_heapsize(heap)
  OBVIOUS
<1>4. s \in Seq([valid : BOOLEAN, used : Int, of : Int]) /\ \A k \in DOMAIN s : s[k].used <= s[k].of
  BY <1>3 DEF PassInv, PassType, StatsFit
<1>5. u \in Int /\ v \in Int /\ u <= v
  <2>1. u \in Nat /\ u <= v
    BY <1>1, <1>3 DEF PassInv, Counted
  <2>2. heap.brk \in Int
    BY DEF PassInv, PassType, Heap
  <2>3. v \in Int
    BY <1>3, <2>2, Consts DEF mem_heapsize
  <2>4. QED
    BY <2>1, <2>3
<1>6. s2 = Append(s, [valid |-> TRUE, used |-> u, of |-> v]) /\ TRUE \in BOOLEAN
  BY <1>1, <1>3
<1>7. s2 \in Seq([valid : BOOLEAN, used : Int, of : Int]) /\ \A k \in DOMAIN s2 : s2[k].used <= s2[k].of
  BY <1>4, <1>5, <1>6, StatsAppend
<1>8. PassType' /\ StatsFit'
  BY <1>1, <1>2, <1>3, <1>7 DEF PassInv, PassType, StatsFit
<1>9. QED
  BY <1>1, <1>2, <1>8 DEF PassInv

LEMMA SpeedDoneInv == ASSUME PassInv, SpeedDone PROVE PassInv'
<1>1. /\ pass = "speed" /\ blocks' = blocks /\ trace' = trace /\ stats' = stats
      /\ \/ pass' = pass /\ Reset
         \/ pass' = "read" /\ heap' = heap /\ ops' = ops
  BY DEF SpeedDone
<1>2. CASE pass' = pass /\ Reset
  <2>1. heap' \in Heap /\ ops' \in 0 .. MaxOps /\ Replayed'
    BY <1>1, <1>2, StartReplay
  <2>2. PassType' /\ StatsFit'
    BY <1>1, <2>1 DEF PassInv, PassType, StatsFit
  <2>3. QED
    BY <1>1, <1>2, <2>1, <2>2 DEF PassInv
<1>3. CASE pass' = "read" /\ heap' = heap /\ ops' = ops
  <2>1. PassType' /\ StatsFit'
    BY <1>1, <1>3 DEF PassInv, PassType, StatsFit
  <2>2. QED
    BY <1>3, <2>1 DEF PassInv
<1>4. QED
  BY <1>1, <1>2, <1>3

LEMMA PassSame == ASSUME PassInv, UNCHANGED <<vars, passVars>> PROVE PassInv'
<1>1. UNCHANGED <<heap, ranges, blocks, block_sizes, ops, verdict, pass, trace, total_size,
                  max_total_size, rounds, stats>>
  BY DEF vars, passVars
<1>2. PassType' /\ StatsFit'
  BY <1>1 DEF PassInv, PassType, StatsFit
<1>3. DriverInv' = DriverInv
  <2>1. Live' = Live
    BY <1>1 DEF Live
  <2>2. QED
    BY <1>1, <2>1 DEF DriverInv, TraceType
<1>4. Replayed' = Replayed /\ Counted' = Counted
  BY <1>1 DEF Replayed, Counted, LiveNow, GivenNow
<1>5. QED
  BY <1>1, <1>2, <1>3, <1>4 DEF PassInv

LEMMA PassStep == ASSUME PassInv, RoomForLinks, [MainNext]_<<vars, passVars>> PROVE PassInv'
<1>1. CASE UNCHANGED <<vars, passVars>>
  BY <1>1, PassSame
<1>2. CASE ReadTrace
  BY <1>2, ReadInv
<1>3. CASE ValidOp
  BY <1>3, ValidOpInv
<1>4. CASE Invalid
  BY <1>4, InvalidInv
<1>5. CASE Valid
  BY <1>5, ValidInv
<1>6. CASE UtilOp
  BY <1>6, UtilOpInv
<1>7. CASE UtilDone
  BY <1>7, UtilDoneInv
<1>8. CASE SpeedOp
  BY <1>8, SpeedOpInv
<1>9. CASE SpeedDone
  BY <1>9, SpeedDoneInv
<1>10. CASE Exited
  BY <1>10, PassSame DEF Exited
<1>11. QED
  BY <1>1, <1>2, <1>3, <1>4, <1>5, <1>6, <1>7, <1>8, <1>9, <1>10 DEF MainNext

\* Through all the passes of all the traces the heap keeps a shape, whatever memory,
\* list heads and parity of cnt a pass finds
\* (main, mdriver.c:286-310).
THEOREM PassInvariant == ASSUME RoomForLinks PROVE MainSpec => []PassInv
<1>1. MainInit => PassInv
  BY PassInit
<1>2. PassInv /\ [MainNext]_<<vars, passVars>> => PassInv'
  BY PassStep
<1>3. QED
  BY <1>1, <1>2, PTL DEF MainSpec

LEMMA ApartOf == ASSUME PassInv PROVE UncheckedApart
<1>1. SUFFICES ASSUME pass \in {"util", "speed"}, NEW i \in LiveAfter(trace, ops)
               PROVE  /\ blocks[i] >= PRELOGUE_BLK + 2 /\ Hi(blocks[i], Given(i)) < heap.brk
                      /\ \A j \in LiveAfter(trace, ops) \ {i} :
                           Disjoint([lo |-> blocks[i], hi |-> Hi(blocks[i], Given(i))],
                                    [lo |-> blocks[j], hi |-> Hi(blocks[j], Given(j))])
  BY DEF UncheckedApart
<1>2. PICK h, bl, gv, I : h = heap /\ bl = blocks /\ gv = GivenNow /\ I = LiveNow
  OBVIOUS
<1>3. PICK B, S, A : Shape(h, B, S, A, {}) /\ Laid(S, A, bl, gv, I)
  BY <1>1, <1>2 DEF PassInv, Replayed, Unchecked
<1>4. I = LiveAfter(trace, ops) /\ I \subseteq Ids
  BY <1>2 DEF LiveNow, LiveAfter
<1>5. \A j \in I : Given(j) = gv[j]
  BY <1>2, <1>4 DEF Given, GivenNow, GivenSizes, GivenBy, Gives
<1>6. ASSUME NEW j \in I
      PROVE  /\ bl[j] \in Int /\ gv[j] \in Nat /\ gv[j] > 0 /\ FirstBlock <= bl[j]
             /\ h.brk \in Int /\ bl[j] + gv[j] < h.brk
             /\ \A k \in I \ {j} : bl[j] + gv[j] < bl[k] \/ bl[k] + gv[k] < bl[j]
  BY <1>3, LaidApart
<1>7. blocks[i] >= PRELOGUE_BLK + 2 /\ Hi(blocks[i], Given(i)) < heap.brk
  <2>1. PICK p, n, f, b : p = bl[i] /\ n = gv[i] /\ f = FirstBlock /\ b = h.brk
    OBVIOUS
  <2>2. p \in Int /\ n \in Nat /\ f <= p /\ b \in Int /\ p + n < b
    BY <1>1, <1>4, <1>6, <2>1
  <2>3. f \in Int /\ f = PRELOGUE_BLK + 2
    BY <2>1, Consts DEF FirstBlock, PRELOGUE_BLK
  <2>4. p >= f /\ p + n - 1 < b
    BY <2>2, <2>3
  <2>5. QED
    BY <1>1, <1>2, <1>4, <1>5, <2>1, <2>3, <2>4 DEF Hi
<1>8. ASSUME NEW j \in I \ {i}
      PROVE  Disjoint([lo |-> blocks[i], hi |-> Hi(blocks[i], Given(i))],
                      [lo |-> blocks[j], hi |-> Hi(blocks[j], Given(j))])
  <2>1. PICK p, n, q, m : p = bl[i] /\ n = gv[i] /\ q = bl[j] /\ m = gv[j]
    OBVIOUS
  <2>2. p \in Int /\ n \in Nat /\ q \in Int /\ m \in Nat /\ (p + n < q \/ q + m < p)
    BY <1>1, <1>4, <1>6, <2>1
  <2>3. p + n - 1 < q \/ q + m - 1 < p
    BY <2>2
  <2>4. p = blocks[i] /\ n = Given(i) /\ q = blocks[j] /\ m = Given(j)
    BY <1>1, <1>2, <1>4, <1>5, <2>1
  <2>5. Disjoint([lo |-> p, hi |-> Hi(p, n)], [lo |-> q, hi |-> Hi(q, m)])
    BY <2>3 DEF Disjoint, Hi
  <2>6. QED
    BY <2>4, <2>5
<1>9. QED
  BY <1>4, <1>7, <1>8

\* In the passes that check nothing, eval_mm_util and eval_mm_speed, the live payloads
\* stay in the heap and apart from each other.
THEOREM ReplaysStayApart == ASSUME RoomForLinks PROVE MainSpec => []UncheckedApart
<1>1. PassInv => UncheckedApart
  BY ApartOf
<1>2. QED
  BY <1>1, PassInvariant, PTL

\* What eval_mm_util counts as used is never more than the heap it has taken.
THEOREM UtilisationAtMostOne == ASSUME RoomForLinks PROVE MainSpec => []UtilAtMostOne
<1>1. PassInv => UtilAtMostOne
  BY DEF PassInv, Counted, StatsFit, UtilAtMostOne
<1>2. QED
  BY <1>1, PassInvariant, PTL
=============================================================================

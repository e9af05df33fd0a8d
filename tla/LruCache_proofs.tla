--------------------------- MODULE LruCache_proofs ---------------------------
(***************************************************************************)
(* The cache that the proxy implements holds every key once                *)
(* (proxy_lab/cache.c), whatever is looked up, offered and evicted.        *)
(***************************************************************************)
EXTENDS LruCache, SequenceTheorems, TLAPS

\* No two places of a sequence hold the same.
NoRepeat(s) == \A i, j \in DOMAIN s : s[i] = s[j] => i = j

LruTypeOK == /\ queue \in Seq(Entry) /\ held \subseteq Entry
             /\ incoming \in Entry \cup {None}

LruInv == LruTypeOK /\ KnownOnce
-----------------------------------------------------------------------------
(* Sequences without repetition                                            *)

\* What RemoveAt returns.
LEMMA RemoveAtElements ==
    ASSUME NEW S, NEW s \in Seq(S), NEW i \in DOMAIN s
    PROVE  /\ RemoveAt(s, i) \in Seq(S)
           /\ Len(RemoveAt(s, i)) = Len(s) - 1
           /\ \A k \in 1 .. Len(s) - 1 :
                 RemoveAt(s, i)[k] = IF k < i THEN s[k] ELSE s[k + 1]
<1>1. i \in 1 .. Len(s) /\ Len(s) \in Nat
  OBVIOUS
<1>2. RemoveAt(s, i) = SubSeq(s, 1, i - 1) \o SubSeq(s, i + 1, Len(s))
  BY DEF RemoveAt
<1>3. /\ SubSeq(s, 1, i - 1) \in Seq(S) /\ Len(SubSeq(s, 1, i - 1)) = i - 1
      /\ \A k \in 1 .. i - 1 : SubSeq(s, 1, i - 1)[k] = s[k]
  BY <1>1
<1>4. /\ SubSeq(s, i + 1, Len(s)) \in Seq(S) /\ Len(SubSeq(s, i + 1, Len(s))) = Len(s) - i
      /\ \A k \in 1 .. Len(s) - i : SubSeq(s, i + 1, Len(s))[k] = s[k + i]
  BY <1>1
<1> DEFINE a == SubSeq(s, 1, i - 1)
           b == SubSeq(s, i + 1, Len(s))
<1> HIDE DEF a, b
<1>5. /\ a \in Seq(S) /\ Len(a) = i - 1 /\ b \in Seq(S) /\ Len(b) = Len(s) - i
      /\ RemoveAt(s, i) = a \o b
  BY <1>2, <1>3, <1>4 DEF a, b
<1>6. /\ a \o b \in Seq(S) /\ Len(a \o b) = Len(a) + Len(b)
      /\ \A k \in 1 .. Len(a) + Len(b) :
            (a \o b)[k] = IF k <= Len(a) THEN a[k] ELSE b[k - Len(a)]
  BY <1>5, ConcatProperties
<1> DEFINE c == a \o b
<1> HIDE DEF c
<1>7. /\ c \in Seq(S) /\ Len(c) = Len(s) - 1
      /\ \A k \in 1 .. Len(s) - 1 : c[k] = IF k <= i - 1 THEN a[k] ELSE b[k - (i - 1)]
  <2>1. Len(a) + Len(b) = Len(s) - 1 /\ Len(a) = i - 1
    BY <1>1, <1>5
  <2> QED BY <1>6, <2>1 DEF c
<1>8. ASSUME NEW k \in 1 .. Len(s) - 1
      PROVE  c[k] = IF k < i THEN s[k] ELSE s[k + 1]
  <2>1. CASE k < i
    <3>1. k \in 1 .. i - 1 /\ k <= i - 1 BY <1>1, <2>1
    <3>2. a[k] = s[k] BY <1>3, <3>1 DEF a
    <3> QED BY <1>7, <2>1, <3>1, <3>2
  <2>2. CASE ~ (k < i)
    <3>1. k - (i - 1) \in 1 .. Len(s) - i /\ ~ (k <= i - 1) BY <1>1, <2>2
    <3>2. b[k - (i - 1)] = s[k - (i - 1) + i] BY <1>4, <3>1 DEF b
    <3>3. k - (i - 1) + i = k + 1 BY <1>1
    <3>4. b[k - (i - 1)] = s[k + 1] BY <3>2, <3>3
    <3> QED BY <1>7, <2>2, <3>1, <3>4
  <2> QED BY <2>1, <2>2
<1> QED BY <1>5, <1>7, <1>8 DEF c

\* An element that is taken out is gone, and the others stay.
LEMMA TakenOut ==
    ASSUME NEW S, NEW s \in Seq(S), NoRepeat(s), NEW i \in DOMAIN s
    PROVE  /\ ToSet(RemoveAt(s, i)) = ToSet(s) \ {s[i]}
           /\ NoRepeat(RemoveAt(s, i))
<1> DEFINE r == RemoveAt(s, i)
<1>1. /\ r \in Seq(S) /\ Len(r) = Len(s) - 1
      /\ \A k \in 1 .. Len(s) - 1 : r[k] = IF k < i THEN s[k] ELSE s[k + 1]
  BY RemoveAtElements
<1>2. i \in 1 .. Len(s) /\ Len(s) \in Nat /\ DOMAIN s = 1 .. Len(s)
  OBVIOUS
<1> HIDE DEF r
<1>3. DOMAIN r = 1 .. Len(s) - 1
  BY <1>1, <1>2
<1>4. \A k \in DOMAIN r : \E m \in DOMAIN s : m # i /\ r[k] = s[m] /\ m = IF k < i THEN k ELSE k + 1
  BY <1>1, <1>2, <1>3
<1>5. \A m \in DOMAIN s : m # i => \E k \in DOMAIN r : r[k] = s[m]
  <2> SUFFICES ASSUME NEW m \in DOMAIN s, m # i PROVE \E k \in DOMAIN r : r[k] = s[m]
    OBVIOUS
  <2>1. CASE m < i
    <3>1. m \in DOMAIN r /\ r[m] = s[m] BY <1>1, <1>2, <1>3, <2>1
    <3> QED BY <3>1
  <2>2. CASE m > i
    <3>1. m - 1 \in DOMAIN r /\ r[m - 1] = s[m] BY <1>1, <1>2, <1>3, <2>2
    <3> QED BY <3>1
  <2> QED BY <1>2, <2>1, <2>2
<1>6. ToSet(r) = ToSet(s) \ {s[i]}
  BY <1>4, <1>5 DEF ToSet, NoRepeat
<1>7. NoRepeat(r)
  <2> SUFFICES ASSUME NEW k \in DOMAIN r, NEW l \in DOMAIN r, r[k] = r[l] PROVE k = l
    BY DEF NoRepeat
  <2>1. (IF k < i THEN k ELSE k + 1) = (IF l < i THEN l ELSE l + 1)
    BY <1>4 DEF NoRepeat
  <2> QED BY <2>1, <1>2, <1>3
<1> QED BY <1>6, <1>7 DEF r
-----------------------------------------------------------------------------
(* The queue                                                               *)

\* A hit takes its entry out of the queue and holds it (cache.c:83-98).
LEMMA TakeKeeps ==
    ASSUME None \notin Entry, LruInv, Take
    PROVE  LruInv'
<1> USE DEF LruInv, LruTypeOK
<1>1. PICK i \in DOMAIN queue : queue' = RemoveAt(queue, i) /\ held' = held \cup {queue[i]}
  BY DEF Take
<1>2. incoming' = incoming
  BY DEF Take
<1>3. NoRepeat(queue)
  BY DEF KnownOnce, NoRepeat
<1>4. ToSet(queue') = ToSet(queue) \ {queue[i]} /\ NoRepeat(queue')
  BY <1>1, <1>3, TakenOut
<1>5. queue[i] \in ToSet(queue) /\ queue[i] \in Entry
  BY DEF ToSet
<1>6. queue' \in Seq(Entry)
  BY <1>1, RemoveAtElements
<1>7. Known' = Known
  BY <1>1, <1>2, <1>4, <1>5 DEF Known
<1>8. \A e, f \in Known' : e.key = f.key => e = f
  BY <1>7 DEF KnownOnce
<1>9. incoming' \notin ToSet(queue') \cup held' /\ ToSet(queue') \cap held' = {}
  BY <1>1, <1>2, <1>4, <1>5 DEF KnownOnce
<1> QED BY <1>1, <1>2, <1>4, <1>5, <1>6, <1>8, <1>9 DEF KnownOnce, NoRepeat

\* What is offered has been held, or its key is new (cache.c:15, proxy.c:106).
LEMMA OfferKeeps ==
    ASSUME None \notin Entry, LruInv, Offer
    PROVE  LruInv'
<1> USE DEF LruInv, LruTypeOK
<1>1. PICK e \in held \cup Fresh : incoming' = e /\ held' = held \ {e}
  BY DEF Offer
<1>2. incoming = None /\ queue' = queue
  BY DEF Offer
<1>3. e \in Entry /\ e # None
  BY <1>1 DEF Fresh
<1>4. Known = ToSet(queue) \cup held
  BY <1>2 DEF Known
<1>5. Known' = Known \cup {e}
  BY <1>1, <1>2, <1>3, <1>4 DEF Known
<1>6. e \notin held => \A k \in Known : k.key # e.key
  BY DEF Fresh
<1>7. \A k \in Known : k.key = e.key => k = e
  BY <1>4, <1>6 DEF KnownOnce
<1>8. \A f, g \in Known' : f.key = g.key => f = g
  BY <1>5, <1>7 DEF KnownOnce
<1>9. e \notin ToSet(queue)
  BY <1>4, <1>6 DEF KnownOnce
<1>10. incoming' \notin ToSet(queue') \cup held' /\ ToSet(queue') \cap held' = {}
  BY <1>1, <1>2, <1>9 DEF KnownOnce
<1>11. \A i, j \in DOMAIN queue' : queue'[i] = queue'[j] => i = j
  BY <1>2 DEF KnownOnce
<1> QED BY <1>1, <1>2, <1>3, <1>8, <1>10, <1>11 DEF KnownOnce

\* The entry at the front is dropped (cache.c:41-52).
LEMMA EvictKeeps ==
    ASSUME LruInv, EvictOldest
    PROVE  LruInv'
<1> USE DEF LruInv, LruTypeOK
<1>1. queue # <<>> /\ queue' = Tail(queue) /\ held' = held /\ incoming' = incoming
  BY DEF EvictOldest
<1>2. /\ queue' \in Seq(Entry) /\ Len(queue') = Len(queue) - 1 /\ Len(queue) \in Nat \ {0}
      /\ \A k \in DOMAIN queue' : k + 1 \in DOMAIN queue /\ queue'[k] = queue[k + 1]
  BY <1>1
<1>3. ToSet(queue') \subseteq ToSet(queue)
  BY <1>2 DEF ToSet
<1>4. Known' \subseteq Known
  BY <1>1, <1>3 DEF Known
<1>5. \A i, j \in DOMAIN queue' : queue'[i] = queue'[j] => i = j
  <2> SUFFICES ASSUME NEW i \in DOMAIN queue', NEW j \in DOMAIN queue', queue'[i] = queue'[j]
               PROVE  i = j
    OBVIOUS
  <2>1. i + 1 = j + 1
    BY <1>2 DEF KnownOnce
  <2>2. i \in Int /\ j \in Int
    BY <1>2
  <2> QED BY <2>1, <2>2
<1>6. \A e, f \in Known' : e.key = f.key => e = f
  BY <1>4 DEF KnownOnce
<1>7. incoming' \notin ToSet(queue') \cup held' /\ ToSet(queue') \cap held' = {}
  BY <1>1, <1>3 DEF KnownOnce
<1> QED BY <1>1, <1>2, <1>5, <1>6, <1>7 DEF KnownOnce

\* The incoming entry is linked at the back (cache.c:25-37).
LEMMA AdmitKeeps ==
    ASSUME None \notin Entry, LruInv, Admit
    PROVE  LruInv'
<1> USE DEF LruInv, LruTypeOK
<1>1. incoming # None /\ queue' = Append(queue, incoming) /\ incoming' = None /\ held' = held
  BY DEF Admit
<1>2. incoming \in Entry
  BY <1>1
<1>3. /\ queue' \in Seq(Entry) /\ Len(queue') = Len(queue) + 1 /\ Len(queue) \in Nat
      /\ \A k \in DOMAIN queue : queue'[k] = queue[k]
      /\ queue'[Len(queue) + 1] = incoming
  BY <1>1, <1>2
<1>4. DOMAIN queue' = DOMAIN queue \cup {Len(queue) + 1}
  BY <1>3
<1>5. ToSet(queue') = ToSet(queue) \cup {incoming}
  BY <1>3, <1>4 DEF ToSet
<1>6. Known' = Known
  BY <1>1, <1>5 DEF Known
<1>7. incoming \notin ToSet(queue)
  BY DEF KnownOnce
<1>8. \A i, j \in DOMAIN queue' : queue'[i] = queue'[j] => i = j
  BY <1>3, <1>4, <1>7 DEF KnownOnce, ToSet
<1>9. \A e, f \in Known' : e.key = f.key => e = f
  BY <1>6 DEF KnownOnce
<1>10. ToSet(queue') \subseteq Entry
  BY <1>3 DEF ToSet
<1>11. incoming' \notin ToSet(queue') \cup held' /\ ToSet(queue') \cap held' = {}
  BY <1>1, <1>5, <1>10 DEF KnownOnce
<1> QED BY <1>1, <1>3, <1>8, <1>9, <1>11 DEF KnownOnce

\* The cache that the code implements never holds a key twice, queued, taken out by
\* a hit or about to be linked (proxy.c:74-79, cache.c:15-38): what two threads
\* that miss the same key would break.
THEOREM KeysKnownOnce ==
    ASSUME None \notin Entry
    PROVE  LruSpec => []KnownOnce
<1>1. LruInit => LruInv
  <2> SUFFICES ASSUME LruInit PROVE LruInv
    OBVIOUS
  <2>1. queue = <<>> /\ held = {} /\ incoming = None
    BY DEF LruInit
  <2>2. Known = {} /\ ToSet(queue) = {}
    BY <2>1 DEF Known, ToSet
  <2> QED BY <2>1, <2>2 DEF LruInv, LruTypeOK, KnownOnce
<1>2. LruInv /\ [LruNext]_lruVars => LruInv'
  <2> SUFFICES ASSUME LruInv, [LruNext]_lruVars PROVE LruInv'
    OBVIOUS
  <2>1. CASE UNCHANGED lruVars
    BY <2>1 DEF lruVars, LruInv, LruTypeOK, KnownOnce, Known
  <2> QED BY <2>1, TakeKeeps, OfferKeeps, EvictKeeps, AdmitKeeps DEF LruNext
<1>3. LruInv => KnownOnce
  BY DEF LruInv
<1> QED BY <1>1, <1>2, <1>3, PTL DEF LruSpec
=============================================================================

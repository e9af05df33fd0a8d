------------------------------ MODULE LruCache ------------------------------
(***************************************************************************)
(* What the cache of the proxy promises, without pointers, locks or        *)
(* threads: a sequence of entries, least recently used first, that fits in *)
(* Capacity.  A hit takes an entry out and holds it until it is offered    *)
(* again; an offered entry, held or new, is accepted at the back once the  *)
(* entries at the front that have to go have gone.                         *)
(***************************************************************************)
EXTENDS Integers, Sequences, SequencesExt, FiniteSetsExt

CONSTANTS Id, Key, Capacity,
          None  \* not an entry

Entry == [id : Id, key : Key, size : 0 .. Capacity]

VARIABLES queue,    \* the entries a lookup can find
          held,     \* entries taken out by a hit
          incoming  \* the entry space is being made for

lruVars == <<queue, held, incoming>>

Total == MapThenSumSet(LAMBDA i : queue[i].size, DOMAIN queue)
Known == ToSet(queue) \cup held \cup ({incoming} \ {None})

Fits == Total + incoming.size <= Capacity

LruInit == queue = <<>> /\ held = {} /\ incoming = None

Take == /\ \E i \in DOMAIN queue : /\ queue' = RemoveAt(queue, i)
                                   /\ held' = held \cup {queue[i]}
        /\ UNCHANGED incoming

\* A miss offers an entry with a key and an address that no entry has.
Fresh == {e \in Entry : \A k \in Known : k.id # e.id /\ k.key # e.key}

Offer == /\ incoming = None
         /\ \E e \in held \cup Fresh : incoming' = e /\ held' = held \ {e}
         /\ UNCHANGED queue

\* Only the oldest entry goes, and only while the incoming one does not fit.
EvictOldest == /\ incoming # None /\ queue # <<>> /\ ~Fits
               /\ queue' = Tail(queue)
               /\ UNCHANGED <<held, incoming>>

Admit == /\ incoming # None /\ Fits
         /\ queue' = Append(queue, incoming)
         /\ incoming' = None
         /\ UNCHANGED held

LruNext == Take \/ Offer \/ EvictOldest \/ Admit

LruSpec == LruInit /\ [][LruNext]_lruVars
-----------------------------------------------------------------------------
\* A key is cached once, queued, held or incoming.
KnownOnce ==
    /\ \A e, f \in Known : e.key = f.key => e = f
    /\ \A i, j \in DOMAIN queue : queue[i] = queue[j] => i = j
    /\ incoming \notin ToSet(queue) \cup held /\ ToSet(queue) \cap held = {}
=============================================================================

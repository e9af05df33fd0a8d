----------------------------- MODULE ProxyCache -----------------------------
(***************************************************************************)
(* The shared web cache of the caching proxy (proxy_lab/cache.c) and the   *)
(* detached threads that use it (do_proxy in proxy_lab/proxy.c).           *)
(*                                                                         *)
(* The cache is a doubly linked list of heap objects, oldest first,        *)
(* guarded by the first readers-writers protocol: two binary semaphores    *)
(* and a reader count.  A thread looks a URI up as a reader.  On a hit it  *)
(* sends the object to its client and then moves the object to the tail;   *)
(* on a miss it fetches the object and links it at the tail, evicting from *)
(* the head until it fits.                                                 *)
(*                                                                         *)
(* A step is the code between two semaphore operations, or the semaphore   *)
(* operation itself together with the code under reader_mutex, except that *)
(* every eviction is a step.  Following a pointer that is NULL or freed is *)
(* undefined behaviour: the model stops with proxy = "fault".              *)
(***************************************************************************)
EXTENDS Integers, Sequences, FiniteSets, FiniteSetsExt

CONSTANTS Worker,        \* the threads that may be alive at the same time
          Obj,           \* the addresses Malloc can give to a cache_t
          Uri,           \* request URIs, the keys of the cache
          NULL,
          MaxCacheSize,  \* MAX_CACHE_SIZE
          MaxObjectSize, \* MAX_OBJECT_SIZE
          RespSizes,     \* sizes of the responses of origin servers
          Requests,      \* <<t, u>> : thread t may be asked for u
          ReallocMoves,  \* realloc may move a block that it shrinks
          MaxConn        \* bound: connections accepted in a behaviour

ASSUME WorkerAssumption == IsFiniteSet(Worker)
ASSUME ObjAssumption == IsFiniteSet(Obj) /\ NULL \notin Obj /\ NULL \notin Uri
ASSUME SizeAssumption == /\ MaxCacheSize \in Nat
                         /\ MaxObjectSize \in Nat
                         /\ MaxObjectSize <= MaxCacheSize
                         /\ RespSizes \subseteq Nat
ASSUME RequestAssumption == Requests \subseteq Worker \X Uri /\ MaxConn \in Nat
ASSUME ReallocAssumption == ReallocMoves \in BOOLEAN

VARIABLES head, tail, total_size,                   \* cache_queue_t
          reader_cnt, reader_mutex, writer_mutex,
          next, prev, size, key, valid,             \* cache_t, per address
          live,                                     \* addresses in use
          dangling,                                 \* those whose value is freed
          pc, uri, cache,                           \* do_proxy's locals
          accepted,                                 \* connections so far
          proxy                                     \* state of the process

listVars  == <<head, tail, total_size, next, prev>>
lockVars  == <<reader_cnt, reader_mutex, writer_mutex>>
entryVars == <<size, key, valid, live, dangling>>
vars == <<listVars, lockVars, entryVars, pc, uri, cache, accepted, proxy>>

Labels == {"idle",
           "find_P", "find_first", "find_V", "search", \* find_cache_by_key
           "done_P", "done_last", "done_V",
           "write", "move_P", "move", "reput_P",       \* a hit
           "fetch", "put_P",                           \* a miss
           "put", "evict", "close"}

TypeOK == /\ head \in Obj \cup {NULL} /\ tail \in Obj \cup {NULL}
          /\ total_size \in Int
          /\ reader_cnt \in Int
          /\ reader_mutex \in Nat /\ writer_mutex \in Nat
          /\ next \in [Obj -> Obj \cup {NULL}]
          /\ prev \in [Obj -> Obj \cup {NULL}]
          /\ size \in [Obj -> 0 .. MaxObjectSize]
          /\ key \in [Obj -> Uri \cup {NULL}]
          /\ valid \in [Obj -> BOOLEAN]
          /\ live \subseteq Obj /\ dangling \subseteq Obj
          /\ pc \in [Worker -> Labels]
          /\ uri \in [Worker -> Uri \cup {NULL}]
          /\ cache \in [Worker -> Obj \cup {NULL}]
          /\ accepted \in Nat
          /\ proxy \in {"running", "exited", "fault"}

Init == /\ head = NULL /\ tail = NULL /\ total_size = 0
        /\ reader_cnt = 0 /\ reader_mutex = 1 /\ writer_mutex = 1
        /\ next = [o \in Obj |-> NULL] /\ prev = [o \in Obj |-> NULL]
        /\ size = [o \in Obj |-> 0] /\ key = [o \in Obj |-> NULL]
        /\ valid = [o \in Obj |-> FALSE]
        /\ live = {} /\ dangling = {}
        /\ pc = [t \in Worker |-> "idle"]
        /\ uri = [t \in Worker |-> NULL] /\ cache = [t \in Worker |-> NULL]
        /\ accepted = 0 /\ proxy = "running"
-----------------------------------------------------------------------------
(***************************************************************************)
(* The list as a reader sees it: nth[i] is the value of cursor after i     *)
(* times cursor = cursor->next.  Cardinality(Obj) steps are enough to meet *)
(* NULL or to come back to an address already seen.                        *)
(***************************************************************************)
Steps == 0 .. Cardinality(Obj)

nth[i \in Steps] ==
    IF i = 0 THEN head
    ELSE IF nth[i - 1] = NULL THEN NULL ELSE next[nth[i - 1]]

\* Where the search for u ends: at NULL, at a match, or on freed memory.
Stops(u) == {i \in Steps : \/ nth[i] \notin live
                           \/ key[nth[i]] = u}
StopOf(u) == nth[Min(Stops(u))]

\* Seeded bug: a cache that is exactly full is too full.
TooBigAtLimit(t) == total_size + size[cache[t]] >= MaxCacheSize

\* The condition of put_cache's loop.
TooBig(t) == total_size + size[cache[t]] > MaxCacheSize

\* The cache_t that the next step of t dereferences.
Derefs(t) ==
    CASE pc[t] = "search" -> IF Stops(uri[t]) = {} THEN {}
                             ELSE {StopOf(uri[t])} \ {NULL}
      [] pc[t] = "write"  -> {cache[t]}
      [] pc[t] = "move"   ->
            {cache[t]} \cup
            (IF head = tail THEN {}
             ELSE IF head = cache[t] THEN {next[head]}
             ELSE IF tail = cache[t] THEN {prev[tail]}
             ELSE {prev[cache[t]], next[cache[t]]})
      [] pc[t] = "put" -> {cache[t]}
      [] pc[t] = "evict" ->
            {cache[t]} \cup
            (IF ~TooBig(t)
             THEN (IF head = NULL /\ tail = NULL THEN {} ELSE {tail})
             ELSE IF head = NULL THEN {}
             ELSE IF head = tail THEN {head}
             ELSE {head, next[head]})
      [] OTHER -> {}

\* The objects whose value the next step of t reads, or frees.
ValuesUsed(t) == IF pc[t] = "write" THEN {cache[t]}
                 ELSE IF pc[t] = "evict" /\ TooBig(t) THEN {head} \ {NULL}
                 ELSE {}

Safe(t) == Derefs(t) \subseteq live /\ ValuesUsed(t) \cap dangling = {}

Goto(t, label) == pc' = [pc EXCEPT ![t] = label]

At(t, label) == proxy = "running" /\ pc[t] = label
-----------------------------------------------------------------------------
(* find_cache_by_key                                                       *)

\* main accepts a connection and starts a thread, which parses its request.
Accept(t) ==
    /\ proxy = "running" /\ pc[t] = "idle"
    /\ accepted < MaxConn
    /\ \E u \in {v \in Uri : <<t, v>> \in Requests} : uri' = [uri EXCEPT ![t] = u]
    /\ accepted' = accepted + 1
    /\ cache' = [cache EXCEPT ![t] = NULL]
    /\ Goto(t, "find_P")
    /\ UNCHANGED <<listVars, lockVars, entryVars, proxy>>

\* P(reader_mutex); reader_cnt++; the first reader goes on to lock out writers.
ReaderEnter(t) ==
    /\ At(t, "find_P") /\ reader_mutex > 0
    /\ reader_mutex' = reader_mutex - 1
    /\ reader_cnt' = reader_cnt + 1
    /\ Goto(t, IF reader_cnt' = 1 THEN "find_first" ELSE "find_V")
    /\ UNCHANGED <<listVars, entryVars, writer_mutex, uri, cache, accepted, proxy>>

\* P(writer_mutex), with reader_mutex held.
FirstReader(t) ==
    /\ At(t, "find_first") /\ writer_mutex > 0
    /\ writer_mutex' = writer_mutex - 1
    /\ Goto(t, "find_V")
    /\ UNCHANGED <<listVars, entryVars, reader_cnt, reader_mutex,
                   uri, cache, accepted, proxy>>

ReaderEntered(t) ==
    /\ At(t, "find_V")
    /\ reader_mutex' = reader_mutex + 1
    /\ Goto(t, "search")
    /\ UNCHANGED <<listVars, entryVars, reader_cnt, writer_mutex,
                   uri, cache, accepted, proxy>>

\* The whole traversal: no writer can run between its steps (LockInv).
Search(t) ==
    /\ At(t, "search") /\ Stops(uri[t]) # {} /\ Safe(t)
    /\ cache' = [cache EXCEPT ![t] = StopOf(uri[t])]
    /\ Goto(t, "done_P")
    /\ UNCHANGED <<listVars, lockVars, entryVars, uri, accepted, proxy>>

\* A list with a cycle and without the key is traversed for ever.
SearchSpins(t) ==
    /\ At(t, "search") /\ Stops(uri[t]) = {}
    /\ UNCHANGED vars

\* Seeded bug: every reader that leaves lets the writers in.
ReaderLeaveLetsIn(t) ==
    /\ At(t, "done_P") /\ reader_mutex > 0
    /\ reader_mutex' = reader_mutex - 1
    /\ reader_cnt' = reader_cnt - 1
    /\ Goto(t, "done_last")
    /\ UNCHANGED <<listVars, entryVars, writer_mutex, uri, cache, accepted, proxy>>

ReaderLeave(t) ==
    /\ At(t, "done_P") /\ reader_mutex > 0
    /\ reader_mutex' = reader_mutex - 1
    /\ reader_cnt' = reader_cnt - 1
    /\ Goto(t, IF reader_cnt' = 0 THEN "done_last" ELSE "done_V")
    /\ UNCHANGED <<listVars, entryVars, writer_mutex, uri, cache, accepted, proxy>>

\* Seeded bug: the last reader does not let the writers in.
LastReaderKeeps(t) ==
    /\ At(t, "done_last")
    /\ Goto(t, "done_V")
    /\ UNCHANGED <<listVars, lockVars, entryVars, uri, cache, accepted, proxy>>

LastReader(t) ==
    /\ At(t, "done_last")
    /\ writer_mutex' = writer_mutex + 1
    /\ Goto(t, "done_V")
    /\ UNCHANGED <<listVars, entryVars, reader_cnt, reader_mutex,
                   uri, cache, accepted, proxy>>

\* V(reader_mutex) and return: do_proxy branches on the result.
ReaderLeft(t) ==
    /\ At(t, "done_V")
    /\ reader_mutex' = reader_mutex + 1
    /\ Goto(t, IF cache[t] = NULL THEN "fetch" ELSE "write")
    /\ UNCHANGED <<listVars, entryVars, reader_cnt, writer_mutex,
                   uri, cache, accepted, proxy>>
-----------------------------------------------------------------------------
(* a hit: send the object, then move_to_queue_back                         *)

\* Rio_writen(clientfd, cache->value, cache->size), no lock held.
WriteHit(t) ==
    /\ At(t, "write") /\ Safe(t)
    /\ Goto(t, "move_P")
    /\ UNCHANGED <<listVars, lockVars, entryVars, uri, cache, accepted, proxy>>

\* P(writer_mutex), in move_to_queue_back and in the two calls of put_cache.
WriterLock(t) ==
    /\ \/ At(t, "move_P") /\ Goto(t, "move")
       \/ At(t, "reput_P") /\ Goto(t, "put")
       \/ At(t, "put_P") /\ Goto(t, "put")
    /\ writer_mutex > 0
    /\ writer_mutex' = writer_mutex - 1
    /\ UNCHANGED <<listVars, entryVars, reader_cnt, reader_mutex,
                   uri, cache, accepted, proxy>>

\* Seeded bug: unlinking the head drops the whole list.
UnlinkDropsAll(c) ==
    \/ /\ head = tail \/ head = c
       /\ head' = NULL /\ tail' = NULL
       /\ UNCHANGED <<next, prev>>
    \/ /\ head # c /\ tail = c
       /\ tail' = prev[c]
       /\ next' = [next EXCEPT ![prev[c]] = NULL]
       /\ UNCHANGED <<head, prev>>
    \/ /\ head # tail /\ head # c /\ tail # c
       /\ next' = [next EXCEPT ![prev[c]] = next[c]]
       /\ prev' = [prev EXCEPT ![next[c]] = prev[c]]
       /\ UNCHANGED <<head, tail>>

\* The four branches that unlink c; the first one drops the whole list.
Unlink(c) ==
    \/ /\ head = tail
       /\ head' = NULL /\ tail' = NULL
       /\ UNCHANGED <<next, prev>>
    \/ /\ head # tail /\ head = c
       /\ head' = next[head]
       /\ prev' = [prev EXCEPT ![next[head]] = NULL]
       /\ UNCHANGED <<tail, next>>
    \/ /\ head # tail /\ head # c /\ tail = c
       /\ tail' = prev[c]
       /\ next' = [next EXCEPT ![prev[c]] = NULL]
       /\ UNCHANGED <<head, prev>>
    \/ /\ head # tail /\ head # c /\ tail # c
       /\ next' = [next EXCEPT ![prev[c]] = next[c]]
       /\ prev' = [prev EXCEPT ![next[c]] = prev[c]]
       /\ UNCHANGED <<head, tail>>

\* The critical section of move_to_queue_back: c is in no list when it ends.
MoveOut(t) ==
    /\ At(t, "move") /\ Safe(t)
    /\ Unlink(cache[t])
    /\ total_size' = total_size - size[cache[t]]
    /\ writer_mutex' = writer_mutex + 1
    /\ Goto(t, "reput_P")
    /\ UNCHANGED <<entryVars, reader_cnt, reader_mutex, uri, cache, accepted, proxy>>
-----------------------------------------------------------------------------
(* a miss: fetch the object, then put_cache                                *)

\* What cache_copy has stored of a response of s bytes when it is over.
Copied(s) == IF s <= MaxObjectSize THEN s ELSE MaxObjectSize

\* The origin server's response, of s bytes, is relayed to the client and
\* copied to a new cache_t as long as it fits.  One that does not fit is
\* neither cached nor freed.  For one that fits realloc_cache gives back the
\* unused space, and drops what Realloc returns: if the block was moved, value
\* keeps the address of the old one, which is free.
Fetch(t) ==
    /\ At(t, "fetch")
    /\ \E o \in Obj \ live, s \in RespSizes :
          /\ live' = live \cup {o}
          /\ key' = [key EXCEPT ![o] = uri[t]]
          /\ valid' = [valid EXCEPT ![o] = s <= MaxObjectSize]
          /\ size' = [size EXCEPT ![o] = Copied(s)]
          /\ next' = [next EXCEPT ![o] = NULL]
          /\ prev' = [prev EXCEPT ![o] = NULL]
          /\ cache' = [cache EXCEPT ![t] = o]
          /\ \E moved \in {FALSE, ReallocMoves /\ s < MaxObjectSize} :
                dangling' = IF moved THEN dangling \cup {o} ELSE dangling \ {o}
          /\ Goto(t, IF s <= MaxObjectSize THEN "put_P" ELSE "close")
    /\ UNCHANGED <<head, tail, total_size, lockVars, uri, accepted, proxy>>

ListEmpty == head = NULL /\ tail = NULL

\* put_cache finds a list: go and make room.
PutMore(t) ==
    /\ At(t, "put") /\ Safe(t) /\ ~ListEmpty
    /\ Goto(t, "evict")
    /\ UNCHANGED <<listVars, lockVars, entryVars, uri, cache, accepted, proxy>>

\* Seeded bug: nothing is freed.
FreeNothing(o) == UNCHANGED live

Free(o) == live' = live \ {o}

\* Seeded bug: the new head keeps its predecessor.
DropHeadKeepsPrev ==
    \/ head = tail /\ head' = NULL /\ tail' = NULL /\ UNCHANGED prev
    \/ head # tail /\ head' = next[head] /\ UNCHANGED <<tail, prev>>

DropHead ==
    \/ /\ head = tail
       /\ head' = NULL /\ tail' = NULL
       /\ UNCHANGED prev
    \/ /\ head # tail
       /\ head' = next[head]
       /\ prev' = [prev EXCEPT ![next[head]] = NULL]
       /\ UNCHANGED tail

\* eliminate_lru_cache, the body of put_cache's loop.
Evict(t) ==
    /\ At(t, "evict") /\ Safe(t) /\ TooBig(t) /\ head # NULL
    /\ total_size' = total_size - size[head]
    /\ DropHead
    /\ Free(head)
    /\ UNCHANGED <<next, lockVars, size, key, valid, dangling,
                   pc, uri, cache, accepted, proxy>>

\* The loop of put_cache with nothing left to evict does not end.
EvictSpins(t) ==
    /\ At(t, "evict") /\ Safe(t) /\ TooBig(t) /\ head = NULL
    /\ UNCHANGED vars

\* Seeded bug: the new tail keeps the successor it had.
LinkKeepsNext(c) ==
    /\ tail' = c
    /\ \/ ListEmpty /\ head' = c /\ prev' = [prev EXCEPT ![c] = NULL] /\ UNCHANGED next
       \/ ~ListEmpty /\ next' = [next EXCEPT ![tail] = c]
          /\ prev' = [prev EXCEPT ![c] = tail] /\ UNCHANGED head

Link(c) ==
    /\ tail' = c
    /\ \/ /\ ListEmpty
          /\ head' = c
          /\ next' = [next EXCEPT ![c] = NULL]
          /\ prev' = [prev EXCEPT ![c] = NULL]
       \/ /\ ~ListEmpty
          /\ next' = [next EXCEPT ![tail] = c, ![c] = NULL]
          /\ prev' = [prev EXCEPT ![c] = tail]
          /\ UNCHANGED head

\* The end of put_cache; a list that was empty at first is not checked for size.
Put(t) ==
    /\ Safe(t)
    /\ \/ At(t, "put") /\ ListEmpty
       \/ At(t, "evict") /\ ~TooBig(t)
    /\ Link(cache[t])
    /\ total_size' = total_size + size[cache[t]]
    /\ writer_mutex' = writer_mutex + 1
    /\ Goto(t, "close")
    /\ UNCHANGED <<entryVars, reader_cnt, reader_mutex, uri, cache, accepted, proxy>>
-----------------------------------------------------------------------------
\* Close(clientfd): the thread ends.
Close(t) ==
    /\ At(t, "close")
    /\ Goto(t, "idle")
    /\ UNCHANGED <<listVars, lockVars, entryVars, uri, cache, accepted, proxy>>

\* unix_error or SIGPIPE ends the process: the origin server is unreachable, a
\* peer is gone, Malloc fails, or the uninitialised serverfd cannot be closed.
Die(t) ==
    /\ \E l \in {"write", "fetch", "close"} : At(t, l)
    /\ proxy' = "exited"
    /\ UNCHANGED <<listVars, lockVars, entryVars, pc, uri, cache, accepted>>

\* The thread follows a NULL or dangling pointer: undefined behaviour.
BadAccess(t) ==
    /\ proxy = "running" /\ ~Safe(t)
    /\ proxy' = "fault"
    /\ UNCHANGED <<listVars, lockVars, entryVars, pc, uri, cache, accepted>>

\* Nothing left to do within the bound.
Halted ==
    /\ \/ proxy # "running"
       \/ accepted = MaxConn /\ \A t \in Worker : pc[t] = "idle"
    /\ UNCHANGED vars

Step(t) == \/ ReaderEnter(t) \/ FirstReader(t) \/ ReaderEntered(t)
           \/ Search(t) \/ SearchSpins(t)
           \/ ReaderLeave(t) \/ LastReader(t) \/ ReaderLeft(t)
           \/ WriteHit(t) \/ WriterLock(t) \/ MoveOut(t)
           \/ Fetch(t) \/ PutMore(t)
           \/ Evict(t) \/ EvictSpins(t) \/ Put(t)
           \/ Close(t) \/ Die(t) \/ BadAccess(t)

Next == (\E t \in Worker : Accept(t) \/ Step(t)) \/ Halted

Spec == Init /\ [][Next]_vars

\* Every started thread is scheduled and every peer it waits for answers.
Fairness == \A t \in Worker : WF_vars(Step(t))
FairSpec == Spec /\ Fairness
-----------------------------------------------------------------------------
(* The readers-writers lock                                                *)

MutexHeld == {t \in Worker : pc[t] \in {"find_first", "find_V", "done_last", "done_V"}}
Counted   == {t \in Worker : pc[t] \in {"find_first", "find_V", "search", "done_P"}}
Readers   == {t \in Worker : pc[t] \in {"find_V", "search", "done_P", "done_last"}}
Writers   == {t \in Worker : pc[t] \in {"move", "put", "evict"}}

\* reader_mutex guards the count, which is the number of threads inside.
ReaderMutexInv == /\ reader_mutex \in {0, 1}
                  /\ reader_mutex = 1 <=> MutexHeld = {}
                  /\ \A s, t \in MutexHeld : s = t
                  /\ reader_cnt = Cardinality(Counted)

\* Either the group of readers or one writer has writer_mutex.
WriterMutexInv == /\ writer_mutex \in {0, 1}
                  /\ writer_mutex = 1 <=> Readers = {} /\ Writers = {}
                  /\ \A s, t \in Writers : s = t
                  /\ Readers = {} \/ Writers = {}

\* What the two waits under reader_mutex rely on.
FirstLastInv == \A t \in Worker : /\ pc[t] = "find_first" => reader_cnt = 1
                                  /\ pc[t] = "done_last" => reader_cnt = 0

\* The two semaphores and the count of cache.c:103-124 admit any number of
\* readers or one writer at a time, whatever the threads look up and whatever
\* has become of the list.
LockInv == ReaderMutexInv /\ WriterMutexInv /\ FirstLastInv

\* The threads that P blocks.
AwaitsReaderMutex(t) == pc[t] \in {"find_P", "done_P"} /\ reader_mutex = 0
AwaitsWriterMutex(t) == /\ pc[t] \in {"find_first", "move_P", "reput_P", "put_P"}
                        /\ writer_mutex = 0
Waiting(t) == AwaitsReaderMutex(t) \/ AwaitsWriterMutex(t)

\* The threads that hold a semaphore or are counted among the readers.
InLock == MutexHeld \cup Readers \cup Writers

\* A first reader holds reader_mutex while it waits for writer_mutex
\* (cache.c:103-109), and the last reader needs reader_mutex to give writer_mutex
\* back (cache.c:118-123): still, while P blocks any thread, one that is inside
\* the lock is not blocked.
SomeoneMoves == (\E t \in Worker : Waiting(t)) => \E s \in InLock : ~ Waiting(s)

\* While a thread traverses the list (cache.c:111-117) no step of another one
\* moves its ends or changes its size.
StableWhileRead ==
    [][(\E t \in Worker : pc[t] = "search") => UNCHANGED <<head, tail, total_size>>]_vars
-----------------------------------------------------------------------------
(* The list                                                                *)

Queue == {nth[i] : i \in Steps} \ {NULL}
QueueSize == MapThenSumSet(LAMBDA o : size[o], Queue)

\* A thread has taken the object out of the list or has not yet linked it.
InTransit == {t \in Worker : pc[t] \in {"reput_P", "put_P", "put", "evict"}}

(***************************************************************************)
(* A found object is used without the lock: until its finder has moved it, *)
(* it must stay in the list (cache.c:94-98 unlinks it, cache.c:41-52 frees *)
(* it).  And a key that is not in the list is fetched and inserted without *)
(* a second look.  The code does not see to either; what it guarantees is  *)
(* stated for the behaviours in which no two threads collide this way.     *)
(***************************************************************************)
HasFound(t) == /\ pc[t] \in {"done_P", "done_last", "done_V", "write", "move_P", "move"}
               /\ cache[t] # NULL

\* The objects that the next step of t takes out of the list.
Removes(t) == IF pc[t] = "move" THEN {cache[t]}
              ELSE IF pc[t] = "evict" /\ TooBig(t) THEN {head}
              ELSE {}

\* Nobody takes out what another thread has found and not moved yet.
FindsKept == \A s, t \in Worker : s # t /\ HasFound(s) => cache[s] \notin Removes(t)

\* A thread has missed its URI, or has the object of its URI outside the list.
Absent(t) == \/ pc[t] \in {"done_P", "done_last", "done_V"} /\ cache[t] = NULL
             \/ pc[t] = "fetch" \/ t \in InTransit

\* No two threads are about to insert the same URI.
MissesApart == \A s, t \in Worker : Absent(s) /\ Absent(t) /\ uri[s] = uri[t] => s = t

Undisturbed == FindsKept /\ MissesApart

\* The list is doubly linked from head to tail, without a cycle, and holds
\* allocated objects only (cache_test.c:20-38 walks it in both directions).
WellLinked == /\ nth[Cardinality(Obj)] = NULL
              /\ Queue \subseteq live
              /\ head = NULL <=> tail = NULL
              /\ head # NULL => prev[head] = NULL /\ tail \in Queue /\ next[tail] = NULL
              /\ \A o \in Queue : next[o] # NULL => prev[next[o]] = o

\* total_size is the sum of the sizes of the objects in the list
\* (cache_test.c:40), between any two steps of any thread.
TotalIsSum == total_size = QueueSize

\* Nothing is lost or held twice: an object that may be cached is in the list
\* or in transit with one thread, and no object is both.
NothingLost ==
    /\ \A o \in live : valid[o] => o \in Queue \/ \E t \in InTransit : cache[t] = o
    /\ \A t \in InTransit : cache[t] \notin Queue
    /\ \A s, t \in InTransit : cache[s] = cache[t] => s = t

\* "it's the most recently used cache, move it to queue tail" (proxy.c:77): the
\* object that is to be moved is one of the queue.
MovesQueuedEntry == \A t \in Worker : pc[t] = "move" => cache[t] \in Queue

\* The code implements the least-recently-used queue of LruCache: lookups and
\* moves of several threads, and the eviction loop, amount to its actions.
entry(o) == [id |-> o, key |-> key[o], size |-> size[o]]
QueueSeq == LET n == Min({i \in Steps : nth[i] = NULL})
            IN  [i \in 1 .. n |-> entry(nth[i - 1])]
AtLabel(labels) == {t \in Worker : pc[t] \in labels}

Lru == INSTANCE LruCache WITH
         Id <- Obj, Key <- Uri, Capacity <- MaxCacheSize, None <- NULL,
         queue <- QueueSeq,
         held <- {entry(cache[t]) : t \in AtLabel({"reput_P"})},
         incoming <- IF AtLabel({"put", "evict"}) = {} THEN NULL
                     ELSE entry(cache[CHOOSE t \in AtLabel({"put", "evict"}) : TRUE])

ImplementsLru == Lru!LruSpec

\* A connection that was accepted is closed, unless an error wrapper ends the
\* process; no NULL or dangling pointer does, and no search or eviction spins.
Served == \A t \in Worker : pc[t] # "idle" ~> pc[t] = "idle" \/ proxy = "exited"
=============================================================================

--------------------------------- MODULE MM ---------------------------------
(***************************************************************************)
(* The allocator of the malloc lab (malloc_lab/mm.c) over the simulated    *)
(* break of malloc_lab/memlib.c: boundary tags, segregated free lists,     *)
(* first fit.                                                              *)
(*                                                                         *)
(* The unit is the 8-byte word: every address, block size and list head of *)
(* the code is a multiple of it, and a request of n bytes is one of n / 8  *)
(* words rounded up.  A word holds an integer: 2 * size + alloc for a tag, *)
(* 2 * address for a pointer (the low three bits of a size and of a        *)
(* pointer are 0 in the code; one of them is kept), Data(i) for the fill   *)
(* byte of block i.  A heap is a record: the memory, the break and cnt.    *)
(***************************************************************************)
EXTENDS Integers, FiniteSetsExt

CONSTANTS HeapLo,              \* mem_start_brk; not NULL
          MAX_HEAP,            \* words the break may cover
          PageWords,           \* mem_pagesize()
          segregated_list_num, \* free lists
          SmallLog             \* sizes below 2^(SmallLog+1) are in list 0; 3 in the code

ASSUME MMAssumption == /\ {HeapLo, segregated_list_num} \subseteq Nat \ {0}
                       /\ PageWords \in Nat \ {0, 1}
                       /\ {MAX_HEAP, SmallLog} \subseteq Nat

NULL == 0
Word == HeapLo .. HeapLo + MAX_HEAP - 1

\* The driver fills a block with the low byte of its index; no tag and no pointer is
\* a word of such bytes.
FillByte(i) == i % 256
Data(i) == -1 - FillByte(i)

GET(h, a) == h.mem[a]
PUT(h, a, v) == [h EXCEPT !.mem[a] = v]
PACK(size, alloc) == 2 * size + alloc

GET_SIZE(h, p)  == GET(h, p - 1) \div 2
GET_ALLOC(h, p) == GET(h, p - 1) % 2
FTRP(h, p)      == p + GET_SIZE(h, p) - 2
NEXT_BLK(h, p)  == p + GET_SIZE(h, p)
PREV_BLK(h, p)  == p - GET(h, p - 2) \div 2
IsFree(h, p)      == GET_ALLOC(h, p) = 0

PREV_FREE_BLK(h, p) == GET(h, p) \div 2
NEXT_FREE_BLK(h, p) == GET(h, p + 1) \div 2
SET_PREV_FREE_BLK(h, p, q) == PUT(h, p, 2 * q)
SET_NEXT_FREE_BLK(h, p, q) == PUT(h, p + 1, 2 * q)

\* Seeded bug: the footer goes where the old header says.
TagOldFooter(h, p, size, alloc) ==
    PUT(PUT(h, FTRP(h, p), PACK(size, alloc)), p - 1, PACK(size, alloc))

\* Header, then the footer where the new header says.
Tag(h, p, size, alloc) ==
    PUT(PUT(h, p - 1, PACK(size, alloc)), p + size - 2, PACK(size, alloc))

CHUNK_SIZE == PageWords + 2
PRELOGUE_BLK == HeapLo + segregated_list_num + 1

\* min_malloc_size: mm_malloc lowers it to the request and raises it to 5 again.
min_malloc_size == 5

\* A request with its header and footer.
BlockSize(size) == size + 2
-----------------------------------------------------------------------------
(* memlib.c                                                                *)

CanGrow(h, incr) == h.brk + incr <= HeapLo + MAX_HEAP

mem_sbrk(h, incr) == [h EXCEPT !.brk = @ + incr]

mem_init == [mem |-> [a \in Word |-> 0], brk |-> HeapLo, cnt |-> 0]
mem_reset_brk(h) == [h EXCEPT !.brk = HeapLo]
mem_heapsize(h) == h.brk - HeapLo
-----------------------------------------------------------------------------
(* the free lists                                                          *)

Lists == 0 .. segregated_list_num - 1
ListHead(h, l) == GET(h, HeapLo + l) \div 2
SetListHead(h, l, p) == PUT(h, HeapLo + l, 2 * p)

\* List k, k > 0, is for sizes from 2^(SmallLog + k) on.
dispatch_size(size) ==
    Cardinality({k \in 1 .. segregated_list_num - 1 : 2 ^ (SmallLog + k) <= size})

\* Seeded bug: the old first block keeps NULL as its predecessor.
InsertOneWay(h, p) ==
    LET l == dispatch_size(GET_SIZE(h, p))
    IN  SetListHead(SET_PREV_FREE_BLK(SET_NEXT_FREE_BLK(h, p, ListHead(h, l)), p, NULL), l, p)

\* insert_to_linked_list_head: in the list of its size.
InsertHead(h, p) ==
    LET l  == dispatch_size(GET_SIZE(h, p))
        h1 == IF ListHead(h, l) = NULL THEN h ELSE SET_PREV_FREE_BLK(h, ListHead(h, l), p)
        h2 == SET_NEXT_FREE_BLK(h1, p, ListHead(h, l))
    IN  SetListHead(SET_PREV_FREE_BLK(h2, p, NULL), l, p)

\* Seeded bug: the successor keeps its old predecessor.
UnlinkOneWay(h, p) ==
    LET prev == PREV_FREE_BLK(h, p)
        next == NEXT_FREE_BLK(h, p)
    IN  IF prev = NULL THEN SetListHead(h, dispatch_size(GET_SIZE(h, p)), next)
                       ELSE SET_NEXT_FREE_BLK(h, prev, next)

\* remove_from_linked_list: the list is that of the size p has now.
Unlink(h, p) ==
    LET prev == PREV_FREE_BLK(h, p)
        next == NEXT_FREE_BLK(h, p)
        h1   == IF next = NULL THEN h ELSE SET_PREV_FREE_BLK(h, next, prev)
    IN  IF prev = NULL THEN SetListHead(h1, dispatch_size(GET_SIZE(h, p)), next)
                       ELSE SET_NEXT_FREE_BLK(h1, prev, next)

\* The first block of a list that is large enough: a walk along the list, of no
\* more steps than there are words.
FitIn(h, l, size) ==
    LET cursor[i \in 0 .. MAX_HEAP] ==
            IF i = 0 THEN ListHead(h, l)
            ELSE LET p == cursor[i - 1]
                 IN  IF p = NULL \/ GET_SIZE(h, p) >= size THEN p ELSE NEXT_FREE_BLK(h, p)
    IN  cursor[MAX_HEAP]

\* Seeded bug: the lists of larger blocks are not searched.
first_fit_own_list(h, size) == FitIn(h, dispatch_size(size), size)

linked_list_first_fit(h, size) ==
    LET L == {l \in Lists : l >= dispatch_size(size) /\ FitIn(h, l, size) # NULL}
    IN  IF L = {} THEN NULL ELSE FitIn(h, Min(L), size)
-----------------------------------------------------------------------------
(* mm.c: each operation yields the heap and the pointer it returns         *)

Result(h, p) == [h |-> h, p |-> p]

\* A block of blk words, of which size are needed; every other split puts the
\* allocated part last.
Split(h, blk, size) == blk >= size + min_malloc_size
AllocateLast(h, blk, size) == Split(h, blk, size) /\ h.cnt = 1

place(h0, p, size, blk, is_free) ==
    LET h == IF is_free THEN Unlink(h0, p) ELSE h0
        flipped(g) == [g EXCEPT !.cnt = 1 - @]
    IN  CASE ~ Split(h, blk, size) -> Result(Tag(h, p, blk, 1), p)
          [] AllocateLast(h, blk, size) ->
                LET q == p + blk - size
                IN  Result(flipped(InsertHead(Tag(Tag(h, p, blk - size, 0), q, size, 1), p)), q)
          [] OTHER ->
                LET q == p + size
                IN  Result(flipped(InsertHead(Tag(Tag(h, p, size, 1), q, blk - size, 0), q)), p)

mm_malloc(h, size) ==
    LET need == BlockSize(size)
        fit  == linked_list_first_fit(h, need)
        incr == IF need > CHUNK_SIZE THEN need ELSE CHUNK_SIZE
    IN  CASE fit # NULL -> place(h, fit, need, GET_SIZE(h, fit), TRUE)
          [] fit = NULL /\ CanGrow(h, incr) ->
                LET grown == PUT(mem_sbrk(h, incr), h.brk + incr - 1, PACK(0, 1))
                IN  place(grown, h.brk, need, incr, FALSE)
          [] OTHER -> Result(h, NULL)

\* The neighbours that are free are merged with the block.
coalesce(h, p) ==
    LET prev   == PREV_BLK(h, p)
        next   == NEXT_BLK(h, p)
        before == IsFree(h, prev)
        after  == IsFree(h, next)
        total  == GET_SIZE(h, p) + (IF before THEN GET_SIZE(h, prev) ELSE 0)
                                 + (IF after THEN GET_SIZE(h, next) ELSE 0)
        \* the list removals, in the order of each branch
        cut == CASE before /\ ~after -> Unlink(Unlink(h, p), prev)
                 [] ~before /\ after -> Unlink(Unlink(h, next), p)
                 [] before /\ after  -> Unlink(Unlink(Unlink(h, p), prev), next)
                 [] OTHER -> h
        first == IF before THEN prev ELSE p
    IN  IF ~before /\ ~after THEN h ELSE InsertHead(Tag(cut, first, total, 0), first)

mm_free(h, p) ==
    coalesce(InsertHead(Tag(h, p, GET_SIZE(h, p), 0), p), p)

\* mm_memcpy: its direction makes an overlap harmless.
mm_memcpy(h, dst, src, n) ==
    [h EXCEPT !.mem = [a \in Word |-> IF a \in dst .. dst + n - 1
                                      THEN @[src + a - dst] ELSE @[a]]]

\* Seeded bug: the payload goes to the first part, whichever place allocates.
MoveFirst(h, p, prev, size, total) ==
    place(mm_memcpy(h, prev, p, GET_SIZE(h, p) - 2), prev, size, total, FALSE)

\* The payload moved into a free block that starts at prev.
MoveAndPlace(h, p, prev, size, total) ==
    LET n   == GET_SIZE(h, p) - 2
        dst == IF AllocateLast(h, total, size) THEN prev + total - size ELSE prev
    IN  place(mm_memcpy(h, dst, p, n), prev, size, total, FALSE)

mm_realloc(h, p, size) ==
    LET need == BlockSize(size)
        mine == GET_SIZE(h, p)
        next == NEXT_BLK(h, p)
        prev == PREV_BLK(h, p)
        withNext == mine + GET_SIZE(h, next)
        withPrev == mine + GET_SIZE(h, prev)
        withBoth == withNext + GET_SIZE(h, prev)
        useNext == IsFree(h, next) /\ withNext >= need
        usePrev == IsFree(h, prev) /\ withPrev >= need
        useBoth == IsFree(h, prev) /\ IsFree(h, next) /\ withBoth >= need
    IN  CASE p = NULL -> mm_malloc(h, size)
          [] p # NULL /\ size = 0 -> Result(mm_free(h, p), p)
          [] p # NULL /\ size # 0 /\ need = mine -> Result(h, p)
          [] p # NULL /\ size # 0 /\ need < mine -> place(h, p, need, mine, FALSE)
          [] p # NULL /\ need > mine /\ useNext ->
                place([Unlink(h, next) EXCEPT !.cnt = 0], p, need, withNext, FALSE)
          [] p # NULL /\ need > mine /\ ~useNext /\ usePrev ->
                MoveAndPlace(Unlink(h, prev), p, prev, need, withPrev)
          [] p # NULL /\ need > mine /\ ~useNext /\ ~usePrev /\ useBoth ->
                MoveAndPlace(Unlink(Unlink(h, prev), next), p, prev, need, withBoth)
          [] OTHER ->
                LET new == mm_malloc(h, size)
                IN  IF new.p = NULL THEN new
                    ELSE Result(mm_free(mm_memcpy(new.h, new.p, p, mine - 2), p), new.p)

\* Seeded bug: the head of the first list stays as an earlier pass has left it.
init_from_one(h) ==
    [h EXCEPT !.mem = [a \in Word |-> IF a - HeapLo \in Lists \ {0} THEN NULL ELSE @[a]]]

init_segregated_list(h) ==
    [h EXCEPT !.mem = [a \in Word |-> IF a - HeapLo \in Lists THEN NULL ELSE @[a]]]

\* mm_init on a heap whose memory and cnt earlier traces have left.
mm_init(h) ==
    LET size == CHUNK_SIZE + segregated_list_num + 3
        p    == PRELOGUE_BLK + 2
        h0   == init_segregated_list(mem_sbrk(h, size))
        h1   == Tag(PUT(h0, HeapLo + size - 1, PACK(0, 1)), PRELOGUE_BLK, 2, 1)
    IN  InsertHead(Tag(h1, p, CHUNK_SIZE, 0), p)
=============================================================================

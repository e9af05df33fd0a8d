------------------------------- MODULE MDriver -------------------------------
(***************************************************************************)
(* The malloc lab: the driver's check of the allocator (eval_mm_valid of   *)
(* malloc_lab/mdriver.c) calling the allocator of MM on any trace.  One    *)
(* request of the trace, with every check and fill around it, is a step.   *)
(***************************************************************************)
EXTENDS MM, RangeList

CONSTANTS Ids,    \* block indices of a trace
          Sizes,  \* request sizes in words
          MaxOps  \* bound: requests of a trace

ASSUME MDriverAssumption == /\ Ids \subseteq Nat /\ Sizes \subseteq Nat \ {0}
                            /\ MaxOps \in Nat
                            /\ CHUNK_SIZE + segregated_list_num + 3 <= MAX_HEAP

VARIABLES heap,                \* the allocator's state
          ranges,              \* the range list
          blocks, block_sizes, \* of the trace; NULL when not allocated
          ops,                 \* requests made
          verdict              \* "running", or why the trace has failed
vars == <<heap, ranges, blocks, block_sizes, ops, verdict>>

Verdicts == {"running", "out of memory", "bad range", "data lost"}
Live == {i \in Ids : blocks[i] # NULL}

TypeOK == /\ heap.brk \in Word \cup {HeapLo + MAX_HEAP} /\ heap.cnt \in {0, 1}
          /\ DOMAIN heap.mem = Word /\ \A a \in Word : heap.mem[a] \in Int
          /\ ranges \in Seq(Range_t(HeapLo, heap.brk - 1))
          /\ blocks \in [Ids -> Word \cup {NULL}]
          /\ block_sizes \in [Ids -> Nat]
          /\ ops \in 0 .. MaxOps /\ verdict \in Verdicts

\* A trace starts with an empty heap; cnt keeps the parity of earlier traces.
Init == /\ \E parity \in {0, 1} : heap = mm_init([mem_init EXCEPT !.cnt = parity])
        /\ ranges = <<>>
        /\ blocks = [i \in Ids |-> NULL] /\ block_sizes = [i \in Ids |-> 0]
        /\ ops = 0 /\ verdict = "running"

Fill(h, p, size, i) ==
    [h EXCEPT !.mem = [a \in Word |-> IF a \in p .. Hi(p, size) THEN Data(i) ELSE @[a]]]

Request == verdict = "running" /\ ops < MaxOps /\ ops' = ops + 1

\* A char of the block is signed: it equals no fill byte above 127.
Unread == {i \in Ids : FillByte(i) > 127}

\* The driver compares the words that must be kept with what it has filled them with.
Preserved(i, r, kept) ==
    \A a \in r.p .. Hi(r.p, kept) : GET(r.h, a) = Data(i) /\ i \notin Unread

\* What the driver makes of a returned block: kept is the number of its words
\* that must hold the old data.
Judged(i, r, old, size, kept) ==
    CASE r.p = NULL -> "out of memory"
      [] r.p # NULL /\ ~ Accepts(old, r.p, size, HeapLo, r.h.brk - 1) -> "bad range"
      [] OTHER -> IF Preserved(i, r, kept) THEN "running" ELSE "data lost"

\* The block is checked, recorded and filled.
Receive(i, r, old, size, kept) ==
    /\ verdict' = Judged(i, r, old, size, kept)
    /\ ranges' = CASE verdict' = "out of memory" -> ranges
                    [] verdict' = "bad range" -> old
                    [] OTHER -> Added(old, r.p, size)
    /\ IF verdict' = "running"
       THEN /\ heap' = Fill(r.h, r.p, size, i)
            /\ blocks' = [blocks EXCEPT ![i] = r.p]
            /\ block_sizes' = [block_sizes EXCEPT ![i] = size]
       ELSE /\ heap' = r.h
            /\ UNCHANGED <<blocks, block_sizes>>

Alloc(i, size) ==
    /\ Request /\ i \notin Live
    /\ Receive(i, mm_malloc(heap, size), ranges, size, 0)

Realloc(i, size) ==
    /\ Request /\ i \in Live
    /\ Receive(i, mm_realloc(heap, blocks[i], size), Removed(ranges, blocks[i]), size,
               Min({size, block_sizes[i]}))

FreeBlock(i) ==
    /\ Request /\ i \in Live
    /\ ranges' = Removed(ranges, blocks[i])
    /\ heap' = mm_free(heap, blocks[i])
    /\ blocks' = [blocks EXCEPT ![i] = NULL]
    /\ block_sizes' = [block_sizes EXCEPT ![i] = 0]
    /\ UNCHANGED verdict

Next == \E i \in Ids : \/ \E size \in Sizes : Alloc(i, size) \/ Realloc(i, size)
                       \/ FreeBlock(i)

Spec == Init /\ [][Next]_vars
-----------------------------------------------------------------------------
(* the heap as its tags describe it                                        *)

Size(p) == GET_SIZE(heap, p)

\* The blocks between prologue and epilogue, walked from header to header.
Blocks ==
    LET from[p \in PRELOGUE_BLK + 2 .. HeapLo + MAX_HEAP] ==
            IF Size(p) <= 0 THEN {}
            ELSE {p} \cup IF p + Size(p) <= heap.brk THEN from[p + Size(p)] ELSE {}
    IN  from[PRELOGUE_BLK + 2]

FreeBlocks == {p \in Blocks : IsFree(heap, p)}

\* The blocks of a list: those that as many steps from its head reach as there
\* are free blocks.
ListBlocks(l) ==
    LET reached[n \in Nat] ==
            IF n = 0 THEN {ListHead(heap, l)}
            ELSE reached[n - 1] \cup
                 {NEXT_FREE_BLK(heap, p) : p \in reached[n - 1] \cap FreeBlocks}
    IN  reached[Cardinality(FreeBlocks)] \ {NULL}

\* The blocks tile the heap up to the epilogue, with equal header and footer.
Tiled == /\ \A p \in Blocks : /\ p + Size(p) <= heap.brk
                              /\ GET(heap, FTRP(heap, p)) = GET(heap, p - 1)
         /\ \E p \in Blocks : p + Size(p) = heap.brk
         /\ GET(heap, heap.brk - 1) = PACK(0, 1)

\* Each list holds the free blocks of its sizes, linked both ways.
ListsExact == \A l \in Lists :
    /\ ListBlocks(l) = {p \in FreeBlocks : dispatch_size(Size(p)) = l}
    /\ \A p \in ListBlocks(l) :
          /\ (PREV_FREE_BLK(heap, p) = NULL) = (p = ListHead(heap, l))
          /\ NEXT_FREE_BLK(heap, p) # NULL =>
                PREV_FREE_BLK(heap, NEXT_FREE_BLK(heap, p)) = p

\* The allocated blocks are the live ones, each large enough, and nothing, tag,
\* list pointer or another block's data, has been written over their payloads.
LiveIntact == verdict = "running" =>
    /\ Blocks \ FreeBlocks = {blocks[i] : i \in Live}
    /\ \A i \in Live : /\ Size(blocks[i]) >= BlockSize(block_sizes[i])
                       /\ \A a \in blocks[i] .. Hi(blocks[i], block_sizes[i]) :
                             GET(heap, a) = Data(i)

\* The heap grows, or the request fails, only when no free block is large enough.
GrowsOnlyWhenFull == [][\A i \in Ids, size \in Sizes :
    Alloc(i, size) /\ (heap'.brk # heap.brk \/ blocks'[i] = NULL) =>
      \A p \in FreeBlocks : Size(p) < BlockSize(size)]_vars

\* Every trace gets from the allocator what Allocator promises.
Promise == INSTANCE Allocator WITH
    Cells  <- Word,
    extent <- [i \in Ids |-> blocks[i] .. Hi(blocks[i], block_sizes[i])],
    intact <- [i \in Ids |-> \A a \in blocks[i] .. Hi(blocks[i], block_sizes[i]) :
                               GET(heap, a) = Data(i)],
    status <- verdict
ImplementsAllocator == Promise!AllocSpec

\* "for free block": header, two list pointers and footer (mm.c:80-85).
FreeBlockLayout == \A p \in FreeBlocks :
    Size(p) >= 4 /\ GET(heap, FTRP(heap, p)) = GET(heap, p - 1)

\* "Make sure that the new block contains the data from the old block"
\* (mdriver.c:649-650)
NeverLost == verdict # "data lost"
=============================================================================

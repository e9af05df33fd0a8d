------------------------------ MODULE RangeCheck ------------------------------
(***************************************************************************)
(* What the driver's range list accepts from an arbitrary allocator: one   *)
(* that may return any address.                                            *)
(***************************************************************************)
EXTENDS RangeList

CONSTANTS HeapFrom, HeapTo, \* mem_heap_lo() and mem_heap_hi()
          MaxSize,          \* bound: size of a request
          MaxRanges         \* bound: payloads at a time

ASSUME RangeCheckAssumption == /\ {HeapFrom, HeapTo, MaxRanges} \subseteq Nat
                               /\ MaxSize \in Nat \ {0}

VARIABLES ranges, \* newest first
          valid   \* FALSE once a block has been refused: the trace is over
vars == <<ranges, valid>>

TypeOK == ranges \in Seq(Range_t(HeapFrom, HeapTo)) /\ valid \in BOOLEAN

\* What mm_malloc and mm_realloc may return besides NULL, the address 0.
Addresses == 1 .. HeapTo + 1
-----------------------------------------------------------------------------
Init == ranges = <<>> /\ valid = TRUE

\* add_range, after the ranges in old.
Check(old, lo, size) ==
    /\ valid' = Accepts(old, lo, size, HeapFrom, HeapTo)
    /\ ranges' = IF valid' THEN Added(old, lo, size) ELSE old

\* The allocator returned NULL: the trace ends with the list as it is.
ReturnedNull == valid' = FALSE /\ UNCHANGED ranges

Alloc == /\ valid /\ Len(ranges) < MaxRanges
         /\ \/ ReturnedNull
            \/ \E lo \in Addresses, size \in 1 .. MaxSize : Check(ranges, lo, size)

Realloc == /\ valid
           /\ \E i \in DOMAIN ranges :
                \/ ReturnedNull
                \/ \E lo \in Addresses, size \in 1 .. MaxSize :
                      Check(Removed(ranges, ranges[i].lo), lo, size)

Free == /\ valid
        /\ \E i \in DOMAIN ranges : ranges' = Removed(ranges, ranges[i].lo)
        /\ UNCHANGED valid

\* clear_ranges, at the start of a trace.
Clear == ranges' = <<>> /\ valid' = TRUE

Next == Alloc \/ Realloc \/ Free \/ Clear
Spec == Init /\ [][Next]_vars
-----------------------------------------------------------------------------
\* What the check is worth: of two payloads it has accepted, the newer one may
\* contain the older one, and there is no other overlap.
OverlapOnlyByContainment == \A i, j \in DOMAIN ranges :
    i < j => Disjoint(ranges[i], ranges[j]) \/ StrictlyInside(ranges[j], ranges[i])

\* remove_range finds the range it is asked for: no two start at the same place.
StartsDistinct == \A i, j \in DOMAIN ranges : ranges[i].lo = ranges[j].lo => i = j

\* "The payload must not overlap any other payloads" (mdriver.c:407)
NoOverlap == \A i, j \in DOMAIN ranges : i # j => Disjoint(ranges[i], ranges[j])
=============================================================================

------------------------------ MODULE RangeList ------------------------------
(***************************************************************************)
(* The range list of the malloc lab's driver (malloc_lab/mdriver.c): the   *)
(* extent of every allocated payload, newest first, against which each     *)
(* block that the allocator under test returns is checked.                 *)
(***************************************************************************)
EXTENDS Integers, Sequences, SequencesExt

CONSTANTS ALIGNMENT  \* 8 bytes in the code

ASSUME RangeListAssumption == ALIGNMENT \in Nat \ {0}

Range_t(from, to) == [lo : from .. to, hi : from .. to]

Hi(lo, size) == lo + size - 1
Aligned(lo) == lo % ALIGNMENT = 0

InHeap(lo, hi, from, to) == {lo, hi} \subseteq from .. to

\* Seeded bug: only the first address is compared.
OverlapsAtLo(lo, hi, r) == lo \in r.lo .. r.hi

\* The test of add_range: one end of the new payload lies in an old one.
Overlaps(lo, hi, r) == lo \in r.lo .. r.hi \/ hi \in r.lo .. r.hi

Accepts(old, lo, size, from, to) ==
    /\ Aligned(lo)
    /\ InHeap(lo, Hi(lo, size), from, to)
    /\ \A i \in DOMAIN old : ~ Overlaps(lo, Hi(lo, size), old[i])

Added(old, lo, size) == <<[lo |-> lo, hi |-> Hi(lo, size)]>> \o old

\* The first range that starts at lo is removed.
Removed(old, lo) ==
    LET S == {i \in DOMAIN old : old[i].lo = lo}
    IN  IF S = {} THEN old ELSE RemoveAt(old, CHOOSE i \in S : \A j \in S : i <= j)

Disjoint(r, s) == r.hi < s.lo \/ s.hi < r.lo
StrictlyInside(r, s) == s.lo < r.lo /\ r.hi < s.hi
=============================================================================

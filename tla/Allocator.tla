------------------------------ MODULE Allocator ------------------------------
(***************************************************************************)
(* What mm_malloc, mm_free and mm_realloc promise the trace that calls     *)
(* them: live payloads apart from each other, in memory, that keep what    *)
(* has been written to them.  The comment of mm_realloc would promise the  *)
(* data of a shrinking block too; the code keeps it only sometimes.        *)
(***************************************************************************)
EXTENDS Integers, FiniteSets

CONSTANTS Ids, Sizes,
          Cells,         \* the addresses of the simulated memory
          Unread         \* blocks whose data the trace never recognises

VARIABLES extent,        \* the cells of each payload, none when it is not live
          intact,        \* whether they all hold what the trace has written
          status         \* "running", or why the trace has ended

Extent(lo, size) == lo .. lo + size - 1
IsLive(i) == extent[i] # {}

\* The trace starts with no block; no cell means no cell that is wrong.
AllocInit == /\ extent = [i \in Ids |-> {}]
             /\ intact = [i \in Ids |-> TRUE]
             /\ status = "running"

\* Block i is placed in cells that no other block has, and filled.
Placed(i, size) ==
    /\ \E lo \in Cells :
          /\ Extent(lo, size) \subseteq Cells
          /\ \A j \in Ids \ {i} : extent[j] \cap Extent(lo, size) = {}
          /\ extent' = [extent EXCEPT ![i] = Extent(lo, size)]
    /\ UNCHANGED <<intact, status>>

Malloc(i, size) == ~ IsLive(i) /\ Placed(i, size)
Resize(i, size) == IsLive(i) /\ i \notin Unread /\ Placed(i, size)

Release(i) == /\ IsLive(i)
              /\ extent' = [extent EXCEPT ![i] = {}]
              /\ UNCHANGED <<intact, status>>

\* A request may fail; then nothing that is live has changed.
Refuse == status' = "out of memory" /\ UNCHANGED <<extent, intact>>

\* Only a block that shrinks may lose its data; of an unread one the trace always
\* believes it.
Lose(i, size) ==
    /\ IsLive(i) /\ (size < Cardinality(extent[i]) \/ i \in Unread)
    /\ status' = "data lost"
    /\ \E b \in BOOLEAN : intact' = [intact EXCEPT ![i] = b]
    /\ UNCHANGED extent

AllocNext == /\ status = "running"
             /\ \/ Refuse
                \/ \E i \in Ids : Release(i) \/
                      \E size \in Sizes : Malloc(i, size) \/ Resize(i, size) \/ Lose(i, size)

AllocSpec == AllocInit /\ [][AllocNext]_<<extent, intact, status>>
=============================================================================

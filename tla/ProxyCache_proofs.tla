-------------------------- MODULE ProxyCache_proofs --------------------------
(* Theorems about ProxyCache for any threads, addresses, URIs and sizes.   *)
EXTENDS ProxyCache, FiniteSetTheorems, SequenceTheorems, WellFoundedInduction, TLAPS

(***************************************************************************)
(* Type correctness.  Every dereference is guarded by Safe, so an address  *)
(* read from memory is one of Obj where a field is read through it.        *)
(***************************************************************************)
LEMMA SafeIsAllocated ==
  ASSUME TypeOK, NEW t \in Worker, Safe(t)
  PROVE  /\ pc[t] \in {"move", "put", "evict", "write"} => cache[t] \in Obj
         /\ pc[t] = "search" /\ Stops(uri[t]) # {} =>
              StopOf(uri[t]) \in Obj \cup {NULL}
BY DEF TypeOK, Safe, Derefs

LEMMA InitType == Init => TypeOK
BY SizeAssumption DEF Init, TypeOK, Labels

\* The steps that touch the list.
LEMMA UnlinkType ==
  ASSUME TypeOK, NEW c \in Obj, Unlink(c)
  PROVE  /\ head' \in Obj \cup {NULL} /\ tail' \in Obj \cup {NULL}
         /\ next' \in [Obj -> Obj \cup {NULL}]
         /\ prev' \in [Obj -> Obj \cup {NULL}]
<1>1. CASE head' = NULL /\ tail' = NULL /\ UNCHANGED <<next, prev>>
  BY <1>1 DEF TypeOK
<1>2. CASE head = c /\ head' = next[head] /\ UNCHANGED <<tail, next>>
           /\ prev' = [prev EXCEPT ![next[head]] = NULL]
  BY <1>2 DEF TypeOK
<1>3. CASE tail = c /\ tail' = prev[c] /\ UNCHANGED <<head, prev>>
           /\ next' = [next EXCEPT ![prev[c]] = NULL]
  BY <1>3 DEF TypeOK
<1>4. CASE /\ UNCHANGED <<head, tail>>
           /\ next' = [next EXCEPT ![prev[c]] = next[c]]
           /\ prev' = [prev EXCEPT ![next[c]] = prev[c]]
  BY <1>4 DEF TypeOK
<1>5. QED
  BY <1>1, <1>2, <1>3, <1>4 DEF Unlink

LEMMA LinkType ==
  ASSUME TypeOK, NEW c \in Obj, Link(c)
  PROVE  /\ head' \in Obj \cup {NULL} /\ tail' \in Obj \cup {NULL}
         /\ next' \in [Obj -> Obj \cup {NULL}]
         /\ prev' \in [Obj -> Obj \cup {NULL}]
BY DEF TypeOK, Link

LEMMA NextType == TypeOK /\ [Next]_vars => TypeOK'
<1> SUFFICES ASSUME TypeOK, [Next]_vars PROVE TypeOK'
  OBVIOUS
<1> USE DEF listVars, lockVars, entryVars
<1>1. CASE UNCHANGED vars
  BY <1>1 DEF vars, TypeOK
<1>2. CASE Halted
  BY <1>2 DEF Halted, vars, TypeOK
<1>3. ASSUME NEW t \in Worker, Accept(t) PROVE TypeOK'
  BY <1>3, RequestAssumption DEF Accept, Goto, Labels, TypeOK
<1>4. ASSUME NEW t \in Worker, Step(t) PROVE TypeOK'
  <2>1. CASE ReaderEnter(t)
    BY <2>1 DEF ReaderEnter, At, Goto, Labels, TypeOK
  <2>2. CASE FirstReader(t)
    BY <2>2 DEF FirstReader, At, Goto, Labels, TypeOK
  <2>3. CASE ReaderEntered(t)
    BY <2>3 DEF ReaderEntered, At, Goto, Labels, TypeOK
  <2>4. CASE Search(t)
    BY <2>4, SafeIsAllocated DEF Search, At, Goto, Labels, TypeOK
  <2>5. CASE SearchSpins(t) \/ EvictSpins(t)
    BY <2>5 DEF SearchSpins, EvictSpins, vars, TypeOK
  <2>6. CASE ReaderLeave(t)
    BY <2>6 DEF ReaderLeave, At, Goto, Labels, TypeOK
  <2>7. CASE LastReader(t)
    BY <2>7 DEF LastReader, At, Goto, Labels, TypeOK
  <2>8. CASE ReaderLeft(t)
    BY <2>8 DEF ReaderLeft, At, Goto, Labels, TypeOK
  <2>9. CASE WriteHit(t)
    BY <2>9 DEF WriteHit, At, Goto, Labels, TypeOK
  <2>10. CASE WriterLock(t)
    BY <2>10 DEF WriterLock, At, Goto, Labels, TypeOK
  <2>11. CASE MoveOut(t)
    <3>1. cache[t] \in Obj
      BY <2>11, SafeIsAllocated DEF MoveOut, At
    <3>2. size[cache[t]] \in Nat
      BY <3>1, SizeAssumption DEF TypeOK
    <3>3. QED
      BY <2>11, <3>1, <3>2, UnlinkType DEF MoveOut, At, Goto, Labels, TypeOK
  <2>12. CASE Fetch(t)
    BY <2>12, SizeAssumption DEF Fetch, Copied, At, Goto, Labels, TypeOK
  <2>13. CASE Put(t)
    <3>1. cache[t] \in Obj
      BY <2>13, SafeIsAllocated DEF Put, At
    <3>2. size[cache[t]] \in Nat
      BY <3>1, SizeAssumption DEF TypeOK
    <3>3. QED
      BY <2>13, <3>1, <3>2, LinkType DEF Put, At, Goto, Labels, TypeOK
  <2>14. CASE PutMore(t)
    BY <2>14 DEF PutMore, At, Goto, Labels, TypeOK
  <2>15. CASE Evict(t)
    <3>1. head \in Obj /\ size[head] \in Nat /\ next[head] \in Obj \cup {NULL}
      BY <2>15, SizeAssumption DEF Evict, TypeOK
    <3>2. QED
      BY <2>15, <3>1 DEF Evict, DropHead, Free, TypeOK
  <2>17. CASE Close(t)
    BY <2>17 DEF Close, At, Goto, Labels, TypeOK
  <2>18. CASE Die(t) \/ BadAccess(t)
    BY <2>18 DEF Die, BadAccess, TypeOK
  <2>19. QED
    BY <1>4, <2>1, <2>2, <2>3, <2>4, <2>5, <2>6, <2>7, <2>8, <2>9, <2>10, <2>11,
       <2>12, <2>13, <2>14, <2>15, <2>17, <2>18 DEF Step
<1>5. QED
  BY <1>1, <1>2, <1>3, <1>4 DEF Next

\* Every variable of the cache and of its threads keeps its type.
THEOREM TypeCorrect == Spec => []TypeOK
<1>1. QED
  BY InitType, NextType, PTL DEF Spec
-----------------------------------------------------------------------------
(***************************************************************************)
(* The readers-writers lock.  LockInv is inductive once pc has its type:   *)
(* ReaderMutexInv makes the count exact, FirstLastInv says that the count  *)
(* does not change between the test of it and the semaphore operation, and *)
(* WriterMutexInv is the exclusion itself.                                 *)
(***************************************************************************)
LEMMA CountedFinite == IsFiniteSet(Counted) /\ Cardinality(Counted) \in Nat
<1>1. Counted \subseteq Worker
  BY DEF Counted
<1>2. QED
  BY <1>1, WorkerAssumption, FS_Subset, FS_CardinalityType

LEMMA CountZero ==
  ASSUME TypeOK, LockInv
  PROVE  /\ reader_cnt = 0 <=> Counted = {}
         /\ reader_cnt \in Nat
BY CountedFinite, FS_EmptySet DEF LockInv, ReaderMutexInv

\* A thread alone in the count.
LEMMA CountOne ==
  ASSUME TypeOK, LockInv, NEW t \in Counted
  PROVE  reader_cnt = 1 <=> Counted = {t}
<1>1. Cardinality(Counted \ {t}) = reader_cnt - 1 /\ IsFiniteSet(Counted \ {t})
  BY CountedFinite, FS_RemoveElement DEF LockInv, ReaderMutexInv
<1>2. reader_cnt - 1 = 0 <=> Counted \ {t} = {}
  BY <1>1, FS_EmptySet
<1>3. QED
  BY <1>2 DEF TypeOK

LEMMA InitLock == Init => LockInv
<1> SUFFICES ASSUME Init PROVE LockInv
  OBVIOUS
<1>1. MutexHeld = {} /\ Counted = {} /\ Readers = {} /\ Writers = {}
  BY DEF Init, MutexHeld, Counted, Readers, Writers
<1>2. reader_cnt = Cardinality(Counted)
  BY <1>1, FS_EmptySet DEF Init
<1>3. QED
  BY <1>1, <1>2 DEF Init, LockInv, ReaderMutexInv, WriterMutexInv, FirstLastInv

\* A step outside the protocol leaves every part of it alone.
LEMMA OtherSteps ==
  ASSUME LockInv, UNCHANGED lockVars,
         MutexHeld' = MutexHeld, Counted' = Counted,
         Readers' = Readers, Writers' = Writers,
         \A t \in Worker : pc'[t] \in {"find_first", "done_last"} => pc'[t] = pc[t]
  PROVE  LockInv'
BY DEF LockInv, ReaderMutexInv, WriterMutexInv, FirstLastInv, lockVars

LEMMA ReaderEnterLock ==
  ASSUME TypeOK, LockInv, NEW t \in Worker, ReaderEnter(t)
  PROVE  LockInv'
<1>1. /\ pc[t] = "find_P" /\ reader_mutex = 1 /\ reader_mutex' = 0
      /\ reader_cnt' = reader_cnt + 1 /\ writer_mutex' = writer_mutex
      /\ pc' = [pc EXCEPT ![t] = IF reader_cnt = 0 THEN "find_first" ELSE "find_V"]
  <2>1. pc' = [pc EXCEPT ![t] = IF reader_cnt' = 1 THEN "find_first" ELSE "find_V"]
    BY DEF ReaderEnter, Goto
  <2>2. reader_cnt' = reader_cnt + 1 /\ (reader_cnt' = 1 <=> reader_cnt = 0)
    BY DEF ReaderEnter, TypeOK
  <2>3. /\ pc[t] = "find_P" /\ reader_mutex = 1 /\ reader_mutex' = 0
        /\ writer_mutex' = writer_mutex
    BY DEF ReaderEnter, At, LockInv, ReaderMutexInv
  <2>4. CASE reader_cnt = 0
    BY <2>1, <2>2, <2>3, <2>4
  <2>5. CASE reader_cnt # 0
    BY <2>1, <2>2, <2>3, <2>5
  <2>6. QED
    BY <2>4, <2>5
<1>2. MutexHeld = {}
  BY <1>1 DEF LockInv, ReaderMutexInv
<1>3. Counted' = Counted \cup {t} /\ t \notin Counted
  BY <1>1 DEF Counted, TypeOK
<1>4. Cardinality(Counted') = reader_cnt + 1
  BY <1>3, CountedFinite, FS_AddElement DEF LockInv, ReaderMutexInv
<1>5. MutexHeld' = {t} /\ Writers' = Writers
  BY <1>1, <1>2 DEF MutexHeld, Writers, TypeOK
<1>6. Readers' = IF reader_cnt = 0 THEN Readers ELSE Readers \cup {t}
  BY <1>1 DEF Readers, TypeOK
<1>7. reader_cnt # 0 => Readers # {}
  <2>1. Counted \subseteq Readers
    BY <1>2 DEF Counted, Readers, MutexHeld
  <2>2. QED
    BY <2>1, CountZero
<1>8. FirstLastInv'
  BY <1>1, <1>2 DEF FirstLastInv, MutexHeld, TypeOK
<1>9. QED
  BY <1>1, <1>4, <1>5, <1>6, <1>7, <1>8
  DEF LockInv, ReaderMutexInv, WriterMutexInv

LEMMA ReaderLeaveLock ==
  ASSUME TypeOK, LockInv, NEW t \in Worker, ReaderLeave(t)
  PROVE  LockInv'
<1>1. /\ pc[t] = "done_P" /\ reader_mutex = 1 /\ reader_mutex' = 0
      /\ reader_cnt' = reader_cnt - 1 /\ writer_mutex' = writer_mutex
      /\ pc' = [pc EXCEPT ![t] = IF reader_cnt = 1 THEN "done_last" ELSE "done_V"]
  BY DEF ReaderLeave, At, Goto, LockInv, ReaderMutexInv, TypeOK
<1>2. MutexHeld = {}
  BY <1>1 DEF LockInv, ReaderMutexInv
<1>3. Counted' = Counted \ {t} /\ t \in Counted
  BY <1>1 DEF Counted, TypeOK
<1>4. Cardinality(Counted') = reader_cnt - 1
  BY <1>3, CountedFinite, FS_RemoveElement DEF LockInv, ReaderMutexInv
<1>5. MutexHeld' = {t} /\ Writers' = Writers
  BY <1>1, <1>2 DEF MutexHeld, Writers, TypeOK
<1>6. Readers' = IF reader_cnt = 1 THEN Readers ELSE Readers \ {t}
  BY <1>1 DEF Readers, TypeOK
<1>7. Readers' # {}
  <2>1. CASE reader_cnt = 1
    BY <2>1, <1>1, <1>6 DEF Readers
  <2>2. CASE reader_cnt # 1
    <3>1. Counted \subseteq Readers
      BY <1>2 DEF Counted, Readers, MutexHeld
    <3>2. Counted # {t}
      BY <2>2, <1>3, CountOne
    <3>3. QED
      BY <3>1, <3>2, <1>3, <1>6, <2>2
  <2>3. QED
    BY <2>1, <2>2
<1>8. FirstLastInv'
  BY <1>1, <1>2 DEF FirstLastInv, MutexHeld, TypeOK
<1>9. Readers # {}
  BY <1>1 DEF Readers
<1>10. QED
  BY <1>1, <1>4, <1>5, <1>6, <1>7, <1>8, <1>9
  DEF LockInv, ReaderMutexInv, WriterMutexInv

LEMMA FirstReaderLock ==
  ASSUME TypeOK, LockInv, NEW t \in Worker, FirstReader(t)
  PROVE  LockInv'
<1>1. /\ pc[t] = "find_first" /\ writer_mutex = 1 /\ writer_mutex' = 0
      /\ UNCHANGED <<reader_cnt, reader_mutex>>
      /\ pc' = [pc EXCEPT ![t] = "find_V"]
  BY DEF FirstReader, At, Goto, LockInv, WriterMutexInv, TypeOK
<1>2. Counted' = Counted /\ MutexHeld' = MutexHeld /\ Writers' = Writers
  BY <1>1 DEF Counted, MutexHeld, Writers, TypeOK
<1>3. Readers' = Readers \cup {t} /\ Writers = {}
  BY <1>1 DEF Readers, TypeOK, LockInv, WriterMutexInv
<1>4. FirstLastInv'
  BY <1>1 DEF LockInv, FirstLastInv, TypeOK
<1>5. QED
  BY <1>1, <1>2, <1>3, <1>4 DEF LockInv, ReaderMutexInv, WriterMutexInv

LEMMA LastReaderLock ==
  ASSUME TypeOK, LockInv, NEW t \in Worker, LastReader(t)
  PROVE  LockInv'
<1>1. /\ pc[t] = "done_last" /\ writer_mutex' = writer_mutex + 1
      /\ UNCHANGED <<reader_cnt, reader_mutex>>
      /\ pc' = [pc EXCEPT ![t] = "done_V"]
  BY DEF LastReader, At, Goto
<1>2. Counted' = Counted /\ MutexHeld' = MutexHeld /\ Writers' = Writers
  BY <1>1 DEF Counted, MutexHeld, Writers, TypeOK
<1>3. t \in Readers /\ t \in MutexHeld /\ Writers = {} /\ writer_mutex = 0
  BY <1>1 DEF Readers, MutexHeld, LockInv, WriterMutexInv
<1>4. Counted = {}
  BY <1>1, CountZero DEF LockInv, FirstLastInv
<1>5. Readers \subseteq Counted \cup MutexHeld
  BY DEF Readers, Counted, MutexHeld
<1>6. Readers = {t}
  BY <1>3, <1>4, <1>5 DEF LockInv, ReaderMutexInv
<1>7. Readers' = Readers \ {t}
  BY <1>1 DEF Readers, TypeOK
<1>8. FirstLastInv'
  BY <1>1 DEF LockInv, FirstLastInv, TypeOK
<1>9. QED
  BY <1>1, <1>2, <1>3, <1>6, <1>7, <1>8 DEF LockInv, ReaderMutexInv, WriterMutexInv

\* V(reader_mutex), at the end of either half of the protocol.
LEMMA ReaderUnlockLock ==
  ASSUME TypeOK, LockInv, NEW t \in Worker, ReaderEntered(t) \/ ReaderLeft(t)
  PROVE  LockInv'
<1>1. /\ pc[t] \in {"find_V", "done_V"}
      /\ reader_mutex' = reader_mutex + 1
      /\ UNCHANGED <<reader_cnt, writer_mutex>>
      /\ \E l \in {"search", "fetch", "write"} :
           /\ pc' = [pc EXCEPT ![t] = l]
           /\ l = "search" <=> pc[t] = "find_V"
  BY DEF ReaderEntered, ReaderLeft, At, Goto
<1>2. Counted' = Counted /\ Readers' = Readers /\ Writers' = Writers
  BY <1>1 DEF Counted, Readers, Writers, TypeOK
<1>3. MutexHeld' = MutexHeld \ {t} /\ t \in MutexHeld
  BY <1>1 DEF MutexHeld, TypeOK
<1>4. MutexHeld' = {} /\ reader_mutex = 0
  BY <1>3 DEF LockInv, ReaderMutexInv
<1>5. FirstLastInv'
  BY <1>1 DEF LockInv, FirstLastInv, TypeOK
<1>6. QED
  BY <1>1, <1>2, <1>4, <1>5 DEF LockInv, ReaderMutexInv, WriterMutexInv

LEMMA WriterLockLock ==
  ASSUME TypeOK, LockInv, NEW t \in Worker, WriterLock(t)
  PROVE  LockInv'
<1>1. /\ pc[t] \in {"move_P", "reput_P", "put_P"}
      /\ writer_mutex = 1 /\ writer_mutex' = 0
      /\ UNCHANGED <<reader_cnt, reader_mutex>>
      /\ \E l \in {"move", "put"} : pc' = [pc EXCEPT ![t] = l]
  BY DEF WriterLock, At, Goto, LockInv, WriterMutexInv, TypeOK
<1>2. Counted' = Counted /\ MutexHeld' = MutexHeld /\ Readers' = Readers
  BY <1>1 DEF Counted, MutexHeld, Readers, TypeOK
<1>3. Writers' = Writers \cup {t} /\ Writers = {} /\ Readers = {}
  BY <1>1 DEF Writers, TypeOK, LockInv, WriterMutexInv
<1>4. FirstLastInv'
  BY <1>1 DEF LockInv, FirstLastInv, TypeOK
<1>5. QED
  BY <1>1, <1>2, <1>3, <1>4 DEF LockInv, ReaderMutexInv, WriterMutexInv

\* V(writer_mutex), at the end of a critical section.
LEMMA WriterUnlockLock ==
  ASSUME TypeOK, LockInv, NEW t \in Worker, MoveOut(t) \/ Put(t)
  PROVE  LockInv'
<1>1. /\ pc[t] \in {"move", "put", "evict"}
      /\ writer_mutex' = writer_mutex + 1
      /\ UNCHANGED <<reader_cnt, reader_mutex>>
      /\ \E l \in {"reput_P", "close"} : pc' = [pc EXCEPT ![t] = l]
  BY DEF MoveOut, Put, At, Goto
<1>2. Counted' = Counted /\ MutexHeld' = MutexHeld /\ Readers' = Readers
  BY <1>1 DEF Counted, MutexHeld, Readers, TypeOK
<1>3. Writers' = Writers \ {t} /\ t \in Writers
  BY <1>1 DEF Writers, TypeOK
<1>4. Writers' = {} /\ Readers = {} /\ writer_mutex = 0
  BY <1>3 DEF LockInv, WriterMutexInv
<1>5. FirstLastInv'
  BY <1>1 DEF LockInv, FirstLastInv, TypeOK
<1>6. QED
  BY <1>1, <1>2, <1>4, <1>5 DEF LockInv, ReaderMutexInv, WriterMutexInv

LEMMA NextLock == TypeOK /\ LockInv /\ [Next]_vars => LockInv'
<1> SUFFICES ASSUME TypeOK, LockInv, [Next]_vars PROVE LockInv'
  OBVIOUS
<1> DEFINE Elsewhere == Labels \ {"find_first", "find_V", "search", "done_P",
                                  "done_last", "done_V", "move", "put", "evict"}
\* A step from a label outside the protocol to another one.
<1>1. ASSUME NEW t \in Worker, NEW l \in Elsewhere, pc[t] \in Elsewhere,
             pc' = [pc EXCEPT ![t] = l], UNCHANGED lockVars
      PROVE  LockInv'
  <2>1. MutexHeld' = MutexHeld /\ Counted' = Counted
    BY <1>1 DEF MutexHeld, Counted, TypeOK
  <2>2. Readers' = Readers /\ Writers' = Writers
    BY <1>1 DEF Readers, Writers, TypeOK
  <2>3. \A s \in Worker : pc'[s] \in {"find_first", "done_last"} => pc'[s] = pc[s]
    BY <1>1 DEF TypeOK
  <2>4. QED
    BY <2>1, <2>2, <2>3, <1>1, OtherSteps
<1>2. ASSUME UNCHANGED <<lockVars, pc>> PROVE LockInv'
  <2>1. MutexHeld' = MutexHeld /\ Counted' = Counted
        /\ Readers' = Readers /\ Writers' = Writers
    BY <1>2 DEF MutexHeld, Counted, Readers, Writers
  <2>2. QED
    BY <2>1, <1>2, OtherSteps
<1>3. CASE UNCHANGED vars \/ Halted
  BY <1>3, <1>2 DEF vars, Halted
<1>4. ASSUME NEW t \in Worker, Accept(t) PROVE LockInv'
  BY <1>4, <1>1 DEF Accept, Goto, Labels
<1>5. ASSUME NEW t \in Worker, Step(t) PROVE LockInv'
  <2>1. CASE ReaderEnter(t) \/ ReaderLeave(t)
    BY <2>1, ReaderEnterLock, ReaderLeaveLock
  <2>2. CASE FirstReader(t) \/ LastReader(t)
    BY <2>2, FirstReaderLock, LastReaderLock
  <2>3. CASE ReaderEntered(t) \/ ReaderLeft(t)
    BY <2>3, ReaderUnlockLock
  <2>4. CASE WriterLock(t)
    BY <2>4, WriterLockLock
  <2>5. CASE MoveOut(t) \/ Put(t)
    BY <2>5, WriterUnlockLock
  <2>6. CASE Search(t)
    <3>1. pc[t] = "search" /\ pc' = [pc EXCEPT ![t] = "done_P"] /\ UNCHANGED lockVars
      BY <2>6 DEF Search, At, Goto
    <3>2. MutexHeld' = MutexHeld /\ Counted' = Counted
      BY <3>1 DEF MutexHeld, Counted, TypeOK
    <3>3. Readers' = Readers /\ Writers' = Writers
      BY <3>1 DEF Readers, Writers, TypeOK
    <3>4. QED
      BY <3>1, <3>2, <3>3, OtherSteps DEF TypeOK
  <2>7. CASE PutMore(t)
    <3>1. pc[t] = "put" /\ pc' = [pc EXCEPT ![t] = "evict"] /\ UNCHANGED lockVars
      BY <2>7 DEF PutMore, At, Goto
    <3>2. MutexHeld' = MutexHeld /\ Counted' = Counted
      BY <3>1 DEF MutexHeld, Counted, TypeOK
    <3>3. Readers' = Readers /\ Writers' = Writers
      BY <3>1 DEF Readers, Writers, TypeOK
    <3>4. QED
      BY <3>1, <3>2, <3>3, OtherSteps DEF TypeOK
  <2>8. CASE WriteHit(t)
    BY <2>8, <1>1 DEF WriteHit, At, Goto, Labels
  <2>9. CASE Fetch(t)
    BY <2>9, <1>1 DEF Fetch, At, Goto, Labels
  <2>10. CASE Close(t)
    BY <2>10, <1>1 DEF Close, At, Goto, Labels
  <2>11. CASE Evict(t) \/ SearchSpins(t) \/ EvictSpins(t) \/ Die(t) \/ BadAccess(t)
    BY <2>11, <1>2 DEF Evict, SearchSpins, EvictSpins, Die, BadAccess, vars
  <2>12. QED
    BY <1>5, <2>1, <2>2, <2>3, <2>4, <2>5, <2>6, <2>7, <2>8, <2>9, <2>10, <2>11
    DEF Step
<1>6. QED
  BY <1>3, <1>4, <1>5 DEF Next

\* Any number of readers or one writer, and an exact count, in every state.
THEOREM LockCorrect == Spec => []LockInv
<1>1. Init => TypeOK /\ LockInv
  BY InitType, InitLock
<1>2. TypeOK /\ LockInv /\ [Next]_vars => TypeOK' /\ LockInv'
  BY NextType, NextLock
<1>3. QED
  BY <1>1, <1>2, PTL DEF Spec
-----------------------------------------------------------------------------
(***************************************************************************)
(* No deadlock.  A thread holds reader_mutex while it waits for            *)
(* writer_mutex (cache.c:103-109), and the last reader of a group needs    *)
(* reader_mutex to give writer_mutex back (cache.c:118-123): each waits    *)
(* for the other unless the group is empty when its first reader waits,    *)
(* which is what FirstLastInv and the exact count give.                    *)
(***************************************************************************)
\* The threads inside the lock, and what each of them may wait for.
LEMMA WritersMove ==
  ASSUME TypeOK, NEW s \in Writers
  PROVE  s \in InLock /\ ~ Waiting(s)
BY DEF Writers, InLock, Waiting, AwaitsReaderMutex, AwaitsWriterMutex

\* While a first reader waits for a writer, there is no other reader.
LEMMA FirstReaderIsAlone ==
  ASSUME TypeOK, LockInv, NEW h \in Worker, pc[h] = "find_first"
  PROVE  Readers = {}
<1>1. reader_cnt = 1 /\ h \in Counted /\ h \in MutexHeld
  BY DEF LockInv, FirstLastInv, Counted, MutexHeld
<1>2. Counted = {h}
  BY <1>1, CountOne
<1>3. MutexHeld = {h}
  BY <1>1 DEF LockInv, ReaderMutexInv
<1>4. ASSUME NEW r \in Readers PROVE FALSE
  <2>1. r \in Counted \/ r \in MutexHeld
    BY <1>4 DEF Readers, Counted, MutexHeld
  <2>2. r = h
    BY <2>1, <1>2, <1>3
  <2>3. QED
    BY <1>4, <2>2 DEF Readers
<1>5. QED
  BY <1>4

\* The holder of reader_mutex gives it back, or waits for a writer that moves.
LEMMA MutexIsReturned ==
  ASSUME TypeOK, LockInv, reader_mutex = 0
  PROVE  \E s \in InLock : ~ Waiting(s)
<1>1. PICK h : h \in MutexHeld
  BY DEF LockInv, ReaderMutexInv
<1>2. h \in Worker /\ h \in InLock
  BY <1>1 DEF MutexHeld, InLock
<1>3. CASE ~ Waiting(h)
  BY <1>2, <1>3
<1>4. CASE Waiting(h)
  <2>1. pc[h] = "find_first" /\ writer_mutex = 0
    BY <1>1, <1>4 DEF MutexHeld, Waiting, AwaitsReaderMutex, AwaitsWriterMutex
  <2>2. Readers = {}
    BY <1>2, <2>1, FirstReaderIsAlone
  <2>3. PICK w : w \in Writers
    BY <2>1, <2>2 DEF LockInv, WriterMutexInv
  <2>4. QED
    BY <2>3, WritersMove
<1>5. QED
  BY <1>3, <1>4

\* A writer moves, and so does a reader unless it waits for reader_mutex.
LEMMA WriterMutexIsReturned ==
  ASSUME TypeOK, LockInv, writer_mutex = 0
  PROVE  \E s \in InLock : ~ Waiting(s)
<1>1. CASE Writers # {}
  BY <1>1, WritersMove
<1>2. CASE Writers = {}
  <2>1. PICK r : r \in Readers
    BY <1>2 DEF LockInv, WriterMutexInv
  <2>2. CASE ~ Waiting(r)
    BY <2>1, <2>2 DEF InLock
  <2>3. CASE Waiting(r)
    <3>1. reader_mutex = 0
      BY <2>1, <2>3 DEF Readers, Waiting, AwaitsReaderMutex, AwaitsWriterMutex
    <3>2. QED
      BY <3>1, MutexIsReturned
  <2>4. QED
    BY <2>2, <2>3
<1>3. QED
  BY <1>1, <1>2

\* The readers-writers lock (cache.c:16-37, 84-124) does not deadlock: whatever the threads
\* look up and whatever has become of the list, while any of them is blocked in P one
\* that is inside the lock is not, and it waits for no client or server there.
THEOREM LockNeverDeadlocks == Spec => []SomeoneMoves
<1>1. TypeOK /\ LockInv => SomeoneMoves
  BY MutexIsReturned, WriterMutexIsReturned
  DEF SomeoneMoves, Waiting, AwaitsReaderMutex, AwaitsWriterMutex
<1>2. QED
  BY <1>1, TypeCorrect, LockCorrect, PTL
-----------------------------------------------------------------------------
LEMMA ListStepIsWriter ==
  ASSUME [Next]_vars, ~UNCHANGED <<head, tail, total_size>>
  PROVE  \E t \in Writers : MoveOut(t) \/ Evict(t) \/ Put(t)
<1> USE DEF listVars
<1>1. PICK t \in Worker : Accept(t) \/ Step(t)
  BY DEF Next, Halted, vars
<1>2. MoveOut(t) \/ Evict(t) \/ Put(t)
  BY <1>1 DEF Step, Accept, ReaderEnter, FirstReader, ReaderEntered, Search,
     SearchSpins, ReaderLeave, LastReader, ReaderLeft, WriteHit, WriterLock,
     Fetch, PutMore, EvictSpins, Close, Die, BadAccess, vars
<1>3. t \in Writers
  BY <1>2 DEF MoveOut, Evict, Put, At, Writers
<1>4. QED
  BY <1>2, <1>3

\* A traversal of the list sees one and the same list from its first step to
\* its last: this is what lets Search be one step.
THEOREM ReadersUndisturbed == Spec => StableWhileRead
<1>1. ASSUME LockInv, [Next]_vars
      PROVE  [(\E t \in Worker : pc[t] = "search") =>
                 UNCHANGED <<head, tail, total_size>>]_vars
  <2>1. SUFFICES ASSUME NEW t \in Worker, pc[t] = "search",
                        ~UNCHANGED <<head, tail, total_size>>
                 PROVE  FALSE
    OBVIOUS
  <2>2. t \in Readers
    BY <2>1 DEF Readers
  <2>3. Writers # {}
    BY <1>1, <2>1, ListStepIsWriter
  <2>4. QED
    BY <1>1, <2>2, <2>3 DEF LockInv, WriterMutexInv
<1>2. QED
  BY <1>1, LockCorrect, PTL DEF Spec, StableWhileRead
-----------------------------------------------------------------------------
(***************************************************************************)
(* Sums of sizes.  The sum of w over a set is counted one cell per byte;   *)
(* the fold of the community modules has this value.                       *)
(***************************************************************************)
Cells(w, S) == {c \in S \X (1 .. MaxObjectSize) : c[2] <= w[c[1]]}
Count(w, S) == Cardinality(Cells(w, S))

\* Every set of numbers has a least element: this takes the place of induction.
LEMMA LeastNat ==
  ASSUME NEW S, S \subseteq Nat, S # {}
  PROVE  \E x \in S : \A y \in S : x <= y
<1>1. PICK x \in S : \A y \in S : ~ (<<y, x>> \in OpToRel(<, Nat))
  BY NatLessThanWellFounded, WFMin
<1>2. \A y \in S : ~ (y < x)
  BY <1>1 DEF OpToRel
<1>3. QED
  BY <1>2

\* Sizes of the members of a finite set.
IsSizes(w, D) == IsFiniteSet(D) /\ w \in [D -> 0 .. MaxObjectSize]

\* The count is finite, and at most MaxObjectSize for each object.
LEMMA CountFinite ==
  ASSUME NEW D, NEW w, IsSizes(w, D), NEW S, S \subseteq D
  PROVE  /\ IsFiniteSet(Cells(w, S)) /\ Count(w, S) \in Nat
         /\ IsFiniteSet(S) /\ Cardinality(S) \in Nat
         /\ Count(w, S) <= Cardinality(S) * MaxObjectSize
<1>1. IsFiniteSet(S) /\ Cardinality(S) \in Nat
  BY FS_Subset, FS_CardinalityType DEF IsSizes
<1>2. IsFiniteSet(1 .. MaxObjectSize) /\ Cardinality(1 .. MaxObjectSize) = MaxObjectSize
  BY SizeAssumption, FS_Interval
<1> DEFINE P == S \X (1 .. MaxObjectSize)
<1>3. IsFiniteSet(P) /\ Cardinality(P) = Cardinality(S) * MaxObjectSize
  BY <1>1, <1>2, FS_Product
<1>4. Cells(w, S) \in SUBSET P
  BY DEF Cells
<1> HIDE DEF P
<1>5. IsFiniteSet(Cells(w, S)) /\ Cardinality(Cells(w, S)) <= Cardinality(P)
  BY <1>3, <1>4, FS_Subset
<1>6. QED
  BY <1>1, <1>3, <1>5, FS_CardinalityType DEF Count

\* The three equations that determine the count.
LEMMA NoCount ==
  ASSUME NEW w
  PROVE  Count(w, {}) = 0
<1>1. Cells(w, {}) = {}
  BY DEF Cells
<1>2. QED
  BY <1>1, FS_EmptySet DEF Count

\* The cells of one object are as many as its size.
LEMMA Column ==
  ASSUME NEW o, NEW n \in Nat
  PROVE  IsFiniteSet({o} \X (1 .. n)) /\ Cardinality({o} \X (1 .. n)) = n
<1>1. IsFiniteSet({o}) /\ Cardinality({o}) = 1
  BY FS_Singleton
<1>2. IsFiniteSet(1 .. n) /\ Cardinality(1 .. n) = IF 1 > n THEN 0 ELSE n - 1 + 1
  BY FS_Interval
<1>3. IsFiniteSet({o} \X (1 .. n)) /\
      Cardinality({o} \X (1 .. n)) = Cardinality({o}) * Cardinality(1 .. n)
  BY <1>1, <1>2, FS_Product
<1>4. Cardinality(1 .. n) = n
  BY <1>2
<1>5. QED
  BY <1>1, <1>3, <1>4

LEMMA CountOfOneMore ==
  ASSUME NEW D, NEW w, IsSizes(w, D), NEW S, S \subseteq D, NEW o \in D, o \notin S
  PROVE  Count(w, S \cup {o}) = Count(w, S) + w[o]
<1>1. PICK n \in Nat : n = w[o] /\ n <= MaxObjectSize /\ MaxObjectSize \in Nat
  BY SizeAssumption DEF IsSizes
<1> DEFINE R == {o} \X (1 .. n)
<1>2. IsFiniteSet(R) /\ Cardinality(R) = n
  BY Column
<1>3. Cells(w, S \cup {o}) = Cells(w, S) \cup R
  BY <1>1 DEF Cells
<1>4. Cells(w, S) \cap R = {}
  BY DEF Cells
<1>5. IsFiniteSet(Cells(w, S)) /\ Count(w, S) \in Nat
  BY CountFinite
<1> HIDE DEF R
<1>6. Cardinality(Cells(w, S) \cup R) =
        Cardinality(Cells(w, S)) + Cardinality(R) - Cardinality(Cells(w, S) \cap R)
  BY <1>2, <1>5, FS_Union
<1>7. Cardinality(Cells(w, S) \cup R) = Count(w, S) + n
  <2>1. Cardinality(Cells(w, S) \cap R) = 0
    BY <1>4, FS_EmptySet
  <2>2. QED
    BY <1>2, <1>5, <1>6, <2>1 DEF Count
<1>8. QED
  BY <1>1, <1>3, <1>7 DEF Count

LEMMA CountOfOneLess ==
  ASSUME NEW D, NEW w, IsSizes(w, D), NEW S, S \subseteq D, NEW o \in S
  PROVE  Count(w, S \ {o}) = Count(w, S) - w[o]
<1>1. S \ {o} \subseteq D /\ o \in D /\ o \notin S \ {o} /\ (S \ {o}) \cup {o} = S
  OBVIOUS
<1>2. Count(w, S) = Count(w, S \ {o}) + w[o]
  BY <1>1, CountOfOneMore
<1>3. Count(w, S \ {o}) \in Nat /\ w[o] \in Nat
  BY <1>1, CountFinite, SizeAssumption DEF IsSizes
<1>4. QED
  BY <1>2, <1>3

Any(s) == CHOOSE x \in s : TRUE
SumStep(w, S, f) ==
    [s \in SUBSET S |-> IF s = {} THEN 0 ELSE w[Any(s)] + f[s \ {Any(s)}]]

\* The recursive definition behind the fold determines its value on every set.
LEMMA CountStep ==
  ASSUME NEW D, NEW w, IsSizes(w, D), NEW S, S \subseteq D
  PROVE  [s \in SUBSET S |-> Count(w, s)] = SumStep(w, S, [s \in SUBSET S |-> Count(w, s)])
<1> DEFINE g == [s \in SUBSET S |-> Count(w, s)]
<1>1. \A s \in SUBSET S : g[s] = IF s = {} THEN 0 ELSE w[Any(s)] + g[s \ {Any(s)}]
  <2>1. TAKE s \in SUBSET S
  <2>2. CASE s = {}
    BY <2>2, NoCount
  <2>3. CASE s # {}
    <3>1. PICK o \in s : o = Any(s)
      BY <2>3 DEF Any
    <3>2. s \subseteq D
      OBVIOUS
    <3>3. Count(w, s) \in Nat
      BY <3>2, CountFinite
    <3>4. Count(w, s \ {o}) = Count(w, s) - w[o]
      BY <3>2, CountOfOneLess
    <3>5. w[o] \in Nat
      BY <3>2, SizeAssumption DEF IsSizes
    <3>6. QED
      BY <2>3, <3>1, <3>3, <3>4, <3>5
  <2>4. QED
    BY <2>2, <2>3
<1>2. QED
  BY <1>1 DEF SumStep

LEMMA SumIsUnique ==
  ASSUME NEW D, NEW w, IsSizes(w, D), NEW S, S \subseteq D, NEW f, f = SumStep(w, S, f)
  PROVE  f[S] = Count(w, S)
<1> DEFINE Wrong == {s \in SUBSET S : f[s] # Count(w, s)}
           Sizes == {Cardinality(s) : s \in Wrong}
<1>1. SUFFICES ASSUME Wrong # {} PROVE FALSE
  OBVIOUS
<1>2. \A s \in SUBSET S : Cardinality(s) \in Nat /\ IsFiniteSet(s)
  BY CountFinite
<1>3. Sizes \subseteq Nat /\ Sizes # {}
  BY <1>1, <1>2
<1>4. PICK s \in Wrong : \A r \in Wrong : Cardinality(s) <= Cardinality(r)
  <2>1. PICK n \in Sizes : \A k \in Sizes : n <= k
    BY <1>3, LeastNat
  <2>2. QED
    BY <2>1
<1>5. f[s] = IF s = {} THEN 0 ELSE w[Any(s)] + f[s \ {Any(s)}]
  <2>1. SumStep(w, S, f)[s] = IF s = {} THEN 0 ELSE w[Any(s)] + f[s \ {Any(s)}]
    BY DEF SumStep
  <2>2. QED
    BY <2>1
<1>6. s # {}
  BY <1>5, NoCount
<1> DEFINE o == Any(s)
<1>7. o \in s
  BY <1>6 DEF Any
<1> HIDE DEF o
<1>8. s \ {o} \notin Wrong
  <2>1. Cardinality(s \ {o}) = Cardinality(s) - 1
    BY <1>2, <1>7, FS_RemoveElement
  <2>2. QED
    BY <1>2, <1>4, <2>1
<1>9. f[s \ {o}] = Count(w, s) - w[o]
  BY <1>7, <1>8, CountOfOneLess
<1>10. Count(w, s) \in Nat /\ w[o] \in Nat
  BY <1>7, CountFinite, SizeAssumption DEF IsSizes
<1>11. QED
  BY <1>5, <1>6, <1>9, <1>10 DEF o

\* The bytes of a set of objects.
Bytes(S) == Count(size, S)

LEMMA ObjectSizes ==
  ASSUME TypeOK
  PROVE  IsSizes(size, Obj)
BY ObjAssumption DEF TypeOK, IsSizes

LEMMA CellsFinite ==
  ASSUME TypeOK, NEW S, S \subseteq Obj
  PROVE  /\ Bytes(S) \in Nat /\ IsFiniteSet(S) /\ Cardinality(S) \in Nat
         /\ Bytes(S) <= Cardinality(S) * MaxObjectSize
BY ObjectSizes, CountFinite DEF Bytes

LEMMA NoBytes == Bytes({}) = 0
BY NoCount DEF Bytes

LEMMA BytesOfOneMore ==
  ASSUME TypeOK, NEW S, S \subseteq Obj, NEW o \in Obj, o \notin S
  PROVE  Bytes(S \cup {o}) = Bytes(S) + size[o]
BY ObjectSizes, CountOfOneMore DEF Bytes

LEMMA BytesOfOneLess ==
  ASSUME TypeOK, NEW S, S \subseteq Obj, NEW o \in S
  PROVE  Bytes(S \ {o}) = Bytes(S) - size[o]
BY ObjectSizes, CountOfOneLess DEF Bytes

\* QueueSize of the model is the count.
LEMMA FoldIsBytes ==
  ASSUME TypeOK, NEW S, S \subseteq Obj
  PROVE  MapThenSumSet(LAMBDA o : size[o], S) = Bytes(S)
<1> DEFINE f == CHOOSE iter : iter = SumStep(size, S, iter)
<1>1. f = SumStep(size, S, f)
  BY ObjectSizes, CountStep
<1>2. MapThenSumSet(LAMBDA o : size[o], S) = f[S]
  BY DEF MapThenSumSet, MapThenFoldSet, SumStep, Any
<1>3. QED
  BY <1>1, <1>2, ObjectSizes, SumIsUnique DEF Bytes
-----------------------------------------------------------------------------
(***************************************************************************)
(* The list.  Chain(n, q): its pointers hold together the n objects        *)
(* q[1] .. q[n], from head to tail.  One such q is the walk nth, so the    *)
(* recursion of nth needs no induction beyond a least index at which two   *)
(* walks differ.                                                           *)
(***************************************************************************)
Chain(n, q) ==
    /\ q \in [1 .. n -> Obj]
    /\ \A i, j \in 1 .. n : q[i] = q[j] => i = j
    /\ head = IF n = 0 THEN NULL ELSE q[1]
    /\ tail = IF n = 0 THEN NULL ELSE q[n]
    /\ \A i \in 1 .. n : /\ next[q[i]] = IF i = n THEN NULL ELSE q[i + 1]
                         /\ prev[q[i]] = IF i = 1 THEN NULL ELSE q[i - 1]

Listed(n, q) == {q[i] : i \in 1 .. n}

IsList == \E n \in Nat : \E q : Chain(n, q)

NthStep(f) == [i \in Steps |-> IF i = 0 THEN head
                               ELSE IF f[i - 1] = NULL THEN NULL ELSE next[f[i - 1]]]

LEMMA StepsNat == /\ Cardinality(Obj) \in Nat /\ Steps \subseteq Nat
                  /\ \A i \in Steps : i # 0 => i - 1 \in Steps
BY ObjAssumption, FS_CardinalityType DEF Steps

\* Two solutions of the recursion of nth agree: at a least index where they differ
\* they would be equal.
LEMMA NthUnique ==
  ASSUME NEW f, f = NthStep(f), NEW g, g = NthStep(g), NEW i \in Steps
  PROVE  f[i] = g[i]
<1> DEFINE Differ == {k \in Steps : f[k] # g[k]}
<1>1. SUFFICES ASSUME Differ # {} PROVE FALSE
  OBVIOUS
<1>2. PICK k \in Differ : \A j \in Differ : k <= j
  BY <1>1, StepsNat, LeastNat
<1>3. /\ NthStep(f)[k] = IF k = 0 THEN head ELSE IF f[k - 1] = NULL THEN NULL ELSE next[f[k - 1]]
      /\ NthStep(g)[k] = IF k = 0 THEN head ELSE IF g[k - 1] = NULL THEN NULL ELSE next[g[k - 1]]
  BY DEF NthStep
<1>4. k # 0
  BY <1>3
<1>5. f[k - 1] = g[k - 1]
  BY <1>2, <1>4, StepsNat
<1>6. QED
  BY <1>3, <1>5

\* nth is the one solution of its recursion.
LEMMA NthIs ==
  ASSUME NEW g, g = NthStep(g)
  PROVE  /\ nth = NthStep(nth)
         /\ \A i \in Steps : nth[i] = g[i]
<1> DEFINE f == CHOOSE nth1 : nth1 = NthStep(nth1)
<1>1. f = NthStep(f)
  OBVIOUS
<1>2. nth = f
  BY DEF nth, NthStep
<1>3. QED
  BY <1>1, <1>2, NthUnique

\* The list is not longer than there are addresses.
LEMMA ChainLength ==
  ASSUME NEW n \in Nat, NEW q, Chain(n, q)
  PROVE  n <= Cardinality(Obj) /\ n \in Steps
<1>1. q \in Injection(1 .. n, Obj)
  BY DEF Chain, Injection, IsInjective
<1>2. Cardinality(1 .. n) <= Cardinality(Obj)
  BY <1>1, ObjAssumption, FS_Injection
<1>3. Cardinality(1 .. n) = IF 1 > n THEN 0 ELSE n - 1 + 1
  BY FS_Interval
<1>4. QED
  BY <1>2, <1>3, StepsNat DEF Steps

\* The walk meets the objects of the chain in order, and then NULL.
LEMMA ChainWalk ==
  ASSUME NEW n \in Nat, NEW q, Chain(n, q)
  PROVE  /\ \A i \in Steps : nth[i] = IF i < n THEN q[i + 1] ELSE NULL
         /\ Queue = Listed(n, q)
<1> DEFINE g == [i \in Steps |-> IF i < n THEN q[i + 1] ELSE NULL]
<1>1. \A i \in 1 .. n : q[i] \in Obj /\ q[i] # NULL
  BY ObjAssumption DEF Chain
<1>2. \A i \in Steps : g[i] = IF i = 0 THEN head
                               ELSE IF g[i - 1] = NULL THEN NULL ELSE next[g[i - 1]]
  <2>1. TAKE i \in Steps
  <2>2. CASE i = 0
    BY <2>2 DEF Chain
  <2>3. CASE i # 0 /\ i - 1 < n
    <3>1. i \in 1 .. n /\ i - 1 \in Steps /\ i - 1 + 1 = i
      BY <2>3, StepsNat
    <3>2. g[i - 1] = q[i] /\ q[i] # NULL
      BY <1>1, <2>3, <3>1
    <3>3. next[q[i]] = IF i = n THEN NULL ELSE q[i + 1]
      BY <3>1 DEF Chain
    <3>4. (i < n <=> i # n) /\ g[i] = IF i < n THEN q[i + 1] ELSE NULL
      BY <3>1
    <3>5. QED
      BY <2>3, <3>2, <3>3, <3>4
  <2>4. CASE i # 0 /\ ~ (i - 1 < n)
    <3>1. i - 1 \in Steps /\ ~ (i < n)
      BY <2>4, StepsNat
    <3>2. QED
      BY <2>4, <3>1
  <2>5. QED
    BY <2>2, <2>3, <2>4
<1>3. g = NthStep(g)
  BY <1>2 DEF NthStep
<1>4. \A i \in Steps : nth[i] = g[i]
  BY <1>3, NthIs
<1>5. \A i \in Steps : nth[i] = IF i < n THEN q[i + 1] ELSE NULL
  BY <1>4
<1>6. Queue \subseteq Listed(n, q)
  <2>1. SUFFICES ASSUME NEW i \in Steps, nth[i] # NULL PROVE nth[i] \in Listed(n, q)
    BY DEF Queue
  <2>2. i < n /\ nth[i] = q[i + 1]
    BY <1>5, <2>1
  <2>3. i + 1 \in 1 .. n
    BY <2>2, StepsNat
  <2>4. QED
    BY <2>2, <2>3 DEF Listed
<1>7. Listed(n, q) \subseteq Queue
  <2>1. SUFFICES ASSUME NEW i \in 1 .. n PROVE q[i] \in Queue
    BY DEF Listed
  <2>2. i - 1 \in Steps /\ i - 1 < n /\ i - 1 + 1 = i
    BY ChainLength, StepsNat DEF Steps
  <2>3. nth[i - 1] = q[i]
    BY <1>5, <2>2
  <2>4. QED
    BY <1>1, <2>2, <2>3 DEF Queue
<1>8. QED
  BY <1>5, <1>6, <1>7

\* The last fact, stated so that it can be used of the next state as well.
ChainIsQueue == \A n \in Nat : \A q : Chain(n, q) => Queue = Listed(n, q)

LEMMA ChainQueue == ChainIsQueue
BY ChainWalk DEF ChainIsQueue

LEMMA ChainQueueNext == ChainIsQueue'
BY ChainQueue, PTL

\* A chain in the next state gives the list of the next state.
LEMMA NewChain ==
  ASSUME NEW n \in Nat, NEW q, Chain(n, q)'
  PROVE  IsList' /\ Queue' = Listed(n, q)
<1>1. IsList'
  BY DEF IsList
<1>2. Listed(n, q)' = Listed(n, q)
  BY DEF Listed
<1>3. Queue' = Listed(n, q)'
  BY ChainQueueNext DEF ChainIsQueue
<1>4. QED
  BY <1>1, <1>2, <1>3

\* Ends and links of a list.
LEMMA ListEnds ==
  ASSUME IsList
  PROVE  /\ Queue \subseteq Obj /\ nth[Cardinality(Obj)] = NULL
         /\ head = NULL <=> Queue = {}
         /\ tail = NULL <=> Queue = {}
         /\ Queue # {} => /\ head \in Queue /\ tail \in Queue
                          /\ prev[head] = NULL /\ next[tail] = NULL
         /\ \A o \in Queue : /\ next[o] # NULL => next[o] \in Queue /\ prev[next[o]] = o
                             /\ o # tail => next[o] \in Queue
                             /\ o # head => prev[o] \in Queue
<1>1. PICK n \in Nat : \E q : Chain(n, q)
  BY DEF IsList
<1>2. PICK q : Chain(n, q)
  BY <1>1
<1>3. Queue = Listed(n, q) /\ n \in Steps /\ n <= Cardinality(Obj)
  BY <1>2, ChainWalk, ChainLength
<1>4. \A i \in 1 .. n : q[i] \in Obj /\ q[i] # NULL /\ q[i] \in Queue
  BY <1>2, <1>3, ObjAssumption DEF Chain, Listed
<1>5. nth[Cardinality(Obj)] = NULL
  <2>1. Cardinality(Obj) \in Steps
    BY StepsNat DEF Steps
  <2>2. QED
    BY <1>2, <1>3, <2>1, ChainWalk, StepsNat
<1>6. n = 0 \/ (n > 0 /\ 1 \in 1 .. n /\ n \in 1 .. n)
  OBVIOUS
<1>7. CASE n = 0
  <2>1. Queue = {} /\ head = NULL /\ tail = NULL
    BY <1>2, <1>3, <1>7 DEF Chain, Listed
  <2>2. QED
    BY <1>5, <2>1
<1>8. CASE n > 0 /\ 1 \in 1 .. n /\ n \in 1 .. n
  <2>1. head = q[1] /\ tail = q[n] /\ prev[q[1]] = NULL /\ next[q[n]] = NULL
    BY <1>2, <1>8 DEF Chain
  <2>2. ASSUME NEW o \in Queue
        PROVE  /\ next[o] # NULL => next[o] \in Queue /\ prev[next[o]] = o
               /\ o # tail => next[o] \in Queue
               /\ o # head => prev[o] \in Queue
    <3>1. PICK i \in 1 .. n : o = q[i]
      BY <1>3 DEF Listed
    <3>2. /\ next[o] = IF i = n THEN NULL ELSE q[i + 1]
          /\ prev[o] = IF i = 1 THEN NULL ELSE q[i - 1]
      BY <1>2, <3>1 DEF Chain
    <3>3. i # n => /\ next[o] = q[i + 1] /\ q[i + 1] \in Queue /\ prev[q[i + 1]] = q[i]
      <4>1. SUFFICES ASSUME i # n
                     PROVE  next[o] = q[i + 1] /\ q[i + 1] \in Queue /\ prev[q[i + 1]] = q[i]
        OBVIOUS
      <4>2. i + 1 \in 1 .. n /\ i + 1 # 1 /\ i + 1 - 1 = i
        BY <4>1
      <4>3. QED
        BY <1>2, <1>4, <3>2, <4>1, <4>2 DEF Chain
    <3>4. i # 1 => i - 1 \in 1 .. n
      OBVIOUS
    <3>5. QED
      BY <1>4, <2>1, <3>1, <3>2, <3>3, <3>4
  <2>3. Queue # {} /\ head \in Queue /\ tail \in Queue /\ head # NULL /\ tail # NULL
    BY <1>4, <1>8, <2>1
  <2>4. Queue \subseteq Obj
    BY <1>3, <1>4 DEF Listed
  <2>5. QED
    BY <1>5, <2>1, <2>2, <2>3, <2>4
<1>9. QED
  BY <1>6, <1>7, <1>8

\* The search ends: at an object of the list with the key, or at the NULL behind it.
LEMMA SearchEnds ==
  ASSUME TypeOK, IsList, Queue \subseteq live, NEW u \in Uri
  PROVE  /\ Stops(u) # {}
         /\ StopOf(u) = NULL \/ (StopOf(u) \in Queue /\ key[StopOf(u)] = u)
<1>1. nth[Cardinality(Obj)] = NULL /\ Cardinality(Obj) \in Steps /\ NULL \notin live
  BY ListEnds, StepsNat, ObjAssumption DEF Steps, TypeOK
<1>2. Stops(u) # {} /\ Stops(u) \subseteq Nat
  BY <1>1, StepsNat DEF Stops
<1>3. Min(Stops(u)) \in Stops(u)
  BY <1>2, LeastNat DEF Min
<1> DEFINE i == Min(Stops(u))
<1> HIDE DEF i
<1>4. i \in Steps /\ (nth[i] \notin live \/ key[nth[i]] = u)
  BY <1>3 DEF Stops, i
<1>5. nth[i] = NULL \/ nth[i] \in Queue
  BY <1>4 DEF Queue
<1>6. nth[i] = NULL \/ (nth[i] \in Queue /\ key[nth[i]] = u)
  BY <1>4, <1>5
<1>7. StopOf(u) = nth[i]
  BY DEF StopOf, i
<1>8. QED
  BY <1>2, <1>6, <1>7

\* The objects but the k-th.
Without(n, q, k) == [i \in 1 .. n - 1 |-> IF i < k THEN q[i] ELSE q[i + 1]]

\* They are the same objects without that one, each once.
LEMMA WithoutOne ==
  ASSUME NEW n \in Nat, NEW q \in [1 .. n -> Obj],
         \A i, j \in 1 .. n : q[i] = q[j] => i = j, NEW k \in 1 .. n
  PROVE  /\ n - 1 \in Nat /\ Without(n, q, k) \in [1 .. n - 1 -> Obj]
         /\ \A i, j \in 1 .. n - 1 : Without(n, q, k)[i] = Without(n, q, k)[j] => i = j
         /\ Listed(n - 1, Without(n, q, k)) = Listed(n, q) \ {q[k]}
<1> DEFINE r == Without(n, q, k)
<1>1. n - 1 \in Nat /\ \A i \in 1 .. n - 1 : i \in 1 .. n /\ i + 1 \in 1 .. n
  OBVIOUS
<1>2. \A i \in 1 .. n - 1 : r[i] = IF i < k THEN q[i] ELSE q[i + 1]
  BY DEF Without
<1>3. r \in [1 .. n - 1 -> Obj]
  BY <1>1 DEF Without
<1> HIDE DEF r
<1>4. \A i, j \in 1 .. n - 1 : r[i] = r[j] => i = j
  <2>1. SUFFICES ASSUME NEW i \in 1 .. n - 1, NEW j \in 1 .. n - 1, r[i] = r[j] PROVE i = j
    OBVIOUS
  <2>2. (IF i < k THEN i ELSE i + 1) = (IF j < k THEN j ELSE j + 1)
    BY <1>1, <1>2, <2>1
  <2>3. QED
    BY <2>2
<1>5. Listed(n - 1, r) \subseteq Listed(n, q) \ {q[k]}
  <2>1. SUFFICES ASSUME NEW i \in 1 .. n - 1 PROVE r[i] \in Listed(n, q) /\ r[i] # q[k]
    BY DEF Listed
  <2>2. CASE i < k
    BY <1>1, <1>2, <2>2 DEF Listed
  <2>3. CASE ~ (i < k)
    <3>1. i + 1 \in 1 .. n /\ i + 1 # k
      BY <1>1, <2>3
    <3>2. QED
      BY <1>2, <2>3, <3>1 DEF Listed
  <2>4. QED
    BY <2>2, <2>3
<1>6. Listed(n, q) \ {q[k]} \subseteq Listed(n - 1, r)
  <2>1. SUFFICES ASSUME NEW i \in 1 .. n, i # k PROVE q[i] \in Listed(n - 1, r)
    BY DEF Listed
  <2>2. CASE i < k
    <3>1. i \in 1 .. n - 1 /\ r[i] = q[i]
      BY <1>2, <2>2
    <3>2. QED
      BY <3>1 DEF Listed
  <2>3. CASE i > k
    <3>1. i - 1 \in 1 .. n - 1 /\ ~ (i - 1 < k) /\ i - 1 + 1 = i
      BY <2>3
    <3>2. r[i - 1] = q[i]
      BY <1>2, <3>1
    <3>3. QED
      BY <3>1, <3>2 DEF Listed
  <2>4. QED
    BY <2>1, <2>2, <2>3
<1>7. QED
  BY <1>1, <1>3, <1>4, <1>5, <1>6 DEF r

\* Each of the four branches leaves a list of the other objects.
LEMMA UnlinkChain ==
  ASSUME TypeOK, NEW n \in Nat, NEW q, Chain(n, q), NEW k \in 1 .. n, Unlink(q[k]),
         NEW r, r = Without(n, q, k)
  PROVE  n - 1 \in Nat /\ Chain(n - 1, r)'
<1> DEFINE m == n - 1
<1>1. /\ q \in [1 .. n -> Obj] /\ \A i, j \in 1 .. n : q[i] = q[j] => i = j
      /\ head = q[1] /\ tail = q[n]
      /\ \A i \in 1 .. n : /\ next[q[i]] = IF i = n THEN NULL ELSE q[i + 1]
                           /\ prev[q[i]] = IF i = 1 THEN NULL ELSE q[i - 1]
      /\ 1 \in 1 .. n /\ n \in 1 .. n
  BY DEF Chain
<1>2. /\ m \in Nat /\ r \in [1 .. m -> Obj] /\ \A i, j \in 1 .. m : r[i] = r[j] => i = j
  <2>1. q \in [1 .. n -> Obj]
    BY <1>1
  <2>2. \A i, j \in 1 .. n : q[i] = q[j] => i = j
    BY <1>1
  <2>3. m \in Nat
    OBVIOUS
  <2>4. QED
    BY <2>1, <2>2, <2>3, WithoutOne
<1>3. /\ \A i \in 1 .. m : r[i] = IF i < k THEN q[i] ELSE q[i + 1]
      /\ \A i \in 1 .. m : i \in 1 .. n /\ i + 1 \in 1 .. n
  BY DEF Without
<1>4. next \in [Obj -> Obj \cup {NULL}] /\ prev \in [Obj -> Obj \cup {NULL}]
  BY DEF TypeOK
<1>5. SUFFICES /\ head' = IF m = 0 THEN NULL ELSE r[1]
               /\ tail' = IF m = 0 THEN NULL ELSE r[m]
               /\ \A i \in 1 .. m : /\ next'[r[i]] = IF i = m THEN NULL ELSE r[i + 1]
                                    /\ prev'[r[i]] = IF i = 1 THEN NULL ELSE r[i - 1]
  BY <1>2 DEF Chain
<1>6. CASE n = 1
  BY <1>1, <1>6 DEF Unlink
<1>7. CASE n # 1 /\ k = 1
  <2>1. /\ q[1] # q[n] /\ 2 \in 1 .. n /\ next[q[1]] = q[2] /\ q[2] \in Obj
    <3>1. 2 \in 1 .. n /\ 1 + 1 = 2
      BY <1>7
    <3>2. QED
      BY <1>1, <1>7, <3>1
  <2>2. /\ head' = q[2] /\ tail' = q[n] /\ next' = next
        /\ prev' = [prev EXCEPT ![q[2]] = NULL]
    BY <1>1, <1>7, <2>1 DEF Unlink
  <2>3. \A i \in 1 .. m : r[i] = q[i + 1]
    BY <1>3, <1>7
  <2>4. m # 0 /\ 1 \in 1 .. m /\ m \in 1 .. m /\ r[1] = q[2] /\ r[m] = q[n]
    BY <1>7, <2>3
  <2>5. ASSUME NEW i \in 1 .. m
        PROVE  /\ next'[r[i]] = IF i = m THEN NULL ELSE r[i + 1]
               /\ prev'[r[i]] = IF i = 1 THEN NULL ELSE r[i - 1]
    <3>1. r[i] = q[i + 1] /\ i + 1 \in 1 .. n /\ q[i + 1] \in Obj
      BY <1>1, <1>3, <2>3
    <3>2. next'[r[i]] = IF i + 1 = n THEN NULL ELSE q[i + 1 + 1]
      BY <1>1, <2>2, <3>1
    <3>3. i # m => r[i + 1] = q[i + 1 + 1] /\ i + 1 # n
      <4>1. i # m => i + 1 \in 1 .. m
        OBVIOUS
      <4>2. QED
        BY <2>3, <4>1
    <3>4. i = m => i + 1 = n
      OBVIOUS
    <3>5. prev[q[i + 1]] = q[i]
      BY <1>1, <3>1
    <3>6. CASE i = 1
      BY <1>4, <2>1, <2>2, <2>4, <3>2, <3>3, <3>4, <3>6
    <3>7. CASE i # 1
      <4>1. i - 1 \in 1 .. m /\ i + 1 # 2
        BY <3>7
      <4>2. r[i - 1] = q[i - 1 + 1] /\ i - 1 + 1 = i
        BY <2>3, <4>1
      <4>3. q[i + 1] # q[2]
        BY <1>1, <2>1, <3>1, <4>1
      <4>4. prev'[q[i + 1]] = q[i]
        BY <1>4, <2>2, <3>1, <3>5, <4>3
      <4>5. QED
        BY <3>1, <3>2, <3>3, <3>4, <3>7, <4>2, <4>4
    <3>8. QED
      BY <3>6, <3>7
  <2>6. QED
    BY <2>2, <2>4, <2>5
<1>8. CASE n # 1 /\ k = n
  <2>1. /\ q[1] # q[n] /\ m \in 1 .. n /\ prev[q[n]] = q[m] /\ q[m] \in Obj
    BY <1>1, <1>8
  <2>2. /\ head' = q[1] /\ tail' = q[m] /\ prev' = prev
        /\ next' = [next EXCEPT ![q[m]] = NULL]
    BY <1>1, <1>8, <2>1 DEF Unlink
  <2>3. \A i \in 1 .. m : r[i] = q[i]
    BY <1>3, <1>8
  <2>4. m # 0 /\ 1 \in 1 .. m /\ m \in 1 .. m /\ r[1] = q[1] /\ r[m] = q[m]
    BY <1>8, <2>3
  <2>5. ASSUME NEW i \in 1 .. m
        PROVE  /\ next'[r[i]] = IF i = m THEN NULL ELSE r[i + 1]
               /\ prev'[r[i]] = IF i = 1 THEN NULL ELSE r[i - 1]
    <3>1. r[i] = q[i] /\ i \in 1 .. n /\ i # n /\ q[i] \in Obj /\ next[q[i]] = q[i + 1]
      BY <1>1, <1>3, <2>3
    <3>2. i # m => q[i] # q[m] /\ i + 1 \in 1 .. m
      BY <1>1, <2>1, <3>1
    <3>3. next'[q[i]] = IF i = m THEN NULL ELSE q[i + 1]
      BY <1>4, <2>1, <2>2, <3>1, <3>2
    <3>4. i # m => r[i + 1] = q[i + 1]
      BY <2>3, <3>2
    <3>5. prev'[q[i]] = IF i = 1 THEN NULL ELSE q[i - 1]
      BY <1>1, <2>2, <3>1
    <3>6. i # 1 => r[i - 1] = q[i - 1]
      <4>1. i # 1 => i - 1 \in 1 .. m
        OBVIOUS
      <4>2. QED
        BY <2>3, <4>1
    <3>7. QED
      BY <3>1, <3>3, <3>4, <3>5, <3>6
  <2>6. QED
    BY <2>2, <2>4, <2>5
<1>9. CASE k # 1 /\ k # n
  <2>1. /\ k - 1 \in 1 .. n /\ k + 1 \in 1 .. n /\ q[k - 1] \in Obj /\ q[k + 1] \in Obj
        /\ q[k] # q[1] /\ q[k] # q[n] /\ q[1] # q[n]
        /\ prev[q[k]] = q[k - 1] /\ next[q[k]] = q[k + 1]
    <3>1. k - 1 \in 1 .. n /\ k + 1 \in 1 .. n /\ 1 # n
      BY <1>9
    <3>2. QED
      BY <1>1, <1>9, <3>1
  <2>2. /\ head' = q[1] /\ tail' = q[n]
        /\ next' = [next EXCEPT ![q[k - 1]] = q[k + 1]]
        /\ prev' = [prev EXCEPT ![q[k + 1]] = q[k - 1]]
    BY <1>1, <2>1 DEF Unlink
  <2>3. m # 0 /\ 1 \in 1 .. m /\ m \in 1 .. m /\ 1 < k /\ ~ (m < k) /\ m + 1 = n
    BY <1>9
  <2>4. r[1] = q[1] /\ r[m] = q[n]
    BY <1>3, <2>3
  <2>5. ASSUME NEW i \in 1 .. m
        PROVE  /\ next'[r[i]] = IF i = m THEN NULL ELSE r[i + 1]
               /\ prev'[r[i]] = IF i = 1 THEN NULL ELSE r[i - 1]
    <3>1. CASE i < k
      <4>1. r[i] = q[i] /\ i \in 1 .. n /\ i # n /\ i # m + 1 /\ q[i] \in Obj
        BY <1>1, <1>3, <3>1
      <4>2. q[i] # q[k + 1] /\ i # m
        BY <1>1, <2>1, <2>3, <3>1, <4>1
      <4>3. prev'[q[i]] = IF i = 1 THEN NULL ELSE q[i - 1]
        BY <1>1, <1>4, <2>2, <4>1, <4>2
      <4>4. i # 1 => i - 1 \in 1 .. m /\ i - 1 < k
        BY <3>1
      <4>5. i # 1 => r[i - 1] = q[i - 1]
        BY <1>3, <4>4
      <4>6. i + 1 \in 1 .. m
        BY <4>2
      <4>7. CASE i = k - 1
        <5>1. next'[q[i]] = q[k + 1]
          BY <1>4, <2>1, <2>2, <4>7
        <5>2. r[i + 1] = q[i + 1 + 1] /\ i + 1 = k
          BY <1>3, <4>6, <4>7
        <5>3. QED
          BY <4>1, <4>2, <4>3, <4>5, <5>1, <5>2
      <4>8. CASE i # k - 1
        <5>1. q[i] # q[k - 1]
          BY <1>1, <2>1, <4>1, <4>8
        <5>2. next'[q[i]] = q[i + 1]
          BY <1>1, <1>4, <2>2, <4>1, <5>1
        <5>3. r[i + 1] = q[i + 1]
          <6>1. i + 1 < k
            BY <3>1, <4>8
          <6>2. QED
            BY <1>3, <4>6, <6>1
        <5>4. QED
          BY <4>1, <4>2, <4>3, <4>5, <5>2, <5>3
      <4>9. QED
        BY <4>7, <4>8
    <3>2. CASE ~ (i < k)
      <4>1. PICK j \in 1 .. n : j = i + 1 /\ j > k /\ r[i] = q[j] /\ q[j] \in Obj
        BY <1>1, <1>3, <3>2
      <4>2. q[j] # q[k - 1]
        BY <1>1, <2>1, <4>1
      <4>3. next'[q[j]] = IF j = n THEN NULL ELSE q[j + 1]
        BY <1>1, <1>4, <2>2, <4>1, <4>2
      <4>4. i # m => i + 1 \in 1 .. m /\ ~ (i + 1 < k) /\ j # n
        BY <3>2, <4>1
      <4>5. i # m => r[i + 1] = q[j + 1]
        BY <1>3, <4>1, <4>4
      <4>6. i = m => j = n
        BY <4>1
      <4>7. i # 1 /\ i - 1 \in 1 .. m
        BY <2>3, <3>2
      <4>8. CASE j = k + 1
        <5>1. prev'[q[j]] = q[k - 1]
          BY <1>4, <2>1, <2>2, <4>8
        <5>2. i = k /\ i - 1 < k
          BY <4>1, <4>8
        <5>3. r[i - 1] = q[k - 1]
          BY <1>3, <4>7, <5>2
        <5>4. QED
          BY <4>1, <4>3, <4>4, <4>5, <4>6, <4>7, <5>1, <5>3
      <4>9. CASE j # k + 1
        <5>1. q[j] # q[k + 1]
          BY <1>1, <2>1, <4>1, <4>9
        <5>2. prev'[q[j]] = q[j - 1] /\ j - 1 = i
          BY <1>1, <1>4, <2>2, <4>1, <5>1
        <5>3. ~ (i - 1 < k) /\ i - 1 + 1 = i
          BY <3>2, <4>1, <4>9
        <5>4. r[i - 1] = q[i]
          BY <1>3, <4>7, <5>3
        <5>5. QED
          BY <4>1, <4>3, <4>4, <4>5, <4>6, <4>7, <5>2, <5>4
      <4>10. QED
        BY <4>8, <4>9
    <3>3. QED
      BY <3>1, <3>2
  <2>6. QED
    BY <2>2, <2>3, <2>4, <2>5
<1>10. QED
  BY <1>6, <1>7, <1>8, <1>9

\* The objects and one more behind them.
With(n, q, c) == [i \in 1 .. n + 1 |-> IF i <= n THEN q[i] ELSE c]

\* Link appends the object to the chain.
LEMMA LinkChain ==
  ASSUME TypeOK, NEW n \in Nat, NEW q, Chain(n, q), NEW c \in Obj, c \notin Listed(n, q), Link(c),
         NEW r, r = With(n, q, c)
  PROVE  n + 1 \in Nat /\ Chain(n + 1, r)' /\ Listed(n + 1, r) = Listed(n, q) \cup {c}
<1> DEFINE m == n + 1
<1>1. /\ q \in [1 .. n -> Obj] /\ \A i, j \in 1 .. n : q[i] = q[j] => i = j
      /\ \A i \in 1 .. n : q[i] \in Obj /\ q[i] # c /\ q[i] # NULL
      /\ \A i \in 1 .. n : /\ next[q[i]] = IF i = n THEN NULL ELSE q[i + 1]
                           /\ prev[q[i]] = IF i = 1 THEN NULL ELSE q[i - 1]
  BY ObjAssumption DEF Chain, Listed
<1>2. /\ r \in [1 .. m -> Obj] /\ r[m] = c /\ m \in Nat /\ m \in 1 .. m /\ m # 0
      /\ \A i \in 1 .. n : i \in 1 .. m /\ r[i] = q[i] /\ i # m
      /\ \A i \in 1 .. m : i \in 1 .. n \/ i = m
  BY <1>1 DEF With
<1>3. next \in [Obj -> Obj \cup {NULL}] /\ prev \in [Obj -> Obj \cup {NULL}]
  BY DEF TypeOK
<1>4. \A i, j \in 1 .. m : r[i] = r[j] => i = j
  BY <1>1, <1>2
<1>5. Listed(m, r) = Listed(n, q) \cup {c}
  BY <1>1, <1>2 DEF Listed
<1>6. SUFFICES /\ head' = r[1] /\ tail' = r[m]
               /\ \A i \in 1 .. m : /\ next'[r[i]] = IF i = m THEN NULL ELSE r[i + 1]
                                    /\ prev'[r[i]] = IF i = 1 THEN NULL ELSE r[i - 1]
  BY <1>2, <1>4, <1>5 DEF Chain
<1>7. CASE n = 0
  <2>1. ListEmpty /\ m = 1
    BY <1>7 DEF Chain, ListEmpty
  <2>2. /\ head' = c /\ tail' = c
        /\ next' = [next EXCEPT ![c] = NULL] /\ prev' = [prev EXCEPT ![c] = NULL]
    BY <2>1 DEF Link
  <2>3. \A i \in 1 .. m : i = m /\ i = 1
    BY <2>1
  <2>4. QED
    BY <1>2, <1>3, <2>1, <2>2, <2>3
<1>8. CASE n # 0
  <2>1. 1 \in 1 .. n /\ n \in 1 .. n /\ head = q[1] /\ tail = q[n]
    BY <1>8 DEF Chain
  <2>2. ~ ListEmpty
    BY <1>1, <2>1 DEF ListEmpty
  <2>3. /\ head' = q[1] /\ tail' = c
        /\ next' = [next EXCEPT ![q[n]] = c, ![c] = NULL]
        /\ prev' = [prev EXCEPT ![c] = q[n]]
    BY <2>1, <2>2 DEF Link
  <2>4. head' = r[1] /\ tail' = r[m]
    BY <1>2, <2>1, <2>3
  <2>5. ASSUME NEW i \in 1 .. n
        PROVE  /\ next'[r[i]] = IF i = m THEN NULL ELSE r[i + 1]
               /\ prev'[r[i]] = IF i = 1 THEN NULL ELSE r[i - 1]
    <3>1. r[i] = q[i] /\ i # m /\ q[i] # c /\ q[i] \in Obj
      BY <1>1, <1>2
    <3>2. prev'[q[i]] = IF i = 1 THEN NULL ELSE q[i - 1]
      BY <1>1, <1>3, <2>3, <3>1
    <3>3. i # 1 => r[i - 1] = q[i - 1]
      <4>1. i # 1 => i - 1 \in 1 .. n
        OBVIOUS
      <4>2. QED
        BY <1>2, <4>1
    <3>4. CASE i = n
      <4>1. next'[q[n]] = c
        BY <1>1, <1>3, <2>1, <2>3, <3>1, <3>4
      <4>2. QED
        BY <1>2, <3>1, <3>2, <3>3, <3>4, <4>1
    <3>5. CASE i # n
      <4>1. q[i] # q[n] /\ i + 1 \in 1 .. n
        BY <1>1, <2>1, <3>5
      <4>2. next'[q[i]] = q[i + 1] /\ r[i + 1] = q[i + 1]
        BY <1>1, <1>2, <1>3, <2>3, <3>1, <3>5, <4>1
      <4>3. QED
        BY <3>1, <3>2, <3>3, <4>2
    <3>6. QED
      BY <3>4, <3>5
  <2>6. next'[c] = NULL /\ prev'[c] = q[n]
    BY <1>3, <2>3
  <2>7. m # 1 /\ m - 1 = n /\ r[m - 1] = q[n]
    BY <1>2, <1>8, <2>1
  <2>8. QED
    BY <1>2, <2>4, <2>5, <2>6, <2>7
<1>9. QED
  BY <1>7, <1>8
-----------------------------------------------------------------------------
(* The same for the list as a set: what each operation of cache.c leaves.  *)

LEMMA UnlinkFromList ==
  ASSUME TypeOK, IsList, NEW c \in Queue, Unlink(c)
  PROVE  IsList' /\ Queue' = Queue \ {c}
<1>1. PICK n \in Nat : \E q : Chain(n, q)
  BY DEF IsList
<1>2. PICK q : Chain(n, q)
  BY <1>1
<1>3. PICK k \in 1 .. n : c = q[k]
  BY <1>2, ChainWalk DEF Listed
<1>4. q \in [1 .. n -> Obj]
  BY <1>2 DEF Chain
<1>5. \A i, j \in 1 .. n : q[i] = q[j] => i = j
  BY <1>2 DEF Chain
<1>6. Listed(n - 1, Without(n, q, k)) = Listed(n, q) \ {q[k]}
  BY <1>4, <1>5, WithoutOne
<1>7. Queue = Listed(n, q)
  BY <1>2, ChainWalk
<1>8. PICK r : r = Without(n, q, k)
  OBVIOUS
<1>9. n - 1 \in Nat /\ Chain(n - 1, r)'
  BY <1>2, <1>3, <1>8, UnlinkChain
<1>10. IsList' /\ Queue' = Listed(n - 1, r)
  BY <1>9, NewChain
<1>11. QED
  BY <1>3, <1>6, <1>7, <1>8, <1>10

LEMMA DropFromList ==
  ASSUME TypeOK, IsList, head # NULL, DropHead, UNCHANGED next
  PROVE  head \in Queue /\ IsList' /\ Queue' = Queue \ {head}
<1>1. head \in Queue
  BY ListEnds
<1>2. Unlink(head)
  BY DEF Unlink, DropHead
<1>3. QED
  BY <1>1, <1>2, UnlinkFromList

LEMMA LinkToList ==
  ASSUME TypeOK, IsList, NEW c \in Obj, c \notin Queue, Link(c)
  PROVE  IsList' /\ Queue' = Queue \cup {c} /\ tail' = c
<1>1. PICK n \in Nat : \E q : Chain(n, q)
  BY DEF IsList
<1>2. PICK q : Chain(n, q)
  BY <1>1
<1>3. Queue = Listed(n, q)
  BY <1>2, ChainWalk
<1>4. PICK r : r = With(n, q, c)
  OBVIOUS
<1>5. /\ n + 1 \in Nat /\ Chain(n + 1, r)'
      /\ Listed(n + 1, r) = Listed(n, q) \cup {c}
  BY <1>2, <1>3, <1>4, LinkChain
<1>6. IsList' /\ Queue' = Listed(n + 1, r)
  BY <1>5, NewChain
<1>7. QED
  BY <1>3, <1>5, <1>6 DEF Link

LEMMA ListUntouched ==
  ASSUME IsList, UNCHANGED <<head, tail>>,
         \A o \in Queue : next'[o] = next[o] /\ prev'[o] = prev[o]
  PROVE  IsList' /\ Queue' = Queue
<1>1. PICK n \in Nat : \E q : Chain(n, q)
  BY DEF IsList
<1>2. PICK q : Chain(n, q)
  BY <1>1
<1>3. Queue = Listed(n, q)
  BY <1>2, ChainWalk
<1>4. \A i \in 1 .. n : q[i] \in Queue
  BY <1>3 DEF Listed
<1>5. Chain(n, q)'
  BY <1>2, <1>4 DEF Chain
<1>6. QED
  BY <1>3, <1>5, NewChain
-----------------------------------------------------------------------------
(***************************************************************************)
(* The cache and its threads, as long as FindsKept holds.                  *)
(***************************************************************************)
\* The list holds live, valid objects, and every live and valid object is in it or
\* with a thread.
EntriesInv == /\ IsList /\ total_size = Bytes(Queue)
              /\ Queue \subseteq live /\ \A o \in Queue : valid[o]
              /\ \A o \in live : valid[o] => o \in Queue \/ \E t \in InTransit : cache[t] = o

\* What thread t knows about its object: found, it stays in the list until t takes it
\* out; taken out or new, it stays out until t links it.
Holds(t) ==
    /\ pc[t] # "idle" => uri[t] \in Uri
    /\ pc[t] \in {"done_P", "done_last", "done_V"} =>
          cache[t] = NULL \/ (cache[t] \in Queue /\ key[cache[t]] = uri[t])
    /\ pc[t] \in {"write", "move_P", "move"} => cache[t] \in Queue /\ key[cache[t]] = uri[t]
    /\ pc[t] \in {"reput_P", "put_P", "put", "evict"} =>
          /\ cache[t] \in live /\ cache[t] \notin Queue
          /\ valid[cache[t]] /\ key[cache[t]] = uri[t]

\* Two threads that have an object outside the list have different ones.
TransitApart == \A s, t \in InTransit : cache[s] = cache[t] => s = t

\* Unless realloc moves blocks, no value dangles and no thread has gone wrong.
Unharmed == ReallocMoves \/ (dangling = {} /\ proxy # "fault")

ObjectsInv == /\ TypeOK /\ EntriesInv /\ \A t \in Worker : Holds(t)
              /\ TransitApart /\ Unharmed

\* The count in the next state, for a list whose objects keep their sizes.
LEMMA BytesNext ==
  ASSUME NEW S, Queue' = S, \A o \in S : size'[o] = size[o]
  PROVE  Bytes(Queue)' = Bytes(S)
BY DEF Bytes, Count, Cells

\* A step of t that touches no object.
LEMMA QuietStep ==
  ASSUME ObjectsInv, TypeOK', NEW t \in Worker,
         UNCHANGED <<listVars, entryVars>>, ReallocMoves \/ proxy' # "fault",
         \A s \in Worker \ {t} : pc'[s] = pc[s] /\ uri'[s] = uri[s] /\ cache'[s] = cache[s],
         t \in InTransit <=> t \in InTransit',
         t \in InTransit => cache'[t] = cache[t],
         Queue' = Queue => Holds(t)'
  PROVE  ObjectsInv'
<1>1. TypeOK /\ EntriesInv /\ \A s \in Worker : Holds(s)
  BY DEF ObjectsInv
<1>2. IsList' /\ Queue' = Queue
  BY <1>1, ListUntouched DEF EntriesInv, listVars
<1>3. UNCHANGED <<total_size, size, key, valid, live>>
  BY DEF listVars, entryVars
<1>4. total_size' = Bytes(Queue)'
  BY <1>1, <1>2, <1>3, BytesNext DEF EntriesInv
<1>5. ASSUME NEW o \in live, valid[o], o \notin Queue
      PROVE  \E s \in InTransit' : cache'[s] = o
  <2>1. PICK s \in InTransit : cache[s] = o
    BY <1>1, <1>5 DEF EntriesInv
  <2>2. s \in InTransit' /\ cache'[s] = o
    BY <2>1 DEF InTransit
  <2>3. QED
    BY <2>2
<1>6. EntriesInv'
  BY <1>1, <1>2, <1>3, <1>4, <1>5 DEF EntriesInv
<1>7. ASSUME NEW s \in Worker PROVE Holds(s)'
  BY <1>1, <1>2, <1>3 DEF Holds
<1>8. TransitApart'
  <2>1. ASSUME NEW s \in InTransit' PROVE s \in InTransit /\ cache'[s] = cache[s]
    BY <2>1 DEF InTransit
  <2>2. QED
    BY <2>1 DEF ObjectsInv, TransitApart
<1>9. Unharmed'
  BY DEF ObjectsInv, Unharmed, entryVars
<1>10. QED
  BY <1>6, <1>7, <1>8, <1>9 DEF ObjectsInv

\* A new connection has no object yet.
LEMMA AcceptObjects ==
  ASSUME ObjectsInv, TypeOK', NEW t \in Worker, Accept(t)
  PROVE  ObjectsInv'
<1>1. TypeOK /\ pc[t] = "idle"
  BY DEF ObjectsInv, Accept
<1>2. pc' = [pc EXCEPT ![t] = "find_P"] /\ cache' = [cache EXCEPT ![t] = NULL]
      /\ UNCHANGED <<listVars, entryVars, proxy>>
  BY DEF Accept, Goto
<1>3. PICK u \in Uri : <<t, u>> \in Requests /\ uri' = [uri EXCEPT ![t] = u]
  BY DEF Accept
<1>4. Holds(t)'
  BY <1>1, <1>2, <1>3 DEF Holds, TypeOK
<1>5. t \notin InTransit /\ t \notin InTransit'
  BY <1>1, <1>2 DEF InTransit, TypeOK
<1>6. \A s \in Worker \ {t} : pc'[s] = pc[s] /\ uri'[s] = uri[s] /\ cache'[s] = cache[s]
  BY <1>1, <1>2, <1>3 DEF TypeOK
<1>7. ReallocMoves \/ proxy' # "fault"
  BY <1>2 DEF ObjectsInv, Unharmed
<1>8. QED
  BY <1>2, <1>4, <1>5, <1>6, <1>7, QuietStep

\* The steps that only go on to another label.
LEMMA GotoObjects ==
  ASSUME ObjectsInv, TypeOK', NEW t \in Worker, NEW l, Goto(t, l),
         UNCHANGED <<listVars, entryVars, uri, cache>>, ReallocMoves \/ proxy' # "fault",
         pc[t] # "idle",
         t \in InTransit => l \in {"put", "evict"},
         l \in {"put", "evict"} => t \in InTransit,
         l \in {"done_P", "done_last", "done_V"} => pc[t] \in {"done_P", "done_last", "done_V"},
         l = "write" => pc[t] = "done_V" /\ cache[t] # NULL,
         l \in {"move_P", "move"} => pc[t] \in {"write", "move_P"},
         l \notin {"reput_P", "put_P"}
  PROVE  ObjectsInv'
<1>1. TypeOK /\ Holds(t)
  BY DEF ObjectsInv
<1>2. pc' = [pc EXCEPT ![t] = l] /\ pc'[t] = l
  BY <1>1 DEF Goto, TypeOK
<1>3. /\ t \in InTransit <=> t \in InTransit'
      /\ t \in InTransit => cache'[t] = cache[t]
  BY <1>2 DEF InTransit
<1>4. UNCHANGED <<key, valid, live>>
  BY DEF entryVars
<1>5. Queue' = Queue => Holds(t)'
  BY <1>1, <1>2, <1>4 DEF Holds, InTransit
<1>6. \A s \in Worker \ {t} : pc'[s] = pc[s] /\ uri'[s] = uri[s] /\ cache'[s] = cache[s]
  BY <1>1, <1>2 DEF TypeOK
<1>7. QED
  BY <1>3, <1>5, <1>6, QuietStep

\* The search finds an object of the list with the URI asked for, or nothing.
LEMMA SearchObjects ==
  ASSUME ObjectsInv, TypeOK', NEW t \in Worker, Search(t)
  PROVE  ObjectsInv'
<1>1. TypeOK /\ EntriesInv /\ Holds(t) /\ pc[t] = "search"
  BY DEF ObjectsInv, Search, At
<1>2. /\ pc' = [pc EXCEPT ![t] = "done_P"] /\ cache' = [cache EXCEPT ![t] = StopOf(uri[t])]
      /\ UNCHANGED <<listVars, entryVars, uri, proxy>>
  BY DEF Search, Goto
<1>3. uri[t] \in Uri
  BY <1>1 DEF Holds
<1>4. StopOf(uri[t]) = NULL \/ (StopOf(uri[t]) \in Queue /\ key[StopOf(uri[t])] = uri[t])
  BY <1>1, <1>3, SearchEnds DEF EntriesInv
<1>5. cache'[t] = StopOf(uri[t]) /\ pc'[t] = "done_P" /\ key' = key /\ uri' = uri
  BY <1>1, <1>2 DEF TypeOK, entryVars
<1>6. Queue' = Queue => Holds(t)'
  BY <1>3, <1>4, <1>5 DEF Holds
<1>7. t \notin InTransit /\ t \notin InTransit'
  BY <1>1, <1>5 DEF InTransit
<1>8. \A s \in Worker \ {t} : pc'[s] = pc[s] /\ uri'[s] = uri[s] /\ cache'[s] = cache[s]
  BY <1>1, <1>2 DEF TypeOK
<1>9. ReallocMoves \/ proxy' # "fault"
  BY <1>2 DEF ObjectsInv, Unharmed
<1>10. QED
  BY <1>2, <1>6, <1>7, <1>8, <1>9, QuietStep

\* No thread follows a dangling or NULL pointer to a cache_t.
LEMMA ObjectsAllocated ==
  ASSUME ObjectsInv, NEW t \in Worker
  PROVE  Derefs(t) \subseteq live
<1>1. TypeOK /\ EntriesInv /\ Holds(t) /\ IsList /\ Queue \subseteq live
  BY DEF ObjectsInv, EntriesInv
<1>2. /\ head # NULL => head \in live
      /\ tail # NULL => tail \in live
      /\ head = NULL <=> tail = NULL
      /\ \A o \in Queue : /\ o # tail => next[o] \in live
                          /\ o # head => prev[o] \in live
      /\ Queue # {} => head \in Queue /\ tail \in Queue
      /\ head = NULL <=> Queue = {}
  BY <1>1, ListEnds
<1>3. CASE pc[t] = "search"
  <2>1. uri[t] \in Uri
    BY <1>1, <1>3 DEF Holds
  <2>2. StopOf(uri[t]) = NULL \/ StopOf(uri[t]) \in live
    BY <1>1, <2>1, SearchEnds
  <2>3. QED
    BY <1>3, <2>2 DEF Derefs
<1>4. CASE pc[t] = "write"
  BY <1>1, <1>4 DEF Derefs, Holds
<1>5. CASE pc[t] = "move"
  <2>1. cache[t] \in Queue /\ cache[t] \in live
    BY <1>1, <1>5 DEF Holds
  <2>2. Derefs(t) \subseteq {cache[t]} \cup
          (IF head = tail THEN {}
           ELSE IF head = cache[t] THEN {next[head]}
           ELSE IF tail = cache[t] THEN {prev[tail]}
           ELSE {prev[cache[t]], next[cache[t]]})
    BY <1>5 DEF Derefs
  <2>3. QED
    BY <1>2, <2>1, <2>2
<1>6. CASE pc[t] = "put"
  BY <1>1, <1>6 DEF Derefs, Holds
<1>7. CASE pc[t] = "evict"
  <2>1. cache[t] \in live
    BY <1>1, <1>7 DEF Holds
  <2>2. Derefs(t) \subseteq {cache[t]} \cup
          (IF ~ TooBig(t)
           THEN (IF head = NULL /\ tail = NULL THEN {} ELSE {tail})
           ELSE IF head = NULL THEN {}
           ELSE IF head = tail THEN {head}
           ELSE {head, next[head]})
    BY <1>7 DEF Derefs
  <2>3. QED
    BY <1>2, <2>1, <2>2
<1>8. CASE pc[t] \notin {"search", "write", "move", "put", "evict"}
  BY <1>8 DEF Derefs
<1>9. QED
  BY <1>3, <1>4, <1>5, <1>6, <1>7, <1>8

\* Nor, unless realloc moves blocks, to a value.
LEMMA AlwaysSafe ==
  ASSUME ObjectsInv, ~ ReallocMoves, NEW t \in Worker
  PROVE  Safe(t)
BY ObjectsAllocated DEF Safe, ObjectsInv, Unharmed

\* A hit takes its object out of the list, and no other thread has found it.
LEMMA MoveOutObjects ==
  ASSUME FindsKept, ObjectsInv, TypeOK', NEW t \in Worker, MoveOut(t)
  PROVE  ObjectsInv'
<1> DEFINE c == cache[t]
<1>1. TypeOK /\ EntriesInv /\ Holds(t) /\ pc[t] = "move" /\ proxy = "running"
  BY DEF ObjectsInv, MoveOut, At
<1>2. /\ c \in Queue /\ key[c] = uri[t] /\ IsList /\ Queue \subseteq Obj
      /\ uri[t] \in Uri /\ c \in live /\ valid[c]
  BY <1>1, ListEnds DEF Holds, EntriesInv
<1>3. /\ Unlink(c) /\ total_size' = total_size - size[c]
      /\ pc' = [pc EXCEPT ![t] = "reput_P"]
      /\ UNCHANGED <<size, key, valid, live, dangling, uri, cache, proxy>>
  BY DEF MoveOut, Goto, entryVars
<1>4. IsList' /\ Queue' = Queue \ {c}
  BY <1>1, <1>2, <1>3, UnlinkFromList
<1>5. total_size' = Bytes(Queue)'
  <2>1. Bytes(Queue \ {c}) = Bytes(Queue) - size[c]
    BY <1>1, <1>2, BytesOfOneLess
  <2>2. Bytes(Queue)' = Bytes(Queue \ {c})
    BY <1>3, <1>4, BytesNext
  <2>3. QED
    BY <1>1, <1>3, <2>1, <2>2 DEF EntriesInv
<1>6. pc'[t] = "reput_P" /\ \A s \in Worker \ {t} : pc'[s] = pc[s]
  BY <1>1, <1>3 DEF TypeOK
<1>7. ASSUME NEW o \in live, valid[o], o \notin Queue'
      PROVE  \E s \in InTransit' : cache'[s] = o
  <2>1. CASE o = c
    BY <1>3, <1>6, <2>1 DEF InTransit
  <2>2. CASE o # c
    <3>1. PICK s \in InTransit : cache[s] = o
      BY <1>1, <1>4, <1>7, <2>2 DEF EntriesInv
    <3>2. s \in InTransit'
      BY <1>6, <3>1 DEF InTransit
    <3>3. QED
      BY <1>3, <3>1, <3>2
  <2>3. QED
    BY <2>1, <2>2
<1>8. EntriesInv'
  BY <1>1, <1>3, <1>4, <1>5, <1>7 DEF EntriesInv
<1>9. ASSUME NEW s \in Worker PROVE Holds(s)'
  <2>1. CASE s = t
    BY <1>2, <1>3, <1>4, <1>6, <2>1 DEF Holds
  <2>2. CASE s # t
    <3>1. Holds(s) /\ pc'[s] = pc[s]
      BY <1>6, <2>2 DEF ObjectsInv
    <3>2. pc[s] \in {"done_P", "done_last", "done_V", "write", "move_P", "move"}
            => cache[s] = NULL \/ cache[s] # c
      BY <1>1, <2>2 DEF FindsKept, HasFound, Removes
    <3>3. NULL \notin Queue
      BY <1>2, ObjAssumption
    <3>4. QED
      BY <1>3, <1>4, <3>1, <3>2, <3>3 DEF Holds
  <2>3. QED
    BY <2>1, <2>2
<1>10. TransitApart'
  <2>1. \A s \in InTransit : s # t /\ s \in Worker /\ cache[s] # c
    BY <1>1, <1>2 DEF InTransit, ObjectsInv, Holds
  <2>2. InTransit' = InTransit \cup {t}
    BY <1>6 DEF InTransit
  <2>3. QED
    BY <1>3, <2>1, <2>2 DEF ObjectsInv, TransitApart
<1>11. QED
  BY <1>1, <1>3, <1>8, <1>9, <1>10 DEF ObjectsInv, Unharmed

\* A miss takes a free address, which is in no list.
LEMMA FetchObjects ==
  ASSUME ObjectsInv, TypeOK', NEW t \in Worker, Fetch(t)
  PROVE  ObjectsInv'
<1>1. TypeOK /\ EntriesInv /\ Holds(t) /\ pc[t] = "fetch" /\ proxy = "running"
  BY DEF ObjectsInv, Fetch, At
<1>2. PICK o \in Obj \ live, n \in RespSizes :
          /\ live' = live \cup {o}
          /\ key' = [key EXCEPT ![o] = uri[t]]
          /\ valid' = [valid EXCEPT ![o] = n <= MaxObjectSize]
          /\ size' = [size EXCEPT ![o] = Copied(n)]
          /\ next' = [next EXCEPT ![o] = NULL]
          /\ prev' = [prev EXCEPT ![o] = NULL]
          /\ cache' = [cache EXCEPT ![t] = o]
          /\ pc' = [pc EXCEPT ![t] = IF n <= MaxObjectSize THEN "put_P" ELSE "close"]
          /\ \E moved \in {FALSE, ReallocMoves /\ n < MaxObjectSize} :
                dangling' = IF moved THEN dangling \cup {o} ELSE dangling \ {o}
  BY DEF Fetch, Goto
<1>3. UNCHANGED <<head, tail, total_size, uri, proxy>>
  BY DEF Fetch
<1>4. \A x \in Obj \ {o} : /\ key'[x] = key[x] /\ valid'[x] = valid[x] /\ size'[x] = size[x]
                           /\ next'[x] = next[x] /\ prev'[x] = prev[x]
  BY <1>1, <1>2 DEF TypeOK
<1>5. key'[o] = uri[t] /\ valid'[o] = (n <= MaxObjectSize)
  BY <1>1, <1>2 DEF TypeOK
<1>6. live \subseteq Obj \ {o} /\ Queue \subseteq live /\ IsList
  BY <1>1, <1>2 DEF TypeOK, EntriesInv
<1>7. IsList' /\ Queue' = Queue
  BY <1>3, <1>4, <1>6, ListUntouched
<1>8. total_size' = Bytes(Queue)'
  BY <1>1, <1>3, <1>4, <1>6, <1>7, BytesNext DEF EntriesInv
<1>9. /\ pc'[t] = IF n <= MaxObjectSize THEN "put_P" ELSE "close"
      /\ cache'[t] = o
      /\ \A s \in Worker \ {t} : pc'[s] = pc[s] /\ cache'[s] = cache[s]
  BY <1>1, <1>2 DEF TypeOK
<1>10. ASSUME NEW x \in live', valid'[x], x \notin Queue'
       PROVE  \E s \in InTransit' : cache'[s] = x
  <2>1. CASE x = o
    <3>1. t \in InTransit'
      BY <1>5, <1>9, <1>10, <2>1 DEF InTransit
    <3>2. QED
      BY <1>9, <2>1, <3>1
  <2>2. CASE x # o
    <3>1. x \in live /\ valid[x] /\ x \notin Queue
      BY <1>2, <1>4, <1>6, <1>7, <1>10, <2>2
    <3>2. PICK s \in InTransit : cache[s] = x
      BY <1>1, <3>1 DEF EntriesInv
    <3>3. s # t /\ s \in Worker
      BY <1>1, <3>2 DEF InTransit
    <3>4. s \in InTransit' /\ cache'[s] = x
      BY <1>9, <3>2, <3>3 DEF InTransit
    <3>5. QED
      BY <3>4
  <2>3. QED
    BY <2>1, <2>2
<1>11. EntriesInv'
  <2>1. Queue' \subseteq live' /\ \A x \in Queue' : valid'[x]
    BY <1>1, <1>2, <1>4, <1>6, <1>7 DEF EntriesInv
  <2>2. QED
    BY <1>7, <1>8, <1>10, <2>1 DEF EntriesInv
<1>12. ASSUME NEW s \in Worker PROVE Holds(s)'
  <2>1. CASE s = t
    <3>1. uri'[t] \in Uri /\ uri' = uri
      BY <1>1, <1>3 DEF Holds
    <3>2. o \in live' /\ o \notin Queue'
      BY <1>2, <1>6, <1>7
    <3>3. QED
      BY <1>5, <1>9, <2>1, <3>1, <3>2 DEF Holds
  <2>2. CASE s # t
    <3>1. Holds(s) /\ pc'[s] = pc[s] /\ cache'[s] = cache[s] /\ uri'[s] = uri[s]
      BY <1>3, <1>9, <2>2 DEF ObjectsInv
    <3>2. cache[s] \in live => /\ key'[cache[s]] = key[cache[s]]
                               /\ valid'[cache[s]] = valid[cache[s]]
      BY <1>4, <1>6
    <3>3. live \subseteq live'
      BY <1>2
    <3>4. QED
      BY <1>6, <1>7, <3>1, <3>2, <3>3 DEF Holds
  <2>3. QED
    BY <2>1, <2>2
<1>13. TransitApart'
  <2>1. \A s \in InTransit : s # t /\ s \in Worker /\ cache[s] # o
    BY <1>1, <1>6 DEF InTransit, ObjectsInv, Holds
  <2>2. InTransit' \subseteq InTransit \cup {t}
    BY <1>9 DEF InTransit
  <2>3. \A s \in InTransit : cache'[s] = cache[s]
    BY <1>9, <2>1
  <2>4. QED
    BY <1>9, <2>1, <2>2, <2>3 DEF ObjectsInv, TransitApart
<1>14. Unharmed'
  BY <1>2, <1>3 DEF ObjectsInv, Unharmed
<1>15. QED
  BY <1>11, <1>12, <1>13, <1>14 DEF ObjectsInv

\* Eviction takes the head out of the list, and no other thread has found it.
LEMMA EvictObjects ==
  ASSUME FindsKept, ObjectsInv, TypeOK', NEW t \in Worker, Evict(t)
  PROVE  ObjectsInv'
<1>1. /\ TypeOK /\ EntriesInv /\ Holds(t) /\ pc[t] = "evict" /\ proxy = "running"
      /\ TooBig(t)
  BY DEF ObjectsInv, Evict, At
<1>2. ASSUME NEW s \in Worker, pc[s] \in {"done_P", "done_last", "done_V", "write", "move_P", "move"},
             cache[s] # NULL
      PROVE  cache[s] # head
  <2>1. s # t /\ HasFound(s) /\ head \in Removes(t)
    BY <1>1, <1>2 DEF HasFound, Removes
  <2>2. QED
    BY <2>1 DEF FindsKept
<1>3. /\ head # NULL /\ total_size' = total_size - size[head] /\ DropHead
      /\ live' = live \ {head}
      /\ UNCHANGED <<next, size, key, valid, dangling, pc, uri, cache, proxy>>
  BY DEF Evict, Free
<1>4. head \in Queue /\ IsList' /\ Queue' = Queue \ {head}
  BY <1>1, <1>3, DropFromList DEF EntriesInv
<1>5. Queue \subseteq Obj /\ NULL \notin Queue
  BY <1>1, ObjAssumption DEF EntriesInv, TypeOK
<1>6. total_size' = Bytes(Queue)'
  <2>1. Bytes(Queue \ {head}) = Bytes(Queue) - size[head]
    BY <1>1, <1>4, <1>5, BytesOfOneLess
  <2>2. Bytes(Queue)' = Bytes(Queue \ {head})
    BY <1>3, <1>4, BytesNext
  <2>3. QED
    BY <1>1, <1>3, <2>1, <2>2 DEF EntriesInv
<1>7. EntriesInv'
  BY <1>1, <1>3, <1>4, <1>6 DEF EntriesInv, InTransit
<1>8. ASSUME NEW s \in Worker PROVE Holds(s)'
  <2>1. Holds(s)
    BY DEF ObjectsInv
  <2>2. pc[s] \in {"reput_P", "put_P", "put", "evict"} => cache[s] # head
    BY <1>4, <2>1 DEF Holds
  <2>3. QED
    BY <1>2, <1>3, <1>4, <1>5, <2>1, <2>2 DEF Holds
<1>9. TransitApart' /\ Unharmed'
  BY <1>3 DEF ObjectsInv, TransitApart, InTransit, Unharmed
<1>10. QED
  BY <1>7, <1>8, <1>9 DEF ObjectsInv

\* The object in transit becomes the tail of the list.
LEMMA PutObjects ==
  ASSUME ObjectsInv, TypeOK', NEW t \in Worker, Put(t)
  PROVE  ObjectsInv'
<1> DEFINE c == cache[t]
<1>1. TypeOK /\ EntriesInv /\ Holds(t) /\ pc[t] \in {"put", "evict"} /\ proxy = "running"
  BY DEF ObjectsInv, Put, At
<1>2. /\ Link(c) /\ total_size' = total_size + size[c]
      /\ pc' = [pc EXCEPT ![t] = "close"]
      /\ UNCHANGED <<size, key, valid, live, dangling, uri, cache, proxy>>
  BY DEF Put, Goto, entryVars
<1>3. /\ c \in live /\ c \in Obj /\ c \notin Queue /\ valid[c] /\ Queue \subseteq Obj
      /\ uri[t] \in Uri
  BY <1>1 DEF Holds, TypeOK, EntriesInv
<1>4. IsList' /\ Queue' = Queue \cup {c}
  BY <1>1, <1>2, <1>3, LinkToList DEF EntriesInv
<1>5. total_size' = Bytes(Queue)'
  <2>1. Bytes(Queue \cup {c}) = Bytes(Queue) + size[c]
    BY <1>1, <1>3, BytesOfOneMore
  <2>2. Bytes(Queue)' = Bytes(Queue \cup {c})
    BY <1>2, <1>4, BytesNext
  <2>3. QED
    BY <1>1, <1>2, <2>1, <2>2 DEF EntriesInv
<1>6. pc'[t] = "close" /\ \A s \in Worker \ {t} : pc'[s] = pc[s]
  BY <1>1, <1>2 DEF TypeOK
<1>7. ASSUME NEW o \in live, valid[o], o \notin Queue'
      PROVE  \E s \in InTransit' : cache'[s] = o
  <2>1. PICK s \in InTransit : cache[s] = o
    BY <1>1, <1>4, <1>7 DEF EntriesInv
  <2>2. s # t /\ s \in Worker
    BY <1>4, <1>7, <2>1 DEF InTransit
  <2>3. s \in InTransit'
    BY <1>6, <2>1, <2>2 DEF InTransit
  <2>4. QED
    BY <1>2, <2>1, <2>3
<1>8. EntriesInv'
  BY <1>1, <1>2, <1>3, <1>4, <1>5, <1>7 DEF EntriesInv
<1>9. ASSUME NEW s \in Worker PROVE Holds(s)'
  <2>1. CASE s = t
    BY <1>2, <1>3, <1>6, <2>1 DEF Holds
  <2>2. CASE s # t
    <3>1. Holds(s) /\ pc'[s] = pc[s]
      BY <1>6, <2>2 DEF ObjectsInv
    <3>2. pc[s] \in {"reput_P", "put_P", "put", "evict"} => cache[s] # c
      BY <1>1, <2>2 DEF ObjectsInv, TransitApart, InTransit
    <3>3. QED
      BY <1>2, <1>4, <3>1, <3>2 DEF Holds
  <2>3. QED
    BY <2>1, <2>2
<1>10. TransitApart' /\ Unharmed'
  <2>1. InTransit' \subseteq InTransit
    BY <1>6 DEF InTransit
  <2>2. QED
    BY <1>2, <2>1 DEF ObjectsInv, TransitApart, Unharmed
<1>11. QED
  BY <1>8, <1>9, <1>10 DEF ObjectsInv

\* Every step of every thread preserves ObjectsInv.
LEMMA ObjectsStep ==
  ASSUME FindsKept, ObjectsInv, [Next]_vars
  PROVE  ObjectsInv'
<1>1. TypeOK /\ TypeOK' /\ (ReallocMoves \/ proxy # "fault")
  BY NextType DEF ObjectsInv, Unharmed
<1>2. ASSUME UNCHANGED <<listVars, entryVars, pc, uri, cache>>, ReallocMoves \/ proxy' # "fault"
      PROVE  ObjectsInv'
  <2>1. UNCHANGED <<listVars, entryVars, pc, uri, cache>>
    BY <1>2
  <2>2. Queue' = Queue /\ IsList' /\ total_size' = Bytes(Queue)'
    <3>1. IsList' /\ Queue' = Queue
      BY <2>1, ListUntouched DEF ObjectsInv, EntriesInv, listVars
    <3>2. QED
      BY <2>1, <3>1, BytesNext DEF ObjectsInv, EntriesInv, listVars, entryVars
  <2>3. EntriesInv'
    BY <2>1, <2>2 DEF ObjectsInv, EntriesInv, InTransit, entryVars
  <2>4. \A t \in Worker : Holds(t)'
    BY <2>1, <2>2 DEF ObjectsInv, Holds, entryVars
  <2>5. TransitApart' /\ Unharmed'
    BY <1>2 DEF ObjectsInv, TransitApart, InTransit, Unharmed, entryVars
  <2>6. QED
    BY <1>1, <2>3, <2>4, <2>5 DEF ObjectsInv
<1>3. ASSUME NEW t \in Worker, Step(t)
      PROVE  ObjectsInv'
  <2>1. CASE ReaderEnter(t)
    <3>1. Goto(t, IF reader_cnt' = 1 THEN "find_first" ELSE "find_V") /\ pc[t] = "find_P"
      BY <2>1 DEF ReaderEnter, At
    <3>2. QED
      BY <1>1, <2>1, <3>1, GotoObjects DEF ReaderEnter, InTransit
  <2>2. CASE FirstReader(t)
    BY <1>1, <2>2, GotoObjects DEF FirstReader, At, InTransit
  <2>3. CASE ReaderEntered(t)
    BY <1>1, <2>3, GotoObjects DEF ReaderEntered, At, InTransit
  <2>4. CASE ReaderLeave(t)
    <3>1. Goto(t, IF reader_cnt' = 0 THEN "done_last" ELSE "done_V") /\ pc[t] = "done_P"
      BY <2>4 DEF ReaderLeave, At
    <3>2. QED
      BY <1>1, <2>4, <3>1, GotoObjects DEF ReaderLeave, InTransit
  <2>5. CASE LastReader(t)
    BY <1>1, <2>5, GotoObjects DEF LastReader, At, InTransit
  <2>6. CASE ReaderLeft(t)
    <3>1. Goto(t, IF cache[t] = NULL THEN "fetch" ELSE "write") /\ pc[t] = "done_V"
      BY <2>6 DEF ReaderLeft, At
    <3>2. QED
      BY <1>1, <2>6, <3>1, GotoObjects DEF ReaderLeft, InTransit
  <2>7. CASE WriteHit(t)
    BY <1>1, <2>7, GotoObjects DEF WriteHit, At, InTransit
  <2>8. CASE WriterLock(t)
    <3>1. \/ pc[t] = "move_P" /\ Goto(t, "move")
          \/ pc[t] \in {"reput_P", "put_P"} /\ Goto(t, "put")
      BY <2>8 DEF WriterLock, At
    <3>2. UNCHANGED <<listVars, entryVars, uri, cache>> /\ (ReallocMoves \/ proxy' # "fault")
      BY <1>1, <2>8 DEF WriterLock
    <3>3. CASE pc[t] = "move_P" /\ Goto(t, "move")
      BY <1>1, <3>2, <3>3, GotoObjects DEF InTransit
    <3>4. CASE pc[t] \in {"reput_P", "put_P"} /\ Goto(t, "put")
      BY <1>1, <3>2, <3>4, GotoObjects DEF InTransit
    <3>5. QED
      BY <3>1, <3>3, <3>4
  <2>9. CASE PutMore(t)
    BY <1>1, <2>9, GotoObjects DEF PutMore, At, InTransit
  <2>10. CASE Close(t)
    <3>1. /\ pc[t] = "close" /\ pc' = [pc EXCEPT ![t] = "idle"]
          /\ UNCHANGED <<listVars, entryVars, uri, cache, proxy>>
      BY <2>10 DEF Close, At, Goto
    <3>2. Holds(t)' /\ t \notin InTransit /\ t \notin InTransit'
      BY <1>1, <3>1 DEF Holds, InTransit, TypeOK
    <3>3. \A s \in Worker \ {t} : pc'[s] = pc[s] /\ uri'[s] = uri[s] /\ cache'[s] = cache[s]
      BY <1>1, <3>1 DEF TypeOK
    <3>4. QED
      BY <1>1, <3>1, <3>2, <3>3, QuietStep
  <2>11. CASE Die(t)
    BY <1>2, <2>11 DEF Die
  <2>12. CASE BadAccess(t)
    BY <1>2, <2>12, AlwaysSafe DEF BadAccess
  <2>13. CASE SearchSpins(t) \/ EvictSpins(t)
    BY <1>1, <1>2, <2>13 DEF SearchSpins, EvictSpins, vars
  <2>14. QED
    BY <1>1, <1>3, <2>1, <2>2, <2>3, <2>4, <2>5, <2>6, <2>7, <2>8, <2>9, <2>10, <2>11,
       <2>12, <2>13, SearchObjects, MoveOutObjects, FetchObjects, EvictObjects, PutObjects
    DEF Step
<1>4. CASE UNCHANGED vars
  BY <1>1, <1>2, <1>4 DEF vars
<1>5. QED
  BY <1>1, <1>3, <1>4, AcceptObjects DEF Next, Halted

\* An empty list is a list.
LEMMA ObjectsStart ==
  ASSUME Init
  PROVE  ObjectsInv
<1>1. TypeOK
  BY InitType
<1>2. PICK q : q = [i \in 1 .. 0 |-> NULL]
  OBVIOUS
<1>3. Chain(0, q)
  BY <1>2 DEF Chain, Init
<1>4. IsList /\ Queue = {}
  BY <1>3, ChainWalk DEF IsList, Listed
<1>5. EntriesInv
  BY <1>4, NoBytes DEF EntriesInv, Init
<1>6. \A t \in Worker : Holds(t)
  BY DEF Holds, Init
<1>7. TransitApart /\ Unharmed
  BY DEF TransitApart, InTransit, Unharmed, Init
<1>8. QED
  BY <1>1, <1>5, <1>6, <1>7 DEF ObjectsInv
-----------------------------------------------------------------------------
\* ObjectsInv in every state.
LEMMA ObjectsCorrect == Spec /\ []FindsKept => []ObjectsInv
<1>1. Init => ObjectsInv
  BY ObjectsStart
<1>2. FindsKept /\ ObjectsInv /\ [Next]_vars => ObjectsInv'
  BY ObjectsStep
<1>3. QED
  BY <1>1, <1>2, PTL DEF Spec

(***************************************************************************)
(* The theorems.  The code lets a thread take out, or evict, an object     *)
(* that another one has found and is about to send or move, and then the   *)
(* list breaks.  They say that nothing else can break it: it is correct in *)
(* every behaviour of any number of threads, on shared URIs, with          *)
(* evictions, in which that does not happen ([]FindsKept).                 *)
(***************************************************************************)

\* However the four branches of move_to_queue_back (cache.c:83-100), the appends of
\* put_cache (cache.c:15-38) and the evictions follow each other, the list stays
\* doubly linked from head to tail, without a cycle, and holds allocated objects, as long as
\* no thread takes out or evicts what another has found and not yet moved.
THEOREM ListIsWellLinked == Spec /\ []FindsKept => []WellLinked
<1>1. ObjectsInv => WellLinked
  <2>1. SUFFICES ASSUME ObjectsInv PROVE WellLinked
    OBVIOUS
  <2>2. IsList /\ Queue \subseteq live
    BY <2>1 DEF ObjectsInv, EntriesInv
  <2>3. QED
    BY <2>2, ListEnds DEF WellLinked
<1>2. QED
  BY <1>1, ObjectsCorrect, PTL

\* total_size is the sum of the sizes of the objects in the list after every step, as long
\* as no thread takes out or evicts what another has found (two hits on one object may
\* subtract its size twice, cache.c:97): no other operation counts one twice or leaves one
\* out.
THEOREM SizeIsExact == Spec /\ []FindsKept => []TotalIsSum
<1>1. ObjectsInv => TotalIsSum
  <2>1. SUFFICES ASSUME ObjectsInv PROVE TotalIsSum
    OBVIOUS
  <2>2. TypeOK /\ Queue \subseteq Obj /\ total_size = Bytes(Queue)
    BY <2>1 DEF ObjectsInv, EntriesInv, TypeOK
  <2>3. QED
    BY <2>2, FoldIsBytes DEF TotalIsSum, QueueSize
<1>2. QED
  BY <1>1, ObjectsCorrect, PTL

\* An object that fits in the cache is in the list or with one thread that moves or
\* inserts it, never both and never with two, as long as no thread takes out or evicts what
\* another has found: none is lost before it is evicted.
THEOREM EveryObjectIsKept == Spec /\ []FindsKept => []NothingLost
<1>1. ObjectsInv => NothingLost
  <2>1. SUFFICES ASSUME ObjectsInv PROVE NothingLost
    OBVIOUS
  <2>2. TypeOK /\ EntriesInv /\ \A t \in Worker : Holds(t)
    BY <2>1 DEF ObjectsInv
  <2>3. \A t \in InTransit : /\ t \in Worker /\ cache[t] \notin Queue /\ cache[t] # NULL
                             /\ pc[t] \in {"reput_P", "put_P", "put", "evict"}
    BY <2>2, ObjAssumption DEF Holds, InTransit, TypeOK
  <2>4. \A s, t \in InTransit : cache[s] = cache[t] => s = t
    BY <2>1 DEF ObjectsInv, TransitApart
  <2>5. QED
    BY <2>2, <2>3, <2>4 DEF NothingLost, EntriesInv
<1>2. QED
  BY <1>1, ObjectsCorrect, PTL

\* No thread of do_proxy, and no traversal, move, eviction or insertion of cache.c, follows
\* a NULL or dangling pointer to a cache_t or to its value, as long as no thread takes out
\* or evicts what another has found, and realloc shrinks a block where it is (the result
\* of Realloc is dropped at cache.c:73: if it moves one, the value dangles).
THEOREM NoFault ==
  ASSUME ~ ReallocMoves
  PROVE  Spec /\ []FindsKept => [](proxy # "fault")
<1>1. ObjectsInv => proxy # "fault"
  BY DEF ObjectsInv, Unharmed
<1>2. QED
  BY <1>1, ObjectsCorrect, PTL

\* A thread inside the lock is stuck in a loop: in a traversal that comes to no end, or
\* in the loop of put_cache with an empty list.
Spins(t) == \/ pc[t] = "search" /\ Stops(uri[t]) = {}
            \/ pc[t] = "evict" /\ TooBig(t) /\ head = NULL

\* An empty list has the total size 0, and one object always fits.
LEMMA ObjectsDoNotSpin ==
  ASSUME ObjectsInv, NEW t \in Worker
  PROVE  ~ Spins(t)
<1>1. TypeOK /\ EntriesInv /\ Holds(t)
  BY DEF ObjectsInv
<1>2. ASSUME pc[t] = "search" PROVE Stops(uri[t]) # {}
  <2>1. uri[t] \in Uri
    BY <1>1, <1>2 DEF Holds
  <2>2. QED
    BY <1>1, <2>1, SearchEnds DEF EntriesInv
<1>3. ASSUME pc[t] = "evict", head = NULL PROVE ~ TooBig(t)
  <2>1. Queue = {}
    BY <1>1, <1>3, ListEnds DEF EntriesInv
  <2>2. total_size = 0
    BY <1>1, <2>1, NoBytes DEF EntriesInv
  <2>3. cache[t] \in Obj /\ size[cache[t]] \in 0 .. MaxObjectSize
    BY <1>1, <1>3 DEF Holds, TypeOK
  <2>4. QED
    BY <2>2, <2>3, SizeAssumption DEF TooBig
<1>4. QED
  BY <1>2, <1>3 DEF Spins

\* Every traversal of find_cache_by_key (cache.c:112-117) comes to NULL or to a match,
\* and the loop of put_cache (cache.c:22) never runs on with nothing left to evict: the
\* thread that LockNeverDeadlocks promises to those that wait is not caught in a loop, as
\* long as no thread takes out or evicts what another has found.
THEOREM NothingSpins == Spec /\ []FindsKept => [](\A t \in Worker : ~ Spins(t))
<1>1. ObjectsInv => \A t \in Worker : ~ Spins(t)
  BY ObjectsDoNotSpin
<1>2. QED
  BY <1>1, ObjectsCorrect, PTL
-----------------------------------------------------------------------------
(***************************************************************************)
(* The refinement of LruCache.  The sequence of entries, the entries that  *)
(* are held and the incoming one change as LruCache says: a chain that     *)
(* loses or gains an object is a sequence that does, and the readers-      *)
(* writers lock makes the incoming entry one thread's.                     *)
(***************************************************************************)
\* The sequence of entries of a chain.
Entries(n, q) == [i \in 1 .. n |-> entry(q[i])]

ChainIsSeq == \A n \in Nat : \A q : Chain(n, q) => QueueSeq = Entries(n, q)

LEMMA ChainSeq == ChainIsSeq
<1> SUFFICES ASSUME NEW n \in Nat, NEW q, Chain(n, q) PROVE QueueSeq = Entries(n, q)
  BY DEF ChainIsSeq
<1>1. /\ \A i \in Steps : nth[i] = IF i < n THEN q[i + 1] ELSE NULL
      /\ n \in Steps
  BY ChainWalk, ChainLength
<1>2. \A i \in 1 .. n : q[i] # NULL
  BY ObjAssumption DEF Chain
<1> DEFINE Ends == {i \in Steps : nth[i] = NULL}
<1>3. \A i \in Steps : i < n => i + 1 \in 1 .. n
  BY StepsNat
<1>4. Ends = {i \in Steps : ~ (i < n)}
  BY <1>1, <1>2, <1>3
<1>5. n \in Ends /\ \A i \in Ends : n <= i
  BY <1>1, <1>4, StepsNat
<1>6. \A x \in Ends : (\A y \in Ends : x <= y) => x = n
  BY <1>5, StepsNat
<1> HIDE DEF Ends
<1>7. Min(Ends) = n
  BY <1>5, <1>6 DEF Min
<1>8. QueueSeq = [i \in 1 .. Min(Ends) |-> entry(nth[i - 1])]
  BY DEF QueueSeq, Ends
<1>9. \A i \in 1 .. n : nth[i - 1] = q[i]
  <2>1. \A i \in 1 .. n : i - 1 \in Steps /\ i - 1 < n /\ i - 1 + 1 = i
    BY <1>1, StepsNat DEF Steps
  <2>2. QED
    BY <1>1, <2>1
<1>10. QED
  BY <1>7, <1>8, <1>9 DEF Entries

LEMMA ChainSeqNext == ChainIsSeq'
BY ChainSeq, PTL

\* The sum of the sizes of the sequence is that of the sizes of the objects.
LEMMA CountAlong ==
  ASSUME TypeOK, NEW n \in Nat, NEW q, Chain(n, q),
         NEW w, w = [i \in 1 .. n |-> size[q[i]]]
  PROVE  IsSizes(w, 1 .. n) /\ Count(w, 1 .. n) = Bytes(Listed(n, q))
<1>1. /\ q \in [1 .. n -> Obj] /\ \A i, j \in 1 .. n : q[i] = q[j] => i = j
      /\ size \in [Obj -> 0 .. MaxObjectSize]
  BY DEF Chain, TypeOK
<1>2. IsSizes(w, 1 .. n)
  BY <1>1, FS_Interval DEF IsSizes
<1> DEFINE A == Cells(w, 1 .. n)
           B == Cells(size, Listed(n, q))
           F == [c \in A |-> <<q[c[1]], c[2]>>]
<1>3. IsFiniteSet(A)
  BY <1>2, CountFinite
<1>4. F \in [A -> B]
  BY <1>1 DEF Cells, Listed
<1>5. ASSUME NEW c \in A, NEW d \in A, F[c] = F[d] PROVE c = d
  <2>1. PICK i \in 1 .. n, k \in 1 .. MaxObjectSize : c = <<i, k>>
    BY DEF Cells
  <2>2. PICK j \in 1 .. n, l \in 1 .. MaxObjectSize : d = <<j, l>>
    BY DEF Cells
  <2>3. F[c] = <<q[i], k>> /\ F[d] = <<q[j], l>>
    BY <2>1, <2>2
  <2>4. q[i] = q[j] /\ k = l
    BY <1>5, <2>3
  <2>5. QED
    BY <1>1, <2>1, <2>2, <2>4
<1>6. \A b \in B : \E c \in A : F[c] = b
  <2>1. SUFFICES ASSUME NEW b \in B PROVE \E c \in A : F[c] = b
    OBVIOUS
  <2>2. PICK i \in 1 .. n, k \in 1 .. MaxObjectSize : b = <<q[i], k>> /\ k <= size[q[i]]
    BY DEF Cells, Listed
  <2>3. <<i, k>> \in A
    BY <2>2 DEF Cells
  <2>4. QED
    BY <2>2, <2>3
<1> HIDE DEF A, B, F
<1>7. F \in Bijection(A, B)
  BY <1>4, <1>5, <1>6 DEF Bijection, Injection, IsInjective, Surjection
<1>8. Cardinality(A) = Cardinality(B)
  BY <1>3, <1>7, FS_Bijection DEF ExistsBijection
<1>9. QED
  BY <1>2, <1>8 DEF Count, Bytes, A, B

LEMMA TotalIsBytes ==
  ASSUME TypeOK, NEW n \in Nat, NEW q, Chain(n, q)
  PROVE  Lru!Total = Bytes(Queue)
<1> DEFINE D == 1 .. n
<1>1. PICK w : w = [i \in D |-> size[q[i]]]
  OBVIOUS
<1>2. IsSizes(w, D) /\ Count(w, D) = Bytes(Queue)
  BY <1>1, CountAlong, ChainWalk
<1>3. QueueSeq = Entries(n, q)
  BY ChainSeq DEF ChainIsSeq
<1>4. DOMAIN QueueSeq = D /\ \A i \in D : QueueSeq[i].size = w[i]
  BY <1>1, <1>3 DEF Entries, entry
<1> DEFINE SeqStep(f) == [s \in SUBSET DOMAIN QueueSeq |-> IF s = {} THEN 0
                             ELSE QueueSeq[Any(s)].size + f[s \ {Any(s)}]]
           f == CHOOSE iter : iter = SeqStep(iter)
           g == [s \in SUBSET D |-> Count(w, s)]
<1>5. ASSUME NEW h PROVE SeqStep(h) = SumStep(w, D, h)
  <2>1. \A s \in SUBSET D : s # {} => Any(s) \in D
    BY DEF Any
  <2>2. QED
    BY <1>4, <2>1 DEF SumStep
<1>6. g = SumStep(w, D, g)
  <2>1. PICK C : C = D
    OBVIOUS
  <2>2. IsSizes(w, C) /\ C \subseteq C
    BY <1>2, <2>1
  <2>3. [s \in SUBSET C |-> Count(w, s)] = SumStep(w, C, [s \in SUBSET C |-> Count(w, s)])
    BY <2>2, CountStep
  <2>4. QED
    BY <2>1, <2>3, Zenon
<1>7. g = SeqStep(g)
  BY <1>5, <1>6
<1>8. f = SeqStep(f)
  BY <1>7
<1>9. Lru!Total = f[DOMAIN QueueSeq]
  BY DEF Lru!Total, Lru!MapThenSumSet, Lru!MapThenFoldSet, Any
<1> HIDE DEF f, SeqStep
<1>10. f = SumStep(w, D, f)
  BY <1>5, <1>8
<1>11. f[D] = Count(w, D)
  BY <1>2, <1>10, SumIsUnique
<1>12. QED
  BY <1>2, <1>4, <1>9, <1>11

(* The abstract queue                                                      *)

\* The values ImplementsLru gives to held and incoming.
Held == {entry(cache[t]) : t \in AtLabel({"reput_P"})}
Incoming == IF AtLabel({"put", "evict"}) = {} THEN NULL
            ELSE entry(cache[CHOOSE t \in AtLabel({"put", "evict"}) : TRUE])

\* A thread whose search found nothing, until it links an object of its own.  While
\* MissesApart holds it is the only one that can insert an object of its URI.
MissedAt(t) == \/ pc[t] \in {"fetch", "put_P"}
               \/ pc[t] \in {"done_P", "done_last", "done_V"} /\ cache[t] = NULL
Missed(t) == MissedAt(t) => \A o \in Queue : key[o] # uri[t]

LruInv == ObjectsInv /\ LockInv /\ \A t \in Worker : Missed(t)

\* A search that returns NULL has looked at the whole list.
LEMMA NothingFound ==
  ASSUME TypeOK, IsList, Queue \subseteq live, NEW u \in Uri, StopOf(u) = NULL
  PROVE  \A o \in Queue : key[o] # u
<1>1. PICK n \in Nat : \E q : Chain(n, q)
  BY DEF IsList
<1>2. PICK q : Chain(n, q)
  BY <1>1
<1>3. /\ \A i \in Steps : nth[i] = IF i < n THEN q[i + 1] ELSE NULL
      /\ Queue = Listed(n, q) /\ n \in Steps
  BY <1>2, ChainWalk, ChainLength
<1>4. PICK m : m = Min(Stops(u))
  OBVIOUS
<1>5. m \in Stops(u) /\ \A i \in Stops(u) : m <= i
  <2>1. \E x \in Stops(u) : \A y \in Stops(u) : x <= y
    BY SearchEnds, StepsNat, LeastNat DEF Stops
  <2>2. QED
    BY <1>4, <2>1 DEF Min
<1>6. m \in Steps /\ nth[m] = NULL
  BY <1>4, <1>5 DEF Stops, StopOf
<1>7. \A i \in 1 .. n : q[i] # NULL
  BY <1>2, ObjAssumption DEF Chain
<1>8. n <= m
  <2>1. SUFFICES ASSUME m < n PROVE FALSE
    <3>1. m \in Nat
      BY <1>6, StepsNat
    <3>2. QED
      BY <3>1
  <2>2. m \in Nat
    BY <1>6, StepsNat
  <2>3. m + 1 \in 1 .. n
    BY <2>1, <2>2
  <2>4. nth[m] = q[m + 1]
    BY <1>3, <1>6, <2>1
  <2>5. QED
    BY <1>6, <1>7, <2>3, <2>4
<1>9. ASSUME NEW i \in 1 .. n PROVE key[q[i]] # u
  <2>1. i - 1 \in Steps /\ i - 1 < n /\ i - 1 + 1 = i /\ ~ (m <= i - 1)
    BY <1>3, <1>6, <1>8, StepsNat DEF Steps
  <2>2. nth[i - 1] = q[i] /\ i - 1 \notin Stops(u)
    BY <1>3, <1>5, <2>1
  <2>3. QED
    BY <2>1, <2>2 DEF Stops
<1>10. QED
  BY <1>3, <1>9 DEF Listed


\* A chain in the next state gives the sequence of entries of the next state.
LEMMA NewSeq ==
  ASSUME NEW n \in Nat, NEW q, Chain(n, q)'
  PROVE  QueueSeq' = [i \in 1 .. n |-> [id |-> q[i], key |-> key'[q[i]], size |-> size'[q[i]]]]
<1>1. QueueSeq' = Entries(n, q)'
  BY ChainSeqNext DEF ChainIsSeq
<1>2. QED
  BY <1>1 DEF Entries, entry

\* A step that changes no object of the list.
LEMMA SameSeq ==
  ASSUME IsList, UNCHANGED <<head, tail>>,
         \A o \in Queue : /\ next'[o] = next[o] /\ prev'[o] = prev[o]
                          /\ key'[o] = key[o] /\ size'[o] = size[o]
  PROVE  QueueSeq' = QueueSeq
<1>1. PICK n \in Nat : \E q : Chain(n, q)
  BY DEF IsList
<1>2. PICK q : Chain(n, q)
  BY <1>1
<1>3. \A i \in 1 .. n : q[i] \in Queue
  BY <1>2, ChainWalk DEF Listed
<1>4. Chain(n, q)'
  BY <1>2, <1>3 DEF Chain
<1>5. QueueSeq' = [i \in 1 .. n |-> [id |-> q[i], key |-> key'[q[i]], size |-> size'[q[i]]]]
  BY <1>4, NewSeq
<1>6. QueueSeq = [i \in 1 .. n |-> [id |-> q[i], key |-> key[q[i]], size |-> size[q[i]]]]
  BY <1>2, ChainSeq DEF ChainIsSeq, Entries, entry
<1>7. QED
  BY <1>3, <1>5, <1>6

\* A sequence without its k-th element.
LEMMA RemovedAt ==
  ASSUME NEW n \in Nat, NEW S, NEW s \in [1 .. n -> S], NEW k \in 1 .. n
  PROVE  [i \in 1 .. n - 1 |-> IF i < k THEN s[i] ELSE s[i + 1]] = Lru!RemoveAt(s, k)
<1>1. s \in Seq(S) /\ Len(s) = n
  OBVIOUS
<1>2. PICK a, b : a = SubSeq(s, 1, k - 1) /\ b = SubSeq(s, k + 1, n)
  OBVIOUS
<1>3. /\ a \in Seq(S) /\ Len(a) = k - 1 /\ \A i \in 1 .. k - 1 : a[i] = s[i]
      /\ b \in Seq(S) /\ Len(b) = n - k /\ \A i \in 1 .. n - k : b[i] = s[i + k]
  BY <1>1, <1>2
<1>4. Lru!RemoveAt(s, k) = a \o b
  BY <1>1, <1>2 DEF Lru!RemoveAt
<1>5. /\ a \o b \in Seq(S) /\ Len(a \o b) = Len(a) + Len(b)
      /\ \A i \in 1 .. Len(a) + Len(b) :
            (a \o b)[i] = IF i <= Len(a) THEN a[i] ELSE b[i - Len(a)]
  BY <1>3, ConcatProperties
<1>6. PICK c : c = a \o b
  OBVIOUS
<1>7. c \in Seq(S) /\ Len(c) = n - 1
  BY <1>3, <1>5, <1>6
<1>8. ASSUME NEW i \in 1 .. n - 1
      PROVE  c[i] = IF i < k THEN s[i] ELSE s[i + 1]
  <2>1. c[i] = IF i <= k - 1 THEN a[i] ELSE b[i - (k - 1)]
    BY <1>3, <1>5, <1>6
  <2>2. CASE i < k
    BY <1>3, <2>1, <2>2
  <2>3. CASE ~ (i < k)
    <3>1. i - (k - 1) \in 1 .. n - k /\ (i - (k - 1)) + k = i + 1 /\ ~ (i <= k - 1)
      BY <2>3
    <3>2. QED
      BY <1>3, <2>1, <2>3, <3>1
  <2>4. QED
    BY <2>2, <2>3
<1>9. c = [i \in 1 .. n - 1 |-> IF i < k THEN s[i] ELSE s[i + 1]]
  BY <1>7, <1>8
<1>10. QED
  BY <1>4, <1>6, <1>9

\* Unlinking an object takes its entry out of the sequence.
LEMMA UnlinkFromSeq ==
  ASSUME TypeOK, IsList, NEW c \in Queue, Unlink(c), UNCHANGED <<key, size>>
  PROVE  \E i \in DOMAIN QueueSeq : /\ QueueSeq[i] = entry(c)
                                    /\ c = head => i = 1
                                    /\ QueueSeq' = Lru!RemoveAt(QueueSeq, i)
<1>1. PICK n \in Nat : \E q : Chain(n, q)
  BY DEF IsList
<1>2. PICK q : Chain(n, q)
  BY <1>1
<1>3. PICK k \in 1 .. n : c = q[k]
  BY <1>2, ChainWalk DEF Listed
<1>4. PICK r : r = Without(n, q, k)
  OBVIOUS
<1>5. n - 1 \in Nat /\ Chain(n - 1, r)'
  BY <1>2, <1>3, <1>4, UnlinkChain
<1>6. QueueSeq' = [i \in 1 .. n - 1 |-> [id |-> r[i], key |-> key'[r[i]], size |-> size'[r[i]]]]
  BY <1>5, NewSeq
<1>7. QueueSeq = [i \in 1 .. n |-> entry(q[i])]
  BY <1>2, ChainSeq DEF ChainIsSeq, Entries
<1>8. \A i \in 1 .. n - 1 : r[i] = IF i < k THEN q[i] ELSE q[i + 1]
  BY <1>4 DEF Without
<1>9. PICK s : s = QueueSeq
  OBVIOUS
<1>10. QueueSeq' = [i \in 1 .. n - 1 |-> entry(r[i])]
  BY <1>6 DEF entry
<1>11. \A i \in 1 .. n - 1 : entry(r[i]) = IF i < k THEN s[i] ELSE s[i + 1]
  <2>1. \A i \in 1 .. n - 1 : i \in 1 .. n /\ i + 1 \in 1 .. n
    OBVIOUS
  <2>2. QED
    BY <1>7, <1>8, <1>9, <2>1
<1>12. QueueSeq' = [i \in 1 .. n - 1 |-> IF i < k THEN s[i] ELSE s[i + 1]]
  BY <1>10, <1>11
<1>13. s \in [1 .. n -> {entry(q[i]) : i \in 1 .. n}]
  BY <1>7, <1>9
<1>14. QueueSeq' = Lru!RemoveAt(s, k)
  <2>1. PICK S : s \in [1 .. n -> S]
    BY <1>13
  <2>2. [i \in 1 .. n - 1 |-> IF i < k THEN s[i] ELSE s[i + 1]] = Lru!RemoveAt(s, k)
    BY <2>1, RemovedAt
  <2>3. QED
    BY <1>12, <2>2
<1>15. c = head => k = 1
  <2>1. /\ head = IF n = 0 THEN NULL ELSE q[1]
        /\ \A i, j \in 1 .. n : q[i] = q[j] => i = j
    BY <1>2 DEF Chain
  <2>2. n # 0 /\ 1 \in 1 .. n
    BY <1>3
  <2>3. QED
    BY <1>3, <2>1, <2>2
<1>16. QED
  BY <1>3, <1>7, <1>9, <1>14, <1>15

\* Without the first element, the sequence is its tail.
LEMMA DropFromSeq ==
  ASSUME TypeOK, IsList, head # NULL, DropHead, UNCHANGED <<next, key, size>>
  PROVE  QueueSeq # <<>> /\ QueueSeq' = Tail(QueueSeq)
<1>1. head \in Queue /\ Unlink(head)
  BY ListEnds DEF Unlink, DropHead
<1>2. 1 \in DOMAIN QueueSeq /\ QueueSeq' = Lru!RemoveAt(QueueSeq, 1)
  BY <1>1, UnlinkFromSeq
<1>3. PICK n \in Nat : \E q : Chain(n, q)
  BY DEF IsList
<1>4. PICK q : Chain(n, q)
  BY <1>3
<1>5. PICK s : s = QueueSeq
  OBVIOUS
<1>6. s = [i \in 1 .. n |-> entry(q[i])]
  BY <1>4, <1>5, ChainSeq DEF ChainIsSeq, Entries
<1>7. n \in 1 .. n /\ 1 \in 1 .. n /\ s \in [1 .. n -> {entry(q[i]) : i \in 1 .. n}]
  BY <1>2, <1>5, <1>6
<1>8. Lru!RemoveAt(s, 1) = [i \in 1 .. n - 1 |-> IF i < 1 THEN s[i] ELSE s[i + 1]]
  BY <1>7, RemovedAt
<1>9. s \in Seq({entry(q[i]) : i \in 1 .. n}) /\ s # <<>> /\ Len(s) = n
  <2>1. s \in Seq({entry(q[i]) : i \in 1 .. n}) /\ Len(s) = n
    <3>1. PICK S : S = {entry(q[i]) : i \in 1 .. n}
      OBVIOUS
    <3>2. s \in [1 .. n -> S]
      BY <1>7, <3>1
    <3>3. s \in Seq(S) /\ Len(s) = n
      BY <3>2
    <3>4. QED
      BY <3>1, <3>3
  <2>2. Len(<<>>) = 0 /\ n # 0
    BY <1>7
  <2>3. QED
    BY <2>1, <2>2
<1>10. Tail(s) = [i \in 1 .. n - 1 |-> s[i + 1]]
  <2>1. PICK z : z = Tail(s)
    OBVIOUS
  <2>2. /\ z \in Seq({entry(q[i]) : i \in 1 .. n}) /\ Len(z) = n - 1
        /\ \A i \in 1 .. Len(z) : z[i] = s[i + 1]
    BY <1>9, <2>1, HeadTailProperties
  <2>3. z = [i \in 1 .. n - 1 |-> s[i + 1]]
    BY <2>2
  <2>4. QED
    BY <2>1, <2>3
<1>11. Lru!RemoveAt(s, 1) = [i \in 1 .. n - 1 |-> s[i + 1]]
  <2>1. \A i \in 1 .. n - 1 : ~ (i < 1)
    OBVIOUS
  <2>2. QED
    BY <1>8, <2>1
<1>12. QED
  BY <1>2, <1>5, <1>9, <1>10, <1>11

\* Linking an object appends its entry.
LEMMA LinkToSeq ==
  ASSUME TypeOK, IsList, NEW c \in Obj, c \notin Queue, Link(c), UNCHANGED <<key, size>>
  PROVE  QueueSeq' = Append(QueueSeq, entry(c))
<1>1. PICK n \in Nat : \E q : Chain(n, q)
  BY DEF IsList
<1>2. PICK q : Chain(n, q)
  BY <1>1
<1>3. Queue = Listed(n, q)
  BY <1>2, ChainWalk
<1>4. PICK r : r = With(n, q, c)
  OBVIOUS
<1>5. n + 1 \in Nat /\ Chain(n + 1, r)'
  BY <1>2, <1>3, <1>4, LinkChain
<1>6. QueueSeq' = [i \in 1 .. n + 1 |-> [id |-> r[i], key |-> key'[r[i]], size |-> size'[r[i]]]]
  BY <1>5, NewSeq
<1>7. QueueSeq' = [i \in 1 .. n + 1 |-> entry(r[i])]
  BY <1>6 DEF entry
<1>8. PICK s : s = QueueSeq
  OBVIOUS
<1>9. s = [i \in 1 .. n |-> entry(q[i])]
  BY <1>2, <1>8, ChainSeq DEF ChainIsSeq, Entries
<1>10. \A i \in 1 .. n + 1 : entry(r[i]) = IF i <= n THEN s[i] ELSE entry(c)
  <2>1. \A i \in 1 .. n + 1 : r[i] = IF i <= n THEN q[i] ELSE c
    BY <1>4 DEF With
  <2>2. \A i \in 1 .. n + 1 : i <= n => i \in 1 .. n
    OBVIOUS
  <2>3. QED
    BY <1>9, <2>1, <2>2
<1>11. PICK e : e = entry(c)
  OBVIOUS
<1>12. QueueSeq' = [i \in 1 .. n + 1 |-> IF i <= n THEN s[i] ELSE e]
  BY <1>7, <1>10, <1>11
<1>13. s \in Seq({entry(q[i]) : i \in 1 .. n} \cup {e}) /\ Len(s) = n
  BY <1>9
<1>14. Append(s, e) = [i \in 1 .. n + 1 |-> IF i <= n THEN s[i] ELSE e]
  <2>1. PICK z, S : z = Append(s, e) /\ S = {entry(q[i]) : i \in 1 .. n} \cup {e}
    OBVIOUS
  <2>2. s \in Seq(S) /\ e \in S
    BY <1>13, <2>1
  <2>3. /\ z \in Seq(S) /\ Len(z) = n + 1
        /\ \A i \in 1 .. n : z[i] = s[i]
        /\ z[n + 1] = e
    BY <1>13, <2>1, <2>2, AppendProperties
  <2>4. \A i \in 1 .. n + 1 : z[i] = IF i <= n THEN s[i] ELSE e
    BY <2>3
  <2>5. z = [i \in 1 .. n + 1 |-> IF i <= n THEN s[i] ELSE e]
    BY <2>3, <2>4
  <2>6. QED
    BY <2>1, <2>5
<1>15. QED
  BY <1>8, <1>11, <1>12, <1>14

\* The list after a step: the objects it held keep their keys, and only Put adds one.
LEMMA QueueAfter ==
  ASSUME ObjectsInv, TypeOK', NEW t \in Worker, Accept(t) \/ Step(t),
         NEW o \in Queue'
  PROVE  /\ key'[o] = key[o]
         /\ o \in Queue \/ (Put(t) /\ o = cache[t])
<1>1. TypeOK /\ EntriesInv /\ Holds(t)
  BY DEF ObjectsInv
<1>2. CASE Fetch(t)
  <2>1. PICK c \in Obj \ live :
          /\ \E u : key' = [key EXCEPT ![c] = u]
          /\ next' = [next EXCEPT ![c] = NULL]
          /\ prev' = [prev EXCEPT ![c] = NULL]
    BY <1>2 DEF Fetch
  <2>2. \A x \in Queue : x \in Obj \ {c}
    BY <1>1, <2>1 DEF EntriesInv, TypeOK
  <2>3. \A x \in Queue : key'[x] = key[x] /\ next'[x] = next[x] /\ prev'[x] = prev[x]
    BY <1>1, <2>1, <2>2 DEF TypeOK
  <2>4. UNCHANGED <<head, tail>>
    BY <1>2 DEF Fetch
  <2>5. Queue' = Queue
    BY <1>1, <2>3, <2>4, ListUntouched DEF EntriesInv
  <2>6. QED
    BY <2>3, <2>5
<1>3. CASE MoveOut(t)
  <2>1. cache[t] \in Queue /\ Unlink(cache[t]) /\ UNCHANGED key
    BY <1>1, <1>3 DEF Holds, MoveOut, At, entryVars
  <2>2. Queue' = Queue \ {cache[t]}
    BY <1>1, <2>1, UnlinkFromList DEF EntriesInv
  <2>3. QED
    BY <2>1, <2>2
<1>4. CASE Evict(t)
  <2>1. head # NULL /\ DropHead /\ UNCHANGED <<next, key>>
    BY <1>4 DEF Evict
  <2>2. Queue' = Queue \ {head}
    BY <1>1, <2>1, DropFromList DEF EntriesInv
  <2>3. QED
    BY <2>1, <2>2
<1>5. CASE Put(t)
  <2>1. Link(cache[t]) /\ UNCHANGED key
    BY <1>5 DEF Put, entryVars
  <2>2. cache[t] \in Obj /\ cache[t] \notin Queue
    BY <1>1, <1>5 DEF Holds, Put, At, EntriesInv, TypeOK
  <2>3. Queue' = Queue \cup {cache[t]}
    BY <1>1, <2>1, <2>2, LinkToList DEF EntriesInv
  <2>4. QED
    BY <1>5, <2>1, <2>3
<1>6. CASE ~ (Fetch(t) \/ MoveOut(t) \/ Evict(t) \/ Put(t))
  <2>1. UNCHANGED <<listVars, key>>
    BY <1>6 DEF Step, Accept, ReaderEnter, FirstReader, ReaderEntered, Search, SearchSpins,
       ReaderLeave, LastReader, ReaderLeft, WriteHit, WriterLock, PutMore, EvictSpins, Close,
       Die, BadAccess, entryVars, vars
  <2>2. Queue' = Queue
    BY <1>1, <2>1, ListUntouched DEF EntriesInv, listVars
  <2>3. QED
    BY <2>1, <2>2
<1>7. QED
  BY <1>2, <1>3, <1>4, <1>5, <1>6

\* How a thread comes to know that its URI is not in the list.
LEMMA MissedBefore ==
  ASSUME TypeOK, TypeOK', NEW t \in Worker, Accept(t) \/ Step(t), NEW s \in Worker,
         MissedAt(s)'
  PROVE  /\ uri'[s] = uri[s]
         /\ \/ s = t /\ Search(t) /\ StopOf(uri[t]) = NULL
            \/ MissedAt(s)
<1> USE DEF MissedAt, TypeOK, At, Goto
<1>1. CASE Accept(t)
  BY <1>1 DEF Accept
<1>2. CASE Search(t)
  <2>1. /\ cache' = [cache EXCEPT ![t] = StopOf(uri[t])]
        /\ pc' = [pc EXCEPT ![t] = "done_P"] /\ uri' = uri
    BY <1>2 DEF Search
  <2>2. QED
    BY <1>2, <2>1
<1>3. CASE ReaderLeave(t) \/ LastReader(t) \/ ReaderLeft(t)
  BY <1>3 DEF ReaderLeave, LastReader, ReaderLeft
<1>4. CASE Fetch(t)
  <2>1. PICK c \in Obj, n \in RespSizes :
          /\ cache' = [cache EXCEPT ![t] = c]
          /\ pc' = [pc EXCEPT ![t] = IF n <= MaxObjectSize THEN "put_P" ELSE "close"]
    BY <1>4 DEF Fetch
  <2>2. uri' = uri /\ pc[t] = "fetch"
    BY <1>4 DEF Fetch
  <2>3. QED
    BY <2>1, <2>2
<1>5. CASE WriterLock(t)
  BY <1>5 DEF WriterLock
<1>6. CASE \/ ReaderEnter(t) \/ FirstReader(t) \/ ReaderEntered(t) \/ WriteHit(t)
           \/ MoveOut(t) \/ PutMore(t) \/ Put(t) \/ Close(t)
  BY <1>6 DEF ReaderEnter, FirstReader, ReaderEntered, WriteHit, MoveOut, PutMore, Put, Close
<1>7. CASE SearchSpins(t) \/ EvictSpins(t) \/ Evict(t) \/ Die(t) \/ BadAccess(t)
  BY <1>7 DEF SearchSpins, EvictSpins, Evict, Die, BadAccess, vars
<1>8. QED
  BY <1>1, <1>2, <1>3, <1>4, <1>5, <1>6, <1>7 DEF Step

LEMMA MissedStep ==
  ASSUME MissesApart, LruInv, [Next]_vars
  PROVE  \A s \in Worker : Missed(s)'
<1>1. ObjectsInv /\ TypeOK /\ TypeOK' /\ EntriesInv
  BY NextType DEF LruInv, ObjectsInv
<1>2. CASE UNCHANGED vars
  <2>1. UNCHANGED <<listVars, entryVars, pc, uri, cache>>
    BY <1>2 DEF vars
  <2>2. Queue' = Queue
    BY <1>1, <2>1, ListUntouched DEF EntriesInv, listVars
  <2>3. QED
    BY <2>1, <2>2 DEF LruInv, Missed, MissedAt, entryVars
<1>3. ASSUME NEW t \in Worker, Accept(t) \/ Step(t), NEW s \in Worker, MissedAt(s)',
             NEW o \in Queue'
      PROVE  key'[o] # uri'[s]
  <2>1. /\ key'[o] = key[o]
        /\ o \in Queue \/ (Put(t) /\ o = cache[t])
    BY <1>1, <1>3, QueueAfter
  <2>2. /\ uri'[s] = uri[s]
        /\ \/ s = t /\ Search(t) /\ StopOf(uri[t]) = NULL
           \/ MissedAt(s)
    BY <1>1, <1>3, MissedBefore
  <2>3. CASE o \in Queue
    <3>1. CASE MissedAt(s)
      BY <2>1, <2>2, <2>3, <3>1 DEF LruInv, Missed
    <3>2. CASE s = t /\ Search(t) /\ StopOf(uri[t]) = NULL
      <4>1. uri[t] \in Uri
        BY <1>1, <3>2 DEF Search, At, ObjectsInv, Holds
      <4>2. QED
        BY <1>1, <2>1, <2>2, <2>3, <3>2, <4>1, NothingFound DEF EntriesInv
    <3>3. QED
      BY <2>2, <3>1, <3>2
  <2>4. CASE Put(t) /\ o = cache[t]
    <3>1. pc[t] \in {"put", "evict"} /\ key[cache[t]] = uri[t]
      BY <1>1, <2>4 DEF Put, At, ObjectsInv, Holds
    <3>2. MissedAt(s)
      BY <2>2, <2>4, <3>1 DEF Search, At
    <3>3. s # t /\ Absent(s) /\ Absent(t)
      BY <3>1, <3>2 DEF MissedAt, Absent, InTransit
    <3>4. uri[s] # uri[t]
      BY <3>3 DEF MissesApart
    <3>5. QED
      BY <2>1, <2>2, <2>4, <3>1, <3>4
  <2>5. QED
    BY <2>1, <2>3, <2>4
<1>4. ASSUME NEW t \in Worker, Accept(t) \/ Step(t), NEW s \in Worker PROVE Missed(s)'
  BY <1>3, <1>4 DEF Missed
<1>5. QED
  BY <1>2, <1>4 DEF Next, Halted

LEMMA LruStep ==
  ASSUME Undisturbed, LruInv, [Next]_vars
  PROVE  LruInv'
<1>1. ObjectsInv' /\ TypeOK
  BY ObjectsStep DEF Undisturbed, LruInv, ObjectsInv
<1>2. LockInv'
  BY <1>1, NextLock DEF LruInv
<1>3. QED
  BY <1>1, <1>2, MissedStep DEF Undisturbed, LruInv

(* What the abstract actions are, under the refinement mapping.            *)

LEMMA AbstractStutter ==
  ASSUME QueueSeq' = QueueSeq, Held' = Held, Incoming' = Incoming
  PROVE  UNCHANGED Lru!lruVars
BY DEF Lru!lruVars, Held, Incoming

LEMMA AbstractTake ==
  ASSUME NEW i \in DOMAIN QueueSeq, QueueSeq' = Lru!RemoveAt(QueueSeq, i),
         Held' = Held \cup {QueueSeq[i]}, Incoming' = Incoming
  PROVE  Lru!Take
BY DEF Lru!Take, Held, Incoming

LEMMA AbstractOffer ==
  ASSUME Incoming = NULL, NEW e \in Held \cup Lru!Fresh, Incoming' = e,
         Held' = Held \ {e}, QueueSeq' = QueueSeq
  PROVE  Lru!Offer
BY DEF Lru!Offer, Held, Incoming

LEMMA AbstractFresh ==
  ASSUME Incoming = NULL, NEW e \in Lru!Entry,
         \A k \in Lru!ToSet(QueueSeq) \cup Held : k.id # e.id /\ k.key # e.key
  PROVE  e \in Lru!Fresh
BY DEF Lru!Fresh, Lru!Known, Held, Incoming

LEMMA AbstractEvict ==
  ASSUME Incoming # NULL, QueueSeq # <<>>, ~ (Lru!Total + Incoming.size <= MaxCacheSize),
         QueueSeq' = Tail(QueueSeq), Held' = Held, Incoming' = Incoming
  PROVE  Lru!EvictOldest
BY DEF Lru!EvictOldest, Lru!Fits, Held, Incoming

LEMMA AbstractAdmit ==
  ASSUME Incoming # NULL, Lru!Total + Incoming.size <= MaxCacheSize,
         QueueSeq' = Append(QueueSeq, Incoming), Held' = Held, Incoming' = NULL
  PROVE  Lru!Admit
BY DEF Lru!Admit, Lru!Fits, Held, Incoming

\* The writer that inserts an object is alone, so the mapping takes its object.
IncomingIsWriters ==
    LockInv => \A t \in AtLabel({"put", "evict"}) : Incoming = entry(cache[t])

LEMMA WritersObject == IncomingIsWriters
<1> SUFFICES ASSUME LockInv, NEW t \in AtLabel({"put", "evict"})
             PROVE  Incoming = entry(cache[t])
  BY DEF IncomingIsWriters
<1>1. \A s \in AtLabel({"put", "evict"}) : s = t
  BY DEF AtLabel, LockInv, WriterMutexInv, Writers
<1>2. (CHOOSE s \in AtLabel({"put", "evict"}) : TRUE) = t
  BY <1>1
<1>3. QED
  BY <1>2 DEF Incoming

LEMMA WritersObjectNext == IncomingIsWriters'
BY WritersObject, PTL

\* An object in transit is an entry of the abstract queue.
LEMMA TransitEntry ==
  ASSUME ObjectsInv, NEW t \in Worker, pc[t] \in {"reput_P", "put_P", "put", "evict"}
  PROVE  entry(cache[t]) \in Lru!Entry
<1>1. cache[t] \in Obj /\ key[cache[t]] = uri[t] /\ uri[t] \in Uri
  BY DEF ObjectsInv, Holds, TypeOK
<1>2. size[cache[t]] \in 0 .. MaxCacheSize
  BY <1>1, SizeAssumption DEF ObjectsInv, TypeOK
<1>3. QED
  BY <1>1, <1>2 DEF entry, Lru!Entry

\* Held and Incoming after a step of t.
LEMMA HeldSame ==
  ASSUME AtLabel({"reput_P"})' = AtLabel({"reput_P"}),
         \A s \in AtLabel({"reput_P"}) : /\ cache'[s] = cache[s]
                                         /\ key'[cache[s]] = key[cache[s]]
                                         /\ size'[cache[s]] = size[cache[s]]
  PROVE  Held' = Held
BY DEF Held, entry

LEMMA IncomingSame ==
  ASSUME LockInv, LockInv', AtLabel({"put", "evict"})' = AtLabel({"put", "evict"}),
         \A s \in AtLabel({"put", "evict"}) : /\ cache'[s] = cache[s]
                                              /\ key'[cache[s]] = key[cache[s]]
                                              /\ size'[cache[s]] = size[cache[s]]
  PROVE  Incoming' = Incoming
<1>1. CASE AtLabel({"put", "evict"}) = {}
  BY <1>1 DEF Incoming
<1>2. ASSUME NEW s \in AtLabel({"put", "evict"})
      PROVE  Incoming' = Incoming
  <2>1. Incoming = entry(cache[s]) /\ Incoming' = entry(cache[s])'
    BY WritersObject, WritersObjectNext DEF IncomingIsWriters
  <2>2. QED
    BY <2>1 DEF entry
<1>3. QED
  BY <1>1, <1>2

-----------------------------------------------------------------------------
\* A hit takes its entry out of the queue.
LEMMA MoveOutTakes ==
  ASSUME LruInv, LruInv', NEW t \in Worker, MoveOut(t)
  PROVE  Lru!Take
<1>1. TypeOK /\ EntriesInv /\ Holds(t) /\ pc[t] = "move" /\ LockInv /\ LockInv'
  BY DEF LruInv, ObjectsInv, MoveOut, At
<1>2. /\ Unlink(cache[t]) /\ pc' = [pc EXCEPT ![t] = "reput_P"]
      /\ UNCHANGED <<key, size, cache>>
  BY DEF MoveOut, Goto, entryVars
<1>3. PICK i \in DOMAIN QueueSeq : /\ QueueSeq[i] = entry(cache[t])
                                   /\ QueueSeq' = Lru!RemoveAt(QueueSeq, i)
  BY <1>1, <1>2, UnlinkFromSeq DEF Holds, EntriesInv
<1>4. /\ AtLabel({"reput_P"})' = AtLabel({"reput_P"}) \cup {t}
      /\ AtLabel({"put", "evict"})' = AtLabel({"put", "evict"})
  BY <1>1, <1>2 DEF AtLabel, TypeOK
<1>5. Held' = Held \cup {entry(cache[t])}
  BY <1>2, <1>4 DEF Held, entry
<1>6. Incoming' = Incoming
  BY <1>1, <1>2, <1>4, IncomingSame
<1>7. QED
  BY <1>3, <1>5, <1>6, AbstractTake

\* The thread that gets the lock for put_cache offers its object: held, or new.
LEMMA WriterLockOffers ==
  ASSUME MissesApart, LruInv, LruInv', NEW t \in Worker, WriterLock(t), pc[t] # "move_P"
  PROVE  Lru!Offer
<1> DEFINE e == entry(cache[t])
<1>1. TypeOK /\ ObjectsInv /\ EntriesInv /\ Holds(t) /\ Missed(t) /\ LockInv /\ LockInv'
  BY DEF LruInv, ObjectsInv
<1>2. /\ pc[t] \in {"reput_P", "put_P"} /\ pc' = [pc EXCEPT ![t] = "put"]
      /\ UNCHANGED <<listVars, key, size, cache>> /\ writer_mutex > 0
  BY DEF WriterLock, At, Goto, entryVars
<1>3. Incoming = NULL
  <2>1. Writers = {}
    BY <1>1, <1>2 DEF LockInv, WriterMutexInv
  <2>2. QED
    BY <2>1 DEF Incoming, AtLabel, Writers
<1>4. Incoming' = e
  <2>1. t \in AtLabel({"put", "evict"})'
    BY <1>1, <1>2 DEF AtLabel, TypeOK
  <2>2. Incoming' = entry(cache[t])'
    BY <1>1, <2>1, WritersObjectNext DEF IncomingIsWriters
  <2>3. QED
    BY <1>2, <2>2 DEF entry
<1>5. QueueSeq' = QueueSeq
  BY <1>1, <1>2, SameSeq DEF EntriesInv, listVars
<1>6. AtLabel({"reput_P"})' = AtLabel({"reput_P"}) \ {t}
  BY <1>1, <1>2 DEF AtLabel, TypeOK
<1>7. ASSUME NEW s \in AtLabel({"reput_P"}), s # t
      PROVE  cache[s] # cache[t] /\ key[cache[s]] # key[cache[t]]
  <2>1. s \in Worker /\ pc[s] = "reput_P" /\ Holds(s)
    BY <1>1, <1>7 DEF AtLabel, ObjectsInv
  <2>2. key[cache[s]] = uri[s] /\ key[cache[t]] = uri[t]
    BY <1>1, <1>2, <2>1 DEF Holds
  <2>3. uri[s] # uri[t]
    BY <1>2, <1>7, <2>1 DEF MissesApart, Absent, InTransit
  <2>4. QED
    BY <2>2, <2>3
<1>8. \A s \in AtLabel({"reput_P"}) : s # t => entry(cache[s]) # e
  BY <1>7 DEF entry
<1>9. Held' = {entry(cache[s]) : s \in AtLabel({"reput_P"}) \ {t}}
  BY <1>2, <1>6 DEF Held, entry
<1> HIDE DEF e
<1>10. Held' = Held \ {e}
  BY <1>8, <1>9 DEF Held, e
<1>11. CASE pc[t] = "reput_P"
  <2>1. e \in Held
    BY <1>11 DEF Held, AtLabel, e
  <2>2. QED
    BY <1>3, <1>4, <1>5, <1>10, <2>1, AbstractOffer
<1>12. CASE pc[t] = "put_P"
  <2>1. e \in Lru!Entry /\ e.id = cache[t] /\ e.key = key[cache[t]]
    BY <1>1, <1>12, TransitEntry DEF e, entry
  <2>2. ASSUME NEW k \in Held PROVE k.id # e.id /\ k.key # e.key
    <3>1. PICK s \in AtLabel({"reput_P"}) : k = entry(cache[s])
      BY DEF Held
    <3>2. s # t
      BY <1>12 DEF AtLabel
    <3>3. QED
      BY <1>7, <2>1, <3>1, <3>2 DEF entry
  <2>3. ASSUME NEW k \in Lru!ToSet(QueueSeq) PROVE k.id # e.id /\ k.key # e.key
    <3>1. PICK n \in Nat : \E q : Chain(n, q)
      BY <1>1 DEF EntriesInv, IsList
    <3>2. PICK q : Chain(n, q)
      BY <3>1
    <3>3. QueueSeq = [i \in 1 .. n |-> entry(q[i])]
      BY <3>2, ChainSeq DEF ChainIsSeq, Entries
    <3>4. PICK i \in 1 .. n : k = entry(q[i])
      BY <3>3 DEF Lru!ToSet
    <3>5. q[i] \in Queue
      BY <3>2, ChainWalk DEF Listed
    <3>6. key[q[i]] # uri[t] /\ q[i] # cache[t] /\ key[cache[t]] = uri[t]
      BY <1>1, <1>12, <3>5 DEF Missed, MissedAt, Holds
    <3>7. QED
      BY <2>1, <3>4, <3>6 DEF entry
  <2>4. e \in Lru!Fresh
    BY <1>3, <2>1, <2>2, <2>3, AbstractFresh
  <2>5. QED
    BY <1>3, <1>4, <1>5, <1>10, <2>4, AbstractOffer
<1>13. QED
  BY <1>2, <1>11, <1>12

\* The loop of put_cache evicts the oldest entry, and only as long as it has to.
LEMMA EvictEvicts ==
  ASSUME NULL \notin Lru!Entry, LruInv, LruInv', NEW t \in Worker, Evict(t)
  PROVE  Lru!EvictOldest
<1>1. /\ TypeOK /\ ObjectsInv /\ EntriesInv /\ Holds(t) /\ LockInv /\ LockInv'
      /\ pc[t] = "evict" /\ TooBig(t) /\ head # NULL
  BY DEF LruInv, ObjectsInv, Evict, At
<1>2. DropHead /\ UNCHANGED <<next, key, size, cache, pc>>
  BY DEF Evict
<1>3. QueueSeq # <<>> /\ QueueSeq' = Tail(QueueSeq)
  BY <1>1, <1>2, DropFromSeq DEF EntriesInv
<1>4. Incoming = entry(cache[t])
  BY <1>1, WritersObject DEF IncomingIsWriters, AtLabel
<1>5. Incoming # NULL /\ Incoming.size = size[cache[t]]
  BY <1>1, <1>4, TransitEntry DEF entry
<1>6. Lru!Total = total_size
  BY <1>1, TotalIsBytes DEF EntriesInv, IsList
<1>7. ~ (Lru!Total + Incoming.size <= MaxCacheSize)
  <2>1. cache[t] \in Obj /\ size[cache[t]] \in Int /\ total_size \in Int
    BY <1>1 DEF ObjectsInv, Holds, TypeOK
  <2>2. QED
    BY <1>1, <1>5, <1>6, <2>1, SizeAssumption DEF TooBig
<1>8. Held' = Held /\ Incoming' = Incoming
  <2>1. /\ AtLabel({"reput_P"})' = AtLabel({"reput_P"})
        /\ AtLabel({"put", "evict"})' = AtLabel({"put", "evict"})
    BY <1>2 DEF AtLabel
  <2>2. QED
    BY <1>1, <1>2, <2>1, HeldSame, IncomingSame
<1>9. QED
  BY <1>3, <1>5, <1>7, <1>8, AbstractEvict

\* The end of put_cache admits the object once it fits.
LEMMA PutAdmits ==
  ASSUME NULL \notin Lru!Entry, LruInv, LruInv', NEW t \in Worker, Put(t)
  PROVE  Lru!Admit
<1>1. /\ TypeOK /\ ObjectsInv /\ EntriesInv /\ Holds(t) /\ LockInv /\ LockInv'
      /\ pc[t] \in {"put", "evict"}
  BY DEF LruInv, ObjectsInv, Put, At
<1>2. /\ Link(cache[t]) /\ pc' = [pc EXCEPT ![t] = "close"]
      /\ UNCHANGED <<key, size, cache>>
  BY DEF Put, Goto, entryVars
<1>3. cache[t] \in Obj /\ cache[t] \notin Queue /\ size[cache[t]] \in 0 .. MaxObjectSize
  BY <1>1 DEF Holds, EntriesInv, TypeOK
<1>4. QueueSeq' = Append(QueueSeq, entry(cache[t]))
  BY <1>1, <1>2, <1>3, LinkToSeq DEF EntriesInv
<1>5. Incoming = entry(cache[t])
  BY <1>1, WritersObject DEF IncomingIsWriters, AtLabel
<1>6. Incoming # NULL /\ Incoming.size = size[cache[t]]
  BY <1>1, <1>5, TransitEntry DEF entry
<1>7. Lru!Total = total_size
  BY <1>1, TotalIsBytes DEF EntriesInv, IsList
<1>8. total_size + size[cache[t]] <= MaxCacheSize
  <2>1. CASE ListEmpty
    <3>1. Queue = {}
      BY <1>1, <2>1, ListEnds DEF EntriesInv, ListEmpty
    <3>2. total_size = 0
      BY <1>1, <3>1, NoBytes DEF EntriesInv
    <3>3. QED
      BY <1>3, <3>2, SizeAssumption
  <2>2. CASE ~ TooBig(t)
    BY <1>1, <1>3, <2>2, SizeAssumption DEF TooBig, TypeOK
  <2>3. QED
    BY <2>1, <2>2 DEF Put
<1>9. Writers' = Writers \ {t} /\ AtLabel({"reput_P"})' = AtLabel({"reput_P"})
  BY <1>1, <1>2 DEF AtLabel, Writers, TypeOK
<1>10. Incoming' = NULL
  <2>1. Writers' = {}
    BY <1>1, <1>9 DEF LockInv, WriterMutexInv, Writers
  <2>2. QED
    BY <2>1 DEF Incoming, AtLabel, Writers
<1>11. Held' = Held
  BY <1>2, <1>9, HeldSame
<1>12. QED
  BY <1>4, <1>5, <1>6, <1>7, <1>8, <1>10, <1>11, AbstractAdmit

\* Every other step leaves the abstract queue alone.
LEMMA OthersStutter ==
  ASSUME LruInv, LruInv', NEW t \in Worker, Accept(t) \/ Step(t),
         ~ (MoveOut(t) \/ (WriterLock(t) /\ pc[t] # "move_P") \/ Evict(t) \/ Put(t))
  PROVE  UNCHANGED Lru!lruVars
<1>1. /\ TypeOK /\ ObjectsInv /\ EntriesInv /\ LockInv /\ LockInv'
  BY DEF LruInv, ObjectsInv
<1> DEFINE Same == /\ QueueSeq' = QueueSeq
                   /\ AtLabel({"reput_P"})' = AtLabel({"reput_P"})
                   /\ AtLabel({"put", "evict"})' = AtLabel({"put", "evict"})
                   /\ \A s \in AtLabel({"reput_P", "put", "evict"}) :
                         /\ cache'[s] = cache[s]
                         /\ key'[cache[s]] = key[cache[s]]
                         /\ size'[cache[s]] = size[cache[s]]
<1>2. ASSUME Fetch(t) PROVE Same
  <2>1. PICK c \in Obj \ live, n \in RespSizes :
          /\ key' = [key EXCEPT ![c] = uri[t]]
          /\ size' = [size EXCEPT ![c] = Copied(n)]
          /\ next' = [next EXCEPT ![c] = NULL]
          /\ prev' = [prev EXCEPT ![c] = NULL]
          /\ cache' = [cache EXCEPT ![t] = c]
          /\ pc' = [pc EXCEPT ![t] = IF n <= MaxObjectSize THEN "put_P" ELSE "close"]
    BY <1>2 DEF Fetch, Goto
  <2>2. UNCHANGED <<head, tail>> /\ pc[t] = "fetch"
    BY <1>2 DEF Fetch, At
  <2>3. \A o \in live : /\ next'[o] = next[o] /\ prev'[o] = prev[o]
                        /\ key'[o] = key[o] /\ size'[o] = size[o]
    BY <1>1, <2>1 DEF TypeOK
  <2>4. QueueSeq' = QueueSeq
    BY <1>1, <2>2, <2>3, SameSeq DEF EntriesInv
  <2>5. \A s \in Worker \ {t} : pc'[s] = pc[s] /\ cache'[s] = cache[s]
    BY <1>1, <2>1 DEF TypeOK
  <2>6. /\ AtLabel({"reput_P"})' = AtLabel({"reput_P"})
        /\ AtLabel({"put", "evict"})' = AtLabel({"put", "evict"})
    BY <1>1, <2>1, <2>2 DEF AtLabel, TypeOK
  <2>7. \A s \in AtLabel({"reput_P", "put", "evict"}) : s \in Worker \ {t} /\ cache[s] \in live
    BY <1>1, <2>2 DEF AtLabel, ObjectsInv, Holds
  <2>8. QED
    BY <2>3, <2>4, <2>5, <2>6, <2>7
<1>3. ASSUME ~ Fetch(t) PROVE Same
  <2>1. UNCHANGED <<listVars, key, size>>
    BY <1>3 DEF Step, Accept, ReaderEnter, FirstReader, ReaderEntered, Search, SearchSpins,
       ReaderLeave, LastReader, ReaderLeft, WriteHit, WriterLock, PutMore, EvictSpins, Close,
       Die, BadAccess, entryVars, vars
  <2>2. QueueSeq' = QueueSeq
    BY <1>1, <2>1, SameSeq DEF EntriesInv, listVars
  <2>3. /\ \A s \in Worker \ {t} : pc'[s] = pc[s] /\ cache'[s] = cache[s]
        /\ pc[t] = "reput_P" <=> pc'[t] = "reput_P"
        /\ pc[t] \in {"put", "evict"} <=> pc'[t] \in {"put", "evict"}
        /\ pc[t] \in {"reput_P", "put", "evict"} => cache'[t] = cache[t]
    BY <1>1, <1>3 DEF Step, Accept, ReaderEnter, FirstReader, ReaderEntered, Search, SearchSpins,
       ReaderLeave, LastReader, ReaderLeft, WriteHit, WriterLock, PutMore, EvictSpins, Close,
       Die, BadAccess, vars, At, Goto, TypeOK
  <2>4. QED
    BY <2>1, <2>2, <2>3 DEF AtLabel
<1>4. Same
  BY <1>2, <1>3
<1>5. Held' = Held /\ Incoming' = Incoming
  BY <1>1, <1>4, HeldSame, IncomingSame DEF AtLabel
<1>6. QED
  BY <1>4, <1>5, AbstractStutter

LEMMA LruStart ==
  ASSUME Init
  PROVE  LruInv /\ Lru!LruInit
<1>1. ObjectsInv /\ LockInv
  BY ObjectsStart, InitLock
<1>2. \A t \in Worker : pc[t] = "idle"
  BY DEF Init
<1>3. \A t \in Worker : Missed(t)
  BY <1>2 DEF Missed, MissedAt
<1>4. QueueSeq = <<>>
  <2>1. PICK q : q = [i \in 1 .. 0 |-> head]
    OBVIOUS
  <2>2. Chain(0, q)
    BY <2>1 DEF Chain, Init
  <2>3. QueueSeq = [i \in 1 .. 0 |-> entry(q[i])]
    BY <2>2, ChainSeq DEF ChainIsSeq, Entries
  <2>4. QED
    BY <2>3
<1>5. AtLabel({"reput_P"}) = {} /\ AtLabel({"put", "evict"}) = {}
  BY <1>2 DEF AtLabel
<1>6. Lru!LruInit
  BY <1>4, <1>5 DEF Lru!LruInit
<1>7. QED
  BY <1>1, <1>3, <1>6 DEF LruInv

\* As long as no thread takes out or evicts what another has found, and no two threads
\* are about to insert the same URI, the list of cache.c behaves as the queue of LruCache
\* for any number of threads: a hit takes an entry out and offers it again, a miss offers
\* a new one, nothing but the oldest entry is evicted, and only while the offered one does
\* not fit.
THEOREM CacheIsLru ==
  ASSUME NULL \notin Lru!Entry
  PROVE  Spec /\ []Undisturbed => ImplementsLru
<1>1. ASSUME Undisturbed, LruInv, LruInv', [Next]_vars
      PROVE  [Lru!LruNext]_(Lru!lruVars)
  <2>1. CASE UNCHANGED vars
    <3>1. UNCHANGED <<head, tail, next, prev, key, size, cache, pc>>
      BY <2>1 DEF vars, listVars, entryVars
    <3>2. QueueSeq' = QueueSeq
      BY <1>1, <3>1, SameSeq DEF LruInv, ObjectsInv, EntriesInv
    <3>3. /\ AtLabel({"reput_P"})' = AtLabel({"reput_P"})
          /\ AtLabel({"put", "evict"})' = AtLabel({"put", "evict"})
      BY <3>1 DEF AtLabel
    <3>4. Held' = Held /\ Incoming' = Incoming
      BY <1>1, <3>1, <3>3, HeldSame, IncomingSame DEF LruInv
    <3>5. QED
      BY <3>2, <3>4, AbstractStutter
  <2>2. ASSUME NEW t \in Worker, Accept(t) \/ Step(t)
        PROVE  [Lru!LruNext]_(Lru!lruVars)
    <3>1. CASE MoveOut(t)
      BY <1>1, <3>1, MoveOutTakes DEF Lru!LruNext
    <3>2. CASE WriterLock(t) /\ pc[t] # "move_P"
      BY <1>1, <3>2, WriterLockOffers DEF Undisturbed, Lru!LruNext
    <3>3. CASE Evict(t)
      BY <1>1, <3>3, EvictEvicts DEF Lru!LruNext
    <3>4. CASE Put(t)
      BY <1>1, <3>4, PutAdmits DEF Lru!LruNext
    <3>5. CASE ~ (MoveOut(t) \/ (WriterLock(t) /\ pc[t] # "move_P") \/ Evict(t) \/ Put(t))
      BY <1>1, <2>2, <3>5, OthersStutter
    <3>6. QED
      BY <3>1, <3>2, <3>3, <3>4, <3>5
  <2>3. QED
    BY <1>1, <2>1, <2>2 DEF Next, Halted
<1>2. Undisturbed /\ LruInv /\ [Next]_vars => LruInv'
  BY LruStep
<1>3. Init => LruInv /\ Lru!LruInit
  BY LruStart
<1>4. QED
  BY <1>1, <1>2, <1>3, PTL DEF Spec, ImplementsLru, Lru!LruSpec

(***************************************************************************)
(* What LruCache_proofs says of the abstract cache holds of the code, too. *)
(***************************************************************************)
LruTheorems == INSTANCE LruCache_proofs WITH
                 Id <- Obj, Key <- Uri, Capacity <- MaxCacheSize, None <- NULL,
                 queue <- QueueSeq, held <- Held, incoming <- Incoming

\* No two objects of the list have the same key: a lookup has one answer, and bytes of
\* the cache are not spent twice on one URI.
UriCachedOnce == \A o, p \in Queue : key[o] = key[p] => o = p

LEMMA KnownOnceOfList ==
  ASSUME IsList, Lru!KnownOnce
  PROVE  UriCachedOnce
<1> SUFFICES ASSUME NEW o \in Queue, NEW p \in Queue, key[o] = key[p] PROVE o = p
  BY DEF UriCachedOnce
<1>1. PICK n \in Nat : \E q : Chain(n, q)
  BY DEF IsList
<1>2. PICK q : Chain(n, q)
  BY <1>1
<1>3. PICK i \in 1 .. n, j \in 1 .. n : o = q[i] /\ p = q[j]
  BY <1>2, ChainWalk DEF Listed
<1>4. QueueSeq = [l \in 1 .. n |-> entry(q[l])]
  BY <1>2, ChainSeq DEF ChainIsSeq, Entries
<1>5. entry(o) \in Lru!ToSet(QueueSeq) /\ entry(p) \in Lru!ToSet(QueueSeq)
  BY <1>3, <1>4 DEF Lru!ToSet
<1>6. entry(o).key = entry(p).key
  BY DEF entry
<1>7. entry(o) = entry(p)
  BY <1>5, <1>6 DEF Lru!KnownOnce, Lru!Known
<1>8. QED
  BY <1>7 DEF entry

\* put_cache never looks whether the URI is in the list already (cache.c:15-38).  As long
\* as no two threads are about to insert the same URI, and none takes out or evicts what
\* another has found, it does not have to: a URI is cached once, by way of KeysKnownOnce
\* of the abstract cache.
THEOREM EveryUriCachedOnce ==
  ASSUME NULL \notin Lru!Entry
  PROVE  Spec /\ []Undisturbed => []UriCachedOnce
<1> USE DEF Lru!Entry, LruTheorems!Entry
<1>1. Spec /\ []Undisturbed => Lru!LruSpec
  BY CacheIsLru DEF ImplementsLru
<1>2. LruTheorems!LruSpec => []LruTheorems!KnownOnce
  BY LruTheorems!KeysKnownOnce
<1>3. Lru!LruInit => LruTheorems!LruInit
  BY DEF Lru!LruInit, LruTheorems!LruInit, Held, Incoming
<1>4. Lru!LruNext => LruTheorems!LruNext
  <2>1. Lru!Total = LruTheorems!Total
    BY DEF Lru!Total, Lru!MapThenSumSet, Lru!MapThenFoldSet,
           LruTheorems!Total, LruTheorems!MapThenSumSet, LruTheorems!MapThenFoldSet
  <2>2. Lru!Fresh = LruTheorems!Fresh
    BY Zenon DEF Lru!Fresh, Lru!Known, Lru!ToSet,
                 LruTheorems!Fresh, LruTheorems!Known, LruTheorems!ToSet, Held, Incoming
  <2>3. Lru!Take => LruTheorems!Take
    BY DEF Lru!Take, Lru!RemoveAt, LruTheorems!Take, LruTheorems!RemoveAt, Held, Incoming
  <2>4. Lru!Offer => LruTheorems!Offer
    BY <2>2 DEF Lru!Offer, LruTheorems!Offer, Held, Incoming
  <2>5. Lru!EvictOldest => LruTheorems!EvictOldest
    BY <2>1 DEF Lru!EvictOldest, Lru!Fits, LruTheorems!EvictOldest, LruTheorems!Fits, Held, Incoming
  <2>6. Lru!Admit => LruTheorems!Admit
    BY <2>1 DEF Lru!Admit, Lru!Fits, LruTheorems!Admit, LruTheorems!Fits, Held, Incoming
  <2>7. QED
    BY <2>3, <2>4, <2>5, <2>6 DEF Lru!LruNext, LruTheorems!LruNext
<1>5. UNCHANGED Lru!lruVars => UNCHANGED LruTheorems!lruVars
  BY DEF Lru!lruVars, LruTheorems!lruVars, Held, Incoming
<1>6. LruTheorems!KnownOnce => Lru!KnownOnce
  BY Zenon DEF Lru!KnownOnce, Lru!Known, Lru!ToSet, LruTheorems!KnownOnce,
               LruTheorems!Known, LruTheorems!ToSet, Held, Incoming
<1>7. ObjectsInv /\ Lru!KnownOnce => UriCachedOnce
  BY KnownOnceOfList DEF ObjectsInv, EntriesInv
<1>8. Spec /\ []FindsKept => []ObjectsInv
  BY ObjectsCorrect
<1>9. Undisturbed => FindsKept
  BY DEF Undisturbed
<1>10. QED
  BY <1>1, <1>2, <1>3, <1>4, <1>5, <1>6, <1>7, <1>8, <1>9, PTL DEF Lru!LruSpec, LruTheorems!LruSpec
=============================================================================

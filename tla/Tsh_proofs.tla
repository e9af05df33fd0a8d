----------------------------- MODULE Tsh_proofs -----------------------------
(* Theorems about Tsh for any processes, slots, commands, keys and bounds. *)
EXTENDS Tsh, FiniteSetTheorems, SequenceTheorems, WellFoundedInduction, TLAPS

(***************************************************************************)
(* The job list: what its helpers return and preserve.                     *)
(***************************************************************************)
JobArray == [Slot -> Job]

\* The pids of a list, and the lists in which each pid has one slot.
PidsOf(list) == {list[i].pid : i \in Slot} \ {NoPid}
Once(list) == \A i, j \in Slot :
                 list[i].pid = list[j].pid /\ list[i].pid # NoPid => i = j

LEMMA LeastNat ==
  ASSUME NEW S, S \subseteq Nat, S # {}
  PROVE  \E x \in S : \A y \in S : x <= y
<1>1. PICK x \in S : \A y \in S : ~ (<<y, x>> \in OpToRel(<, Nat))
  BY NatLessThanWellFounded, WFMin
<1>2. \A y \in S : ~ (y < x)
  BY <1>1 DEF OpToRel
<1>3. QED
  BY <1>2

LEMMA FirstMember ==
  ASSUME NEW S, S \subseteq Slot
  PROVE  /\ First(S) \in S \cup {NoSlot}
         /\ S = {} <=> First(S) = NoSlot
<1>1. CASE S = {}
  BY <1>1 DEF First, NoSlot
<1>2. CASE S # {}
  <2> S \subseteq Nat
    BY DEF Slot
  <2>1. \E x \in S : \A y \in S : x <= y
    BY <1>2, LeastNat
  <2>2. Min(S) \in S
    BY <2>1 DEF Min
  <2>3. QED
    BY <1>2, <2>2, JobListAssumption DEF First, NoSlot, Slot
<1>3. QED
  BY <1>1, <1>2

\* A lookup finds a slot of the process exactly when there is one.
LEMMA LookupByPid ==
  ASSUME NEW list \in JobArray, NEW p \in Pid
  PROVE  /\ getjobpid(list, p) \in Slot \cup {NoSlot}
         /\ getjobpid(list, p) = NoSlot <=> p \notin PidsOf(list)
         /\ getjobpid(list, p) # NoSlot => list[getjobpid(list, p)].pid = p
<1> DEFINE S == {i \in Slot : list[i].pid = p}
<1>1. First(S) \in S \cup {NoSlot} /\ (S = {} <=> First(S) = NoSlot)
  BY FirstMember
<1>2. getjobpid(list, p) = First(S)
  BY JobListAssumption DEF getjobpid
<1>3. S = {} <=> p \notin PidsOf(list)
  BY JobListAssumption DEF PidsOf
<1>4. QED
  BY <1>1, <1>2, <1>3

LEMMA NoPidIsNotFound == \A list : getjobpid(list, NoPid) = NoSlot
BY DEF getjobpid

LEMMA LookupByJid ==
  ASSUME NEW list \in JobArray, NEW j \in Nat
  PROVE  getjobjid(list, j) \in Slot \cup {NoSlot}
<1>1. First({i \in Slot : list[i].jid = j}) \in Slot \cup {NoSlot}
  BY FirstMember
<1>2. QED
  BY <1>1 DEF getjobjid

LEMMA ForegroundPid ==
  ASSUME NEW list \in JobArray
  PROVE  fgpid(list) \in Pid \cup {NoPid}
<1> DEFINE S == {i \in Slot : list[i].state = "FG"}
<1>1. First(S) \in S \cup {NoSlot}
  BY FirstMember
<1>2. QED
  BY <1>1 DEF fgpid, JobArray, Job

LEMMA FreeSlotIsFree ==
  ASSUME NEW list \in JobArray
  PROVE  /\ FreeSlot(list) \in Slot \cup {NoSlot}
         /\ FreeSlot(list) # NoSlot => list[FreeSlot(list)].pid = NoPid
<1> DEFINE S == {i \in Slot : list[i].pid = NoPid}
<1>1. First(S) \in S \cup {NoSlot}
  BY FirstMember
<1>2. QED
  BY <1>1 DEF FreeSlot

\* The job ids have an upper bound, and maxjid is the greatest one.
LEMMA MaxJid ==
  ASSUME NEW list \in JobArray
  PROVE  /\ maxjid(list) \in Nat
         /\ \A i \in Slot : list[i].jid <= maxjid(list)
         /\ \E i \in Slot : maxjid(list) = list[i].jid
<1> DEFINE jid(i) == list[i].jid
           J == {jid(i) : i \in Slot}
           Unbounded == {n \in Slot : ~ \E u \in Nat : \A i \in 1 .. n : jid(i) <= u}
           U == {u \in Nat : \A x \in J : x <= u}
<1>1. \A i \in Slot : jid(i) \in Nat
  BY DEF JobArray, Job
<1>2. 1 \in Slot /\ MAXJOBS \in Slot /\ Slot \subseteq Nat
  BY JobListAssumption DEF Slot
<1>3. J # {} /\ J \subseteq Nat
  BY <1>1, <1>2
<1> HIDE DEF jid
<1>4. Unbounded = {}
  <2>1. SUFFICES ASSUME Unbounded # {} PROVE FALSE
    OBVIOUS
  <2>2. PICK n \in Unbounded : \A k \in Unbounded : n <= k
    BY <2>1, <1>2, LeastNat
  <2>3. n \in Slot /\ n \in Nat /\ n >= 1
    BY <1>2 DEF Slot
  <2>4. \E u \in Nat : \A i \in 1 .. n - 1 : jid(i) <= u
    <3>1. CASE n = 1
      BY <3>1
    <3>2. CASE n # 1
      <4>1. n - 1 \in Slot
        BY <3>2, <2>3, JobListAssumption DEF Slot
      <4>2. n - 1 \notin Unbounded
        <5> HIDE DEF Unbounded
        <5>1. ~ (n <= n - 1)
          BY <2>3
        <5>2. QED
          BY <5>1, <2>2
      <4>3. QED
        BY <4>1, <4>2
    <3>3. QED
      BY <3>1, <3>2
  <2>5. PICK u \in Nat : \A i \in 1 .. n - 1 : jid(i) <= u
    BY <2>4
  <2>6. jid(n) \in Nat /\ \A i \in 1 .. n : i \in Slot /\ (i = n \/ i \in 1 .. n - 1)
    BY <2>3, <1>1, JobListAssumption DEF Slot
  <2>7. \A i \in 1 .. n : jid(i) <= IF u >= jid(n) THEN u ELSE jid(n)
    BY <2>5, <2>6, <1>1
  <2>8. \E v \in Nat : \A i \in 1 .. n : jid(i) <= v
    BY <2>6, <2>7
  <2>9. QED
    BY <2>8
<1>5. U # {}
  <2>1. PICK u \in Nat : \A i \in 1 .. MAXJOBS : jid(i) <= u
    BY <1>4, <1>2
  <2>2. u \in U
    BY <2>1 DEF Slot
  <2>3. QED
    BY <2>2
<1>6. PICK u \in U : \A v \in U : u <= v
  BY <1>5, LeastNat
<1>7. u \in J
  <2>1. SUFFICES ASSUME u \notin J PROVE FALSE
    OBVIOUS
  <2>2. \A x \in J : x <= u - 1 /\ u - 1 \in Nat
    BY <2>1, <1>3, <1>6
  <2>3. u - 1 \in U
    BY <2>2, <1>3
  <2>4. QED
    BY <2>3, <1>6
<1>8. \E x \in J : \A y \in J : x >= y
  BY <1>6, <1>7, <1>3
<1>9. Max(J) \in J /\ \A y \in J : Max(J) >= y
  BY <1>8 DEF Max
<1>10. maxjid(list) = Max(J)
  BY DEF maxjid, jid
<1>11. maxjid(list) \in Nat /\ \A i \in Slot : jid(i) <= maxjid(list)
  BY <1>1, <1>3, <1>9, <1>10
<1>12. \E i \in Slot : maxjid(list) = jid(i)
  BY <1>9, <1>10
<1>13. QED
  BY <1>11, <1>12 DEF jid

\* deletejob clears the slot of the process and no other one.
LEMMA DeletedJobs ==
  ASSUME NEW list \in JobArray, NEW p \in Pid \cup {NoPid}
  PROVE  /\ Deleted(list, p) \in JobArray
         /\ \A i \in Slot : \/ Deleted(list, p)[i] = list[i]
                            \/ Deleted(list, p)[i] = NoJob /\ list[i].pid = p
         /\ PidsOf(Deleted(list, p)) \subseteq PidsOf(list)
         /\ Once(list) => Once(Deleted(list, p)) /\ p \notin PidsOf(Deleted(list, p))
<1> DEFINE s == getjobpid(list, p)
           D == Deleted(list, p)
<1>1. NoJob \in Job
  BY DEF NoJob, Job, JobState
<1>2. CASE s = NoSlot
  <2>1. D = list /\ p \notin PidsOf(list)
    BY <1>2, LookupByPid DEF Deleted, PidsOf
  <2>2. QED
    BY <2>1
<1>3. CASE s # NoSlot
  <2>1. p \in Pid /\ s \in Slot /\ list[s].pid = p
    BY <1>3, LookupByPid, NoPidIsNotFound
  <2>2. D = [list EXCEPT ![s] = NoJob]
    BY <1>3 DEF Deleted
  <2>3. D \in JobArray /\ \A i \in Slot : D[i] = IF i = s THEN NoJob ELSE list[i]
    BY <2>1, <2>2, <1>1 DEF JobArray
  <2>4. \A i \in Slot : D[i].pid = IF i = s THEN NoPid ELSE list[i].pid
    BY <2>3 DEF NoJob
  <2> HIDE DEF D, s
  <2>5. PidsOf(D) \subseteq PidsOf(list)
    BY <2>4 DEF PidsOf
  <2>6. ASSUME Once(list) PROVE Once(D) /\ p \notin PidsOf(D)
    BY <2>1, <2>4, <2>6 DEF Once, PidsOf
  <2>7. QED
    BY <2>1, <2>3, <2>5, <2>6 DEF D
<1>4. QED
  BY <1>2, <1>3

LEMMA NextJidType ==
  ASSUME NEW list \in JobArray, NEW p \in Pid \cup {NoPid}, NEW n \in Nat
  PROVE  NextJidAfterDelete(list, n, p) \in Nat /\ NextJidAfterAdd(n) \in Nat
<1>1. maxjid(Deleted(list, p)) \in Nat
  BY DeletedJobs, MaxJid
<1>2. QED
  BY <1>1, JobListAssumption DEF NextJidAfterDelete, NextJidAfterAdd

(***************************************************************************)
(* The stack of handlers.                                                  *)
(***************************************************************************)
LEMMA TopFrame ==
  ASSUME stack \in Seq(Frame), stack # <<>>
  PROVE  /\ Len(stack) \in Nat /\ Len(stack) >= 1
         /\ Top \in Frame /\ Top.pid \in Pid \cup {NoPid} /\ Top.slot \in Slot \cup {NoSlot}
<1>1. Len(stack) \in Nat \ {0}
  BY EmptySeq
<1>2. Top \in Frame
  BY <1>1, ElementOfSeq DEF Top
<1>3. QED
  BY <1>1, <1>2 DEF Frame

LEMMA PopFrames ==
  ASSUME stack \in Seq(Frame), stack # <<>>, Pop
  PROVE  /\ stack' \in Seq(Frame)
         /\ Len(stack') = Len(stack) - 1
         /\ \A k \in 1 .. Len(stack) - 1 : stack'[k] = stack[k]
<1>1. Len(stack) \in Nat /\ Len(stack) >= 1
  BY TopFrame
<1>2. \A k \in 1 .. Len(stack) - 1 : stack[k] \in Frame
  BY <1>1, ElementOfSeq
<1>3. /\ SubSeq(stack, 1, Len(stack) - 1) \in Seq(Frame)
      /\ Len(SubSeq(stack, 1, Len(stack) - 1)) = Len(stack) - 1
      /\ \A k \in 1 .. Len(stack) - 1 : SubSeq(stack, 1, Len(stack) - 1)[k] = stack[k]
  <2> DEFINE n == Len(stack) - 1
  <2>1. n \in Int /\ 1 \in Int /\ n >= 0
    BY <1>1
  <2>2. \A k \in 1 .. n : stack[k] \in Frame
    BY <1>2
  <2> HIDE DEF n
  <2>3. /\ SubSeq(stack, 1, n) \in Seq(Frame)
        /\ Len(SubSeq(stack, 1, n)) = IF 1 <= n THEN n - 1 + 1 ELSE 0
        /\ \A k \in 1 .. n - 1 + 1 : SubSeq(stack, 1, n)[k] = stack[1 + k - 1]
    BY <2>1, <2>2, SubSeqProperties
  <2>4. (IF 1 <= n THEN n - 1 + 1 ELSE 0) = n /\ n - 1 + 1 = n
    BY <2>1
  <2>5. \A k \in 1 .. n : 1 + k - 1 = k
    BY <2>1
  <2>6. QED
    BY <2>3, <2>4, <2>5 DEF n
<1>4. QED
  BY <1>3 DEF Pop

LEMMA GotoFrames ==
  ASSUME stack \in Seq(Frame), stack # <<>>,
         NEW l \in {"find", "wait", "kill", "edit", "mark"}, NEW p \in Pid \cup {NoPid},
         NEW i \in Slot \cup {NoSlot}, GotoFrame(l, p, i)
  PROVE  /\ stack' \in Seq(Frame)
         /\ Len(stack') = Len(stack)
         /\ \A k \in 1 .. Len(stack) :
              stack'[k] = IF k = Len(stack)
                          THEN [sig |-> Top.sig, at |-> l, pid |-> p, slot |-> i] ELSE stack[k]
<1> DEFINE f == [sig |-> Top.sig, at |-> l, pid |-> p, slot |-> i]
<1>1. Len(stack) \in 1 .. Len(stack) /\ Top \in Frame
  BY TopFrame
<1>2. f \in Frame
  BY <1>1 DEF Frame
<1>4. stack' = [stack EXCEPT ![Len(stack)] = f]
  BY DEF GotoFrame
<1> HIDE DEF f
<1>5. QED
  BY <1>1, <1>2, <1>4, ExceptSeq DEF f

LEMMA PushFrame ==
  ASSUME stack \in Seq(Frame), NEW f \in Frame, stack' = Append(stack, f)
  PROVE  /\ stack' \in Seq(Frame)
         /\ Len(stack) \in Nat /\ Len(stack') = Len(stack) + 1
         /\ \A k \in 1 .. Len(stack) : stack'[k] = stack[k]
         /\ stack'[Len(stack) + 1] = f
BY AppendProperties, LenProperties
-----------------------------------------------------------------------------
LEMMA InitShellType == Init => TypeOK
<1> SUFFICES ASSUME Init PROVE TypeOK
  OBVIOUS
<1>1. jobs \in [Slot -> Job]
  BY DEF Init, initjobs, NoJob, Job, JobState
<1>2. stack \in Seq(Frame)
  BY EmptySeq DEF Init
<1>3. QED
  BY <1>1, <1>2, JobListAssumption DEF Init, TypeOK, Labels, NoSlot

LEMMA DeleteType ==
  ASSUME TypeOK, NEW p \in Pid \cup {NoPid}, Delete(p)
  PROVE  jobs' \in [Slot -> Job] /\ nextjid' \in Nat
BY DeletedJobs, NextJidType DEF Delete, TypeOK, JobArray

LEMMA MainType == TypeOK /\ Main => TypeOK'
<1> SUFFICES ASSUME TypeOK, Main PROVE TypeOK'
  OBVIOUS
<1> USE DEF jobVars, procVars, sigVars, mainVars, userVars
<1>1. CASE Fork
  BY <1>1 DEF Fork, Exit, Children, Labels, TypeOK
<1>2. CASE SetPgid
  BY <1>2 DEF SetPgid, Exit, Labels, TypeOK
<1>3. CASE AddJob
  <2>1. job' \in Slot \cup {NoSlot}
    BY <1>3, FreeSlotIsFree DEF AddJob, TypeOK, JobArray
  <2>2. jobs' \in [Slot -> Job]
    <3>1. CASE job' = NoSlot
      BY <1>3, <3>1 DEF AddJob, TypeOK
    <3>2. CASE job' # NoSlot
      <4>1. jobs' = [jobs EXCEPT ![job'].pid = pid]
        BY <1>3, <3>2 DEF AddJob
      <4>2. jobs \in [Slot -> Job] /\ pid \in Pid \cup {NoPid}
        BY DEF TypeOK
      <4>3. QED
        BY <4>1, <4>2 DEF Job
    <3>3. QED
      BY <3>1, <3>2
  <2>3. QED
    BY <1>3, <2>1, <2>2 DEF AddJob, Labels, TypeOK
<1>4. CASE AddJid
  <2>1. jobs' \in [Slot -> Job]
    BY <1>4 DEF AddJid, TypeOK, Job
  <2>2. nextjid' \in Nat
    BY <1>4, JobListAssumption DEF AddJid, NextJidAfterAdd, TypeOK
  <2>3. QED
    BY <1>4, <2>1, <2>2 DEF AddJid, Labels, TypeOK
<1>5. CASE Unblock
  BY <1>5 DEF Unblock, Labels, TypeOK
<1>6. CASE WaitFg
  BY <1>6 DEF AtMain, WaitFg, Labels, TypeOK
<1>7. CASE WaitState
  BY <1>7 DEF AtMain, WaitState, Crash, Labels, TypeOK
<1>8. CASE Cont \/ ContPid
  <2>1. job \in Slot /\ jobs[job].pid \in Pid \cup {NoPid}
    BY <1>8 DEF Cont, ContPid, AtMain, TypeOK, Job
  <2>2. CASE Cont
    BY <2>1, <2>2 DEF Cont, Labels, TypeOK
  <2>3. CASE ContPid
    BY <2>1, <2>3 DEF ContPid, Labels, TypeOK
  <2>4. QED
    BY <1>8, <2>2, <2>3
<1>9. CASE KillCont
  BY <1>9 DEF AtMain, KillCont, Exit, Labels, Signals, TypeOK
<1>10. CASE Mode
  BY <1>10 DEF AtMain, Mode, Labels, TypeOK
<1>11. CASE SetFg \/ SetBg
  <2>1. job \in Slot /\ jobs[job].pid \in Pid \cup {NoPid}
    BY <1>11 DEF SetFg, SetBg, AtMain, TypeOK, Job
  <2>2. jobs' \in [Slot -> Job]
    <3>1. jobs \in [Slot -> Job] /\ {"FG", "BG"} \subseteq JobState
      BY DEF TypeOK, JobState
    <3>2. PICK s \in {"FG", "BG"} : jobs' = [jobs EXCEPT ![job].state = s]
      BY <1>11 DEF SetFg, SetBg
    <3>3. QED
      BY <3>1, <3>2 DEF Job
  <2>3. CASE SetFg
    <3>1. /\ pc' = "waitfg" /\ pid' = jobs[job].pid
          /\ UNCHANGED <<nextjid, procVars, sigVars, cmd, job, userVars, shell>>
      BY <2>3 DEF SetFg
    <3>2. pid' \in Pid \cup {NoPid}
      BY <2>1, <3>1
    <3>3. QED
      BY <2>2, <3>1, <3>2 DEF Labels, TypeOK
  <2>4. CASE SetBg
    BY <2>2, <2>4 DEF SetBg, Labels, TypeOK
  <2>5. QED
    BY <1>11, <2>3, <2>4
<1>12. CASE AddState
  <2>1. NewState(cmd) \in JobState
    BY DEF NewState, JobState
  <2>2. jobs' \in [Slot -> Job]
    <3>1. jobs' = [jobs EXCEPT ![job].state = NewState(cmd)] /\ jobs \in [Slot -> Job]
      BY <1>12 DEF AddState, TypeOK
    <3>2. PICK s \in JobState : s = NewState(cmd)
      BY <2>1
    <3>3. QED
      BY <3>1, <3>2 DEF Job
  <2>3. QED
    BY <1>12, <2>2 DEF AddState, AtMain, Labels, TypeOK
<1>13. QED
  BY <1>1, <1>2, <1>3, <1>4, <1>5, <1>6, <1>7, <1>8, <1>9, <1>10, <1>11, <1>12 DEF Main

LEMMA HandlerType == TypeOK /\ Handler => TypeOK'
<1> SUFFICES ASSUME TypeOK, Handler PROVE TypeOK'
  OBVIOUS
<1> USE DEF jobVars, procVars, sigVars, mainVars, userVars
<1>1. stack \in Seq(Frame) /\ stack # <<>>
  BY DEF Handler, WaitPid, DeleteReaped, FindFg, KillFg, DeleteFg, StopFg, MarkStopped, AtFrame, TypeOK
<1>2. Top.pid \in Pid \cup {NoPid}
  BY <1>1, TopFrame
\* A frame that stays on the stack or leaves it has its type.
<1>3. Pop => stack' \in Seq(Frame)
  BY <1>1, PopFrames
<1>4. \A l \in {"find", "wait", "kill", "edit", "mark"}, p \in Pid \cup {NoPid},
           i \in Slot \cup {NoSlot} :
        GotoFrame(l, p, i) => stack' \in Seq(Frame)
  BY <1>1, GotoFrames
<1>5. CASE WaitPid
  <2>1. stack' \in Seq(Frame)
    BY <1>5, <1>1, <1>3, <1>4 DEF WaitPid, Reap, Tell, Zombies, Unreported
  <2>2. QED
    BY <1>5, <2>1 DEF WaitPid, Reap, Tell, Zombies, Unreported, TypeOK
<1>6. CASE DeleteReaped
  <2>1. jobs' \in [Slot -> Job] /\ nextjid' \in Nat
    BY <1>6, <1>2, DeleteType DEF DeleteReaped
  <2>2. stack' \in Seq(Frame)
    BY <1>6, <1>4 DEF DeleteReaped
  <2>3. QED
    BY <1>6, <2>1, <2>2 DEF DeleteReaped, TypeOK
<1>7. CASE FindFg
  <2>1. fgpid(jobs) \in Pid \cup {NoPid}
    BY ForegroundPid DEF TypeOK, JobArray
  <2>2. stack' \in Seq(Frame)
    BY <1>7, <1>3, <1>4, <2>1 DEF FindFg
  <2>3. QED
    BY <1>7, <2>2 DEF FindFg, TypeOK
<1>8. CASE KillFg
  <2>1. CASE Top.pid \in Children
    <3>1. stack' \in Seq(Frame)
      BY <1>8, <2>1, <1>2, <1>4 DEF KillFg
    <3>2. /\ Top.sig \in {"INT", "TSTP"}
          /\ sent' = sent \cup {<<Top.sig, Top.pid>>}
          /\ sent \subseteq {"INT", "TSTP"} \X Pid
      BY <1>8, <2>1 DEF KillFg, AtFrame, TypeOK
    <3>3. Top.pid \in Pid
      BY <2>1 DEF Children
    <3>4. sent' \subseteq {"INT", "TSTP"} \X Pid
      BY <3>2, <3>3
    <3>5. QED
      BY <1>8, <2>1, <3>1, <3>4 DEF KillFg, Signals, TypeOK
  <2>2. CASE Top.pid \notin Children
    BY <1>8, <2>2 DEF KillFg, Exit, TypeOK
  <2>3. QED
    BY <2>1, <2>2
<1>9. CASE DeleteFg
  <2>1. jobs' \in [Slot -> Job] /\ nextjid' \in Nat
    BY <1>9, <1>2, DeleteType DEF DeleteFg
  <2>2. QED
    BY <1>9, <1>3, <2>1 DEF DeleteFg, TypeOK
<1>10. CASE StopFg
  <2>1. getjobpid(jobs, Top.pid) \in Slot \cup {NoSlot}
    BY <1>2, LookupByPid, NoPidIsNotFound DEF TypeOK, JobArray
  <2>2. stack' \in Seq(Frame)
    BY <1>2, <1>4, <1>10, <2>1 DEF StopFg
  <2>3. QED
    BY <1>10, <2>2 DEF StopFg, TypeOK
<1>11. CASE MarkStopped
  <2>1. CASE Top.slot = NoSlot
    BY <1>11, <2>1 DEF MarkStopped, Crash, TypeOK
  <2>2. CASE Top.slot # NoSlot
    <3>1. jobs' \in [Slot -> Job]
      <4>1. jobs' = [jobs EXCEPT ![Top.slot].state = "ST"]
        BY <1>11, <2>2 DEF MarkStopped
      <4>2. QED
        BY <4>1 DEF TypeOK, Job, JobState
    <3>2. QED
      BY <1>11, <2>2, <1>3, <3>1 DEF MarkStopped, TypeOK
  <2>3. QED
    BY <2>1, <2>2
<1>12. QED
  BY <1>5, <1>6, <1>7, <1>8, <1>9, <1>10, <1>11 DEF Handler

LEMMA OutsideType == TypeOK /\ (Deliver \/ User \/ Child \/ Ended) => TypeOK'
<1> SUFFICES ASSUME TypeOK, Deliver \/ User \/ Child \/ Ended PROVE TypeOK'
  OBVIOUS
<1> USE DEF jobVars, procVars, sigVars, mainVars, userVars
<1>1. CASE Deliver
  <2>1. PICK s \in pending :
          /\ pending' = pending \ {s}
          /\ stack' = Append(stack, [sig |-> s, pid |-> NoPid, slot |-> NoSlot,
                                     at |-> IF s = "CHLD" THEN "wait" ELSE "find"])
    BY <1>1 DEF Deliver
  <2>2. [sig |-> s, pid |-> NoPid, slot |-> NoSlot, at |-> IF s = "CHLD" THEN "wait" ELSE "find"] \in Frame
    BY DEF Frame, TypeOK
  <2>3. stack' \in Seq(Frame)
    BY <2>1, <2>2, PushFrame DEF TypeOK
  <2>4. QED
    BY <1>1, <2>1, <2>3 DEF Deliver, TypeOK
<1>2. CASE TypeRun
  BY <1>2 DEF TypeRun, Labels, TypeOK
<1>3. CASE TypeBgFg
  <2>1. \A p \in Pid : getjobpid(jobs, p) \in Slot \cup {NoSlot}
    BY LookupByPid DEF TypeOK, JobArray
  <2>2. \A i \in Slot : getjobjid(jobs, jobs[i].jid) \in Slot \cup {NoSlot}
    BY LookupByJid DEF TypeOK, JobArray, Job
  <2>3. job' \in Slot
    BY <1>3, <2>1, <2>2 DEF TypeBgFg
  <2>4. QED
    BY <1>3, <2>3 DEF TypeBgFg, Labels, TypeOK
<1>4. CASE Quit
  BY <1>4 DEF Quit, Exit, TypeOK
<1>5. CASE TypeKey
  BY <1>5, TshAssumption DEF TypeKey, Signals, TypeOK
<1>6. CASE Child
  <2>1. PICK p \in Pid : Exec(p) \/ Die(p) \/ Stop(p)
    BY <1>6 DEF Child
  <2>2. CASE Exec(p)
    BY <2>2 DEF Exec, TypeOK
  <2>3. CASE Die(p)
    BY <2>3 DEF Die, Signals, TypeOK
  <2>4. CASE Stop(p)
    BY <2>4 DEF Stop, Signals, TypeOK
  <2>5. QED
    BY <2>1, <2>2, <2>3, <2>4
<1>7. CASE Ended
  BY <1>7 DEF Ended, vars, TypeOK
<1>8. QED
  BY <1>1, <1>2, <1>3, <1>4, <1>5, <1>6, <1>7 DEF User

LEMMA NextShellType == TypeOK /\ [Next]_vars => TypeOK'
<1>1. TypeOK /\ UNCHANGED vars => TypeOK'
  BY DEF vars, jobVars, procVars, sigVars, mainVars, userVars, TypeOK
<1>2. QED
  BY <1>1, MainType, HandlerType, OutsideType DEF Next

\* Every variable of the shell keeps its type; a job pointer that the main
\* program holds is a slot of the list.
THEOREM ShellTypeCorrect == Spec => []TypeOK
<1>1. QED
  BY InitShellType, NextShellType, PTL DEF Spec
-----------------------------------------------------------------------------
(***************************************************************************)
(* The job list and the children.                                          *)
(***************************************************************************)
ListInv == NoStaleJob /\ ListedOnce /\ Unreaped /\ NewChild
NotInChld == \A k \in DOMAIN stack : stack[k].sig # "CHLD"

\* What each change of the stack does to the children that are being reaped.
LEMMA PopReaping ==
  ASSUME stack \in Seq(Frame), stack # <<>>, Pop
  PROVE  /\ ~ (Top.sig = "CHLD" /\ Top.at = "edit") => Reaping \subseteq Reaping'
         /\ NotInChld => NotInChld'
<1>1. /\ Len(stack) \in Nat /\ Len(stack) >= 1
      /\ stack' \in Seq(Frame) /\ Len(stack') = Len(stack) - 1
      /\ \A k \in 1 .. Len(stack) - 1 : stack'[k] = stack[k]
  BY TopFrame, PopFrames
<1>2. DOMAIN stack = 1 .. Len(stack) /\ DOMAIN stack' = 1 .. Len(stack) - 1
  BY <1>1, LenProperties
<1>3. QED
  BY <1>1, <1>2 DEF Reaping, NotInChld, Top

LEMMA GotoReaping ==
  ASSUME stack \in Seq(Frame), stack # <<>>,
         NEW l \in {"find", "wait", "kill", "edit", "mark"}, NEW p \in Pid \cup {NoPid},
         NEW i \in Slot \cup {NoSlot}, GotoFrame(l, p, i)
  PROVE  /\ Reaping \ {Top.pid} \subseteq Reaping'
         /\ ~ (Top.sig = "CHLD" /\ Top.at = "edit") => Reaping \subseteq Reaping'
         /\ Top.sig = "CHLD" /\ l = "edit" => p \in Reaping'
         /\ NotInChld => NotInChld'
<1> DEFINE f == [sig |-> Top.sig, at |-> l, pid |-> p, slot |-> i]
<1>1. /\ Len(stack) \in Nat /\ Len(stack) >= 1
      /\ stack' \in Seq(Frame) /\ Len(stack') = Len(stack)
      /\ \A k \in 1 .. Len(stack) : stack'[k] = IF k = Len(stack) THEN f ELSE stack[k]
  BY TopFrame, GotoFrames
<1>2. DOMAIN stack = 1 .. Len(stack) /\ DOMAIN stack' = 1 .. Len(stack)
  BY <1>1, LenProperties
<1>3. f.sig = Top.sig /\ f.at = l /\ f.pid = p
  OBVIOUS
<1> HIDE DEF f
<1>4. Top = stack[Len(stack)]
  BY DEF Top
<1>5. NotInChld => NotInChld'
  BY <1>1, <1>2, <1>3, <1>4 DEF NotInChld
<1>6. \A k \in DOMAIN stack : k # Len(stack) => k \in DOMAIN stack' /\ stack'[k] = stack[k]
  BY <1>1, <1>2
<1>7. \A q \in Reaping :
        \/ \E k \in DOMAIN stack : /\ k # Len(stack) /\ stack[k].pid = q
                                  /\ stack[k].sig = "CHLD" /\ stack[k].at = "edit"
        \/ Top.pid = q /\ Top.sig = "CHLD" /\ Top.at = "edit"
  BY <1>4 DEF Reaping
<1>8. \A q \in Reaping :
        q \in Reaping' \/ (Top.pid = q /\ Top.sig = "CHLD" /\ Top.at = "edit")
  BY <1>6, <1>7 DEF Reaping
<1>9. Top.sig = "CHLD" /\ l = "edit" => p \in Reaping'
  <2> SUFFICES ASSUME Top.sig = "CHLD", l = "edit" PROVE p \in Reaping'
    OBVIOUS
  <2>1. PICK k \in 1 .. Len(stack) : k = Len(stack)
    BY <1>1
  <2>2. k \in DOMAIN stack' /\ stack'[k] = f
    BY <2>1, <1>1, <1>2
  <2>3. stack'[k].sig = "CHLD" /\ stack'[k].at = "edit" /\ stack'[k].pid = p
    BY <2>2, <1>3
  <2>4. QED
    BY <2>2, <2>3 DEF Reaping
<1>10. QED
  BY <1>5, <1>8, <1>9

LEMMA PushReaping ==
  ASSUME stack \in Seq(Frame), NEW f \in Frame, stack' = Append(stack, f)
  PROVE  /\ Reaping \subseteq Reaping'
         /\ NotInChld /\ f.sig # "CHLD" => NotInChld'
<1>1. /\ stack' \in Seq(Frame)
      /\ Len(stack) \in Nat /\ Len(stack') = Len(stack) + 1
      /\ \A k \in 1 .. Len(stack) : stack'[k] = stack[k]
      /\ stack'[Len(stack) + 1] = f
  BY PushFrame
<1>2. DOMAIN stack = 1 .. Len(stack) /\ DOMAIN stack' = 1 .. Len(stack) + 1
  BY <1>1, LenProperties
<1>3. QED
  BY <1>1, <1>2 DEF Reaping, NotInChld

\* The labels of eval between its two calls of sigprocmask.
InEval == {"fork", "setpgid", "add", "addst", "addjid", "unblock"}

\* A step that lists no process and loses no child without reaping it.
LEMMA ListKept ==
  ASSUME ListInv, Once(jobs'), Listed' \subseteq Listed,
         Listed' \subseteq Children' \cup Reaping',
         pc' \in InEval =>
           /\ pc \in InEval /\ masked' = masked
           /\ NotInChld => NotInChld',
         pc' \in {"setpgid", "add"} =>
           pc \in {"setpgid", "add"} /\ pid' = pid /\ Children \subseteq Children'
  PROVE  ListInv'
<1>1. NoStaleJob' /\ ListedOnce'
  BY DEF NoStaleJob, ListedOnce, Once
<1>2. Unreaped'
  BY DEF ListInv, Unreaped, NotInChld, InEval
<1>3. NewChild'
  BY DEF ListInv, NewChild
<1>4. QED
  BY <1>1, <1>2, <1>3 DEF ListInv

\* A job list whose pids stay.
LEMMA PidsKept ==
  ASSUME jobs \in [Slot -> Job], Once(jobs),
         \A i \in Slot : jobs'[i].pid = jobs[i].pid
  PROVE  Once(jobs') /\ Listed' = Listed
BY DEF Once, Listed

LEMMA StatePid ==
  ASSUME jobs \in [Slot -> Job], NEW k, NEW s, jobs' = [jobs EXCEPT ![k].state = s]
  PROVE  \A i \in Slot : jobs'[i].pid = jobs[i].pid
BY DEF Job

LEMMA InitList == Init => ListInv
<1> SUFFICES ASSUME Init PROVE ListInv
  OBVIOUS
<1>1. \A i \in Slot : jobs[i].pid = NoPid
  BY DEF Init, initjobs, NoJob
<1>2. QED
  BY <1>1 DEF Init, ListInv, NoStaleJob, ListedOnce, Unreaped, NewChild, Listed

LEMMA MainList == TypeOK /\ ListInv /\ Main => ListInv'
<1> SUFFICES ASSUME TypeOK, ListInv, Main PROVE ListInv'
  OBVIOUS
<1> USE DEF jobVars, procVars, sigVars, mainVars, userVars
<1>1. jobs \in [Slot -> Job] /\ Once(jobs) /\ Listed \subseteq Children \cup Reaping
  BY DEF TypeOK, ListInv, NoStaleJob, ListedOnce, Once
<1>2. stack' = stack /\ Reaping' = Reaping /\ (NotInChld => NotInChld')
  <2>1. stack' = stack
    BY DEF Main, Fork, SetPgid, AddJob, AddState, AddJid, Unblock, WaitFg, WaitState, Cont, ContPid,
           KillCont, Mode, SetFg, SetBg, Exit, Crash
  <2>2. QED
    BY <2>1 DEF Reaping, NotInChld
\* A step after which the main program is not between fork and addjob.
<1>3. ASSUME \A i \in Slot : jobs'[i].pid = jobs[i].pid, Children' = Children,
             pc' \notin {"fork", "setpgid", "add"},
             pc' \in InEval => pc \in InEval /\ masked' = masked
      PROVE  ListInv'
  <2>1. Once(jobs') /\ Listed' = Listed
    BY <1>1, <1>3, PidsKept
  <2>2. QED
    BY <1>1, <1>2, <1>3, <2>1, ListKept
<1>4. CASE shell' # "running" /\ UNCHANGED <<jobVars, procVars, sigVars, mainVars, userVars>>
  BY <1>4 DEF ListInv, NoStaleJob, ListedOnce, Unreaped, NewChild, Listed, Children, Reaping
<1>5. CASE Fork /\ shell' = shell
  <2>1. PICK p \in Pid \ Children : proc' = [proc EXCEPT ![p] = "forked"] /\ pid' = p
    BY <1>5 DEF Fork, Exit, AtMain
  <2>2. Children' = Children \cup {p}
    BY <2>1 DEF Children, TypeOK
  <2>3. jobs' = jobs /\ masked' = masked /\ pc = "fork" /\ stack = <<>>
    BY <1>5 DEF Fork, Exit, AtMain
  <2>4. Listed' = Listed /\ Reaping = {}
    BY <2>3 DEF Listed, Reaping
  <2>5. NoStaleJob' /\ ListedOnce'
    BY <1>1, <1>2, <2>2, <2>3, <2>4 DEF NoStaleJob, ListedOnce, Once
  <2>6. Unreaped'
    BY <1>2, <2>3 DEF ListInv, Unreaped
  <2>7. NewChild'
    BY <1>1, <2>1, <2>2, <2>4 DEF NewChild
  <2>8. QED
    BY <2>5, <2>6, <2>7 DEF ListInv
<1>6. CASE SetPgid /\ shell' = shell
  <2>1. pc = "setpgid" /\ UNCHANGED <<jobs, proc, masked, pid>>
    BY <1>6 DEF SetPgid, AtMain, Exit
  <2>2. Listed' = Listed /\ Children' = Children /\ Once(jobs')
    BY <1>1, <2>1 DEF Listed, Children
  <2>3. pc \in InEval
    BY <2>1 DEF InEval
  <2>4. pc' \in {"setpgid", "add"}
    BY <1>6, <2>1 DEF SetPgid, AtMain, Exit
  <2>5. QED
    BY <1>1, <1>2, <2>1, <2>2, <2>3, <2>4, ListKept
<1>7. CASE AddJob
  <2>1. /\ pc = "add" /\ job' = FreeSlot(jobs) /\ proc' = proc /\ pc' \in {"unblock", "addst"}
        /\ masked' = masked
    BY <1>7 DEF AddJob, AtMain
  <2>2. Children' = Children /\ pid \in Children \ Listed
    BY <2>1 DEF Children, ListInv, NewChild
  <2>3. CASE job' = NoSlot
    <3>1. jobs' = jobs /\ pc' = "unblock"
      BY <1>7, <2>3 DEF AddJob
    <3>2. QED
      BY <1>3, <2>1, <2>2, <3>1 DEF InEval
  <2>4. CASE job' # NoSlot
    <3>1. /\ job' \in Slot /\ jobs[job'].pid = NoPid
          /\ jobs' = [jobs EXCEPT ![job'].pid = pid]
      BY <1>1, <1>7, <2>1, <2>4, FreeSlotIsFree DEF AddJob, JobArray
    <3>2. \A i \in Slot : jobs'[i].pid = IF i = job' THEN pid ELSE jobs[i].pid
      BY <1>1, <3>1 DEF Job
    <3>3. Listed' \subseteq Listed \cup {pid}
      BY <3>2 DEF Listed
    <3>4. \A i \in Slot : jobs[i].pid # pid
      BY <2>2, JobListAssumption DEF Listed, Children
    <3>5. ListedOnce'
      BY <1>1, <3>1, <3>2, <3>4 DEF ListedOnce, Once
    <3>6. NoStaleJob'
      BY <1>1, <1>2, <2>2, <3>3 DEF NoStaleJob
    <3>7. QED
      BY <1>2, <2>1, <3>5, <3>6 DEF ListInv, Unreaped, NewChild
  <2>5. QED
    BY <2>3, <2>4
<1>8. CASE AddState \/ AddJid
  <2>1. \A i \in Slot : jobs'[i].pid = jobs[i].pid
    <3>1. CASE AddJid
      BY <1>1, <3>1 DEF AddJid, Job
    <3>2. CASE AddState
      BY <1>1, <3>2, StatePid DEF AddState
    <3>3. QED
      BY <1>8, <3>1, <3>2
  <2>2. /\ proc' = proc /\ pc' \in {"addjid", "unblock"} /\ pc \in {"addst", "addjid"}
        /\ masked' = masked
    BY <1>8 DEF AddState, AddJid, AtMain
  <2>3. QED
    BY <1>3, <2>1, <2>2 DEF Children, InEval
<1>9. CASE Unblock \/ WaitFg \/ (WaitState /\ shell' = shell) \/ Cont \/ ContPid \/ Mode
  <2>1. jobs' = jobs /\ proc' = proc
    BY <1>9 DEF Unblock, WaitFg, WaitState, Cont, ContPid, Mode, Crash
  <2>2. pc' \notin InEval
    BY <1>9 DEF Unblock, WaitFg, WaitState, Cont, ContPid, Mode, Crash, AtMain, InEval
  <2>3. QED
    BY <1>3, <2>1, <2>2 DEF Children, InEval
<1>10. CASE KillCont /\ shell' = shell
  <2>1. jobs' = jobs /\ pc' = "mode"
    BY <1>10 DEF KillCont, AtMain, Exit
  <2>2. Children' = Children
    BY <1>10 DEF KillCont, Exit, Children, TypeOK
  <2>3. QED
    BY <1>3, <2>1, <2>2 DEF InEval
<1>11. CASE SetFg \/ SetBg
  <2>1. PICK s \in {"FG", "BG"} : jobs' = [jobs EXCEPT ![job].state = s]
    BY <1>11 DEF SetFg, SetBg
  <2>2. proc' = proc /\ pc' \in {"waitfg", "prompt"}
    BY <1>11 DEF SetFg, SetBg
  <2>3. QED
    BY <1>1, <1>3, <2>1, <2>2, StatePid DEF Children, InEval
<1>12. ASSUME Fork \/ SetPgid \/ WaitState \/ KillCont, shell' # shell
       PROVE  ListInv'
  <2>1. UNCHANGED <<jobVars, procVars, sigVars, mainVars, userVars>> /\ shell' # "running"
    BY <1>12 DEF Fork, SetPgid, WaitState, KillCont, AtMain, Exit, Crash
  <2>2. QED
    BY <1>4, <2>1
<1>13. QED
  BY <1>5, <1>6, <1>7, <1>8, <1>9, <1>10, <1>11, <1>12 DEF Main

LEMMA HandlerList == TypeOK /\ ListInv /\ Handler => ListInv'
<1> SUFFICES ASSUME TypeOK, ListInv, Handler PROVE ListInv'
  OBVIOUS
<1> USE DEF jobVars, procVars, sigVars, mainVars, userVars
<1>1. /\ stack \in Seq(Frame) /\ stack # <<>>
      /\ mainVars' = mainVars /\ masked' = masked
  BY DEF Handler, WaitPid, DeleteReaped, FindFg, KillFg, DeleteFg, StopFg, MarkStopped, AtFrame,
         Exit, Crash, TypeOK
<1>2. jobs \in [Slot -> Job] /\ Once(jobs) /\ Listed \subseteq Children \cup Reaping
  BY DEF TypeOK, ListInv, NoStaleJob, ListedOnce, Once
<1>3. /\ Top.pid \in Pid \cup {NoPid} /\ Top \in Frame
      /\ Top.sig = "CHLD" => ~ NotInChld
  <2>1. Len(stack) \in DOMAIN stack /\ Top = stack[Len(stack)]
    BY <1>1, TopFrame, LenProperties DEF Top
  <2>2. QED
    BY <1>1, <2>1, TopFrame DEF NotInChld
\* The stack changes as the lemmas say and the list only loses the pid of Top.
<1>4. ASSUME stack' = stack \/ Pop \/ \E l \in {"find", "wait", "kill", "edit", "mark"},
                                         p \in Pid \cup {NoPid},
                                         i \in Slot \cup {NoSlot} : GotoFrame(l, p, i)
      PROVE  NotInChld => NotInChld'
  BY <1>1, <1>4, PopReaping, GotoReaping DEF NotInChld
<1>5. /\ Deleted(jobs, Top.pid) \in [Slot -> Job]
      /\ Once(Deleted(jobs, Top.pid))
      /\ PidsOf(Deleted(jobs, Top.pid)) \subseteq Listed \ {Top.pid}
  <2>1. jobs \in JobArray /\ Listed = PidsOf(jobs)
    BY <1>2 DEF JobArray, PidsOf, Listed
  <2>2. /\ Deleted(jobs, Top.pid) \in JobArray
        /\ PidsOf(Deleted(jobs, Top.pid)) \subseteq PidsOf(jobs)
        /\ Once(Deleted(jobs, Top.pid))
        /\ Top.pid \notin PidsOf(Deleted(jobs, Top.pid))
    BY <1>2, <1>3, <2>1, DeletedJobs
  <2>3. QED
    BY <2>1, <2>2 DEF JobArray
<1>6. CASE WaitPid
  <2>1. jobs' = jobs /\ Listed' = Listed
    BY <1>6 DEF WaitPid, Listed
  <2>2. Top.sig = "CHLD" /\ Top.at = "wait" /\ ~ NotInChld
    BY <1>3, <1>6 DEF WaitPid, AtFrame
  <2>3. pc \notin InEval
    BY <2>2 DEF ListInv, Unreaped, NotInChld, InEval
  <2>4. Children \subseteq Children' \cup Reaping' /\ Reaping \subseteq Reaping'
    <3>1. ASSUME NEW p \in Zombies, Reap(p)
          PROVE  Children \subseteq Children' \cup Reaping' /\ Reaping \subseteq Reaping'
      <4>1. p \in Pid /\ GotoFrame("edit", p, NoSlot)
        BY <3>1 DEF Zombies, Reap
      <4>2. Reaping \subseteq Reaping' /\ p \in Reaping'
        BY <1>1, <2>2, <4>1, GotoReaping
      <4>3. Children \subseteq Children' \cup {p}
        BY <3>1 DEF Reap, Children, TypeOK
      <4>4. QED
        BY <4>2, <4>3
    <3>2. ASSUME NEW p \in Unreported, Tell(p), proc' = proc
          PROVE  Children \subseteq Children' \cup Reaping' /\ Reaping \subseteq Reaping'
      BY <3>2 DEF Tell, Children, Reaping
    <3>3. CASE Pop /\ proc' = proc
      BY <1>1, <2>2, <3>3, PopReaping DEF Children
    <3>4. QED
      BY <1>6, <3>1, <3>2, <3>3 DEF WaitPid, Tell
  <2>5. QED
    BY <1>1, <1>2, <2>1, <2>3, <2>4, ListKept DEF InEval
<1>7. CASE DeleteReaped
  <2>1. /\ Top.sig = "CHLD" /\ GotoFrame("wait", NoPid, NoSlot)
        /\ jobs' = Deleted(jobs, Top.pid) /\ proc' = proc
    BY <1>7 DEF DeleteReaped, Delete, AtFrame
  <2>2. Listed' \subseteq Listed \ {Top.pid} /\ Once(jobs') /\ Children' = Children
    BY <1>5, <2>1 DEF Listed, PidsOf, Children
  <2>3. Reaping \ {Top.pid} \subseteq Reaping'
    BY <1>1, <2>1, GotoReaping
  <2>4. pc \notin InEval
    BY <1>3, <2>1 DEF ListInv, Unreaped, NotInChld, InEval
  <2>5. QED
    BY <1>1, <1>2, <2>2, <2>3, <2>4, ListKept DEF InEval
\* The other handlers reap no child.
<1>8. ASSUME Reaping \subseteq Reaping', NotInChld => NotInChld', Children' = Children,
             Once(jobs'), Listed' \subseteq Listed
      PROVE  ListInv'
  BY <1>1, <1>2, <1>8, ListKept
<1>9. CASE FindFg
  <2>1. fgpid(jobs) \in Pid \cup {NoPid}
    BY <1>2, ForegroundPid DEF JobArray
  <2>2. jobs' = jobs /\ proc' = proc /\ Top.sig # "CHLD" /\ (Pop \/ GotoFrame("kill", fgpid(jobs), NoSlot))
    BY <1>9 DEF FindFg, AtFrame
  <2>3. Reaping \subseteq Reaping' /\ (NotInChld => NotInChld')
    BY <1>1, <1>4, <2>1, <2>2, PopReaping, GotoReaping
  <2>4. QED
    BY <1>2, <1>8, <2>2, <2>3 DEF Listed, Children
<1>10. CASE KillFg
  <2>1. CASE Top.pid \in Children
    <3>1. jobs' = jobs /\ Top.sig # "CHLD" /\ GotoFrame("edit", Top.pid, NoSlot)
      BY <1>10, <2>1 DEF KillFg, AtFrame
    <3>2. Children' = Children
      BY <1>10, <2>1 DEF KillFg, Children, TypeOK
    <3>3. Reaping \subseteq Reaping' /\ (NotInChld => NotInChld')
      BY <1>1, <1>3, <1>4, <3>1, GotoReaping
    <3>4. QED
      BY <1>2, <1>8, <3>1, <3>2, <3>3 DEF Listed
  <2>2. CASE Top.pid \notin Children
    <3>1. jobs' = jobs /\ proc' = proc /\ stack' = stack
      BY <1>10, <2>2 DEF KillFg, Exit
    <3>2. QED
      BY <1>2, <1>4, <1>8, <3>1 DEF Listed, Children, Reaping
  <2>3. QED
    BY <2>1, <2>2
<1>11. CASE DeleteFg
  <2>1. Top.sig # "CHLD" /\ Pop /\ jobs' = Deleted(jobs, Top.pid) /\ proc' = proc
    BY <1>11 DEF DeleteFg, Delete, AtFrame
  <2>2. Reaping \subseteq Reaping' /\ (NotInChld => NotInChld')
    BY <1>1, <1>4, <2>1, PopReaping
  <2>3. QED
    BY <1>5, <1>8, <2>1, <2>2 DEF Listed, PidsOf, Children
<1>12. CASE StopFg
  <2>1. /\ jobs' = jobs /\ proc' = proc /\ Top.sig # "CHLD"
        /\ GotoFrame("mark", Top.pid, getjobpid(jobs, Top.pid))
    BY <1>12 DEF StopFg, AtFrame
  <2>2. getjobpid(jobs, Top.pid) \in Slot \cup {NoSlot}
    BY <1>2, <1>3, LookupByPid, NoPidIsNotFound DEF JobArray
  <2>3. Reaping \subseteq Reaping' /\ (NotInChld => NotInChld')
    BY <1>1, <1>3, <1>4, <2>1, <2>2, GotoReaping
  <2>4. QED
    BY <1>2, <1>8, <2>1, <2>3 DEF Listed, Children
<1>13. CASE MarkStopped
  <2>1. \/ /\ Pop /\ Top.sig # "CHLD" /\ proc' = proc
           /\ jobs' = [jobs EXCEPT ![Top.slot].state = "ST"]
        \/ stack' = stack /\ jobs' = jobs /\ proc' = proc
    BY <1>13 DEF MarkStopped, Crash, AtFrame
  <2>2. Reaping \subseteq Reaping' /\ (NotInChld => NotInChld')
    BY <1>1, <1>4, <2>1, PopReaping DEF Reaping
  <2>3. Once(jobs') /\ Listed' = Listed
    BY <1>2, <2>1, StatePid, PidsKept
  <2>4. QED
    BY <1>8, <2>1, <2>2, <2>3 DEF Children
<1>14. QED
  BY <1>6, <1>7, <1>9, <1>10, <1>11, <1>12, <1>13 DEF Handler

LEMMA OutsideList ==
  TypeOK /\ ListInv /\ (Deliver \/ User \/ Child \/ UNCHANGED vars) => ListInv'
<1> SUFFICES ASSUME TypeOK, ListInv, Deliver \/ User \/ Child \/ UNCHANGED vars
             PROVE ListInv'
  OBVIOUS
<1> USE DEF jobVars, procVars, sigVars, mainVars, userVars
<1>1. jobs \in [Slot -> Job] /\ Once(jobs) /\ Listed \subseteq Children \cup Reaping
  BY DEF TypeOK, ListInv, NoStaleJob, ListedOnce, Once
<1>2. jobs' = jobs /\ Listed' = Listed
  <2>1. jobs' = jobs
    BY DEF Deliver, User, TypeRun, TypeBgFg, Quit, TypeKey, Exit, Child, Exec, Die, Stop, vars
  <2>2. QED
    BY <2>1 DEF Listed
<1>3. CASE Deliver
  <2>1. PICK s \in pending \ Blocked :
          stack' = Append(stack, [sig |-> s, pid |-> NoPid, slot |-> NoSlot,
                                  at |-> IF s = "CHLD" THEN "wait" ELSE "find"])
    BY <1>3 DEF Deliver
  <2> DEFINE f == [sig |-> s, pid |-> NoPid, slot |-> NoSlot, at |-> IF s = "CHLD" THEN "wait" ELSE "find"]
  <2>2. f \in Frame /\ f.sig = s /\ stack \in Seq(Frame)
    BY DEF Frame, TypeOK
  <2>3. Reaping \subseteq Reaping' /\ (NotInChld /\ s # "CHLD" => NotInChld')
    BY <2>1, <2>2, PushReaping
  <2>4. masked => s # "CHLD"
    BY DEF Blocked
  <2>5. masked' = masked /\ pc' = pc /\ pid' = pid /\ Children' = Children
    BY <1>3 DEF Deliver, Children
  <2>6. pc \in InEval => masked /\ NotInChld
    BY DEF ListInv, Unreaped, NotInChld, InEval
  <2> HIDE DEF f
  <2>7. QED
    BY <1>1, <1>2, <2>3, <2>4, <2>5, <2>6, ListKept
<1>4. CASE TypeRun
  <2>1. /\ stack = <<>> /\ stack' = stack /\ masked' = TRUE
        /\ pc' = "fork" /\ proc' = proc
    BY <1>4 DEF TypeRun, AtMain
  <2>2. QED
    BY <1>1, <1>2, <2>1
       DEF ListInv, NoStaleJob, ListedOnce, Once, Unreaped, NewChild, Children, Reaping
<1>5. CASE TypeBgFg \/ Quit \/ TypeKey \/ UNCHANGED vars
  <2>1. /\ proc' = proc /\ stack' = stack /\ masked' = masked
        /\ (pc' = pc /\ pid' = pid) \/ pc' = "cont"
    BY <1>5 DEF TypeBgFg, Quit, TypeKey, Exit, AtMain, vars
  <2>2. Children' = Children /\ Reaping' = Reaping /\ (NotInChld => NotInChld')
    BY <2>1 DEF Children, Reaping, NotInChld
  <2>3. QED
    BY <1>1, <1>2, <2>1, <2>2, ListKept DEF InEval
<1>6. CASE Child
  <2>1. stack' = stack /\ masked' = masked /\ pc' = pc /\ pid' = pid
    BY <1>6 DEF Child, Exec, Die, Stop
  <2>2. Children \subseteq Children'
    BY <1>6 DEF Child, Exec, Die, Stop, Children, TypeOK
  <2>3. Reaping' = Reaping /\ (NotInChld => NotInChld')
    BY <2>1 DEF Reaping, NotInChld
  <2>4. QED
    BY <1>1, <1>2, <2>1, <2>2, <2>3, ListKept
<1>7. QED
  BY <1>3, <1>4, <1>5, <1>6 DEF User
-----------------------------------------------------------------------------
(***************************************************************************)
(* No child is forgotten.                                                  *)
(***************************************************************************)

\* What each change of the stack does to the signals that are being handled.
LEMMA PopHandled ==
  ASSUME stack \in Seq(Frame), stack # <<>>, Pop
  PROVE  Handled \subseteq Handled' \cup {Top.sig}
<1>1. /\ Len(stack) \in Nat /\ Len(stack) >= 1
      /\ stack' \in Seq(Frame) /\ Len(stack') = Len(stack) - 1
      /\ \A k \in 1 .. Len(stack) - 1 : stack'[k] = stack[k]
  BY TopFrame, PopFrames
<1>2. DOMAIN stack = 1 .. Len(stack) /\ DOMAIN stack' = 1 .. Len(stack) - 1
  BY <1>1, LenProperties
<1>3. \A k \in DOMAIN stack : k = Len(stack) \/ (k \in DOMAIN stack' /\ stack'[k] = stack[k])
  BY <1>1, <1>2
<1>4. QED
  BY <1>3 DEF Handled, Top

LEMMA GotoHandled ==
  ASSUME stack \in Seq(Frame), stack # <<>>,
         NEW l \in {"find", "wait", "kill", "edit", "mark"}, NEW p \in Pid \cup {NoPid},
         NEW i \in Slot \cup {NoSlot}, GotoFrame(l, p, i)
  PROVE  Handled \subseteq Handled'
<1> DEFINE f == [sig |-> Top.sig, at |-> l, pid |-> p, slot |-> i]
<1>1. /\ Len(stack) \in Nat /\ stack' \in Seq(Frame) /\ Len(stack') = Len(stack)
      /\ \A k \in 1 .. Len(stack) : stack'[k] = IF k = Len(stack) THEN f ELSE stack[k]
  BY TopFrame, GotoFrames
<1>2. f.sig = Top.sig
  OBVIOUS
<1> HIDE DEF f
<1>3. DOMAIN stack = 1 .. Len(stack) /\ DOMAIN stack' = 1 .. Len(stack)
  BY <1>1, LenProperties
<1>4. \A k \in DOMAIN stack : k \in DOMAIN stack' /\ stack'[k].sig = stack[k].sig
  BY <1>1, <1>2, <1>3 DEF Top
<1>5. QED
  BY <1>4 DEF Handled

LEMMA PushHandled ==
  ASSUME stack \in Seq(Frame), NEW f \in Frame, stack' = Append(stack, f)
  PROVE  Handled \cup {f.sig} \subseteq Handled'
<1>1. /\ stack' \in Seq(Frame)
      /\ Len(stack) \in Nat /\ Len(stack') = Len(stack) + 1
      /\ \A k \in 1 .. Len(stack) : stack'[k] = stack[k]
      /\ stack'[Len(stack) + 1] = f
  BY PushFrame
<1>2. DOMAIN stack = 1 .. Len(stack) /\ DOMAIN stack' = 1 .. Len(stack) + 1
  BY <1>1, LenProperties
<1>3. \A k \in DOMAIN stack : k \in DOMAIN stack' /\ stack'[k] = stack[k]
  BY <1>1, <1>2
<1>4. Len(stack) + 1 \in DOMAIN stack'
  BY <1>1, <1>2
<1>5. QED
  BY <1>1, <1>3, <1>4 DEF Handled

\* A step that makes no child unnoticed without a SIGCHLD.
LEMMA NoticedKept ==
  ASSUME Noticed,
         \/ "CHLD" \in pending'
         \/ "CHLD" \in Handled'
         \/ /\ (Zombies \cup Unreported)' \subseteq Zombies \cup Unreported
            /\ "CHLD" \in pending => "CHLD" \in pending'
            /\ "CHLD" \in Handled => "CHLD" \in Handled',
         masked' => pc' \in InEval
  PROVE  Noticed'
BY DEF Noticed, InEval

LEMMA MainNoticed == TypeOK /\ Noticed /\ Main => Noticed'
<1> SUFFICES ASSUME TypeOK, Noticed, Main PROVE Noticed'
  OBVIOUS
<1> USE DEF jobVars, procVars, sigVars, mainVars, userVars
<1>1. stack' = stack
  BY DEF Main, Fork, SetPgid, AddJob, AddState, AddJid, Unblock, WaitFg, WaitState, Cont, ContPid,
         KillCont, Mode, SetFg, SetBg, Exit, Crash
<1>2. Handled' = Handled
  BY <1>1 DEF Handled
<1>3. masked' => pc' \in InEval
  BY DEF Main, Fork, SetPgid, AddJob, AddState, AddJid, Unblock, WaitFg, WaitState, Cont, ContPid,
         KillCont, Mode, SetFg, SetBg, Exit, Crash, AtMain, Noticed, InEval
<1>4. CASE Fork
  <2>1. /\ pending' = pending /\ reported' = reported
        /\ proc' = proc \/ \E p \in Pid \ Children : proc' = [proc EXCEPT ![p] = "forked"]
    BY <1>4 DEF Fork, Exit
  <2>2. (Zombies \cup Unreported)' \subseteq Zombies \cup Unreported
    BY <2>1 DEF Zombies, Unreported, TypeOK
  <2>3. QED
    BY <1>2, <1>3, <2>1, <2>2, NoticedKept
<1>5. CASE KillCont
  <2>1. CASE "CHLD" \in pending'
    BY <1>3, <2>1, NoticedKept
  <2>2. CASE proc' = proc /\ reported' = reported /\ pending' = pending
    BY <1>2, <1>3, <2>2, NoticedKept DEF Zombies, Unreported
  <2>3. QED
    BY <1>5, <2>1, <2>2 DEF KillCont, Exit
<1>6. CASE ~ (Fork \/ KillCont)
  <2>1. proc' = proc /\ reported' = reported /\ pending' = pending
    BY <1>6 DEF Main, SetPgid, AddJob, AddState, AddJid, Unblock, WaitFg, WaitState, Cont, ContPid,
           Mode, SetFg, SetBg, Exit, Crash
  <2>2. QED
    BY <1>2, <1>3, <2>1, NoticedKept DEF Zombies, Unreported
<1>7. QED
  BY <1>4, <1>5, <1>6

LEMMA HandlerNoticed == TypeOK /\ Noticed /\ Handler => Noticed'
<1> SUFFICES ASSUME TypeOK, Noticed, Handler PROVE Noticed'
  OBVIOUS
<1> USE DEF jobVars, procVars, sigVars, mainVars, userVars
<1>1. /\ stack \in Seq(Frame) /\ stack # <<>> /\ pc' = pc /\ masked' = masked
  BY DEF Handler, WaitPid, DeleteReaped, FindFg, KillFg, DeleteFg, StopFg, MarkStopped, AtFrame,
         Exit, Crash, TypeOK
<1>2. masked' => pc' \in InEval
  BY <1>1 DEF Noticed, InEval
<1>3. Top.pid \in Pid \cup {NoPid} /\ Top.sig \in Handled
  BY <1>1, TopFrame, LenProperties DEF Top, Handled
\* A handler of another signal, or one that goes on, leaves SIGCHLD as it was.
<1>4. ASSUME "CHLD" \in Handled => "CHLD" \in Handled', "CHLD" \in pending => "CHLD" \in pending',
             "CHLD" \in pending' \/ (Zombies \cup Unreported)' \subseteq Zombies \cup Unreported
      PROVE  Noticed'
  BY <1>2, <1>4, NoticedKept
<1>5. CASE WaitPid
  <2>1. Top.sig = "CHLD" /\ pending' = pending
    BY <1>5 DEF WaitPid, AtFrame
  <2>2. CASE \E p \in Zombies : Reap(p)
    <3>1. PICK p \in Pid : GotoFrame("edit", p, NoSlot)
      BY <2>2 DEF Zombies, Reap
    <3>2. "CHLD" \in Handled'
      BY <1>1, <1>3, <2>1, <3>1, GotoHandled
    <3>3. QED
      BY <1>2, <3>2, NoticedKept
  <2>3. CASE \E p \in Unreported : Tell(p)
    <3>1. Handled' = Handled
      BY <2>3 DEF Tell, Handled
    <3>2. QED
      BY <1>2, <1>3, <2>1, <3>1, NoticedKept
  <2>4. CASE Zombies \cup Unreported = {} /\ proc' = proc /\ reported' = reported
    <3>1. (Zombies \cup Unreported)' = {}
      BY <2>4 DEF Zombies, Unreported
    <3>2. QED
      BY <1>2, <3>1 DEF Noticed, InEval
  <2>5. QED
    BY <1>5, <2>2, <2>3, <2>4 DEF WaitPid
<1>6. CASE DeleteReaped
  <2>1. GotoFrame("wait", NoPid, NoSlot) /\ Top.sig = "CHLD"
    BY <1>6 DEF DeleteReaped, AtFrame
  <2>2. "CHLD" \in Handled'
    BY <1>1, <1>3, <2>1, GotoHandled
  <2>3. QED
    BY <1>2, <2>2, NoticedKept
<1>7. CASE FindFg
  <2>1. fgpid(jobs) \in Pid \cup {NoPid}
    BY ForegroundPid DEF TypeOK, JobArray
  <2>2. /\ proc' = proc /\ reported' = reported /\ pending' = pending /\ Top.sig # "CHLD"
        /\ Pop \/ GotoFrame("kill", fgpid(jobs), NoSlot)
    BY <1>7 DEF FindFg, AtFrame
  <2>3. "CHLD" \in Handled => "CHLD" \in Handled'
    BY <1>1, <2>1, <2>2, PopHandled, GotoHandled
  <2>4. QED
    BY <1>4, <2>2, <2>3 DEF Zombies, Unreported
<1>8. CASE KillFg
  <2>1. CASE Top.pid \in Children
    <3>1. /\ GotoFrame("edit", Top.pid, NoSlot)
          /\ "CHLD" \in pending' \/ (proc' = proc /\ pending' = pending)
          /\ reported' = reported
      BY <1>8, <2>1 DEF KillFg
    <3>2. Handled \subseteq Handled'
      BY <1>1, <1>3, <3>1, GotoHandled
    <3>3. QED
      BY <1>4, <3>1, <3>2 DEF Zombies, Unreported
  <2>2. CASE Top.pid \notin Children
    <3>1. UNCHANGED <<proc, reported, pending, stack>>
      BY <1>8, <2>2 DEF KillFg, Exit
    <3>2. QED
      BY <1>4, <3>1 DEF Zombies, Unreported, Handled
  <2>3. QED
    BY <2>1, <2>2
<1>9. CASE DeleteFg
  <2>1. /\ proc' = proc /\ reported' = reported /\ pending' = pending /\ Top.sig # "CHLD" /\ Pop
    BY <1>9 DEF DeleteFg, AtFrame
  <2>2. "CHLD" \in Handled => "CHLD" \in Handled'
    BY <1>1, <2>1, PopHandled
  <2>3. QED
    BY <1>4, <2>1, <2>2 DEF Zombies, Unreported
<1>10. CASE StopFg
  <2>1. /\ proc' = proc /\ reported' = reported /\ pending' = pending
        /\ GotoFrame("mark", Top.pid, getjobpid(jobs, Top.pid))
    BY <1>10 DEF StopFg
  <2>2. getjobpid(jobs, Top.pid) \in Slot \cup {NoSlot}
    BY <1>3, LookupByPid, NoPidIsNotFound DEF TypeOK, JobArray
  <2>3. Handled \subseteq Handled'
    BY <1>1, <1>3, <2>1, <2>2, GotoHandled
  <2>4. QED
    BY <1>4, <2>1, <2>3 DEF Zombies, Unreported
<1>11. CASE MarkStopped
  <2>1. /\ proc' = proc /\ reported' = reported /\ pending' = pending
        /\ (Pop /\ Top.sig # "CHLD") \/ stack' = stack
    BY <1>11 DEF MarkStopped, Crash, AtFrame
  <2>2. "CHLD" \in Handled => "CHLD" \in Handled'
    BY <1>1, <2>1, PopHandled DEF Handled
  <2>3. QED
    BY <1>4, <2>1, <2>2 DEF Zombies, Unreported
<1>12. QED
  BY <1>5, <1>6, <1>7, <1>8, <1>9, <1>10, <1>11 DEF Handler

LEMMA OutsideNoticed ==
  TypeOK /\ Noticed /\ (Deliver \/ User \/ Child \/ Ended \/ UNCHANGED vars) => Noticed'
<1> SUFFICES ASSUME TypeOK, Noticed, Deliver \/ User \/ Child \/ Ended \/ UNCHANGED vars
             PROVE  Noticed'
  OBVIOUS
<1> USE DEF jobVars, procVars, sigVars, mainVars, userVars
<1>1. masked' => pc' \in InEval
  BY DEF Noticed, InEval, Deliver, User, TypeRun, TypeBgFg, Quit, TypeKey, Exit, Child, Exec, Die, Stop,
         Ended, AtMain, vars
<1>2. CASE Deliver
  <2>1. PICK s \in pending \ Blocked :
          /\ pending' = pending \ {s}
          /\ stack' = Append(stack, [sig |-> s, pid |-> NoPid, slot |-> NoSlot,
                                     at |-> IF s = "CHLD" THEN "wait" ELSE "find"])
    BY <1>2 DEF Deliver
  <2> DEFINE f == [sig |-> s, pid |-> NoPid, slot |-> NoSlot, at |-> IF s = "CHLD" THEN "wait" ELSE "find"]
  <2>2. f \in Frame /\ f.sig = s /\ stack \in Seq(Frame) /\ stack' = Append(stack, f)
    BY <2>1 DEF Frame, TypeOK
  <2> HIDE DEF f
  <2>3. Handled \cup {s} \subseteq Handled'
    BY <2>2, PushHandled
  <2>4. (Zombies \cup Unreported)' = Zombies \cup Unreported
    BY <1>2 DEF Deliver, Zombies, Unreported
  <2>5. QED
    BY <1>1, <2>1, <2>3, <2>4, NoticedKept
<1>3. CASE User \/ Ended \/ UNCHANGED vars
  <2>1. proc' = proc /\ reported' = reported /\ pending \subseteq pending' /\ stack' = stack
    BY <1>3 DEF User, TypeRun, TypeBgFg, Quit, TypeKey, Exit, Ended, vars
  <2>2. QED
    BY <1>1, <2>1, NoticedKept DEF Zombies, Unreported, Handled
<1>4. CASE Child
  <2>1. CASE "CHLD" \in pending'
    BY <1>1, <2>1, NoticedKept
  <2>2. ASSUME NEW p \in Pid, Exec(p) PROVE Noticed'
    <3>1. /\ proc' = [proc EXCEPT ![p] = "running"] /\ reported' = reported
          /\ pending' = pending /\ stack' = stack
      BY <2>2 DEF Exec
    <3>2. (Zombies \cup Unreported)' \subseteq Zombies \cup Unreported
      BY <3>1 DEF Zombies, Unreported, TypeOK
    <3>3. QED
      BY <1>1, <3>1, <3>2, NoticedKept DEF Handled
  <2>3. QED
    BY <1>4, <2>1, <2>2 DEF Child, Die, Stop
<1>5. QED
  BY <1>2, <1>3, <1>4

LEMMA NextNoticed == TypeOK /\ Noticed /\ [Next]_vars => Noticed'
BY MainNoticed, HandlerNoticed, OutsideNoticed DEF Next

LEMMA InitNoticed == Init => Noticed
BY DEF Init, Noticed, Zombies, Unreported
-----------------------------------------------------------------------------
LEMMA NextShellInv == ShellInv /\ [Next]_vars => ShellInv'
<1>1. TypeOK /\ ListInv /\ [Next]_vars => ListInv'
  BY MainList, HandlerList, OutsideList DEF Next, Ended
<1>2. QED
  BY <1>1, NextShellType, NextNoticed DEF ShellInv, ListInv

\* Whatever signals arrive and wherever they are delivered, eval blocks SIGCHLD
\* long enough for the new child to be listed before it can be reaped.
THEOREM ShellInvariant == Spec => []ShellInv
<1>1. Init => ShellInv
  BY InitShellType, InitList, InitNoticed DEF ShellInv, ListInv
<1>2. QED
  BY <1>1, NextShellInv, PTL DEF Spec

\* No job is listed whose process is not a child of the shell, except while the
\* SIGCHLD handler is about to delete it.
THEOREM NoJobIsStale == Spec => []NoStaleJob
<1>1. ShellInv => NoStaleJob
  BY DEF ShellInv
<1>2. QED
  BY <1>1, ShellInvariant, PTL

\* While the shell waits for a job whose process has ended, the handler that takes
\* the job off the list is active, or its SIGCHLD is pending and nothing blocks it.
WakesUp == Waiting /\ pid \in Listed /\ proc[pid] \in {"none", "zombie"} =>
    "CHLD" \in Handled \cup (pending \ Blocked)

\* The wait of waitfg (tsh.c:341) misses no wake-up, whichever handlers run between
\* its two looks at the list.
THEOREM NoLostWakeUp == Spec => []WakesUp
<1>1. ASSUME ShellInv, Waiting, pid \in Listed, proc[pid] \in {"none", "zombie"}
      PROVE  "CHLD" \in Handled \cup (pending \ Blocked)
  <2>1. pid \in Pid
    BY <1>1 DEF ShellInv, TypeOK, Listed
  <2>2. ~ masked
    BY <1>1 DEF ShellInv, Noticed, Waiting
  <2>3. CASE proc[pid] = "zombie"
    <3>1. "CHLD" \in pending \cup Handled
      BY <1>1, <2>1, <2>3 DEF ShellInv, Noticed, Zombies
    <3>2. QED
      BY <2>2, <3>1 DEF Blocked
  <2>4. CASE proc[pid] = "none"
    <3>1. pid \in Reaping
      BY <1>1, <2>1, <2>4 DEF ShellInv, NoStaleJob, Children
    <3>2. "CHLD" \in Handled
      BY <3>1 DEF Reaping, Handled
    <3>3. QED
      BY <3>2
  <2>5. QED
    BY <1>1, <2>3, <2>4
<1>2. ShellInv => WakesUp
  BY <1>1 DEF WakesUp
<1>3. QED
  BY <1>2, ShellInvariant, PTL

\* No process has two slots of the job list.
THEOREM NoJobIsTwice == Spec => []ListedOnce
<1>1. ShellInv => ListedOnce
  BY DEF ShellInv
<1>2. QED
  BY <1>1, ShellInvariant, PTL
-----------------------------------------------------------------------------
(***************************************************************************)
(* The frames of the stack, and what a step that the main program does not *)
(* take does to the job list.                                              *)
(***************************************************************************)
Frames == {stack[k] : k \in DOMAIN stack}

LEMMA PopLeaves ==
  ASSUME stack \in Seq(Frame), stack # <<>>, Pop
  PROVE  Frames' \subseteq Frames
<1>1. /\ Len(stack) \in Nat /\ Len(stack) >= 1
      /\ stack' \in Seq(Frame) /\ Len(stack') = Len(stack) - 1
      /\ \A k \in 1 .. Len(stack) - 1 : stack'[k] = stack[k]
  BY TopFrame, PopFrames
<1>2. DOMAIN stack = 1 .. Len(stack) /\ DOMAIN stack' = 1 .. Len(stack) - 1
  BY <1>1, LenProperties
<1>3. \A k \in DOMAIN stack' : k \in DOMAIN stack /\ stack'[k] = stack[k]
  BY <1>1, <1>2
<1>4. QED
  BY <1>3 DEF Frames

LEMMA GotoLeaves ==
  ASSUME stack \in Seq(Frame), stack # <<>>,
         NEW l \in {"find", "wait", "kill", "edit", "mark"}, NEW p \in Pid \cup {NoPid},
         NEW i \in Slot \cup {NoSlot}, GotoFrame(l, p, i)
  PROVE  Frames' \subseteq Frames \cup {[sig |-> Top.sig, at |-> l, pid |-> p, slot |-> i]}
<1> DEFINE f == [sig |-> Top.sig, at |-> l, pid |-> p, slot |-> i]
<1>1. /\ Len(stack) \in Nat
      /\ stack' \in Seq(Frame) /\ Len(stack') = Len(stack)
      /\ \A k \in 1 .. Len(stack) : stack'[k] = IF k = Len(stack) THEN f ELSE stack[k]
  BY TopFrame, GotoFrames
<1> HIDE DEF f
<1>2. DOMAIN stack = 1 .. Len(stack) /\ DOMAIN stack' = 1 .. Len(stack)
  BY <1>1, LenProperties
<1>3. \A k \in DOMAIN stack' : stack'[k] = f \/ (k \in DOMAIN stack /\ stack'[k] = stack[k])
  BY <1>1, <1>2
<1>4. Frames' \subseteq Frames \cup {f}
  BY <1>3 DEF Frames
<1>5. QED
  BY <1>4 DEF f

LEMMA PushLeaves ==
  ASSUME stack \in Seq(Frame), NEW f \in Frame, stack' = Append(stack, f)
  PROVE  Frames' \subseteq Frames \cup {f}
<1>1. /\ stack' \in Seq(Frame)
      /\ Len(stack) \in Nat /\ Len(stack') = Len(stack) + 1
      /\ \A k \in 1 .. Len(stack) : stack'[k] = stack[k]
      /\ stack'[Len(stack) + 1] = f
  BY PushFrame
<1>2. DOMAIN stack = 1 .. Len(stack) /\ DOMAIN stack' = 1 .. Len(stack) + 1
  BY <1>1, LenProperties
<1>3. \A k \in DOMAIN stack' : stack'[k] = f \/ (k \in DOMAIN stack /\ stack'[k] = stack[k])
  BY <1>1, <1>2
<1>4. QED
  BY <1>3 DEF Frames

LEMMA TopIsFrame ==
  ASSUME stack \in Seq(Frame), stack # <<>>
  PROVE  Top \in Frames /\ Top \in Frame
BY TopFrame, LenProperties DEF Top, Frames

\* Handlers only clear a slot or mark its job as stopped.
Quieter(J, K) == \A i \in Slot :
    K[i] = J[i] \/ K[i] = NoJob
    \/ (K[i].pid = J[i].pid /\ K[i].jid = J[i].jid /\ K[i].state = "ST")

\* The steps between which the main program stands still.
Beside == Handler \/ Deliver \/ TypeKey \/ Child \/ Quit \/ Ended \/ UNCHANGED vars

LEMMA BesideSteps ==
  ASSUME TypeOK, Beside
  PROVE  UNCHANGED <<pc, cmd, pid, job, cmds>> /\ Quieter(jobs, jobs')
<1> USE DEF jobVars, procVars, sigVars, mainVars, userVars
<1>1. UNCHANGED <<pc, cmd, pid, job, cmds>>
  BY DEF Beside, Handler, WaitPid, DeleteReaped, FindFg, KillFg, DeleteFg, StopFg, MarkStopped, Exit,
         Crash, Deliver, TypeKey, Child, Exec, Die, Stop, Quit, Ended, vars
<1>2. CASE DeleteReaped \/ DeleteFg
  <2>1. stack \in Seq(Frame) /\ stack # <<>> /\ jobs \in JobArray
    BY <1>2 DEF DeleteReaped, DeleteFg, AtFrame, TypeOK, JobArray
  <2>2. Top.pid \in Pid \cup {NoPid} /\ jobs' = Deleted(jobs, Top.pid)
    BY <1>2, <2>1, TopFrame DEF DeleteReaped, DeleteFg, Delete
  <2>3. QED
    BY <1>1, <2>1, <2>2, DeletedJobs DEF Quieter
<1>3. CASE MarkStopped
  <2>1. \/ jobs' = jobs
        \/ \E k : jobs' = [jobs EXCEPT ![k].state = "ST"]
    BY <1>3 DEF MarkStopped, Crash
  <2>2. QED
    BY <1>1, <2>1 DEF Quieter, TypeOK, Job
<1>4. CASE ~ (DeleteReaped \/ DeleteFg \/ MarkStopped)
  <2>1. jobs' = jobs
    BY <1>4 DEF Beside, Handler, WaitPid, FindFg, KillFg, StopFg, Exit,
         Deliver, TypeKey, Child, Exec, Die, Stop, Quit, Ended, vars
  <2>2. QED
    BY <1>1, <2>1 DEF Quieter
<1>5. QED
  BY <1>2, <1>3, <1>4

\* The frames after such a step: those of before, without a handler's progress,
\* and one that starts, looks up the foreground process or goes on.
LEMMA BesideFrames ==
  ASSUME TypeOK, Beside, NEW f \in Frames'
  PROVE  \/ f \in Frames
         \/ f.at \in {"wait", "find"} /\ f.sig \in pending \cup {"CHLD"}
         \/ f.sig = "CHLD" /\ f.at = "edit" /\ f.pid \in Zombies /\ Reap(f.pid)
         \/ /\ f.sig = Top.sig /\ f.sig \in {"INT", "TSTP"} /\ f.at = "kill"
            /\ f.pid = fgpid(jobs) /\ f.pid # NoPid
            /\ Top \in Frames /\ jobs' = jobs
         \/ /\ f.sig = Top.sig /\ f.sig \in {"INT", "TSTP"} /\ f.at = "edit"
            /\ f.pid = Top.pid /\ Top.at = "kill" /\ Top \in Frames /\ jobs' = jobs
            /\ <<f.sig, f.pid>> \in sent'
         \/ /\ f.sig = "TSTP" /\ Top.sig = "TSTP" /\ f.at = "mark" /\ Top.at = "edit"
            /\ f.pid = Top.pid /\ Top \in Frames /\ jobs' = jobs
            /\ f.slot = getjobpid(jobs, f.pid)
<1> USE DEF jobVars, procVars, sigVars, mainVars, userVars
<1>1. stack \in Seq(Frame)
  BY DEF TypeOK
<1>2. CASE stack' = stack
  BY <1>2 DEF Frames
<1>3. CASE Handler /\ stack' # stack
  <2>1. stack # <<>>
    BY <1>3 DEF Handler, WaitPid, DeleteReaped, FindFg, KillFg, DeleteFg, StopFg, MarkStopped, AtFrame
  <2>2. Top \in Frames /\ Top \in Frame /\ Top.pid \in Pid \cup {NoPid}
    BY <1>1, <2>1, TopIsFrame, TopFrame
  <2>3. CASE Pop
    BY <1>1, <2>1, <2>3, PopLeaves
  <2>4. ASSUME NEW p \in Zombies, Reap(p), Top.sig = "CHLD"
        PROVE  f \in Frames \/ (f.sig = "CHLD" /\ f.at = "edit" /\ f.pid \in Zombies /\ Reap(f.pid))
    <3>1. GotoFrame("edit", p, NoSlot) /\ p \in Pid
      BY <2>4 DEF Reap, Zombies
    <3>2. f \in Frames \/ f = [sig |-> Top.sig, at |-> "edit", pid |-> p, slot |-> NoSlot]
      BY <1>1, <2>1, <3>1, GotoLeaves
    <3>3. QED
      BY <2>4, <3>2
  <2>5. CASE DeleteReaped
    <3>1. GotoFrame("wait", NoPid, NoSlot) /\ Top.sig = "CHLD"
      BY <2>5 DEF DeleteReaped, AtFrame
    <3>2. f \in Frames \/ f = [sig |-> Top.sig, at |-> "wait", pid |-> NoPid, slot |-> NoSlot]
      BY <1>1, <2>1, <3>1, GotoLeaves
    <3>3. QED
      BY <3>1, <3>2
  <2>6. CASE FindFg /\ fgpid(jobs) # NoPid
    <3>1. GotoFrame("kill", fgpid(jobs), NoSlot) /\ Top.sig \in {"INT", "TSTP"} /\ jobs' = jobs
      BY <2>6 DEF FindFg, AtFrame
    <3>2. fgpid(jobs) \in Pid \cup {NoPid}
      BY ForegroundPid DEF TypeOK, JobArray
    <3>3. f \in Frames \/ f = [sig |-> Top.sig, at |-> "kill", pid |-> fgpid(jobs), slot |-> NoSlot]
      BY <1>1, <2>1, <3>1, <3>2, GotoLeaves
    <3>4. QED
      BY <2>2, <2>6, <3>1, <3>3
  <2>7. CASE KillFg
    <3>1. /\ GotoFrame("edit", Top.pid, NoSlot) /\ Top.sig \in {"INT", "TSTP"}
          /\ Top.at = "kill" /\ jobs' = jobs /\ <<Top.sig, Top.pid>> \in sent'
      BY <1>3, <2>7 DEF KillFg, AtFrame, Exit
    <3>2. f \in Frames \/ f = [sig |-> Top.sig, at |-> "edit", pid |-> Top.pid, slot |-> NoSlot]
      BY <1>1, <2>1, <2>2, <3>1, GotoLeaves
    <3>3. QED
      BY <2>2, <3>1, <3>2
  <2>8. CASE StopFg
    <3>1. /\ GotoFrame("mark", Top.pid, getjobpid(jobs, Top.pid)) /\ Top.sig = "TSTP"
          /\ Top.at = "edit" /\ jobs' = jobs
      BY <2>8 DEF StopFg, AtFrame
    <3>2. PICK i \in Slot \cup {NoSlot} : i = getjobpid(jobs, Top.pid)
      BY <2>2, LookupByPid, NoPidIsNotFound DEF TypeOK, JobArray
    <3>3. f \in Frames \/ f = [sig |-> Top.sig, at |-> "mark", pid |-> Top.pid, slot |-> i]
      BY <1>1, <2>1, <2>2, <3>1, <3>2, GotoLeaves
    <3>4. QED
      BY <2>2, <3>1, <3>2, <3>3
  <2>9. QED
    BY <1>3, <2>3, <2>4, <2>5, <2>6, <2>7, <2>8
       DEF Handler, WaitPid, Tell, FindFg, DeleteFg, MarkStopped, Crash, AtFrame
<1>4. CASE Deliver
  <2>1. PICK s \in pending :
          stack' = Append(stack, [sig |-> s, pid |-> NoPid, slot |-> NoSlot,
                                  at |-> IF s = "CHLD" THEN "wait" ELSE "find"])
    BY <1>4 DEF Deliver
  <2> DEFINE g == [sig |-> s, pid |-> NoPid, slot |-> NoSlot, at |-> IF s = "CHLD" THEN "wait" ELSE "find"]
  <2>2. g \in Frame /\ g.at \in {"wait", "find"} /\ g.sig = s
    BY DEF Frame, TypeOK
  <2>3. stack' = Append(stack, g)
    BY <2>1
  <2> HIDE DEF g
  <2>4. f \in Frames \/ f = g
    BY <1>1, <2>2, <2>3, PushLeaves
  <2>5. QED
    BY <2>2, <2>4
<1>5. CASE TypeKey \/ Child \/ Quit \/ Ended \/ UNCHANGED vars
  <2>1. stack' = stack
    BY <1>5 DEF TypeKey, Child, Exec, Die, Stop, Quit, Exit, Ended, vars
  <2>2. QED
    BY <1>2, <2>1
<1>6. QED
  BY <1>2, <1>3, <1>4, <1>5 DEF Beside
-----------------------------------------------------------------------------
(***************************************************************************)
(* The states of the listed jobs.                                          *)
(***************************************************************************)

\* A job of process p, when there is one, is in the foreground or stopped.
FgOrSt(J, p) == p # NoPid => \A i \in Slot : J[i].pid = p => J[i].state \in {"FG", "ST"}

\* The job main waits for or is about to wait for; the one a handler of SIGINT
\* or SIGTSTP signals or has looked up; the one do_bgfg has checked and not yet changed.
ExpectsFg == Waiting \/ (pc \in {"addjid", "unblock"} /\ cmd = "run")
Awaited == ExpectsFg => FgOrSt(jobs, pid)
KeyFrame(f) == f.sig \in {"INT", "TSTP"} /\ f.at \in {"kill", "edit"}
Signalled == \A f \in Frames : KeyFrame(f) => FgOrSt(jobs, f.pid)
Adding == pc = "addst" => \A i \in Slot : jobs[i].pid = pid /\ pid # NoPid => i = job
Found == \A f \in Frames : f.at = "mark" /\ f.slot # NoSlot =>
    /\ f.slot \in Slot
    /\ jobs[f.slot].pid # NoPid => jobs[f.slot].state \in {"FG", "ST"}
ModeChecked ==
    /\ pc = "setfg" /\ jobs[job].pid # NoPid => jobs[job].state \in {"ST", "BG"}
    /\ pc = "setbg" /\ jobs[job].pid # NoPid => jobs[job].state = "ST"
StateInv == Awaited /\ Adding /\ Signalled /\ Found /\ ModeChecked

LEMMA QuieterKeeps ==
  ASSUME NEW J, NEW K, Quieter(J, K), NEW p, FgOrSt(J, p)
  PROVE  FgOrSt(K, p)
BY DEF Quieter, FgOrSt, NoJob

\* The process that ctrl-c or ctrl-z is for.
LEMMA ForegroundIsFg ==
  ASSUME jobs \in JobArray, ListedOnce
  PROVE  FgOrSt(jobs, fgpid(jobs))
<1> SUFFICES ASSUME fgpid(jobs) # NoPid PROVE FgOrSt(jobs, fgpid(jobs))
  BY DEF FgOrSt
<1> DEFINE S == {i \in Slot : jobs[i].state = "FG"}
<1>1. First(S) \in S
  BY FirstMember DEF fgpid
<1>2. fgpid(jobs) = jobs[First(S)].pid
  BY <1>1, JobListAssumption DEF fgpid, Slot, NoSlot
<1>3. PICK s \in Slot : jobs[s].state = "FG" /\ jobs[s].pid = fgpid(jobs)
  BY <1>1, <1>2
<1>4. QED
  BY <1>3 DEF FgOrSt, ListedOnce

LEMMA BesideState == TypeOK /\ ListedOnce /\ StateInv /\ Beside => StateInv'
<1> SUFFICES ASSUME TypeOK, ListedOnce, StateInv, Beside PROVE StateInv'
  OBVIOUS
<1>1. UNCHANGED <<pc, cmd, pid, job>> /\ Quieter(jobs, jobs')
  BY BesideSteps
<1>2. Awaited'
  BY <1>1, QuieterKeeps DEF StateInv, Awaited, ExpectsFg, Waiting
<1>3. Signalled'
  <2>1. SUFFICES ASSUME NEW f \in Frames', KeyFrame(f) PROVE FgOrSt(jobs', f.pid)
    BY DEF Signalled
  <2>2. FgOrSt(jobs, fgpid(jobs))
    BY ForegroundIsFg DEF TypeOK, JobArray
  <2>3. \/ f \in Frames
        \/ f.pid = fgpid(jobs)
        \/ f.pid = Top.pid /\ Top \in Frames /\ KeyFrame(Top)
    BY <2>1, BesideFrames DEF KeyFrame
  <2>4. FgOrSt(jobs, f.pid)
    BY <2>1, <2>2, <2>3 DEF StateInv, Signalled
  <2>5. QED
    BY <1>1, <2>4, QuieterKeeps
<1>4. ModeChecked'
  <2>1. pc \in {"setfg", "setbg"} => job \in Slot
    BY DEF TypeOK
  <2>2. \A i \in Slot : jobs'[i].pid # NoPid => 
          jobs[i].pid # NoPid /\ (jobs'[i].state = jobs[i].state \/ jobs'[i].state = "ST")
    BY <1>1 DEF Quieter, NoJob
  <2>3. QED
    BY <1>1, <2>1, <2>2 DEF StateInv, ModeChecked
<1>5. Found'
  <2>1. SUFFICES ASSUME NEW f \in Frames', f.at = "mark", f.slot # NoSlot
                 PROVE  /\ f.slot \in Slot
                        /\ jobs'[f.slot].pid # NoPid => jobs'[f.slot].state \in {"FG", "ST"}
    BY DEF Found
  <2>2. \/ f \in Frames
        \/ /\ Top \in Frames /\ KeyFrame(Top) /\ f.slot = getjobpid(jobs, Top.pid)
    BY <2>1, BesideFrames DEF KeyFrame
  <2>3. f.slot \in Slot /\ (jobs[f.slot].pid # NoPid => jobs[f.slot].state \in {"FG", "ST"})
    <3>1. CASE f \in Frames
      BY <2>1, <3>1 DEF StateInv, Found
    <3>2. CASE /\ Top \in Frames /\ KeyFrame(Top) /\ f.slot = getjobpid(jobs, Top.pid)
      <4>1. FgOrSt(jobs, Top.pid)
        BY <3>2 DEF StateInv, Signalled
      <4>2. Top.pid \in Pid \cup {NoPid}
        <5>1. PICK k \in DOMAIN stack : Top = stack[k]
          BY <3>2 DEF Frames
        <5>2. stack[k] \in Frame
          BY <5>1 DEF TypeOK
        <5>3. QED
          BY <5>1, <5>2 DEF Frame
      <4>3. Top.pid \in Pid /\ f.slot \in Slot /\ jobs[f.slot].pid = Top.pid
        BY <2>1, <3>2, <4>2, LookupByPid, NoPidIsNotFound DEF TypeOK, JobArray
      <4>4. QED
        BY <4>1, <4>3, JobListAssumption DEF FgOrSt
    <3>3. QED
      BY <2>2, <3>1, <3>2
  <2>4. QED
    BY <1>1, <2>3 DEF Quieter, NoJob
<1>6. QED
  BY <1>1, <1>2, <1>3, <1>4, <1>5 DEF StateInv, Adding, Quieter, NoJob

LEMMA MainState == ShellInv /\ StateInv /\ Main => StateInv'
<1> SUFFICES ASSUME ShellInv, StateInv, Main PROVE StateInv'
  OBVIOUS
<1> USE DEF jobVars, procVars, sigVars, mainVars, userVars
<1>1. jobs \in [Slot -> Job] /\ ListedOnce
  BY DEF ShellInv, TypeOK
\* No handler runs, so no frame is on the stack.
<1>2. stack = <<>> /\ stack' = stack
  BY DEF Main, Fork, SetPgid, AddJob, AddState, AddJid, Unblock, WaitFg, WaitState, Cont, ContPid,
         KillCont, Mode, SetFg, SetBg, Exit, Crash, AtMain
<1>3. Signalled' /\ Found'
  BY <1>2 DEF Signalled, Found, Frames
<1>4. ASSUME pc' \notin {"setfg", "setbg", "addst"}, ExpectsFg' => FgOrSt(jobs', pid')
      PROVE  StateInv'
  BY <1>3, <1>4 DEF StateInv, Awaited, Adding, ModeChecked
<1>5. CASE shell' # "running" /\ UNCHANGED <<jobVars, mainVars>>
  BY <1>3, <1>5 DEF StateInv, Awaited, Adding, ExpectsFg, Waiting, ModeChecked
<1>6. CASE (Fork \/ SetPgid \/ WaitFg \/ WaitState) /\ shell' = shell
  <2>1. jobs' = jobs /\ pc' \in {"setpgid", "add", "prompt", "waitst", "waitfg"}
    BY <1>6 DEF Fork, SetPgid, WaitFg, WaitState, Exit, Crash, AtMain
  <2>2. pc' \in {"waitst", "waitfg"} => pc \in {"waitst", "waitfg"} /\ pid' = pid
    BY <1>6 DEF Fork, SetPgid, WaitFg, WaitState, Exit, Crash, AtMain
  <2>3. QED
    BY <1>4, <2>1, <2>2 DEF StateInv, Awaited, ExpectsFg, Waiting
<1>7. CASE AddJob
  <2>1. pc = "add" /\ pid' = pid /\ cmd' = cmd /\ pc' \in {"unblock", "addst"}
    BY <1>7 DEF AddJob, AtMain
  <2>2. pid \in Children \ Listed /\ pid \in Pid
    BY <2>1 DEF ShellInv, NewChild, Children
  <2>3. \A i \in Slot : jobs[i].pid # pid
    BY <2>2, JobListAssumption DEF Listed
  <2>4. CASE job' = NoSlot
    BY <1>4, <1>7, <2>1, <2>3, <2>4 DEF AddJob, FgOrSt
  <2>5. CASE job' # NoSlot
    <3>1. pc' = "addst" /\ jobs' = [jobs EXCEPT ![job'].pid = pid]
      BY <1>7, <2>5 DEF AddJob
    <3>2. \A i \in Slot : i # job' => jobs'[i] = jobs[i]
      BY <1>1, <3>1
    <3>3. Adding'
      BY <2>1, <2>3, <3>2 DEF Adding
    <3>4. Awaited' /\ ModeChecked'
      BY <3>1 DEF Awaited, ExpectsFg, Waiting, ModeChecked
    <3>5. QED
      BY <1>3, <3>3, <3>4 DEF StateInv
  <2>6. QED
    BY <2>4, <2>5
<1>8. CASE AddState
  <2>1. /\ pc = "addst" /\ pc' = "addjid" /\ cmd' = cmd /\ pid' = pid /\ job \in Slot
        /\ jobs' = [jobs EXCEPT ![job].state = NewState(cmd)]
    BY <1>8 DEF AddState, AtMain, ShellInv, TypeOK
  <2>2. \A i \in Slot : /\ jobs'[i].pid = jobs[i].pid
                        /\ i = job => jobs'[i].state = NewState(cmd)
    BY <1>1, <2>1 DEF Job
  <2>3. \A i \in Slot : jobs[i].pid = pid /\ pid # NoPid => i = job
    BY <2>1 DEF StateInv, Adding
  <2>4. cmd = "run" => FgOrSt(jobs', pid)
    BY <2>2, <2>3 DEF FgOrSt, NewState
  <2>5. QED
    BY <1>4, <2>1, <2>4 DEF ExpectsFg, Waiting
<1>9. CASE AddJid
  <2>1. /\ pc = "addjid" /\ pc' = "unblock" /\ cmd' = cmd /\ pid' = pid
        /\ jobs' = [jobs EXCEPT ![job].jid = nextjid]
    BY <1>9 DEF AddJid, AtMain
  <2>2. \A i \in Slot : jobs'[i].pid = jobs[i].pid /\ jobs'[i].state = jobs[i].state
    BY <1>1, <2>1 DEF Job
  <2>3. QED
    BY <1>4, <2>1, <2>2 DEF StateInv, Awaited, ExpectsFg, Waiting, FgOrSt
<1>10. CASE Unblock
  BY <1>4, <1>10 DEF Unblock, AtMain, StateInv, Awaited, ExpectsFg, Waiting
<1>11. CASE Cont \/ ContPid \/ (KillCont /\ shell' = shell) \/ SetBg
  <2>1. pc' \in {"contpid", "kill", "mode", "prompt"}
    BY <1>11 DEF Cont, ContPid, KillCont, AtMain, Exit, SetBg
  <2>2. QED
    BY <1>4, <2>1 DEF ExpectsFg, Waiting
<1>12. CASE Mode
  <2>1. jobs' = jobs /\ job' = job /\ pc' \in {"setfg", "setbg", "prompt"}
    BY <1>12 DEF Mode
  <2>2. /\ pc' = "setfg" => jobs[job].state \in {"ST", "BG"}
        /\ pc' = "setbg" => jobs[job].state = "ST"
    BY <1>12 DEF Mode
  <2>3. Awaited' /\ Adding' /\ ModeChecked'
    BY <2>1, <2>2 DEF Awaited, Adding, ExpectsFg, Waiting, ModeChecked
  <2>4. QED
    BY <1>3, <2>3 DEF StateInv
<1>13. CASE SetFg
  <2>1. /\ pc' = "waitfg" /\ pid' = jobs[job].pid /\ job \in Slot
        /\ jobs' = [jobs EXCEPT ![job].state = "FG"]
    BY <1>13 DEF SetFg, AtMain, ShellInv, TypeOK
  <2>2. \A i \in Slot : /\ jobs'[i].pid = jobs[i].pid
                        /\ i = job => jobs'[i].state = "FG"
    BY <1>1, <2>1 DEF Job
  <2>3. FgOrSt(jobs', pid')
    BY <1>1, <2>1, <2>2 DEF FgOrSt, ListedOnce
  <2>4. QED
    BY <1>4, <2>1, <2>3
<1>14. ASSUME Fork \/ SetPgid \/ WaitState \/ KillCont, shell' # shell PROVE StateInv'
  <2>1. UNCHANGED <<jobVars, mainVars>> /\ shell' # "running"
    BY <1>14 DEF Fork, SetPgid, WaitState, KillCont, AtMain, Exit, Crash
  <2>2. QED
    BY <1>5, <2>1
<1>15. WaitFg => shell' = shell
  BY DEF WaitFg
<1>16. QED
  BY <1>6, <1>7, <1>8, <1>10, <1>11, <1>12, <1>13, <1>14, <1>15, <1>9 DEF Main

LEMMA TypedState == ShellInv /\ StateInv /\ (TypeRun \/ TypeBgFg) => StateInv'
<1> SUFFICES ASSUME ShellInv, StateInv, TypeRun \/ TypeBgFg PROVE StateInv'
  OBVIOUS
<1>1. stack = <<>> /\ stack' = stack /\ pc' \in {"fork", "cont"}
  BY DEF TypeRun, TypeBgFg, AtMain, sigVars
<1>2. QED
  BY <1>1 DEF StateInv, Awaited, Adding, ExpectsFg, Waiting, Signalled, Found, Frames, ModeChecked

LEMMA NextState ==
  ShellInv /\ StateInv /\ [Next]_vars => StateInv'
<1>1. ShellInv => TypeOK /\ ListedOnce
  BY DEF ShellInv
<1>2. [Next]_vars => Main \/ Beside \/ TypeRun \/ TypeBgFg
  BY DEF Next, User, Beside
<1>3. QED
  BY <1>1, <1>2, BesideState, MainState, TypedState

LEMMA InitState == Init => StateInv
<1> SUFFICES ASSUME Init PROVE StateInv
  OBVIOUS
<1>1. stack = <<>> /\ pc = "prompt"
  BY DEF Init
<1>2. QED
  BY <1>1 DEF StateInv, Awaited, Adding, ExpectsFg, Waiting, Signalled, Found, Frames, ModeChecked

LEMMA ShellStates == Spec => [](ShellInv /\ StateInv)
<1>1. Init => StateInv
  BY InitState
<1>2. QED
  BY <1>1, ShellInvariant, NextState, PTL DEF Spec

\* While eval or fg waits for a job, neither bg, nor a handler, nor a stale
\* pointer of do_bgfg puts the job in the background.
THEOREM WaitedJobStaysForeground == Spec => []WaitsForForeground
<1>1. StateInv => WaitsForForeground
  BY DEF StateInv, Awaited, ExpectsFg, FgOrSt, WaitsForForeground
<1>2. QED
  BY <1>1, ShellStates, PTL

\* A step of the shell or of a handler changes the state of a listed job only
\* along the arrows of the comment at tsh.c:28-34, although do_bgfg writes the
\* state through a pointer it looked up before handlers ran.
THEOREM JobsFollowTheDiagram == Spec => JobTransitions
<1> DEFINE Kept(i) == ~ (pc = "addst" /\ i = job) /\ jobs[i].pid # NoPid /\ jobs'[i].pid = jobs[i].pid /\ jobs'[i].state # jobs[i].state =>
      <<jobs[i].state, jobs'[i].state>> \in
        {<<"FG", "ST">>, <<"ST", "FG">>, <<"ST", "BG">>, <<"BG", "FG">>}
<1>1. ASSUME ShellInv, StateInv, [Next]_vars, NEW i \in Slot,
             ~ (pc = "addst" /\ i = job), jobs[i].pid # NoPid, jobs'[i].pid = jobs[i].pid,
             jobs'[i].state # jobs[i].state
      PROVE  <<jobs[i].state, jobs'[i].state>> \in
               {<<"FG", "ST">>, <<"ST", "FG">>, <<"ST", "BG">>, <<"BG", "FG">>}
  <2>1. jobs \in [Slot -> Job]
    BY <1>1 DEF ShellInv, TypeOK
  <2>2. CASE AddJob
    <3>1. \/ jobs' = jobs
          \/ /\ job' \in Slot /\ jobs[job'].pid = NoPid
             /\ jobs' = [jobs EXCEPT ![job'].pid = pid]
      BY <2>1, <2>2, FreeSlotIsFree DEF AddJob, JobArray
    <3>2. i # job' => jobs'[i] = jobs[i]
      BY <2>1, <3>1
    <3>3. QED
      BY <1>1, <3>1, <3>2
  <2>3. CASE AddState \/ AddJid
    <3>1. CASE AddJid
      BY <1>1, <2>1, <3>1 DEF AddJid, Job
    <3>2. CASE AddState
      <4>1. jobs' = [jobs EXCEPT ![job].state = NewState(cmd)] /\ pc = "addst"
        BY <3>2 DEF AddState, AtMain
      <4>2. QED
        BY <1>1, <2>1, <4>1
    <3>3. QED
      BY <2>3, <3>1, <3>2
  <2>4. CASE SetFg
    <3>1. jobs' = [jobs EXCEPT ![job].state = "FG"] /\ pc = "setfg"
      BY <2>4 DEF SetFg, AtMain
    <3>2. i = job /\ jobs'[i].state = "FG"
      BY <1>1, <2>1, <3>1 DEF Job
    <3>3. jobs[i].state \in {"ST", "BG"}
      BY <1>1, <3>1, <3>2 DEF StateInv, ModeChecked
    <3>4. QED
      BY <3>2, <3>3
  <2>5. CASE SetBg
    <3>1. jobs' = [jobs EXCEPT ![job].state = "BG"] /\ pc = "setbg"
      BY <2>5 DEF SetBg, AtMain
    <3>2. i = job /\ jobs'[i].state = "BG"
      BY <1>1, <2>1, <3>1 DEF Job
    <3>3. jobs[i].state = "ST"
      BY <1>1, <3>1, <3>2 DEF StateInv, ModeChecked
    <3>4. QED
      BY <3>2, <3>3
  <2>6. CASE MarkStopped
    <3>1. stack \in Seq(Frame) /\ stack # <<>> /\ Top.at = "mark"
      BY <1>1, <2>6 DEF MarkStopped, AtFrame, ShellInv, TypeOK
    <3>2. Top \in Frames
      BY <3>1, TopIsFrame
    <3>3. Top.slot # NoSlot /\ jobs[Top.slot].pid # NoPid =>
            jobs[Top.slot].state \in {"FG", "ST"}
      BY <1>1, <3>1, <3>2 DEF StateInv, Found
    <3>4. \/ jobs' = jobs
          \/ Top.slot # NoSlot /\ jobs' = [jobs EXCEPT ![Top.slot].state = "ST"]
      BY <2>6 DEF MarkStopped, Crash, jobVars
    <3>5. i = Top.slot /\ i # NoSlot /\ jobs'[i].state = "ST"
      BY <1>1, <2>1, <3>4 DEF Job
    <3>6. QED
      BY <1>1, <3>3, <3>5
  <2>7. CASE DeleteReaped \/ DeleteFg
    <3>1. stack \in Seq(Frame) /\ stack # <<>>
      BY <1>1, <2>7 DEF DeleteReaped, DeleteFg, AtFrame, ShellInv, TypeOK
    <3>2. Top.pid \in Pid \cup {NoPid} /\ jobs' = Deleted(jobs, Top.pid)
      BY <2>7, <3>1, TopFrame DEF DeleteReaped, DeleteFg, Delete
    <3>3. jobs'[i] = jobs[i] \/ jobs'[i] = NoJob
      BY <2>1, <3>2, DeletedJobs DEF JobArray
    <3>4. QED
      BY <1>1, <3>3 DEF NoJob
  <2>8. CASE ~ (\/ AddJob \/ AddState \/ AddJid \/ SetFg \/ SetBg
               \/ MarkStopped \/ DeleteReaped \/ DeleteFg)
    <3>1. jobs' = jobs
      BY <1>1, <2>8 DEF Next, Main, Fork, SetPgid, Unblock, WaitFg, WaitState, Cont, ContPid, KillCont,
         Mode, Handler, WaitPid, FindFg, KillFg, StopFg, Deliver, User, TypeRun, TypeBgFg, Quit,
         TypeKey, Child, Exec, Die, Stop, Ended, Exit, Crash, vars, jobVars
    <3>2. QED
      BY <1>1, <3>1
  <2>9. QED
    BY <2>2, <2>3, <2>4, <2>5, <2>6, <2>7, <2>8
<1>2. ShellInv /\ StateInv /\ [Next]_vars => [\A i \in Slot : Kept(i)]_vars
  BY <1>1
<1>3. Spec => [][\A i \in Slot : Kept(i)]_vars
  BY <1>2, ShellStates, PTL DEF Spec
<1>4. QED
  BY <1>3 DEF JobTransitions
-----------------------------------------------------------------------------
(***************************************************************************)
(* One foreground job, when fg is not used.                                *)
(***************************************************************************)
RunLabels == {"addjid", "unblock", "waitfg", "waitst"}
FgOfRun ==
    /\ cmd # "fg" /\ pc # "setfg"
    /\ \A i \in Slot : jobs[i].state = "FG" =>
         jobs[i].pid = pid /\ pid # NoPid /\ cmd = "run" /\ pc \in RunLabels

\* The slot that addjob fills keeps its process; the handlers of keys that have
\* found a foreground process have found that of the "run".
AddsOwn == pc = "addst" => jobs[job].pid = pid /\ pid # NoPid
KeySent(f) == f.sig # "CHLD" /\ f.at \in {"kill", "edit", "mark"}
KeysOfRun == \A f \in Frames : KeySent(f) => f.pid = pid /\ cmd = "run" /\ pc \in RunLabels
OnlyRun == FgOfRun /\ AddsOwn /\ KeysOfRun

LEMMA MainFgOfRun == ShellInv /\ OnlyRun /\ Main => FgOfRun'
<1> SUFFICES ASSUME ShellInv, OnlyRun, Main PROVE FgOfRun'
  OBVIOUS
<1> USE DEF jobVars, procVars, sigVars, mainVars, userVars
<1>1. jobs \in [Slot -> Job] /\ ListedOnce
  BY DEF ShellInv, TypeOK
<1>2. cmd' = cmd
  BY DEF Main, Fork, SetPgid, AddJob, AddState, AddJid, Unblock, WaitFg, WaitState, Cont, ContPid,
         KillCont, Mode, SetFg, SetBg, Exit, Crash
<1>3. CASE Fork \/ SetPgid \/ Cont \/ ContPid \/ KillCont \/ Mode
  <2>1. jobs' = jobs /\ pc \notin RunLabels /\ pc' # "setfg"
    BY <1>3 DEF Fork, SetPgid, Cont, ContPid, KillCont, Mode, Exit, AtMain, RunLabels, OnlyRun, FgOfRun
  <2>2. QED
    BY <1>2, <2>1 DEF OnlyRun, FgOfRun
<1>4. CASE AddJob
  <2>1. /\ pc = "add" /\ pc' \in {"addst", "unblock"}
        /\ jobs' = jobs \/ jobs' = [jobs EXCEPT ![job'].pid = pid]
    BY <1>4 DEF AddJob, AtMain
  <2>2. \A i \in Slot : jobs[i].state # "FG"
    BY <2>1 DEF OnlyRun, FgOfRun, RunLabels
  <2>3. \A i \in Slot : jobs'[i].state # "FG"
    BY <1>1, <2>1, <2>2 DEF Job
  <2>4. QED
    BY <1>2, <2>1, <2>3 DEF OnlyRun, FgOfRun
<1>5. CASE AddState
  <2>1. /\ pc = "addst" /\ pid' = pid /\ pc' = "addjid" /\ job \in Slot
        /\ jobs' = [jobs EXCEPT ![job].state = NewState(cmd)]
    BY <1>5 DEF AddState, AtMain, ShellInv, TypeOK
  <2>2. \A i \in Slot : jobs[i].state # "FG"
    BY <2>1 DEF OnlyRun, FgOfRun, RunLabels
  <2>3. \A i \in Slot : jobs'[i].state = "FG" =>
          i = job /\ jobs'[i].pid = jobs[job].pid /\ cmd = "run"
    BY <1>1, <2>1, <2>2 DEF NewState, Job
  <2>4. QED
    BY <1>2, <2>1, <2>3 DEF OnlyRun, FgOfRun, AddsOwn, RunLabels
<1>6. CASE AddJid
  <2>1. /\ pc = "addjid" /\ pc' = "unblock" /\ pid' = pid
        /\ jobs' = [jobs EXCEPT ![job].jid = nextjid]
    BY <1>6 DEF AddJid, AtMain
  <2>2. \A i \in Slot : jobs'[i].pid = jobs[i].pid /\ jobs'[i].state = jobs[i].state
    BY <1>1, <2>1 DEF Job
  <2>3. QED
    BY <1>2, <2>1, <2>2 DEF OnlyRun, FgOfRun, RunLabels
<1>7. CASE Unblock
  <2>1. jobs' = jobs /\ pid' = pid /\ pc' = IF cmd = "run" THEN "waitfg" ELSE "prompt"
    BY <1>7 DEF Unblock
  <2>2. QED
    BY <1>2, <2>1 DEF OnlyRun, FgOfRun, RunLabels
<1>8. CASE WaitFg
  <2>1. /\ jobs' = jobs /\ pid' = pid
        /\ pc' = IF getjobpid(jobs, pid) = NoSlot THEN "prompt" ELSE "waitst"
    BY <1>8 DEF WaitFg
  <2>2. getjobpid(jobs, pid) = NoSlot /\ pid # NoPid => \A i \in Slot : jobs[i].pid # pid
    BY <1>1, LookupByPid DEF JobArray, PidsOf, ShellInv, TypeOK
  <2>3. QED
    BY <1>2, <2>1, <2>2 DEF OnlyRun, FgOfRun, RunLabels
<1>9. CASE WaitState
  <2> DEFINE g == getjobpid(jobs, pid)
  <2>1. /\ jobs' = jobs /\ pid' = pid /\ pc = "waitst"
        /\ \/ g # NoSlot /\ pc' = IF jobs[g].state = "ST" THEN "prompt" ELSE "waitfg"
           \/ pc' = pc
    BY <1>9 DEF WaitState, Crash, AtMain
  <2>2. g # NoSlot => pid # NoPid /\ g \in Slot /\ jobs[g].pid = pid
    BY <1>1, LookupByPid, NoPidIsNotFound DEF JobArray, ShellInv, TypeOK
  <2> HIDE DEF g
  <2>3. pc' = "prompt" => \A i \in Slot : jobs[i].state # "FG"
    BY <1>1, <2>1, <2>2 DEF ListedOnce, OnlyRun, FgOfRun
  <2>4. QED
    BY <1>2, <2>1, <2>3 DEF OnlyRun, FgOfRun, RunLabels
<1>10. CASE SetBg
  <2>1. pc = "setbg" /\ jobs' = [jobs EXCEPT ![job].state = "BG"] /\ pc' = "prompt"
    BY <1>10 DEF SetBg, AtMain
  <2>2. \A i \in Slot : jobs[i].state # "FG"
    BY <2>1 DEF OnlyRun, FgOfRun, RunLabels
  <2>3. \A i \in Slot : jobs'[i].state # "FG"
    BY <1>1, <2>1, <2>2 DEF Job
  <2>4. QED
    BY <1>2, <2>1, <2>3 DEF OnlyRun, FgOfRun
<1>11. ~ SetFg
  BY DEF SetFg, AtMain, OnlyRun, FgOfRun
<1>12. QED
  BY <1>3, <1>4, <1>6, <1>7, <1>8, <1>9, <1>10, <1>11, <1>5 DEF Main

LEMMA MainOnlyRun == ShellInv /\ OnlyRun /\ Main => OnlyRun'
<1> SUFFICES ASSUME ShellInv, OnlyRun, Main PROVE OnlyRun'
  OBVIOUS
<1> USE DEF jobVars, procVars, sigVars, mainVars, userVars
<1>1. stack = <<>> /\ stack' = stack
  BY DEF Main, Fork, SetPgid, AddJob, AddState, AddJid, Unblock, WaitFg, WaitState, Cont, ContPid,
         KillCont, Mode, SetFg, SetBg, Exit, Crash, AtMain
<1>2. KeysOfRun'
  BY <1>1 DEF KeysOfRun, Frames
<1>3. AddsOwn'
  <2>1. CASE AddJob
    <3>1. pid \in Pid /\ pid' = pid /\ jobs \in JobArray
      BY <2>1 DEF AddJob, AtMain, ShellInv, NewChild, Children, TypeOK, JobArray
    <3>2. CASE job' = NoSlot
      BY <2>1, <3>2 DEF AddJob, AddsOwn
    <3>3. CASE job' # NoSlot
      <4>1. job' \in Slot /\ jobs' = [jobs EXCEPT ![job'].pid = pid]
        BY <2>1, <3>1, <3>3, FreeSlotIsFree DEF AddJob
      <4>2. jobs'[job'].pid = pid
        BY <3>1, <4>1 DEF JobArray, Job
      <4>3. QED
        BY <3>1, <4>2, JobListAssumption DEF AddsOwn
    <3>4. QED
      BY <3>2, <3>3
  <2>2. CASE ~ AddJob
    <3>1. pc' # "addst"
      BY <2>2 DEF Main, Fork, SetPgid, AddState, AddJid, Unblock, WaitFg, WaitState, Cont,
             ContPid, KillCont, Mode, SetFg, SetBg, Exit, Crash, AtMain
    <3>2. QED
      BY <3>1 DEF AddsOwn
  <2>3. QED
    BY <2>1, <2>2
<1>4. QED
  BY <1>2, <1>3, MainFgOfRun DEF OnlyRun

LEMMA TypedOnlyRun ==
  "fg" \notin Commands /\ OnlyRun /\ (TypeRun \/ TypeBgFg) => OnlyRun'
<1> SUFFICES ASSUME "fg" \notin Commands, OnlyRun, TypeRun \/ TypeBgFg PROVE OnlyRun'
  OBVIOUS
<1>1. /\ pc = "prompt" /\ jobs' = jobs /\ pid' = pid /\ stack = <<>> /\ stack' = stack
      /\ cmd' \in Commands /\ pc' \in {"fork", "cont"}
  BY DEF TypeRun, TypeBgFg, AtMain, jobVars, sigVars
<1>2. QED
  BY <1>1 DEF OnlyRun, FgOfRun, AddsOwn, KeysOfRun, Frames, RunLabels

\* Without fg, what ctrl-c and ctrl-z find is the process of the "run".
LEMMA FgpidOfRun ==
  ASSUME FgOfRun, fgpid(jobs) # NoPid
  PROVE  fgpid(jobs) = pid /\ cmd = "run" /\ pc \in RunLabels
<1> DEFINE S == {i \in Slot : jobs[i].state = "FG"}
<1>1. First(S) \in S
  BY FirstMember DEF fgpid
<1>2. fgpid(jobs) = jobs[First(S)].pid
  BY <1>1, JobListAssumption DEF fgpid, Slot, NoSlot
<1>3. PICK s \in Slot : jobs[s].state = "FG" /\ jobs[s].pid = fgpid(jobs)
  BY <1>1, <1>2
<1>4. QED
  BY <1>3 DEF FgOfRun

LEMMA BesideOnlyRun == ShellInv /\ OnlyRun /\ Beside => OnlyRun'
<1> SUFFICES ASSUME ShellInv, OnlyRun, Beside PROVE OnlyRun'
  OBVIOUS
<1>1. TypeOK /\ UNCHANGED <<pc, cmd, pid, job>> /\ Quieter(jobs, jobs')
  BY BesideSteps DEF ShellInv
<1>2. FgOfRun'
  <2>1. \A i \in Slot : jobs'[i].state = "FG" => jobs[i].state = "FG" /\ jobs'[i].pid = jobs[i].pid
    BY <1>1 DEF Quieter, NoJob
  <2>2. QED
    BY <1>1, <2>1 DEF OnlyRun, FgOfRun
<1>3. AddsOwn'
  <2>1. SUFFICES ASSUME pc = "addst" PROVE jobs'[job].pid = jobs[job].pid
    BY <1>1, <2>1 DEF OnlyRun, AddsOwn
  <2>2. NotInChld /\ jobs \in [Slot -> Job]
    BY <1>1, <2>1 DEF ShellInv, Unreaped, NotInChld, TypeOK
  <2>3. CASE DeleteReaped \/ DeleteFg
    <3>1. stack \in Seq(Frame) /\ stack # <<>>
      BY <1>1, <2>3 DEF DeleteReaped, DeleteFg, AtFrame, TypeOK
    <3>2. Top \in Frames
      BY <3>1, TopIsFrame
    <3>3. Top.sig # "CHLD"
      BY <2>2, <3>2 DEF NotInChld, Frames
    <3>4. KeySent(Top)
      BY <2>3, <3>3 DEF DeleteReaped, DeleteFg, AtFrame, KeySent
    <3>5. QED
      BY <2>1, <3>2, <3>4 DEF OnlyRun, KeysOfRun, RunLabels
  <2>4. CASE MarkStopped
    <3>1. \/ jobs' = jobs
          \/ \E k : jobs' = [jobs EXCEPT ![k].state = "ST"]
      BY <2>4 DEF MarkStopped, Crash, jobVars
    <3>2. job \in Slot
      BY <1>1, <2>1 DEF TypeOK
    <3>3. QED
      BY <2>2, <3>1, <3>2, StatePid
  <2>5. CASE ~ (DeleteReaped \/ DeleteFg \/ MarkStopped)
    <3>1. jobs' = jobs
      BY <2>5 DEF Beside, Handler, WaitPid, FindFg, KillFg, StopFg, Exit, Deliver, TypeKey,
           Child, Exec, Die, Stop, Quit, Ended, vars, jobVars
    <3>2. QED
      BY <3>1
  <2>6. QED
    BY <2>3, <2>4, <2>5
<1>4. KeysOfRun'
  <2>1. SUFFICES ASSUME NEW f \in Frames', KeySent(f)
                 PROVE  f.pid = pid /\ cmd = "run" /\ pc \in RunLabels
    BY <1>1 DEF KeysOfRun
  <2>2. \/ f \in Frames
        \/ f.pid = fgpid(jobs) /\ f.pid # NoPid
        \/ f.pid = Top.pid /\ Top \in Frames /\ KeySent(Top)
    BY <1>1, <2>1, BesideFrames DEF KeySent
  <2>3. QED
    BY <2>1, <2>2, FgpidOfRun DEF OnlyRun, KeysOfRun
<1>5. QED
  BY <1>2, <1>3, <1>4 DEF OnlyRun

LEMMA NextOnlyRun ==
  "fg" \notin Commands /\ ShellInv /\ OnlyRun /\ [Next]_vars => OnlyRun'
<1>1. [Next]_vars => Main \/ Beside \/ TypeRun \/ TypeBgFg
  BY DEF Next, User, Beside
<1>2. QED
  BY <1>1, BesideOnlyRun, MainOnlyRun, TypedOnlyRun

LEMMA OnlyRunInvariant ==
  ASSUME "fg" \notin Commands
  PROVE  Spec => [](ShellInv /\ OnlyRun)
<1>1. Init => OnlyRun
  BY DEF Init, OnlyRun, FgOfRun, AddsOwn, KeysOfRun, Frames, initjobs, NoJob
<1>2. ShellInv /\ OnlyRun /\ [Next]_vars => OnlyRun'
  BY NextOnlyRun
<1>3. QED
  BY <1>1, <1>2, ShellInvariant, PTL DEF Spec

\* Whatever keys are typed and wherever the handlers run, two jobs are never in
\* the foreground (tsh.c:35), provided that the user does not type fg.
THEOREM OneForegroundJob ==
  ASSUME "fg" \notin Commands
  PROVE  Spec => []OneForeground
<1>1. ShellInv /\ OnlyRun => OneForeground
  BY DEF OnlyRun, FgOfRun, OneForeground, ShellInv, ListedOnce
<1>2. QED
  BY <1>1, OnlyRunInvariant, PTL

\* With the same proviso ctrl-c and ctrl-z are sent to no process but that of the
\* "run" that eval is at (tsh.c:370-373), although the job list may change between
\* the lookup of the foreground job and the kill.
THEOREM KeysReachTheRun ==
  ASSUME "fg" \notin Commands
  PROVE  Spec => []KeysForForeground
<1>1. OnlyRun => KeysForForeground
  BY DEF OnlyRun, KeysOfRun, KeySent, Frames, RunLabels, KeysForForeground
<1>2. QED
  BY <1>1, OnlyRunInvariant, PTL
-----------------------------------------------------------------------------
(***************************************************************************)
(* Every child is listed or was sent ctrl-c, with a slot for every process.*)
(***************************************************************************)
Roomy == IsFiniteSet(Pid) /\ Cardinality(Pid) <= MAXJOBS

\* What the handlers are about to delete: a child that has been reaped, or one that
\* ctrl-c was sent to.
FrameKnown(f) == f.at = "edit" =>
    /\ f.sig = "CHLD" => f.pid \notin Children
    /\ f.sig = "INT" => f.pid \notin Children \/ <<"INT", f.pid>> \in sent
FramesKnown == \A f \in Frames : FrameKnown(f)

\* addjob finds a free slot for the new child: the others are listed already.
LEMMA RoomForChild ==
  ASSUME Roomy, ShellInv, AddJob
  PROVE  job' # NoSlot
<1> SUFFICES ASSUME job' = NoSlot PROVE FALSE
  OBVIOUS
<1> DEFINE Free == {i \in Slot : jobs[i].pid = NoPid}
           P == Pid \ {pid}
<1>1. jobs \in [Slot -> Job] /\ stack = <<>> /\ pc = "add" /\ FreeSlot(jobs) = NoSlot
  BY DEF ShellInv, TypeOK, AddJob, AtMain
<1>2. Free = {}
  BY <1>1, FirstMember DEF FreeSlot
<1>3. pid \in Pid /\ pid \notin Listed
  BY <1>1 DEF ShellInv, NewChild, Children
<1>4. \A i \in Slot : jobs[i].pid \in P
  BY <1>1, <1>2, <1>3 DEF Listed, Job
<1> DEFINE f == [i \in Slot |-> jobs[i].pid]
<1>5. f \in [Slot -> P] /\ \A i, j \in Slot : f[i] = f[j] => i = j
  <2>1. \A i, j \in Slot : jobs[i].pid = jobs[j].pid => i = j
    BY <1>2, <1>3 DEF ShellInv, ListedOnce
  <2>2. QED
    BY <1>4, <2>1
<1>6. IsFiniteSet(P) /\ Cardinality(P) = Cardinality(Pid) - 1
  BY <1>3, FS_RemoveElement DEF Roomy
<1>7. IsFiniteSet(Slot) /\ Cardinality(Slot) = MAXJOBS /\ MAXJOBS \in Nat
  BY FS_Interval, JobListAssumption DEF Slot
<1>8. Cardinality(Pid) \in Nat
  BY FS_CardinalityType DEF Roomy
<1>9. Cardinality(P) < Cardinality(Slot)
  BY <1>6, <1>7, <1>8 DEF Roomy
<1> HIDE DEF f, P
<1>10. \E x, y \in Slot : x # y /\ f[x] = f[y]
  BY <1>5, <1>6, <1>7, <1>9, FS_PigeonHole
<1>11. QED
  BY <1>5, <1>10

\* Beside the main program no child appears, and ctrl-c is forgotten with the child.
LEMMA BesideChildren ==
  ASSUME TypeOK, Beside
  PROVE  /\ Children' \subseteq Children
         /\ \A p \in Children' : <<"INT", p>> \in sent => <<"INT", p>> \in sent'
<1> USE DEF jobVars, procVars, sigVars, mainVars, userVars
<1>1. CASE WaitPid
  <2>1. \/ \E p \in Zombies : Reap(p)
        \/ proc' = proc /\ sent' = sent
    BY <1>1 DEF WaitPid, Tell
  <2>2. ASSUME NEW p \in Zombies, Reap(p)
        PROVE  /\ Children' \subseteq Children \ {p}
               /\ \A q \in Children' : <<"INT", q>> \in sent => <<"INT", q>> \in sent'
    <3>1. p \in Pid /\ proc' = [proc EXCEPT ![p] = "none"] /\ sent' = sent \ (Signals \X {p})
      BY <2>2 DEF Reap, Zombies
    <3>2. Children' \subseteq Children \ {p}
      BY <3>1 DEF Children, TypeOK
    <3>3. \A q : q # p => <<"INT", q>> \notin Signals \X {p}
      OBVIOUS
    <3>4. QED
      BY <3>1, <3>2, <3>3
  <2>3. QED
    BY <2>1, <2>2 DEF Children
<1>2. CASE KillFg
  BY <1>2 DEF KillFg, Exit, Children, TypeOK
<1>3. CASE Child
  BY <1>3 DEF Child, Exec, Die, Stop, Children, TypeOK
<1>4. CASE ~ (WaitPid \/ KillFg \/ Child)
  BY <1>4 DEF Beside, Handler, DeleteReaped, FindFg, DeleteFg, StopFg, MarkStopped, Exit,
     Crash, Deliver, TypeKey, Quit, Ended, vars, Children
<1>5. QED
  BY <1>1, <1>2, <1>3, <1>4

LEMMA BesideFramesKnown == ShellInv /\ FramesKnown /\ Beside => FramesKnown'
<1> SUFFICES ASSUME ShellInv, FramesKnown, Beside, NEW f \in Frames', f.at = "edit"
             PROVE  /\ f.sig = "CHLD" => f.pid \notin Children'
                    /\ f.sig = "INT" => f.pid \notin Children' \/ <<"INT", f.pid>> \in sent'
  BY DEF FramesKnown, FrameKnown
<1>1. /\ TypeOK /\ Children' \subseteq Children
      /\ \A p \in Children' : <<"INT", p>> \in sent => <<"INT", p>> \in sent'
  BY BesideChildren DEF ShellInv
<1>2. CASE f \in Frames
  BY <1>1, <1>2 DEF FramesKnown, FrameKnown
<1>3. CASE f.sig = "CHLD" /\ f.pid \in Zombies /\ Reap(f.pid)
  BY <1>1, <1>3 DEF Reap, Zombies, Children, TypeOK
<1>4. CASE f.sig \in {"INT", "TSTP"} /\ <<f.sig, f.pid>> \in sent'
  BY <1>4
<1>5. QED
  BY <1>1, <1>2, <1>3, <1>4, BesideFrames

LEMMA NextFramesKnown == ShellInv /\ FramesKnown /\ [Next]_vars => FramesKnown'
<1>1. ASSUME Main \/ TypeRun \/ TypeBgFg PROVE FramesKnown'
  <2>1. stack = <<>> /\ stack' = stack
    BY <1>1 DEF Main, Fork, SetPgid, AddJob, AddState, AddJid, Unblock, WaitFg, WaitState, Cont,
         ContPid, KillCont, Mode, SetFg, SetBg, TypeRun, TypeBgFg, Exit, Crash, AtMain, sigVars
  <2>2. QED
    BY <2>1 DEF FramesKnown, Frames
<1>2. [Next]_vars => Main \/ Beside \/ TypeRun \/ TypeBgFg
  BY DEF Next, User, Beside
<1>3. QED
  BY <1>1, <1>2, BesideFramesKnown
-----------------------------------------------------------------------------
LEMMA ListedSameSlots ==
  ASSUME \A i \in Slot : jobs'[i].pid = jobs[i].pid
  PROVE  Listed' = Listed
BY DEF Listed

LEMMA MainTracked == Roomy /\ ShellInv /\ Tracked /\ Main => Tracked'
<1> SUFFICES ASSUME Roomy, ShellInv, Tracked, Main PROVE Tracked'
  OBVIOUS
<1> USE DEF jobVars, procVars, sigVars, mainVars, userVars
<1>1. jobs \in [Slot -> Job] /\ proc \in [Pid -> {"none", "forked", "running", "stopped", "zombie"}]
  BY DEF ShellInv, TypeOK
<1>2. sent' = sent
  BY DEF Main, Fork, SetPgid, AddJob, AddState, AddJid, Unblock, WaitFg, WaitState, Cont, ContPid,
         KillCont, Mode, SetFg, SetBg, Exit, Crash
\* Only a fork and addjob have something to say about the new child.
<1>3. ASSUME Listed \subseteq Listed', Children' = Children, pc \notin {"setpgid", "add"}
      PROVE  Tracked'
  BY <1>3, <1>2 DEF Tracked
<1>4. CASE UNCHANGED <<jobs, proc, pc, pid>>
  BY <1>4, <1>2 DEF Tracked, Listed, Children
<1>5. CASE Fork
  <2>1. pc = "fork" /\ jobs' = jobs
    BY <1>5 DEF Fork, Exit, AtMain
  <2>2. CASE pc' = pc
    BY <1>5, <1>4, <2>1, <2>2 DEF Fork, Exit, AtMain
  <2>3. CASE pc' # pc
    <3>1. PICK p \in Pid : proc' = [proc EXCEPT ![p] = "forked"] /\ pid' = p /\ pc' = "setpgid"
      BY <1>5, <2>3 DEF Fork, Exit
    <3>2. Children' \subseteq Children \cup {p}
      BY <1>1, <3>1 DEF Children
    <3>3. QED
      BY <1>2, <2>1, <3>1, <3>2 DEF Tracked, Listed
  <2>4. QED
    BY <2>2, <2>3
<1>6. CASE SetPgid
  <2>1. UNCHANGED <<jobs, proc, pid>> /\ pc = "setpgid" /\ pc' \in {"setpgid", "add"}
    BY <1>6 DEF SetPgid, Exit, AtMain
  <2>2. QED
    BY <1>2, <2>1 DEF Tracked, Listed, Children
<1>7. CASE AddJob
  <2>1. job' # NoSlot /\ proc' = proc
    BY <1>7, RoomForChild DEF AddJob
  <2>2. /\ job' \in Slot /\ jobs[job'].pid = NoPid
        /\ jobs' = [jobs EXCEPT ![job'].pid = pid]
    BY <1>1, <1>7, <2>1, FreeSlotIsFree DEF AddJob, JobArray
  <2>3. pid \in Pid
    BY <1>7 DEF AddJob, AtMain, ShellInv, NewChild, Children
  <2>4. \A i \in Slot : jobs'[i].pid = IF i = job' THEN pid ELSE jobs[i].pid
    BY <1>1, <2>2 DEF Job
  <2>5. Listed \cup {pid} \subseteq Listed'
    BY <2>2, <2>3, <2>4, JobListAssumption DEF Listed
  <2>6. QED
    BY <1>2, <2>1, <2>5 DEF Tracked, Children
<1>8. CASE AddState \/ AddJid
  <2>1. \A i \in Slot : jobs'[i].pid = jobs[i].pid
    BY <1>1, <1>8, StatePid DEF AddState, AddJid, Job
  <2>2. proc' = proc /\ pc \in {"addst", "addjid"}
    BY <1>8 DEF AddState, AddJid, AtMain
  <2>3. QED
    BY <1>3, <2>1, <2>2, ListedSameSlots DEF Children
<1>9. CASE Unblock \/ WaitFg \/ WaitState \/ Cont \/ ContPid \/ Mode
  <2>1. jobs' = jobs /\ proc' = proc /\ pc \notin {"setpgid", "add"}
    BY <1>9 DEF Unblock, WaitFg, WaitState, Cont, ContPid, Mode, Crash, AtMain
  <2>2. QED
    BY <1>3, <2>1 DEF Listed, Children
<1>10. CASE KillCont
  <2>1. jobs' = jobs /\ pc \notin {"setpgid", "add"}
    BY <1>10 DEF KillCont, Exit, AtMain
  <2>2. Children' = Children
    BY <1>1, <1>10 DEF KillCont, Exit, Children
  <2>3. QED
    BY <1>3, <2>1, <2>2 DEF Listed
<1>11. CASE SetFg \/ SetBg
  <2>1. PICK s \in {"FG", "BG"} : jobs' = [jobs EXCEPT ![job].state = s]
    BY <1>11 DEF SetFg, SetBg
  <2>2. proc' = proc /\ pc \notin {"setpgid", "add"}
    BY <1>11 DEF SetFg, SetBg, AtMain
  <2>3. \A i \in Slot : jobs'[i].pid = jobs[i].pid
    BY <1>1, <2>1, StatePid
  <2>4. QED
    BY <1>3, <2>2, <2>3, ListedSameSlots DEF Children
<1>12. QED
  BY <1>5, <1>6, <1>7, <1>8, <1>9, <1>10, <1>11 DEF Main

LEMMA BesideTracked == ShellInv /\ FramesKnown /\ Tracked /\ Beside => Tracked'
<1> SUFFICES ASSUME ShellInv, FramesKnown, Tracked, Beside PROVE Tracked'
  OBVIOUS
<1> USE DEF jobVars, procVars, sigVars, mainVars, userVars
<1>1. UNCHANGED <<pc, pid>> /\ TypeOK /\ jobs \in [Slot -> Job]
  BY BesideSteps DEF ShellInv, TypeOK
<1>2. /\ Children' \subseteq Children
      /\ \A p \in Children' : <<"INT", p>> \in sent => <<"INT", p>> \in sent'
  BY <1>1, BesideChildren
<1>3. ASSUME \A p \in Listed \cap Children' : p \in Listed' \/ <<"INT", p>> \in sent'
      PROVE  Tracked'
  BY <1>1, <1>2, <1>3 DEF Tracked
<1>4. CASE DeleteReaped \/ DeleteFg
  <2>1. stack \in Seq(Frame) /\ stack # <<>>
    BY <1>1, <1>4 DEF DeleteReaped, DeleteFg, AtFrame, TypeOK
  <2>2. Top.pid \in Pid \cup {NoPid} /\ Top \in Frames
    BY <2>1, TopIsFrame, TopFrame
  <2>3. /\ Top.at = "edit" /\ Top.sig \in {"CHLD", "INT"}
        /\ jobs' = Deleted(jobs, Top.pid)
    BY <1>4 DEF DeleteReaped, DeleteFg, Delete, AtFrame
  <2>4. Top.pid \notin Children \/ <<"INT", Top.pid>> \in sent
    BY <2>2, <2>3 DEF FramesKnown, FrameKnown
  <2>5. \A i \in Slot : jobs'[i] = jobs[i] \/ jobs[i].pid = Top.pid
    BY <1>1, <2>2, <2>3, DeletedJobs DEF JobArray
  <2>6. Listed \ {Top.pid} \subseteq Listed'
    BY <2>5 DEF Listed
  <2>7. ASSUME NEW p \in Listed \cap Children' PROVE p \in Listed' \/ <<"INT", p>> \in sent'
    <3>1. p \in Children
      BY <1>2, <2>7
    <3>2. CASE p # Top.pid
      BY <2>6, <2>7, <3>2
    <3>3. CASE p = Top.pid
      BY <1>2, <2>4, <2>7, <3>1, <3>3
    <3>4. QED
      BY <3>2, <3>3
  <2>8. \A p \in Listed \cap Children' : p \in Listed' \/ <<"INT", p>> \in sent'
    BY <2>7, Zenon
  <2>9. QED
    BY <1>3, <2>8, Zenon
<1>5. CASE ~ (DeleteReaped \/ DeleteFg)
  <2>1. \/ jobs' = jobs
        \/ \E k : jobs' = [jobs EXCEPT ![k].state = "ST"]
    BY <1>5 DEF Beside, Handler, WaitPid, FindFg, KillFg, StopFg, MarkStopped, Crash, Exit,
         Deliver, TypeKey, Child, Exec, Die, Stop, Quit, Ended, vars
  <2>2. \A i \in Slot : jobs'[i].pid = jobs[i].pid
    BY <1>1, <2>1, StatePid
  <2>3. QED
    BY <1>3, <2>2, ListedSameSlots
<1>6. QED
  BY <1>4, <1>5

LEMMA NextTracked ==
  Roomy /\ ShellInv /\ FramesKnown /\ Tracked /\ [Next]_vars => Tracked'
<1>1. ASSUME Tracked, TypeRun \/ TypeBgFg PROVE Tracked'
  <2>1. pc = "prompt" /\ jobs' = jobs /\ proc' = proc /\ sent' = sent
    BY <1>1 DEF TypeRun, TypeBgFg, AtMain, jobVars, procVars, sigVars
  <2>2. QED
    BY <1>1, <2>1 DEF Tracked, Listed, Children
<1>2. [Next]_vars => Main \/ Beside \/ TypeRun \/ TypeBgFg
  BY DEF Next, User, Beside
<1>3. QED
  BY <1>1, <1>2, MainTracked, BesideTracked

\* With a slot for every process, no child of the shell is forgotten: from addjob
\* to its reaping it is in the list, or ctrl-c was sent to it.
THEOREM EveryChildIsTracked ==
  ASSUME IsFiniteSet(Pid), Cardinality(Pid) <= MAXJOBS
  PROVE  Spec => []Tracked
<1>1. Init => FramesKnown /\ Tracked
  BY DEF Init, FramesKnown, Frames, Tracked, Children
<1>2. ShellInv /\ FramesKnown /\ Tracked /\ [Next]_vars => FramesKnown' /\ Tracked'
  BY NextFramesKnown, NextTracked DEF Roomy
<1>3. QED
  BY <1>1, <1>2, ShellInvariant, PTL DEF Spec
-----------------------------------------------------------------------------
(***************************************************************************)
(* Job ids.                                                                *)
(***************************************************************************)

\* nextjid is above every job id in use, and at most one above the number of
\* commands typed; while eval is under way the command has been counted.
InAddjob == pc \in {"fork", "setpgid", "add", "addst", "addjid"}
JidInv ==
    /\ JidsDistinct /\ nextjid >= 1
    /\ InAddjob /\ cmds <= MAXJOBS => nextjid <= cmds
    /\ ~ InAddjob /\ cmds < MAXJOBS => nextjid <= cmds + 1
    /\ (IF InAddjob THEN cmds <= MAXJOBS ELSE cmds < MAXJOBS) =>
         \A i \in Slot : jobs[i].jid < nextjid

LEMMA DeleteJids ==
  ASSUME TypeOK, NEW p \in Pid \cup {NoPid}, Delete(p)
  PROVE  /\ \A i \in Slot : jobs'[i].jid = jobs[i].jid \/ jobs'[i].jid = 0
         /\ nextjid' \in Nat
         /\ \/ nextjid' = nextjid /\ jobs' = jobs
            \/ /\ nextjid' >= 1 /\ \A i \in Slot : jobs'[i].jid < nextjid'
               /\ \E i \in Slot : nextjid' = jobs'[i].jid + 1
<1>1. jobs \in JobArray /\ nextjid \in Nat
  BY DEF TypeOK, JobArray
<1>2. \A i \in Slot : jobs'[i] = jobs[i] \/ jobs'[i] = NoJob
  BY <1>1, DeletedJobs DEF Delete
<1>3. jobs' \in JobArray
  BY <1>1, DeletedJobs DEF Delete
<1>4. CASE getjobpid(jobs, p) = NoSlot
  BY <1>1, <1>4 DEF Delete, Deleted, NextJidAfterDelete
<1>5. CASE getjobpid(jobs, p) # NoSlot
  <2>1. nextjid' = maxjid(jobs') + 1
    BY <1>5 DEF Delete, NextJidAfterDelete
  <2>2. /\ maxjid(jobs') \in Nat /\ \A i \in Slot : jobs'[i].jid <= maxjid(jobs')
        /\ \E i \in Slot : maxjid(jobs') = jobs'[i].jid
    BY <1>3, MaxJid
  <2>3. \A i \in Slot : jobs'[i].jid \in Nat
    BY <1>3 DEF JobArray, Job
  <2>4. \A i \in Slot : jobs'[i].jid < nextjid'
    BY <2>1, <2>2, <2>3
  <2>5. QED
    BY <1>2, <2>1, <2>2, <2>4 DEF NoJob
<1>6. QED
  BY <1>4, <1>5

LEMMA BesideJids == ShellInv /\ JidInv /\ Beside => JidInv'
<1> SUFFICES ASSUME ShellInv, JidInv, Beside PROVE JidInv'
  OBVIOUS
<1> USE DEF jobVars, procVars, sigVars, mainVars, userVars
<1>1. UNCHANGED <<pc, cmds>> /\ TypeOK
  BY BesideSteps DEF ShellInv
<1>2. /\ nextjid \in Nat /\ cmds \in Nat /\ MAXJOBS \in Nat
      /\ \A i \in Slot : jobs[i].jid \in Nat
  BY <1>1, JobListAssumption DEF TypeOK, Job
<1>3. ASSUME nextjid' = nextjid, \A i \in Slot : jobs'[i].jid = jobs[i].jid PROVE JidInv'
  BY <1>1, <1>3 DEF JidInv, JidsDistinct, InAddjob
<1>4. CASE DeleteReaped \/ DeleteFg
  <2>1. stack \in Seq(Frame) /\ stack # <<>>
    BY <1>1, <1>4 DEF DeleteReaped, DeleteFg, AtFrame, TypeOK
  <2>2. Top.pid \in Pid \cup {NoPid} /\ Delete(Top.pid)
    BY <1>4, <2>1, TopFrame DEF DeleteReaped, DeleteFg
  <2>3. /\ \A i \in Slot : jobs'[i].jid = jobs[i].jid \/ jobs'[i].jid = 0
        /\ nextjid' \in Nat
        /\ \/ nextjid' = nextjid /\ jobs' = jobs
           \/ /\ nextjid' >= 1 /\ \A i \in Slot : jobs'[i].jid < nextjid'
              /\ \E i \in Slot : nextjid' = jobs'[i].jid + 1
    BY <1>1, <2>2, DeleteJids
  <2>4. JidsDistinct'
    BY <1>1, <2>3 DEF JidInv, JidsDistinct
  <2>5. CASE nextjid' = nextjid /\ jobs' = jobs
    BY <1>3, <2>5
  <2>6. CASE /\ nextjid' >= 1 /\ \A i \in Slot : jobs'[i].jid < nextjid'
             /\ \E i \in Slot : nextjid' = jobs'[i].jid + 1
    <3>1. (\A i \in Slot : jobs[i].jid < nextjid) => nextjid' <= nextjid
      BY <1>2, <2>3, <2>6 DEF JidInv
    <3>2. InAddjob' = InAddjob /\ cmds' = cmds
      BY <1>1 DEF InAddjob
    <3>3. (IF InAddjob THEN cmds <= MAXJOBS ELSE cmds < MAXJOBS) => nextjid' <= nextjid
      BY <3>1 DEF JidInv
    <3>4. /\ InAddjob /\ cmds <= MAXJOBS => nextjid' <= cmds
          /\ ~ InAddjob /\ cmds < MAXJOBS => nextjid' <= cmds + 1
      BY <1>2, <2>3, <3>3 DEF JidInv
    <3>5. QED
      BY <2>4, <2>6, <3>2, <3>4 DEF JidInv
  <2>7. QED
    BY <2>3, <2>5, <2>6
<1>5. CASE ~ (DeleteReaped \/ DeleteFg)
  <2>1. nextjid' = nextjid
    BY <1>5 DEF Beside, Handler, WaitPid, FindFg, KillFg, StopFg, MarkStopped, Crash, Exit,
         Deliver, TypeKey, Child, Exec, Die, Stop, Quit, Ended, vars
  <2>2. \/ jobs' = jobs
        \/ \E k : jobs' = [jobs EXCEPT ![k].state = "ST"]
    BY <1>5 DEF Beside, Handler, WaitPid, FindFg, KillFg, StopFg, MarkStopped, Crash, Exit,
         Deliver, TypeKey, Child, Exec, Die, Stop, Quit, Ended, vars
  <2>3. \A i \in Slot : jobs'[i].jid = jobs[i].jid
    <3>1. jobs \in [Slot -> Job]
      BY <1>1 DEF TypeOK
    <3>2. ASSUME NEW k, jobs' = [jobs EXCEPT ![k].state = "ST"]
          PROVE  \A i \in Slot : jobs'[i].jid = jobs[i].jid
      BY <3>1, <3>2 DEF Job
    <3>3. QED
      BY <2>2, <3>2
  <2>4. QED
    BY <1>3, <2>1, <2>3
<1>6. QED
  BY <1>4, <1>5

LEMMA MainJids == ShellInv /\ JidInv /\ (Main \/ TypeRun \/ TypeBgFg) => JidInv'
<1> SUFFICES ASSUME ShellInv, JidInv, Main \/ TypeRun \/ TypeBgFg PROVE JidInv'
  OBVIOUS
<1> USE DEF jobVars, procVars, sigVars, mainVars, userVars
<1>1. /\ jobs \in [Slot -> Job] /\ nextjid \in Nat /\ cmds \in Nat /\ MAXJOBS \in Nat
      /\ \A i \in Slot : jobs[i].jid \in Nat
  BY JobListAssumption DEF ShellInv, TypeOK, Job
<1>2. CASE AddJid
  <2>1. /\ pc = "addjid" /\ pc' = "unblock" /\ cmds' = cmds /\ job \in Slot
        /\ jobs' = [jobs EXCEPT ![job].jid = nextjid]
        /\ nextjid' = NextJidAfterAdd(nextjid)
    BY <1>2 DEF AddJid, AtMain, ShellInv, TypeOK
  <2>2. \A i \in Slot : jobs'[i].jid = IF i = job THEN nextjid ELSE jobs[i].jid
    BY <1>1, <2>1 DEF Job
  <2>3. nextjid' >= 1
    BY <1>1, <2>1 DEF NextJidAfterAdd
  <2>4. CASE cmds <= MAXJOBS
    <3>1. nextjid <= cmds /\ \A i \in Slot : jobs[i].jid < nextjid
      BY <2>1, <2>4 DEF JidInv, InAddjob
    <3>2. JidsDistinct'
      <4>1. SUFFICES ASSUME NEW i \in Slot, NEW j \in Slot,
                            jobs'[i].jid = jobs'[j].jid, jobs'[i].jid # 0
                     PROVE  i = j
        BY DEF JidsDistinct
      <4>2. \A k \in Slot : jobs[k].jid # nextjid
        BY <1>1, <3>1
      <4>3. QED
        BY <2>2, <2>4, <4>1, <4>2 DEF JidInv, JidsDistinct
    <3>3. cmds < MAXJOBS => nextjid' = nextjid + 1
      BY <1>1, <2>1, <3>1 DEF NextJidAfterAdd
    <3>4. cmds < MAXJOBS => nextjid' <= cmds + 1 /\ \A i \in Slot : jobs'[i].jid < nextjid'
      BY <1>1, <2>2, <3>1, <3>3
    <3>5. QED
      BY <2>1, <2>3, <3>2, <3>4 DEF JidInv, InAddjob
  <2>5. CASE ~ (cmds <= MAXJOBS)
    <3>1. ~ (cmds' <= MAXJOBS) /\ ~ (cmds' < MAXJOBS)
      BY <1>1, <2>1, <2>5
    <3>2. QED
      BY <2>1, <2>3, <3>1 DEF JidInv, InAddjob, JidsDistinct
  <2>6. QED
    BY <2>4, <2>5
\* The other steps change no job id; InAddjob starts with a command counted.
<1>3. ASSUME ~ AddJid PROVE nextjid' = nextjid /\ \A i \in Slot : jobs'[i].jid = jobs[i].jid
  <2>1. nextjid' = nextjid
    BY <1>3 DEF Main, Fork, SetPgid, AddJob, AddState, Unblock, WaitFg, WaitState, Cont, ContPid,
         KillCont, Mode, SetFg, SetBg, TypeRun, TypeBgFg, Exit, Crash
  <2>2. CASE AddJob
    BY <1>1, <2>2 DEF AddJob, Job
  <2>3. CASE AddState \/ SetFg \/ SetBg
    <3>1. \E k, x : jobs' = [jobs EXCEPT ![k].state = x]
      BY <2>3 DEF AddState, SetFg, SetBg
    <3>2. ASSUME NEW k, NEW x, jobs' = [jobs EXCEPT ![k].state = x]
          PROVE  \A i \in Slot : jobs'[i].jid = jobs[i].jid
      BY <1>1, <3>2 DEF Job
    <3>3. QED
      BY <2>1, <3>1, <3>2
  <2>4. CASE ~ (AddJob \/ AddState \/ SetFg \/ SetBg)
    <3>1. jobs' = jobs
      BY <1>3, <2>4 DEF Main, Fork, SetPgid, Unblock, WaitFg, WaitState, Cont, ContPid,
           KillCont, Mode, TypeRun, TypeBgFg, Exit, Crash
    <3>2. QED
      BY <2>1, <3>1
  <2>5. QED
    BY <2>2, <2>3, <2>4, <2>1, Zenon
<1>4. CASE (TypeRun \/ TypeBgFg) /\ ~ AddJid
  <2>1. cmds' = cmds + 1 /\ ~ InAddjob
    BY <1>4 DEF TypeRun, TypeBgFg, AtMain, InAddjob
  <2>2. /\ cmds' <= MAXJOBS => cmds < MAXJOBS /\ cmds <= MAXJOBS
        /\ cmds' < MAXJOBS => cmds' <= MAXJOBS
    BY <1>1, <2>1
  <2>3. JidsDistinct'
    BY <1>3, <1>4, <2>2 DEF JidInv, JidsDistinct
  <2>4. cmds' <= MAXJOBS =>
          nextjid' <= cmds' /\ nextjid' <= cmds' + 1 /\ \A i \in Slot : jobs'[i].jid < nextjid'
    BY <1>1, <1>3, <1>4, <2>1, <2>2 DEF JidInv
  <2>5. QED
    BY <1>3, <1>4, <2>2, <2>3, <2>4 DEF JidInv
<1>5. CASE Main /\ ~ AddJid
  <2>1. cmds' = cmds
    BY <1>5 DEF Main, Fork, SetPgid, AddJob, AddState, Unblock, WaitFg, WaitState, Cont, ContPid,
         KillCont, Mode, SetFg, SetBg, Exit, Crash
  <2>2. InAddjob' => InAddjob
    BY <1>5 DEF Main, Fork, SetPgid, AddJob, AddState, Unblock, WaitFg, WaitState, Cont, ContPid,
         KillCont, Mode, SetFg, SetBg, Exit, Crash, AtMain, InAddjob
  <2>3. JidsDistinct'
    BY <1>3, <1>5, <2>1 DEF JidInv, JidsDistinct
  <2>4. cmds < MAXJOBS => cmds <= MAXJOBS
    BY <1>1
  <2>5. /\ InAddjob' /\ cmds <= MAXJOBS => nextjid <= cmds
        /\ ~ InAddjob' /\ cmds < MAXJOBS => nextjid <= cmds + 1
    BY <1>1, <2>2, <2>4 DEF JidInv
  <2>6. (IF InAddjob' THEN cmds <= MAXJOBS ELSE cmds < MAXJOBS) =>
          \A i \in Slot : jobs[i].jid < nextjid
    BY <2>2, <2>4 DEF JidInv
  <2>7. QED
    BY <1>3, <1>5, <2>1, <2>3, <2>5, <2>6 DEF JidInv
<1>6. QED
  BY <1>2, <1>4, <1>5

\* As long as no more than MAXJOBS commands have been typed, no two jobs have
\* the same job id, although deletejob sets nextjid back.
THEOREM JobIdsAreDistinct == Spec => []JidsDistinct
<1>1. Init => JidInv
  BY JobListAssumption DEF Init, JidInv, JidsDistinct, InAddjob, initjobs, NoJob
<1>2. ShellInv /\ JidInv /\ [Next]_vars => JidInv'
  <2>1. [Next]_vars => Main \/ Beside \/ TypeRun \/ TypeBgFg
    BY DEF Next, User, Beside
  <2>2. QED
    BY <2>1, BesideJids, MainJids
<1>3. JidInv => JidsDistinct
  BY DEF JidInv
<1>4. QED
  BY <1>1, <1>2, <1>3, ShellInvariant, PTL DEF Spec
=============================================================================

------------------------------ MODULE JobList ------------------------------
(***************************************************************************)
(* The job list of the tiny shell (shell_lab/tsh.c, "Helper routines that  *)
(* manipulate the job list"): a fixed array of slots, searched from the    *)
(* first one.  A slot is free when its pid is 0, whatever its other fields *)
(* say.                                                                    *)
(***************************************************************************)
EXTENDS Integers, FiniteSets, FiniteSetsExt

CONSTANTS Pid,      \* process ids of children
          NoPid,    \* the pid 0
          MAXJOBS   \* slots of the array

ASSUME JobListAssumption == MAXJOBS \in Nat \ {0} /\ NoPid \notin Pid

Slot == 1 .. MAXJOBS
NoSlot == 0
JobState == {"UNDEF", "FG", "BG", "ST"}
Job == [pid : Pid \cup {NoPid}, jid : Nat, state : JobState]

NoJob == [pid |-> NoPid, jid |-> 0, state |-> "UNDEF"]

initjobs == [i \in Slot |-> NoJob]

First(S) == IF S = {} THEN NoSlot ELSE Min(S)

FreeSlot(jobs) == First({i \in Slot : jobs[i].pid = NoPid})

\* The slot of a process, or NoSlot; pid 0 is never found.
getjobpid(jobs, p) ==
    IF p = NoPid THEN NoSlot ELSE First({i \in Slot : jobs[i].pid = p})

getjobjid(jobs, j) ==
    IF j < 1 THEN NoSlot ELSE First({i \in Slot : jobs[i].jid = j})

\* Seeded bug: any job counts as the foreground one.
fgpidAny(jobs) ==
    LET fg == First({i \in Slot : jobs[i].state # "UNDEF"})
    IN  IF fg = NoSlot THEN NoPid ELSE jobs[fg].pid

\* The pid in the first slot in state FG, even when that slot is free.
fgpid(jobs) ==
    LET fg == First({i \in Slot : jobs[i].state = "FG"})
    IN  IF fg = NoSlot THEN NoPid ELSE jobs[fg].pid

maxjid(jobs) == Max({jobs[i].jid : i \in Slot})

\* deletejob: the list and nextjid after it.
Deleted(jobs, p) ==
    IF getjobpid(jobs, p) = NoSlot THEN jobs
    ELSE [jobs EXCEPT ![getjobpid(jobs, p)] = NoJob]

\* Seeded bug: nextjid counts the jobs that are left.
NextJidCounts(jobs, nextjid, p) ==
    Cardinality({i \in Slot : Deleted(jobs, p)[i].pid # NoPid}) + 1

NextJidAfterDelete(jobs, nextjid, p) ==
    IF getjobpid(jobs, p) = NoSlot THEN nextjid
    ELSE maxjid(Deleted(jobs, p)) + 1

\* nextjid++, back to 1 after MAXJOBS.
NextJidAfterAdd(nextjid) == IF nextjid + 1 > MAXJOBS THEN 1 ELSE nextjid + 1
=============================================================================

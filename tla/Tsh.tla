-------------------------------- MODULE Tsh --------------------------------
(***************************************************************************)
(* The tiny shell (shell_lab/tsh.c): its main program, its handlers of     *)
(* SIGCHLD, SIGINT and SIGTSTP, the job list they share, and the kernel's  *)
(* view of the children.                                                   *)
(*                                                                         *)
(* Signals are delivered between any two steps of the main program or of   *)
(* another handler: Signal installs handlers with an empty mask, so only   *)
(* the signal being handled is blocked, and eval blocks SIGCHLD alone.     *)
(* The frame on top of the stack runs.  Each access to the job list that a *)
(* handler can separate from the next one is a step; one call of deletejob *)
(* is a step.  A NULL job pointer followed ends in shell = "fault".        *)
(***************************************************************************)
EXTENDS JobList, Sequences, FiniteSets

CONSTANTS Commands, \* commands typed: subset of {"run", "run&", "fg", "bg"}
          Keys,     \* signals the user may send: subset of {"INT", "TSTP"}
          MaxCmds,  \* bound: commands typed
          MaxKeys,  \* bound: signals typed
          MaxStops  \* bound: times a child is stopped by someone else

ASSUME TshAssumption == /\ Commands \subseteq {"run", "run&", "fg", "bg"}
                        /\ Keys \subseteq {"INT", "TSTP"}
                        /\ MaxCmds \in Nat /\ MaxKeys \in Nat /\ MaxStops \in Nat

VARIABLES jobs, nextjid,     \* the job list
          proc,              \* state of each process id
          execed, reported,  \* children past execve; stops waitpid has told
          pending, masked,   \* pending signals; SIGCHLD blocked by eval
          stack,             \* active handlers, the running one last
          pc, cmd, pid, job, \* main program: label and locals
          cmds, keys, stops, \* counts for the bounds
          sent,              \* history: <<signal, child>> that a key handler sent
          shell              \* "running", "exited" or "fault"

jobVars  == <<jobs, nextjid>>
procVars == <<proc, execed, reported, stops>>
sigVars  == <<pending, masked, stack, sent>>
mainVars == <<pc, cmd, pid, job>>
userVars == <<cmds, keys>>
vars == <<jobVars, procVars, sigVars, mainVars, userVars, shell>>

Signals == {"CHLD", "INT", "TSTP"}
Frame == [sig : Signals, at : {"find", "wait", "kill", "edit", "mark"},
          pid : Pid \cup {NoPid},     \* what fgpid or waitpid returned
          slot : Slot \cup {NoSlot}]  \* what getjobpid returned
Labels == {"prompt",
           "fork", "setpgid", "add", "addst", "addjid", "unblock", \* eval
           "waitfg", "waitst",                                     \* waitfg
           "cont", "contpid", "kill", "mode", "setfg", "setbg"}    \* do_bgfg

TypeOK == /\ jobs \in [Slot -> Job] /\ nextjid \in Nat
          /\ proc \in [Pid -> {"none", "forked", "running", "stopped", "zombie"}]
          /\ execed \subseteq Pid /\ reported \subseteq Pid
          /\ pending \subseteq Signals /\ masked \in BOOLEAN
          /\ stack \in Seq(Frame)
          /\ pc \in Labels /\ cmd \in {"none", "run", "run&", "fg", "bg"}
          /\ pid \in Pid \cup {NoPid} /\ job \in Slot \cup {NoSlot}
          /\ pc \in {"addst", "addjid", "cont", "contpid", "kill", "mode", "setfg", "setbg"}
                => job \in Slot
          /\ sent \subseteq {"INT", "TSTP"} \X Pid
          /\ cmds \in Nat /\ keys \in Nat /\ stops \in Nat
          /\ shell \in {"running", "exited", "fault"}

Init == /\ jobs = initjobs /\ nextjid = 1
        /\ proc = [p \in Pid |-> "none"]
        /\ execed = {} /\ reported = {} /\ stops = 0
        /\ pending = {} /\ masked = FALSE /\ stack = <<>> /\ sent = {}
        /\ pc = "prompt" /\ cmd = "none" /\ pid = NoPid /\ job = NoSlot
        /\ cmds = 0 /\ keys = 0
        /\ shell = "running"

Children == {p \in Pid : proc[p] # "none"}

\* unix_error, quit and end of file end the shell.
Exit  == shell' = "exited" /\ UNCHANGED <<jobVars, procVars, sigVars, mainVars, userVars>>
Crash == shell' = "fault"  /\ UNCHANGED <<jobVars, procVars, sigVars, mainVars, userVars>>

AtMain(label) == shell = "running" /\ stack = <<>> /\ pc = label
-----------------------------------------------------------------------------
(* eval: run a program in the foreground or in the background              *)

\* Seeded bug: SIGCHLD is not blocked.
TypeRunUnmasked ==
    /\ AtMain("prompt") /\ cmds < MaxCmds
    /\ cmds' = cmds + 1
    /\ \E c \in Commands \cap {"run", "run&"} : cmd' = c
    /\ pc' = "fork"
    /\ UNCHANGED <<jobVars, procVars, sigVars, pid, job, keys, shell>>

\* The line is parsed and SIGCHLD blocked.
TypeRun ==
    /\ AtMain("prompt") /\ cmds < MaxCmds
    /\ cmds' = cmds + 1
    /\ \E c \in Commands \cap {"run", "run&"} : cmd' = c
    /\ masked' = TRUE
    /\ pc' = "fork"
    /\ UNCHANGED <<jobVars, procVars, pending, stack, sent, pid, job, keys, shell>>

Fork ==
    /\ AtMain("fork")
    /\ \/ /\ \E p \in Pid \ Children : /\ proc' = [proc EXCEPT ![p] = "forked"]
                                       /\ pid' = p
          /\ pc' = "setpgid"
          /\ UNCHANGED <<jobVars, execed, reported, stops, sigVars, cmd, job,
                         userVars, shell>>
       \/ Children = Pid /\ Exit

\* setpgid fails with EACCES once the child has called execve.
SetPgid ==
    /\ AtMain("setpgid")
    /\ \/ /\ pid \notin execed
          /\ pc' = "add"
          /\ UNCHANGED <<jobVars, procVars, sigVars, cmd, pid, job, userVars, shell>>
       \/ pid \in execed /\ Exit

\* Seeded bug: every job starts in the background.
NewStateBg(c) == "BG"

NewState(c) == IF c = "run" THEN "FG" ELSE "BG"

\* addjob up to the pid; a full list is reported and the job is not added.
AddJob ==
    /\ AtMain("add")
    /\ job' = FreeSlot(jobs)
    /\ IF job' = NoSlot
       THEN pc' = "unblock" /\ UNCHANGED jobs
       ELSE /\ jobs' = [jobs EXCEPT ![job'].pid = pid]
            /\ pc' = "addst"
    /\ UNCHANGED <<nextjid, procVars, sigVars, cmd, pid, userVars, shell>>

\* The state; until then the slot shows the one that was left in it.
AddState ==
    /\ AtMain("addst")
    /\ jobs' = [jobs EXCEPT ![job].state = NewState(cmd)]
    /\ pc' = "addjid"
    /\ UNCHANGED <<nextjid, procVars, sigVars, cmd, pid, job, userVars, shell>>

\* The rest of addjob: the job id.
AddJid ==
    /\ AtMain("addjid")
    /\ jobs' = [jobs EXCEPT ![job].jid = nextjid]
    /\ nextjid' = NextJidAfterAdd(nextjid)
    /\ pc' = "unblock"
    /\ UNCHANGED <<procVars, sigVars, cmd, pid, job, userVars, shell>>

\* Seeded bug: eval does not wait for the foreground job.
UnblockNoWait ==
    /\ AtMain("unblock")
    /\ masked' = FALSE
    /\ pc' = "prompt"
    /\ UNCHANGED <<jobVars, procVars, pending, stack, sent, cmd, pid, job, userVars, shell>>

\* Seeded bug: SIGCHLD stays blocked.
UnblockNothing ==
    /\ AtMain("unblock")
    /\ pc' = IF cmd = "run" THEN "waitfg" ELSE "prompt"
    /\ UNCHANGED <<jobVars, procVars, sigVars, cmd, pid, job, userVars, shell>>

Unblock ==
    /\ AtMain("unblock")
    /\ masked' = FALSE
    /\ pc' = IF cmd = "run" THEN "waitfg" ELSE "prompt"
    /\ UNCHANGED <<jobVars, procVars, pending, stack, sent, cmd, pid, job, userVars, shell>>

\* The loop of waitfg looks the job up twice; the second result is not checked.
WaitFg ==
    /\ AtMain("waitfg")
    /\ pc' = IF getjobpid(jobs, pid) = NoSlot THEN "prompt" ELSE "waitst"
    /\ UNCHANGED <<jobVars, procVars, sigVars, cmd, pid, job, userVars, shell>>

WaitState ==
    /\ AtMain("waitst")
    /\ LET i == getjobpid(jobs, pid) IN
         \/ /\ i # NoSlot
            /\ pc' = IF jobs[i].state = "ST" THEN "prompt" ELSE "waitfg"
            /\ UNCHANGED <<jobVars, procVars, sigVars, cmd, pid, job, userVars, shell>>
         \/ i = NoSlot /\ Crash
-----------------------------------------------------------------------------
(* do_bgfg: fg and bg with a pid or a job id                               *)

\* The lookup; an argument that names no job leads back to the prompt.
TypeBgFg ==
    /\ AtMain("prompt") /\ cmds < MaxCmds
    /\ cmds' = cmds + 1
    /\ \E c \in Commands \cap {"fg", "bg"} : cmd' = c
    /\ job' \in ({getjobpid(jobs, p) : p \in Pid}
                 \cup {getjobjid(jobs, jobs[i].jid) : i \in Slot}) \ {NoSlot}
    /\ pc' = "cont"
    /\ UNCHANGED <<jobVars, procVars, sigVars, pid, keys, shell>>

Cont ==
    /\ AtMain("cont")
    /\ pc' = IF jobs[job].state = "ST" THEN "contpid" ELSE "mode"
    /\ UNCHANGED <<jobVars, procVars, sigVars, cmd, pid, job, userVars, shell>>

\* The argument of kill is read, from a slot that may have been cleared by now.
ContPid ==
    /\ AtMain("contpid")
    /\ pid' = jobs[job].pid
    /\ pc' = "kill"
    /\ UNCHANGED <<jobVars, procVars, sigVars, cmd, job, userVars, shell>>

\* SIGCONT to the group of the job; pid 0 is the shell's own group.  kill fails
\* when the process has been reaped meanwhile.
KillCont ==
    /\ AtMain("kill")
    /\ \/ /\ pid \in Children /\ proc[pid] = "stopped"
          /\ proc' = [proc EXCEPT ![pid] = "running"]
          /\ reported' = reported \ {pid}
          /\ pending' = pending \cup {"CHLD"}
          /\ pc' = "mode"
          /\ UNCHANGED <<jobVars, execed, stops, masked, stack, sent, cmd, pid, job,
                         userVars, shell>>
       \/ /\ pid = NoPid \/ (pid \in Children /\ proc[pid] # "stopped")
          /\ pc' = "mode"
          /\ UNCHANGED <<jobVars, procVars, sigVars, cmd, pid, job, userVars, shell>>
       \/ pid \notin Children \cup {NoPid} /\ Exit

Mode ==
    /\ AtMain("mode")
    /\ pc' = CASE cmd = "fg" /\ jobs[job].state \in {"ST", "BG"} -> "setfg"
               [] cmd = "bg" /\ jobs[job].state = "ST" -> "setbg"
               [] OTHER -> "prompt"
    /\ UNCHANGED <<jobVars, procVars, sigVars, cmd, pid, job, userVars, shell>>

\* The job pointer is written through, whatever the slot holds by now.
SetFg ==
    /\ AtMain("setfg")
    /\ jobs' = [jobs EXCEPT ![job].state = "FG"]
    /\ pid' = jobs[job].pid
    /\ pc' = "waitfg"
    /\ UNCHANGED <<nextjid, procVars, sigVars, cmd, job, userVars, shell>>

SetBg ==
    /\ AtMain("setbg")
    /\ jobs' = [jobs EXCEPT ![job].state = "BG"]
    /\ pc' = "prompt"
    /\ UNCHANGED <<nextjid, procVars, sigVars, cmd, pid, job, userVars, shell>>

Quit == AtMain("prompt") /\ Exit
-----------------------------------------------------------------------------
(* signals                                                                 *)

Handled == {stack[i].sig : i \in DOMAIN stack}
Blocked == Handled \cup (IF masked THEN {"CHLD"} ELSE {})

Deliver ==
    /\ shell = "running"
    /\ \E s \in pending \ Blocked :
          /\ pending' = pending \ {s}
          /\ stack' = Append(stack, [sig |-> s,
                                     at  |-> IF s = "CHLD" THEN "wait" ELSE "find",
                                     pid |-> NoPid, slot |-> NoSlot])
    /\ UNCHANGED <<jobVars, procVars, masked, sent, mainVars, userVars, shell>>

\* The handler that runs, and where it goes next.
Top == stack[Len(stack)]
Pop == stack' = SubSeq(stack, 1, Len(stack) - 1)
GotoFrame(label, p, i) ==
    stack' = [stack EXCEPT ![Len(stack)] =
                [sig |-> Top.sig, at |-> label, pid |-> p, slot |-> i]]
AtFrame(sigs, label) ==
    shell = "running" /\ stack # <<>> /\ Top.sig \in sigs /\ Top.at = label

Zombies == {p \in Pid : proc[p] = "zombie"}
Unreported == {p \in Pid : proc[p] = "stopped"} \ reported

\* A zombie is reaped, to be deleted from the list.
Reap(p) == /\ proc' = [proc EXCEPT ![p] = "none"]
           /\ execed' = execed \ {p}
           /\ GotoFrame("edit", p, NoSlot)
           /\ sent' = sent \ (Signals \X {p})
           /\ UNCHANGED reported

\* Seeded bug: a stopped child is deleted from the list.
TellDeletes(p) == /\ reported' = reported \cup {p}
                  /\ GotoFrame("edit", p, NoSlot)
                  /\ UNCHANGED <<proc, execed, sent>>

\* A stop is reported once, and ignored.
Tell(p) == reported' = reported \cup {p} /\ UNCHANGED <<proc, execed, stack, sent>>

\* waitpid(-1, WNOHANG | WUNTRACED), until it reports no child.
WaitPid ==
    /\ AtFrame({"CHLD"}, "wait")
    /\ \/ \E p \in Zombies : Reap(p)
       \/ \E p \in Unreported : Tell(p)
       \/ /\ Zombies \cup Unreported = {}
          /\ Pop
          /\ UNCHANGED <<proc, execed, reported, sent>>
    /\ UNCHANGED <<jobVars, stops, pending, masked, mainVars, userVars, shell>>

Delete(p) == /\ jobs' = Deleted(jobs, p)
             /\ nextjid' = NextJidAfterDelete(jobs, nextjid, p)

\* Seeded bug: one child is reaped, not all of them.
DeleteReapedOnce ==
    /\ AtFrame({"CHLD"}, "edit")
    /\ Delete(Top.pid)
    /\ Pop
    /\ UNCHANGED <<procVars, pending, masked, sent, mainVars, userVars, shell>>

DeleteReaped ==
    /\ AtFrame({"CHLD"}, "edit")
    /\ Delete(Top.pid)
    /\ GotoFrame("wait", NoPid, NoSlot)
    /\ UNCHANGED <<procVars, pending, masked, sent, mainVars, userVars, shell>>

\* sigint_handler and sigtstp_handler: the foreground process.
FindFg ==
    /\ AtFrame({"INT", "TSTP"}, "find")
    /\ IF fgpid(jobs) = NoPid THEN Pop ELSE GotoFrame("kill", fgpid(jobs), NoSlot)
    /\ UNCHANGED <<jobVars, procVars, pending, masked, sent, mainVars, userVars, shell>>

\* kill fails when the process has been reaped meanwhile.  A running process
\* obeys the signal or handles it; any other one stays as it is.
KillFg ==
    /\ AtFrame({"INT", "TSTP"}, "kill")
    /\ LET p == Top.pid IN
         \/ /\ p \in Children
            /\ \/ /\ proc[p] = "running"
                  /\ proc' = [proc EXCEPT ![p] = IF Top.sig = "INT" THEN "zombie" ELSE "stopped"]
                  /\ pending' = pending \cup {"CHLD"}
               \/ UNCHANGED <<proc, pending>>
            /\ GotoFrame("edit", p, NoSlot)
            /\ sent' = sent \cup {<<Top.sig, p>>}
            /\ UNCHANGED <<jobVars, execed, reported, stops, masked, mainVars,
                           userVars, shell>>
         \/ p \notin Children /\ Exit

\* "terminated by signal": the job leaves the list before it is reaped.
DeleteFg ==
    /\ AtFrame({"INT"}, "edit")
    /\ Delete(Top.pid)
    /\ Pop
    /\ UNCHANGED <<procVars, pending, masked, sent, mainVars, userVars, shell>>

\* "stopped by signal": the job is looked up.
StopFg ==
    /\ AtFrame({"TSTP"}, "edit")
    /\ GotoFrame("mark", Top.pid, getjobpid(jobs, Top.pid))
    /\ UNCHANGED <<jobVars, procVars, pending, masked, sent, mainVars, userVars, shell>>

\* Seeded bug: the job is not marked as stopped.
MarkNothing ==
    /\ AtFrame({"TSTP"}, "mark")
    /\ Pop
    /\ UNCHANGED <<jobVars, procVars, pending, masked, sent, mainVars, userVars, shell>>

\* The result is not checked, and written through whatever the slot holds by now.
MarkStopped ==
    /\ AtFrame({"TSTP"}, "mark")
    /\ \/ /\ Top.slot # NoSlot
          /\ jobs' = [jobs EXCEPT ![Top.slot].state = "ST"]
          /\ Pop
          /\ UNCHANGED <<nextjid, procVars, pending, masked, sent, mainVars, userVars, shell>>
       \/ Top.slot = NoSlot /\ Crash
-----------------------------------------------------------------------------
(* the user and the children                                               *)

TypeKey ==
    /\ shell = "running" /\ keys < MaxKeys
    /\ \E s \in Keys : pending' = pending \cup {s}
    /\ keys' = keys + 1
    /\ UNCHANGED <<jobVars, procVars, masked, stack, sent, mainVars, cmds, shell>>

Exec(p) ==
    /\ shell = "running" /\ proc[p] = "forked"
    /\ proc' = [proc EXCEPT ![p] = "running"]
    /\ execed' = execed \cup {p}
    /\ UNCHANGED <<jobVars, reported, stops, sigVars, mainVars, userVars, shell>>

\* A child that cannot execve, exits or is killed becomes a zombie.
Die(p) ==
    /\ shell = "running" /\ proc[p] \in {"forked", "running", "stopped"}
    /\ proc' = [proc EXCEPT ![p] = "zombie"]
    /\ reported' = reported \ {p}
    /\ pending' = pending \cup {"CHLD"}
    /\ UNCHANGED <<jobVars, execed, stops, masked, stack, sent, mainVars, userVars, shell>>

\* A child stops itself or is stopped by another process (mystop.c).
Stop(p) ==
    /\ shell = "running" /\ proc[p] = "running" /\ stops < MaxStops
    /\ proc' = [proc EXCEPT ![p] = "stopped"]
    /\ pending' = pending \cup {"CHLD"}
    /\ stops' = stops + 1
    /\ UNCHANGED <<jobVars, execed, reported, masked, stack, sent, mainVars, userVars, shell>>

Main == \/ Fork \/ SetPgid \/ AddJob \/ AddState \/ AddJid \/ Unblock \/ WaitFg
        \/ WaitState \/ Cont \/ ContPid \/ KillCont \/ Mode \/ SetFg \/ SetBg
Handler == \/ WaitPid \/ DeleteReaped \/ FindFg \/ KillFg \/ DeleteFg
           \/ StopFg \/ MarkStopped
User == TypeRun \/ TypeBgFg \/ Quit \/ TypeKey
Child == \E p \in Pid : Exec(p) \/ Die(p) \/ Stop(p)
Ended == shell # "running" /\ UNCHANGED vars

Next == Main \/ Handler \/ Deliver \/ User \/ Child \/ Ended

Spec == Init /\ [][Next]_vars

\* The kernel schedules the shell and delivers its signals; neither the user
\* nor a child has to do anything.
FairSpec == Spec /\ WF_vars(Main) /\ WF_vars(Handler) /\ WF_vars(Deliver)
-----------------------------------------------------------------------------
(* properties                                                              *)

Listed == {jobs[i].pid : i \in Slot} \ {NoPid}
Waiting == pc \in {"waitfg", "waitst"}

\* Reaped children whose job the SIGCHLD handler is about to delete.
Reaping == {stack[k].pid : k \in {k \in DOMAIN stack :
                                   stack[k].sig = "CHLD" /\ stack[k].at = "edit"}}

\* A listed job is a child that has not been reaped, except between waitpid and
\* deletejob: a SIGCHLD between fork and addjob would break this, and "addjob
\* and bg print must be done before chld signal" (tsh.c:205).
NoStaleJob == Listed \subseteq Children \cup Reaping

\* A process is listed once.
ListedOnce == \A i, j \in Slot :
    jobs[i].pid = jobs[j].pid /\ jobs[i].pid # NoPid => i = j

\* What keeps them so: from fork to the end of addjob SIGCHLD is blocked and none is
\* being handled, so the new child is neither reaped nor listed before addjob lists it.
Unreaped == pc \in {"fork", "setpgid", "add", "addst", "addjid", "unblock"} =>
    masked /\ \A k \in DOMAIN stack : stack[k].sig # "CHLD"
NewChild == pc \in {"setpgid", "add"} => pid \in Children \ Listed

\* No child is forgotten: until waitpid has told of one that has ended or stopped,
\* SIGCHLD is pending or handled, however many have been merged into it, and eval
\* blocks it no longer than up to its sigprocmask (tsh.c:206).
Noticed == /\ Zombies \cup Unreported # {} => "CHLD" \in pending \cup Handled
           /\ masked => pc \in {"fork", "setpgid", "add", "addst", "addjid", "unblock"}

ShellInv == TypeOK /\ NoStaleJob /\ ListedOnce /\ Unreaped /\ NewChild /\ Noticed

\* With a slot for every process, the shell loses no child: each one is listed
\* until it has been reaped, unless ctrl-c was sent to it.
Tracked == \A p \in Children :
    \/ p \in Listed
    \/ pc \in {"setpgid", "add"} /\ pid = p
    \/ <<"INT", p>> \in sent

\* A job id names one job as long as no more than MAXJOBS commands were typed
\* (nextjid wraps around to 1 then, whether or not job 1 is still listed).
JidsDistinct == cmds <= MAXJOBS => \A i, j \in Slot :
    jobs[i].jid = jobs[j].jid /\ jobs[i].jid # 0 => i = j

\* While the shell waits for a job, nothing makes it a background job.
WaitsForForeground == \A i \in Slot :
    Waiting /\ jobs[i].pid = pid /\ pid # NoPid => jobs[i].state \in {"FG", "ST"}

\* The state of a listed job, once addjob has set it, changes only as the comment
\* at tsh.c:28-34 says.
JobTransitions == [][\A i \in Slot :
    ~ (pc = "addst" /\ i = job) /\
    jobs[i].pid # NoPid /\ jobs'[i].pid = jobs[i].pid /\ jobs'[i].state # jobs[i].state =>
      <<jobs[i].state, jobs'[i].state>> \in
        {<<"FG", "ST">>, <<"ST", "FG">>, <<"ST", "BG">>, <<"BG", "FG">>}]_vars

\* The handler "reaps all available zombie children" (tsh.c:352), also when
\* several SIGCHLDs have been merged into one.
Reaped == \A p \in Pid : proc[p] = "zombie" ~> proc[p] # "zombie" \/ shell # "running"

\* The three windows in which the job goes away under the shell's feet: between
\* the two lookups of waitfg (tsh.c:341), between fgpid and kill in a key handler
\* (tsh.c:368-371, 384-386), and between that kill and the lookup of the job
\* (tsh.c:386-398).  The shell does not survive them.
Unhurt == /\ pc = "waitst" => pid \in Listed
          /\ \A k \in DOMAIN stack :
                /\ stack[k].sig # "CHLD" /\ stack[k].at = "kill" => stack[k].pid \in Children
                /\ stack[k].at = "mark" => stack[k].slot # NoSlot

\* When the process the shell waits for has ended, the prompt comes back, in every
\* behaviour that stays clear of the three windows.
WaitEnds == []Unhurt => \A p \in Pid :
    Waiting /\ pid = p /\ proc[p] \in {"none", "zombie"} ~> pc = "prompt"

\* ctrl-c or ctrl-z reaches the foreground job, unless it has ended by itself, and
\* the prompt comes back (tsh.c:370-373 and 387-391); with the same proviso.
KeyEndsWait == []Unhurt => \A s \in Keys, p \in Pid :
    s \in pending /\ Waiting /\ pid = p /\ p \in Listed ~>
      pc = "prompt" /\ (p \notin Children \/ \E k \in Keys : <<k, p>> \in sent)

\* The handlers of ctrl-c and ctrl-z "send it along to the foreground job" (tsh.c:370-373):
\* as long as fg is not used, it is sent to nothing but the process of the "run" that eval
\* is at, whatever ran between fgpid and kill; never to one that a "run&" is adding.
KeysForForeground == \A k \in DOMAIN stack :
    stack[k].sig # "CHLD" /\ stack[k].at = "kill" =>
      cmd = "run" /\ stack[k].pid = pid /\ pc \in {"addjid", "unblock", "waitfg", "waitst"}

\* "At most 1 job can be in the FG state" (tsh.c:35), as long as fg is not used:
\* the shell does not read the next command before the job of a "run" is deleted
\* or stopped, whichever handlers run while it waits.
OneForeground == \A i, j \in Slot : jobs[i].state = "FG" /\ jobs[j].state = "FG" => i = j

\* "Block until process pid is no longer the foreground process" (tsh.c:337):
\* waitfg returns, it does not dereference NULL.
WaitFgReturns == ~(shell = "fault" /\ pc = "waitst" /\ stack = <<>>)

\* The shell handles "SIGTSTP and SIGINT signals that come from other processes
\* instead of the terminal" (trace16.txt:2-3): when the process the shell waits
\* for is stopped, the prompt comes back.
StopNoticed == \A p \in Pid :
    Waiting /\ pid = p /\ proc[p] = "stopped" ~>
      pc = "prompt" \/ proc[p] # "stopped" \/ shell # "running"
=============================================================================

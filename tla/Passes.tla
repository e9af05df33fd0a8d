------------------------------- MODULE Passes -------------------------------
(***************************************************************************)
(* The main loop of the malloc driver: every trace is read, checked        *)
(* (MDriver), and, when it is valid, replayed without any check to measure *)
(* the utilisation and, SpeedRuns times, the speed.  The passes share one  *)
(* simulated memory: mem_reset_brk moves the break back, the words above   *)
(* it and the allocator's cnt stay as the pass before has left them.       *)
(***************************************************************************)
EXTENDS MDriver

CONSTANTS Traces,     \* what a trace file may hold: sequences of Op
          NumTraces,  \* num_tracefiles
          SpeedRuns   \* runs of eval_mm_speed, 10 for fsecs

Op == [type : {"a", "r", "f"}, index : Ids, size : Sizes]

\* The blocks that are allocated after the first n requests of t.
LiveAfter(t, n) ==
    {i \in Ids : \E k \in 1 .. n : /\ t[k].index = i /\ t[k].type # "f"
                                   /\ \A m \in k + 1 .. n : ~ (t[m].index = i /\ t[m].type = "f")}

\* A trace allocates a block before it reallocates or frees it.
WellFormed(t) ==
    \A k \in DOMAIN t : (t[k].type = "a") = (t[k].index \notin LiveAfter(t, k - 1))

ASSUME TraceAssumption ==
    /\ Traces \subseteq Seq(Op) /\ \A t \in Traces : WellFormed(t) /\ Len(t) <= MaxOps
    /\ {NumTraces, SpeedRuns} \subseteq Nat \ {0}

VARIABLES pass,                       \* what main is doing
          trace,                      \* trace->ops
          total_size, max_total_size, \* of eval_mm_util
          rounds,                     \* runs of eval_mm_speed done
          stats,                      \* mm_stats of the traces so far
          errors
passVars == <<pass, trace, total_size, max_total_size, rounds, stats, errors>>

MainInit ==
    /\ heap = mem_init
    /\ ranges = <<>> /\ ops = 0 /\ verdict = "running"
    /\ blocks = [i \in Ids |-> NULL] /\ block_sizes = [i \in Ids |-> 0]
    /\ pass = "read" /\ trace = <<>> /\ rounds = 0
    /\ total_size = 0 /\ max_total_size = 0
    /\ stats = <<>> /\ errors = 0

op == trace[ops + 1]
More == ops < Len(trace)

\* Every pass starts with an empty heap.
Reset == heap' = mm_init(mem_reset_brk(heap)) /\ ops' = 0

\* read_trace and the start of eval_mm_valid.
ReadTrace ==
    /\ pass = "read" /\ Len(stats) < NumTraces
    /\ pass' = "valid" /\ trace' \in Traces
    /\ Reset /\ ranges' = <<>> /\ verdict' = "running"
    /\ blocks' = [i \in Ids |-> NULL] /\ block_sizes' = [i \in Ids |-> 0]
    /\ UNCHANGED <<total_size, max_total_size, rounds, stats, errors>>

ValidOp ==
    /\ pass = "valid" /\ More
    /\ CASE op.type = "a" -> Alloc(op.index, op.size)
         [] op.type = "r" -> Realloc(op.index, op.size)
         [] op.type = "f" -> FreeBlock(op.index)
    /\ UNCHANGED passVars

\* malloc_error, and on to the next trace.
Invalid ==
    /\ pass = "valid" /\ verdict # "running"
    /\ errors' = errors + 1
    /\ stats' = Append(stats, [valid |-> FALSE, used |-> 0, of |-> 0])
    /\ pass' = "read"
    /\ UNCHANGED <<vars, trace, total_size, max_total_size, rounds>>

Valid ==
    /\ pass = "valid" /\ verdict = "running" /\ ~ More
    /\ pass' = "util" /\ Reset
    /\ total_size' = 0 /\ max_total_size' = 0
    /\ UNCHANGED <<ranges, blocks, block_sizes, verdict, trace, rounds, stats, errors>>

\* Seeded bug: the size before a reallocation is not taken off.
TotalKeepsOld == CASE op.type = "f" -> total_size - block_sizes[op.index]
                   [] OTHER -> total_size + op.size

\* total_size after a request.
Total == CASE op.type = "a" -> total_size + op.size
           [] op.type = "r" -> total_size + op.size - block_sizes[op.index]
           [] op.type = "f" -> total_size - block_sizes[op.index]

\* A request without checks: the heap and the block it returns.
Served == CASE op.type = "a" -> mm_malloc(heap, op.size)
            [] op.type = "r" -> mm_realloc(heap, blocks[op.index], op.size)
            [] op.type = "f" -> Result(mm_free(heap, blocks[op.index]), blocks[op.index])

\* app_error ends the driver when the allocator returns NULL.
Replay ==
    /\ heap' = Served.h
    /\ IF Served.p = NULL
       THEN pass' = "exit" /\ UNCHANGED <<ops, blocks>>
       ELSE pass' = pass /\ ops' = ops + 1 /\ blocks' = [blocks EXCEPT ![op.index] = Served.p]

UtilOp ==
    /\ pass = "util" /\ More /\ Replay
    /\ IF pass' = "exit" THEN UNCHANGED <<block_sizes, total_size, max_total_size>>
       ELSE /\ block_sizes' = IF op.type = "f" THEN block_sizes
                              ELSE [block_sizes EXCEPT ![op.index] = op.size]
            /\ total_size' = Total
            /\ max_total_size' = Max({max_total_size, total_size'})
    /\ UNCHANGED <<ranges, verdict, trace, rounds, stats, errors>>

\* eval_mm_util returns max_total_size / mem_heapsize().
UtilDone ==
    /\ pass = "util" /\ ~ More
    /\ stats' = Append(stats, [valid |-> TRUE, used |-> max_total_size, of |-> mem_heapsize(heap)])
    /\ pass' = "speed" /\ rounds' = 0 /\ Reset
    /\ UNCHANGED <<ranges, blocks, block_sizes, verdict, trace, total_size, max_total_size, errors>>

SpeedOp ==
    /\ pass = "speed" /\ More /\ Replay
    /\ UNCHANGED <<ranges, block_sizes, verdict, trace, total_size, max_total_size, rounds, stats, errors>>

\* The next run of eval_mm_speed, or the next trace.
SpeedDone ==
    /\ pass = "speed" /\ ~ More
    /\ rounds' = rounds + 1
    /\ IF rounds' < SpeedRuns THEN pass' = pass /\ Reset ELSE pass' = "read" /\ UNCHANGED <<heap, ops>>
    /\ UNCHANGED <<ranges, blocks, block_sizes, verdict, trace, total_size, max_total_size, stats, errors>>

\* main has evaluated its traces, or app_error has ended it.
Exited == /\ pass = "exit" \/ (pass = "read" /\ Len(stats) = NumTraces)
          /\ UNCHANGED <<vars, passVars>>

MainNext == ReadTrace \/ ValidOp \/ Invalid \/ Valid \/ UtilOp \/ UtilDone
            \/ SpeedOp \/ SpeedDone \/ Exited

MainSpec == MainInit /\ [][MainNext]_<<vars, passVars>>
-----------------------------------------------------------------------------
\* The size that block i was last given in this pass.
Given(i) == LET k == Max({m \in 1 .. ops : trace[m].index = i /\ trace[m].type # "f"})
            IN  trace[k].size

\* In the passes that check nothing the live payloads are in the heap and apart
\* from each other all the same, whatever earlier passes have left in memory.
UncheckedApart == pass \in {"util", "speed"} =>
    \A i \in LiveAfter(trace, ops) :
      /\ blocks[i] >= PRELOGUE_BLK + 2 /\ Hi(blocks[i], Given(i)) < heap.brk
      /\ \A j \in LiveAfter(trace, ops) \ {i} :
            Disjoint([lo |-> blocks[i], hi |-> Hi(blocks[i], Given(i))],
                     [lo |-> blocks[j], hi |-> Hi(blocks[j], Given(j))])

\* "the high water mark of the heap for an optimal allocator": what eval_mm_util
\* counts as used is never more than the heap that was needed for it.
UtilAtMostOne ==
    /\ pass = "util" => max_total_size <= mem_heapsize(heap)
    /\ \A k \in DOMAIN stats : stats[k].used <= stats[k].of

\* What the validity pass says of the passes after it, and the code does not
\* keep: cnt has another parity in them, so that the heap may need more room.
ValidNeverFails == pass # "exit"
=============================================================================

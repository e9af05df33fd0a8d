-------------------------------- MODULE Fcyc --------------------------------
(***************************************************************************)
(* The K-best timer of the malloc lab: the sampler of fcyc.c over the      *)
(* cycle counter of clock.c and its compensation for timer interrupts, as  *)
(* fsecs.c uses them when config.h says USE_FCYC.                          *)
(*                                                                         *)
(* The cycle counter and the tick count of times() only ever enter the     *)
(* program as differences.  The state therefore has the cycles since the   *)
(* reading that counts (elapsed) and the ticks since the last tms_utime    *)
(* that was kept (ticks); the counter itself is any value when it is read  *)
(* first.                                                                  *)
(***************************************************************************)
EXTENDS Integers, Sequences, FiniteSets

CONSTANTS
  Base,          \* values of an unsigned; the counter is a pair of them
  Starts,        \* what the counter may show when it is started
  Settings,      \* what init_fsecs or another caller sets: see Setting
  EpsNum, EpsDen,\* epsilon
  Works,         \* cycles that one call of the measured function takes
  WorkTicks,     \* timer interrupts while it runs
  TickCost,      \* cycles of a timer interrupt
  OtherCosts,    \* cycles of other interruptions
  LoopCost,      \* cycles between two readings in callibrate
  THRESHOLD, RECORDTHRESH, NEVENT,
  MaxRuns        \* bound on the calls of fcyc

Setting == [k : Nat \ {0}, max : Nat \ {0}, compensate : BOOLEAN]

ASSUME SettingsAssumption == Settings \subseteq Setting

ASSUME CounterAssumption ==
  /\ Base \in Nat \ {0}
  /\ Starts \subseteq 0 .. Base * Base - 1

ASSUME EpsilonAssumption == EpsNum \in Nat /\ EpsDen \in Nat \ {0}

ASSUME CostAssumption ==
  /\ Works \subseteq Nat \ {0}
  /\ WorkTicks \subseteq Nat
  /\ OtherCosts \subseteq Nat
  /\ {TickCost, LoopCost, THRESHOLD, RECORDTHRESH, NEVENT, MaxRuns} \subseteq Nat \ {0}

\* What the compensation needs of the machine, and clock.c takes for granted: only
\* a tick is longer than RECORDTHRESH, and no tick is twice as long.
TicksStandOut ==
  /\ \A c \in OtherCosts : c + THRESHOLD + LoopCost <= RECORDTHRESH
  /\ THRESHOLD + LoopCost <= RECORDTHRESH
  /\ RECORDTHRESH < TickCost
  /\ TickCost + THRESHOLD + LoopCost <= 2 * RECORDTHRESH

\* A sample, with an interruption before the function and one after it, is shorter
\* than one turn of the counter (64 bits).
ASSUME RangeAssumption ==
  \A w \in Works, n \in WorkTicks : \A c, d \in OtherCosts \cup {TickCost} :
    w + n * TickCost + c + d < Base * Base

VARIABLES
  pc,
  set,           \* the parameters: kbest, maxsamples, compensate
  values,        \* the cells of values[] that have been written
  samplecount,
  samples,       \* every sample of this call of fcyc (history)
  cyc_hi, cyc_lo,
  elapsed,       \* cycles since start_counter, in callibrate since oldt
  spent,         \* those of them that no tick took (history)
  ticks,         \* tms_utime less start_tick, in callibrate less oldc
  time,          \* what get_counter, get_comp_counter or newt - oldt is
  cyc_per_tick,  \* 0 until callibrate has recorded one
  e,             \* events seen by callibrate
  calm,          \* the program has run since the last interruption
  runs           \* calls of fcyc so far

sampler == <<values, samplecount, samples>>
counter == <<cyc_hi, cyc_lo>>
machine == <<elapsed, spent, ticks, calm>>
vars == <<pc, set, sampler, counter, machine, time, cyc_per_tick, e, runs>>

Init ==
  /\ pc = "idle" /\ set \in Settings
  /\ values = <<>> /\ samplecount = 0 /\ samples = <<>>
  /\ cyc_hi = 0 /\ cyc_lo = 0 /\ cyc_per_tick = 0
  /\ elapsed = 0 /\ spent = 0 /\ ticks = 0 /\ time = 0
  /\ e = 0 /\ calm = TRUE /\ runs = 0

Goto(from, to) == pc = from /\ pc' = to

-----------------------------------------------------------------------------
(* The sampler.                                                            *)

\* values[] after the insertion of val at place n: it moves down past the
\* values that are larger, and stops at the first that is not.
Insert(n, val) ==
  LET stop == CHOOSE i \in 0 .. n - 1 :
                /\ i = 0 \/ values[i] <= val
                /\ \A j \in i + 1 .. n - 1 : values[j] > val
  IN  [i \in 1 .. n |-> IF i <= stop THEN values[i]
                        ELSE IF i = stop + 1 THEN val ELSE values[i - 1]]

\* Seeded bug: a sample replaces the largest value only if it beats the best one.
ReplacesBest(val) == val < values[1]

Replaces(val) == val < values[set.k]

AddSample(val) ==
  /\ values' = IF samplecount < set.k THEN Insert(samplecount + 1, val)
               ELSE IF Replaces(val) THEN Insert(set.k, val) ELSE values
  /\ samplecount' = samplecount + 1
  /\ samples' = Append(samples, val)

\* Seeded bug: compares with the last value but one.
has_converged_early ==
  samplecount >= set.k /\ (EpsDen + EpsNum) * values[1] >= EpsDen * values[set.k - 1]

has_converged ==
  samplecount >= set.k /\ (EpsDen + EpsNum) * values[1] >= EpsDen * values[set.k]

\* set_fcyc_k, set_fcyc_maxsamples, set_fcyc_compensate
SetParameters ==
  /\ pc = "idle"
  /\ set' \in Settings
  /\ UNCHANGED <<pc, sampler, counter, machine, time, cyc_per_tick, e, runs>>

\* The counter that times a call of the function.
FirstOfSample == IF set.compensate THEN "comp" ELSE "start"

\* fcyc is called: init_sampler.
Call ==
  /\ runs < MaxRuns /\ runs' = runs + 1
  /\ Goto("idle", FirstOfSample)
  /\ values' = <<>> /\ samplecount' = 0 /\ samples' = <<>>
  /\ UNCHANGED <<set, counter, machine, time, cyc_per_tick, e>>

-----------------------------------------------------------------------------
(* callibrate: the cycles a tick takes.                                    *)

\* start_comp_counter
StartComp ==
  /\ Goto("comp", IF cyc_per_tick = 0 THEN "oldc" ELSE "times")
  /\ e' = 0
  /\ UNCHANGED <<set, sampler, counter, machine, time, cyc_per_tick, runs>>

FirstTimes ==
  /\ Goto("oldc", "oldt")
  /\ ticks' = 0
  /\ UNCHANGED <<set, sampler, counter, elapsed, spent, calm, time, cyc_per_tick, e, runs>>

FirstReading ==
  /\ Goto("oldt", "newt")
  /\ elapsed' = 0
  /\ UNCHANGED <<set, sampler, counter, spent, ticks, calm, time, cyc_per_tick, e, runs>>

\* One reading of the loop: oldt is replaced when the gap is long enough.
Spin ==
  LET gap == elapsed + LoopCost
  IN  /\ calm' = TRUE
      /\ IF gap >= THRESHOLD
           THEN Goto("newt", "newc") /\ time' = gap /\ elapsed' = 0
           ELSE Goto("newt", "newt") /\ time' = time /\ elapsed' = gap
      /\ UNCHANGED <<set, sampler, counter, spent, ticks, cyc_per_tick, e, runs>>

\* Seeded bug: every quotient counts, however small.
RecordedAll(cpt) ==
  IF cyc_per_tick = 0 \/ cyc_per_tick > cpt THEN cpt ELSE cyc_per_tick

\* The smallest quotient above RECORDTHRESH is kept.
Recorded(cpt) ==
  IF (cyc_per_tick = 0 \/ cyc_per_tick > cpt) /\ cpt > RECORDTHRESH
    THEN cpt ELSE cyc_per_tick

\* Seeded bug: an event that is not recorded does not count.
SecondTimesRecording ==
  LET counts == ticks > 0 /\ Recorded(time \div ticks) # cyc_per_tick
  IN  /\ Goto("newc", IF counts /\ e + 1 = NEVENT THEN "times" ELSE "newt")
      /\ cyc_per_tick' = IF counts THEN Recorded(time \div ticks) ELSE cyc_per_tick
      /\ e' = IF counts THEN e + 1 ELSE e
      /\ ticks' = 0 /\ time' = 0
      /\ UNCHANGED <<set, sampler, counter, elapsed, spent, calm, runs>>

\* times() after a long gap: an event when the tick count has changed.
SecondTimes ==
  LET last == ticks > 0 /\ e + 1 = NEVENT
  IN  /\ Goto("newc", IF last THEN "times" ELSE "newt")
      /\ cyc_per_tick' = IF ticks > 0 THEN Recorded(time \div ticks) ELSE cyc_per_tick
      /\ e' = IF ticks > 0 THEN e + 1 ELSE e
      /\ ticks' = 0 /\ time' = 0
      /\ UNCHANGED <<set, sampler, counter, elapsed, spent, calm, runs>>

-----------------------------------------------------------------------------
(* One sample.                                                             *)

\* start_comp_counter keeps the tick count, then starts the counter.
StartTicks ==
  /\ Goto("times", "start")
  /\ ticks' = 0
  /\ UNCHANGED <<set, sampler, counter, elapsed, spent, calm, time, cyc_per_tick, e, runs>>

start_counter ==
  /\ Goto("start", "f")
  /\ \E c \in Starts : cyc_hi' = c \div Base /\ cyc_lo' = c % Base
  /\ elapsed' = 0 /\ spent' = 0
  /\ UNCHANGED <<set, sampler, ticks, calm, time, cyc_per_tick, e, runs>>

Measured ==
  /\ Goto("f", "stop")
  /\ \E w \in Works, n \in WorkTicks : /\ elapsed' = elapsed + w + n * TickCost
                                        /\ spent' = spent + w
                                        /\ ticks' = ticks + n
  /\ calm' = TRUE
  /\ UNCHANGED <<set, sampler, counter, time, cyc_per_tick, e, runs>>

\* Seeded bug: no borrow from the high word.
NoBorrow(nhi, nlo) == ((nhi - cyc_hi) % Base) * Base + ((nlo - cyc_lo) % Base)

\* Double precision subtraction of the counter now, <<nhi, nlo>>, and then.
Difference(nhi, nlo) ==
  LET lo     == (nlo - cyc_lo) % Base
      borrow == IF lo > nlo THEN 1 ELSE 0
      hi     == (nhi - cyc_hi - borrow) % Base
  IN  hi * Base + lo

get_counter ==
  LET now == (cyc_hi * Base + cyc_lo + elapsed) % (Base * Base)
  IN  /\ Goto("stop", IF set.compensate THEN "ticks" ELSE "add")
      /\ time' = Difference(now \div Base, now % Base)
      /\ UNCHANGED <<set, sampler, counter, machine, cyc_per_tick, e, runs>>

get_comp_counter ==
  /\ Goto("ticks", "add")
  /\ time' = time - ticks * cyc_per_tick
  /\ UNCHANGED <<set, sampler, counter, machine, cyc_per_tick, e, runs>>

\* add_sample and the condition of the loop of fcyc.
Sample ==
  /\ pc = "add"
  /\ AddSample(time) /\ time' = 0 /\ elapsed' = 0 /\ spent' = 0
  /\ UNCHANGED <<set, counter, ticks, calm, cyc_per_tick, e, runs>>
  /\ pc' = IF ~ has_converged' /\ samplecount' < set.max THEN FirstOfSample ELSE "return"

\* fcyc returns values[0] and frees values[].
Return ==
  /\ Goto("return", "idle")
  /\ values' = <<>> /\ samples' = <<>>
  /\ UNCHANGED <<set, samplecount, counter, machine, time, cyc_per_tick, e, runs>>

-----------------------------------------------------------------------------
(* Interruptions of the timer's own code, never two in a row.              *)

Timed == pc \in {"f", "stop"}
Spinning == pc \in {"newt", "newc"}

Interrupt(cost) ==
  /\ calm /\ pc # "idle" /\ calm' = FALSE
  /\ elapsed' = IF Timed \/ Spinning THEN elapsed + cost ELSE elapsed
  /\ UNCHANGED <<pc, set, sampler, counter, time, cyc_per_tick, e, runs>>

Tick == Interrupt(TickCost) /\ ticks' = ticks + 1 /\ spent' = spent

Other ==
  \E c \in OtherCosts :
    Interrupt(c) /\ ticks' = ticks /\ spent' = IF Timed THEN spent + c ELSE spent

callibrate == FirstTimes \/ FirstReading \/ Spin \/ SecondTimes
Program ==
  \/ Call \/ StartComp \/ callibrate
  \/ StartTicks \/ start_counter \/ Measured \/ get_counter \/ get_comp_counter \/ Sample \/ Return

Next == SetParameters \/ Program \/ Tick \/ Other

Spec == Init /\ [][Next]_vars

\* The program runs; the timer interrupts for ever.
FairSpec == Spec /\ WF_vars(Program) /\ SF_vars(Tick)

-----------------------------------------------------------------------------
(* Properties.                                                             *)

\* Types of the sampler and of the clock.
TypeOK ==
  /\ pc \in {"idle", "comp", "oldc", "oldt", "newt", "newc", "times",
             "start", "f", "stop", "ticks", "add", "return"}
  /\ set \in Settings
  /\ samplecount \in Nat /\ samples \in Seq(Int) /\ values \in Seq(Int)
  /\ cyc_hi \in 0 .. Base - 1 /\ cyc_lo \in 0 .. Base - 1
  /\ {elapsed, spent, ticks, cyc_per_tick, e, runs} \subseteq Nat
  /\ time \in Int /\ calm \in BOOLEAN

\* values[] holds the K smallest samples in order (as many as there are), by
\* rank: each value has at most as many samples below it as its place allows,
\* and enough that are not above it.
Below(v) == Cardinality({i \in 1 .. Len(samples) : samples[i] < v})
UpTo(v)  == Cardinality({i \in 1 .. Len(samples) : samples[i] <= v})
KBest == pc # "idle" =>
  /\ Len(samples) = samplecount
  /\ Len(values) = IF samplecount < set.k THEN samplecount ELSE set.k
  /\ \A i \in 1 .. Len(values) : Below(values[i]) < i /\ i <= UpTo(values[i])

\* fcyc stops early only when the K smallest of its samples agree within
\* epsilon; otherwise it has taken maxsamples ("When exceeded, just return
\* best sample found", fcyc.c).
StopsWhenBestAgree ==
  pc = "return" /\ samplecount < set.max =>
    \E v \in {samples[i] : i \in 1 .. Len(samples)} :
      /\ Below(v) = 0
      /\ Cardinality({i \in 1 .. Len(samples) :
                        EpsDen * samples[i] <= (EpsDen + EpsNum) * v}) >= set.k

\* The cycles of an uncompensated sample are exactly those that passed, also
\* when the low word, or the counter, has wrapped around.
CountsCycles ==
  pc \in {"ticks", "add"} /\ (pc = "add" => ~ set.compensate) => time = elapsed

\* Once callibrate has recorded what a tick takes, a compensated sample charges
\* no tick to the measured function: it is at most the cycles that the function
\* and other interruptions took, on a machine where TicksStandOut.
TicksAreDeducted ==
  pc = "add" /\ set.compensate /\ cyc_per_tick > 0 => time <= spent

\* Every call of fcyc returns: callibrate sees its events, the sampler ends.
Returns == pc # "idle" ~> pc = "idle"

=============================================================================

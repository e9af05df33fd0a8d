# Formal models of the CS:APP labs

TLA+ models, TLC runs and TLAPS proofs for the three programs of this
repository that have a logic of their own:

* the **caching proxy** (`src/proxy_lab`): threads that share a web cache under a
  readers-writers lock;
* the **tiny shell** (`src/shell_lab`): a main program and three signal handlers
  that share a job list;
* the **malloc lab** (`src/malloc_lab`): an allocator with boundary tags and
  segregated free lists over a simulated heap, the driver that judges it, and the
  K-best timer that the driver uses instead of `gettimeofday` when it is built with
  `USE_FCYC` (`config.h:68` sets it to 0).

Everything is translated from the C code; comments and tests of the repository
are quoted only as properties. Run inside this directory:

    tlc -workers 4 -config ProxyCacheCalm.cfg MCProxyCache  # any row of "Runs"
    tlapm Tsh_proofs.tla                                    # any *_proofs module

`PROJECT.json` lists the runs, the source lines of every definition, the seeded
bugs with which each property is shown to fail, the hazards of the code, and the
theorems.

## 1. Inventory

### Proxy cache — `cache.c`, `cache.h`, `do_proxy` in `proxy.c`

* *State.* `cache_queue_t`: `head`, `tail`, `total_size`, `reader_cnt` and two
  binary semaphores. `cache_t`: `next`, `prev`, `key`, `size`, `valid`, heap
  allocated. Per thread: its URI and a `cache` pointer.
* *Operations.* `find_cache_by_key` (reader), `move_to_queue_back` and
  `put_cache` (writers; the former calls the latter after it has released the
  lock), `eliminate_lru_cache`, `cache_copy`, `realloc_cache`, `free_cache`,
  `init_cache_queue`.
* *Interaction.* Every connection is a detached thread. A lookup returns a pointer
  into the shared list that is used after every lock is released.
* *Hard.* Interleavings of threads in `do_proxy`; stale pointers; a list that is
  edited in two critical sections; eviction at the limit; a lock whose first
  reader waits with the other semaphore held.
* *Correct when.* The lock excludes; the list is doubly linked and its accounting
  exact; a URI is cached once; eviction takes the oldest first and no more than
  needed; every connection is served.

### Proxy connections — `proxy.c`, with the library `csapp.c`

* *State.* The descriptor table of the process; two descriptors per thread, the heap
  cell that passes the first one to it, an output buffer, the header's
  `content_len`, the rio buffers. *Operations.* `main`'s accept loop, `open_listenfd`,
  `open_clientfd`, `parse_uri`, the header loop, the body loop, `clienterror`, `Close`.
* *Interaction.* The kernel gives a closed descriptor to whoever opens the next one;
  `exit` in any error wrapper ends all threads.
* *Hard.* Short reads, a server that closes early, more bytes than announced, an
  uninitialised `serverfd` on a hit, descriptors left open on error paths.
* *Correct when.* The client gets the response exactly; what is cached is complete;
  each descriptor is closed once.

### Tiny shell — `tsh.c`

* *State.* `jobs[MAXJOBS]`, `nextjid`; the locals of `eval`, `do_bgfg`, `waitfg`;
  in the kernel: the children, their states, pending and blocked signals.
* *Operations.* `eval` (fork, setpgid, addjob), `do_bgfg`, `waitfg`,
  `builtin_cmd`, the handlers of SIGCHLD, SIGINT and SIGTSTP, the job-list
  functions.
* *Interaction.* A handler runs between any two instructions of the main program
  and of the other handlers, and shares the job list with them. `eval` blocks
  SIGCHLD between fork and addjob. Signals merge.
* *Correct when.* The job list is the list of unreaped children, each once; every
  zombie is reaped; job states change as the table at `tsh.c:28-34` says; the
  prompt comes back when it should, and not before.

### Malloc lab — `mm.c`, `memlib.c`, `mdriver.c`

* *State.* The bytes of the heap (tags, list pointers, payloads), the break, the
  list heads, and the static `cnt` that decides which part of a split is
  allocated; in the driver the trace's blocks, the range list, the running totals
  and the statistics of each trace.
* *Operations.* `mm_init`, `mm_malloc`, `mm_free`, `mm_realloc` over `place`,
  `coalesce`, the list operations, `mem_sbrk`; `eval_mm_valid`, `add_range`,
  `remove_range`; `eval_mm_util`, `eval_mm_speed` and the loop of `main` over the traces.
* *Interaction.* All passes over all traces share the simulated memory and `cnt`.
* *Hard.* Nothing is concurrent; the difficulty is long sequences of requests, in
  which each operation trusts tags and pointers other operations have written;
  sizes at limits; the heap's end; data moved before it is overwritten.
* *Correct when.* Blocks tile the heap, lists hold exactly the free blocks, live
  payloads keep their data, the heap grows only when it must; and the driver's
  checks are worth what it says.

### Measurement library — `fcyc.c`, `clock.c` (`ftimer.c`, `fsecs.c`)

* *State.* The parameters (`kbest`, `maxsamples`, `compensate`, ...),
  `values` and `samplecount`; `cyc_hi`, `cyc_lo`, `cyc_per_tick`, `start_tick`; in the
  machine: the cycle counter and the tick count of `times()`.
* *Operations.* `fcyc` with `init_sampler`, `clear`, `add_sample`, `has_converged`; the
  setters; `start_counter`, `get_counter`, `callibrate`, `start_comp_counter`,
  `get_comp_counter`.
* *Hard.* Two clocks read one after the other while the timer interrupts; a difference
  of two-word numbers; a filter that has to tell a tick from anything else by its length.
* *Correct when.* The samples are the cycles that passed; a compensated one does not
  charge the interrupts to the function; the result is the best of K that agree; the
  measurement ends.

### Left aside

`cache_test.c` (a test), the scripts `driver.sh`, `nop-server.py`, `free-port.sh`,
`port-for-user.pl`, `sdriver.pl`, and what section 7 lists. `PROJECT.json` gives the reason
for each.

## 2. Modules

| module | models | uses |
|---|---|---|
| `ProxyCache` | the cache, its lock and the threads of `do_proxy` | refines `LruCache` |
| `LruCache` | what the cache promises: a sequence, oldest first, that fits | |
| `Rio` | the buffered reader of `csapp.c` | |
| `Relay` | one connection of `do_proxy` that misses the cache: request, header, body | `Rio` |
| `JobList` | the job array as operators | |
| `Tsh` | shell, handlers, kernel's view of the children | `JobList` |
| `MM` | the allocator, word by word, as operators on a heap record | |
| `RangeList` | the driver's range list as operators | |
| `RangeCheck` | the driver's test against an arbitrary allocator | `RangeList` |
| `MDriver` | `eval_mm_valid` making any trace of requests to `MM` | `MM`, `RangeList`; refines `Allocator` |
| `Allocator` | what an allocator promises to a trace | |
| `Passes` | the driver's main loop: check, utilisation and speed of trace after trace | `MDriver` |
| `Fcyc` | the K-best sampler, the cycle counter and its compensation for ticks | |
| `ProxyConn` | the descriptors of the proxy: main, its threads, the address lists | |
| `MCProxyCache`, `MCRelay`, `MCTsh`, `MCPasses`, `MCFcyc` | constants, inputs and symmetry for TLC | |
| `ProxyCache_proofs`, `LruCache_proofs`, `ProxyConn_proofs`, `Relay_proofs`, `Tsh_proofs`, `RangeCheck_proofs`, `MDriver_proofs`, `Fcyc_proofs` | theorems | the module each is named after; `MDriver_proofs` also `Passes` |

Definitions marked "Seeded bug" are plausible mistakes that are not part of the
specifications. Each property of a passing run has one under which TLC refutes it.

### ProxyCache

`pc[t]` names the next thing thread `t` does; a step is a semaphore operation or the
code up to the next one. `Accept` starts a thread. `ReaderEnter`, `FirstReader`,
`ReaderEntered`, `Search`, `ReaderLeave`, `LastReader`, `ReaderLeft` are
`find_cache_by_key`; `WriteHit`, `WriterLock`, `MoveOut` are a hit up to the middle of
`move_to_queue_back`; `Fetch` is the relay of a miss; `PutMore`, `Evict`, `Put` are
`put_cache`, with one step per eviction; `Close` ends the thread, `Die` the
process.

* *Search is one step.* Two readers do not disturb each other, and
  `ReadersUndisturbed` (proved) says that no step changes the ends or the total of
  the list while a reader is in it; a writer is excluded by the lock (`LockCorrect`).
* *Memory is explicit.* `live` is the set of allocated addresses; `Free` removes one
  and `Fetch` may be given it again. `dangling` are the objects whose `value` is a freed
  block: `realloc_cache` (`cache.c:72`) drops what `Realloc` returns, so a block that realloc
  has moved (`ReallocMoves`) leaves the old address behind. `Derefs(t)` is the `cache_t` that the
  next step dereferences, `ValuesUsed(t)` the objects whose value it reads or frees; if the former
  is not live or the latter dangles the behaviour is undefined and the only step left is
  `BadAccess`, to `proxy = "fault"`. A list with a cycle is searched for ever
  (`SearchSpins`), and the loop of `put_cache` with nothing to evict does not end
  (`EvictSpins`).
* *What the code leaves to luck.* A found object is used without the lock, and a missed key is
  inserted without a second look. `FindsKept` says that nobody takes out of the list (by moving
  or evicting it) what another thread has found and not moved yet; `MissesApart` that no two
  threads are about to insert the same URI. The code guarantees neither, and without them the
  list breaks (section 4). What it does guarantee is stated for the behaviours that are
  `Undisturbed` (both): the theorems have `[]FindsKept` or `[]Undisturbed` as a premise, and the runs
  `cache_calm` and `cache_served` have `CONSTRAINT Undisturbed`, which stops TLC at the first state
  that is not. A premise that speaks of the whole behaviour does not forbid a shared URI, a
  concurrent eviction, or an address that is freed and used again.
* *Abstracted.* Keys are model values; the response is its size. `Copied` is the size
  an invalid object ends with: the code stops adding at the chunk that would pass the
  limit, the model says it stays at most the limit; invalid objects are never linked,
  so nothing depends on it. `Die` stands for every way an error wrapper
  or SIGPIPE ends the process, also for closing an uninitialised `serverfd`.

### Rio, Relay

`stream` is what the server will send before it closes, `pos` how much of it `read`
has returned, `rio` the unread bytes of `rio_buf`. `Refill` returns any number of
bytes up to `RIO_BUFSIZE`; `Copy` is the rest of `rio_read`. The call of `rio_readlineb` or
`rio_readnb` in progress is `usrbuf`; it returns when it is full (`LineFull`,
`ChunkFull`) or at the end of the file.

A byte is a token: carriage return, newline, the text of a Content-length field, or
anything else. What `buf` may hold besides is a token too (the request that was built
in it, and lines that were cut at a space), because a response that the server breaks
off leaves it in place: `Rio_readlineb` returns 0, nobody looks, and the stale line is
sent and cached again, for ever (`MaxSent` bounds
it); if the stale line is a Content-length field, which has been cut at its space,
`strchr` returns NULL and `atoi` reads address 1 (`HeaderFault`).

* *Kept.* `content_len` is unsigned (`Left` wraps modulo `SizeMod`). A response without
  Content-length is relayed without its body. A short body is cached as if it
  were complete. A field line that fills the buffer is split; when what remains of it is
  `\r\n`, do_proxy takes it for the end of the header (`SplitField`).
* *Abstracted.* The request is one of four kinds (`Requests`): what `sscanf`, `strcasecmp`
  and `parse_uri` make of it. Lines contain no NUL. `Fail` is any failing read or write:
  the wrappers end the process. A read interrupted by a signal is retried and is not
  a step. `Open_clientfd`, the hit and `put_cache` are in `ProxyCache`.

### ProxyConn

`file` is the descriptor table, what each descriptor stands for; `Opens` takes the lowest
free one, as the kernel does. `ListenAddrs … Listen` are `open_listenfd`; `MallocCell`,
`Accept`, `Create` the loop of `main`, whose heap cell is `cell[connfd]`; `Start` takes the
descriptor out of the cell and frees it. `Miss … Connect` are `open_clientfd` with its
list of addresses (`left` of them untried), `RelayAll` everything a miss reads and writes,
`CloseServer` and `CloseClient` the end of `do_proxy`.

* *What is wrong is kept.* After a hit `serverfd` is unset: `CloseUnset` closes any open
  descriptor, of whomever, and sets `stray`, which the invariants have as a premise.
  `ErrorReply` returns without closing. Every wrapper that ends the process is `MainExits`
  or `ThreadExits`, among them a server that does not answer, a client whose address has
  no name, and `accept` when the table is full.
* *Abstracted.* A request is a hit, a miss or an error. The history variable `conn` of a
  thread says which connection `main` made it for.

### JobList, Tsh

`stack` is the stack of active handlers, the last running; with an empty stack the
main program runs at `pc`. `Deliver` starts a handler for any pending signal that is
not blocked; the only blocked ones are those being handled (`Signal` installs an
empty mask) and SIGCHLD while `masked`. So handlers nest, as in the code. `pending` is
a set: signals of a kind merge.

`TypeRun … Unblock` is `eval`, `WaitFg`/`WaitState` the two lookups of the loop in
`waitfg`, `TypeBgFg … SetBg` is `do_bgfg` with its job pointer (`job`) kept across
steps, `WaitPid`/`DeleteReaped` the SIGCHLD handler, `FindFg`/`KillFg`/`DeleteFg`/
`StopFg`/`MarkStopped` the other two. `Exec`, `Die`, `Stop` are what children do.

* *Granularity.* `addjob` is three steps (pid, state, jid) because a nested
  handler distinguishes them: between the first two a slot shows the state that was left in it. In
  `do_bgfg` the test of the state, the reading of the pid and the kill are three steps
  (`Cont`, `ContPid`, `KillCont`), and in the SIGTSTP handler the lookup and the write
  are two (`StopFg`, `MarkStopped`, with the pointer in the frame's `slot`). `deletejob` is one step: it is called from handlers; a
  nested handler in the middle of it is not modelled. A line that names no job or is
  empty changes nothing and is not a step.
* *Where the shell dies.* `Unhurt` names the three windows in which a SIGCHLD handler takes the job
  away under the shell's feet: between the two lookups of `waitfg`, between `fgpid` and
  `kill` in a key handler (the failing kill ends the shell), and between that kill and the
  lookup of the job, whose NULL is written through. The liveness properties `WaitEnds` and `KeyEndsWait` have
  `[]Unhurt` as a premise and, with it, count nothing but the prompt as success: a shell that has
  crashed or exited does not satisfy them.
* *History.* `sent` has the pairs of a signal and a process to which a key handler has sent it, until the
  process is reaped; `KeyEndsWait`, `Tracked` and the proofs speak of it, no guard does.
* *Fidelity.* A slot is free when its pid is 0, whatever its state says, and `fgpid`
  looks at states only. Both are as in the code, and they matter: see `OneForeground`.
* `KillFg` lets the process obey the signal or handle it (`myint.c`, `mystop.c`);
  only one process per job (the grandchild of `mysplit.c` is not modelled).

### MM, RangeList, RangeCheck, MDriver

The heap is a record of memory, break and `cnt`. The unit is the 8-byte word: all
addresses, block sizes and list heads of the code are multiples of 8, a request of
`n` bytes is one of `n/8` words rounded up. The Makefile builds with `-m32`, where a
tag or a pointer takes the low half of its word; the other half is unused. A tag
keeps size and allocation bit as one integer (`PACK`), so a tag overwritten by data
or by a pointer is *read* as the code would read it. Fresh memory is 0. `cnt` is a
static that survives `mm_init`, so a trace may start with either parity.
The fill of the driver is `Data(i)`, the negative of a byte: two indices share it when they agree
modulo 256 (`FillByte`), and it is neither a tag nor a pointer. `dispatch_size`
counts the lists whose smallest size is at most the block's, which is the logarithm the code
takes, cut off at the last list. `FitIn` walks a list in at most `MAX_HEAP` steps; the code
would follow a cyclic list for ever, but a list is never cyclic (`FreeListsExact`).

`MDriver` is the real composition: a step is one request of a trace, with the
allocator's work and the driver's range check, data check and fill. The first two
branches of `mm_realloc` (NULL pointer, size 0) are modelled, but the driver's traces
do not reach them. `min_malloc_size` is lowered to the request and raised to 5 words
again in every call, so it is a constant. `mm_init` never fails here: the simulated memory has
room for the prologue and one chunk (`MDriverAssumption`), as the 20 MB of `config.h` have. The
comparison after a realloc (`mdriver.c:656`) reads a signed char and an int from 0 to 255; they are
never equal when the low byte of the index is above 127 (`Unread`), so `Preserved` is false
of such a block unless nothing is compared. Alignment holds by the choice of the
unit: in `MDriver` `ALIGNMENT = 1`; `RangeCheck` has it as a real test.

`Allocator` is the abstract specification: extents that are apart from each other and
keep what was written to them. It makes two concessions (`Lose`), because the code does (section 4):
a block that shrinks may lose its data, and every realloc of an `Unread` block is taken for a
loss, whatever has become of it (`Resize` excludes them). The refinement maps a block to the cells of
its payload and compares them with what the trace has written. The driver's range check
is not trusted for this: the disjointness is that of `Allocator`.

`Passes` runs the trace of `MDriver` from a file (`trace`), then again in `eval_mm_util`
and `eval_mm_speed`, where nothing is checked and a NULL ends the driver. The memory above
the break and `cnt` are those that the pass before has left.

`RangeCheck` replaces the allocator by one that may return anything, and asks what the
range list lets through.

### Fcyc

A step reads one clock, or none. The cycle counter is a pair of words of `Base` values;
it enters the program only through differences, so the state has the cycles since the
reading that counts (`elapsed`) and the ticks since the last `tms_utime` that was kept
(`ticks`). The measured function (`Measured`) takes one of `Works` cycles of its own and is
interrupted by any number of ticks of `WorkTicks`. `Tick` and `Other` interrupt the timer's own
code between any two steps, at most once between two of its readings (`calm`), which are a few
instructions apart; they may fall just before or just after the function too. `StartComp … SecondTimes` is `callibrate`, `StartTicks` to
`get_comp_counter` one sample, `Sample` is `add_sample` and the loop's condition.

`TicksStandOut` is what the constants 1000 and 3000 of `clock.c` suppose of the machine and nothing
checks: only a timer interrupt takes longer than `RECORDTHRESH`, and no gap with one interrupt is twice
as long. The compensation rests on it, and on gaps of `callibrate` with at most one tick. It is a
hypothesis of `TicksAreDeducted` only. Left out is the clearing of the cache before a sample (`clear`,
`cache_buf` and its setters, and the exit when `malloc` fails there): it is off by default and changes no
number that a property is about. `callibrate` may end with nothing recorded (100
ticks in gaps with other lengths), so `TicksAreDeducted` starts from `cyc_per_tick > 0`. A tick
between `times()` and `start_counter` is subtracted without having been counted, so a
sample may be too small, or negative; the property bounds it from above.

## 3. Runs

| run | instance | what it shows |
|---|---|---|
| `cache_calm` | 2 threads that share one of 3 URIs, 4 addresses, capacity 4, sizes 1, 3 and 4 (limit 3), 5 connections, behaviours that are `Undisturbed`; 510 000 states | under every interleaving of hits, misses, evictions and address reuse the list is well linked, `total_size` exact, nothing lost, and `LruCache` implemented |
| `cache_served` | the same threads, 3 addresses, capacity 3, sizes 1 and 2, 4 connections, fair; 289 000 states | every connection is served, without a fault, a search or an eviction that spins |
| `cache_shared_locks` | 3 threads, same URIs, a cache that holds two or three objects, 4 connections, realloc that may move; 588 000 states | whatever goes wrong in the list, the lock is right and is not waited for in a circle |
| `tsh_keys` | 3 children, 3 slots, 3 commands of every kind, ctrl-c and ctrl-z twice, one stop from elsewhere; 2 020 000 states | with nested handlers: no child untracked, no stale job, no child twice, distinct job ids, the shell waits for foreground jobs, states change as documented |
| `tsh_live` | 2 children, 2 commands without `fg` and `bg`, 2 keys, fair; 121 000 states | zombies are reaped; the prompt comes back when the job ends, a key reaches the foreground job and brings it back, unless the shell dies in one of its three windows; no key reaches another job, and no second job is in the foreground |
| `tsh_waitfg` | 1 child, 1 command; *violation* | `waitfg` dereferences NULL (section 4) |
| `range_check` | addresses 2–11, sizes to 6, 3 payloads, NULL; 4 150 states | accepted payloads overlap only by containment of an older one |
| `malloc_traces` | 3 blocks with indices 0, 1 and 128, 2 sizes, 52 words of memory, 7 requests; 51 000 states | tiling, lists, data, growth; `Allocator` is implemented |
| `passes` | 2 blocks, 2 sizes, 44 words; 2 traces of 3 requests, or of 5 that fill the heap; 2 speed runs; 143 000 states | the passes that check nothing keep payloads apart; the utilisation is at most 1 |
| `fcyc` | 2 calls, K 2 and 3, at most 3 samples, words of 8 values, ticks of 6 cycles among others of 2, none or two of them in the function; fair; 700 000 states | K best of the samples, convergence, the cycle count, the compensation, termination |
| `proxy_conn` | 2 threads, 3 connections, 5 descriptors, 2 addresses per name; fair; 475 000 states | who owns each descriptor, what leaks, every thread ends |
| `relay` | 140 responses: six headers with ten bodies, two that begin with an empty line, and all their prefixes; pieces of any size; fair; 15 000 states | no byte is lost or repeated, the object is what was sent, a well-formed response arrives whole, the relay ends if the header does |

*Bounds.* `MaxConn`, `MaxCmds`, `MaxKeys`, `MaxStops`, `MaxOps`, `NumTraces`, `MaxRuns`,
`MaxRanges` and `MaxSize` bound only the length of a behaviour or the number of inputs; they are
guards of the environment's actions. Why they suffice:

* *cache_calm.* Three URIs make a list with a first, an inner and a last object, so all
  branches of the unlinking occur; capacity 4 with sizes 1 and 3 makes zero, one and
  two evictions per insertion and an exactly full cache; five connections fill the
  cache and then hit, evict and refill, and make `Malloc` reuse an address. The two threads have one URI
  in common and one each, so that they hit, move and evict what the other one has inserted.
* *cache_served.* The same with one connection less and three addresses, for the
  search of fair cycles.
* *cache_shared_locks* is where everything that goes wrong happens: faults, searches
  and evictions that never end. The properties that hold there are those of the lock.
  A cycle in the list takes three threads and six connections (two hits on an inner object
  around a hit on its predecessor), so the run starts from the cache that two or three
  earlier connections have filled (`WarmInit`).
* *shell.* Three children are the smallest number for one running, one being reaped
  and one being added; two keys with SIGCHLD nest all three handlers, and the stop from elsewhere
  gives `fg` and `bg` a job that no key has stopped. The lists of the runs have a slot for every
  process, which `Tracked` needs; the theorems hold for lists that overflow.
* *malloc.* The two sizes (2 and 12 words) fall into different lists, split and do
  not split; 52 words let the heap grow once and then run out; with seven requests
  every branch of `place`, `coalesce` and `mm_realloc` (except the two above)
  is taken. Index 128 is one whose bytes the driver never recognises. The instance says nothing of requests of one word (see section 4) nor of
  more than two lists.
* *passes.* Two traces with three or four passes each make every pass follow every kind of
  other pass, with both parities of `cnt`; the longer traces fill the heap, so that a pass
  can run out of memory.
* *fcyc.* Samples of 20 and 22 cycles agree with themselves but not with each other within a
  tenth; two ticks in the function make the ticks of a sample zero to four; the counter starts near the end of its range, so that both words wrap; two
  events make `callibrate` replace what it has recorded. With K = 3 = maxsamples the sampler stops
  at both conditions at once.
* *proxy_conn.* The table has room for the listener, two clients and one server, or the
  other way round, so that every open may fail and every descriptor is reused.
* *relay.* A buffer of 3 under lines of 4 makes lines and chunks cross refills in every
  way; bodies of 0–7 bytes under an announced 6 and chunks of 5 are shorter, exact and
  longer than announced, with the wrap below zero; whole responses are shorter and
  longer than an object of 16. `SizeMod = 64` is larger than any response, as 2^32 is.

*Deadlock* is checked except in `malloc_traces`, where a trace ends after
`MaxOps` requests. `Halted` in `ProxyCache`, `Ended` in `Tsh` and `Relay`, `Exited` in `Passes` and
`Quiet` in `ProxyConn` mark legitimate ends.

`TypeOK` of `ProxyCache`, `ProxyConn`, `Relay`, `Tsh`, `RangeCheck`, `MDriver` and `Fcyc` is proved
(section 5); that of the other modules holds in the same runs and can be added to their configurations.

*Fairness.* `ProxyCache!Fairness` is weak fairness of every thread's steps: POSIX
threads are scheduled, peers answer (a peer that never does is outside the
property), and binary semaphores with a bounded number of connections do not starve.
Without the bound, readers that keep overlapping can starve a writer; `Served` does not
claim otherwise. `Tsh!FairSpec` is weak fairness of the main program, of
the running handler and of signal delivery, which the kernel gives; no child is
ever obliged to end and the user never to type, so `WaitEnds` starts when the
process has ended and `KeyEndsWait` when a key is typed. `Relay!FairSpec` is weak fairness of the thread: the server sends what it
has to send and closes (do_proxy sends `Connection: close`). `ProxyConn!FairSpec` is weak
fairness of each thread: its peers and the resolver answer or fail. `Fcyc!FairSpec` is weak
fairness of the program and strong fairness of the timer's ticks: the program may
not stay interruptible for ever without a tick, which is what a periodic timer does.

## 4. Disagreements between code and comments

Each is reachable in the models. One is a run; for the others the invariant or property named can
be put in the place of those of the configuration named, with the change given, and TLC shows
the behaviour.

*Cache.* The first four take away `CONSTRAINT Undisturbed`.

* *Two hits unlink one object twice* (`cache.c:97`; `TotalIsSum`, `ProxyCacheCalm.cfg`).
  `move_to_queue_back` does not ask whether the object is still in the list, and gives the lock up
  before `put_cache` takes it again. Two concurrent requests for one URI subtract its size twice.
* *What was found is evicted* (`proxy.c:77`; `MovesQueuedEntry`, `ProxyCacheServed.cfg`): the object
  is freed by another thread before it is sent and moved.
* *A URI is cached twice* (`proxy.c:79`; `ImplementsLru`, `ProxyCacheCalm.cfg`): two threads
  miss it, and `put_cache` does not look again. With `CONSTRAINT FindsKept` alone
  it still happens.
* All of the failures that follow (faults, searches round a cycle, evictions of nothing) are in
  `cache_shared_locks`, where they are allowed.
* *A value that realloc has moved* (`cache.c:73`; `proxy # "fault"`, `ProxyCacheCalm.cfg` with
  `ReallocMoves = TRUE`): `realloc_cache` drops the new address, and a hit sends from the old one.
  Implementations of realloc that shrink in place never show it; the C standard lets them move.

*Shell.*

* *`waitfg` dereferences NULL* (`tsh.c:341`; `WaitFgReturns`, run `tsh_waitfg`): the job is deleted
  between the two lookups of the loop. In the same way `tsh.c:399` follows a NULL of `getjobpid`,
  and a `kill` that fails (`tsh.c:317`, `381`, `396`) ends the shell. `setpgid` (`tsh.c:202`)
  may fail too, when the child is past `execve`; the model has it (`SetPgid`).
* *Two foreground jobs* (`tsh.c:322`; `OneForeground`, `TshLive.cfg` with `fg` in `Commands` and four
  commands). `do_bgfg` writes FG through its pointer after the SIGCHLD handler has cleared the
  slot. The free slot stays in state FG, and the next foreground command is the second.
* *ctrl-c reaches a background job* (`tsh.c:448`; `KeysForForeground`, weakened to `cmd = "run" \/ pc # "addst"`
  in its last line, `TshLive.cfg` with `fg` and three commands): `addjob` reuses that free slot for
  a background job, and between its pid and its state a key handler finds it in the foreground.
* *A stop from elsewhere is not noticed* (`StopNoticed`, a temporal property; `TshLive.cfg` with
  `MaxStops = 1`): the SIGCHLD handler ignores stops, and the shell waits on. `trace16.txt:2-3` says that the
  shell handles them.
* *A child that is in no list* (`tsh.c:460`; `Tracked`, `TshKeys.cfg` with `MAXJOBS = 2`): `eval`
  ignores that the list is full.
* *Two jobs with one id* (`tsh.c:451`; `JidsDistinct` without its premise, `TshKeys.cfg` with
  `MAXJOBS = 2`): after `MAXJOBS` jobs `nextjid` restarts at 1, which may be in use.

*Malloc lab.*

* *A shrinking realloc may lose the data* (`mm.c:394`; `NeverLost`, `Malloc.cfg` with `Ids = {0, 1}`).
  `place` may allocate the last part of the block, where the data is not. It depends on the parity
  of `cnt`. `mdriver.c:649` demands the data.
* *A realloc that is right is rejected* (`mdriver.c:656`; `NeverLost`, `Malloc.cfg`): the bytes of an
  index whose low byte is above 127 are read as negative numbers. It holds for every such
  index, wherever plain `char` is signed.
* *A valid trace may fail later* (`mdriver.c:720`; `ValidNeverFails`, `Passes.cfg`): `cnt` has another
  parity in the passes after the validity check, the blocks lie elsewhere, and a trace that
  has just been found valid runs out of memory.
* *An overlap that is not seen* (`mdriver.c:409`; `NoOverlap`, `RangeCheck.cfg`): a payload that strictly
  contains an older one passes the driver's test.
* *Small requests* (`mm.c:291`; `FreeBlockLayout`, `Malloc.cfg` with `Sizes = {1, 11}`): a request of up to
  8 bytes gets a block whose next pointer, once freed, overwrites its
  footer; the comment at `mm.c:80-85` describes a free block that would take 32 bytes.
* *A tick that takes too long* (`clock.c:232-234`; `TicksAreDeducted`, `Fcyc.cfg` with `TickCost = 12` and
  `WorkTicks = {0}`): when a tick takes more than twice `RECORDTHRESH`, a gap with one tick in it
  and another one just before `times()` is recorded at half its cost, and too little is deducted ever after.

*Connections.*

* *Error replies fill the table* (`proxy.c:65`; `NeverFull`, `ProxyConn.cfg`): each leaves a descriptor
  open, and when none is left `accept` fails and ends the proxy. In `Relay.cfg`,
  `pc = "done" => ~ clientOpen` fails for the same reason.
* *A hit closes any descriptor* (`proxy.c:115`; `OwnDescriptors` without `~ stray`, `ProxyConn.cfg`).
* *A header that is broken off* (`proxy.c:94`; `InOrder` and `RelayEnds` without `HeaderEnds # {}`,
  `Relay.cfg`): its last line is repeated for ever.

## 5. Proofs

`tlapm` checks every proof without a gap. They hold for every value of
the constants that satisfies the ASSUMEs of the modules: finite sets of threads and
addresses; `MAX_OBJECT_SIZE` at most `MAX_CACHE_SIZE`; any number of descriptors, connections,
children, slots, commands and keys; any range of heap addresses; any response and any buffer
sizes; any size of the simulated memory, number of free lists, block indices and requests;
any K, word size and costs of the timer, if a sample is shorter than the counter's range
(`RangeAssumption`). What a theorem assumes beyond that is its hypothesis and is named here.

* `ProxyCache_proofs`. `TypeCorrect` (`TypeOK`) is inductive as it stands. `LockCorrect`
  (`LockInv`): the strengthening is in `LockInv` itself — who holds `reader_mutex`
  (`MutexHeld`), whom `reader_cnt` counts, and that the thread waiting for
  `writer_mutex` as first reader is the only one counted (`FirstLastInv`). The last is
  needed because otherwise a second reader could be inside while the first waits; it
  holds because the first waits with `reader_mutex` held. `reader_cnt` is
  a cardinality, so each step adds or removes one element of `Counted`.
  `ReadersUndisturbed` (`StableWhileRead`) follows from `LockInv`: only
  writers change the list, and there is none while there is a reader.
  So does `LockNeverDeadlocks` (`SomeoneMoves`): a thread that has `reader_mutex` may wait for
  `writer_mutex`, and one that is counted may wait for `reader_mutex` before it can give
  `writer_mutex` back; the two cannot wait for each other, because a first reader that waits is the
  only one counted, so that it waits for a writer, and a writer waits for nothing. The lock
  theorems have no premise; `cache_shared_locks` checks them where `FindsKept` fails.
* `ProxyCache_proofs`, the list. `ListIsWellLinked`, `SizeIsExact`, `EveryObjectIsKept` and
  `NothingSpins` have the premise `[]FindsKept`: no thread takes out of the list what another has
  found and not yet moved. It restricts neither the URIs nor the number of threads nor the room:
  threads may share URIs, miss the same one, cache it twice and evict. Where
  it fails, by two hits on one object or the eviction of a found one, the code breaks the list
  (section 4), and the code does nothing to make it hold. `NoFault` needs also that `realloc` does
  not move a block it shrinks (`~ ReallocMoves`). The invariant is `ObjectsInv`: the
  list holds live and valid objects, and a live, valid object is in it or in transit
  (`EntriesInv`); every thread knows where its object is (`Holds`): one that was found has the
  thread's URI and stays in the list until the thread takes it out, one in transit is in
  no list; two threads in transit have different objects (`TransitApart`), because an object
  comes from the list, where nobody else has found it, or from the allocator; and
  values stay where they are unless realloc moves them (`Unharmed`).
  Two recursions are in the way, the walk `nth` along the list and the sum of the sizes, and
  neither needs an induction over data. `Chain(n, q)` says that the pointers hold together
  the objects `q[1] .. q[n]`, both ways; such a `q` solves the recursion of `nth`, and two
  solutions agree, since at the least index where they differ they would be equal
  (`NthUnique`). Every operation maps a chain to a chain: `Without` drops an index, `With`
  appends one. The sum is the number of pairs of an object and a byte of it (`Bytes`), a
  cardinality, to which an object adds a column; `FoldIsBytes` shows that the fold of
  the community modules has this value, again at the smallest set where it would not.
  For `NothingSpins`: a search meets NULL or its key, and an empty list has
  `total_size = 0`, so that the eviction loop has something to evict or stops. Without the
  premise TLC refutes it on the instance of `cache_shared_locks`.
* `ProxyCache_proofs`, the refinement. `CacheIsLru` (`ImplementsLru`) has the premise
  `[]Undisturbed`, which adds to `FindsKept` that no two threads are about to insert the same
  URI (`MissesApart`); `NULL` is not an entry. Every step of the threads is a step of `LruCache` or leaves its variables
  alone. `MoveOut` is `Take`; getting the lock for `put_cache` is `Offer`, of a held entry or of
  a new one; `Evict` is `EvictOldest`; `Put` is `Admit`. A chain that loses its k-th object is
  the sequence without its k-th element (`UnlinkFromSeq`), one that gains an object is
  the sequence with one more at its end (`LinkToSeq`), and the sum over the sequence is
  the bytes of the list (`TotalIsBytes`). `LruInv` adds two things to `ObjectsInv`. `LockInv`
  makes the writer unique, so that `incoming` is one thread's object. `Missed` says that a
  thread whose search found nothing still has no object of its URI in the list when it offers
  its own, although it held no lock meanwhile; this makes the offered entry `Fresh`,
  and it is what `MissesApart` is for.
  `EveryUriCachedOnce`, with the same premise, carries `KeysKnownOnce` of the abstract cache over to
  the code: no two objects have the same key. `put_cache` does not look for the URI in the
  list, so two threads that miss it together do cache it twice (section 4).
* `Relay_proofs`. `CacheHoldsWhatWasSent` (`CachedAsSent`) is nearly inductive: everything that is
  sent is offered to the object, except the error page. `BytesKeepTheirOrder` (`InOrder`) needs
  that what was sent, the line or chunk in progress and the unread buffer together are what
  `read` has returned (`Received`); a stale line would break this, so `NotYet` says that an end of
  the header is still ahead while lines are read. `ResponsesArriveWhole` (`WholeResponse`) adds that
  lines of a well-formed header begin where the buffer begins, that `content_len` is
  the announced length once the field has been sent (`AtLine`) and then counts the bytes
  that are missing (`InBody`). Both assume `MAXLINE > 2` (it is 8192): with 2 a line holds one
  byte and `\r\n` is never seen. `RelayTypeCorrect` needs that a line in progress fits its buffer.
  `RelayAdvances` (`Advances`) is a measure: 3 for each byte not yet read, 2 for one in the
  internal buffer, 1 for one in the caller's, and the phase of `do_proxy`. Each step lowers it if the
  header ends. A call that returns nothing lowers nothing; `NotYet` excludes it in the
  header (without its end the relay goes round for ever, section 4), and the body ends with it.
  The attempt to prove `WholeResponse` showed that it was false of a response that starts
  with an empty line, whose body is not relayed. `WellFormed` excludes it now, and the
  run has such responses.
* `LruCache_proofs`. `KeysKnownOnce` (`KnownOnce`): the abstract cache holds a key once, in the
  queue, in the hands of a hit or incoming. `KnownOnce` says also that the queue has no
  repetitions and that its three places are disjoint, which makes it inductive with the types:
  what a hit takes out is then gone from the queue (`TakenOut`).
  `None` must not be an entry.
* `ProxyConn_proofs`. `ThreadsOwnDescriptors` (`OwnDescriptors`) and `OnlyErrorRepliesLeak`
  (`NothingElseLeaks`), for any table, threads and cells. Neither is inductive: a thread
  starts with what its cell holds, so `OwnCells` says that cells of threads that have not
  started are distinct from each other and from main's, and hold the right client;
  `OneEach` says that a connection has one thread and one descriptor, without which a
  Close could hit the descriptor of another thread, or leave a second one behind;
  `OwnListener` keeps `BindFails` away from clients. All of them hold until a hit closes a
  descriptor it has not opened (`stray`), and again when the process has exited.
  `ConnTypeCorrect` needs `Ready`: an address is left while its socket is tried.
  `ThreadsAlwaysGetOn` (`ThreadsGetOn`) orders the places of `do_proxy`, and within
  `open_clientfd` counts the addresses left: the steps of a thread go down this order, and
  those of main and of other threads never up.
* `Tsh_proofs`, over lemmas on the list at its beginning (what deletion and
  insertion do to the pids of the slots). The goal is `NoStaleJob`: every listed job is an
  unreaped child, or one that a SIGCHLD handler has reaped and is about to
  delete. It is not inductive: `AddJob` lists `pid`, so `pid` must be a child then, and it
  might have been reaped by a handler that was already running. `Unreaped` (between fork
  and addjob SIGCHLD is blocked and none of its handlers is active) and `NewChild` (`pid`
  is a child not yet listed) close it; `ListedOnce` is needed for deletion, which clears
  one slot only. `Noticed` says that no child is forgotten: until `waitpid` has told of every one
  that has ended or stopped, SIGCHLD is pending or its handler is still in its loop, although
  any number of children share one pending signal; and that `eval` blocks it no longer than
  up to its second `sigprocmask`. `ShellInv` is their conjunction with `TypeOK`; `ShellInvariant`,
  `ShellTypeCorrect`, `NoJobIsStale` and `NoJobIsTwice` are the theorems, and `NoLostWakeUp`
  (`WakesUp`): while `waitfg` waits for a job whose process has ended, its SIGCHLD is being
  handled, or pending and not blocked.
* `Tsh_proofs`, what builds on `ShellInv`. `WaitedJobStaysForeground` (`WaitsForForeground`) and
  `JobsFollowTheDiagram` (`JobTransitions`) need five facts about what was looked up
  earlier and may be stale (`StateInv`): the job to wait for is FG or ST from addjob on
  (`Awaited`); the slot that addjob is filling belongs to the new child or to nobody
  (`Adding`); the job a key handler has decided to signal is FG or ST (`Signalled`), and so is the
  slot that `sigtstp_handler` has found and not yet marked, unless it has become free (`Found`); and
  the state that `do_bgfg` has checked is still there when it writes, with the same exception
  (`ModeChecked`). `OneForegroundJob` (`OneForeground`) and `KeysReachTheRun`
  (`KeysForForeground`: what the key handlers signal is the job in the foreground) assume
  that `fg` is not among the commands; with it both are false (section 4). `OnlyRun` says that an
  FG slot is the job `eval` has just added (`FgOfRun`), that addjob still has its own slot when it
  writes the state (`AddsOwn`), and that a handler that has found a foreground process has
  found that one (`KeysOfRun`). `EveryChildIsTracked` (`Tracked`) assumes a slot for every child: a
  child is listed unless ctrl-c was sent to it (`sent`), whose handler deletes the
  job of a child that may survive the signal. It rests on what the handlers on the stack know
  of their child (`FramesKnown`) and on a count of slots (`RoomForChild`).
  `JobIdsAreDistinct` (`JidsDistinct`) needs that `nextjid` is above all ids in use and grows no
  faster than the commands (`JidInv`), and what `maxjid` returns (`MaxJid`).
* `RangeCheck_proofs`. `OnlyContainmentOverlaps` (`OverlapOnlyByContainment`) and
  `StartsAreDistinct` (`StartsDistinct`), for any heap, alignment and number of ranges.
  The invariant adds that ranges are not empty: without it a new payload could lie in a gap
  its own end points do not describe. That two ranges with equal starts are the same
  range then follows, and it is also what makes the range `remove_range` picks unique.
* `Fcyc_proofs`. `ValuesAreBest` (`KBest`): the place of a number in `values` is a rank it has in
  the samples; ranks are counts of smaller samples (`Ranked`), and a new sample raises exactly
  those above it. `StopsOnAgreement` (`StopsWhenBestAgree`) reads the agreement of the K best off the
  ends of `values`. `CounterIsExact` (`CountsCycles`) is the arithmetic of two words with a borrow.
  These have no hypothesis.
  `CompensationDeductsTicks` (`TicksAreDeducted`) has one, `TicksStandOut`: only a tick
  takes longer than `RECORDTHRESH`, and none takes twice as long. `clock.c` takes this for granted;
  where it fails the theorem does too (section 4). It says that, once a
  `cyc_per_tick` has been recorded, a sample is at most the cycles of the function and of the
  interruptions that are not ticks, with any number of ticks in the function.
  The proof needs that the cycles of a sample are those of the
  function and of its interruptions, with at least as many ticks counted as are
  in them (`TickPaid`, `SampleShort`), and that a `cyc_per_tick` that was recorded is at least the
  cost of a tick (`Gap`, `QuotientHasTick`), which is where the hypothesis is used. Outside of the
  function there is at most one interruption between two readings. `FcycTypeCorrect` is the base.

* `MDriver_proofs`, the shape of a heap. The allocator trusts tags and pointers that earlier
  requests have written, so the argument is about what those can be. `Shape(h, B, S, A, H)`: the
  blocks `B` of sizes `S` tile the heap from the prologue to the epilogue (`Tiles`), each has the
  same tag at both ends, those of `A` are allocated, the others free and linked both ways in
  the lists of their sizes (`LinkedAs`, `Chains`). `H` are holes: blocks that an operation is working
  on, which are in no list and of whose contents nothing is known. `Unlink` makes a free block a hole,
  `InsertHead` closes a hole, `Tag` in it changes its size by splitting or merging
  (`SplitShape`, `MergeShape`), `mem_sbrk` adds one at the break (`GrowShape`). `place`, `coalesce`,
  `mm_malloc`, `mm_free`, `mm_realloc` and `mm_init` are then sequences of such steps, each
  of which leaves the words of the blocks of `A` alone (`Untouched`). For the copies of
  `mm_realloc` it is also shown that what `place` writes lies outside the payload just moved.
* `MDriver_proofs`, the walks. `Blocks`, `ListBlocks` and `FitIn` are recursive functions over
  the words of the heap. As with the list of the cache, each gets a candidate solution in closed
  form, of which it is shown that it solves the recursion and that no other function does
  (`VisitedSolves`, `ReachedSolves`, `WalkUnique`). That a list has no more blocks than the
  walk has steps needs that blocks have different places in their list and that every place
  below is taken (`PlacesTaken`).
* `MDriver_proofs`, the theorems. The inductive invariant is `DriverInv`: the heap has a shape without
  holes and, while the trace runs, the allocated blocks are the live ones of the trace, each at
  least as large as its request, at most four words larger, and filled with its data (`Traced`). The
  upper bound is what tells `mm_realloc`'s branches apart: a request that does not shrink
  never splits the old block, so it moves or keeps all of the data. From it follow
  `BlocksTile` (`Tiled`), `FreeListsExact` (`ListsExact`), `LivePayloadsIntact` (`LiveIntact`), and with
  `IsFit` (first fit finds a block if there is one) `NoNeedlessGrowth` (`GrowsOnlyWhenFull`).
  `NoBadRange`: the range list is that of the live payloads (`Ranged`), so the driver's test never
  rejects a block of this allocator; this is also the last part of `DriverTypeCorrect`.
  `DriverIsAllocator` (`ImplementsAllocator`): every request is a step of `Allocator`, the driver's
  verdict included. A request for a free index cannot lose data because nothing is compared. A
  resize whose bytes have moved away shrinks the block (`LostOnShrink`); one that keeps them
  is rejected all the same if the index has a fill byte that the driver reads as negative
  (`Unread`). `Allocator!Lose` allows these two and nothing else.
  *Hypotheses.* `RoomForLinks`: no request is of one word, that is of eight bytes or less; with such
  requests all of this is false (section 4, `FreeBlockLayout`). `WordAligned`: `ALIGNMENT = 1`,
  because the model's unit is the word of 8 bytes the code aligns to. `MMAssumption` asks that a
  page has at least two words, so that the first free block has room for its pointers.
* `MDriver_proofs`, the passes. `ReplaysStayApart` (`UncheckedApart`) and `UtilisationAtMostOne`
  (`UtilAtMostOne`), under `RoomForLinks`. `PassInv` (`PassInvariant`) has `DriverInv` while a trace is
  checked. In the other passes nothing is filled or compared, and the memory, the list heads
  and the parity of `cnt` are those that the passes before have left; `Replayed` says what remains
  true there: the heap has a shape without holes, and its allocated blocks are those that the
  trace has in use, each large enough for the size last given. `mm_init` leads from any memory to
  such a shape (`InitShape`), which is why the state left by an earlier pass cannot matter.
  In the utilisation pass `Counted` says that `total_size` is the cardinality of the words of the live
  payloads, and that `max_total_size` is at most the heap: payloads are disjoint and in the heap, and
  the heap never shrinks within a pass.

*Only model-checked:* the seven liveness properties (`Served`, `ThreadsEnd`, `RelayEnds`, `Reaped`,
`WaitEnds`, `KeyEndsWait`, `Returns`; `ENABLED` and fairness are out of the prover's reach).
The safety facts they rest on are theorems for five of them: `LockNeverDeadlocks` and
`NothingSpins` for `Served`, `ThreadsAlwaysGetOn` for `ThreadsEnd`, `RelayAdvances` for
`RelayEnds`, and `Noticed` with `NoLostWakeUp` for `Reaped` and `WaitEnds`.

## 6. Plan

Every component with a logic of its own is modelled, and every invariant and action property
that the passing runs check is proved, and so are the two refinements. What is left are extensions: a byte
stream without buffers that `Rio` implements, and an instance of `ProxyCache` with requests that
recur for ever, in which readers may starve a writer.

## 7. Not modelled

* *Text.* `parseline` of the shell, the syntax of traces, options, headers and URIs
  beyond the kinds the models tell apart, all printing and reports.
* *Floating point on external clocks.* `mhz`, `fsecs`' conversion to seconds, the interval
  timer of `ftimer.c`, the performance index.
* *The libc passes* of the driver: the same loops over an allocator that is not in the
  repository.
* *Dead code.* `linked_list_best_fit` and the debugging prints of `mm.c`, `mem_deinit`, and the
  wrappers of `csapp.c` that no program of the repository calls.
* *Tests and scripts.* `cache_test.c`, `sdriver.pl`, `driver.sh` and its helpers.
* *Requests of 2^31 bytes.* `mem_sbrk` takes an int and `ALIGN` wraps near `SIZE_MAX`; sizes
  in the models are small.

# A TLA+ model of the PDC laboratory programs

The repository holds the programs of a course on parallel and distributed
computing. The largest one by far is the cache simulator of
`src/Lab3/CacheSimulator`: a multi-processor simulator with a coherence
directory, snooping protocols, interconnects, threads, a barrier, a thread pool,
caches, a memory hierarchy, and the tools around it. Beside it stand SIMD
kernels (Lab 4), parallel skeletons (Labs 5 and 6), programs of threads (Lab 2) and
for graphics processors (Labs 7 and 8), and programs that talk through the kernel
(Lab 9). This directory models them in TLA+, checks the models
with TLC and proves the most important theorems with TLAPS for every value of
the constants.

Contents

1. The system: components, state, operations, interactions
2. Which behaviours are hard, and what has to be true
3. The modules and the code
4. The runs: questions, bounds, results
5. Fairness
6. What is proved, from what, and how
7. Where the code and its documentation disagree
8. Observations
9. What is not modelled
10. Plan

Paths without a laboratory are relative to `src/Lab3/CacheSimulator`; `mp/` is
`src/core/multiprocessor/`.

## 1. The system

| Component | State | Operations | Talks to |
|---|---|---|---|
| **Coherence directory** `mp/coherence_controller` | `directory_`: per address a MESI state, an owner, sharers, a dirty bit; six atomic counters | `processRequest` (six kinds), `updateCacheState`, `checkPermission`, `getCacheLineState`, `handleWriteback`, `resetStats` | called by every core; one mutex from the first to the last line of each call, but none in `resetStats` and `getStats` |
| **Processor cores** `mp/processor_core` | a private L1 `Cache`, counters | `access`, `atomicAccess`, `handleCoherenceRequest` | the directory, their L1; shared atomics `systemCycles_`, `maxCycles` |
| **Parallel traces** `MultiProcessorSystem::simulateParallelTraces` | one thread per core, `localCycles`, `maxCycles` | run a trace, fold the cycles with a weak compare-exchange loop, join | the cores |
| **Global barrier** `MultiProcessorSystem::globalBarrier` | `barrierCount_`, a mutex, a condition variable | one call per thread and round | its callers |
| **Coherence protocols** `core/{msi,mesi,moesi}_protocol` | the state of a line | local and remote reads and writes, eviction | whoever snoops on a bus |
| **Interconnects** `mp/interconnect` | bus flag, crossbar ports and FIFOs, routers with congestion, queues, counters | `sendMessage`, `receiveMessage`, `resetStats` of bus, crossbar, mesh, ring, torus | a thread per processor |
| **Thread pool** `utils/parallel_executor.h` | `tasks_`, `stop_`, workers, a mutex, a condition variable | `enqueue`, the worker loop, the destructor; `processTrace`, `processMultipleConfigs` | tasks may enqueue tasks on their own pool |
| **Cache** `core/cache` | sets of blocks, a policy per set, a stride predictor, a stream buffer, statistics | `access` (hit, stream hit, miss, eviction, write-back, install, prefetch), `invalidateBlock`, ... | the next level, by synchronous calls |
| **Replacement policies** `core/replacement_policy.h` | an order, bits or a clock per set | `onAccess`, `onInstall`, `selectVictim` of LRU, FIFO, Random, NRU, PLRU | the cache; not told of invalidations |
| **Memory hierarchy** `core/memory_hierarchy` | L1, optional L2 and L3, counters of its own | `access`, `processTrace`, `resetStats` | the caches |
| **Victim cache** `core/victim_cache.h` | slots, a FIFO queue of slot numbers, a `size_t` counter | insert, find, search, invalidate, clear | tests only |
| **Write policies, combining buffer** `core/write_policy` | two policies; entries with time stamps | `handleWrite`, `addWrite`, `flush` | tests only |
| **Adaptive prefetcher** `core/adaptive_prefetcher` | strategy, distance, confidences | record an outcome, adapt | the hierarchy (which reads nothing back) |
| **Configuration** `utils/config_utils` | `CacheConfig`s | load, save (JSON, INI), create, sweep, compare | files, the command line |
| **Trace parser, profiler** `utils/trace_parser`, `utils/profiler.h` | a stream and its counters; totals and regions | parse, parse all, reset, detect; track, define a region, reset | a trace file, the simulation, the analyzer |
| **SIMD kernels** `src/Lab4` | arrays | products, sums, norms, convolution, attention heads, quantization, pixels | each a plain loop and its vector version |
| **Skeletons** `src/Lab5`, `src/Lab6` | a pool of processes or a team of threads | map, reduce, scan, merge sort, wavefront; a loop with a reduction | workers that finish in any order |
| **GPGPU demonstrations** `src/Lab7/Code/DEMOS/OpenGL` | a double buffer, what is bound to its texture, which image was drawn last | bind, release, activate, run a program, read; reduce in one or two dimensions; step and reset a simulation | the driver, the window |
| **Threads and kernels** `src/Lab2`, `src/lab8` | counters, matrices, files, arrays; mutexes, a semaphore, barriers | programs that count, lock, multiply, sort, reduce | their threads, through memory |
| **IPC programs** `src/lab9` | pipes, FIFOs, shared memory, sockets, message queues | nine programs of two or three processes | each other, through what the kernel keeps |

The remaining components are in `PROJECT.json` with the reason why they are not
modelled (section 9).

How they interact: a core asks the directory for *permission*, if necessary
sends it a *request*, and then accesses its L1 without holding anything; the
directory answers with the list of processors that lose the line, which the core
ignores. The threads share nothing but the directory and atomic counters. In the
single-threaded simulator the hierarchy calls L1, L1 calls L2 from inside its
own `access` (write-backs, reads, prefetches), and after a miss the hierarchy
calls L2 and L3 once more. The protocols, the interconnects, the victim cache
and the write policies are libraries: only tests call them, and the models let
any client call them in any order their interface permits.

## 2. What is hard, and what has to be true

* **Interleavings.** Permission, request and use are separate critical sections;
  the folding of the cycles and all counters are concurrent; senders contend for
  a bus, ports and routers. Required: the directory is never a party to two
  writers (`LineSpec`), a grant is a grant (`GrantIsEffective`), the books
  balance (`AccountsAreSound`), the result is the maximum (`MaxOfThreads`), the
  bus is exclusive (`LinksAreSound`), no message is lost, doubled or overtaken
  (`ImplementsMailboxes`).
* **Long sequences of legal calls.** A processor drops a line the directory still
  believes it owns; `InvalidateRequest` leaves the dirty bit; blocks vanish
  behind the policy's back; a block returns to a slot that it was removed from.
  Required: `NoLeftovers`, `VictimsNamed`, `DirectoryConsistent`, `HopsPaid`,
  `OldestGoes`, `LastUsedIsSpared`, `AddressesAreUnique`, `SizeStaysBounded`,
  `StreamKeepsSize`, `DistanceRecovers`, `LastWriteIsOwed`, `CopiesAreCurrent`.
* **Waiting.** Condition variables, spurious wake-ups, pool tasks that wait for
  pool tasks, a destructor that joins, processes that wait for processes.
  Required: `NobodyLeavesEarly`, `WaitersAreReleased`, `TasksArePlaced`,
  `PoolEndsEmpty`, `ResultsAreFinal`, `Returns`, `Terminates`, `SendsReturn`,
  `EveryoneEnds`.
* **What is agreed and then not done.** The directory tells a writer whom it has
  invalidated, and nobody tells them. Required: `OthersAreInvalidated`.
* **Order inside one call.** Victim, write-back, read, prefetch and the second
  access of L2 cross each other. Required: `NoLostWrite`, `WellFormed`,
  `AccessedStays`, `StatisticsAgree`, `WritesAreKept`.
* **Crashes.** Processes are killed and restarted; queues, files and memory
  outlive them. Required: `NothingIsLeftOver`, `BindNeverFails`.
* **Partial and repeated reading.** Files say only some of a configuration, a
  stream is read again. Required: `FilesAreRead`, `ComparedInFull`,
  `EveryAccessIsCounted`.
* **Doing it in parallel.** Required: `SkeletonsAgree`, `KernelsAgree`,
  `BuffersAgree`, `ThreadsAgree`.

`PROJECT.json` lists each hazard at its line with the properties that watch it. Five
of those required do not hold; they are the runs with a counterexample (section 7,
with `Returns` of a full pool the sixth).

## 3. The modules and the code

| Module | Models | Correspondence |
|---|---|---|
| `CoherentLine` | nothing concrete: what directory and protocols promise | a line held by processors as M, E, S or I; a grant to read, a grant to write, a drop; `SWMR` |
| `CoherenceController` | `class CoherenceController` | `directory`, `known` (the keys), `stats`, `response`; one action per public operation, atomic because each holds `directoryMutex_` throughout; `resetStats` does not, and is an action for each of its six stores |
| `MultiProcessorSystem` | cores, L1s, trace threads | extends the directory; one action per call of the directory, per atomic operation, per L1 access (hit, hit in the stream buffer, miss); `pc[p]` is the position in `access`, `atomicAccess`, `handleCoherenceRequest` or the fold |
| `GlobalBarrier` | `globalBarrier` | the counter and where each thread is; one action from acquiring the mutex to releasing it |
| `ThreadPool` | `ThreadPool`, `processTrace`, `processMultipleConfigs` | `tasks`, `stop`, per thread its job and the child it submits or collects next, per task its future; a job may fail before it submits anything (`FailEarly`: the trace cannot be opened) |
| `CoherenceProtocol` | MSI, MESI, MOESI | the handlers as operators from a state to a state |
| `SnoopingCaches` | caches that follow one of them on a bus | a bus transaction is one action; `newest` and `saved` are ghosts: who has the last write, whether memory has it |
| `Mailboxes` | nothing concrete: what an interconnect promises | a FIFO box per source and destination |
| `Interconnect` | the five topologies | one action per stretch of `sendMessage` between two mutexes or atomics, `receiveMessage` of any thread, `resetStats` |
| `ReplacementPolicy` | the five policies | pure operators `OnAccess`, `OnInstall`, `Selections` |
| `CacheSet` | one set of a cache under a policy | hit, fill, replace, invalidate without end; ghosts record which way has not been renewed since which other (`idle`) and how many fills it has waited |
| `Cache` | `class Cache` | pure operators from a cache record to the new record, the hit flag and the requests to the next level, in order |
| `MemoryHierarchy` | `MemoryHierarchy`, `StridePredictor`, `StreamBuffer` | one action per way `access` can go: hit, hit in the stream buffer, miss, stopped by a write behind the end of the stream buffer (`OverrunAborts`); `resetStats` |
| `VictimCache` | `VictimCache` | slots, queue, counter; one action per operation, for valid and invalid blocks |
| `WritePolicy`, `WriteCombiningBuffer` | `core/write_policy` | the four combinations under a cache with a memory, or without a next level; the buffer at its limit |
| `AdaptivePrefetcher` | `AdaptivePrefetcher` | strategy, distance, counts of outcomes |
| `Configuration` | `ConfigManager` | a configuration, variants of it, a file that is a sequence of lines; two programs one after the other |
| `TraceParser`, `MemoryProfiler` | the classes of these names | a stream position and counters; totals and regions |
| `ProfiledTrace` | simulation and analysis of a trace | composes the two |
| `SimdKernels` | the kernels of Lab 4 | for each kernel the loop and its vectors; an action runs both on one input |
| `Skeletons` | Labs 5 and 6 | a round of jobs, taken in order and finished in any |
| `PugBuffers` | `pug.cpp` of Lab 7 and the two demonstrations that compute with it | a double buffer with two images and what the texture shows; an action per pass of a reduction and per frame; a pixel holds the set of elements combined in it |
| `ThreadScripts` | the programs of Lab 2, the kernels of Lab 8 | per thread the list of its accesses to what is shared |
| `ThreadPrograms` | threads, mutexes, barriers (external) and the steps between them | one action per access; a register per thread |
| `IpcPrograms` | the nine programs of Lab 9 | per process the list of its system calls |
| `ProcessIpc` | the kernel below them (external) and their processes | one action per call, `Kill`, and the start of the next program |
| `Structures` | the structures of one simulator, side by side | instances of `CacheSet`, `VictimCache`, `WritePolicy`, `WriteCombiningBuffer`, `AdaptivePrefetcher`, `Configuration`, `ProfiledTrace`; a behaviour is one of the part named by `part` |
| `*_proofs`, `FiniteSums` | the proofs, and sums over finite sets for them | section 6 |
| `MC*` | instances for TLC | section 4 |

The L1 of `MultiProcessorSystem` and the one of `Cache` are the same class seen
twice: in the multi-processor simulator addresses do not matter beyond their
block and set, the policy only chooses *some* victim and the statistics are three
counters, so a copy is its MESI state and dirty bit and the victim a
nondeterministic choice; `Cache` has all of it. `Structures` instantiates the
sequential modules side by side: a behaviour chooses one of them in `Init` and is a
behaviour of that one only; each property says of which `part` it speaks.
`MCStructures` adds the kernels, skeletons, buffers and threads of the other
laboratories and lets the parts that rest do so in one fixed state, so its
specification implies that of `Structures`. `MCCoherence` does the same for the
directory under any calls, the snooping caches and the interconnects, and `MCThreads`
for the pool, the barrier and the directory under the calls of the cores.

Abstractions, and why they are sound for what is checked:

* processor numbers are kept, and so is the conversion of `owner_ = -1` to
  `uint32_t` when it is inserted into `sharers_`: `WordModulus` stands for 2^32
  (16 in the runs; the proofs need only `2 * NumProcs < WordModulus`); the
  `size_t` of the victim cache wraps at `SizeModulus`, above any size it can have;
* blocks are numbers, tags and sets are computed from them as in
  `getTagAndSet`; addresses and strides wrap at `AddressSpace`, a power of two,
  as `uint32_t` does;
* `lastAccess_`, access counts of blocks, transition matrices and logs are written
  and never read by the simulation, and are left out;
* time stamps that come from one counter (FIFO, the combining buffer) are replaced
  by the order they induce;
* `InvalidateRequest`, `WritebackRequest`, `handleWriteback` and the two request
  kinds without a `case` are sent by no core; they are part of the public
  interface and are actions of `Spec`, while `AccessSpec` has only the calls the
  cores make;
* `handleCoherenceRequest` changes an L1 that has no lock. Two threads in it at
  once would be a data race; the model lets the owning core's thread run it
  between two operations, the only use that is defined;
* the bus under the protocols is external: `coherence_protocol.h` says what a
  handler is told (does another cache have a copy) and when it is called; a miss
  is one transaction. Where a latency is only returned to the caller it is left out;
* a message is its source and a number; a trace line or a line of a configuration
  file is its form; floating point summaries are left out, and SIMD numbers are
  integers: what is modelled is which elements meet which. The kernels that are
  linear in each argument are run on vectors with a single 1, which says all
  about them;
* a confidence of the adaptive prefetcher is known by whether it has ever moved;
  of one that has, every comparison with another may come out either way;
* of a Lab 9 program only the calls after the last `fork` are there that block or
  that somebody else notices. A `sleep` hopes that its peer is past some step; it
  may end before (`early`).

Constants for bounds: `MaxOps` (the sum of the directory's counters), `MaxAccesses` (the work of a core, the length of a
trace), `MaxRounds` (calls of the barrier),
`MaxSends`, `MaxConflicts`, `MaxQueue` (queue of the victim cache),
`MaxRefusals`, `MaxOutcomes`, `MaxCounted`, `MaxRuns`. They appear in guards
only. Definitions ending in a variation of their neighbour's name (`JoinedNot`,
`IsLastEarly`, `ScanInPlace`, ...) are plausible wrong versions of that neighbour;
nothing uses them, they document for each property a mistake that breaks it.

## 4. The runs

| Run | Question | Instance | Answer |
|---|---|---|---|
| `coherence` | Does the directory keep its promises to arbitrary clients (`NoLeftovers` `LineSpec` `VictimsNamed` `GrantIsEffective`)? Do MSI, MESI and MOESI keep a line coherent (`LastWriteIsOwed` `CopiesAreCurrent` `SnoopsImplementLine`)? Is a message delivered once and in order, and does every send return (`LinksAreSound` `StatisticsAgree` `SendsReturn` `ImplementsMailboxes`)? | 3 processors, 1 address; 4 caches, 2 lines; 6 processors, mesh and torus 3 wide, 3 senders, a destination that exists and one that does not, 3 messages, all 5 topologies; 119,260 states | yes |
| `system` | Do the threads, the caches and the directory agree? `AccountsAreSound` `MaxOfThreads` `Terminates` | 2 cores, 2 blocks competing for 1 way, accesses, atomics and requests of others, up to 2 operations a core; 696,834 states | yes |
| `invalidations` | Have those that a write invalidates lost their copy? `OthersAreInvalidated` | 2 cores, one after the other | no (section 7) |
| `threads` | Is every task run once, with its result, whatever throws (`TasksArePlaced` `PoolEndsEmpty` `ResultsAreFinal` `PoolReturns`)? May a thread leave the barrier early (`NobodyLeavesEarly`)? Does the directory stay in order under the calls of the cores, and are its hops paid once (`DirectoryConsistent` `HopsPaid`)? | 2 configurations of 1 chunk, 3 workers, one of each may throw; 4 threads, 2 calls each, spurious wake-ups; 3 processors, 1 address; 20,060 states | all as they should |
| `pool_nested_full` | ... with as many configurations as workers? `Returns` | the same pool with 2 workers | no (section 7) |
| `barrier` | Does the barrier let its waiters go? `WaitersAreReleased` | 3 threads, 1 call each | no (section 7) |
| `hierarchy` | Are blocks, writes and counters safe across levels? `WellFormed` `NoLostWrite` `AccessedStays` `StatisticsAgree` | 4 blocks, L1 of 2 ways (LRU/PLRU, write-back/through), direct-mapped L2 of 2 sets or none, NRU L3, prefetching on and off, 5 accesses; 895,523 states | yes |
| `stream_size` | Does the stream buffer keep its size? `StreamKeepsSize` | the same | no (section 7) |
| `structures` | What do the sequential structures keep, each under any calls (`OldestGoes` `AddressesAreUnique` `WritesAreKept` `DistanceRecovers` `ComparedInFull` `FilesAreRead` `EveryAccessIsCounted`)? Do the other laboratories compute in parallel what one process computes (`SkeletonsAgree` `KernelsAgree` `BuffersAgree` `ThreadsAgree`)? | below; 323,803 states | yes |
| `plru` | Does PLRU spare the block used last? `LastUsedIsSpared` | the same, PLRU only | no (section 7) |
| `victim_size` | Does the victim cache know its size? `SizeStaysBounded` | the same | no (section 7) |
| `ipc` | Do the programs of Lab 9 answer, clean up, start again and end? `EveryoneIsAnswered` `NothingIsLeftOver` `BindNeverFails` `EveryoneEnds` | any 2 of the 9 programs one after the other, any process killed at any time; 46,716 states | yes, with the exceptions that `MayHang` and the ghosts name |

Why these bounds are enough:

* *coherence, directory.* Entries of different addresses never meet, so one address is
  all; with three processors there is an owner, a requestor and a third party (two
  sharers beside a writer). The counters bound the run, and any client may reset them
  at any time, one by one: so `MaxOps = 2`, the least that lets every call count, bounds
  no sequence of calls, and every state of an entry is reached, including the one with
  the converted -1 among the sharers (read, drop, read), followed by anything. The cores (run `threads`)
  never reset, and `MaxOps = 12` serves at least four requests.
* *coherence, snooping.* The state is finite, so the run is complete: an owner, a sharer,
  a requestor and a bystander, and a second line beside the first. Proved for every
  number.
* *coherence, network.* A 3-by-2 mesh is the smallest in which a path turns and in which
  two senders share a router; three messages let two be on the way in front of a
  third. Queues keep the messages until somebody receives, so a fast sender can
  overtake. One of the senders is at the destination itself, the other destination does
  not exist. Spurious wake-ups stop after `MaxConflicts` counted conflicts.
* *system.* With one way per set each core's second block evicts the first, so
  there are hits, misses and silent evictions; one of the two blocks is that of address 0,
  which a new stream buffer pretends to hold. A core's work counts accesses, atomics
  twice and requests handled for others: two of them per core give every combination
  of hit or miss, shared or owned, and every overlap of two operations; the fold of two
  threads has every order of load, exchange and reload. `MaxOps = 99` is never reached.
* *invalidations.* The cores take turns (`TurnsSpec`): what an L1 is left with is not
  the work of a race. Two accesses each let the first own a line that it has asked for.
* *barrier.* Three threads and one call each are enough for the counterexample. In
  `threads` four threads call twice, so the last one of the first round enters the
  second while waiters of the first have not left. The safety property is proved for
  every number.
* *pool.* Three workers for two configurations is the smallest pool that can make
  progress and still has two jobs blocked at once; every order of submission,
  wake-up, exception and destruction occurs. Safety is proved for every number.
* *hierarchy.* Two ways in L1 and one per set in L2, so that either level evicts
  what the other keeps; `Addresses` are multiples of the table size, so strides of
  0, 2, 4 and 6 (which is -2) occur. A prefetch needs an access, three with the
  same stride and a confidence of 2: four accesses, one more uses its result.
  The configuration is chosen in `Init`, so one run has all combinations.
* *structures.* A set of 4 ways is the smallest in which PLRU has more than one
  level; its state is finite. A victim cache of 2 slots and 4 addresses: an
  insertion over a full cache, a removal from either end of the queue and the
  return of an address into a slot that was sorted away; the queue is longer than the
  slots only when it has gone wrong, and `MaxQueue = 3` cuts it one longer. A combining buffer of 3 entries for 5
  addresses is at its limit and past it. The prefetcher reaches both ends of its
  distance (1 and 5) and enough outcomes to adapt. Configurations have sizes
  that are 0, a power of two and none, one way or two, and files with and without
  an L2. Traces of two lines, each of any form; a profile of up to four accesses
  (two passes). Vectors of 0, 7 and 25 elements: nothing, less than a vector, and
  three vectors and a rest. Arrays of up to 13
  rows or columns: up to three passes that do not fit a power of two, after a
  reduction that has left both images full. In `plru` the other policies are left out,
  because a counterexample needs none of them. Two threads that increment three times
  are the least for which only two increments may be left; five numbers fill one
  block of four threads and begin a second. Two workers and two processors make every order of finishing.
* *ipc.* Two runs suffice for what the first leaves to the second (the safety
  properties are proved for every number); the clients of
  the socket programs are two, so that one waits behind the other. No deadlock
  check: the last program ends.

What the less obvious properties say:

* `SkeletonsAgree` and `KernelsAgree`: the result of one process and of a plain loop;
  `BuffersAgree`: a reduction combines every element exactly once (`ReducedExactly`) and a
  frame is drawn from the last one (`ShowsTheYoungest`); `ThreadsAgree`: what the cells
  hold when `main` returns, also where a program shows an error (`Results`): a race leaves
  from two to all increments, crossed locks stop only when each thread holds what the
  other wants; and who excludes whom (`Exclusion`). Any other way to stop would be a
  deadlock of the run.
* `LineSpec`, `SnoopsImplementLine`: the directory, seen through
  `getCacheLineState`, and the snooping caches take only steps of `CoherentLine`.
  Two implementations of one abstract line, each by its own refinement mapping
  (`held <- Views`, and the states with Owned read as Shared).
* `VictimsNamed`: a processor that loses its right to another's request is in the
  returned list. The counterpart, that the list is *delivered*, is false (the
  L1 copies stay; section 7).
* `AccountsAreSound`: whenever no core is inside an operation, the transitions the
  directory counted are the misses of all cores, and the sum of all cycles is made
  of hits, misses and hops, up to one hop per read request (a downgrade is paid
  but not counted anywhere).
* `HopsPaid`: the list that a write is charged for is a vector to which sharers and
  owner are appended without a comparison (`ListLength`); that nobody is in it twice,
  and so paid for twice, is a fact about the entries the cores can produce.
* `StatisticsAgree` (of `coherence`) compares counters with ghosts when nobody is inside
  a send; a reset at any time, also in the middle of one, is part of the model.
* `NoLostWrite`: every block whose last write L1 took is owed by a cache from
  which it can still be written back, or memory has it. `unsaved` and `last` are
  ghosts. With stream-buffer hits on writes L1 takes nothing (section 8).
* `LastWriteIsOwed` and `CopiesAreCurrent` together are what a cache protocol is
  for; in MOESI the data of an owner is passed on for ever without being saved,
  and an eviction of the owner must save it although others have copies.
* `ImplementsMailboxes`: seen as a box of letters per source and destination
  (`Mail`), every step of every topology posts a letter, hands out the oldest, or
  does nothing. Between two sources nothing is promised: a crossbar prefers the
  lowest one.
* `LinksAreSound`: on the crossbar a sender takes a port it did not wait for, and
  frees one that another took; that a taken port always has somebody inside who
  will free it is not obvious from the code.
* `AddressesAreUnique`: no two slots of the victim cache, valid or not, have one address.
  It holds also after queue and counter have gone wrong (section 7), because an insertion
  looks at all slots.
* `DistanceRecovers`: however often the distance of the prefetcher was halved, when most
  prefetches are useful the next adaptation lengthens it.
* `FilesAreRead`: what a file in the manner of `configs/` says of the levels is
  what is loaded. Of files that the program has saved itself it says nothing (section 8).
* `ComparedInFull`: `compareConfigs` asks L1 alone for the block size and
  prefetching; it nevertheless finds every difference, because whatever made or
  varied the configuration kept L2 in step.
* `EveryoneIsAnswered`: as long as nobody was killed and no `sleep` was too short,
  whoever asked and ended has exactly one answer, of its own run, to its own
  question.
* `EveryoneEnds`: `MayHang` lists who may wait for ever; everybody else ends, also
  when any process is killed at any time. So the ends of pipes are closed
  everywhere they have to be.

## 5. Fairness

* `SystemSpec`: weak fairness of each thread: the threads are plain
  `std::thread`s that never wait for a condition; the directory's mutex is held
  only for the length of a call. Strong fairness of a *successful*
  compare-exchange: `compare_exchange_weak` may fail spuriously and the loop
  repeats it; without the assumption that repeated attempts with the right value
  succeed some time no such loop terminates on any machine. The
  remote requests have no fairness: nobody has to send one.
* `ThreadPool`: weak fairness of each worker, of each job and of the destructor.
  Spurious wake-ups have none: `Returns` must not depend on them.
* `Interconnect!FairSpec`: weak fairness of each sender inside `sendMessage`;
  a sender that waits for the bus is woken by a notification, not by fairness.
  Nobody has to start a send or to receive.
* `ProcessIpc`: weak fairness of each process whose call can return: the
  scheduler of the kernel. Killing has none.
* `FairBarrierSpec`: a thread that was woken gets the mutex and tests the predicate.
  So the counterexample is not one of a thread that is never scheduled. Spurious
  wake-ups have none, and would not help (`WaitersAreStuck`).
* The other modules have no liveness property and no fairness.

## 6. What is proved

The proofs rest on the assumptions on the constants and nothing else:
`ControllerAssumption` (at least one processor, a latency that is a natural
number, ids that fit with room for the converted -1), `BarrierAssumption`,
`SystemAssumption` (each address has a block, at least one way, kinds of
operations), `PoolAssumption` (at least one worker, every task enqueued in one
place only, because each call of `enqueue` makes a new one),
`InterconnectAssumption` (the rows of a mesh are complete: with an incomplete last
row messages go through processors that do not exist, section 8) and
`HierarchyAssumption` (the caches have a set and a way, which the constructor of
`Cache` checks; addresses wrap at a multiple of the block size), and
`StructuresAssumption` (at least two ways, for with one there is nothing to choose, and a
power of two of them if PLRU is among the policies, as its constructor demands; a
victim cache of at least one slot whose counter does not wrap below its size; a buffer
with an entry; a distance of at least one), and `IpcAssumption` (the programs chosen
are programs of Lab 9, and at least one is started). The protocols need none. TLC evaluates the assumptions in every run that uses them.

Some theorems add hypotheses about how the simulator is used:

* `"Remote" \notin Kinds` in the theorems about `AccessNext`: the trace drivers
  never call `handleCoherenceRequest` for another core; if somebody does, an entry
  may keep a state without an owner, and TLC finds that.
* `Kinds \subseteq {"Access"}` in `AccountsStaySound`: the run `system` checks the accounts
  with atomics and the requests of others too, the proof is about traces.

| Theorem | Statement | Argument |
|---|---|---|
| `TypeCorrect` | `Spec => []TypeOK` | one case per operation; the invalidation list is a finite set of ids (`InvalidateSharersType`), so its cardinality is a number |
| `LeftoversNeverSurvive` | `Spec => []NoLeftovers` | entry by entry (`CleanStep`); inductive relative to `TypeOK` |
| `DirectoryImplementsLine` | `Spec => LineSpec` | initial states by `InitRefines`, steps by `StepRefines`; a read request maps to `GrantRead`, a write request to `GrantWrite`, everything else to a `Drop` of some set of views or of none. Needs `NoLeftovers`: with sharers left over from an earlier state a downgrade would grant to third parties |
| `SingleWriter` | `Spec => []Line!SWMR` | already a property of one entry: `ViewOf` gives exclusive rights to the owner only |
| `GrantsAreEffective` | `Spec => GrantIsEffective` | a step that counts a request is one of five (`RequestsRespond`); what the entry and the response become determines the caller's view (`EffectiveFrom`) |
| `VictimsAreNamed` | `Spec => VictimsNamed` | per request: whose view the new entry takes is in the list of the response (`AnswerTells`); other entries do not change |
| `SimulatorKeepsDirectoryConsistent` | `AccessSpec => []DirectoryConsistent` | the four parts of an entry; false under `Spec`, where a transition to Invalid leaves a state without an owner |
| `BarrierTypeCorrect`, `WaitersAreStuck`, `BarrierIsSafe` | the counter stays below the number of threads; whoever waits never returns; nobody leaves early | the invariant ties the counter below `NumThreads` (so the predicate of `wait` is false in every reachable state) and each thread's returns to the arrivals of the others |
| `CoresAreClients` | `SystemSpec => Spec` | every step of a thread is a call of the directory or leaves it alone; so all of the above holds in the simulator |
| `SystemImplementsLine` | `SystemSpec => LineSpec` | corollary of the two refinements |
| `TracesKeepDirectoryConsistent` | `SystemSpec => []DirectoryConsistent` without remote requests | the same step lemma with `AccessNext` |
| `ResultIsTheSlowestThread` | `SystemSpec => []MaxOfThreads` | the invariant `SystemInv` |
| `SnoopTypeCorrect`, `LastWriteIsNeverLost`, `NoStaleCopies` | the invariants of `SnoopingCaches` | the invariant `Coherent` |
| `SnoopingImplementsLine` | `Spec => SnoopsImplementLine` | a read miss maps to `GrantRead`, a write to `GrantWrite` (a write to a line that is already Modified changes nothing), an eviction to a `Drop` |
| `RequestsArePaid`, `TracesPayTheirHops` | `AccessSpec => HopsPaid`, and in the simulator | per request: who loses the view and who is downgraded is read off the old entry (`DirectoryConsistent`: an owner is never beside sharers), the hops off the length of the list |
| `CachesNeverOverfill` | `SystemSpec => []SystemTypeOK` | the invariant `CachesInv` |
| `AccountsStaySound` | `SystemSpec => []AccountsAreSound` | the invariant `AccountsInv`; a step changes the account of one core, so a sum by the same amount (`SumUpdate` of `FiniteSums`) |
| `LinksStaySound` | `Spec => []LinksAreSound` | the invariant `LinkInv` |
| `InterconnectImplementsMailboxes` | `Spec => ImplementsMailboxes` | the letters of a pair are the numbers of its messages in the queue (`NumbersFrom`), with the one in flight appended; a step changes them at one end |
| `CountersAgree` | `Spec => []StatisticsAgree` | the invariant `CountInv`; the distances are those of the networks: for the mesh, a hop on the route shortens the rest by one |
| `HierarchyInvariant` | `Spec => []HierarchyInv` | by layers: policy, cache, a row of requests, prefetch, `access` |
| `CachesStayWellFormed`, `WritesAreNeverLost`, `PrefetchSparesTheBlock`, `CountersStayInStep` | the four invariants of the run `hierarchy` | corollaries of it |
| `TasksAlwaysPlaced`, `PoolIsLeftEmpty`, `ResultsStay` | the safety properties of the pool | the invariant `PoolInv` |
| `OldestIsReplaced`, `LastUsedIsReplaced` | `StructuresSpec => []OldestGoes`, `[]UsedLastIsVictim` (what the run `plru` shows for four ways), for any number of ways | the invariant `SetInv`; for PLRU, that what an access writes along the way up is what the selection follows down (`PointedIsFollowed`) |
| `VictimsAreFiledOnce` | `StructuresSpec => []AddressesAreUnique`, for any size and addresses | the invariant `VictimInv` |
| `WritesStayKept` | `StructuresSpec => []WritesAreKept` | the invariants `WritesInv` and `CombiningInv` |
| `PrefetchingRecovers`, `PrefetcherSettles` | `StructuresSpec => []DistanceRecovers`, `SettlesOnStride` | the type invariant: the distance is never 0; and nothing moves a confidence under Adaptive |
| `DifferencesAreAllFound`, `FilesSayWhatIsLoaded` | `StructuresSpec => []ComparedInFull`, `[]FilesAreRead`, for any numbers in a configuration | the invariant `ManagerInv`; a file is read line by line by the transitions of the parser |
| `AccessesAreCounted` | `StructuresSpec => []EveryAccessIsCounted`, for traces of any length | the invariant `ProfilingInv` |
| `SocketsCanBeBound` | `Spec => []BindNeverFails`, for any programs, runs and kills | the invariant `BindInv` |
| `KernelIsLeftClean` | `Spec => []NothingIsLeftOver` | the invariants `ObjectInv`, `StreamInv`, `MailInv`; what ends undisturbed cleans up (`ItCleansUp`), so the next program starts as the first did (`Begun`) |
| `EveryAskerIsAnswered` | `Spec => []EveryoneIsAnswered` | the invariant `AnswerInv`, one part per kind of program |

Why `SystemInv` is needed: `MaxOfThreads` speaks only of the end. What the loop
maintains (`Folding`) is that no thread in the loop has read more than
`maxCycles`, that every thread that is done is covered by it, and that it is 0 or
the cycles of a thread that is done. The step that would break it, an exchange
with a stale expected value, is excluded by the guard of the exchange. That
`localCycles` are natural numbers needs the latency of the directory's
responses, hence `TypeOK`; that a running operation has an address (`Running`)
makes its calls calls of the directory's interface.

Why `Coherent` is needed: the properties say what each copy must have; a step of
one cache preserves them only if one knows what can stand beside it. `Exclusion`
says it: beside Modified or Exclusive only Invalid, beside Owned only Shared
or Invalid. A silent write to an Exclusive copy, and the eviction of a copy
that is not saved, are right only because of it.

Why `PoolInv` is needed: `TasksArePlaced` says where tasks are, but an `enqueue`
preserves it only if the enqueued task was nowhere before. `Fresh` says so: the
children a job has not yet enqueued, and all children of a task that has not been
taken, have no future yet. It holds because no task has two parents
(`OneParent`), and because of two workers no two run the same job, which
is part of `TasksArePlaced` again: the parts are inductive only together. `Fit`
ties the place of a thread to its job and to `stop_`; with `GoneMeansDrained` it
makes the end of the destructor the end of all tasks.

Why `CachesInv` and `AccountsInv` are needed: the run compares the cores with the
directory *between* operations; inside one they disagree all the time. `AccountsInv`
books what is under way: a latency not yet added to a core's cycles (`Pending`), a miss
counted and not yet requested (`Unpaid`). `CachesInv` says that no set holds more valid
blocks than ways, and that all counters are numbers.

Why `LinkInv` and `CountInv` are needed: on the crossbar a sender that was woken takes
a port it did not wait for, so that a taken port has a sender inside is not a fact
about any one sender. `LinkInv` gives each sender a place in its method from which
what it holds follows (`PlaceOK`). `CountInv` adds what each sender still owes the
counters; the statement is about the moment in which nobody owes anything.

Why `HierarchyInv` is needed: that a write-back names the right block, and one is
enough, holds because the tags of a set differ (`TablesOK`); that a victim is a way at
all, because a policy's order is a permutation of the ways (`OrderOK`); that the
prefetch spares the block just installed under LRU, because it stands first and
with two ways the first is not the last (`NotNext`). The counters of L2 need to
know that the last request L1 makes for a miss is the read of the missed block, so
that L2 has it when the hierarchy asks again.

Why `SetInv` is needed: the ghost `idle` says which way has not been renewed since which
other, the list of a policy in which order it thinks they were. `Aged` ties the two (of
two ways the one further back has not been renewed since the other), `Waits` says that a
valid way has waited for fewer fills than its place in the list, because every fill that
passes it by moves it one place back. For PLRU the invariant is that the bits lead to the
way that was renewed last. An access points the bits on the path from the leaf up, the
selection follows them from the root down; both recursions are along the same nodes
(`NodesAboveChain`). In the model the root is the node above which there is none; the code
counts levels instead, which comes to the same for a power of two.

Why `VictimInv` is needed: an insertion takes a slot for an address that none has, valid
or not (`Apart`); that the slot it takes exists and that the one it evicts is one of the
cache needs the types of queue and slots, which eviction, removal and sorting have to keep.

Why `CombiningInv` is needed: `KeepsTheLatest` is about the addresses alone; the step of a
write that is already combined needs that the buffer is the *end* of the order of all
writes. Why `ManagerInv` is needed: what a file says is known only when it is read
back, maybe by the other program, so the invariant speaks of the *lines* (`About`): they
are those of a file in the manner of `configs/` for one configuration, or those of a saved
one. What the parser makes of seven or twelve lines is then computed by following
its transitions (`JsonLoaded`, `IniLoaded`, `SavedJson`, `SavedIni`), for any numbers in them.

Why `ProfilingInv` is needed: returned and counted are folds over what was read, and
reading fails and starts again. `ReaderInv` says that what was returned is what the lines up
to the position say (`ReadUpTo`), and the counters are those before the last reset and these;
`ProfileInv` that every region has counted the tracked accesses that lie in it *since it
was defined*, and that the totals by region are sums over regions that come and go
(`FiniteSums`).

Why the invariants of `ProcessIpc` are needed: `BindNeverFails` holds because whoever is at
its `bind` has just removed that path and nobody else makes it (`Own` gives each process
one path): `BindInv`. Every process may be killed between any two calls, so what the
kernel holds is stated against the *place* of the process that is to remove it:
`ObjectInv` says that memory and queue are empty once the parent is past its removal,
and that it waited for its child before. `StreamInv` says the same of the path of the stream
server, and that a client in its backlog, or the one it serves, still waits
for the answer; without that the server might be killed by SIGPIPE and leave the path.
`MailInv` says that what is under way is of this run, unless an earlier one was
killed; it is preserved by the start of a program only because of `CleansUp`, so the two
are proved together.

An answer is the work of two processes, and `AnswerInv` says where it is between them.
For the pipes, FIFOs and socket pairs (`PipeInv`): who is before which call, what lies in
which direction, and that each end that somebody will need is held, by which a reader
never sees the end of the file in place of an answer. For `ls | wc` (`PipelineInv`): lines
written are lines in the pipe or counted, and `wc` cannot see the end while `ls` is
there. For shared memory (`MemoryInv`): between store and fetch the memory holds the
question until the child is through and the answer after. For the queue (`QueueInv`): letters of
type 1 are the parent's, of type 2 the child's, and in `d2` there is none of
type 2 before the parent is past the call that does not wait. For the socket servers
(`SocketInv`, `DatagramInv`): what lies in the channel or at the path of a client is
the server's answer to it, and the last thing the server got is from the peer it answers.
All of this is false after a kill or an early `sleep`, and claimed of neither.

Induction: the library's induction theorems are out of the provers' reach, so a fact
about every step of a recursion is proved for the *least* step that would violate it
(`LeastNumber`, and `SmallestSet` for finite sets). Recursive functions are read
through predicates that say what their values are (`Reads`, `Descends`, `Serves`), and
sums are those of `FiniteSums`. The model of LRU's list is a shift instead of a
filter, and the requests to a level a function on the positions, so that this can
be done; TLC finds the same states with either. For the same reason the ghost of
`CacheSet` is a relation between ways and not a list.

Only model-checked: liveness (`Returns`, `Terminates`, `SendsReturn`,
`EveryoneEnds`), which is out of the prover's reach; and `SkeletonsAgree`, `KernelsAgree`,
`BuffersAgree` and `ThreadsAgree`, most of which say that two recursions over the data
agree (induction over data).

## 7. Where the code and its documentation disagree

Six runs end in a counterexample:

1. **`processMultipleConfigs` can block for ever** (`pool_nested_full`).
   `src/utils/parallel_executor.h:206`: configurations are pool tasks that enqueue
   chunks on the same pool and wait for them.
2. **Invalidations are not delivered** (`invalidations`). `mp/processor_core.cpp:44`:
   the answer to a write names who is invalidated, and nobody tells them;
   `docs/features/multiprocessor.md:65` says "Write Miss: I→M (invalidate others)". Core 0
   reads and then writes an address, the second time with a request, and is its owner;
   core 1 writes it; both L1 caches hold it Modified.
3. **The barrier never releases its waiters** (`barrier`).
   `mp/processor_core.cpp:327`: the last thread sets `barrierCount_ = 0` before any
   waiter can evaluate `barrierCount_ >= numProcessors`; the comment above it says
   "Last processor, wake all others". `WaitersAreStuck` proves that no spurious
   wake-up helps, for any number of threads above one.
4. **PLRU evicts what was used last** (`plru`).
   `src/core/replacement_policy.h:361` points the bits at the accessed block; the
   comments at 355 and 360 say away from it. `LastUsedIsReplaced` proves it for every
   power of two of ways.
5. **The stream buffer shrinks** (`stream_size`). `src/core/stream_buffer.cpp:42` resizes
   it to the size it already has; `tests/unit/core/stream_buffer_test.cpp:108` asserts
   that the size stays. Once it is empty, the next prefetch writes behind its end
   (line 30): the model goes on as if nothing had happened, or stops (`OverrunAborts`).
6. **The victim cache may count below zero** (`victim_size`).
   `src/core/victim_cache.h:103`: a block put back into the invalid slot of its own address
   is not counted, its removal is; `tests/unit/core/victim_cache_test.cpp:244` asserts
   that the size is at most the maximum, and it is 2^64 - 1.

## 8. Observations

Met while modelling; where the code is modelled the models have them, no run is
about them.

*Directory and cores*

* A downgrade of a Modified owner leaves `dirty_` set and writes nothing back
  (`mp/coherence_controller.cpp:47`; `docs/features/multiprocessor.md:57` calls a
  Shared block clean). Nothing reads the bit.
* `updateCacheState(Invalid)` resets the owner and keeps the state. The next
  reader downgrades owner -1, and 4294967295 becomes a sharer that later
  "invalidations" are counted and paid for (`coherence_controller.cpp:50`).
* An address without an entry passes `checkPermission`
  (`coherence_controller.cpp:165`): the first access of each core, read or write, sends
  no request as long as nobody has made an entry, so two cores can write one block and
  the directory knows of neither.
* `atomicAccess` is three critical sections and does not keep the line
  (`processor_core.cpp:92`).
* `resetStats` zeroes six counters without the mutex, while requests add to them.
* The directory is keyed by byte address: two words of one block are two lines.
  `invalidateBlock` drops the whole block and `handleCoherenceRequest` tells the
  directory of one address, so a core may stay entitled to the other word of a block
  it has lost. Nor is the directory told of an eviction, nor of an access that hits in the
  stream buffer and installs nothing: a right to a line says nothing about the L1.
* A pool of no workers (`hardware_concurrency()` may return 0) blocks its first
  `get`; `PoolAssumption` excludes it.
* `partitionTrace` reads lines with `"%c %x"`: of `P0 r 0x10` it takes address 0,
  so the parallel and the sequential reading of a multi-processor trace disagree;
  JSON lines are skipped, and each chunk starts with a cold simulator.

*Caches and hierarchy*

* NRU clears all reference bits, that of the block just accessed included, and may
  evict it next.
* A write that hits in the stream buffer returns "hit" and is written nowhere
  (`core/cache.cpp:106`). The buffer starts filled with zeros, so with prefetching
  the first access to address 0 is such a hit. Its header says a write marks the
  block dirty.
* In the multi-processor simulator an L1 has a stream buffer and no stride predictor: its
  buffer only ever holds the zeros it was built with, and serves accesses of address 0.
* With `prefetchDistance = 0` the first prefetch writes behind the end of the stream
  buffer (excluded by `HierarchyAssumption`).
* The stride table is indexed by address modulo its size, so an entry sees only
  strides that are multiples of the size.
* A write-through write *miss* installs the block dirty and Modified and writes it
  back on eviction, in addition to what write-through promises.
* Each L1 miss reaches L2 twice, from L1 and then from the hierarchy
  (`core/memory_hierarchy.cpp:77`); without prefetching L1's own read has always filled L2
  by then, so the hierarchy counts no L2 miss and never goes on to L3, where
  `docs/developer/architecture.md:127` says "L1 miss → L2 access → L2 miss → L3 access".
  Without an L2, L1's write-backs go past L3 to
  memory. Inclusion of L3 is documented (`docs/features/l3-cache.md`) and a
  placeholder in the code.
* `prefetchHit` in `core/memory_hierarchy.cpp:55` is never set, so the adaptive
  prefetcher is told of no outcome; and its strategy Adaptive becomes Stride with the
  first adaptation and stays it (`PrefetcherSettles`; `docs/developer/architecture.md:171`
  says it "Dynamically selects between prefetching strategies").
* Victim cache: Sorting moves the slots the queue points at; evicted dirty
  blocks are dropped; it is called thread-safe and has no lock.
* A write-through, no-allocate miss without a next level reports 0 writes; the
  combining buffer returns false but does not say which address it dropped.
* `MemoryPool::allocate` indexes the second of one block before any reset.

*Interconnects* (used by tests only)

* A mesh whose last row is incomplete routes through processors that do not exist
  (8 processors, from 6 to 2).
* The crossbar's "round-robin" takes the lowest source first, and a sender that
  finds the port taken counts a conflict and goes on (`mp/interconnect.cpp:276`).
* The input queue of a mesh router is never emptied and the congestion of the
  routers on the way never decreases. Bus, ring and torus count messages to
  destinations that do not exist.

*Configuration, command line, traces, profiles*

* Saved JSON comes back with only a block size (top-level keys are caught by the
  branch of L1, and the top-level branch is dead); the L1 of a loaded file starts
  uninitialised; the comment at `utils/config_utils.cpp:12-14` says that the parser
  "handles all standard configuration options correctly"; a saved INI file never loads (an empty line makes the parser
  throw); a nested object closes its level's section, so the `write_policy` objects
  of `configs/*.json` are ignored.
* `loadConfig` and the sweeps never validate; the command line accepts an L2 whose
  size is no power of two, which `validateConfig` rejects; seven or more words
  without a file are taken for the old positional form, where a word that is no
  number throws. `-e trace` takes the trace file for the output path, `-p 4core.txt`
  eats a trace name that starts with a digit.
* `TraceParser::reset` keeps the counters: `tests/unit/core/cache_test.cpp:84`
  expects 3 accesses after the second reading and gets 6, prints a message and returns. The analyzer parses three
  times; `generateFilteredTrace` drops the core; in `generateMixedTrace` an empty
  pattern makes the later ones disappear while true is returned.
* `MemoryProfiler::firstAccess` takes 0 for "none", so address 0 is forgotten;
  defining a region again would reset its statistics.

*Other laboratories*

* Lab 4: `05_mha_block` and `06_tiny_gpt` transpose the keys before a product that
  already expects its second factor transposed; the scores are products with
  scrambled keys, unnoticed because the loop and the vectors share it. `rmsnorm`
  normalises over all tokens at once; a negative brightness saturates upwards;
  vectors round where the loop cuts off, so equal pixels come out different by
  position; `run_block` takes members of a null pointer.
* Lab 2: the cells of the solution notebook were renamed after they had been run
  (`pthread_mutex_mtx`, `semaphore_objaphore.h`) and do not compile as they are saved;
  the model reads the POSIX calls of the first notebook. The README there speaks of
  Python. "All print 5" in Q4 is the usual outcome, not the only one: without the
  `sleep` a thread may read any value from its own number on. The counter of Q3 is
  not protected and may end one above its limit.
* Lab 7: `testReductions` reads the temporary buffer also when `pugReduce1D` has
  returned its input (a width or a height of 1) and then compares what an earlier
  reduction left there.
* Lab 5: `parallel_reduce` with fewer numbers than processors calls `range` with
  step 0 (`Refused` in `Skeletons`).
* Lab 9: `b1` and `d2` rely on `sleep`; `d2` hangs if the reply comes before the
  call that does not wait; killed, `d1` and `d2` leave messages that the next run
  receives, for both use the same key; the parent of `d1` hangs if its child is
  killed; the second stream client is never accepted; a datagram that fills the
  buffer is ended one byte behind it.

## 9. What is not modelled

* Of modelled components: `warmup`, exports and getters of `Cache`; `memoryBarrier`
  (its queue is never filled) and `routeToSharedCache` (never called);
  `ParallelBenchmark` and the text handling of `partitionTrace`; latencies and
  bandwidth figures; the addresses the adaptive prefetcher proposes (nothing
  issues them); pattern detection and locality of the profiler, which are floating
  point summaries of what is counted; the trace generator, which writes text; the
  options of the command line, which are passed on.
* `MemoryPool`: no defined behaviour to check (section 8), and no user.
* Lab 4: what the demonstrations print of single instructions, softmax, random
  weights, times. Lab 8: the matrix products, whose threads share nothing. Lab 7: the
  demonstrations that only draw, and the loading of programs and creation of windows. Lab 6: tasks that only print from threads; the racy variants of
  task 4, which are commented out.
* Logging, visualisation, power and area formulas, report tools: output and formulas
  in floating point without state that another part reads.

More than half of the lines of the repository are of this last kind: the vendored
headers of Lab 4 and of OpenGL in Lab 7, demonstrations of drawing, printing and parsing of
text. They have no control worth checking, and a model of them would only
repeat them.

## 10. Plan

Done: the directory, the cores, the barrier, the pool, the caches and their
policies, the hierarchy, the protocols, the interconnects, the write policies,
the victim cache, configuration, traces and profiles, the kernels and skeletons,
the programs of Labs 2, 8 and 9, the buffers of Lab 7; the proofs of section 6, of
every safety property of the passing runs but those of the other laboratories' programs
that only compute.

Left, in order of what matters most:

1. The hierarchy under the protocols: several private hierarchies on a bus. The
   code does not connect them; a model would say what it takes to do so.
2. The text handling of `partitionTrace` beside `TraceParser`, as two readers of
   one trace.

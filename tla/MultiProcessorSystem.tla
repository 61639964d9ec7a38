------------------------ MODULE MultiProcessorSystem ------------------------
(***************************************************************************)
(* The processor cores and simulateParallelTraces: one thread per core     *)
(* runs its trace against a private L1 cache and the shared directory, and *)
(* then folds its cycles into maxCycles.  Between two calls of the         *)
(* directory a thread touches only its own core, so each call of the       *)
(* directory, each atomic operation on shared counters and the L1 access   *)
(* between them is one action.  The directory is CoherenceController's.    *)
(***************************************************************************)
EXTENDS CoherenceController

CONSTANTS
  Blocks,        \* the L1 blocks
  BlockOf,       \* BlockOf[a]: the block of an address
  SetOf,         \* SetOf[b]: the cache set of a block
  Associativity, \* ways of a set
  WriteBack,     \* the write policy of the L1 caches
  Zero,          \* the address 0, if it is one of Addresses
  Distance,      \* prefetchDistance of the L1 caches, 0 without prefetching
  Kinds,         \* the operations on a core: "Access", "Atomic", "Remote"
  MaxAccesses    \* bound of the model: the work of a core

ASSUME SystemAssumption ==
  /\ BlockOf \in [Addresses -> Blocks]
  /\ Associativity \in Nat \ {0}
  /\ WriteBack \in BOOLEAN
  /\ Distance \in Nat
  /\ Kinds \subseteq {"Access", "Atomic", "Remote"}
  /\ MaxAccesses \in Nat

VARIABLES
  pc,            \* where the thread of each core is
  op,            \* the operation it runs: address, kind, isWrite
  latency,       \* the latency it has accumulated
  l1,            \* l1[p][b]: the copy core p has of block b
  zeros,         \* the length of the stream buffer of each core, all of it zeros
  counters,      \* totalAccesses_, l1Hits_, l1Misses_ and atomicOperations_ of each
                 \* core; handled: the requests of others it has handled
  returned,      \* ghost: the cycles that atomic accesses have returned to their
                 \* callers, who keep no account of them
  localCycles,   \* localCycles of each thread
  systemCycles,  \* systemCycles_
  maxCycles,     \* maxCycles
  current        \* the value of maxCycles each thread has read

coreVars == <<pc, op, latency, l1, zeros, counters>>
cycleVars == <<localCycles, systemCycles, returned, maxCycles, current>>
vars == <<directory, known, stats, response, pc, op, latency, l1, zeros, counters,
          localCycles, systemCycles, returned, maxCycles, current>>

BaseLatency == 1
HitLatency == 1
MissPenalty == 10

NoCopy == [state |-> "I", dirty |-> FALSE]
Copy == [state : MESI, dirty : BOOLEAN]

Places == {"ready", "atomic", "check", "request", "l1", "miss", "keep",
           "register", "account", "fold", "done"}

NoOperation == [address |-> None, kind |-> "None", isWrite |-> FALSE]

Goto(p, place) == pc' = [pc EXCEPT ![p] = place]

Spend(p, cycles) == latency' = [latency EXCEPT ![p] = @ + cycles]

Total(counter) == SumFunction([p \in Procs |-> counters[p][counter]])

CountOf(p, counter) == counters' = [counters EXCEPT ![p][counter] = @ + 1]

\* The bound of the model: a core makes so many accesses, each atomic one counted twice,
\* and handles so many requests of others.
Work(p) == counters[p].total + counters[p].atomics + counters[p].handled

SystemInit ==
  /\ Init
  /\ pc = [p \in Procs |-> "ready"]
  /\ op = [p \in Procs |-> NoOperation]
  /\ latency = [p \in Procs |-> 0]
  /\ l1 = [p \in Procs |-> [b \in Blocks |-> NoCopy]]
  /\ zeros = [p \in Procs |-> Distance]
  /\ counters = [p \in Procs |-> [total |-> 0, hits |-> 0, misses |-> 0,
                                  atomics |-> 0, handled |-> 0]]
  /\ returned = 0
  /\ localCycles = [p \in Procs |-> 0]
  /\ systemCycles = 0
  /\ maxCycles = 0
  /\ current = [p \in Procs |-> 0]

-----------------------------------------------------------------------------
\* The next line of the trace, or a call of processAtomicAccess.
Issue(p, a, kind, w) ==
  /\ pc[p] = "ready" /\ Work(p) < MaxAccesses
  /\ op' = [op EXCEPT ![p] = [address |-> a, kind |-> kind, isWrite |-> w]]
  /\ latency' = [latency EXCEPT ![p] = 0]
  /\ Goto(p, IF kind = "Atomic" THEN "atomic" ELSE "check")
  /\ UNCHANGED <<dirVars, l1, zeros, counters, cycleVars>>

\* atomicAccess first gets the ownership of the line, also to read it.
AtomicRequest(p) ==
  /\ pc[p] = "atomic"
  /\ CountOf(p, "atomics")
  /\ WriteRequest(p, op[p].address)
  /\ Spend(p, response'.latency)
  /\ Goto(p, "check")
  /\ UNCHANGED <<op, l1, zeros, cycleVars>>

\* access: the permission is read from the directory, and used afterwards.
Check(p) ==
  /\ pc[p] = "check"
  /\ CountOf(p, "total")
  /\ Spend(p, BaseLatency)
  /\ Goto(p, IF CheckPermission(p, op[p].address, op[p].isWrite) THEN "l1" ELSE "request")
  /\ UNCHANGED <<dirVars, op, l1, zeros, cycleVars>>

\* access: the request.  Read and write requests are always granted
\* (GrantIsEffective), so the branch for a refusal is never taken.
Request(p) ==
  /\ pc[p] = "request"
  /\ IF op[p].isWrite THEN WriteRequest(p, op[p].address)
                      ELSE ReadRequest(p, op[p].address)
  /\ Spend(p, response'.latency)
  /\ Goto(p, "l1")
  /\ UNCHANGED <<op, l1, zeros, counters, cycleVars>>

SameSet(b) == {c \in Blocks : SetOf[c] = SetOf[b]}
Held(p) == {b \in Blocks : l1[p][b].state # "I"}

\* What a hit makes of a copy: a write-through write cleans it and leaves the
\* MESI state alone.
AfterHit(c, w) ==
  IF ~w THEN c
  ELSE IF WriteBack THEN [state |-> "M", dirty |-> TRUE]
  ELSE [c EXCEPT !.dirty = FALSE]

Installed(w) == [state |-> IF w THEN "M" ELSE "E", dirty |-> w]

AfterAccess(p) == IF op[p].kind = "Atomic" /\ op[p].isWrite THEN "keep" ELSE "account"

\* Cache::access of the private L1, a hit.
L1Hit(p) ==
  LET b == BlockOf[op[p].address] IN
  /\ pc[p] = "l1" /\ b \in Held(p)
  /\ l1' = [l1 EXCEPT ![p][b] = AfterHit(@, op[p].isWrite)]
  /\ CountOf(p, "hits")
  /\ Spend(p, HitLatency)
  /\ Goto(p, AfterAccess(p))
  /\ UNCHANGED <<dirVars, op, zeros, cycleVars>>

\* A block that is not in the L1 is looked for in the stream buffer.  The cores give
\* their L1 no stride predictor, so nothing is ever prefetched and the buffer holds the
\* zeros it was built with: the access of address 0 hits them, installs nothing, and
\* a read takes one of them away.
InStream(p) == op[p].address = Zero /\ zeros[p] > 0

StreamHit(p) ==
  /\ pc[p] = "l1" /\ BlockOf[op[p].address] \notin Held(p) /\ InStream(p)
  /\ zeros' = IF op[p].isWrite THEN zeros ELSE [zeros EXCEPT ![p] = @ - 1]
  /\ CountOf(p, "hits")
  /\ Spend(p, HitLatency)
  /\ Goto(p, AfterAccess(p))
  /\ UNCHANGED <<dirVars, op, l1, cycleVars>>

\* findVictim evicts only from a set without an invalid way.
IsFull(p, b) == Cardinality(Held(p) \cap SameSet(b)) >= Associativity

\* A miss: the block is installed, in a full set over a victim of the policy.
\* The directory is not told of the eviction.
L1Miss(p) ==
  LET b == BlockOf[op[p].address] IN
  /\ pc[p] = "l1" /\ b \notin Held(p) /\ ~InStream(p)
  /\ \E victims \in IF IsFull(p, b) THEN {{v} : v \in Held(p) \cap SameSet(b)} ELSE {{}} :
       l1' = [l1 EXCEPT ![p] =
                [c \in Blocks |-> IF c = b THEN Installed(op[p].isWrite)
                                  ELSE IF c \in victims THEN NoCopy
                                  ELSE l1[p][c]]]
  /\ CountOf(p, "misses")
  /\ Goto(p, "miss")
  /\ UNCHANGED <<dirVars, op, latency, zeros, cycleVars>>

\* handleL1Miss: the directory records a transition.
HandleL1Miss(p) ==
  /\ pc[p] = "miss"
  /\ UpdateCacheState(p, op[p].address, IF op[p].isWrite THEN "M" ELSE "S")
  /\ Spend(p, MissPenalty)
  /\ Goto(p, AfterAccess(p))
  /\ UNCHANGED <<op, l1, zeros, counters, cycleVars>>

\* The end of atomicAccess: updateCoherenceState(address, Modified).
KeepExclusive(p) ==
  LET b == BlockOf[op[p].address] IN
  /\ pc[p] = "keep"
  /\ l1' = IF b \in Held(p) THEN [l1 EXCEPT ![p][b].state = "M"] ELSE l1
  /\ UpdateCacheState(p, op[p].address, "M")
  /\ Goto(p, "account")
  /\ UNCHANGED <<op, latency, zeros, counters, cycleVars>>

\* processAccess adds to systemCycles_ and the trace thread to its localCycles;
\* processAtomicAccess, which no trace thread calls, adds to neither.
Account(p) ==
  /\ pc[p] = "account"
  /\ LET cycles == IF op[p].kind = "Access" THEN latency[p] ELSE 0 IN
       /\ systemCycles' = systemCycles + cycles
       /\ localCycles' = [localCycles EXCEPT ![p] = @ + cycles]
       /\ returned' = returned + (latency[p] - cycles)
  /\ Goto(p, "ready")
  /\ UNCHANGED <<dirVars, op, latency, l1, zeros, counters, maxCycles, current>>

\* handleCoherenceRequest: the L1 first.  The Cache has no lock of its own, so
\* the caller must keep the core's thread out: the core handles it itself.
HandleRemote(p, a, req) ==
  LET b == BlockOf[a]
      st == l1[p][b].state
  IN
  /\ "Remote" \in Kinds /\ pc[p] = "ready" /\ Work(p) < MaxAccesses
  /\ \/ req = "Invalidate" /\ st # "I"
     \/ req = "Share" /\ st \in {"M", "E"}
     \/ req = "Flush"
  /\ l1' = [l1 EXCEPT ![p][b] = IF req = "Share" THEN [@ EXCEPT !.state = "S"]
                                ELSE NoCopy]
  /\ op' = [op EXCEPT ![p] = [address |-> a, kind |-> "Remote", isWrite |-> req # "Share"]]
  /\ CountOf(p, "handled")
  /\ Goto(p, "register")
  /\ UNCHANGED <<dirVars, latency, zeros, cycleVars>>

\* handleCoherenceRequest: then the directory.
Register(p) ==
  /\ pc[p] = "register"
  /\ UpdateCacheState(p, op[p].address, IF op[p].isWrite THEN "I" ELSE "S")
  /\ Goto(p, "ready")
  /\ UNCHANGED <<op, latency, l1, zeros, counters, cycleVars>>

-----------------------------------------------------------------------------
\* End of the trace: the thread reads maxCycles.
EndOfTrace(p) ==
  /\ pc[p] = "ready"
  /\ current' = [current EXCEPT ![p] = maxCycles]
  /\ Goto(p, "fold")
  /\ UNCHANGED <<dirVars, op, latency, l1, zeros, counters, localCycles, systemCycles,
                 returned, maxCycles>>

\* A failed compare_exchange loads the value it found; the mutant keeps the old one.
ReloadNot(p) == current
Reload(p) == [current EXCEPT ![p] = maxCycles]

\* compare_exchange succeeds on the expected value only; the mutant always.
ExchangeMatchesNot(p) == TRUE
ExchangeMatches(p) == maxCycles = current[p]

\* compare_exchange_weak: it may fail although the values agree.
FoldFails(p) ==
  /\ pc[p] = "fold" /\ localCycles[p] > current[p]
  /\ current' = Reload(p)
  /\ UNCHANGED <<dirVars, coreVars, localCycles, systemCycles, returned, maxCycles>>

FoldSucceeds(p) ==
  /\ pc[p] = "fold" /\ localCycles[p] > current[p] /\ ExchangeMatches(p)
  /\ maxCycles' = localCycles[p]
  /\ Goto(p, "done")
  /\ UNCHANGED <<dirVars, op, latency, l1, zeros, counters, localCycles, systemCycles,
                 returned, current>>

FoldNotNeeded(p) ==
  /\ pc[p] = "fold" /\ localCycles[p] <= current[p]
  /\ Goto(p, "done")
  /\ UNCHANGED <<dirVars, op, latency, l1, zeros, counters, cycleVars>>

\* Every thread has been joined.
AllJoined == \A p \in Procs : pc[p] = "done"
Ended == AllJoined /\ UNCHANGED vars

Run(p) ==
  \/ \E a \in Addresses, k \in Kinds \ {"Remote"}, w \in BOOLEAN : Issue(p, a, k, w)
  \/ AtomicRequest(p) \/ Check(p) \/ Request(p)
  \/ L1Hit(p) \/ StreamHit(p) \/ L1Miss(p) \/ HandleL1Miss(p)
  \/ KeepExclusive(p) \/ Account(p) \/ Register(p)
  \/ EndOfTrace(p) \/ FoldSucceeds(p) \/ FoldNotNeeded(p)

SystemNext ==
  \/ \E p \in Procs : Run(p) \/ FoldFails(p)
  \/ \E p \in Procs, a \in Addresses, req \in {"Invalidate", "Share", "Flush"} :
        HandleRemote(p, a, req)
  \/ Ended

\* Threads run on; the traces are finite (MaxAccesses); a weak compare-exchange
\* that is tried again and again with the right value succeeds some time.
SystemFairness ==
  \A p \in Procs : WF_vars(Run(p)) /\ WF_vars(FoldFails(p)) /\ SF_vars(FoldSucceeds(p))

SystemSpec == SystemInit /\ [][SystemNext]_vars /\ SystemFairness

-----------------------------------------------------------------------------
SystemTypeOK ==
  /\ TypeOK
  /\ pc \in [Procs -> Places]
  /\ l1 \in [Procs -> [Blocks -> Copy]]
  /\ \A p \in Procs, b \in Blocks : Cardinality(Held(p) \cap SameSet(b)) <= Associativity
  /\ latency \in [Procs -> Nat] /\ zeros \in [Procs -> 0 .. Distance]
  /\ maxCycles \in Nat /\ systemCycles \in Nat

\* No core is between the start and the end of an operation.
Idle(p) == pc[p] \in {"ready", "fold", "done"}
Quiet == \A p \in Procs : Idle(p)

\* What the threads have added up one by one is what the directory has counted under
\* its lock: each L1 miss and each request handled for another registered one
\* transition, and an atomic access at most one more; each request was one message; and
\* the cycles of all accesses are the hits, the misses and one interconnect latency per
\* message, per invalidation and at most one more per read request (the downgrade of an
\* owner).
CyclesBalance ==
  Quiet =>
    LET own == Total("total") * BaseLatency + Total("hits") * HitLatency
                 + Total("misses") * MissPenalty
        hops == stats["coherenceMessages"] + stats["invalidations"]
        cycles == systemCycles + returned
        registered == Total("misses") + Total("handled")
    IN /\ stats["stateTransitions"] >= registered
       /\ stats["stateTransitions"] <= registered + Total("atomics")
       /\ stats["coherenceMessages"] = stats["readRequests"] + stats["writeRequests"]
       /\ systemCycles = SumFunction(localCycles)
       /\ cycles >= own + InterconnectLatency * hops
       /\ cycles <= own + InterconnectLatency * (hops + stats["readRequests"])

\* The accounts, with the caches and counters they are kept in.
AccountsAreSound == SystemTypeOK /\ CyclesBalance

\* simulateParallelTraces returns the cycles of its slowest thread, in whatever
\* order the threads read and exchange maxCycles.
MaxOfThreads ==
  AllJoined => /\ \A p \in Procs : localCycles[p] <= maxCycles
               /\ \E p \in Procs : localCycles[p] = maxCycles

\* Every thread reaches the end of its trace and is joined.
Terminates == <>AllJoined

\* docs/features/multiprocessor.md:65: "Write Miss: I->M (invalidate others)".  When a
\* core has finished a write that it asked the directory for, the cores that the answer
\* names as invalidated have lost their copy of the block.
OthersAreInvalidated ==
  \A p \in Procs :
     (pc[p] = "ready" /\ response.requestor = p /\ response.request = "Write")
       => \A q \in response.invalidated \cap Procs :
            l1[q][BlockOf[response.address]].state = "I"
=============================================================================

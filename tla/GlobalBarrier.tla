---------------------------- MODULE GlobalBarrier ----------------------------
(***************************************************************************)
(* MultiProcessorSystem::globalBarrier: a counter under barrierMutex_ and  *)
(* the condition variable barrierCV_.  Whatever a thread does between two  *)
(* points where it does not hold the mutex is one action: arriving, and    *)
(* evaluating the wait predicate again after a wake-up.                    *)
(***************************************************************************)
EXTENDS Naturals, FiniteSets

CONSTANTS
  NumThreads,     \* config_.numProcessors: one calling thread per processor
  MaxRounds     \* bound of the model: calls of globalBarrier per thread

ASSUME BarrierAssumption == NumThreads \in Nat \ {0} /\ MaxRounds \in Nat \ {0}

VARIABLES
  where,          \* where each thread is
  barrierCount,   \* barrierCount_
  arrivals,       \* calls of globalBarrier each thread has made
  returns         \* calls that have returned

barrierVars == <<where, barrierCount, arrivals, returns>>

Threads == 1 .. NumThreads

\* "waiting": in barrierCV_.wait; "woken": about to take the mutex again.
BarrierPlaces == {"outside", "waiting", "woken"}

BarrierInit ==
  /\ where = [t \in Threads |-> "outside"]
  /\ barrierCount = 0
  /\ arrivals = [t \in Threads |-> 0]
  /\ returns = [t \in Threads |-> 0]

\* The test for the last thread, on the incremented counter; the mutant takes
\* one thread too early for it.
IsLastEarly(count) == count >= NumThreads - 1
IsLast(count) == count >= NumThreads

\* The last thread resets the counter before it wakes the others, or does not.
ResetCountNot(count) == count
ResetCount(count) == 0

\* The call, up to the wait: this thread is not the last one.
ArriveEarly(t) ==
  /\ where[t] = "outside" /\ arrivals[t] < MaxRounds
  /\ ~IsLast(barrierCount + 1)
  /\ barrierCount' = barrierCount + 1
  /\ arrivals' = [arrivals EXCEPT ![t] = @ + 1]
  /\ where' = [where EXCEPT ![t] = "waiting"]
  /\ UNCHANGED returns

\* The call of the last thread: reset, notify_all, return.
ArriveLast(t) ==
  /\ where[t] = "outside" /\ arrivals[t] < MaxRounds
  /\ IsLast(barrierCount + 1)
  /\ barrierCount' = ResetCount(barrierCount + 1)
  /\ arrivals' = [arrivals EXCEPT ![t] = @ + 1]
  /\ returns' = [returns EXCEPT ![t] = @ + 1]
  /\ where' = [u \in Threads |-> IF where[u] = "waiting" THEN "woken" ELSE where[u]]

\* A condition variable may wake a waiter without a notification.
WakeSpuriously(t) ==
  /\ where[t] = "waiting"
  /\ where' = [where EXCEPT ![t] = "woken"]
  /\ UNCHANGED <<barrierCount, arrivals, returns>>

\* A woken thread holds the mutex again and evaluates the predicate of wait.
WaitPredicate == barrierCount >= NumThreads

WaitAgain(t) ==
  /\ where[t] = "woken" /\ ~WaitPredicate
  /\ where' = [where EXCEPT ![t] = "waiting"]
  /\ UNCHANGED <<barrierCount, arrivals, returns>>

\* The predicate holds: wait returns and so does globalBarrier.
LeaveWait(t) ==
  /\ where[t] = "woken" /\ WaitPredicate
  /\ where' = [where EXCEPT ![t] = "outside"]
  /\ returns' = [returns EXCEPT ![t] = @ + 1]
  /\ UNCHANGED <<barrierCount, arrivals>>

\* LeaveWait is the return of the source; no reachable state enables it
\* (WaitersNeverLeave), so BarrierNext has it only through Recheck.
Recheck(t) == IF WaitPredicate THEN LeaveWait(t) ELSE WaitAgain(t)

BarrierNext == \E t \in Threads :
          ArriveEarly(t) \/ ArriveLast(t) \/ WakeSpuriously(t) \/ Recheck(t)

BarrierSpec == BarrierInit /\ [][BarrierNext]_barrierVars

\* A woken thread gets the mutex; nobody relies on spurious wake-ups.
FairBarrierSpec == BarrierSpec /\ \A t \in Threads : WF_barrierVars(Recheck(t))

-----------------------------------------------------------------------------
BarrierTypeOK ==
  /\ where \in [Threads -> BarrierPlaces]
  /\ barrierCount \in 0 .. NumThreads - 1
  /\ arrivals \in [Threads -> Nat]
  /\ returns \in [Threads -> Nat]

\* Nobody returns from its k-th call before every thread has made k calls.
NobodyLeavesEarly ==
  \A t, u \in Threads : returns[t] <= arrivals[u]

\* "Global synchronization barrier (all processors)" (processor_core.h:219), "Last
\* processor, wake all others" (processor_core.cpp:326): once everybody has called,
\* everybody returns.
WaitersAreReleased ==
  (\A t \in Threads : arrivals[t] >= 1) ~> (\A t \in Threads : returns[t] >= 1)

\* What the code does instead, whatever the wake-ups: a thread that had to wait never
\* returns, because the last one resets the counter under the mutex before any waiter
\* can evaluate barrierCount_ >= numProcessors.
WaitersNeverLeave ==
  [][\A t \in Threads : where[t] # "outside" => where'[t] # "outside"]_barrierVars
=============================================================================

----------------------------- MODULE MCThreads -----------------------------
(***************************************************************************)
(* What the threads of the simulator share, each on its own: the thread    *)
(* pool, the global barrier, and the directory under the calls that the    *)
(* threads of the processor cores make.  A behaviour is one of the         *)
(* construct named by construct, the others rest in their initial states.  *)
(***************************************************************************)
EXTENDS MCThreadPool, GlobalBarrier, CoherenceController

VARIABLE construct

threadVars == <<construct, poolVars, barrierVars, dirVars>>

ThreadsInit ==
  construct \in {"pool", "barrier", "directory"} /\ PoolInit /\ BarrierInit /\ Init

\* The accesses are over when the counters have reached their bound.
AccessesOver == ~Budget /\ UNCHANGED dirVars

ThreadsNext ==
  /\ UNCHANGED construct
  /\ IF construct = "pool" THEN PoolNext ELSE UNCHANGED poolVars
  /\ IF construct = "barrier" THEN BarrierNext ELSE UNCHANGED barrierVars
  /\ IF construct = "directory" THEN AccessNext \/ AccessesOver ELSE UNCHANGED dirVars

ThreadsSpec ==
  /\ ThreadsInit /\ [][ThreadsNext]_threadVars
  /\ construct = "pool" => Fairness

\* The main thread gets its results and its pool is destroyed.
PoolReturns == construct = "pool" => Returns
=============================================================================

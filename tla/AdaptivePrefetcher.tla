------------------------- MODULE AdaptivePrefetcher -------------------------
(***************************************************************************)
(* AdaptivePrefetcher: outcomes of prefetches are recorded, and now and    *)
(* then the distance and the strategy are adapted to them.  A confidence   *)
(* starts at 0.5 and only moves while its strategy is the current one; of  *)
(* one that has moved nothing more is known here than that it may be on    *)
(* either side of the other.  The history and the stride table only serve  *)
(* to compute addresses and are left out.                                  *)
(***************************************************************************)
EXTENDS Integers, FiniteSetsExt

CONSTANTS
  MaxDistance,  \* maxPrefetchDistance
  MaxOutcomes   \* bound of the model: the outcomes recorded between two resets

PrefetcherAssumption == MaxDistance \in Nat \ {0} /\ MaxOutcomes \in Nat

Strategies == {"Sequential", "Stride", "Adaptive"}

VARIABLES
  strategy,         \* currentStrategy
  distance,         \* prefetchDistance
  useful, useless,  \* the outcomes counted
  moved             \* the strategies whose confidence is not 0.5 any more

vars == <<strategy, distance, useful, useless, moved>>

Init ==
  /\ strategy \in Strategies
  /\ distance = 1
  /\ useful = 0 /\ useless = 0
  /\ moved = {}

\* updateConfidence: Adaptive has none of its own.
Trained(s) == IF s = "Adaptive" THEN moved ELSE moved \cup {s}

RecordPrefetchOutcome(wasUseful) ==
  /\ useful + useless < MaxOutcomes
  /\ IF wasUseful THEN useful' = useful + 1 /\ UNCHANGED useless
                  ELSE useless' = useless + 1 /\ UNCHANGED useful
  /\ moved' = Trained(strategy)
  /\ UNCHANGED <<strategy, distance>>

\* chooseBestStrategy: on equal confidence Stride.
BestStrategies == IF moved = {} THEN {"Stride"} ELSE {"Sequential", "Stride"}

\* The accuracy is above 0.8, below 0.5, or between; the mutant halves without an end.
Accurate == 5 * useful > 4 * (useful + useless)
HalvedToZero(d) == d \div 2
Halved(d) == Max({d \div 2, 1})
Adapted(d) ==
  CASE Accurate                     -> Min({2 * d, MaxDistance})
    [] 2 * useful < useful + useless -> Halved(d)
    [] OTHER                        -> d

AdaptPrefetchDistance ==
  /\ useful + useless # 0
  /\ distance' = Adapted(distance)
  /\ IF strategy = "Adaptive" THEN strategy' \in BestStrategies ELSE UNCHANGED strategy
  /\ UNCHANGED <<useful, useless, moved>>

\* The confidences survive a reset of the statistics.
ResetStats ==
  /\ useful' = 0 /\ useless' = 0
  /\ UNCHANGED <<strategy, distance, moved>>

Next ==
  \/ \E wasUseful \in BOOLEAN : RecordPrefetchOutcome(wasUseful)
  \/ AdaptPrefetchDistance \/ ResetStats

Spec == Init /\ [][Next]_vars

-----------------------------------------------------------------------------
TypeOK ==
  /\ strategy \in Strategies
  /\ distance \in 1 .. MaxDistance
  /\ useful \in Nat /\ useless \in Nat
  /\ moved \subseteq Strategies \ {"Adaptive"}

\* However often the distance was halved before, it never gets stuck: as soon as most
\* prefetches are useful again, the next adaptation makes it longer, up to the maximum.
DistanceRecovers == Accurate /\ distance < MaxDistance => Adapted(distance) > distance

\* The adaptive strategy adapts once: the first adaptation that has data turns it into
\* Stride whatever the data say, and after that the strategy never changes again.
SettlesOnStride ==
  [][/\ strategy = "Adaptive" => strategy' \in {"Adaptive", "Stride"}
     /\ strategy # "Adaptive" => UNCHANGED strategy]_strategy
=============================================================================

---------------------------- MODULE WritePolicy -----------------------------
(***************************************************************************)
(* The four write policies, made of an update and an allocation policy, on *)
(* a cache that asks them what they promise to answer: whether a write is  *)
(* passed on to the next level (handleWrite), whether a missing block is   *)
(* allocated and whether a dirty one is written back.  The cache is        *)
(* external: nothing in the program asks a policy object but its tests.    *)
(***************************************************************************)
EXTENDS Naturals

CONSTANT Lines  \* the blocks

VARIABLES
  policy,   \* the update and the allocation policy, and whether there is a next level
  held,     \* the blocks in the cache
  dirty,    \* those of them the cache has to write back
  below     \* ghost: the blocks whose last write has reached the next level

vars == <<policy, held, dirty, below>>

\* WritePolicyFactory::create, for a cache with a next level or without.
Kinds == [update : {"WriteThrough", "WriteBack"}, allocate : BOOLEAN, nextLevel : BOOLEAN]

Init == policy \in Kinds /\ held = {} /\ dirty = {} /\ below = Lines

RequiresWriteback == policy.update = "WriteBack"
RequiresAllocation == policy.allocate

\* handleWrite: does the policy access the next level?  The mutant forgets the miss
\* of a policy that does not allocate.
PassesOnNoMiss(hit) == policy.nextLevel /\ policy.update = "WriteThrough"
PassesOn(hit) ==
  policy.nextLevel /\ (policy.update = "WriteThrough" \/ (~hit /\ ~RequiresAllocation))

Write(l) ==
  /\ below' = IF PassesOn(l \in held) THEN below \cup {l} ELSE below \ {l}
  /\ held' = IF RequiresAllocation THEN held \cup {l} ELSE held
  /\ dirty' = IF RequiresWriteback /\ l \in held' THEN dirty \cup {l} ELSE dirty
  /\ UNCHANGED policy

Read(l) ==
  /\ l \notin held
  /\ held' = held \cup {l}
  /\ UNCHANGED <<policy, dirty, below>>

Evict(l) ==
  /\ l \in held
  /\ held' = held \ {l} /\ dirty' = dirty \ {l}
  /\ below' = IF l \in dirty /\ policy.nextLevel THEN below \cup {l} ELSE below
  /\ UNCHANGED policy

Next == \E l \in Lines : Write(l) \/ Read(l) \/ Evict(l)

Spec == Init /\ [][Next]_vars

-----------------------------------------------------------------------------
TypeOK == policy \in Kinds /\ held \subseteq Lines /\ dirty \subseteq held /\ below \subseteq Lines

\* Where there is a next level, the last write of every block is in it under each
\* combination of policies, or in a cached block that will be written back: what
\* handleWrite leaves to the cache is what the two flags make the cache do.
NoWriteForgotten ==
  policy.nextLevel => \A l \in Lines : l \in below \/ (l \in dirty /\ RequiresWriteback)
=============================================================================

------------------------------ MODULE CacheSet ------------------------------
(***************************************************************************)
(* One set of a Cache and its replacement policy: blocks are hit,          *)
(* installed in an invalid way, installed over a victim, or invalidated by *)
(* another processor, in any order and without end.  Which blocks they are *)
(* does not matter to the policy.                                          *)
(***************************************************************************)
EXTENDS ReplacementPolicy

CONSTANTS
  Ways,     \* the associativity
  Policies  \* the policies to choose from

\* PLRUPolicy asserts a power of two; with one way there is nothing to choose.
WaysArePowerOfTwo == \E k \in 1 .. Ways : Ways = 2 ^ k
CacheSetAssumption ==
  /\ Ways \in Nat \ {0, 1}
  /\ Policies \subseteq PolicyNames
  /\ "PLRU" \in Policies => WaysArePowerOfTwo

VARIABLES
  policy,   \* replacementPolicy of the configuration
  valid,    \* the ways that hold a block
  state,    \* the state of the policy
  idle,     \* ghost: the pairs of ways of which the first was not renewed since the
            \* second was
  waited    \* ghost: replacements of other ways since a way was renewed

vars == <<policy, valid, state, idle, waited>>

WaySet == 0 .. Ways - 1

\* The policies that promise an order, and what renews a way under them: an
\* installation, and under LRU an access.
Ordered == policy \in {"LRU", "FIFO"}

Init ==
  /\ policy \in Policies
  /\ valid = {}
  /\ state = NewPolicy(Ways)
  /\ idle = {}
  /\ waited = [w \in WaySet |-> 0]

Renew(w) == idle' = {p \in idle : p[1] # w} \cup (WaySet \X {w})

-----------------------------------------------------------------------------
\* Cache::access, a hit.
Hit(w) ==
  /\ w \in valid
  /\ state' = OnAccess(policy, Ways, state, w)
  /\ IF policy = "FIFO" THEN UNCHANGED <<idle, waited>>
     ELSE Renew(w) /\ waited' = [waited EXCEPT ![w] = 0]
  /\ UNCHANGED <<policy, valid>>

\* A miss with an invalid way in the set: findVictim returns the first.
Fill ==
  /\ valid # WaySet
  /\ LET w == Min(WaySet \ valid) IN
       /\ valid' = valid \cup {w}
       /\ state' = OnInstall(policy, Ways, state, w)
       /\ Renew(w)
       /\ waited' = [waited EXCEPT ![w] = 0]
  /\ UNCHANGED policy

\* A miss in a full set: the policy selects the victim.
Replace(v) ==
  /\ valid = WaySet
  /\ \E s \in Selections(policy, Ways, state) :
       /\ s.way = v
       /\ state' = OnInstall(policy, Ways, s.after, v)
  /\ Renew(v)
  /\ waited' = IF Ordered
                 THEN [w \in WaySet |-> IF w = v THEN 0 ELSE Min({waited[w] + 1, Ways})]
                 ELSE waited
  /\ UNCHANGED <<policy, valid>>

\* Cache::invalidateBlock: the policy is not told.
Invalidate(w) ==
  /\ w \in valid
  /\ valid' = valid \ {w}
  /\ UNCHANGED <<policy, state, idle, waited>>

Next ==
  \/ \E w \in WaySet : Hit(w) \/ Replace(w) \/ Invalidate(w)
  \/ Fill

Spec == Init /\ [][Next]_vars

-----------------------------------------------------------------------------
TypeOK ==
  /\ policy \in Policies
  /\ valid \subseteq WaySet
  /\ ToSet(state.order) = WaySet /\ Len(state.order) = Ways
  /\ state.bits \in [WaySet -> BOOLEAN]
  /\ state.clock \in 0 .. 4 * Ways - 1
  /\ waited \in [WaySet -> 0 .. Ways]

\* Whoever has to go next: under LRU the block used longest ago, under FIFO the
\* one that has been there longest, also after blocks were invalidated behind the
\* policy's back and their ways filled again.
VictimIsOldest ==
  (Ordered /\ valid = WaySet) =>
    \A s \in Selections(policy, Ways, state), w \in WaySet : <<s.way, w>> \in idle

\* Under LRU and FIFO no block stays for ever without being renewed: it survives
\* fewer replacements than the set has ways.
NoStarvation == Ordered => \A w \in valid : waited[w] < Ways

\* What the comments of PLRU say of the tree bits, that they are set to "point away from
\* accessed block" (replacement_policy.h:355) and "to opposite child" (:360): the next
\* victim of a full set is not the block that was used last.
LastUsedIsSpared ==
  (policy = "PLRU" /\ valid = WaySet) =>
    \A s \in Selections(policy, Ways, state) : \E w \in WaySet : <<w, s.way>> \notin idle

\* What line 361 makes of them instead: the bits point at the block accessed, and the
\* next victim is the block used last, whatever happened before.
UsedLastIsVictim ==
  (policy = "PLRU" /\ valid = WaySet) =>
    \A s \in Selections(policy, Ways, state), w \in WaySet : <<w, s.way>> \in idle
=============================================================================

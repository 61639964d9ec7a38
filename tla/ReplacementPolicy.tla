------------------------- MODULE ReplacementPolicy --------------------------
(***************************************************************************)
(* The replacement policies of a cache set of n ways, 0 .. n-1.  The state *)
(* of a policy is a record; each policy uses its part of it:               *)
(*   order  LRU: lruOrder_, most recent first.  FIFO: the ways by          *)
(*          fifoOrder_, newest first (the time stamps only order them)     *)
(*   bits   NRU: referenceBits_ of the ways.  PLRU: treeBits_ of the inner *)
(*          nodes of the tree, 0 the root                                  *)
(*   clock  NRU: accessCounter_                                            *)
(* A victim is only selected when every way is valid (Cache::findVictim),  *)
(* so the policies' fallbacks for invalid ways never matter.               *)
(***************************************************************************)
EXTENDS Integers, Sequences, SequencesExt, FiniteSetsExt

PolicyNames == {"LRU", "FIFO", "Random", "NRU", "PLRU"}

NewPolicy(n) ==
  [order |-> [i \in 1..n |-> i - 1], bits |-> [i \in 0..n-1 |-> FALSE], clock |-> 0]

\* A way that is in the order comes first; those before it move back by one.
MoveToFront(order, w) ==
  [i \in DOMAIN order |->
     IF i = 1 THEN w
     ELSE IF \E j \in 1 .. i - 1 : order[j] = w THEN order[i] ELSE order[i - 1]]

NoBits(r) == [w \in DOMAIN r.bits |-> FALSE]

-----------------------------------------------------------------------------
\* NRU: every 4 * n accesses all reference bits are cleared, that of the block
\* just accessed included.
Tick(n, r) ==
  IF r.clock + 1 >= 4 * n THEN [r EXCEPT !.bits = NoBits(r), !.clock = 0]
                          ELSE [r EXCEPT !.clock = @ + 1]

\* PLRU: the nodes from x up to, and without, the root.
NodesAbove(n, x) ==
  LET up[y \in 0 .. 2*n - 2] == IF y = 0 THEN {} ELSE {y} \cup up[(y - 1) \div 2]
  IN up[x]

\* updateTreeBits: each node above the way points right iff the way is in its
\* right subtree; in the mutant, away from it.
PointAway(n, bits, w) ==
  LET path == NodesAbove(n, w + n - 1) IN
  [node \in DOMAIN bits |->
     IF \E x \in path : (x - 1) \div 2 = node
       THEN \E x \in path : (x - 1) \div 2 = node /\ x % 2 = 1
       ELSE bits[node]]
PointAt(n, bits, w) ==
  LET path == NodesAbove(n, w + n - 1) IN
  [node \in DOMAIN bits |->
     IF \E x \in path : (x - 1) \div 2 = node
       THEN \E x \in path : (x - 1) \div 2 = node /\ x % 2 = 0
       ELSE bits[node]]

\* selectVictim of PLRU: down from the root, right where the bit is set.
FollowBits(n, bits) ==
  LET down[x \in 0 .. 2*n - 2] ==
        IF x >= n - 1 THEN x - (n - 1)
        ELSE IF bits[x] THEN down[2*x + 2] ELSE down[2*x + 1]
  IN down[0]

-----------------------------------------------------------------------------
\* onAccess; the mutant lets FIFO follow the accesses.
OnAccessMovesAll(policy, n, r, w) ==
  CASE policy \in {"LRU", "FIFO"} -> [r EXCEPT !.order = MoveToFront(@, w)]
    [] policy = "NRU"  -> Tick(n, [r EXCEPT !.bits[w] = TRUE])
    [] policy = "PLRU" -> [r EXCEPT !.bits = PointAt(n, @, w)]
    [] OTHER -> r
OnAccess(policy, n, r, w) ==
  CASE policy = "LRU"  -> [r EXCEPT !.order = MoveToFront(@, w)]
    [] policy = "NRU"  -> Tick(n, [r EXCEPT !.bits[w] = TRUE])
    [] policy = "PLRU" -> [r EXCEPT !.bits = PointAt(n, @, w)]
    [] OTHER -> r

\* onInstall; the mutant inserts at the old place.
OnInstallInPlace(policy, n, r, w) ==
  CASE policy = "NRU"  -> [r EXCEPT !.bits[w] = TRUE]
    [] policy = "PLRU" -> OnAccess(policy, n, r, w)
    [] OTHER -> r
OnInstall(policy, n, r, w) ==
  CASE policy = "FIFO" -> [r EXCEPT !.order = MoveToFront(@, w)]
    [] policy = "NRU"  -> [r EXCEPT !.bits[w] = TRUE]
    [] policy \in {"LRU", "PLRU"} -> OnAccess(policy, n, r, w)
    [] OTHER -> r

\* selectVictim: the ways it may return, each with the state it leaves behind.
Selections(policy, n, r) ==
  LET unreferenced == {w \in 0..n-1 : ~r.bits[w]} IN
  CASE policy \in {"LRU", "FIFO"} -> {[way |-> Last(r.order), after |-> r]}
    [] policy = "Random" -> {[way |-> w, after |-> r] : w \in 0..n-1}
    [] policy = "PLRU" -> {[way |-> FollowBits(n, r.bits), after |-> r]}
    [] policy = "NRU" /\ unreferenced # {} -> {[way |-> Min(unreferenced), after |-> r]}
    [] OTHER -> {[way |-> 0, after |-> [r EXCEPT !.bits = NoBits(r), !.clock = 0]]}
=============================================================================

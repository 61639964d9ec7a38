----------------------- MODULE MemoryHierarchy_proofs -----------------------
(***************************************************************************)
(* Proofs about MemoryHierarchy: what the runs check on small caches and   *)
(* short traces holds for caches of any shape and policy, any block size,  *)
(* any stream buffer and traces of any length.                             *)
(*                                                                         *)
(* The argument goes up the layers.  A policy keeps its order a            *)
(* permutation of the ways, so a victim is a way.  A hit or a miss keeps a *)
(* cache well formed, and what the cache had to write back it still has    *)
(* to, or asks the next level to write.  The same follows for a row of     *)
(* requests, for the prefetch, and for the whole of access.  HierarchyInv  *)
(* adds the shape of every cache to the properties of the runs: that all   *)
(* the tags of a set differ is what makes one write-back enough.           *)
(*                                                                         *)
(* The recursive functions PointAt, FollowBits and Serve are read through  *)
(* predicates that say what their values are (Descends, Serves), and facts *)
(* about every step of them are proved for the least step that fails.      *)
(***************************************************************************)
EXTENDS MemoryHierarchy, FiniteSums, SequenceTheorems

-----------------------------------------------------------------------------
\* Replacement policies.  The order is a permutation of the ways.
OrderOK(n, order) ==
  /\ order \in Seq(0 .. n - 1)
  /\ \A i, j \in DOMAIN order : order[i] = order[j] => i = j
  /\ \A w \in 0 .. n - 1 : \E i \in DOMAIN order : order[i] = w

PolicyOK(n, r) ==
  /\ r \in [order : Seq(0 .. n - 1), bits : [0 .. n - 1 -> BOOLEAN], clock : Nat]
  /\ OrderOK(n, r.order)

\* The domain of a sequence and where its elements are.
LEMMA DomainOfSeq ==
  ASSUME NEW S, NEW s \in Seq(S)
  PROVE  Len(s) \in Nat /\ DOMAIN s = 1 .. Len(s) /\ \A i \in 1 .. Len(s) : s[i] \in S
  BY LenProperties

\* A way moved to the front leaves the order a permutation, and is not last.
LEMMA FrontFirst ==
  ASSUME NEW n \in Nat \ {0}, NEW order, OrderOK(n, order), NEW w \in 0 .. n - 1
  PROVE  /\ OrderOK(n, MoveToFront(order, w))
         /\ n > 1 => Last(MoveToFront(order, w)) # w
<1> DEFINE L == Len(order)
           new == MoveToFront(order, w)
           Past(i) == \E j \in 1 .. i - 1 : order[j] = w
<1>1. L \in Nat /\ DOMAIN order = 1 .. L /\ \A i \in 1 .. L : order[i] \in 0 .. n - 1
  BY DomainOfSeq DEF OrderOK
<1>2. new = [i \in 1 .. L |-> IF i = 1 THEN w ELSE IF Past(i) THEN order[i] ELSE order[i - 1]]
  BY <1>1 DEF MoveToFront
<1>3. /\ \A i, j \in 1 .. L : order[i] = order[j] => i = j
      /\ \A v \in 0 .. n - 1 : \E i \in 1 .. L : order[i] = v
  BY <1>1 DEF OrderOK
<1>4. \A i \in 1 .. L : i # 1 => i - 1 \in 1 .. L /\ i - 1 < i
  BY <1>1
<1>5. \A i \in 1 .. L : new[i] = IF i = 1 THEN w ELSE IF Past(i) THEN order[i] ELSE order[i - 1]
  <2> HIDE DEF Past
  <2> QED  BY <1>2
<1>6. DOMAIN new = 1 .. L
  BY <1>2
<1> HIDE DEF new, L
<1>7. \A i \in 1 .. L : new[i] \in 0 .. n - 1
  <2> HIDE DEF Past
  <2> QED  BY <1>1, <1>4, <1>5
<1>8. new \in Seq(0 .. n - 1) /\ Len(new) = L
  <2>1. new \in [1 .. L -> 0 .. n - 1]
    <3>1. new = [i \in 1 .. L |-> new[i]]
      <4> HIDE DEF Past
      <4> QED  BY <1>2
    <3> QED  BY <3>1, <1>7
  <2> QED  BY <2>1, <1>1
<1>9. \A i \in 1 .. L : i # 1 => new[i] # w
  <2> SUFFICES ASSUME NEW i \in 1 .. L, i # 1 PROVE new[i] # w
    OBVIOUS
  <2>1. CASE Past(i)
    <3>1. PICK j \in 1 .. i - 1 : order[j] = w
      BY <2>1
    <3>2. j \in 1 .. L /\ j # i
      BY <1>1
    <3> QED  BY <3>1, <3>2, <2>1, <1>3, <1>5
  <2>2. CASE ~Past(i)
    <3>1. i - 1 \in 1 .. i - 1
      BY <1>1
    <3>2. order[i - 1] # w
      BY <2>2, <3>1
    <3> QED  BY <3>2, <2>2, <1>5
  <2> QED  BY <2>1, <2>2
<1>10. \A i, j \in 1 .. L : i < j => new[i] # new[j]
  <2> SUFFICES ASSUME NEW i \in 1 .. L, NEW j \in 1 .. L, i < j PROVE new[i] # new[j]
    OBVIOUS
  <2>1. j # 1 /\ new[j] # w
    BY <1>1, <1>9
  <2>2. CASE i = 1
    BY <2>1, <2>2, <1>5
  <2>3. Past(i) => Past(j)
    <3>1. \A k \in 1 .. i - 1 : k \in 1 .. j - 1
      BY <1>1
    <3> QED  BY <3>1
  <2>4. i - 1 # j /\ i - 1 # j - 1 /\ i # j
    BY <1>1
  <2> HIDE DEF Past
  <2>5. CASE i # 1
    <3>1. i - 1 \in 1 .. L /\ j - 1 \in 1 .. L
      BY <2>5, <2>1, <1>4
    <3>2. new[i] = IF Past(i) THEN order[i] ELSE order[i - 1]
      BY <2>5, <1>5
    <3>3. new[j] = IF Past(j) THEN order[j] ELSE order[j - 1]
      BY <2>1, <1>5
    <3> QED  BY <3>1, <3>2, <3>3, <2>3, <2>4, <1>3
  <2> QED  BY <2>2, <2>5
<1>11. \A i, j \in 1 .. L : new[i] = new[j] => i = j
  BY <1>1, <1>10
<1>12. \A v \in 0 .. n - 1 : \E i \in 1 .. L : new[i] = v
  <2> SUFFICES ASSUME NEW v \in 0 .. n - 1 PROVE \E i \in 1 .. L : new[i] = v
    OBVIOUS
  <2>1. PICK i \in 1 .. L : order[i] = v
    BY <1>3
  <2>2. PICK k \in 1 .. L : order[k] = w
    BY <1>3
  <2>3. CASE v = w
    <3>1. 1 \in 1 .. L
      BY <1>1
    <3> QED  BY <3>1, <2>3, <1>5
  <2>4. CASE v # w /\ k < i
    <3>1. Past(i) /\ i # 1
      <4>1. k \in 1 .. i - 1
        BY <2>4
      <4> QED  BY <4>1, <2>2, <1>1
    <3> HIDE DEF Past
    <3> QED  BY <3>1, <2>1, <1>5
  <2>5. CASE v # w /\ i < k
    <3>1. i + 1 \in 1 .. L /\ i + 1 # 1 /\ (i + 1) - 1 = i
      BY <2>5, <1>1
    <3>2. ~Past(i + 1)
      <4>1. \A j \in 1 .. (i + 1) - 1 : j \in 1 .. L /\ j # k
        BY <2>5, <1>1
      <4> QED  BY <4>1, <2>2, <1>3
    <3> HIDE DEF Past
    <3>3. new[i + 1] = order[(i + 1) - 1]
      BY <3>1, <3>2, <1>5
    <3> QED  BY <3>1, <3>3, <2>1
  <2>6. v # w => i # k
    BY <2>1, <2>2
  <2> QED  BY <2>3, <2>4, <2>5, <2>6, <1>1
<1>13. OrderOK(n, new)
  BY <1>6, <1>8, <1>11, <1>12 DEF OrderOK
<1>14. n > 1 => Last(new) # w
  <2> SUFFICES ASSUME n > 1 PROVE Last(new) # w
    OBVIOUS
  <2>1. PICK i \in 1 .. L : order[i] = 0
    BY <1>3
  <2>2. PICK k \in 1 .. L : order[k] = 1
    BY <1>3
  <2>3. L \in 1 .. L /\ L # 1
    <3>1. i # k
      BY <2>1, <2>2
    <3> QED  BY <3>1, <1>1
  <2> QED  BY <2>3, <1>8, <1>9 DEF Last
<1> QED  BY <1>13, <1>14 DEF new

-----------------------------------------------------------------------------
\* The recursion that defines FollowBits, from node k to the leaves.
Descends(f, n, bits, k) ==
  f = [x \in k .. 2*n - 2 |->
         IF x >= n - 1 THEN x - (n - 1)
         ELSE IF bits[x] THEN f[2*x + 2] ELSE f[2*x + 1]]

\* The walk down the tree has a value at every node.
LEMMA DescendsExists ==
  ASSUME NEW n \in Nat \ {0}, NEW bits
  PROVE  \E f : Descends(f, n, bits, 0)
<1> DEFINE Top == 2*n - 2
           Bad == {m \in 0 .. Top : ~ \E f : Descends(f, n, bits, Top - m)}
<1>0. Top \in Nat /\ Top >= n - 1
  OBVIOUS
<1>1. SUFFICES ASSUME Bad # {} PROVE FALSE
  <2>1. Top \in 0 .. Top /\ Top - Top = 0
    BY <1>0
  <2> QED  BY <2>1
<1>2. PICK m \in Bad : \A k \in Bad : m <= k
  <2>1. Bad \subseteq Nat
    OBVIOUS
  <2> HIDE DEF Bad
  <2> QED  BY <1>1, <2>1, LeastNumber
<1>3. m # 0
  <2> DEFINE f == [x \in Top .. Top |-> x - (n - 1)]
  <2>1. \A x \in Top .. Top : x >= n - 1
    OBVIOUS
  <2>2. Descends(f, n, bits, Top)
    BY <2>1 DEF Descends
  <2>3. Top - 0 = Top
    BY <1>0
  <2> QED  BY <2>2, <2>3
<1>4. m \in 1 .. Top /\ m - 1 \in 0 .. Top
  BY <1>2, <1>3
<1>5. PICK f : Descends(f, n, bits, Top - (m - 1))
  <2>1. ~(m <= m - 1)
    BY <1>4
  <2> QED  BY <2>1, <1>2, <1>4
<1> DEFINE k == Top - m
           step(x) == IF x >= n - 1 THEN x - (n - 1)
                      ELSE IF bits[x] THEN f[2*x + 2] ELSE f[2*x + 1]
           g == [x \in k .. Top |-> step(x)]
<1>6. k \in Nat /\ Top - (m - 1) = k + 1
  BY <1>0, <1>4
<1>7. \A x \in k + 1 .. Top : g[x] = f[x]
  <2> SUFFICES ASSUME NEW x \in k + 1 .. Top PROVE g[x] = f[x]
    OBVIOUS
  <2>1. x \in k .. Top
    BY <1>6
  <2>2. g[x] = step(x)
    BY <2>1
  <2>3. f = [y \in k + 1 .. Top |-> step(y)]
    BY <1>5, <1>6 DEF Descends
  <2> HIDE DEF step, k, Top
  <2> QED  BY <2>2, <2>3
<1>8. \A x \in k .. Top : x < n - 1 => 2*x + 1 \in k + 1 .. Top /\ 2*x + 2 \in k + 1 .. Top
  BY <1>6
<1>9. \A x \in k .. Top : step(x) = IF x >= n - 1 THEN x - (n - 1)
                                    ELSE IF bits[x] THEN g[2*x + 2] ELSE g[2*x + 1]
  <2> SUFFICES ASSUME NEW x \in k .. Top
               PROVE step(x) = IF x >= n - 1 THEN x - (n - 1)
                               ELSE IF bits[x] THEN g[2*x + 2] ELSE g[2*x + 1]
    OBVIOUS
  <2> HIDE DEF g
  <2>1. CASE x >= n - 1
    BY <2>1
  <2>2. CASE x < n - 1
    BY <2>2, <1>7, <1>8
  <2> QED  BY <2>1, <2>2, <1>6
<1>10. g = [x \in k .. Top |-> IF x >= n - 1 THEN x - (n - 1)
                                ELSE IF bits[x] THEN g[2*x + 2] ELSE g[2*x + 1]]
  <2>1. g = [x \in k .. Top |-> step(x)]
    OBVIOUS
  <2> HIDE DEF g, step, k
  <2> QED  BY <2>1, <1>9
<1>11. Descends(g, n, bits, k)
  BY <1>10 DEF Descends
<1> QED  BY <1>11, <1>2

\* The walk from the root ends at a leaf, that is at a way.
LEMMA FollowBitsType ==
  ASSUME NEW n \in Nat \ {0}, NEW bits
  PROVE  FollowBits(n, bits) \in 0 .. n - 1
<1>1. PICK f : Descends(f, n, bits, 0) /\ FollowBits(n, bits) = f[0]
  <2>1. FollowBits(n, bits) = (CHOOSE f : Descends(f, n, bits, 0))[0]
    BY DEF FollowBits, Descends
  <2> QED  BY <2>1, DescendsExists
<1> DEFINE step(x) == IF x >= n - 1 THEN x - (n - 1)
                      ELSE IF bits[x] THEN f[2*x + 2] ELSE f[2*x + 1]
<1>2. \A x \in 0 .. 2*n - 2 : f[x] = step(x)
  <2>1. f = [x \in 0 .. 2*n - 2 |-> step(x)]
    BY <1>1 DEF Descends
  <2> HIDE DEF step
  <2> QED  BY <2>1
<1> DEFINE Bad == {m \in 0 .. 2*n - 2 : f[2*n - 2 - m] \notin 0 .. n - 1}
<1>3. Bad = {}
  <2> SUFFICES ASSUME Bad # {} PROVE FALSE
    OBVIOUS
  <2>1. PICK m \in Bad : \A k \in Bad : m <= k
    <3>1. Bad \subseteq Nat
      OBVIOUS
    <3> HIDE DEF Bad
    <3> QED  BY <3>1, LeastNumber
  <2> DEFINE x == 2*n - 2 - m
  <2>2. x \in 0 .. 2*n - 2 /\ f[x] \notin 0 .. n - 1
    BY <2>1
  <2>3. x < n - 1
    <3>1. x >= n - 1 => f[x] = x - (n - 1)
      BY <2>2, <1>2
    <3> QED  BY <3>1, <2>2
  <2>4. ASSUME NEW y \in x + 1 .. 2*n - 2 PROVE f[y] \in 0 .. n - 1
    <3>1. /\ 2*n - 2 - y \in 0 .. 2*n - 2 /\ ~(m <= 2*n - 2 - y)
          /\ 2*n - 2 - (2*n - 2 - y) = y
      BY <2>1
    <3>2. 2*n - 2 - y \notin Bad
      BY <3>1, <2>1
    <3> QED  BY <3>1, <3>2
  <2>5. 2*x + 1 \in x + 1 .. 2*n - 2 /\ 2*x + 2 \in x + 1 .. 2*n - 2
    BY <2>2, <2>3
  <2>6. f[x] = IF bits[x] THEN f[2*x + 2] ELSE f[2*x + 1]
    <3>1. f[x] = step(x)
      BY <2>2, <1>2
    <3>2. ~(x >= n - 1)
      BY <2>2, <2>3
    <3> QED  BY <3>1, <3>2
  <2> QED  BY <2>2, <2>4, <2>5, <2>6
<1>4. f[0] \in 0 .. n - 1
  <2>1. 2*n - 2 \in 0 .. 2*n - 2 /\ 2*n - 2 - (2*n - 2) = 0
    OBVIOUS
  <2> QED  BY <2>1, <1>3
<1> QED  BY <1>1, <1>4

-----------------------------------------------------------------------------
\* The least element of a set of numbers is in it.
LEMMA LeastOf ==
  ASSUME NEW S, S \subseteq Nat, S # {}
  PROVE  Min(S) \in S
<1>1. \E m \in S : \A k \in S : m <= k
  BY LeastNumber
<1> QED  BY <1>1 DEF Min

\* The fields of a policy record, one by one.
LEMMA PolicyParts ==
  ASSUME NEW n \in Nat \ {0}, NEW r
  PROVE  PolicyOK(n, r) <=> /\ r = [order |-> r.order, bits |-> r.bits, clock |-> r.clock]
                            /\ OrderOK(n, r.order)
                            /\ r.bits \in [0 .. n - 1 -> BOOLEAN]
                            /\ r.clock \in Nat
  BY DEF PolicyOK, OrderOK

\* The constructor of a policy.
LEMMA NewPolicyOK ==
  ASSUME NEW n \in Nat \ {0}
  PROVE  PolicyOK(n, NewPolicy(n))
<1> DEFINE o == [i \in 1 .. n |-> i - 1]
<1>1. o \in Seq(0 .. n - 1) /\ DOMAIN o = 1 .. n /\ \A i \in 1 .. n : o[i] = i - 1
  <2>1. \A i \in 1 .. n : i - 1 \in 0 .. n - 1
    OBVIOUS
  <2>2. o \in [1 .. n -> 0 .. n - 1]
    BY <2>1
  <2> QED  BY <2>2
<1>2. OrderOK(n, o)
  <2> HIDE DEF o
  <2>1. \A w \in 0 .. n - 1 : w + 1 \in 1 .. n /\ (w + 1) - 1 = w
    OBVIOUS
  <2>2. \A w \in 0 .. n - 1 : \E i \in DOMAIN o : o[i] = w
    BY <2>1, <1>1
  <2> QED  BY <1>1, <2>2 DEF OrderOK
<1>3. [i \in 0 .. n - 1 |-> FALSE] \in [0 .. n - 1 -> BOOLEAN]
  OBVIOUS
<1> HIDE DEF o
<1>4. NewPolicy(n) = [order |-> o, bits |-> [i \in 0 .. n - 1 |-> FALSE], clock |-> 0]
  BY DEF NewPolicy, o
<1> QED  BY <1>2, <1>3, <1>4, PolicyParts

\* One field of a policy record replaced by another good one.
LEMMA WithOrder ==
  ASSUME NEW n \in Nat \ {0}, NEW r, PolicyOK(n, r), NEW o, OrderOK(n, o)
  PROVE  PolicyOK(n, [r EXCEPT !.order = o]) /\ [r EXCEPT !.order = o].order = o
  BY DEF PolicyOK, OrderOK

LEMMA WithBits ==
  ASSUME NEW n \in Nat \ {0}, NEW r, PolicyOK(n, r), NEW b \in [0 .. n - 1 -> BOOLEAN]
  PROVE  PolicyOK(n, [r EXCEPT !.bits = b]) /\ [r EXCEPT !.bits = b].order = r.order
  BY DEF PolicyOK, OrderOK

LEMMA WithClock ==
  ASSUME NEW n \in Nat \ {0}, NEW r, PolicyOK(n, r), NEW k \in Nat
  PROVE  PolicyOK(n, [r EXCEPT !.clock = k])
  BY DEF PolicyOK, OrderOK

LEMMA WithBit ==
  ASSUME NEW n \in Nat \ {0}, NEW r, PolicyOK(n, r), NEW w \in 0 .. n - 1
  PROVE  PolicyOK(n, [r EXCEPT !.bits[w] = TRUE])
<1>1. r.bits \in [0 .. n - 1 -> BOOLEAN]
  BY DEF PolicyOK
<1>2. [r.bits EXCEPT ![w] = TRUE] \in [0 .. n - 1 -> BOOLEAN]
  BY <1>1
<1>3. [r EXCEPT !.bits[w] = TRUE] = [r EXCEPT !.bits = [r.bits EXCEPT ![w] = TRUE]]
  BY DEF PolicyOK
<1> QED  BY <1>2, <1>3, WithBits

LEMMA CleanBits ==
  ASSUME NEW n \in Nat \ {0}, NEW r, PolicyOK(n, r)
  PROVE  NoBits(r) \in [0 .. n - 1 -> BOOLEAN] /\ PolicyOK(n, [r EXCEPT !.bits = NoBits(r), !.clock = 0])
<1>1. r.bits \in [0 .. n - 1 -> BOOLEAN]
  BY DEF PolicyOK
<1>2. NoBits(r) \in [0 .. n - 1 -> BOOLEAN]
  BY <1>1 DEF NoBits
<1> HIDE DEF NoBits
<1> QED  BY <1>2 DEF PolicyOK, OrderOK

\* The clock of NRU ticks, and clears the bits when it runs out.
LEMMA TickOK ==
  ASSUME NEW n \in Nat \ {0}, NEW r, PolicyOK(n, r)
  PROVE  PolicyOK(n, Tick(n, r))
<1>1. r.clock + 1 \in Nat
  BY DEF PolicyOK
<1>2. [r EXCEPT !.clock = @ + 1] = [r EXCEPT !.clock = r.clock + 1]
  OBVIOUS
<1> QED  BY <1>1, <1>2, CleanBits, WithClock DEF Tick

\* The bits on the path to a way are bits again.
LEMMA PointAtType ==
  ASSUME NEW n \in Nat \ {0}, NEW bits \in [0 .. n - 1 -> BOOLEAN], NEW w
  PROVE  PointAt(n, bits, w) \in [0 .. n - 1 -> BOOLEAN]
<1> DEFINE path == NodesAbove(n, w + n - 1)
           P(node) == \E x \in path : (x - 1) \div 2 = node
           R(node) == \E x \in path : (x - 1) \div 2 = node /\ x % 2 = 0
           v(node) == IF P(node) THEN R(node) ELSE bits[node]
<1>1. \A node \in 0 .. n - 1 : v(node) \in BOOLEAN
  <2> TAKE node \in 0 .. n - 1
  <2>1. R(node) \in BOOLEAN
    OBVIOUS
  <2>2. bits[node] \in BOOLEAN
    OBVIOUS
  <2> HIDE DEF P, R
  <2> QED  BY <2>1, <2>2
<1>2. PointAt(n, bits, w) = [node \in 0 .. n - 1 |-> v(node)]
  BY DEF PointAt
<1> HIDE DEF v
<1> QED  BY <1>1, <1>2

\* onAccess keeps a policy well formed; under LRU the way is not the next victim.
LEMMA OnAccessOK ==
  ASSUME NEW n \in Nat \ {0}, NEW policy \in PolicyNames, NEW r, PolicyOK(n, r), NEW w \in 0 .. n - 1
  PROVE  /\ PolicyOK(n, OnAccess(policy, n, r, w))
         /\ policy = "LRU" /\ n > 1 => Last(OnAccess(policy, n, r, w).order) # w
<1>0. OrderOK(n, r.order)
  BY DEF PolicyOK
<1>1. CASE policy = "LRU"
  <2>1. OnAccess(policy, n, r, w) = [r EXCEPT !.order = MoveToFront(r.order, w)]
    BY <1>1 DEF OnAccess
  <2>2. OrderOK(n, MoveToFront(r.order, w)) /\ (n > 1 => Last(MoveToFront(r.order, w)) # w)
    BY <1>0, FrontFirst
  <2>3. /\ PolicyOK(n, [r EXCEPT !.order = MoveToFront(r.order, w)])
        /\ [r EXCEPT !.order = MoveToFront(r.order, w)].order = MoveToFront(r.order, w)
    BY <2>2, WithOrder
  <2> QED  BY <2>1, <2>2, <2>3
<1>2. CASE policy = "NRU"
  <2>1. OnAccess(policy, n, r, w) = Tick(n, [r EXCEPT !.bits[w] = TRUE])
    BY <1>2 DEF OnAccess
  <2> QED  BY <2>1, <1>2, WithBit, TickOK
<1>3. CASE policy = "PLRU"
  <2>1. OnAccess(policy, n, r, w) = [r EXCEPT !.bits = PointAt(n, r.bits, w)]
    BY <1>3 DEF OnAccess
  <2>2. PointAt(n, r.bits, w) \in [0 .. n - 1 -> BOOLEAN]
    BY PointAtType DEF PolicyOK
  <2> QED  BY <2>1, <2>2, <1>3, WithBits
<1>4. CASE policy \notin {"LRU", "NRU", "PLRU"}
  <2>1. OnAccess(policy, n, r, w) = r
    BY <1>4 DEF OnAccess
  <2> QED  BY <2>1, <1>4
<1> QED  BY <1>1, <1>2, <1>3, <1>4

\* onInstall does the same.
LEMMA OnInstallOK ==
  ASSUME NEW n \in Nat \ {0}, NEW policy \in PolicyNames, NEW r, PolicyOK(n, r), NEW w \in 0 .. n - 1
  PROVE  /\ PolicyOK(n, OnInstall(policy, n, r, w))
         /\ policy = "LRU" /\ n > 1 => Last(OnInstall(policy, n, r, w).order) # w
<1>1. CASE policy \in {"LRU", "PLRU"}
  BY <1>1, OnAccessOK DEF OnInstall
<1>2. CASE policy = "NRU"
  BY <1>2, WithBit DEF OnInstall
<1>3. CASE policy = "FIFO"
  <2>1. OnInstall(policy, n, r, w) = [r EXCEPT !.order = MoveToFront(r.order, w)]
    BY <1>3 DEF OnInstall
  <2>2. OrderOK(n, MoveToFront(r.order, w))
    BY FrontFirst DEF PolicyOK
  <2> QED  BY <2>1, <2>2, <1>3, WithOrder
<1>4. CASE policy = "Random"
  BY <1>4 DEF OnInstall
<1> QED  BY <1>1, <1>2, <1>3, <1>4 DEF PolicyNames

\* Every policy selects a way; LRU the last of its order.
LEMMA SelectionsOK ==
  ASSUME NEW n \in Nat \ {0}, NEW policy \in PolicyNames, NEW r, PolicyOK(n, r),
         NEW v \in Selections(policy, n, r)
  PROVE  /\ v.way \in 0 .. n - 1 /\ PolicyOK(n, v.after)
         /\ policy = "LRU" => v.way = Last(r.order)
<1> DEFINE U == {w \in 0 .. n - 1 : ~r.bits[w]}
<1>1. CASE policy \in {"LRU", "FIFO"}
  <2>1. v = [way |-> Last(r.order), after |-> r]
    BY <1>1 DEF Selections
  <2>2. Len(r.order) \in Nat /\ DOMAIN r.order = 1 .. Len(r.order)
        /\ \A i \in 1 .. Len(r.order) : r.order[i] \in 0 .. n - 1
    BY DomainOfSeq DEF PolicyOK
  <2>3. Len(r.order) \in 1 .. Len(r.order)
    <3>1. \E i \in DOMAIN r.order : r.order[i] = 0
      BY DEF PolicyOK, OrderOK
    <3> QED  BY <3>1, <2>2
  <2> QED  BY <2>1, <2>2, <2>3 DEF Last
<1>2. CASE policy = "Random"
  <2>1. PICK w \in 0 .. n - 1 : v = [way |-> w, after |-> r]
    BY <1>2 DEF Selections
  <2> QED  BY <2>1, <1>2
<1>3. CASE policy = "PLRU"
  <2>1. v = [way |-> FollowBits(n, r.bits), after |-> r]
    BY <1>3 DEF Selections
  <2> QED  BY <2>1, <1>3, FollowBitsType
<1>4. CASE policy = "NRU" /\ U # {}
  <2>1. v = [way |-> Min(U), after |-> r]
    BY <1>4 DEF Selections
  <2>2. Min(U) \in U
    <3>1. U \subseteq Nat
      OBVIOUS
    <3> HIDE DEF U
    <3> QED  BY <3>1, <1>4, LeastOf
  <2> QED  BY <2>1, <2>2, <1>4
<1>5. CASE policy = "NRU" /\ U = {}
  <2>1. v = [way |-> 0, after |-> [r EXCEPT !.bits = NoBits(r), !.clock = 0]]
    BY <1>5 DEF Selections
  <2>2. PolicyOK(n, [r EXCEPT !.bits = NoBits(r), !.clock = 0])
    BY CleanBits
  <2>3. v.way = 0 /\ v.after = [r EXCEPT !.bits = NoBits(r), !.clock = 0]
    BY <2>1, Zenon
  <2> QED  BY <2>2, <2>3, <1>5
<1> QED  BY <1>1, <1>2, <1>3, <1>4, <1>5 DEF PolicyNames

-----------------------------------------------------------------------------
\* Caches: the tables are complete, every set of a policy is in order, the counters
\* are numbers, and no set holds a block twice.
BlockRecord == [valid : BOOLEAN, dirty : BOOLEAN, tag : Nat, state : {"M", "E", "I"}]

SetsOf(cfg) == 0 .. cfg.numSets - 1
WaysOf(cfg) == 0 .. cfg.ways - 1

TablesOK(cfg, sets) ==
  /\ sets \in [SetsOf(cfg) -> [WaysOf(cfg) -> BlockRecord]]
  /\ \A s \in SetsOf(cfg) : \A v, w \in WaysOf(cfg) :
       sets[s][v].valid /\ sets[s][w].valid /\ sets[s][v].tag = sets[s][w].tag => v = w

PoliciesOK(cfg, repl) ==
  /\ DOMAIN repl = SetsOf(cfg) /\ repl = [s \in SetsOf(cfg) |-> repl[s]]
  /\ \A s \in SetsOf(cfg) : PolicyOK(cfg.ways, repl[s])

CacheOK(cfg, c) ==
  /\ c = [sets |-> c.sets, repl |-> c.repl, stats |-> c.stats]
  /\ TablesOK(cfg, c.sets)
  /\ PoliciesOK(cfg, c.repl)
  /\ c.stats \in [StatNames -> Nat]

\* The fields of a configuration.
LEMMA ConfigParts ==
  ASSUME NEW cfg \in CacheConfigs
  PROVE  /\ cfg.numSets \in Nat \ {0} /\ cfg.ways \in Nat \ {0}
         /\ cfg.policy \in PolicyNames /\ cfg.writeBack \in BOOLEAN
  BY DEF CacheConfigs

\* Division with remainder.
LEMMA Divided ==
  ASSUME NEW b \in Nat, NEW n \in Nat \ {0}
  PROVE  b % n \in 0 .. n - 1 /\ b \div n \in Nat /\ (b \div n) * n + (b % n) = b
  OBVIOUS

\* The set and the tag of a block, from which its number comes back.
LEMMA BlockPlace ==
  ASSUME NEW cfg \in CacheConfigs, NEW b \in Nat
  PROVE  /\ SetIndex(cfg, b) \in SetsOf(cfg) /\ Tag(cfg, b) \in Nat
         /\ BlockNumber(cfg, SetIndex(cfg, b), Tag(cfg, b)) = b
  BY ConfigParts, Divided DEF SetIndex, Tag, BlockNumber, SetsOf

\* A set and a tag are those of a block.
LEMMA BlockNumberType ==
  ASSUME NEW cfg \in CacheConfigs, NEW s \in SetsOf(cfg), NEW t \in Nat
  PROVE  BlockNumber(cfg, s, t) \in Nat
  BY ConfigParts DEF BlockNumber, SetsOf

\* findBlock, as a condition on each way.
LEMMA FindIs ==
  ASSUME NEW cfg \in CacheConfigs, NEW c, TablesOK(cfg, c.sets), NEW b \in Nat
  PROVE  /\ Find(cfg, c, b) \subseteq WaysOf(cfg)
         /\ \A w \in WaysOf(cfg) :
              w \in Find(cfg, c, b) <=> /\ c.sets[SetIndex(cfg, b)][w].valid
                                        /\ c.sets[SetIndex(cfg, b)][w].tag = Tag(cfg, b)
<1>1. SetIndex(cfg, b) \in SetsOf(cfg)
  BY BlockPlace
<1>2. DOMAIN c.sets[SetIndex(cfg, b)] = WaysOf(cfg)
  BY <1>1 DEF TablesOK
<1> QED  BY <1>2 DEF Find

OwedAt(sets, s, w) == sets[s][w].valid /\ RequiresWriteback(sets[s][w])

\* What is owed, as a condition on each way of each set.
LEMMA OwedIs ==
  ASSUME NEW cfg \in CacheConfigs, NEW c, NEW x
  PROVE  x \in Owed(cfg, c) <=>
           \E s \in SetsOf(cfg), w \in WaysOf(cfg) :
             OwedAt(c.sets, s, w) /\ x = BlockNumber(cfg, s, c.sets[s][w].tag)
<1> DEFINE Q == {q \in SetsOf(cfg) \X WaysOf(cfg) : OwedAt(c.sets, q[1], q[2])}
<1>1. Owed(cfg, c) = {BlockNumber(cfg, p[1], c.sets[p[1]][p[2]].tag) : p \in Q}
  BY DEF Owed, OwedAt, SetsOf, WaysOf
<1>2. ASSUME x \in Owed(cfg, c)
      PROVE  \E s \in SetsOf(cfg), w \in WaysOf(cfg) :
               OwedAt(c.sets, s, w) /\ x = BlockNumber(cfg, s, c.sets[s][w].tag)
  <2>1. PICK p \in Q : x = BlockNumber(cfg, p[1], c.sets[p[1]][p[2]].tag)
    BY <1>1, <1>2
  <2>2. p[1] \in SetsOf(cfg) /\ p[2] \in WaysOf(cfg) /\ OwedAt(c.sets, p[1], p[2])
    OBVIOUS
  <2> QED  BY <2>1, <2>2
<1>3. ASSUME NEW s \in SetsOf(cfg), NEW w \in WaysOf(cfg), OwedAt(c.sets, s, w),
             x = BlockNumber(cfg, s, c.sets[s][w].tag)
      PROVE  x \in Owed(cfg, c)
  <2>1. <<s, w>> \in Q /\ <<s, w>>[1] = s /\ <<s, w>>[2] = w
    BY <1>3
  <2> HIDE DEF Q
  <2> QED  BY <2>1, <1>1, <1>3
<1> QED  BY <1>2, <1>3

\* One block of a set is replaced, by one that is in no other way of the set.
LEMMA PutTables ==
  ASSUME NEW cfg \in CacheConfigs, NEW sets, TablesOK(cfg, sets),
         NEW s \in SetsOf(cfg), NEW w \in WaysOf(cfg), NEW block \in BlockRecord,
         \A v \in WaysOf(cfg) : sets[s][v].valid /\ sets[s][v].tag = block.tag => v = w
  PROVE  /\ TablesOK(cfg, [sets EXCEPT ![s][w] = block])
         /\ \A t \in SetsOf(cfg), v \in WaysOf(cfg) :
              [sets EXCEPT ![s][w] = block][t][v]
                = IF t = s /\ v = w THEN block ELSE sets[t][v]
<1> DEFINE new == [sets EXCEPT ![s][w] = block]
<1>1. new \in [SetsOf(cfg) -> [WaysOf(cfg) -> BlockRecord]]
  BY DEF TablesOK
<1>2. \A t \in SetsOf(cfg), v \in WaysOf(cfg) :
        new[t][v] = IF t = s /\ v = w THEN block ELSE sets[t][v]
  BY DEF TablesOK
<1> HIDE DEF new
<1>3. ASSUME NEW t \in SetsOf(cfg), NEW u \in WaysOf(cfg), NEW v \in WaysOf(cfg),
             new[t][u].valid, new[t][v].valid, new[t][u].tag = new[t][v].tag
      PROVE  u = v
  <2>1. CASE t # s \/ (u # w /\ v # w)
    <3>1. new[t][u] = sets[t][u] /\ new[t][v] = sets[t][v]
      BY <2>1, <1>2
    <3> QED  BY <3>1, <1>3 DEF TablesOK
  <2>2. CASE t = s /\ u = w /\ v # w
    <3>1. new[t][u] = block /\ new[t][v] = sets[s][v]
      BY <2>2, <1>2
    <3> QED  BY <3>1, <2>2, <1>3
  <2>3. CASE t = s /\ v = w /\ u # w
    <3>1. new[t][v] = block /\ new[t][u] = sets[s][u]
      BY <2>3, <1>2
    <3> QED  BY <3>1, <2>3, <1>3
  <2> QED  BY <2>1, <2>2, <2>3
<1>4. TablesOK(cfg, new)
  BY <1>1, <1>3 DEF TablesOK
<1> QED  BY <1>2, <1>4 DEF new

\* The caches c and d differ in one place, where d has the block.
Differ(cfg, c, d, s, w, block) ==
  \A t \in SetsOf(cfg), v \in WaysOf(cfg) :
    d.sets[t][v] = IF t = s /\ v = w THEN block ELSE c.sets[t][v]

\* What is owed after a block was replaced: what was owed before, but for the block
\* that had the place, and the new block if it has to be written back.
LEMMA PutOwed ==
  ASSUME NEW cfg \in CacheConfigs, NEW c, NEW d,
         NEW s \in SetsOf(cfg), NEW w \in WaysOf(cfg), NEW block,
         Differ(cfg, c, d, s, w, block)
  PROVE  /\ \A x \in Owed(cfg, c) :
              \/ x \in Owed(cfg, d)
              \/ OwedAt(c.sets, s, w) /\ x = BlockNumber(cfg, s, c.sets[s][w].tag)
         /\ block.valid /\ RequiresWriteback(block)
              => BlockNumber(cfg, s, block.tag) \in Owed(cfg, d)
<1>1. ASSUME NEW x \in Owed(cfg, c),
             ~(OwedAt(c.sets, s, w) /\ x = BlockNumber(cfg, s, c.sets[s][w].tag))
      PROVE  x \in Owed(cfg, d)
  <2>1. PICK t \in SetsOf(cfg), v \in WaysOf(cfg) :
          OwedAt(c.sets, t, v) /\ x = BlockNumber(cfg, t, c.sets[t][v].tag)
    BY OwedIs
  <2>2. ~(t = s /\ v = w)
    BY <2>1, <1>1
  <2>3. d.sets[t][v] = c.sets[t][v]
    BY <2>2 DEF Differ
  <2>4. OwedAt(d.sets, t, v) /\ x = BlockNumber(cfg, t, d.sets[t][v].tag)
    BY <2>1, <2>3 DEF OwedAt
  <2> QED  BY <2>4, OwedIs
<1>2. ASSUME block.valid, RequiresWriteback(block)
      PROVE  BlockNumber(cfg, s, block.tag) \in Owed(cfg, d)
  <2>1. d.sets[s][w] = block
    BY DEF Differ
  <2>2. OwedAt(d.sets, s, w) /\ BlockNumber(cfg, s, block.tag) = BlockNumber(cfg, s, d.sets[s][w].tag)
    BY <2>1, <1>2 DEF OwedAt
  <2> QED  BY <2>2, OwedIs
<1> QED  BY <1>1, <1>2

\* The policy of one set replaced.
LEMMA PutPolicy ==
  ASSUME NEW cfg \in CacheConfigs, NEW repl, PoliciesOK(cfg, repl), NEW s \in SetsOf(cfg),
         NEW r, PolicyOK(cfg.ways, r)
  PROVE  PoliciesOK(cfg, [repl EXCEPT ![s] = r]) /\ [repl EXCEPT ![s] = r][s] = r
<1> DEFINE new == [repl EXCEPT ![s] = r]
<1>1. /\ DOMAIN new = SetsOf(cfg) /\ new = [t \in SetsOf(cfg) |-> new[t]]
      /\ \A t \in SetsOf(cfg) : new[t] = IF t = s THEN r ELSE repl[t]
  BY DEF PoliciesOK
<1> HIDE DEF new
<1>2. \A t \in SetsOf(cfg) : PolicyOK(cfg.ways, new[t])
  BY <1>1 DEF PoliciesOK
<1>3. PoliciesOK(cfg, new) /\ new[s] = r
  BY <1>1, <1>2 DEF PoliciesOK
<1> QED  BY <1>3 DEF new

-----------------------------------------------------------------------------
\* Counting changes the counters and nothing else.
LEMMA CountedFacts ==
  ASSUME NEW cfg, NEW c, CacheOK(cfg, c), NEW names
  PROVE  /\ CacheOK(cfg, Counted(c, names))
         /\ Counted(c, names).sets = c.sets /\ Counted(c, names).repl = c.repl
         /\ \A k \in StatNames :
              Counted(c, names).stats[k] = IF k \in names THEN c.stats[k] + 1 ELSE c.stats[k]
<1> DEFINE new == [k \in StatNames |-> IF k \in names THEN c.stats[k] + 1 ELSE c.stats[k]]
<1>1. new \in [StatNames -> Nat]
  BY DEF CacheOK
<1>2. \A k \in StatNames : new[k] = IF k \in names THEN c.stats[k] + 1 ELSE c.stats[k]
  OBVIOUS
<1>3. Counted(c, names) = [c EXCEPT !.stats = new]
  BY DEF Counted
<1> HIDE DEF new
<1>4. Counted(c, names) = [sets |-> c.sets, repl |-> c.repl, stats |-> new]
  BY <1>3 DEF CacheOK
<1> HIDE DEF Counted
<1>5. CacheOK(cfg, Counted(c, names))
  BY <1>1, <1>4 DEF CacheOK
<1> QED  BY <1>2, <1>4, <1>5

Request == [block : Nat, isWrite : BOOLEAN]

\* What one request, none, and two rows of requests write.
LEMMA WrittenOne ==
  ASSUME NEW q \in Request
  PROVE  Written(<<q>>) = IF q.isWrite THEN {q.block} ELSE {}
<1>1. ToSet(<<q>>) = {q}
  BY DEF ToSet
<1> QED  BY <1>1 DEF Written

LEMMA WrittenNone == Written(<<>>) = {}
<1>1. ToSet(<<>>) = {}
  BY DEF ToSet
<1> QED  BY <1>1 DEF Written

LEMMA WrittenBoth ==
  ASSUME NEW S, NEW s \in Seq(S), NEW t \in Seq(S)
  PROVE  Written(s \o t) = Written(s) \cup Written(t)
<1>1. /\ Len(s \o t) = Len(s) + Len(t) /\ s \o t \in Seq(S)
      /\ \A i \in 1 .. Len(s) + Len(t) :
           (s \o t)[i] = IF i <= Len(s) THEN s[i] ELSE t[i - Len(s)]
  BY ConcatProperties
<1> DEFINE u == s \o t
<1>2. /\ Len(s) \in Nat /\ Len(t) \in Nat
      /\ DOMAIN s = 1 .. Len(s) /\ DOMAIN t = 1 .. Len(t) /\ DOMAIN u = 1 .. Len(s) + Len(t)
  BY <1>1
<1> HIDE DEF u
<1>3. ToSet(u) = ToSet(s) \cup ToSet(t)
  <2>1. ASSUME NEW i \in DOMAIN u PROVE u[i] \in ToSet(s) \cup ToSet(t)
    <3>1. CASE i <= Len(s)
      <4>1. i \in DOMAIN s /\ u[i] = s[i]
        BY <3>1, <1>1, <1>2 DEF u
      <4> QED  BY <4>1 DEF ToSet
    <3>2. CASE i > Len(s)
      <4>1. i - Len(s) \in DOMAIN t /\ u[i] = t[i - Len(s)]
        BY <3>2, <1>1, <1>2 DEF u
      <4> QED  BY <4>1 DEF ToSet
    <3> QED  BY <3>1, <3>2, <1>2
  <2>2. ASSUME NEW i \in DOMAIN s PROVE s[i] \in ToSet(u)
    <3>1. i \in DOMAIN u /\ u[i] = s[i]
      BY <1>1, <1>2 DEF u
    <3> QED  BY <3>1 DEF ToSet
  <2>3. ASSUME NEW i \in DOMAIN t PROVE t[i] \in ToSet(u)
    <3>1. /\ Len(s) + i \in DOMAIN u /\ ~(Len(s) + i <= Len(s)) /\ (Len(s) + i) - Len(s) = i
      BY <1>2
    <3>2. u[Len(s) + i] = t[i]
      BY <3>1, <1>1, <1>2 DEF u
    <3> QED  BY <3>1, <3>2 DEF ToSet
  <2> QED  BY <2>1, <2>2, <2>3 DEF ToSet
<1>4. ToSet(s \o t) = ToSet(s) \cup ToSet(t)
  BY <1>3 DEF u
<1> QED  BY <1>4 DEF Written

-----------------------------------------------------------------------------
\* Hits.
HitNames(cfg, isWrite) ==
  {"hits", Kind(isWrite)} \cup (IF isWrite /\ ~cfg.writeBack THEN {"writeThroughs"} ELSE {})
HitRequests(cfg, b, isWrite) ==
  IF isWrite /\ ~cfg.writeBack THEN <<WriteRequest(b)>> ELSE <<>>

HitDone(cfg, c, b, isWrite, r) ==
  /\ CacheOK(cfg, r.cache)
  /\ r.hit = TRUE
  /\ r.requests = HitRequests(cfg, b, isWrite)
  /\ r.cache.stats = Counted(c, HitNames(cfg, isWrite)).stats
  /\ \A x \in Nat : Find(cfg, c, x) = {} <=> Find(cfg, r.cache, x) = {}
  /\ \A x \in Owed(cfg, c) \cup (IF isWrite THEN {b} ELSE {}) :
       x \in Owed(cfg, r.cache) \cup Written(r.requests)

\* A hit keeps every block and everything owed.
LEMMA OnHitFacts ==
  ASSUME NEW cfg \in CacheConfigs, NEW c, CacheOK(cfg, c), NEW b \in Nat, NEW isWrite \in BOOLEAN,
         Find(cfg, c, b) # {}
  PROVE  HitDone(cfg, c, b, isWrite, OnHit(cfg, c, b, isWrite))
<1> DEFINE s == SetIndex(cfg, b)
           w == Min(Find(cfg, c, b))
           old == c.sets[s][w]
           block == IF ~isWrite THEN old
                    ELSE IF ~cfg.writeBack THEN [old EXCEPT !.dirty = FALSE]
                    ELSE [old EXCEPT !.dirty = TRUE, !.state = "M"]
           names == HitNames(cfg, isWrite)
           repl == [c.repl EXCEPT ![s] = OnAccess(cfg.policy, cfg.ways, c.repl[s], w)]
           d == [sets |-> [c.sets EXCEPT ![s][w] = block], repl |-> repl,
                 stats |-> Counted(c, names).stats]
           r == OnHit(cfg, c, b, isWrite)
<1>0. cfg.writeBack \in BOOLEAN /\ TablesOK(cfg, c.sets) /\ PoliciesOK(cfg, c.repl)
      /\ cfg.ways \in Nat \ {0} /\ cfg.policy \in PolicyNames
  BY ConfigParts DEF CacheOK
<1>1. s \in SetsOf(cfg) /\ Tag(cfg, b) \in Nat /\ BlockNumber(cfg, s, Tag(cfg, b)) = b
  BY BlockPlace
<1>2. w \in WaysOf(cfg) /\ old.valid /\ old.tag = Tag(cfg, b) /\ old \in BlockRecord
  <2>1. Find(cfg, c, b) \subseteq WaysOf(cfg) /\ WaysOf(cfg) \subseteq Nat
    BY <1>0, FindIs DEF WaysOf
  <2>2. w \in Find(cfg, c, b)
    BY <2>1, LeastOf
  <2>3. w \in WaysOf(cfg) /\ old.valid /\ old.tag = Tag(cfg, b)
    BY <2>1, <2>2, <1>0, FindIs
  <2> QED  BY <2>3, <1>0, <1>1 DEF TablesOK
<1>3. /\ block \in BlockRecord /\ block.valid /\ block.tag = old.tag
      /\ isWrite /\ cfg.writeBack => RequiresWriteback(block)
      /\ ~isWrite => block = old
  <2> HIDE DEF old
  <2> QED  BY <1>2, <1>0 DEF BlockRecord, RequiresWriteback
<1>4. r = [cache |-> d, hit |-> TRUE, requests |-> HitRequests(cfg, b, isWrite)]
  BY <1>0 DEF OnHit, HitRequests, HitNames
<1> HIDE DEF block, names, repl
<1>5. /\ TablesOK(cfg, d.sets)
      /\ \A t \in SetsOf(cfg), v \in WaysOf(cfg) :
           d.sets[t][v] = IF t = s /\ v = w THEN block ELSE c.sets[t][v]
  <2>1. \A v \in WaysOf(cfg) : c.sets[s][v].valid /\ c.sets[s][v].tag = block.tag => v = w
    BY <1>0, <1>1, <1>2, <1>3 DEF TablesOK
  <2>2. d.sets = [c.sets EXCEPT ![s][w] = block]
    OBVIOUS
  <2> HIDE DEF s, w, old, d
  <2>3. block \in BlockRecord
    BY <1>3
  <2>4. /\ TablesOK(cfg, [c.sets EXCEPT ![s][w] = block])
        /\ \A t \in SetsOf(cfg), v \in WaysOf(cfg) :
             [c.sets EXCEPT ![s][w] = block][t][v]
               = IF t = s /\ v = w THEN block ELSE c.sets[t][v]
    BY <2>1, <2>3, <1>0, <1>1, <1>2, PutTables, SMTT(30)
  <2> QED  BY <2>2, <2>4
<1>6. PoliciesOK(cfg, repl)
  <2> DEFINE n == cfg.ways
             p == c.repl[s]
  <2>1. PolicyOK(n, p) /\ w \in 0 .. n - 1
    BY <1>0, <1>1, <1>2 DEF PoliciesOK, WaysOf
  <2> HIDE DEF s, w, n, p
  <2>2. PolicyOK(n, OnAccess(cfg.policy, n, p, w))
    BY <2>1, <1>0, OnAccessOK DEF n
  <2> QED  BY <2>2, <1>0, <1>1, PutPolicy, ZenonT(40) DEF repl, n, p
<1>7. d.stats = Counted(c, names).stats /\ d.stats \in [StatNames -> Nat]
  <2>1. CacheOK(cfg, Counted(c, names))
    BY CountedFacts
  <2> QED  BY <2>1 DEF CacheOK
<1>8. CacheOK(cfg, d)
  <2> HIDE DEF s, w
  <2> QED  BY <1>5, <1>6, <1>7 DEF CacheOK
<1> HIDE DEF d, s, w, old
<1>9. ASSUME NEW x \in Nat PROVE Find(cfg, c, x) = {} <=> Find(cfg, d, x) = {}
  <2>1. /\ Find(cfg, c, x) \subseteq WaysOf(cfg) /\ Find(cfg, d, x) \subseteq WaysOf(cfg)
        /\ \A v \in WaysOf(cfg) :
             /\ v \in Find(cfg, c, x) <=> /\ c.sets[SetIndex(cfg, x)][v].valid
                                          /\ c.sets[SetIndex(cfg, x)][v].tag = Tag(cfg, x)
             /\ v \in Find(cfg, d, x) <=> /\ d.sets[SetIndex(cfg, x)][v].valid
                                          /\ d.sets[SetIndex(cfg, x)][v].tag = Tag(cfg, x)
    BY <1>0, <1>5, FindIs
  <2>2. \A v \in WaysOf(cfg) : v \in Find(cfg, c, x) <=> v \in Find(cfg, d, x)
    <3>1. SetIndex(cfg, x) \in SetsOf(cfg)
      BY BlockPlace
    <3>2. TAKE v \in WaysOf(cfg)
    <3>3. /\ d.sets[SetIndex(cfg, x)][v].valid = c.sets[SetIndex(cfg, x)][v].valid
          /\ d.sets[SetIndex(cfg, x)][v].tag = c.sets[SetIndex(cfg, x)][v].tag
      <4>1. CASE SetIndex(cfg, x) = s /\ v = w
        <5>1. d.sets[SetIndex(cfg, x)][v] = block /\ c.sets[SetIndex(cfg, x)][v] = old
          BY <4>1, <3>1, <1>5 DEF old
        <5>2. block.valid = old.valid
          BY <1>2, <1>3 DEF BlockRecord
        <5> QED  BY <5>1, <5>2, <1>3
      <4>2. CASE ~(SetIndex(cfg, x) = s /\ v = w)
        <5>1. d.sets[SetIndex(cfg, x)][v] = c.sets[SetIndex(cfg, x)][v]
          BY <4>2, <3>1, <1>5
        <5> QED  BY <5>1
      <4> QED  BY <4>1, <4>2
    <3> QED  BY <3>3, <2>1
  <2> QED  BY <2>1, <2>2
<1>10. ASSUME NEW x \in Owed(cfg, c) \cup (IF isWrite THEN {b} ELSE {})
       PROVE  x \in Owed(cfg, d) \cup Written(HitRequests(cfg, b, isWrite))
  <2>1. /\ \A y \in Owed(cfg, c) :
             \/ y \in Owed(cfg, d)
             \/ OwedAt(c.sets, s, w) /\ y = BlockNumber(cfg, s, c.sets[s][w].tag)
        /\ block.valid /\ RequiresWriteback(block)
             => BlockNumber(cfg, s, block.tag) \in Owed(cfg, d)
    <3>1. s \in SetsOf(cfg) /\ w \in WaysOf(cfg)
      BY <1>1, <1>2
    <3>2. Differ(cfg, c, d, s, w, block)
      BY <1>5 DEF Differ
    <3> QED  BY <3>1, <3>2, PutOwed
  <2>2. c.sets[s][w] = old /\ BlockNumber(cfg, s, old.tag) = b /\ BlockNumber(cfg, s, block.tag) = b
    BY <1>1, <1>2, <1>3 DEF old
  <2>3. CASE ~isWrite
    <3>1. block = old
      BY <2>3, <1>3
    <3> QED  BY <2>1, <2>2, <2>3, <3>1 DEF OwedAt
  <2>4. CASE isWrite /\ cfg.writeBack
    BY <2>1, <2>2, <2>4, <1>3
  <2>5. CASE isWrite /\ ~cfg.writeBack
    <3>1. Written(HitRequests(cfg, b, isWrite)) = {b}
      <4>1. WriteRequest(b) \in Request /\ WriteRequest(b).isWrite = TRUE /\ WriteRequest(b).block = b
        BY DEF WriteRequest, Request
      <4>2. HitRequests(cfg, b, isWrite) = <<WriteRequest(b)>>
        BY <2>5 DEF HitRequests
      <4> QED  BY <4>1, <4>2, WrittenOne
    <3> QED  BY <3>1, <2>1, <2>2, <2>5
  <2> QED  BY <2>3, <2>4, <2>5, <1>0
<1>11. /\ r.cache = d /\ r.hit = TRUE /\ r.requests = HitRequests(cfg, b, isWrite)
  BY <1>4
<1> HIDE DEF d, r, names, s, block
<1>12. HitDone(cfg, c, b, isWrite, r)
  BY <1>7, <1>8, <1>9, <1>10, <1>11 DEF names, HitDone
<1> QED  BY <1>12 DEF r

-----------------------------------------------------------------------------
\* Misses.  The block is in a way that is not the next victim.
NotNext(cfg, c, b) ==
  \E w \in Find(cfg, c, b) : Last(c.repl[SetIndex(cfg, b)].order) # w

\* A victim is a way, and under LRU an empty one or the last of the order.
LEMMA VictimsFacts ==
  ASSUME NEW cfg \in CacheConfigs, NEW c, CacheOK(cfg, c), NEW s \in SetsOf(cfg),
         NEW v \in Victims(cfg, c, s)
  PROVE  /\ v.way \in WaysOf(cfg) /\ PolicyOK(cfg.ways, v.after)
         /\ cfg.policy = "LRU" => \/ ~c.sets[s][v.way].valid
                                  \/ v.way = Last(c.repl[s].order)
<1> DEFINE invalid == {w \in DOMAIN c.sets[s] : ~c.sets[s][w].valid}
<1>1. DOMAIN c.sets[s] = WaysOf(cfg) /\ PolicyOK(cfg.ways, c.repl[s])
  BY DEF CacheOK, TablesOK, PoliciesOK
<1>2. cfg.ways \in Nat \ {0} /\ cfg.policy \in PolicyNames
  BY ConfigParts
<1>3. CASE invalid # {}
  <2>1. v = [way |-> Min(invalid), after |-> c.repl[s]]
    BY <1>3 DEF Victims
  <2>2. Min(invalid) \in invalid
    <3>1. invalid \subseteq Nat
      BY <1>1 DEF WaysOf
    <3> HIDE DEF invalid
    <3> QED  BY <3>1, <1>3, LeastOf
  <2>3. v.way = Min(invalid) /\ v.after = c.repl[s]
    BY <2>1
  <2>4. v.way \in WaysOf(cfg) /\ ~c.sets[s][v.way].valid
    BY <1>1, <2>2, <2>3
  <2> QED  BY <1>1, <2>3, <2>4
<1>4. CASE invalid = {}
  <2>1. v \in Selections(cfg.policy, cfg.ways, c.repl[s])
    BY <1>4 DEF Victims
  <2> QED  BY <2>1, <1>1, <1>2, SelectionsOK DEF WaysOf
<1> QED  BY <1>3, <1>4

Installed(cfg, c, b, isWrite, r) ==
  /\ CacheOK(cfg, r.cache)
  /\ r.hit = FALSE
  /\ r.requests \in Seq(Request) /\ Len(r.requests) \in Nat \ {0}
  /\ r.requests[Len(r.requests)] = ReadRequest(b)
  /\ Find(cfg, r.cache, b) # {}
  /\ \A x \in Owed(cfg, c) \cup (IF isWrite THEN {b} ELSE {}) :
       x \in Owed(cfg, r.cache) \cup Written(r.requests)
  /\ \A k \in StatNames :
       r.cache.stats[k] = IF k = "writeBacks" THEN c.stats[k] + (Len(r.requests) - 1)
                          ELSE c.stats[k]
  /\ cfg.policy = "LRU" /\ cfg.ways > 1 =>
       /\ NotNext(cfg, r.cache, b)
       /\ \A x \in Nat : NotNext(cfg, c, x) => Find(cfg, r.cache, x) # {}

\* What a victim owed is written before the new block takes its place.
LEMMA InstallFacts ==
  ASSUME NEW cfg \in CacheConfigs, NEW c, CacheOK(cfg, c), NEW b \in Nat, NEW isWrite \in BOOLEAN,
         Find(cfg, c, b) = {}, NEW r \in Install(cfg, c, b, isWrite)
  PROVE  Installed(cfg, c, b, isWrite, r)
<1> DEFINE s == SetIndex(cfg, b)
           block == [valid |-> TRUE, dirty |-> isWrite, tag |-> Tag(cfg, b),
                     state |-> IF isWrite THEN "M" ELSE "E"]
<1>1. PICK v \in Victims(cfg, c, s) :
        r = LET evicted == Eviction(cfg, s, c.sets[s][v.way], b) IN
            [cache |-> [sets  |-> [c.sets EXCEPT ![s][v.way] = block],
                        repl  |-> [c.repl EXCEPT ![s] = OnInstall(cfg.policy, cfg.ways, v.after, v.way)],
                        stats |-> [c.stats EXCEPT !["writeBacks"] = @ + Len(evicted)]],
             hit |-> FALSE,
             requests |-> evicted \o <<ReadRequest(b)>>]
  BY DEF Install
<1> DEFINE w == v.way
           old == c.sets[s][w]
           evicted == Eviction(cfg, s, old, b)
           p == OnInstall(cfg.policy, cfg.ways, v.after, w)
           d == r.cache
<1>2. /\ d.sets = [c.sets EXCEPT ![s][w] = block]
      /\ d.repl = [c.repl EXCEPT ![s] = p]
      /\ d.stats = [c.stats EXCEPT !["writeBacks"] = c.stats["writeBacks"] + Len(evicted)]
      /\ d = [sets |-> d.sets, repl |-> d.repl, stats |-> d.stats]
      /\ r.hit = FALSE /\ r.requests = evicted \o <<ReadRequest(b)>>
  BY <1>1
<1>3. /\ TablesOK(cfg, c.sets) /\ PoliciesOK(cfg, c.repl) /\ c.stats \in [StatNames -> Nat]
      /\ cfg.ways \in Nat \ {0} /\ cfg.policy \in PolicyNames
  BY ConfigParts DEF CacheOK
<1>4. s \in SetsOf(cfg) /\ Tag(cfg, b) \in Nat /\ BlockNumber(cfg, s, Tag(cfg, b)) = b
  BY BlockPlace
<1>5. /\ w \in WaysOf(cfg) /\ PolicyOK(cfg.ways, v.after)
      /\ cfg.policy = "LRU" => ~old.valid \/ w = Last(c.repl[s].order)
  BY <1>4, VictimsFacts
<1>6. block \in BlockRecord /\ block.valid /\ block.tag = Tag(cfg, b)
      /\ (isWrite => RequiresWriteback(block))
  BY <1>4 DEF BlockRecord, RequiresWriteback
<1> HIDE DEF s, block, w, d, p
<1>7. TablesOK(cfg, d.sets) /\ Differ(cfg, c, d, s, w, block)
  <2>1. \A u \in WaysOf(cfg) : ~(c.sets[s][u].valid /\ c.sets[s][u].tag = block.tag)
    BY <1>3, <1>6, FindIs DEF s
  <2>2. \A u \in WaysOf(cfg) : c.sets[s][u].valid /\ c.sets[s][u].tag = block.tag => u = w
    BY <2>1
  <2>3. block \in BlockRecord /\ TablesOK(cfg, c.sets) /\ w \in WaysOf(cfg)
    BY <1>3, <1>5, <1>6
  <2>4. /\ TablesOK(cfg, [c.sets EXCEPT ![s][w] = block])
        /\ \A t \in SetsOf(cfg), u \in WaysOf(cfg) :
             [c.sets EXCEPT ![s][w] = block][t][u]
               = IF t = s /\ u = w THEN block ELSE c.sets[t][u]
    BY <2>2, <2>3, <1>4, PutTables
  <2> QED  BY <2>4, <1>2 DEF Differ
<1>8. /\ PolicyOK(cfg.ways, p)
      /\ cfg.policy = "LRU" /\ cfg.ways > 1 => Last(p.order) # w
  BY <1>3, <1>5, OnInstallOK DEF p, WaysOf
<1>9. PoliciesOK(cfg, d.repl) /\ d.repl[s] = p
  <2>1. PoliciesOK(cfg, [c.repl EXCEPT ![s] = p]) /\ [c.repl EXCEPT ![s] = p][s] = p
    <3>1. PoliciesOK(cfg, c.repl) /\ s \in SetsOf(cfg) /\ PolicyOK(cfg.ways, p)
      BY <1>3, <1>4, <1>8
    <3> DEFINE repl == c.repl
    <3>2. PoliciesOK(cfg, repl)
      BY <3>1
    <3> HIDE DEF repl
    <3>3. PoliciesOK(cfg, [repl EXCEPT ![s] = p]) /\ [repl EXCEPT ![s] = p][s] = p
      BY <3>1, <3>2, PutPolicy
    <3> QED  BY <3>3 DEF repl
  <2> QED  BY <2>1, <1>2
<1>10. old \in BlockRecord /\ BlockNumber(cfg, s, old.tag) \in Nat
  <2>1. old \in BlockRecord
    BY <1>3, <1>4, <1>5 DEF TablesOK
  <2> HIDE DEF old
  <2> QED  BY <2>1, <1>4, BlockNumberType DEF BlockRecord
<1>11. /\ evicted = IF OwedAt(c.sets, s, w)
                      THEN <<WriteRequest(BlockNumber(cfg, s, old.tag))>> ELSE <<>>
       /\ evicted \in Seq(Request) /\ Len(evicted) \in Nat
       /\ OwedAt(c.sets, s, w) => Written(evicted) = {BlockNumber(cfg, s, old.tag)}
  <2>1. evicted = IF OwedAt(c.sets, s, w)
                    THEN <<WriteRequest(BlockNumber(cfg, s, old.tag))>> ELSE <<>>
    BY DEF Eviction, OwedAt
  <2> DEFINE q == WriteRequest(BlockNumber(cfg, s, old.tag))
  <2>2. q \in Request /\ q.isWrite = TRUE /\ q.block = BlockNumber(cfg, s, old.tag)
    BY <1>10 DEF WriteRequest, Request
  <2> HIDE DEF q, evicted
  <2>3. <<q>> \in Seq(Request) /\ Len(<<q>>) = 1 /\ <<>> \in Seq(Request) /\ Len(<<>>) = 0
    BY <2>2
  <2>4. Written(<<q>>) = {BlockNumber(cfg, s, old.tag)}
    BY <2>2, WrittenOne
  <2>5. evicted = IF OwedAt(c.sets, s, w) THEN <<q>> ELSE <<>>
    BY <2>1 DEF q
  <2> QED  BY <2>1, <2>3, <2>4, <2>5
<1> HIDE DEF evicted, old
<1>12. ReadRequest(b) \in Request /\ <<ReadRequest(b)>> \in Seq(Request)
  BY DEF ReadRequest, Request
<1>13. /\ r.requests \in Seq(Request) /\ Len(r.requests) = Len(evicted) + 1
       /\ r.requests[Len(r.requests)] = ReadRequest(b)
  <2>1. Len(<<ReadRequest(b)>>) = 1 /\ <<ReadRequest(b)>>[1] = ReadRequest(b)
    OBVIOUS
  <2> HIDE DEF ReadRequest
  <2> QED  BY <2>1, <1>2, <1>11, <1>12, ConcatProperties
<1>14. \A k \in StatNames :
         d.stats[k] = IF k = "writeBacks" THEN c.stats[k] + (Len(r.requests) - 1) ELSE c.stats[k]
  <2>1. Len(r.requests) - 1 = Len(evicted)
    BY <1>11, <1>13
  <2> QED  BY <2>1, <1>2, <1>3
<1>15. d.stats \in [StatNames -> Nat]
  <2>1. "writeBacks" \in StatNames
    BY DEF StatNames
  <2>2. c.stats["writeBacks"] + Len(evicted) \in Nat
    BY <2>1, <1>3, <1>11
  <2> QED  BY <2>2, <1>2, <1>3
<1>16. CacheOK(cfg, d)
  BY <1>2, <1>7, <1>9, <1>15 DEF CacheOK
<1>17. d.sets[s][w] = block
  BY <1>4, <1>5, <1>7 DEF Differ
<1>18. w \in Find(cfg, d, b)
  BY <1>5, <1>6, <1>7, <1>17, FindIs DEF s
<1>19. ASSUME NEW x \in Owed(cfg, c) \cup (IF isWrite THEN {b} ELSE {})
       PROVE  x \in Owed(cfg, d) \cup Written(r.requests)
  <2>1. /\ \A y \in Owed(cfg, c) :
             \/ y \in Owed(cfg, d)
             \/ OwedAt(c.sets, s, w) /\ y = BlockNumber(cfg, s, c.sets[s][w].tag)
        /\ block.valid /\ RequiresWriteback(block)
             => BlockNumber(cfg, s, block.tag) \in Owed(cfg, d)
    BY <1>4, <1>5, <1>7, PutOwed
  <2>2. Written(r.requests) = Written(evicted) \cup Written(<<ReadRequest(b)>>)
    <3> DEFINE q == <<ReadRequest(b)>>
    <3>1. evicted \in Seq(Request) /\ q \in Seq(Request) /\ r.requests = evicted \o q
      BY <1>2, <1>11, <1>12
    <3> HIDE DEF q
    <3>2. Written(evicted \o q) = Written(evicted) \cup Written(q)
      BY <3>1, WrittenBoth
    <3> QED  BY <3>1, <3>2 DEF q
  <2>3. CASE x \in Owed(cfg, c)
    BY <2>1, <2>2, <2>3, <1>11 DEF old
  <2>4. CASE isWrite /\ x = b
    BY <2>1, <2>4, <1>4, <1>6
  <2> QED  BY <2>3, <2>4
<1>20. ASSUME cfg.policy = "LRU", cfg.ways > 1
       PROVE  /\ NotNext(cfg, d, b)
              /\ \A x \in Nat : NotNext(cfg, c, x) => Find(cfg, d, x) # {}
  <2>1. NotNext(cfg, d, b)
    BY <1>8, <1>9, <1>18, <1>20 DEF NotNext, s
  <2>2. ASSUME NEW x \in Nat, NotNext(cfg, c, x) PROVE Find(cfg, d, x) # {}
    <3> DEFINE t == SetIndex(cfg, x)
    <3>1. PICK u \in Find(cfg, c, x) : Last(c.repl[t].order) # u
      BY <2>2 DEF NotNext
    <3>2. t \in SetsOf(cfg) /\ u \in WaysOf(cfg) /\ c.sets[t][u].valid /\ c.sets[t][u].tag = Tag(cfg, x)
      BY <1>3, BlockPlace, FindIs
    <3>3. ~(t = s /\ u = w)
      BY <3>1, <3>2, <1>5, <1>20 DEF old
    <3>4. d.sets[t][u] = c.sets[t][u]
      BY <3>2, <3>3, <1>7 DEF Differ
    <3>5. u \in Find(cfg, d, x)
      BY <3>2, <3>4, <1>7, FindIs
    <3> QED  BY <3>5
  <2> QED  BY <2>1, <2>2
<1>21. Len(r.requests) \in Nat \ {0}
  BY <1>11, <1>13
<1> QED  BY <1>2, <1>13, <1>14, <1>16, <1>18, <1>19, <1>20, <1>21 DEF d, Installed

-----------------------------------------------------------------------------
\* Accesses of a cache, and the requests it serves.
Handled(c) == c.stats["hits"] + c.stats["misses"]

\* Caches with the same blocks find and owe the same.
LEMMA SameSets ==
  ASSUME NEW cfg, NEW c, NEW d, d.sets = c.sets
  PROVE  /\ \A x : Find(cfg, d, x) = Find(cfg, c, x)
         /\ Owed(cfg, d) = Owed(cfg, c)
  BY DEF Find, Owed

\* Counting a miss moves no block.
LEMMA OnMissFacts ==
  ASSUME NEW cfg, NEW c, CacheOK(cfg, c), NEW b, NEW isWrite \in BOOLEAN
  PROVE  LET d == OnMiss(cfg, c, b, isWrite) IN
         /\ CacheOK(cfg, d) /\ d.sets = c.sets /\ d.repl = c.repl
         /\ \A x : Find(cfg, d, x) = Find(cfg, c, x)
         /\ Owed(cfg, d) = Owed(cfg, c)
         /\ \A k \in StatNames :
              d.stats[k] = IF k \in {"misses", Kind(isWrite), MissType(cfg, c, b)}
                             THEN c.stats[k] + 1 ELSE c.stats[k]
<1>1. LET d == OnMiss(cfg, c, b, isWrite) IN
         /\ CacheOK(cfg, d) /\ d.sets = c.sets /\ d.repl = c.repl
         /\ \A k \in StatNames :
              d.stats[k] = IF k \in {"misses", Kind(isWrite), MissType(cfg, c, b)}
                             THEN c.stats[k] + 1 ELSE c.stats[k]
  BY CountedFacts DEF OnMiss
<1> QED  BY <1>1, SameSets

\* A whole access of one cache.
LEMMA AccessFacts ==
  ASSUME NEW cfg \in CacheConfigs, NEW c, CacheOK(cfg, c), NEW b \in Nat, NEW isWrite \in BOOLEAN,
         NEW r \in Access(cfg, c, b, isWrite)
  PROVE  /\ CacheOK(cfg, r.cache)
         /\ Find(cfg, r.cache, b) # {}
         /\ \A x \in Owed(cfg, c) \cup (IF isWrite THEN {b} ELSE {}) :
              x \in Owed(cfg, r.cache) \cup Written(r.requests)
         /\ Handled(r.cache) = Handled(c) + 1
         /\ r.hit = (Find(cfg, c, b) # {})
<1>0. /\ "hits" \in StatNames /\ "misses" \in StatNames /\ "writeBacks" \in StatNames
      /\ c.stats["hits"] \in Nat /\ c.stats["misses"] \in Nat
  BY DEF CacheOK, StatNames
<1>1. CASE Find(cfg, c, b) # {}
  <2>1. r = OnHit(cfg, c, b, isWrite)
    BY <1>1 DEF Access
  <2>2. /\ CacheOK(cfg, r.cache)
        /\ r.hit = TRUE
        /\ r.cache.stats = Counted(c, HitNames(cfg, isWrite)).stats
        /\ Find(cfg, c, b) = {} <=> Find(cfg, r.cache, b) = {}
        /\ \A x \in Owed(cfg, c) \cup (IF isWrite THEN {b} ELSE {}) :
             x \in Owed(cfg, r.cache) \cup Written(r.requests)
    BY <2>1, <1>1, OnHitFacts, ZenonT(40) DEF HitDone
  <2>3. "hits" \in HitNames(cfg, isWrite) /\ "misses" \notin HitNames(cfg, isWrite)
    BY DEF HitNames, Kind
  <2>4. /\ r.cache.stats["hits"] = c.stats["hits"] + 1
        /\ r.cache.stats["misses"] = c.stats["misses"]
    <3> DEFINE names == HitNames(cfg, isWrite)
    <3>1. \A k \in StatNames :
            Counted(c, names).stats[k] = IF k \in names THEN c.stats[k] + 1 ELSE c.stats[k]
      BY CountedFacts
    <3>2. "hits" \in names /\ "misses" \notin names /\ r.cache.stats = Counted(c, names).stats
      BY <2>2, <2>3
    <3> HIDE DEF names
    <3>3. /\ Counted(c, names).stats["hits"] = c.stats["hits"] + 1
          /\ Counted(c, names).stats["misses"] = c.stats["misses"]
      BY <3>1, <3>2, <1>0
    <3> QED  BY <3>2, <3>3
  <2>5. Handled(r.cache) = Handled(c) + 1
    BY <1>0, <2>4 DEF Handled
  <2>6. r.hit = (Find(cfg, c, b) # {}) /\ Find(cfg, r.cache, b) # {}
    BY <1>1, <2>2
  <2> QED  BY <2>2, <2>5, <2>6
<1>2. CASE Find(cfg, c, b) = {}
  <2> DEFINE d == OnMiss(cfg, c, b, isWrite)
  <2>1. r \in Install(cfg, d, b, isWrite)
    BY <1>2 DEF Access
  <2>2. /\ CacheOK(cfg, d)
        /\ \A x : Find(cfg, d, x) = Find(cfg, c, x)
        /\ Owed(cfg, d) = Owed(cfg, c)
        /\ \A k \in StatNames :
              d.stats[k] = IF k \in {"misses", Kind(isWrite), MissType(cfg, c, b)}
                             THEN c.stats[k] + 1 ELSE c.stats[k]
    BY OnMissFacts
  <2> HIDE DEF d
  <2>3. /\ CacheOK(cfg, r.cache)
        /\ r.hit = FALSE
        /\ Find(cfg, r.cache, b) # {}
        /\ \A x \in Owed(cfg, d) \cup (IF isWrite THEN {b} ELSE {}) :
             x \in Owed(cfg, r.cache) \cup Written(r.requests)
        /\ \A k \in StatNames :
              r.cache.stats[k] = IF k = "writeBacks" THEN d.stats[k] + (Len(r.requests) - 1)
                                 ELSE d.stats[k]
    <3>1. CacheOK(cfg, d) /\ Find(cfg, d, b) = {}
      BY <1>2, <2>2
    <3>2. Installed(cfg, d, b, isWrite, r)
      BY <3>1, <2>1, InstallFacts
    <3> QED  BY <3>2 DEF Installed
  <2>4. /\ r.cache.stats["hits"] = c.stats["hits"]
        /\ r.cache.stats["misses"] = c.stats["misses"] + 1
    <3>1. "hits" \notin {"misses", Kind(isWrite), MissType(cfg, c, b)}
      BY DEF Kind, MissType
    <3>2. r.cache.stats["hits"] = d.stats["hits"] /\ r.cache.stats["misses"] = d.stats["misses"]
      BY <1>0, <2>3
    <3>3. d.stats["hits"] = c.stats["hits"] /\ d.stats["misses"] = c.stats["misses"] + 1
      BY <3>1, <1>0, <2>2
    <3> QED  BY <3>2, <3>3
  <2>5. Handled(r.cache) = Handled(c) + 1
    BY <1>0, <2>4 DEF Handled
  <2>6. r.hit = (Find(cfg, c, b) # {})
    BY <1>2, <2>3
  <2> QED  BY <2>2, <2>3, <2>5, <2>6
<1> QED  BY <1>1, <1>2

\* The recursion that defines Serve, up to the first n requests.
Serves(f, cfg, c, q, n) ==
  f = [i \in 0 .. n |-> IF i = 0 THEN {[cache |-> c, saved |-> {}]}
                        ELSE ServeOne(cfg, f[i - 1], q[i])]

\* A row of requests has results after each of them.
LEMMA ServesExists ==
  ASSUME NEW cfg, NEW c, NEW q, NEW n \in Nat
  PROVE  \E f : Serves(f, cfg, c, q, n)
<1> DEFINE Bad == {m \in Nat : ~ \E f : Serves(f, cfg, c, q, m)}
           start == {[cache |-> c, saved |-> {}]}
<1> SUFFICES ASSUME Bad # {} PROVE FALSE
  OBVIOUS
<1>1. PICK m \in Bad : \A k \in Bad : m <= k
  BY LeastNumber
<1>2. m # 0
  <2>1. Serves([i \in 0 .. 0 |-> start], cfg, c, q, 0)
    BY DEF Serves
  <2> QED  BY <2>1
<1>3. PICK f : Serves(f, cfg, c, q, m - 1)
  <2>1. m - 1 \in Nat /\ ~(m <= m - 1)
    BY <1>2
  <2> QED  BY <2>1, <1>1
<1> DEFINE step(i) == IF i = 0 THEN start ELSE ServeOne(cfg, f[i - 1], q[i])
           g == [i \in 0 .. m |-> step(i)]
<1>4. \A i \in 0 .. m - 1 : g[i] = f[i]
  <2> SUFFICES ASSUME NEW i \in 0 .. m - 1 PROVE g[i] = f[i]
    OBVIOUS
  <2>1. i \in 0 .. m
    BY <1>1
  <2>2. g[i] = step(i)
    BY <2>1
  <2>3. f = [j \in 0 .. m - 1 |-> step(j)]
    BY <1>3 DEF Serves
  <2> HIDE DEF step
  <2> QED  BY <2>2, <2>3
<1>5. \A i \in 0 .. m : i # 0 => g[i - 1] = f[i - 1]
  <2>1. \A i \in 0 .. m : i # 0 => i - 1 \in 0 .. m - 1
    BY <1>2
  <2> HIDE DEF g
  <2> QED  BY <2>1, <1>4
<1>6. g = [i \in 0 .. m |-> step(i)]
  OBVIOUS
<1> HIDE DEF g, start
<1>7. g = [i \in 0 .. m |-> IF i = 0 THEN start ELSE ServeOne(cfg, g[i - 1], q[i])]
  BY <1>5, <1>6
<1>8. Serves(g, cfg, c, q, m)
  BY <1>7 DEF Serves, start
<1> QED  BY <1>8

\* What is true of the cache after n requests.
ServedOK(cfg, c, q, n, x) ==
  /\ CacheOK(cfg, x.cache)
  /\ \A b \in Owed(cfg, c) \cup {q[i].block : i \in {j \in 1 .. n : q[j].isWrite}} :
       b \in Owed(cfg, x.cache) \cup x.saved
  /\ Handled(x.cache) = Handled(c) + n
  /\ n > 0 => Find(cfg, x.cache, q[n].block) # {}

\* One request more.
LEMMA ServeOneOK ==
  ASSUME NEW cfg \in CacheConfigs, NEW c, CacheOK(cfg, c), NEW n \in Nat \ {0}, NEW q,
         q[n] \in Request,
         NEW results, \A y \in results : ServedOK(cfg, c, q, n - 1, y),
         NEW x \in ServeOne(cfg, results, q[n])
  PROVE  ServedOK(cfg, c, q, n, x)
<1>0. PICK y \in results :
        \E r \in Access(cfg, y.cache, q[n].block, q[n].isWrite) :
          x = [cache |-> r.cache, saved |-> y.saved \cup Written(r.requests)]
  BY DEF ServeOne
<1>1. PICK r \in Access(cfg, y.cache, q[n].block, q[n].isWrite) :
        x = [cache |-> r.cache, saved |-> y.saved \cup Written(r.requests)]
  BY <1>0
<1>2. x.cache = r.cache /\ x.saved = y.saved \cup Written(r.requests)
  BY <1>1
<1>3. q[n].block \in Nat /\ q[n].isWrite \in BOOLEAN
  BY DEF Request
<1>4. ServedOK(cfg, c, q, n - 1, y)
  OBVIOUS
<1> DEFINE b == q[n].block
           isWrite == q[n].isWrite
<1>5. /\ CacheOK(cfg, r.cache)
      /\ Find(cfg, r.cache, b) # {}
      /\ \A z \in Owed(cfg, y.cache) \cup (IF isWrite THEN {b} ELSE {}) :
           z \in Owed(cfg, r.cache) \cup Written(r.requests)
      /\ Handled(r.cache) = Handled(y.cache) + 1
  <2>1. CacheOK(cfg, y.cache) /\ b \in Nat /\ isWrite \in BOOLEAN
    BY <1>3, <1>4 DEF ServedOK
  <2>2. r \in Access(cfg, y.cache, b, isWrite)
    OBVIOUS
  <2> HIDE DEF b, isWrite
  <2> QED  BY <2>1, <2>2, AccessFacts
<1>6. Handled(c) \in Int
  BY DEF Handled, CacheOK, StatNames
<1>7. Handled(r.cache) = Handled(c) + n
  BY <1>4, <1>5, <1>6 DEF ServedOK
<1>8. ASSUME NEW z \in Owed(cfg, c) \cup {q[i].block : i \in {j \in 1 .. n : q[j].isWrite}}
      PROVE  z \in Owed(cfg, x.cache) \cup x.saved
  <2> DEFINE E == {q[i].block : i \in {j \in 1 .. n - 1 : q[j].isWrite}}
  <2>1. z \in Owed(cfg, c) \cup E \/ (isWrite /\ z = b)
    <3>1. CASE z \in Owed(cfg, c)
      BY <3>1
    <3>2. CASE z \notin Owed(cfg, c)
      <4>1. PICK i \in 1 .. n : q[i].isWrite /\ z = q[i].block
        BY <3>2
      <4>2. i \in 1 .. n - 1 \/ i = n
        OBVIOUS
      <4> QED  BY <4>1, <4>2
    <3> QED  BY <3>1, <3>2
  <2>2. z \in Owed(cfg, c) \cup E => z \in Owed(cfg, y.cache) \cup y.saved
    BY <1>4 DEF ServedOK
  <2> HIDE DEF E, b, isWrite
  <2> QED  BY <2>1, <2>2, <1>2, <1>5
<1> QED  BY <1>2, <1>5, <1>7, <1>8 DEF ServedOK

\* Nothing owed or written is dropped by a row of requests.
LEMMA ServeFacts ==
  ASSUME NEW cfg \in CacheConfigs, NEW c, CacheOK(cfg, c), NEW q \in Seq(Request),
         NEW x \in Serve(cfg, c, q)
  PROVE  /\ CacheOK(cfg, x.cache)
         /\ \A b \in Owed(cfg, c) \cup Written(q) : b \in Owed(cfg, x.cache) \cup x.saved
         /\ Handled(x.cache) = Handled(c) + Len(q)
         /\ Len(q) > 0 => Find(cfg, x.cache, q[Len(q)].block) # {}
<1> DEFINE N == Len(q)
<1>0. N \in Nat /\ DOMAIN q = 1 .. N /\ \A i \in 1 .. N : q[i] \in Request
  BY DomainOfSeq
<1>1. PICK f : Serves(f, cfg, c, q, N) /\ Serve(cfg, c, q) = f[N]
  <2>1. Serve(cfg, c, q) = (CHOOSE f : Serves(f, cfg, c, q, N))[N]
    BY DEF Serve, Serves
  <2>2. \E f : Serves(f, cfg, c, q, N)
    BY <1>0, ServesExists
  <2> QED  BY <2>1, <2>2
<1> DEFINE start == {[cache |-> c, saved |-> {}]}
           step(i) == IF i = 0 THEN start ELSE ServeOne(cfg, f[i - 1], q[i])
<1>2. \A i \in 0 .. N : f[i] = step(i)
  <2>1. f = [i \in 0 .. N |-> step(i)]
    BY <1>1 DEF Serves
  <2> HIDE DEF step, N
  <2> QED  BY <2>1
<1> HIDE DEF N
<1> DEFINE Bad == {i \in 0 .. N : ~ \A y \in f[i] : ServedOK(cfg, c, q, i, y)}
<1>3. Bad = {}
  <2> SUFFICES ASSUME Bad # {} PROVE FALSE
    OBVIOUS
  <2>1. PICK m \in Bad : \A k \in Bad : m <= k
    <3>1. Bad \subseteq Nat
      BY <1>0
    <3> HIDE DEF Bad
    <3> QED  BY <3>1, LeastNumber
  <2>2. PICK y \in f[m] : ~ServedOK(cfg, c, q, m, y)
    OBVIOUS
  <2>3. CASE m = 0
    <3>1. y = [cache |-> c, saved |-> {}]
      BY <2>2, <2>3, <1>0, <1>2
    <3>2. y.cache = c /\ Handled(c) \in Int
      BY <3>1 DEF Handled, CacheOK, StatNames
    <3>3. ServedOK(cfg, c, q, 0, y)
      <4>1. {q[i].block : i \in {j \in 1 .. 0 : q[j].isWrite}} = {}
        OBVIOUS
      <4> QED  BY <4>1, <3>2 DEF ServedOK
    <3> QED  BY <3>3, <2>2, <2>3
  <2>4. CASE m # 0
    <3>1. m \in Nat \ {0} /\ m - 1 \in 0 .. N /\ m \in 1 .. N /\ ~(m <= m - 1)
      BY <2>1, <2>4, <1>0
    <3>2. \A z \in f[m - 1] : ServedOK(cfg, c, q, m - 1, z)
      <4>1. m - 1 \notin Bad
        BY <3>1, <2>1
      <4> QED  BY <4>1, <3>1
    <3>3. y \in ServeOne(cfg, f[m - 1], q[m])
      <4>1. f[m] = step(m)
        BY <1>2
      <4> QED  BY <4>1, <2>2, <2>4
    <3>4. q[m] \in Request
      BY <3>1, <1>0
    <3> DEFINE results == f[m - 1]
    <3>5. (\A z \in results : ServedOK(cfg, c, q, m - 1, z)) /\ y \in ServeOne(cfg, results, q[m])
      BY <3>2, <3>3
    <3> HIDE DEF results, Bad
    <3>6. ServedOK(cfg, c, q, m, y)
      BY <3>1, <3>4, <3>5, ServeOneOK
    <3> QED  BY <3>6, <2>2
  <2> QED  BY <2>3, <2>4
<1>4. ServedOK(cfg, c, q, N, x)
  <2>1. N \in 0 .. N
    BY <1>0
  <2> QED  BY <2>1, <1>1, <1>3 DEF N
<1>5. Written(q) = {q[i].block : i \in {j \in 1 .. N : q[j].isWrite}}
  BY <1>0 DEF Written, ToSet
<1> QED  BY <1>4, <1>5 DEF ServedOK, N

-----------------------------------------------------------------------------
\* The hierarchy.
AddressSet == 0 .. AddressSpace - 1

\* The assumptions on the constants, in the form the proofs use.
LEMMA AddressFacts ==
  /\ AddressSpace \in Nat \ {0} /\ BlockSize \in Nat \ {0} /\ TableSize \in Nat \ {0}
  /\ Distance \in Nat \ {0} /\ Addresses \subseteq AddressSet /\ MaxAccesses \in Nat
  /\ \A x \in Int : x % AddressSpace \in AddressSet
  /\ \A x \in AddressSet : x % TableSize \in 0 .. TableSize - 1
  BY HierarchyAssumption DEF AddressSet

\* Multiplication is monotone.
LEMMA Times ==
  ASSUME NEW w \in Nat, NEW i \in Int, NEW j \in Int, i <= j
  PROVE  w * i <= w * j
<1>1. w * (j - i) >= 0 /\ w * (j - i) = w * j - w * i
  <2>1. j - i \in Nat
    OBVIOUS
  <2> DEFINE k == j - i
  <2>2. w * k >= 0
    BY <2>1
  <2> QED  BY <2>2
<1>2. w * i \in Int /\ w * j \in Int
  OBVIOUS
<1> QED  BY <1>1, <1>2

\* The block of an address is one of the address space.
LEMMA BlockFacts ==
  ASSUME NEW a \in AddressSet
  PROVE  Block(a) \in Nat /\ Block(a) \in 0 .. (AddressSpace \div BlockSize) - 1
<1> DEFINE q == AddressSpace \div BlockSize
           b == a \div BlockSize
<1>1. /\ AddressSpace \in Nat \ {0} /\ BlockSize \in Nat \ {0}
      /\ AddressSpace % BlockSize = 0 /\ a \in Nat /\ a < AddressSpace
  BY HierarchyAssumption DEF AddressSet
<1>2. /\ q \in Nat /\ q * BlockSize + (AddressSpace % BlockSize) = AddressSpace
      /\ b \in Nat /\ b * BlockSize + (a % BlockSize) = a /\ a % BlockSize \in Nat
  BY <1>1, Divided
<1> HIDE DEF q, b
<1>3. BlockSize * q = AddressSpace /\ BlockSize * b <= a
  BY <1>1, <1>2
<1>4. ~(q <= b)
  <2> SUFFICES ASSUME q <= b PROVE FALSE
    OBVIOUS
  <2>1. BlockSize * q <= BlockSize * b
    BY <1>1, <1>2, Times
  <2> QED  BY <2>1, <1>1, <1>2, <1>3
<1>5. b \in 0 .. q - 1
  BY <1>2, <1>4
<1> QED  BY <1>2, <1>5 DEF Block, b, q

\* The configuration and the tables, buffers and counters of the program.
Shape ==
  /\ l1cfg \in CacheConfigs /\ levels \subseteq {"L2", "L3"} /\ prefetch \in BOOLEAN
  /\ CacheOK(l1cfg, l1) /\ CacheOK(L2, l2) /\ CacheOK(L3, l3)
  /\ predictor \in [0 .. TableSize - 1 -> Entry]
  /\ buffer \in Seq(AddressSet) /\ Len(buffer) <= Distance /\ aborted \in BOOLEAN
  /\ counts \in [CounterNames -> Nat]
  /\ unsaved \subseteq 0 .. (AddressSpace \div BlockSize) - 1
  /\ last \subseteq Nat
  /\ steps \in Nat

\* The inductive invariant.
HierarchyInv == Shape /\ NoLostWrite /\ AccessedStays /\ StatisticsAgree

\* A new cache is well formed and owes nothing.
LEMMA NewCacheFacts ==
  ASSUME NEW cfg \in CacheConfigs
  PROVE  /\ CacheOK(cfg, NewCache(cfg)) /\ Owed(cfg, NewCache(cfg)) = {}
         /\ NewCache(cfg).stats = NoStats
<1> DEFINE c == NewCache(cfg)
           sets == [s \in SetsOf(cfg) |-> [w \in WaysOf(cfg) |-> NoBlock]]
           repl == [s \in SetsOf(cfg) |-> NewPolicy(cfg.ways)]
<1>1. c = [sets |-> sets, repl |-> repl, stats |-> NoStats]
  BY DEF NewCache, SetsOf, WaysOf
<1>2. c.sets = sets /\ c.repl = repl /\ c.stats = NoStats
  BY <1>1
<1>3. NoBlock \in BlockRecord /\ ~NoBlock.valid
  BY DEF NoBlock, BlockRecord
<1>4. \A s \in SetsOf(cfg), w \in WaysOf(cfg) : sets[s][w] = NoBlock
  OBVIOUS
<1>5. TablesOK(cfg, sets)
  <2>1. sets \in [SetsOf(cfg) -> [WaysOf(cfg) -> BlockRecord]]
    BY <1>3
  <2> HIDE DEF sets
  <2> QED  BY <2>1, <1>3, <1>4 DEF TablesOK
<1>6. PoliciesOK(cfg, repl)
  <2>1. PolicyOK(cfg.ways, NewPolicy(cfg.ways))
    BY ConfigParts, NewPolicyOK
  <2> QED  BY <2>1 DEF PoliciesOK
<1>7. NoStats \in [StatNames -> Nat]
  BY DEF NoStats
<1> HIDE DEF sets, repl
<1>8. CacheOK(cfg, c)
  BY <1>1, <1>2, <1>5, <1>6, <1>7 DEF CacheOK
<1>9. ASSUME NEW x \in Owed(cfg, c) PROVE FALSE
  <2> HIDE DEF c
  <2>1. PICK s \in SetsOf(cfg), w \in WaysOf(cfg) : OwedAt(c.sets, s, w)
    BY OwedIs
  <2> QED  BY <2>1, <1>2, <1>3, <1>4 DEF OwedAt
<1> QED  BY <1>2, <1>8, <1>9

\* resetStats keeps the blocks.
LEMMA ResetCountsFacts ==
  ASSUME NEW cfg, NEW c, CacheOK(cfg, c)
  PROVE  /\ CacheOK(cfg, ResetCounts(c)) /\ ResetCounts(c).sets = c.sets
         /\ ResetCounts(c).stats = NoStats
<1>1. NoStats \in [StatNames -> Nat]
  BY DEF NoStats
<1>2. ResetCounts(c) = [sets |-> c.sets, repl |-> c.repl, stats |-> NoStats]
  BY DEF ResetCounts, CacheOK
<1> QED  BY <1>1, <1>2 DEF CacheOK

\* The invariant holds at first.
LEMMA InitInv == Init => HierarchyInv
<1> SUFFICES ASSUME Init PROVE HierarchyInv
  OBVIOUS
<1>1. l1cfg \in CacheConfigs /\ L2 \in CacheConfigs /\ L3 \in CacheConfigs
      /\ levels \subseteq {"L2", "L3"} /\ prefetch \in BOOLEAN
  BY HierarchyAssumption DEF Init
<1>2. /\ CacheOK(l1cfg, l1) /\ CacheOK(L2, l2) /\ CacheOK(L3, l3)
      /\ l1.stats = NoStats /\ l2.stats = NoStats
  BY <1>1, NewCacheFacts DEF Init
<1>3. predictor \in [0 .. TableSize - 1 -> Entry]
  <2>1. NewEntry \in Entry
    BY AddressFacts DEF NewEntry, Entry
  <2> QED  BY <2>1 DEF Init
<1>4. buffer \in Seq(AddressSet) /\ Len(buffer) <= Distance
  <2>1. 0 \in AddressSet /\ Distance \in Nat
    BY AddressFacts DEF AddressSet
  <2>2. buffer \in [1 .. Distance -> AddressSet]
    BY <2>1 DEF Init
  <2> QED  BY <2>1, <2>2
<1>5. /\ counts \in [CounterNames -> Nat] /\ unsaved = {} /\ last = {} /\ steps = 0
      /\ aborted = FALSE
  BY DEF Init, NoCounts
<1>6. Shape
  BY <1>1, <1>2, <1>3, <1>4, <1>5 DEF Shape
<1>7. StatisticsAgree
  <2>1. \A k \in StatNames : NoStats[k] = 0
    BY DEF NoStats
  <2>2. \A k \in CounterNames : counts[k] = 0
    BY DEF Init, NoCounts
  <2>3. \A k \in StatNames : l1.stats[k] = 0 /\ l2.stats[k] = 0
    BY <2>1, <1>2
  <2> QED  BY <2>2, <2>3 DEF StatisticsAgree, StatNames, MissTypes, CounterNames
<1> QED  BY <1>5, <1>6, <1>7 DEF HierarchyInv, NoLostWrite, AccessedStays

\* An entry of the stride table stays in its range, whatever the addresses.
LEMMA TrainedType ==
  ASSUME NEW e \in Entry, NEW a \in AddressSet
  PROVE  Trained(e, a) \in Entry
<1> DEFINE stride == (a - e.lastAddress) % AddressSpace
<1>1. /\ e.valid \in BOOLEAN /\ e.lastAddress \in AddressSet /\ e.stride \in AddressSet
      /\ e.confidence \in 0 .. 3
  BY DEF Entry, AddressSet
<1>2. stride \in AddressSet
  <2> DEFINE y == e.lastAddress
  <2>0. a \in Int /\ y \in Int
    BY <1>1 DEF AddressSet
  <2> HIDE DEF y
  <2>1. a - y \in Int
    BY <2>0
  <2> QED  BY <2>1, AddressFacts DEF y
<1>3. Min({e.confidence + 1, 3}) \in 0 .. 3
  <2>1. Min({e.confidence + 1, 3}) \in {e.confidence + 1, 3}
    <3>1. {e.confidence + 1, 3} \subseteq Nat /\ {e.confidence + 1, 3} # {}
      BY <1>1
    <3> QED  BY <3>1, LeastOf
  <2>2. \E m \in {e.confidence + 1, 3} : \A k \in {e.confidence + 1, 3} : m <= k
    BY <1>1
  <2>3. Min({e.confidence + 1, 3}) <= 3
    BY <2>2 DEF Min
  <2> QED  BY <2>1, <2>3, <1>1
<1>4. Max({e.confidence - 1, 0}) \in 0 .. 3
  <2>1. \E m \in {e.confidence - 1, 0} : \A k \in {e.confidence - 1, 0} : m >= k
    BY <1>1
  <2>2. /\ Max({e.confidence - 1, 0}) \in {e.confidence - 1, 0}
        /\ Max({e.confidence - 1, 0}) >= 0
    BY <2>1 DEF Max
  <2> QED  BY <2>2, <1>1
<1>5. NewEntry \in Entry
  BY AddressFacts DEF NewEntry, Entry
<1> DEFINE up == Min({e.confidence + 1, 3})
           less == Max({e.confidence - 1, 0})
<1>6. Trained(e, a) = IF ~e.valid THEN [NewEntry EXCEPT !.valid = TRUE, !.lastAddress = a]
                      ELSE IF stride = e.stride
                        THEN [e EXCEPT !.lastAddress = a, !.confidence = up]
                        ELSE [e EXCEPT !.lastAddress = a, !.stride = stride, !.confidence = less]
  BY DEF Trained
<1> HIDE DEF stride, up, less
<1>7. a \in 0 .. AddressSpace - 1 /\ stride \in 0 .. AddressSpace - 1 /\ up \in 0 .. 3 /\ less \in 0 .. 3
  BY <1>2, <1>3, <1>4 DEF AddressSet, up, less
<1>8. [NewEntry EXCEPT !.valid = TRUE, !.lastAddress = a] \in Entry
  BY <1>5, <1>7 DEF Entry
<1>9. [e EXCEPT !.lastAddress = a, !.confidence = up] \in Entry
  BY <1>7 DEF Entry
<1>10. [e EXCEPT !.lastAddress = a, !.stride = stride, !.confidence = less] \in Entry
  BY <1>7 DEF Entry
<1> QED  BY <1>6, <1>8, <1>9, <1>10

\* The table after an update, and the stride it predicts.
LEMMA UpdateType ==
  ASSUME predictor \in [0 .. TableSize - 1 -> Entry], NEW a \in AddressSet
  PROVE  Update(a) \in [0 .. TableSize - 1 -> Entry] /\ Stride(a) \in Nat
<1>1. a % TableSize \in 0 .. TableSize - 1
  BY AddressFacts
<1>2. Trained(predictor[a % TableSize], a) \in Entry
  BY <1>1, TrainedType
<1>3. Update(a) \in [0 .. TableSize - 1 -> Entry]
  BY <1>1, <1>2 DEF Update
<1>4. Update(a)[a % TableSize].stride \in Nat
  <2>1. Update(a)[a % TableSize] \in Entry
    BY <1>1, <1>3
  <2>2. Update(a)[a % TableSize].stride \in 0 .. AddressSpace - 1
    BY <2>1 DEF Entry
  <2> HIDE DEF Update
  <2> QED  BY <2>2
<1>5. Stride(a) \in Nat
  BY <1>4 DEF Stride
<1> QED  BY <1>3, <1>5

BufferOK(q) == q \in Seq(AddressSet) /\ Len(q) <= Distance

\* The stream buffer refilled, and shifted, holds addresses and never grows.
LEMMA StreamedOK ==
  ASSUME BufferOK(buffer), NEW a \in Nat
  PROVE  BufferOK(Streamed(a))
<1> DEFINE n == Len(buffer)
<1>1. n \in Nat /\ DOMAIN buffer = 1 .. n
  BY DomainOfSeq DEF BufferOK
<1>2. \A i \in 1 .. n : (a + i - 1) % AddressSpace \in AddressSet
  <2> TAKE i \in 1 .. n
  <2>1. a + i - 1 \in Int
    BY <1>1
  <2> HIDE DEF n
  <2> QED  BY <2>1, AddressFacts
<1>3. Streamed(a) = [i \in 1 .. n |-> (a + i - 1) % AddressSpace]
  BY <1>1 DEF Streamed
<1>4. Streamed(a) \in [1 .. n -> AddressSet]
  BY <1>2, <1>3
<1> HIDE DEF Streamed
<1>5. Streamed(a) \in Seq(AddressSet) /\ Len(Streamed(a)) = n
  <2> HIDE DEF n
  <2> QED  BY <1>1, <1>4
<1> QED  BY <1>5 DEF BufferOK

LEMMA ShiftedOK ==
  ASSUME BufferOK(buffer), NEW a, a \in ToSet(buffer)
  PROVE  BufferOK(Shifted(a))
<1> DEFINE n == Len(buffer)
           J == {j \in DOMAIN buffer : buffer[j] = a}
           i == Min(J)
<1>1. n \in Nat /\ DOMAIN buffer = 1 .. n /\ \A j \in 1 .. n : buffer[j] \in AddressSet
      /\ n <= Distance /\ Distance \in Nat
  BY DomainOfSeq, AddressFacts DEF BufferOK
<1>2. i \in 1 .. n
  <2>1. J \subseteq Nat /\ J # {} /\ J \subseteq 1 .. n
    BY <1>1 DEF ToSet
  <2> HIDE DEF J
  <2> QED  BY <2>1, LeastOf
<1>3. Shifted(a) = SubSeq(buffer, i + 1, n)
  BY DEF Shifted
<1> HIDE DEF i, n
<1>4. i + 1 \in Int /\ n \in Int /\ \A j \in i + 1 .. n : buffer[j] \in AddressSet
  BY <1>1, <1>2
<1>5. /\ SubSeq(buffer, i + 1, n) \in Seq(AddressSet)
      /\ Len(SubSeq(buffer, i + 1, n)) = IF i + 1 <= n THEN n - (i + 1) + 1 ELSE 0
  BY <1>4, SubSeqProperties
<1> QED  BY <1>1, <1>2, <1>3, <1>5 DEF BufferOK

\* What the prefetch behind an access of L1 leaves of the cache c it finds.
Prefetched(c, p) ==
  /\ CacheOK(l1cfg, p.cache) /\ p.requests \in Seq(Request) /\ BufferOK(p.buffer)
  /\ \A x \in Owed(l1cfg, c) : x \in Owed(l1cfg, p.cache) \cup Written(p.requests)
  /\ \A k \in StatNames \ {"writeBacks"} : p.cache.stats[k] = c.stats[k]
  /\ ~prefetch => p.cache = c /\ p.requests = <<>>
  /\ l1cfg.policy = "LRU" /\ l1cfg.ways > 1 =>
       \A x \in Nat : NotNext(l1cfg, c, x) => Find(l1cfg, p.cache, x) # {}

\* handlePrefetch keeps what is owed and the block that is not the next victim.
LEMMA PrefetchFacts ==
  ASSUME Shape, NEW c, CacheOK(l1cfg, c), NEW a \in AddressSet, NEW isWrite \in BOOLEAN,
         NEW p \in Prefetch(c, a, isWrite)
  PROVE  Prefetched(c, p)
<1> DEFINE target == (a + Stride(a)) % AddressSpace
           b == Block(target)
<1>1. /\ l1cfg \in CacheConfigs /\ BufferOK(buffer) /\ <<>> \in Seq(Request)
      /\ predictor \in [0 .. TableSize - 1 -> Entry]
  BY DEF Shape, BufferOK
<1>2. target \in AddressSet /\ target \in Nat
  <2>1. Stride(a) \in Nat /\ a \in Nat
    BY <1>1, UpdateType DEF AddressSet
  <2>2. a + Stride(a) \in Int
    BY <2>1
  <2> QED  BY <2>2, AddressFacts DEF AddressSet
<1>3. b \in Nat
  BY <1>2, BlockFacts
<1>4. BufferOK(Streamed(target))
  BY <1>1, <1>2, StreamedOK
<1>5. \A x \in Nat : NotNext(l1cfg, c, x) => Find(l1cfg, c, x) # {}
  BY DEF NotNext
<1>6. CASE ~prefetch \/ isWrite \/ Stride(a) = 0
  <2>1. p = [cache |-> c, requests |-> <<>>, buffer |-> buffer]
    BY <1>6 DEF Prefetch
  <2>2. p.cache = c /\ p.requests = <<>> /\ p.buffer = buffer
    BY <2>1
  <2> QED  BY <2>2, <1>1, <1>5 DEF Prefetched
<1>7. CASE ~(~prefetch \/ isWrite \/ Stride(a) = 0) /\ Find(l1cfg, c, b) # {}
  <2>1. p = [cache |-> c, requests |-> <<>>, buffer |-> Streamed(target)]
    BY <1>7 DEF Prefetch
  <2>2. p.cache = c /\ p.requests = <<>> /\ p.buffer = Streamed(target)
    BY <2>1
  <2> HIDE DEF target
  <2> QED  BY <2>2, <1>1, <1>4, <1>5 DEF Prefetched
<1>8. CASE ~(~prefetch \/ isWrite \/ Stride(a) = 0) /\ Find(l1cfg, c, b) = {}
  <2>1. PICK r \in Install(l1cfg, c, b, FALSE) :
          p = [cache |-> r.cache, requests |-> r.requests, buffer |-> Streamed(target)]
    BY <1>8 DEF Prefetch
  <2>2. p.cache = r.cache /\ p.requests = r.requests /\ p.buffer = Streamed(target)
    BY <2>1
  <2> HIDE DEF b, target
  <2>3. Installed(l1cfg, c, b, FALSE, r)
    BY <1>1, <1>3, <1>8, InstallFacts
  <2> QED  BY <2>2, <2>3, <1>4, <1>8 DEF Prefetched, Installed
<1> QED  BY <1>6, <1>7, <1>8

\* What L2 makes of the requests of L1.
LEMMA BelowFacts ==
  ASSUME Shape, NEW q \in Seq(Request), NEW x \in Below(q)
  PROVE  /\ CacheOK(L2, x.cache)
         /\ "L2" \in levels =>
              /\ \A b \in Owed(L2, l2) \cup Written(q) : b \in Owed(L2, x.cache) \cup x.saved
              /\ Handled(x.cache) = Handled(l2) + Len(q)
              /\ Len(q) > 0 => Find(L2, x.cache, q[Len(q)].block) # {}
         /\ "L2" \notin levels => x.cache = l2 /\ x.saved = Written(q)
<1>1. CacheOK(L2, l2) /\ L2 \in CacheConfigs
  BY HierarchyAssumption DEF Shape
<1>2. CASE "L2" \in levels
  <2>1. x \in Serve(L2, l2, q)
    BY <1>2 DEF Below
  <2> QED  BY <2>1, <1>1, <1>2, ServeFacts
<1>3. CASE "L2" \notin levels
  BY <1>1, <1>3 DEF Below
<1> QED  BY <1>2, <1>3

\* What the accesses of L2 and L3 after a miss in L1 leave behind.
Demanded(c, b, d) ==
  /\ CacheOK(L2, d.l2) /\ CacheOK(L3, d.l3)
  /\ \A x \in Owed(L2, c) : x \in Owed(L2, d.l2) \cup d.saved
  /\ "L2" \in levels => Handled(d.l2) = Handled(c) + 1
  /\ d.names \subseteq {"l2Accesses", "l2Misses", "l3Accesses", "l3Misses"}
  /\ "l2Misses" \in d.names <=> "L2" \in levels /\ Find(L2, c, b) = {}
  /\ "l3Accesses" \in d.names <=> "L3" \in levels /\ ("L2" \notin levels \/ Find(L2, c, b) = {})

\* The accesses of L2 and L3 that the hierarchy makes itself.
LEMMA DemandFacts ==
  ASSUME Shape, NEW c, CacheOK(L2, c), NEW b \in Nat, NEW isWrite \in BOOLEAN,
         NEW d \in Demand(c, b, isWrite)
  PROVE  Demanded(c, b, d)
<1> DEFINE second == IF "L2" \in levels THEN Access(L2, c, b, isWrite)
                     ELSE {[cache |-> c, hit |-> FALSE, requests |-> <<>>]}
           third(y) == IF y.hit \/ "L3" \notin levels
                         THEN {[cache |-> l3, hit |-> TRUE, requests |-> <<>>]}
                         ELSE Access(L3, l3, b, isWrite)
           names(y, e) ==
             {n \in {"l2Accesses", "l2Misses", "l3Accesses", "l3Misses"} :
                CASE n = "l2Accesses" -> "L2" \in levels
                  [] n = "l2Misses"   -> "L2" \in levels /\ ~y.hit
                  [] n = "l3Accesses" -> "L3" \in levels /\ ~y.hit
                  [] n = "l3Misses"   -> ~e.hit}
<1>1. PICK y \in second : \E e \in third(y) :
        d = [l2 |-> y.cache, l3 |-> e.cache, names |-> names(y, e), saved |-> Written(y.requests)]
  <2>1. Demand(c, b, isWrite) =
          UNION {{[l2 |-> y.cache, l3 |-> e.cache, names |-> names(y, e),
                   saved |-> Written(y.requests)] : e \in third(y)} : y \in second}
    BY DEF Demand
  <2> HIDE DEF names, third, second
  <2> QED  BY <2>1
<1>2. PICK e \in third(y) :
        d = [l2 |-> y.cache, l3 |-> e.cache, names |-> names(y, e), saved |-> Written(y.requests)]
  BY <1>1
<1>3. /\ d.l2 = y.cache /\ d.l3 = e.cache /\ d.names = names(y, e)
      /\ d.saved = Written(y.requests)
  BY <1>2
<1>4. CacheOK(L3, l3) /\ L2 \in CacheConfigs /\ L3 \in CacheConfigs
  BY HierarchyAssumption DEF Shape
<1>5. /\ CacheOK(L2, y.cache)
      /\ \A x \in Owed(L2, c) : x \in Owed(L2, y.cache) \cup Written(y.requests)
      /\ "L2" \in levels => Handled(y.cache) = Handled(c) + 1
      /\ y.hit = ("L2" \in levels /\ Find(L2, c, b) # {})
  <2>1. CASE "L2" \in levels
    <3>1. y \in Access(L2, c, b, isWrite)
      BY <2>1
    <3> QED  BY <2>1, <3>1, <1>4, AccessFacts
  <2>2. CASE "L2" \notin levels
    <3>1. y.cache = c /\ y.hit = FALSE
      BY <2>2
    <3> QED  BY <2>2, <3>1
  <2> QED  BY <2>1, <2>2
<1>6. CacheOK(L3, e.cache)
  <2>1. CASE y.hit \/ "L3" \notin levels
    BY <2>1, <1>4
  <2>2. CASE ~(y.hit \/ "L3" \notin levels)
    <3>1. e \in Access(L3, l3, b, isWrite)
      BY <2>2
    <3> QED  BY <3>1, <1>4, AccessFacts
  <2> QED  BY <2>1, <2>2
<1>7. /\ names(y, e) \subseteq {"l2Accesses", "l2Misses", "l3Accesses", "l3Misses"}
      /\ "l2Misses" \in names(y, e) <=> "L2" \in levels /\ ~y.hit
      /\ "l3Accesses" \in names(y, e) <=> "L3" \in levels /\ ~y.hit
  OBVIOUS
<1> HIDE DEF names, second, third
<1> QED  BY <1>3, <1>5, <1>6, <1>7 DEF Demanded

-----------------------------------------------------------------------------
\* The counters after a hit, after a miss, and those of the hierarchy.
One(condition) == IF condition THEN 1 ELSE 0

\* The counters of a cache after a hit.
LEMMA HitCounters ==
  ASSUME NEW cfg, NEW s \in [StatNames -> Nat], NEW t, NEW isWrite \in BOOLEAN,
         \A k \in StatNames : t[k] = IF k \in HitNames(cfg, isWrite) THEN s[k] + 1 ELSE s[k]
  PROVE  /\ t["hits"] = s["hits"] + 1 /\ t["misses"] = s["misses"]
         /\ t["reads"] = s["reads"] + One(~isWrite) /\ t["writes"] = s["writes"] + One(isWrite)
         /\ t["writeBacks"] = s["writeBacks"]
         /\ t["writeThroughs"] = s["writeThroughs"] + One(isWrite /\ ~cfg.writeBack)
         /\ t["Compulsory"] = s["Compulsory"] /\ t["Conflict"] = s["Conflict"]
         /\ t["Capacity"] = s["Capacity"]
<1>1. \A k \in {"hits", "misses", "reads", "writes", "writeBacks", "writeThroughs",
                "Compulsory", "Conflict", "Capacity"} : k \in StatNames /\ s[k] \in Nat
  BY DEF StatNames, MissTypes
<1> DEFINE names == HitNames(cfg, isWrite)
<1>2. /\ "hits" \in names /\ "misses" \notin names /\ "writeBacks" \notin names
      /\ "reads" \in names <=> ~isWrite
      /\ "writes" \in names <=> isWrite
      /\ "writeThroughs" \in names <=> isWrite /\ ~cfg.writeBack
      /\ "Compulsory" \notin names /\ "Conflict" \notin names /\ "Capacity" \notin names
  BY DEF HitNames, Kind
<1>3. \A k \in StatNames : t[k] = IF k \in names THEN s[k] + 1 ELSE s[k]
  OBVIOUS
<1> HIDE DEF names
<1>4. t["hits"] = s["hits"] + 1 /\ t["misses"] = s["misses"] /\ t["writeBacks"] = s["writeBacks"]
  BY <1>1, <1>2, <1>3
<1>5. t["reads"] = s["reads"] + One(~isWrite) /\ t["writes"] = s["writes"] + One(isWrite)
  BY <1>1, <1>2, <1>3 DEF One
<1>6. t["writeThroughs"] = s["writeThroughs"] + One(isWrite /\ ~cfg.writeBack)
  BY <1>1, <1>2, <1>3 DEF One
<1>7. /\ t["Compulsory"] = s["Compulsory"] /\ t["Conflict"] = s["Conflict"]
      /\ t["Capacity"] = s["Capacity"]
  BY <1>1, <1>2, <1>3
<1> QED  BY <1>4, <1>5, <1>6, <1>7

\* The counters of a cache after a miss.
LEMMA MissCounters ==
  ASSUME NEW s \in [StatNames -> Nat], NEW t, NEW isWrite \in BOOLEAN, NEW type \in MissTypes,
         \A k \in StatNames :
           t[k] = IF k \in {"misses", Kind(isWrite), type} THEN s[k] + 1 ELSE s[k]
  PROVE  /\ t["hits"] = s["hits"] /\ t["misses"] = s["misses"] + 1
         /\ t["reads"] = s["reads"] + One(~isWrite) /\ t["writes"] = s["writes"] + One(isWrite)
         /\ t["writeBacks"] = s["writeBacks"] /\ t["writeThroughs"] = s["writeThroughs"]
         /\ t["Compulsory"] + t["Conflict"] + t["Capacity"]
              = s["Compulsory"] + s["Conflict"] + s["Capacity"] + 1
<1>1. \A k \in {"hits", "misses", "reads", "writes", "writeBacks", "writeThroughs",
                "Compulsory", "Conflict", "Capacity"} : k \in StatNames /\ s[k] \in Nat
  BY DEF StatNames, MissTypes
<1> DEFINE names == {"misses", Kind(isWrite), type}
<1>2. /\ "hits" \notin names /\ "misses" \in names
      /\ "writeBacks" \notin names /\ "writeThroughs" \notin names
      /\ "reads" \in names <=> ~isWrite
      /\ "writes" \in names <=> isWrite
      /\ "Compulsory" \in names <=> type = "Compulsory"
      /\ "Conflict" \in names <=> type = "Conflict"
      /\ "Capacity" \in names <=> type = "Capacity"
  BY DEF Kind, MissTypes
<1>3. \A k \in StatNames : t[k] = IF k \in names THEN s[k] + 1 ELSE s[k]
  OBVIOUS
<1> HIDE DEF names
<1>4. /\ t["hits"] = s["hits"] /\ t["misses"] = s["misses"] + 1
      /\ t["writeBacks"] = s["writeBacks"] /\ t["writeThroughs"] = s["writeThroughs"]
  BY <1>1, <1>2, <1>3
<1>5. t["reads"] = s["reads"] + One(~isWrite) /\ t["writes"] = s["writes"] + One(isWrite)
  BY <1>1, <1>2, <1>3 DEF One
<1>6. /\ t["Compulsory"] = s["Compulsory"] + One(type = "Compulsory")
      /\ t["Conflict"] = s["Conflict"] + One(type = "Conflict")
      /\ t["Capacity"] = s["Capacity"] + One(type = "Capacity")
  BY <1>1, <1>2, <1>3 DEF One
<1>7. t["Compulsory"] + t["Conflict"] + t["Capacity"]
        = s["Compulsory"] + s["Conflict"] + s["Capacity"] + 1
  BY <1>1, <1>6 DEF One, MissTypes
<1> QED  BY <1>4, <1>5, <1>7

\* The counters of the hierarchy.
LEMMA CountFacts ==
  ASSUME counts \in [CounterNames -> Nat], NEW names, NEW isWrite \in BOOLEAN,
         "l1Reads" \notin names, "l1Writes" \notin names, Count(names, isWrite)
  PROVE  /\ counts' \in [CounterNames -> Nat]
         /\ counts'["l1Reads"] = counts["l1Reads"] + One(~isWrite)
         /\ counts'["l1Writes"] = counts["l1Writes"] + One(isWrite)
         /\ \A k \in CounterNames \ {"l1Reads", "l1Writes"} :
              counts'[k] = counts[k] + One(k \in names)
<1> DEFINE all == names \cup {IF isWrite THEN "l1Writes" ELSE "l1Reads"}
<1>1. counts' = [k \in CounterNames |-> IF k \in all THEN counts[k] + 1 ELSE counts[k]]
  BY DEF Count
<1>2. /\ "l1Reads" \in CounterNames /\ "l1Writes" \in CounterNames
      /\ "l1Reads" \in all <=> ~isWrite
      /\ "l1Writes" \in all <=> isWrite
      /\ \A k \in CounterNames \ {"l1Reads", "l1Writes"} : k \in all <=> k \in names
  BY DEF CounterNames
<1> HIDE DEF all
<1>3. /\ \A k \in CounterNames : counts[k] \in Nat
      /\ \A k \in CounterNames : counts'[k] = IF k \in all THEN counts[k] + 1 ELSE counts[k]
  BY <1>1
<1>4. counts' \in [CounterNames -> Nat]
  BY <1>1
<1>5. /\ counts'["l1Reads"] = counts["l1Reads"] + One(~isWrite)
      /\ counts'["l1Writes"] = counts["l1Writes"] + One(isWrite)
  BY <1>2, <1>3 DEF One
<1>6. ASSUME NEW k \in CounterNames \ {"l1Reads", "l1Writes"}
      PROVE  counts'[k] = counts[k] + One(k \in names)
  BY <1>2, <1>3 DEF One
<1> QED  BY <1>4, <1>5, <1>6

\* The parts of StatisticsAgree: L1's own counters, those of L3, and those of L2.
L1Agrees(s, t) ==
  /\ s["hits"] + s["misses"] = s["reads"] + s["writes"]
  /\ s["reads"] = t["l1Reads"] /\ s["writes"] = t["l1Writes"]
  /\ s["misses"] = t["l1Misses"] + t["streamHits"]
  /\ s["misses"] = s["Compulsory"] + s["Conflict"] + s["Capacity"]
L3Agrees(t) ==
  t["l3Accesses"] = (IF levels = {"L3"} THEN t["l1Misses"]
                     ELSE IF "L3" \in levels THEN t["l2Misses"] ELSE 0)
L2Agrees(s, handled, t) ==
  "L2" \in levels /\ ~prefetch =>
    handled = 2 * t["l1Misses"] + s["writeBacks"] + s["writeThroughs"]

\* StatisticsAgree is its parts, before a step and after it.
LEMMA AgreeParts ==
  StatisticsAgree <=> /\ L1Agrees(l1.stats, counts) /\ L3Agrees(counts)
                      /\ L2Agrees(l1.stats, Handled(l2), counts)
  BY DEF StatisticsAgree, L1Agrees, L2Agrees, L3Agrees, Handled

LEMMA AgreePartsNext ==
  ASSUME UNCHANGED config
  PROVE  StatisticsAgree' <=> /\ L1Agrees(l1'.stats, counts') /\ L3Agrees(counts')
                              /\ L2Agrees(l1'.stats, Handled(l2'), counts')
  BY DEF StatisticsAgree, L1Agrees, L2Agrees, L3Agrees, Handled, config

\* All counters are numbers.
LEMMA NumbersTyped ==
  ASSUME Shape
  PROVE  /\ l1.stats \in [StatNames -> Nat] /\ Handled(l2) \in Nat
         /\ \A k \in CounterNames : counts[k] \in Nat
         /\ \A k \in StatNames : l1.stats[k] \in Nat
         /\ {"l1Reads", "l1Writes", "l1Misses", "l2Accesses", "l2Misses",
             "l3Accesses", "l3Misses", "streamHits"} = CounterNames
         /\ {"hits", "misses", "reads", "writes", "writeBacks", "writeThroughs",
             "Compulsory", "Conflict", "Capacity"} = StatNames
<1>1. l2.stats \in [StatNames -> Nat] /\ l1.stats \in [StatNames -> Nat]
  BY DEF Shape, CacheOK
<1>2. "hits" \in StatNames /\ "misses" \in StatNames
  BY DEF StatNames
<1>3. Handled(l2) \in Nat
  BY <1>1, <1>2 DEF Handled
<1> QED  BY <1>1, <1>3 DEF Shape, StatNames, MissTypes, CounterNames

-----------------------------------------------------------------------------
\* The beginning of every access.
LEMMA BeginFacts ==
  ASSUME Shape, NEW a \in Addresses, Begin(a)
  PROVE  /\ a \in AddressSet /\ Block(a) \in Nat
         /\ Block(a) \in 0 .. (AddressSpace \div BlockSize) - 1
         /\ l1cfg' = l1cfg /\ levels' = levels /\ prefetch' = prefetch
         /\ aborted' = aborted
         /\ predictor' \in [0 .. TableSize - 1 -> Entry] /\ steps' \in Nat
<1>1. a \in AddressSet
  BY AddressFacts
<1>2. Update(a) \in [0 .. TableSize - 1 -> Entry]
  BY <1>1, UpdateType DEF Shape
<1>3. steps' \in Nat
  BY DEF Shape, Begin
<1> QED  BY <1>1, <1>2, <1>3, BlockFacts DEF Begin, config

\* The shape after an access, from the shapes of its parts.
LEMMA ShapeNext ==
  ASSUME Shape, NEW a \in Addresses, Begin(a),
         CacheOK(l1cfg, l1'), CacheOK(L2, l2'), CacheOK(L3, l3'), BufferOK(buffer'),
         counts' \in [CounterNames -> Nat],
         unsaved' \subseteq unsaved \cup {Block(a)}, last' \subseteq {Block(a)}
  PROVE  Shape'
<1>1. /\ Block(a) \in Nat /\ Block(a) \in 0 .. (AddressSpace \div BlockSize) - 1
      /\ l1cfg' = l1cfg /\ levels' = levels /\ prefetch' = prefetch /\ aborted' = aborted
      /\ predictor' \in [0 .. TableSize - 1 -> Entry] /\ steps' \in Nat
  BY BeginFacts
<1>2. /\ l1cfg \in CacheConfigs /\ levels \subseteq {"L2", "L3"} /\ prefetch \in BOOLEAN
      /\ unsaved \subseteq 0 .. (AddressSpace \div BlockSize) - 1
  BY DEF Shape
<1>3. unsaved' \subseteq 0 .. (AddressSpace \div BlockSize) - 1 /\ last' \subseteq Nat
  BY <1>1, <1>2
<1>4. CacheOK(l1cfg', l1')
  BY <1>1
<1> QED  BY <1>1, <1>2, <1>3, <1>4 DEF Shape, BufferOK

\* What is written in an access, and what was owed before it, is owed after it or
\* in memory: L1 keeps it or asks for it to be written, and what it asks L2 keeps
\* or saves.
Carried(new, asked, saved) ==
  /\ \A x \in Owed(l1cfg, l1) \cup new : x \in Owed(l1cfg, l1') \cup asked
  /\ "L2" \in levels => \A x \in Owed(L2, l2) \cup asked : x \in Owed(L2, l2') \cup saved
  /\ "L2" \notin levels => asked \subseteq saved
  /\ unsaved' = (unsaved \cup new) \ (saved \ Owed(l1cfg, l1'))

\* Then no write is lost.
LEMMA WritesCarried ==
  ASSUME NoLostWrite, UNCHANGED config, NEW new, NEW asked, NEW saved,
         Carried(new, asked, saved)
  PROVE  NoLostWrite'
<1>1. l1cfg' = l1cfg /\ levels' = levels
  BY DEF config
<1>2. ASSUME NEW x \in unsaved'
      PROVE  x \in Owed(l1cfg, l1') \/ ("L2" \in levels /\ x \in Owed(L2, l2'))
  BY <1>2 DEF Carried, NoLostWrite
<1> QED  BY <1>1, <1>2 DEF NoLostWrite

-----------------------------------------------------------------------------
\* The three ways an access goes keep the invariant: a hit in L1,
LEMMA HitInv ==
  ASSUME HierarchyInv, NEW a \in Addresses, NEW isWrite \in BOOLEAN, Hit(a, isWrite)
  PROVE  HierarchyInv'
<1> DEFINE b == Block(a)
           new == IF isWrite THEN {b} ELSE {}
           r == OnHit(l1cfg, l1, b, isWrite)
<1>1. Shape /\ NoLostWrite /\ StatisticsAgree /\ Begin(a) /\ UNCHANGED config
  BY DEF HierarchyInv, Hit, Begin
<1>2. /\ b \in Nat /\ l1cfg \in CacheConfigs /\ CacheOK(l1cfg, l1)
      /\ l1cfg' = l1cfg /\ levels' = levels /\ prefetch' = prefetch
  BY <1>1, BeginFacts DEF Shape
<1>3. PICK x \in Below(r.requests) :
        l1' = r.cache /\ l2' = x.cache /\ Track(b, isWrite, x.saved)
  BY DEF Hit
<1>4. /\ Find(l1cfg, l1, b) # {} /\ Count({}, isWrite)
      /\ l3' = l3 /\ buffer' = buffer
  BY DEF Hit
<1> DEFINE asked == HitRequests(l1cfg, b, isWrite)
<1>5. /\ CacheOK(l1cfg, l1') /\ r.requests = asked
      /\ l1'.stats = Counted(l1, HitNames(l1cfg, isWrite)).stats
      /\ Find(l1cfg, l1', b) # {}
      /\ \A y \in Owed(l1cfg, l1) \cup new : y \in Owed(l1cfg, l1') \cup Written(asked)
  <2> HIDE DEF b
  <2>1. HitDone(l1cfg, l1, b, isWrite, r)
    BY <1>2, <1>4, OnHitFacts
  <2> HIDE DEF r
  <2> QED  BY <1>2, <1>3, <1>4, <2>1 DEF HitDone
<1>6. /\ unsaved' = (unsaved \cup new) \ (x.saved \ Owed(l1cfg, l1'))
      /\ last' = {b}
  BY <1>3 DEF Track
<1> HIDE DEF r
<1>7. asked \in Seq(Request) /\ Len(asked) = One(isWrite /\ ~l1cfg.writeBack)
  <2>1. WriteRequest(b) \in Request
    BY <1>2 DEF WriteRequest, Request
  <2> HIDE DEF b
  <2> QED  BY <2>1 DEF HitRequests, One
<1> HIDE DEF asked, b
<1>8. x \in Below(asked)
  BY <1>3, <1>5
<1>9. /\ CacheOK(L2, l2')
      /\ "L2" \in levels =>
           /\ \A y \in Owed(L2, l2) \cup Written(asked) : y \in Owed(L2, l2') \cup x.saved
           /\ Handled(l2') = Handled(l2) + Len(asked)
      /\ "L2" \notin levels => Written(asked) \subseteq x.saved
  BY <1>1, <1>3, <1>7, <1>8, BelowFacts
<1>10. NoLostWrite'
  <2>1. Carried(new, Written(asked), x.saved)
    BY <1>5, <1>6, <1>9 DEF Carried
  <2> QED  BY <1>1, <2>1, WritesCarried
<1>11. AccessedStays'
  BY <1>2, <1>5, <1>6 DEF AccessedStays
<1>12. /\ counts' \in [CounterNames -> Nat]
       /\ counts'["l1Reads"] = counts["l1Reads"] + One(~isWrite)
       /\ counts'["l1Writes"] = counts["l1Writes"] + One(isWrite)
       /\ \A k \in CounterNames \ {"l1Reads", "l1Writes"} :
            counts'[k] = counts[k] + One(k \in {})
  BY <1>1, <1>4, CountFacts DEF Shape
<1>13. Shape'
  <2>1. BufferOK(buffer') /\ CacheOK(L3, l3')
    BY <1>1, <1>4 DEF Shape, BufferOK
  <2>2. unsaved' \subseteq unsaved \cup {Block(a)} /\ last' \subseteq {Block(a)}
    BY <1>6 DEF b
  <2> QED  BY <1>1, <1>5, <1>9, <1>12, <2>1, <2>2, ShapeNext
<1>14. StatisticsAgree'
  <2>1. \A k \in StatNames :
          l1'.stats[k] = IF k \in HitNames(l1cfg, isWrite) THEN l1.stats[k] + 1 ELSE l1.stats[k]
    BY <1>2, <1>5, CountedFacts
  <2>2. l1.stats \in [StatNames -> Nat]
    BY <1>1, NumbersTyped
  <2> DEFINE s == l1.stats
             t == l1'.stats
  <2> HIDE DEF s, t
  <2>3. /\ t["hits"] = s["hits"] + 1 /\ t["misses"] = s["misses"]
        /\ t["reads"] = s["reads"] + One(~isWrite) /\ t["writes"] = s["writes"] + One(isWrite)
        /\ t["writeBacks"] = s["writeBacks"]
        /\ t["writeThroughs"] = s["writeThroughs"] + One(isWrite /\ ~l1cfg.writeBack)
        /\ t["Compulsory"] = s["Compulsory"] /\ t["Conflict"] = s["Conflict"]
        /\ t["Capacity"] = s["Capacity"]
    BY <2>1, <2>2, HitCounters, SMTT(30) DEF s, t
  <2>4. /\ counts'["l1Misses"] = counts["l1Misses"]
        /\ counts'["streamHits"] = counts["streamHits"]
        /\ counts'["l2Misses"] = counts["l2Misses"]
        /\ counts'["l3Accesses"] = counts["l3Accesses"]
    BY <1>1, <1>12, NumbersTyped DEF One
  <2>5. /\ \A k \in {"hits", "misses", "reads", "writes", "writeBacks", "writeThroughs",
                     "Compulsory", "Conflict", "Capacity"} : s[k] \in Nat
        /\ counts["l1Reads"] \in Nat /\ counts["l1Writes"] \in Nat
        /\ counts["l1Misses"] \in Nat /\ counts["streamHits"] \in Nat
    BY <1>1, NumbersTyped DEF s
  <2>6. L1Agrees(s, counts) /\ L3Agrees(counts) /\ L2Agrees(s, Handled(l2), counts)
    BY <1>1, AgreeParts DEF s
  <2>7. L1Agrees(t, counts')
    BY <1>12, <2>3, <2>4, <2>5, <2>6 DEF L1Agrees, One
  <2>8. L3Agrees(counts')
    BY <2>4, <2>6 DEF L3Agrees
  <2>9. L2Agrees(t, Handled(l2'), counts')
    <3> DEFINE k == One(isWrite /\ ~l1cfg.writeBack)
    <3>1. Handled(l2) \in Nat /\ k \in Nat
      BY <1>1, NumbersTyped DEF One
    <3>2. /\ t["writeBacks"] = s["writeBacks"] /\ t["writeThroughs"] = s["writeThroughs"] + k
          /\ "L2" \in levels => Handled(l2') = Handled(l2) + k
      BY <1>7, <1>9, <2>3
    <3> HIDE DEF k
    <3> QED  BY <2>4, <2>5, <2>6, <3>1, <3>2 DEF L2Agrees
  <2> QED  BY <1>1, <2>7, <2>8, <2>9, AgreePartsNext DEF t
<1> QED  BY <1>10, <1>11, <1>13, <1>14 DEF HierarchyInv

\* What a miss in L1 counts.
LEMMA MissCounted ==
  ASSUME Shape, NEW b \in Nat, NEW isWrite \in BOOLEAN
  PROVE  LET s == l1.stats
             t == OnMiss(l1cfg, l1, b, isWrite).stats
         IN /\ t["hits"] = s["hits"] /\ t["misses"] = s["misses"] + 1
            /\ t["reads"] = s["reads"] + One(~isWrite) /\ t["writes"] = s["writes"] + One(isWrite)
            /\ t["writeBacks"] = s["writeBacks"] /\ t["writeThroughs"] = s["writeThroughs"]
            /\ t["Compulsory"] + t["Conflict"] + t["Capacity"]
                 = s["Compulsory"] + s["Conflict"] + s["Capacity"] + 1
<1> DEFINE s == l1.stats
           t == OnMiss(l1cfg, l1, b, isWrite).stats
           type == MissType(l1cfg, l1, b)
<1>1. s \in [StatNames -> Nat]
  BY NumbersTyped
<1>2. type \in MissTypes
  BY DEF MissType, MissTypes
<1>3. \A k \in StatNames :
        t[k] = IF k \in {"misses", Kind(isWrite), type} THEN s[k] + 1 ELSE s[k]
  BY OnMissFacts DEF Shape
<1> HIDE DEF s, t, type
<1>4. /\ t["hits"] = s["hits"] /\ t["misses"] = s["misses"] + 1
      /\ t["reads"] = s["reads"] + One(~isWrite) /\ t["writes"] = s["writes"] + One(isWrite)
      /\ t["writeBacks"] = s["writeBacks"] /\ t["writeThroughs"] = s["writeThroughs"]
      /\ t["Compulsory"] + t["Conflict"] + t["Capacity"]
           = s["Compulsory"] + s["Conflict"] + s["Capacity"] + 1
  BY <1>1, <1>2, <1>3, MissCounters
<1> QED  BY <1>4 DEF s, t

\* a hit in the stream buffer,
LEMMA StreamHitInv ==
  ASSUME HierarchyInv, NEW a \in Addresses, NEW isWrite \in BOOLEAN, StreamHit(a, isWrite)
  PROVE  HierarchyInv'
<1> DEFINE b == Block(a)
<1>1. Shape /\ NoLostWrite /\ StatisticsAgree /\ Begin(a) /\ UNCHANGED config
  BY DEF HierarchyInv, StreamHit, Begin
<1>2. /\ b \in Nat /\ CacheOK(l1cfg, l1)
      /\ l1cfg' = l1cfg /\ levels' = levels /\ prefetch' = prefetch
  BY <1>1, BeginFacts DEF Shape
<1>3. /\ prefetch /\ a \in ToSet(buffer)
      /\ l1' = OnMiss(l1cfg, l1, b, isWrite)
      /\ buffer' = IF isWrite THEN buffer ELSE Shifted(a)
      /\ Count({"streamHits"}, isWrite)
      /\ last' = {} /\ l2' = l2 /\ l3' = l3 /\ unsaved' = unsaved
  BY DEF StreamHit
<1> HIDE DEF b
<1>4. CacheOK(l1cfg, l1') /\ Owed(l1cfg, l1') = Owed(l1cfg, l1)
  BY <1>2, <1>3, OnMissFacts
<1>5. /\ counts' \in [CounterNames -> Nat]
      /\ counts'["l1Reads"] = counts["l1Reads"] + One(~isWrite)
      /\ counts'["l1Writes"] = counts["l1Writes"] + One(isWrite)
      /\ \A k \in CounterNames \ {"l1Reads", "l1Writes"} :
           counts'[k] = counts[k] + One(k \in {"streamHits"})
  BY <1>1, <1>3, CountFacts DEF Shape
<1>6. Shape'
  <2>1. BufferOK(buffer) /\ CacheOK(L2, l2) /\ CacheOK(L3, l3)
    BY <1>1 DEF Shape, BufferOK
  <2>2. BufferOK(buffer')
    BY <1>3, <2>1, ShiftedOK
  <2> QED  BY <1>1, <1>3, <1>4, <1>5, <2>1, <2>2, ShapeNext
<1>7. NoLostWrite'
  BY <1>1, <1>2, <1>3, <1>4 DEF NoLostWrite
<1>8. AccessedStays'
  BY <1>3 DEF AccessedStays
<1>9. StatisticsAgree'
  <2> DEFINE s == l1.stats
             t == l1'.stats
  <2>1. /\ t["hits"] = s["hits"] /\ t["misses"] = s["misses"] + 1
        /\ t["reads"] = s["reads"] + One(~isWrite) /\ t["writes"] = s["writes"] + One(isWrite)
        /\ t["writeBacks"] = s["writeBacks"] /\ t["writeThroughs"] = s["writeThroughs"]
        /\ t["Compulsory"] + t["Conflict"] + t["Capacity"]
             = s["Compulsory"] + s["Conflict"] + s["Capacity"] + 1
    BY <1>1, <1>2, <1>3, MissCounted
  <2> HIDE DEF s, t
  <2>2. /\ counts'["l1Misses"] = counts["l1Misses"]
        /\ counts'["streamHits"] = counts["streamHits"] + 1
        /\ counts'["l2Misses"] = counts["l2Misses"]
        /\ counts'["l3Accesses"] = counts["l3Accesses"]
    BY <1>1, <1>5, NumbersTyped DEF One
  <2>3. /\ \A k \in {"hits", "misses", "reads", "writes", "writeBacks", "writeThroughs",
                     "Compulsory", "Conflict", "Capacity"} : s[k] \in Nat
        /\ counts["l1Reads"] \in Nat /\ counts["l1Writes"] \in Nat
        /\ counts["l1Misses"] \in Nat /\ counts["streamHits"] \in Nat
    BY <1>1, NumbersTyped DEF s
  <2>4. L1Agrees(s, counts) /\ L3Agrees(counts) /\ L2Agrees(s, Handled(l2), counts)
    BY <1>1, AgreeParts DEF s
  <2>5. L1Agrees(t, counts')
    BY <1>5, <2>1, <2>2, <2>3, <2>4 DEF L1Agrees, One
  <2>6. L3Agrees(counts')
    BY <2>2, <2>4 DEF L3Agrees
  <2>7. L2Agrees(t, Handled(l2'), counts')
    BY <1>3 DEF L2Agrees
  <2> QED  BY <1>1, <2>5, <2>6, <2>7, AgreePartsNext DEF t
<1> QED  BY <1>6, <1>7, <1>8, <1>9 DEF HierarchyInv

\* resetStats keeps it too.
LEMMA ResetInv ==
  ASSUME HierarchyInv, ResetStats
  PROVE  HierarchyInv'
<1>1. /\ Shape /\ NoLostWrite /\ AccessedStays
      /\ CacheOK(l1cfg, l1) /\ CacheOK(L2, l2) /\ CacheOK(L3, l3)
  BY DEF HierarchyInv, Shape
<1>2. /\ counts' = NoCounts
      /\ l1' = ResetCounts(l1) /\ l2' = ResetCounts(l2) /\ l3' = ResetCounts(l3)
      /\ l1cfg' = l1cfg /\ levels' = levels /\ prefetch' = prefetch
      /\ predictor' = predictor /\ buffer' = buffer /\ unsaved' = unsaved
      /\ last' = last /\ steps' = steps /\ aborted' = aborted
  BY DEF ResetStats, config
<1>3. /\ CacheOK(l1cfg, l1') /\ l1'.sets = l1.sets /\ l1'.stats = NoStats
      /\ CacheOK(L2, l2') /\ l2'.sets = l2.sets /\ l2'.stats = NoStats
      /\ CacheOK(L3, l3')
  BY <1>1, <1>2, ResetCountsFacts
<1>4. Shape'
  <2>1. counts' \in [CounterNames -> Nat]
    BY <1>2 DEF NoCounts
  <2>2. CacheOK(l1cfg', l1')
    BY <1>2, <1>3
  <2> QED  BY <1>1, <1>2, <1>3, <2>1, <2>2 DEF Shape
<1>5. /\ \A x : Find(l1cfg, l1', x) = Find(l1cfg, l1, x)
      /\ Owed(l1cfg, l1') = Owed(l1cfg, l1) /\ Owed(L2, l2') = Owed(L2, l2)
  BY <1>3, SameSets
<1>6. NoLostWrite'
  BY <1>1, <1>2, <1>5 DEF NoLostWrite
<1>7. AccessedStays'
  BY <1>1, <1>2, <1>5 DEF AccessedStays
<1>8. StatisticsAgree'
  <2>1. \A k \in StatNames : l1'.stats[k] = 0 /\ l2'.stats[k] = 0
    BY <1>3 DEF NoStats
  <2>2. \A k \in CounterNames : counts'[k] = 0
    BY <1>2 DEF NoCounts
  <2> QED  BY <2>1, <2>2 DEF StatisticsAgree, StatNames, MissTypes, CounterNames
<1> QED  BY <1>4, <1>6, <1>7, <1>8 DEF HierarchyInv

-----------------------------------------------------------------------------
\* The parts of StatisticsAgree after a miss, as facts about numbers.
LEMMA MissAgrees ==
  ASSUME NEW s \in [StatNames -> Nat], NEW t, NEW c \in [CounterNames -> Nat], NEW e,
         NEW isWrite \in BOOLEAN, NEW names,
         L1Agrees(s, c), L3Agrees(c), levels \subseteq {"L2", "L3"},
         /\ t["hits"] = s["hits"] /\ t["misses"] = s["misses"] + 1
         /\ t["reads"] = s["reads"] + One(~isWrite) /\ t["writes"] = s["writes"] + One(isWrite)
         /\ t["Compulsory"] + t["Conflict"] + t["Capacity"]
              = s["Compulsory"] + s["Conflict"] + s["Capacity"] + 1,
         /\ e["l1Reads"] = c["l1Reads"] + One(~isWrite)
         /\ e["l1Writes"] = c["l1Writes"] + One(isWrite)
         /\ e["l1Misses"] = c["l1Misses"] + 1 /\ e["streamHits"] = c["streamHits"]
         /\ e["l2Misses"] = c["l2Misses"] + One("l2Misses" \in names)
         /\ e["l3Accesses"] = c["l3Accesses"] + One("l3Accesses" \in names),
         NEW there \in BOOLEAN,
         "l2Misses" \in names <=> "L2" \in levels /\ ~there,
         "l3Accesses" \in names <=> "L3" \in levels /\ ("L2" \notin levels \/ ~there)
  PROVE  L1Agrees(t, e) /\ L3Agrees(e)
<1>1. /\ \A k \in {"hits", "misses", "reads", "writes", "Compulsory", "Conflict", "Capacity"} :
           s[k] \in Nat
      /\ \A k \in {"l1Reads", "l1Writes", "l1Misses", "streamHits", "l2Misses", "l3Accesses"} :
           c[k] \in Nat
  BY DEF StatNames, MissTypes, CounterNames
<1>2. One(isWrite) \in Nat /\ One(~isWrite) \in Nat /\ One(isWrite) + One(~isWrite) = 1
  BY DEF One
<1>3. L1Agrees(t, e)
  BY <1>1, <1>2 DEF L1Agrees
<1>4. L3Agrees(e)
  <2>1. CASE levels = {"L3"}
    BY <1>1, <2>1 DEF L3Agrees, One
  <2>2. CASE "L2" \in levels /\ "L3" \in levels
    <3>1. levels # {"L3"}
      BY <2>2
    <3> QED  BY <1>1, <2>2, <3>1 DEF L3Agrees, One
  <2>3. CASE "L3" \notin levels
    <3>1. levels # {"L3"}
      BY <2>3
    <3> QED  BY <1>1, <2>3, <3>1 DEF L3Agrees, One
  <2>4. levels = {"L3"} \/ "L2" \in levels \/ "L3" \notin levels
    OBVIOUS
  <2> QED  BY <2>1, <2>2, <2>3, <2>4
<1> QED  BY <1>3, <1>4

\* and a miss.
LEMMA MissInv ==
  ASSUME HierarchyInv, NEW a \in Addresses, NEW isWrite \in BOOLEAN, Miss(a, isWrite)
  PROVE  HierarchyInv'
<1> DEFINE b == Block(a)
           new == IF isWrite THEN {b} ELSE {}
           m == OnMiss(l1cfg, l1, b, isWrite)
<1>1. Shape /\ NoLostWrite /\ StatisticsAgree /\ Begin(a) /\ UNCHANGED config
  BY DEF HierarchyInv, Miss, Begin
<1>2. /\ a \in AddressSet /\ b \in Nat /\ l1cfg \in CacheConfigs /\ CacheOK(l1cfg, l1)
      /\ l1cfg' = l1cfg /\ levels' = levels /\ prefetch' = prefetch
  BY <1>1, BeginFacts DEF Shape
<1>3. PICK i \in Install(l1cfg, m, b, isWrite) :
        \E p \in Prefetch(i.cache, a, isWrite) : \E x \in Below(i.requests \o p.requests) :
        \E d \in Demand(x.cache, b, isWrite) :
          /\ l1' = p.cache /\ l2' = d.l2 /\ l3' = d.l3 /\ buffer' = p.buffer
          /\ Count({"l1Misses"} \cup d.names, isWrite)
          /\ Track(b, isWrite, x.saved \cup d.saved)
  BY DEF Miss
<1>4. PICK p \in Prefetch(i.cache, a, isWrite) :
        \E x \in Below(i.requests \o p.requests) : \E d \in Demand(x.cache, b, isWrite) :
          /\ l1' = p.cache /\ l2' = d.l2 /\ l3' = d.l3 /\ buffer' = p.buffer
          /\ Count({"l1Misses"} \cup d.names, isWrite)
          /\ Track(b, isWrite, x.saved \cup d.saved)
  BY <1>3
<1>5. PICK x \in Below(i.requests \o p.requests) : \E d \in Demand(x.cache, b, isWrite) :
          /\ l1' = p.cache /\ l2' = d.l2 /\ l3' = d.l3 /\ buffer' = p.buffer
          /\ Count({"l1Misses"} \cup d.names, isWrite)
          /\ Track(b, isWrite, x.saved \cup d.saved)
  BY <1>4
<1>6. PICK d \in Demand(x.cache, b, isWrite) :
          /\ l1' = p.cache /\ l2' = d.l2 /\ l3' = d.l3 /\ buffer' = p.buffer
          /\ Count({"l1Misses"} \cup d.names, isWrite)
          /\ Track(b, isWrite, x.saved \cup d.saved)
  BY <1>5
<1>7. Find(l1cfg, l1, b) = {}
  BY DEF Miss
<1>8. /\ CacheOK(l1cfg, m) /\ Find(l1cfg, m, b) = {} /\ Owed(l1cfg, m) = Owed(l1cfg, l1)
  <2> HIDE DEF b
  <2> QED  BY <1>2, <1>7, OnMissFacts
<1>9. /\ unsaved' = (unsaved \cup new) \ ((x.saved \cup d.saved) \ Owed(l1cfg, l1'))
      /\ last' = {b}
  BY <1>6 DEF Track
<1> DEFINE q == i.requests \o p.requests
<1> HIDE DEF m, b
<1>10. Installed(l1cfg, m, b, isWrite, i)
  BY <1>2, <1>8, InstallFacts
<1>11. CacheOK(l1cfg, i.cache)
  BY <1>10 DEF Installed
<1>12. Prefetched(i.cache, p)
  BY <1>1, <1>2, <1>11, PrefetchFacts
<1>13. /\ i.requests \in Seq(Request) /\ p.requests \in Seq(Request)
       /\ q \in Seq(Request) /\ Written(q) = Written(i.requests) \cup Written(p.requests)
  <2>1. i.requests \in Seq(Request) /\ p.requests \in Seq(Request)
    BY <1>10, <1>12 DEF Installed, Prefetched
  <2> QED  BY <2>1, WrittenBoth, ConcatProperties
<1> HIDE DEF q
<1>14. /\ CacheOK(L2, x.cache)
       /\ "L2" \in levels =>
            /\ \A y \in Owed(L2, l2) \cup Written(q) : y \in Owed(L2, x.cache) \cup x.saved
            /\ Handled(x.cache) = Handled(l2) + Len(q)
            /\ Len(q) > 0 => Find(L2, x.cache, q[Len(q)].block) # {}
       /\ "L2" \notin levels => x.cache = l2 /\ x.saved = Written(q)
  <2>1. x \in Below(q)
    BY <1>5 DEF q
  <2> QED  BY <1>1, <1>13, <2>1, BelowFacts
<1>15. Demanded(x.cache, b, d)
  BY <1>1, <1>2, <1>14, DemandFacts
<1>16. CacheOK(l1cfg, l1') /\ BufferOK(buffer') /\ CacheOK(L2, l2') /\ CacheOK(L3, l3')
  BY <1>6, <1>12, <1>15 DEF Prefetched, Demanded
<1>17. NoLostWrite'
  <2>1. \A y \in Owed(l1cfg, l1) \cup new : y \in Owed(l1cfg, l1') \cup Written(q)
    <3>1. \A y \in Owed(l1cfg, l1) \cup new : y \in Owed(l1cfg, i.cache) \cup Written(i.requests)
      BY <1>8, <1>10 DEF Installed
    <3>2. \A y \in Owed(l1cfg, i.cache) : y \in Owed(l1cfg, l1') \cup Written(p.requests)
      BY <1>6, <1>12 DEF Prefetched
    <3> HIDE DEF new
    <3> QED  BY <3>1, <3>2, <1>13
  <2>2. "L2" \in levels =>
          \A y \in Owed(L2, l2) \cup Written(q) : y \in Owed(L2, l2') \cup (x.saved \cup d.saved)
    <3>1. \A y \in Owed(L2, x.cache) : y \in Owed(L2, l2') \cup d.saved
      BY <1>6, <1>15 DEF Demanded
    <3> QED  BY <3>1, <1>14
  <2>3. "L2" \notin levels => Written(q) \subseteq x.saved \cup d.saved
    BY <1>14
  <2> HIDE DEF new
  <2>4. Carried(new, Written(q), x.saved \cup d.saved)
    BY <2>1, <2>2, <2>3, <1>9 DEF Carried
  <2> QED  BY <1>1, <2>4, WritesCarried
<1>18. AccessedStays'
  <2>1. ASSUME l1cfg.policy = "LRU" /\ l1cfg.ways > 1
        PROVE  Find(l1cfg, l1', b) # {}
    <3>1. NotNext(l1cfg, i.cache, b)
      BY <2>1, <1>10 DEF Installed
    <3> QED  BY <2>1, <3>1, <1>2, <1>6, <1>12 DEF Prefetched
  <2> QED  BY <2>1, <1>2, <1>9 DEF AccessedStays
<1> DEFINE names == {"l1Misses"} \cup d.names
<1>19. /\ d.names \subseteq {"l2Accesses", "l2Misses", "l3Accesses", "l3Misses"}
       /\ "l2Misses" \in names <=> "L2" \in levels /\ Find(L2, x.cache, b) = {}
       /\ "l3Accesses" \in names <=> "L3" \in levels /\ ("L2" \notin levels \/ Find(L2, x.cache, b) = {})
       /\ "l1Misses" \in names /\ "streamHits" \notin names
       /\ "l1Reads" \notin names /\ "l1Writes" \notin names
  BY <1>15 DEF Demanded
<1> HIDE DEF names
<1>20. /\ counts' \in [CounterNames -> Nat]
       /\ counts'["l1Reads"] = counts["l1Reads"] + One(~isWrite)
       /\ counts'["l1Writes"] = counts["l1Writes"] + One(isWrite)
       /\ \A k \in CounterNames \ {"l1Reads", "l1Writes"} :
            counts'[k] = counts[k] + One(k \in names)
  <2>1. Count(names, isWrite)
    BY <1>6 DEF names
  <2> QED  BY <1>1, <1>19, <2>1, CountFacts DEF Shape
<1>21. Shape'
  <2>1. unsaved' \subseteq unsaved \cup {Block(a)} /\ last' \subseteq {Block(a)}
    BY <1>9 DEF b
  <2> QED  BY <1>1, <1>16, <1>20, <2>1, ShapeNext
<1>22. StatisticsAgree'
  <2> DEFINE s == l1.stats
             t == l1'.stats
             there == Find(L2, x.cache, b) # {}
  <2>1. \A k \in StatNames \ {"writeBacks"} : l1'.stats[k] = m.stats[k]
    BY <1>6, <1>10, <1>12 DEF Installed, Prefetched
  <2>2. /\ m.stats["hits"] = s["hits"] /\ m.stats["misses"] = s["misses"] + 1
        /\ m.stats["reads"] = s["reads"] + One(~isWrite)
        /\ m.stats["writes"] = s["writes"] + One(isWrite)
        /\ m.stats["writeBacks"] = s["writeBacks"]
        /\ m.stats["writeThroughs"] = s["writeThroughs"]
        /\ m.stats["Compulsory"] + m.stats["Conflict"] + m.stats["Capacity"]
             = s["Compulsory"] + s["Conflict"] + s["Capacity"] + 1
    BY <1>1, <1>2, MissCounted DEF m
  <2>3. /\ t["hits"] = s["hits"] /\ t["misses"] = s["misses"] + 1
        /\ t["reads"] = s["reads"] + One(~isWrite) /\ t["writes"] = s["writes"] + One(isWrite)
        /\ t["Compulsory"] + t["Conflict"] + t["Capacity"]
             = s["Compulsory"] + s["Conflict"] + s["Capacity"] + 1
        /\ t["writeThroughs"] = s["writeThroughs"]
    <3>1. \A k \in {"hits", "misses", "reads", "writes", "writeThroughs",
                    "Compulsory", "Conflict", "Capacity"} : l1'.stats[k] = m.stats[k]
      BY <2>1 DEF StatNames, MissTypes
    <3> QED  BY <3>1, <2>2
  <2>4. s \in [StatNames -> Nat] /\ counts \in [CounterNames -> Nat]
        /\ levels \subseteq {"L2", "L3"} /\ there \in BOOLEAN
    BY <1>1, NumbersTyped DEF Shape
  <2>5. L1Agrees(s, counts) /\ L3Agrees(counts) /\ L2Agrees(s, Handled(l2), counts)
    BY <1>1, AgreeParts
  <2>6. /\ counts'["l1Misses"] = counts["l1Misses"] + 1
        /\ counts'["streamHits"] = counts["streamHits"]
        /\ counts'["l2Misses"] = counts["l2Misses"] + One("l2Misses" \in names)
        /\ counts'["l3Accesses"] = counts["l3Accesses"] + One("l3Accesses" \in names)
    BY <1>1, <1>19, <1>20, NumbersTyped DEF One
  <2>7. /\ "l2Misses" \in names <=> "L2" \in levels /\ ~there
        /\ "l3Accesses" \in names <=> "L3" \in levels /\ ("L2" \notin levels \/ ~there)
    BY <1>19
  <2>8. ASSUME "L2" \in levels, ~prefetch
        PROVE  /\ there
               /\ Handled(l2') = Handled(l2) + Len(i.requests) + 1
               /\ t["writeBacks"] = s["writeBacks"] + (Len(i.requests) - 1)
               /\ Len(i.requests) \in Nat
    <3>1. p.cache = i.cache /\ p.requests = <<>>
      BY <2>8, <1>12 DEF Prefetched
    <3>2. q = i.requests
      BY <3>1, <1>13 DEF q
    <3>3. /\ Len(i.requests) \in Nat \ {0} /\ i.requests[Len(i.requests)] = ReadRequest(b)
          /\ "writeBacks" \in StatNames
          /\ i.cache.stats["writeBacks"] = m.stats["writeBacks"] + (Len(i.requests) - 1)
      BY <1>10 DEF Installed, StatNames
    <3>4. there
      BY <2>8, <3>2, <3>3, <1>14 DEF ReadRequest
    <3>5. Handled(l2') = Handled(x.cache) + 1 /\ Handled(x.cache) = Handled(l2) + Len(i.requests)
      BY <2>8, <3>2, <1>6, <1>14, <1>15 DEF Demanded
    <3> QED  BY <3>1, <3>3, <3>4, <3>5, <1>6, <2>2
  <2> HIDE DEF s, t, there
  <2>9. L1Agrees(t, counts') /\ L3Agrees(counts')
    BY <1>20, <2>3, <2>4, <2>5, <2>6, <2>7, MissAgrees, SMTT(30)
  <2>10. L2Agrees(t, Handled(l2'), counts')
    <3>1. SUFFICES ASSUME "L2" \in levels, ~prefetch
                   PROVE  Handled(l2') = 2 * counts'["l1Misses"] + t["writeBacks"] + t["writeThroughs"]
      BY DEF L2Agrees
    <3>2. /\ Handled(l2) = 2 * counts["l1Misses"] + s["writeBacks"] + s["writeThroughs"]
          /\ Handled(l2) \in Nat /\ counts["l1Misses"] \in Nat
          /\ s["writeBacks"] \in Nat /\ s["writeThroughs"] \in Nat
      BY <3>1, <2>4, <2>5, <1>1, NumbersTyped DEF L2Agrees, s
    <3> DEFINE n == Len(i.requests)
    <3>3. /\ n \in Nat /\ Handled(l2') = Handled(l2) + n + 1
          /\ t["writeBacks"] = s["writeBacks"] + (n - 1)
      BY <3>1, <2>8
    <3> HIDE DEF n
    <3>4. counts'["l1Misses"] = counts["l1Misses"] + 1 /\ t["writeThroughs"] = s["writeThroughs"]
      BY <2>3, <2>6
    <3> DEFINE h == Handled(l2)
               c == counts["l1Misses"]
               w == s["writeBacks"]
               u == s["writeThroughs"]
    <3>5. h = 2 * c + w + u /\ h \in Nat /\ c \in Nat /\ w \in Nat /\ u \in Nat
      BY <3>2
    <3>6. /\ Handled(l2') = h + n + 1 /\ t["writeBacks"] = w + (n - 1) /\ t["writeThroughs"] = u
          /\ counts'["l1Misses"] = c + 1
      BY <3>3, <3>4
    <3> HIDE DEF h, c, w, u
    <3>7. h + n + 1 = 2 * (c + 1) + (w + (n - 1)) + u
      BY <3>3, <3>5
    <3> QED  BY <3>6, <3>7
  <2> QED  BY <1>1, <2>9, <2>10, AgreePartsNext DEF t
<1> QED  BY <1>17, <1>18, <1>21, <1>22 DEF HierarchyInv

-----------------------------------------------------------------------------
\* Every step keeps the invariant.
LEMMA NextInv == HierarchyInv /\ [Next]_vars => HierarchyInv'
<1> SUFFICES ASSUME HierarchyInv, [Next]_vars
             PROVE  HierarchyInv'
  OBVIOUS
<1>1. ASSUME NEW a \in Addresses, NEW isWrite \in BOOLEAN, Hit(a, isWrite)
      PROVE  HierarchyInv'
  BY <1>1, HitInv
<1>2. ASSUME NEW a \in Addresses, NEW isWrite \in BOOLEAN, StreamHit(a, isWrite)
      PROVE  HierarchyInv'
  BY <1>2, StreamHitInv
<1>3. ASSUME NEW a \in Addresses, NEW isWrite \in BOOLEAN, Miss(a, isWrite)
      PROVE  HierarchyInv'
  BY <1>3, MissInv
<1>4. CASE ResetStats
  BY <1>4, ResetInv
<1>5. ASSUME NEW a \in Addresses, OverrunAborts(a) PROVE HierarchyInv'
  BY <1>5 DEF HierarchyInv, Shape, NoLostWrite, AccessedStays, StatisticsAgree,
              OverrunAborts, config
<1>6. CASE UNCHANGED vars
  BY <1>6 DEF HierarchyInv, Shape, NoLostWrite, AccessedStays, StatisticsAgree, vars
<1> QED  BY <1>1, <1>2, <1>3, <1>4, <1>5, <1>6 DEF Next, Ended

\* With tags that differ a block is found in one way at most.
LEMMA FoundOnce ==
  ASSUME NEW cfg \in CacheConfigs, NEW c, CacheOK(cfg, c), NEW b \in Nat
  PROVE  Cardinality(Find(cfg, c, b)) <= 1
<1>1. TablesOK(cfg, c.sets) /\ SetIndex(cfg, b) \in SetsOf(cfg)
  BY BlockPlace DEF CacheOK
<1>2. \A v, w \in Find(cfg, c, b) : v = w
  BY <1>1, FindIs, SMTT(30) DEF TablesOK
<1>3. CASE Find(cfg, c, b) = {}
  BY <1>3, FS_EmptySet
<1>4. CASE Find(cfg, c, b) # {}
  <2>1. PICK w : w \in Find(cfg, c, b)
    BY <1>4
  <2>2. Find(cfg, c, b) = {w}
    BY <2>1, <1>2
  <2> QED  BY <2>2, FS_Singleton
<1> QED  BY <1>3, <1>4

\* What the runs call well formed follows from the shape.
LEMMA ShapeIsWellFormed == Shape => WellFormed
<1> SUFFICES ASSUME Shape PROVE WellFormed
  OBVIOUS
<1>1. ToSet(buffer) \subseteq AddressSet
  BY DEF Shape, ToSet
<1>2. TypeOK
  BY <1>1 DEF Shape, TypeOK, AddressSet
<1>3. ASSUME NEW b \in 0 .. (AddressSpace \div BlockSize) - 1
      PROVE  /\ Cardinality(Find(l1cfg, l1, b)) <= 1
             /\ Cardinality(Find(L2, l2, b)) <= 1
             /\ Cardinality(Find(L3, l3, b)) <= 1
  <2>1. b \in Nat
    OBVIOUS
  <2>2. /\ l1cfg \in CacheConfigs /\ CacheOK(l1cfg, l1) /\ CacheOK(L2, l2) /\ CacheOK(L3, l3)
        /\ L2 \in CacheConfigs /\ L3 \in CacheConfigs
    BY HierarchyAssumption DEF Shape
  <2> QED  BY <2>1, <2>2, FoundOnce
<1> QED  BY <1>2, <1>3 DEF WellFormed, NoBlockTwice

\* The invariant that carries the four others.
THEOREM HierarchyInvariant == Spec => []HierarchyInv
<1>1. Init => HierarchyInv
  BY InitInv
<1>2. HierarchyInv /\ [Next]_vars => HierarchyInv'
  BY NextInv
<1> QED  BY <1>1, <1>2, PTL DEF Spec

\* After any sequence of accesses and resets no cache of the hierarchy holds a
\* block twice, whatever replaced, prefetched and written blocks did to each
\* other in one call of access, and the predictor, the addresses in the stream
\* buffer (whatever is left of it) and the counters are well formed.
THEOREM CachesStayWellFormed == Spec => []WellFormed
<1>1. HierarchyInv => WellFormed
  BY ShapeIsWellFormed DEF HierarchyInv
<1> QED  BY <1>1, HierarchyInvariant, PTL

\* A write that L1 took is never dropped on its way down: it is in memory, or in a
\* cache that knows it has to write the block back.
THEOREM WritesAreNeverLost == Spec => []NoLostWrite
<1>1. HierarchyInv => NoLostWrite
  BY DEF HierarchyInv
<1> QED  BY <1>1, HierarchyInvariant, PTL

\* Under LRU and with two ways or more, the block access installed survives the
\* prefetch that follows it in the same call.
THEOREM PrefetchSparesTheBlock == Spec => []AccessedStays
<1>1. HierarchyInv => AccessedStays
  BY DEF HierarchyInv
<1> QED  BY <1>1, HierarchyInvariant, PTL

\* The hierarchy, its caches and the stream buffer count the same accesses.
THEOREM CountersStayInStep == Spec => []StatisticsAgree
<1>1. HierarchyInv => StatisticsAgree
  BY DEF HierarchyInv
<1> QED  BY <1>1, HierarchyInvariant, PTL
=============================================================================

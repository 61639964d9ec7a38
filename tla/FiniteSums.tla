----------------------------- MODULE FiniteSums -----------------------------
(***************************************************************************)
(* Sums over finite sets, as the community module Functions computes them: *)
(* the recursion behind SumFunction has exactly one solution, and the sum  *)
(* follows from it.  Induction is by the least counterexample, which needs *)
(* no theorem with an operator as a parameter.                             *)
(***************************************************************************)
EXTENDS Integers, FiniteSets, Functions, FiniteSetTheorems, WellFoundedInduction, TLAPS

\* Every nonempty set of natural numbers has a least element: induction without an
\* operator as a parameter.
LEMMA LeastNumber ==
  ASSUME NEW S, S \subseteq Nat, S # {}
  PROVE  \E m \in S : \A k \in S : m <= k
<1>1. IsWellFoundedOn(OpToRel(<, Nat), Nat)
  BY NatLessThanWellFounded
<1>2. PICK m \in S : \A k \in S : <<k, m>> \notin OpToRel(<, Nat)
  BY <1>1, WFMin
<1>3. \A k \in S : ~(k < m)
  BY <1>2 DEF OpToRel
<1> QED  BY <1>3

\* The recursion by which the community module folds a function over a set.
AnyOne(s) == CHOOSE x \in s : TRUE
Sums(G, f, S) ==
  G = [s \in SUBSET S |-> IF s = {} THEN 0 ELSE f[AnyOne(s)] + G[s \ {AnyOne(s)}]]

LEMMA SumUnfolds ==
  ASSUME NEW f, NEW S, NEW H, Sums(H, f, S)
  PROVE  \E G : Sums(G, f, S) /\ SumFunctionOnSet(f, S) = G[S]
<1>1. SumFunctionOnSet(f, S) = (CHOOSE G : Sums(G, f, S))[S]
  BY DEF SumFunctionOnSet, FoldFunctionOnSet, MapThenFoldSet, Sums, AnyOne
<1> QED  BY <1>1
LEMMA AnyOneIsIn == ASSUME NEW s, s # {} PROVE AnyOne(s) \in s
  BY DEF AnyOne

\* The recursion up to the sets of n elements.
SumsUpTo(G, f, S, n) ==
  G = [s \in {t \in SUBSET S : Cardinality(t) <= n} |->
         IF s = {} THEN 0 ELSE f[AnyOne(s)] + G[s \ {AnyOne(s)}]]

LEMMA Smaller ==
  ASSUME NEW S, IsFiniteSet(S), NEW s \in SUBSET S, NEW x \in s
  PROVE  /\ IsFiniteSet(s) /\ s \ {x} \in SUBSET S
         /\ Cardinality(s) \in Nat /\ Cardinality(s \ {x}) \in Nat
         /\ Cardinality(s \ {x}) = Cardinality(s) - 1
<1>1. IsFiniteSet(s)
  BY FS_Subset
<1>2. IsFiniteSet(s \ {x}) /\ Cardinality(s \ {x}) = Cardinality(s) - 1
  BY <1>1, FS_RemoveElement
<1> QED  BY <1>1, <1>2, FS_CardinalityType

LEMMA SumsUpToExists ==
  ASSUME NEW f, NEW S, IsFiniteSet(S), NEW n \in Nat
  PROVE  \E G : SumsUpTo(G, f, S, n)
<1> DEFINE Bad == {m \in Nat : ~ \E G : SumsUpTo(G, f, S, m)}
<1> SUFFICES ASSUME Bad # {} PROVE FALSE
  OBVIOUS
<1>1. PICK m \in Bad : \A k \in Bad : m <= k
  BY LeastNumber
<1>0. \A s \in SUBSET S : /\ Cardinality(s) \in Nat
                          /\ s # {} => /\ AnyOne(s) \in s /\ s \ {AnyOne(s)} \in SUBSET S
                                       /\ Cardinality(s \ {AnyOne(s)}) = Cardinality(s) - 1
  <2>1. \A s \in SUBSET S : Cardinality(s) \in Nat
    BY FS_Subset, FS_CardinalityType
  <2>2. \A s \in SUBSET S : s # {} => AnyOne(s) \in s
    BY AnyOneIsIn
  <2> QED  BY <2>1, <2>2, Smaller
<1>2. m # 0
  <2> DEFINE Z == {t \in SUBSET S : Cardinality(t) <= 0}
             G == [s \in Z |-> 0]
  <2>1. \A s \in Z : s = {}
    <3>1. ASSUME NEW s \in Z, s # {} PROVE FALSE
      <4>1. Cardinality(s) <= 0 /\ Cardinality(s) \in Nat
        BY <1>0
      <4>2. Cardinality(s \ {AnyOne(s)}) = Cardinality(s) - 1 /\ s \ {AnyOne(s)} \in SUBSET S
        BY <1>0, <3>1
      <4>3. Cardinality(s \ {AnyOne(s)}) \in Nat
        BY <1>0, <4>2
      <4> QED  BY <4>1, <4>2, <4>3
    <3> QED  BY <3>1
  <2>2. G = [s \in Z |-> IF s = {} THEN 0 ELSE f[AnyOne(s)] + G[s \ {AnyOne(s)}]]
    <3> HIDE DEF Z
    <3> QED  BY <2>1
  <2>3. SumsUpTo(G, f, S, 0)
    BY <2>2 DEF SumsUpTo
  <2> QED  BY <2>3
<1>3. PICK F : SumsUpTo(F, f, S, m - 1)
  <2>1. m - 1 \in Nat /\ ~(m <= m - 1)
    BY <1>2
  <2> QED  BY <2>1, <1>1
<1> DEFINE D == {t \in SUBSET S : Cardinality(t) <= m}
           E == {t \in SUBSET S : Cardinality(t) <= m - 1}
           G == [s \in D |-> IF s = {} THEN 0 ELSE f[AnyOne(s)] + F[s \ {AnyOne(s)}]]
<1>4. \A s \in E : s \in D /\ G[s] = F[s]
  <2> SUFFICES ASSUME NEW s \in E PROVE s \in D /\ G[s] = F[s]
    OBVIOUS
  <2>1. s \in D
    <3>1. s \in SUBSET S /\ Cardinality(s) <= m - 1 /\ m \in Nat
      OBVIOUS
    <3>2. Cardinality(s) \in Nat
      BY <1>0, <3>1
    <3>3. Cardinality(s) <= m
      BY <3>1, <3>2
    <3> QED  BY <3>1, <3>3
  <2>2. G[s] = IF s = {} THEN 0 ELSE f[AnyOne(s)] + F[s \ {AnyOne(s)}]
    BY <2>1
  <2>3. F = [t \in E |-> IF t = {} THEN 0 ELSE f[AnyOne(t)] + F[t \ {AnyOne(t)}]]
    BY <1>3 DEF SumsUpTo
  <2>4. F[s] = IF s = {} THEN 0 ELSE f[AnyOne(s)] + F[s \ {AnyOne(s)}]
    <3> HIDE DEF E
    <3> QED  BY <2>3
  <2> QED  BY <2>1, <2>2, <2>4
<1>5. \A s \in D : s # {} => s \ {AnyOne(s)} \in E
  BY <1>0, <1>1
<1>6. \A s \in D : s # {} => G[s \ {AnyOne(s)}] = F[s \ {AnyOne(s)}]
  BY <1>4, <1>5
<1> HIDE DEF G
<1>7. G = [s \in D |-> IF s = {} THEN 0 ELSE f[AnyOne(s)] + G[s \ {AnyOne(s)}]]
  <2>1. G = [s \in D |-> IF s = {} THEN 0 ELSE f[AnyOne(s)] + F[s \ {AnyOne(s)}]]
    BY DEF G
  <2> HIDE DEF D
  <2> QED  BY <1>6, <2>1
<1>8. SumsUpTo(G, f, S, m)
  BY <1>7 DEF SumsUpTo
<1> QED  BY <1>8

LEMMA SumsExists ==
  ASSUME NEW f, NEW S, IsFiniteSet(S)
  PROVE  \E G : Sums(G, f, S)
<1> DEFINE n == Cardinality(S)
<1>1. n \in Nat
  BY FS_CardinalityType
<1>2. {t \in SUBSET S : Cardinality(t) <= n} = SUBSET S
  BY FS_Subset
<1>3. PICK G : SumsUpTo(G, f, S, n)
  BY <1>1, SumsUpToExists
<1>4. Sums(G, f, S)
  <2> HIDE DEF n
  <2> QED  BY <1>2, <1>3 DEF SumsUpTo, Sums
<1> QED  BY <1>4

LEMMA SumsStep ==
  ASSUME NEW f, NEW S, NEW G, Sums(G, f, S), NEW s \in SUBSET S
  PROVE  G[s] = IF s = {} THEN 0 ELSE f[AnyOne(s)] + G[s \ {AnyOne(s)}]
<1> DEFINE body(t) == IF t = {} THEN 0 ELSE f[AnyOne(t)] + G[t \ {AnyOne(t)}]
<1>1. G = [t \in SUBSET S |-> body(t)]
  BY DEF Sums
<1>2. G[s] = body(s)
  <2> HIDE DEF body
  <2> QED  BY <1>1
<1> QED  BY <1>2

\* A claim about all subsets of a finite set: there is a smallest subset among those
\* that would contradict it.
LEMMA SmallestSet ==
  ASSUME NEW S, IsFiniteSet(S), NEW B \in SUBSET SUBSET S, B # {}
  PROVE  \E s \in B : \A t \in B : Cardinality(s) <= Cardinality(t)
<1> DEFINE C == {Cardinality(s) : s \in B}
<1>1. C \subseteq Nat /\ C # {}
  <2>1. \A s \in B : Cardinality(s) \in Nat
    BY FS_Subset, FS_CardinalityType
  <2> QED  BY <2>1
<1>2. PICK n \in C : \A k \in C : n <= k
  <2> HIDE DEF C
  <2> QED  BY <1>1, LeastNumber
<1> QED  BY <1>2

LEMMA SumsType ==
  ASSUME NEW f, NEW S, IsFiniteSet(S), \A x \in S : f[x] \in Int, NEW G, Sums(G, f, S)
  PROVE  \A s \in SUBSET S : G[s] \in Int
<1> DEFINE B == {s \in SUBSET S : G[s] \notin Int}
<1> SUFFICES ASSUME B # {} PROVE FALSE
  OBVIOUS
<1>1. PICK s \in B : \A t \in B : Cardinality(s) <= Cardinality(t)
  <2>1. B \in SUBSET SUBSET S
    OBVIOUS
  <2> HIDE DEF B
  <2> QED  BY <2>1, SmallestSet
<1>2. G[s] = IF s = {} THEN 0 ELSE f[AnyOne(s)] + G[s \ {AnyOne(s)}]
  <2>1. s \in SUBSET S
    OBVIOUS
  <2> HIDE DEF B
  <2> QED  BY <2>1, SumsStep
<1>3. CASE s = {}
  BY <1>2, <1>3
<1>4. CASE s # {}
  <2> DEFINE x == AnyOne(s)
  <2>1. x \in s
    BY <1>4, AnyOneIsIn
  <2> HIDE DEF x
  <2>2. s \ {x} \in SUBSET S /\ ~(Cardinality(s) <= Cardinality(s \ {x}))
    BY <2>1, Smaller
  <2>3. G[s \ {x}] \in Int
    BY <1>1, <2>2
  <2>4. f[x] \in Int
    BY <2>1
  <2> QED  BY <1>2, <1>4, <2>3, <2>4 DEF x
<1> QED  BY <1>3, <1>4

\* Any element may be added last.
LEMMA SumsAny ==
  ASSUME NEW f, NEW S, IsFiniteSet(S), \A x \in S : f[x] \in Int, NEW G, Sums(G, f, S)
  PROVE  \A s \in SUBSET S : \A x \in s : G[s] = f[x] + G[s \ {x}]
<1>u. ASSUME NEW t \in SUBSET S, t # {}
      PROVE  G[t] = f[AnyOne(t)] + G[t \ {AnyOne(t)}]
  <2>1. G[t] = IF t = {} THEN 0 ELSE f[AnyOne(t)] + G[t \ {AnyOne(t)}]
    BY <1>u, SumsStep
  <2> QED  BY <1>u, <2>1
<1> DEFINE B == {s \in SUBSET S : ~ \A x \in s : G[s] = f[x] + G[s \ {x}]}
<1> SUFFICES ASSUME B # {} PROVE FALSE
  OBVIOUS
<1>1. PICK s \in B : \A t \in B : Cardinality(s) <= Cardinality(t)
  <2>1. B \in SUBSET SUBSET S
    OBVIOUS
  <2> HIDE DEF B
  <2> QED  BY <2>1, SmallestSet
<1>2. PICK x \in s : G[s] # f[x] + G[s \ {x}]
  OBVIOUS
<1> DEFINE c == AnyOne(s)
<1>3. G[s] = f[c] + G[s \ {c}]
  <2>1. s \in SUBSET S /\ s # {}
    OBVIOUS
  <2> QED  BY <1>u, <2>1
<1>4. c \in s
  BY <1>2, AnyOneIsIn
<1> HIDE DEF c
<1>5. c # x
  BY <1>2, <1>3
<1>6. G[s \ {c}] = f[x] + G[(s \ {c}) \ {x}]
  <2>1. s \ {c} \in SUBSET S /\ ~(Cardinality(s) <= Cardinality(s \ {c}))
    BY <1>4, Smaller
  <2>2. x \in s \ {c}
    BY <1>5
  <2> QED  BY <1>1, <2>1, <2>2
<1>7. G[s \ {x}] = f[c] + G[(s \ {x}) \ {c}]
  <2>1. s \ {x} \in SUBSET S /\ ~(Cardinality(s) <= Cardinality(s \ {x}))
    BY Smaller
  <2>2. c \in s \ {x}
    BY <1>4, <1>5
  <2> QED  BY <1>1, <2>1, <2>2
<1>8. (s \ {c}) \ {x} = (s \ {x}) \ {c}
  OBVIOUS
<1>9. f[c] \in Int /\ f[x] \in Int /\ G[(s \ {x}) \ {c}] \in Int
  <2>1. (s \ {x}) \ {c} \in SUBSET S /\ c \in S /\ x \in S
    BY <1>4
  <2>2. G[(s \ {x}) \ {c}] \in Int
    BY <2>1, SumsType
  <2>3. f[c] \in Int
    BY <2>1
  <2>4. f[x] \in Int
    BY <2>1
  <2> QED  BY <2>2, <2>3, <2>4
<1> DEFINE a == f[c]
           b == f[x]
           z == G[(s \ {x}) \ {c}]
<1>10. a \in Int /\ b \in Int /\ z \in Int /\ G[s] = a + (b + z) /\ G[s \ {x}] = a + z
  BY <1>3, <1>6, <1>7, <1>8, <1>9
<1> HIDE DEF a, b, z
<1>11. G[s] = b + G[s \ {x}]
  BY <1>10
<1> QED  BY <1>2, <1>11 DEF b

\* The sum of a function over a set depends on its values there alone.
LEMMA SumsAgree ==
  ASSUME NEW f, NEW g, NEW S, NEW T, IsFiniteSet(S), T \subseteq S,
         \A x \in T : f[x] = g[x], NEW G, NEW H, Sums(G, f, S), Sums(H, g, T)
  PROVE  G[T] = H[T]
<1>u. \A t \in SUBSET T :
        /\ G[t] = IF t = {} THEN 0 ELSE f[AnyOne(t)] + G[t \ {AnyOne(t)}]
        /\ H[t] = IF t = {} THEN 0 ELSE g[AnyOne(t)] + H[t \ {AnyOne(t)}]
  <2> SUFFICES ASSUME NEW t \in SUBSET T
      PROVE /\ G[t] = IF t = {} THEN 0 ELSE f[AnyOne(t)] + G[t \ {AnyOne(t)}]
            /\ H[t] = IF t = {} THEN 0 ELSE g[AnyOne(t)] + H[t \ {AnyOne(t)}]
    OBVIOUS
  <2>1. t \in SUBSET S
    OBVIOUS
  <2>2. G[t] = IF t = {} THEN 0 ELSE f[AnyOne(t)] + G[t \ {AnyOne(t)}]
    BY <2>1, SumsStep
  <2>3. H[t] = IF t = {} THEN 0 ELSE g[AnyOne(t)] + H[t \ {AnyOne(t)}]
    BY SumsStep
  <2> QED  BY <2>2, <2>3
<1> DEFINE B == {s \in SUBSET T : G[s] # H[s]}
<1> SUFFICES ASSUME B # {} PROVE FALSE
  OBVIOUS
<1>0. IsFiniteSet(T)
  BY FS_Subset
<1>1. PICK s \in B : \A t \in B : Cardinality(s) <= Cardinality(t)
  <2>1. B \in SUBSET SUBSET T
    OBVIOUS
  <2> HIDE DEF B
  <2> QED  BY <1>0, <2>1, SmallestSet
<1>2. /\ G[s] = IF s = {} THEN 0 ELSE f[AnyOne(s)] + G[s \ {AnyOne(s)}]
      /\ H[s] = IF s = {} THEN 0 ELSE g[AnyOne(s)] + H[s \ {AnyOne(s)}]
  <2>1. s \in SUBSET T
    OBVIOUS
  <2> QED  BY <1>u, <2>1
<1>3. s # {}
  BY <1>2
<1>4. AnyOne(s) \in s
  BY <1>3, AnyOneIsIn
<1>5. s \ {AnyOne(s)} \in SUBSET T /\ ~(Cardinality(s) <= Cardinality(s \ {AnyOne(s)}))
  BY <1>0, <1>4, Smaller
<1>6. G[s \ {AnyOne(s)}] = H[s \ {AnyOne(s)}]
  BY <1>1, <1>5
<1> QED  BY <1>2, <1>3, <1>4, <1>6

-----------------------------------------------------------------------------
LEMMA SumDef ==
  ASSUME NEW f, NEW S, IsFiniteSet(S)
  PROVE  \E G : Sums(G, f, S) /\ SumFunctionOnSet(f, S) = G[S]
  BY SumsExists, SumUnfolds

LEMMA SumOfNothing == ASSUME NEW f PROVE SumFunctionOnSet(f, {}) = 0
<1>1. IsFiniteSet({})
  BY FS_EmptySet
<1>2. PICK G : Sums(G, f, {}) /\ SumFunctionOnSet(f, {}) = G[{}]
  BY <1>1, SumDef
<1> QED  BY <1>2, SumsStep

LEMMA SumType ==
  ASSUME NEW f, NEW S, IsFiniteSet(S), \A x \in S : f[x] \in Int
  PROVE  SumFunctionOnSet(f, S) \in Int
<1>1. PICK G : Sums(G, f, S) /\ SumFunctionOnSet(f, S) = G[S]
  BY SumDef
<1> QED  BY <1>1, SumsType

LEMMA SumAgree ==
  ASSUME NEW f, NEW g, NEW S, IsFiniteSet(S), \A x \in S : f[x] = g[x]
  PROVE  SumFunctionOnSet(f, S) = SumFunctionOnSet(g, S)
<1>1. PICK G : Sums(G, f, S) /\ SumFunctionOnSet(f, S) = G[S]
  BY SumDef
<1>2. PICK H : Sums(H, g, S) /\ SumFunctionOnSet(g, S) = H[S]
  BY SumDef
<1> QED  BY <1>1, <1>2, SumsAgree

LEMMA SumWithout ==
  ASSUME NEW f, NEW S, IsFiniteSet(S), \A x \in S : f[x] \in Int, NEW x \in S
  PROVE  SumFunctionOnSet(f, S) = f[x] + SumFunctionOnSet(f, S \ {x})
<1> DEFINE T == S \ {x}
<1>1. T \subseteq S /\ IsFiniteSet(T)
  BY FS_Subset
<1>2. PICK G : Sums(G, f, S) /\ SumFunctionOnSet(f, S) = G[S]
  BY SumDef
<1>3. PICK H : Sums(H, f, T) /\ SumFunctionOnSet(f, T) = H[T]
  BY <1>1, SumDef
<1>4. G[S] = f[x] + G[T]
  BY <1>2, SumsAny
<1>5. G[T] = H[T]
  <2> HIDE DEF T
  <2> QED  BY <1>1, <1>2, <1>3, SumsAgree
<1> QED  BY <1>2, <1>3, <1>4, <1>5

\* One value changes.
LEMMA SumUpdate ==
  ASSUME NEW S, IsFiniteSet(S), NEW f \in [S -> Int], NEW x \in S, NEW v \in Int
  PROVE  SumFunction([f EXCEPT ![x] = v]) = SumFunction(f) + v - f[x]
<1> DEFINE g == [f EXCEPT ![x] = v]
           T == S \ {x}
<1>1. g \in [S -> Int] /\ DOMAIN g = S /\ DOMAIN f = S /\ g[x] = v
      /\ \A y \in S : y # x => g[y] = f[y]
  OBVIOUS
<1> HIDE DEF g
<1>2. SumFunctionOnSet(f, S) = f[x] + SumFunctionOnSet(f, T)
  <2>1. \A y \in S : f[y] \in Int
    OBVIOUS
  <2> QED  BY <2>1, SumWithout
<1>3. SumFunctionOnSet(g, S) = v + SumFunctionOnSet(g, T)
  <2>1. \A y \in S : g[y] \in Int
    BY <1>1
  <2> QED  BY <1>1, <2>1, SumWithout
<1>4. IsFiniteSet(T) /\ \A y \in T : g[y] = f[y] /\ f[y] \in Int
  BY <1>1, FS_Subset
<1> HIDE DEF T
<1>5. SumFunctionOnSet(g, T) = SumFunctionOnSet(f, T)
  BY <1>4, SumAgree
<1>6. SumFunctionOnSet(f, T) \in Int
  BY <1>4, SumType
<1>7. SumFunctionOnSet(g, S) = SumFunctionOnSet(f, S) + v - f[x]
  BY <1>2, <1>3, <1>5, <1>6
<1> QED  BY <1>1, <1>7 DEF SumFunction, g

LEMMA SumOfZeros ==
  ASSUME NEW f, NEW S, IsFiniteSet(S), \A x \in S : f[x] = 0
  PROVE  SumFunctionOnSet(f, S) = 0
<1>1. PICK G : Sums(G, f, S) /\ SumFunctionOnSet(f, S) = G[S]
  BY SumDef
<1> DEFINE B == {s \in SUBSET S : G[s] # 0}
<1> SUFFICES ASSUME B # {} PROVE FALSE
  BY <1>1
<1>2. PICK s \in B : \A t \in B : Cardinality(s) <= Cardinality(t)
  <2>1. B \in SUBSET SUBSET S
    OBVIOUS
  <2> HIDE DEF B
  <2> QED  BY <2>1, SmallestSet
<1>3. G[s] = IF s = {} THEN 0 ELSE f[AnyOne(s)] + G[s \ {AnyOne(s)}]
  BY <1>1, SumsStep
<1>4. s # {}
  BY <1>3
<1>5. AnyOne(s) \in s
  BY <1>4, AnyOneIsIn
<1>6. s \ {AnyOne(s)} \in SUBSET S /\ ~(Cardinality(s) <= Cardinality(s \ {AnyOne(s)}))
  BY <1>5, Smaller
<1>7. G[s \ {AnyOne(s)}] = 0
  BY <1>2, <1>6
<1> QED  BY <1>3, <1>4, <1>5, <1>7

=============================================================================

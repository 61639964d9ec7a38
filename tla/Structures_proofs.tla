------------------------- MODULE Structures_proofs --------------------------
(***************************************************************************)
(* Theorems about the structures around a cache, for sets of any number of *)
(* ways, buffers and caches of any size and any traces: each of the parts  *)
(* that Structures puts beside each other has an invariant of its own.     *)
(***************************************************************************)
EXTENDS Structures, FiniteSums, SequenceTheorems

\* What a step is for the part whose behaviour it is.
LEMMA StepOfThePart ==
  ASSUME [StructuresNext]_structures
  PROVE  /\ part' = part
         /\ part = "set" => [Set!Next]_set
         /\ part = "victims" => [Victims!Next]_victims
         /\ part = "writes" => [Writes!Next]_writes
         /\ part = "combining" => [Combining!Next]_combining
         /\ [Prefetcher!Next]_prefetcher
         /\ part = "manager" => [Manager!Next]_manager
         /\ part = "profiling" => [Profiling!Next]_profiling
  BY DEF StructuresNext, structures

-----------------------------------------------------------------------------
\* The adaptive prefetcher.  As long as the strategy is Adaptive no confidence moves.
PrefetcherInv ==
  /\ Prefetcher!TypeOK
  /\ strategy = "Adaptive" => moved = {}

\* The distance stays between 1 and its maximum.
LEMMA AdaptedInRange ==
  ASSUME Prefetcher!PrefetcherAssumption, Prefetcher!TypeOK
  PROVE  Prefetcher!Adapted(distance) \in 1 .. MaxDistance
<1>1. ASSUME NEW a \in Int, NEW b \in Int
      PROVE  /\ Prefetcher!Min({a, b}) \in {a, b} /\ Prefetcher!Min({a, b}) <= b
             /\ Prefetcher!Max({a, b}) \in {a, b} /\ Prefetcher!Max({a, b}) >= b
  BY DEF Prefetcher!Min, Prefetcher!Max
<1> DEFINE doubled == Prefetcher!Min({2 * distance, MaxDistance})
           halved == Prefetcher!Max({distance \div 2, 1})
<1>2. distance \in 1 .. MaxDistance /\ MaxDistance \in Nat \ {0}
  BY DEF Prefetcher!PrefetcherAssumption, Prefetcher!TypeOK
<1>3. doubled \in 1 .. MaxDistance
  BY <1>1, <1>2
<1>4. halved \in 1 .. MaxDistance
  <2> DEFINE half == distance \div 2
  <2>1. half \in Int /\ half <= distance
    BY <1>2
  <2> HIDE DEF half
  <2>2. Prefetcher!Max({half, 1}) \in {half, 1} /\ Prefetcher!Max({half, 1}) >= 1
    BY <2>1, <1>1
  <2>3. halved \in {half, 1} /\ halved >= 1
    BY <2>2 DEF half
  <2> HIDE DEF halved
  <2> QED  BY <2>1, <2>3, <1>2
<1>5. Prefetcher!Adapted(distance) \in {doubled, halved, distance}
  BY DEF Prefetcher!Adapted, Prefetcher!Halved, Prefetcher!Accurate
<1> QED  BY <1>2, <1>3, <1>4, <1>5

LEMMA PrefetcherStart == StructuresInit => PrefetcherInv
  BY StructuresAssumption
  DEF StructuresInit, Prefetcher!Init, PrefetcherInv, Prefetcher!TypeOK, Prefetcher!PrefetcherAssumption

LEMMA PrefetcherStep ==
  ASSUME PrefetcherInv, [StructuresNext]_structures
  PROVE  /\ PrefetcherInv'
         /\ strategy = "Adaptive" => strategy' \in {"Adaptive", "Stride"}
         /\ strategy # "Adaptive" => UNCHANGED strategy
<1>1. [Prefetcher!Next]_prefetcher
  BY StepOfThePart
<1> USE DEF PrefetcherInv, Prefetcher!TypeOK, Prefetcher!Strategies
<1>2. ASSUME NEW wasUseful \in BOOLEAN, Prefetcher!RecordPrefetchOutcome(wasUseful)
      PROVE  /\ PrefetcherInv' /\ UNCHANGED strategy
  BY <1>2 DEF Prefetcher!RecordPrefetchOutcome, Prefetcher!Trained
<1>3. ASSUME Prefetcher!AdaptPrefetchDistance
      PROVE  /\ PrefetcherInv'
             /\ strategy = "Adaptive" => strategy' = "Stride"
             /\ strategy # "Adaptive" => UNCHANGED strategy
  <2>1. distance' \in 1 .. MaxDistance
    BY <1>3, StructuresAssumption, AdaptedInRange
    DEF Prefetcher!AdaptPrefetchDistance
  <2> QED  BY <2>1, <1>3 DEF Prefetcher!AdaptPrefetchDistance, Prefetcher!BestStrategies
<1>4. ASSUME Prefetcher!ResetStats PROVE PrefetcherInv' /\ UNCHANGED strategy
  BY <1>4 DEF Prefetcher!ResetStats
<1>5. ASSUME UNCHANGED prefetcher PROVE PrefetcherInv' /\ UNCHANGED strategy
  BY <1>5 DEF prefetcher
<1> QED  BY <1>1, <1>2, <1>3, <1>4, <1>5 DEF Prefetcher!Next

\* After any outcomes and adaptations the distance is in its range, and as soon as the
\* prefetches are accurate the next adaptation lengthens it, unless it is at its maximum.
THEOREM PrefetchingRecovers == StructuresSpec => []DistanceRecovers
<1>1. ASSUME NEW a \in Int, NEW b \in Int PROVE Prefetcher!Min({a, b}) \in {a, b}
  BY DEF Prefetcher!Min
<1>2. PrefetcherInv => DistanceRecovers
  <2> SUFFICES ASSUME PrefetcherInv PROVE Prefetcher!TypeOK /\ Prefetcher!DistanceRecovers
    BY DEF DistanceRecovers, Promised
  <2>1. Prefetcher!TypeOK /\ distance \in 1 .. MaxDistance /\ MaxDistance \in Nat
    BY StructuresAssumption DEF PrefetcherInv, Prefetcher!TypeOK, Prefetcher!PrefetcherAssumption
  <2>2. ASSUME Prefetcher!Accurate, distance < MaxDistance PROVE Prefetcher!Adapted(distance) > distance
    <3>1. Prefetcher!Adapted(distance) = Prefetcher!Min({2 * distance, MaxDistance})
      <4>1. useful \in Nat /\ useless \in Nat
        BY <2>1 DEF Prefetcher!TypeOK
      <4>2. ~(2 * useful < useful + useless)
        BY <4>1, <2>2 DEF Prefetcher!Accurate
      <4> QED  BY <4>2, <2>2 DEF Prefetcher!Adapted
    <3>2. Prefetcher!Min({2 * distance, MaxDistance}) \in {2 * distance, MaxDistance}
      BY <1>1, <2>1
    <3> QED  BY <3>1, <3>2, <2>1, <2>2
  <2> QED  BY <2>1, <2>2 DEF Prefetcher!DistanceRecovers
<1>3. PrefetcherInv /\ [StructuresNext]_structures => PrefetcherInv'
  BY PrefetcherStep
<1> QED  BY <1>2, <1>3, PrefetcherStart, PTL DEF StructuresSpec

\* The adaptive strategy becomes Stride at its first adaptation and never anything
\* else: AdaptivePrefetcher cannot choose Sequential, whatever its prefetches are worth.
THEOREM PrefetcherSettles == StructuresSpec => SettlesOnStride
<1> DEFINE Settles == /\ strategy = "Adaptive" => strategy' \in {"Adaptive", "Stride"}
                      /\ strategy # "Adaptive" => UNCHANGED strategy
<1>1. PrefetcherInv /\ [StructuresNext]_structures => PrefetcherInv' /\ [Settles]_strategy
  BY PrefetcherStep
<1> QED  BY <1>1, PrefetcherStart, PTL DEF StructuresSpec, SettlesOnStride, Prefetcher!SettlesOnStride

-----------------------------------------------------------------------------
\* No element comes twice; and m is s with what was at k put at the end.
Distinct(s) == \A i, j \in 1 .. Len(s) : s[i] = s[j] => i = j
PutLast(m, s, k) ==
  /\ Len(m) = Len(s)
  /\ \A i \in 1 .. Len(s) : m[i] = IF i = Len(s) THEN s[k] ELSE IF k <= i THEN s[i + 1] ELSE s[i]

\* The write policies, whose promises are inductive as they stand.
WritesInv == Writes!TypeOK /\ Writes!NoWriteForgotten

\* The combining buffer.  The ghost holds each address once, and what is in the buffer is
\* the end of it.
CombiningInv ==
  /\ Combining!TypeOK
  /\ recent \in Seq(Writable)
  /\ Distinct(recent)
  /\ Len(buffer) <= Len(recent)
  /\ \A i \in 1 .. Len(buffer) : buffer[i] = recent[Len(recent) - Len(buffer) + i]
  /\ Len(recent) - Len(buffer) <= refusals

LEMMA WritesStart == StructuresInit => WritesInv /\ CombiningInv
<1> SUFFICES ASSUME StructuresInit PROVE WritesInv /\ CombiningInv
  OBVIOUS
<1>1. Writes!Init /\ Combining!Init
  BY DEF StructuresInit
<1>2. WritesInv
  BY <1>1 DEF Writes!Init, WritesInv, Writes!TypeOK, Writes!NoWriteForgotten
<1>3. CombiningInv
  BY <1>1, StructuresAssumption
  DEF Combining!Init, CombiningInv, Distinct, Combining!TypeOK, Combining!BufferAssumption
<1> QED  BY <1>2, <1>3

LEMMA WritesStep == WritesInv /\ [Writes!Next]_writes => WritesInv'
<1> SUFFICES ASSUME WritesInv, [Writes!Next]_writes PROVE WritesInv'
  OBVIOUS
<1> USE DEF WritesInv, Writes!TypeOK, Writes!NoWriteForgotten
<1>1. rules' = rules /\ rules \in Writes!Kinds
  BY DEF Writes!Next, Writes!Write, Writes!Read, Writes!Evict, writes
<1>2. CASE UNCHANGED writes
  BY <1>2 DEF writes, Writes!RequiresWriteback
<1>3. ASSUME NEW l \in Lines, Writes!Write(l) PROVE WritesInv'
  BY <1>1, <1>3
  DEF Writes!Write, Writes!PassesOn, Writes!RequiresAllocation, Writes!RequiresWriteback, Writes!Kinds
<1>4. ASSUME NEW l \in Lines, Writes!Read(l) PROVE WritesInv'
  BY <1>1, <1>4 DEF Writes!Read, Writes!RequiresWriteback
<1>5. ASSUME NEW l \in Lines, Writes!Evict(l) PROVE WritesInv'
  BY <1>1, <1>5 DEF Writes!Evict, Writes!RequiresWriteback
<1> QED  BY <1>2, <1>3, <1>4, <1>5 DEF Writes!Next

\* An address that is in a sequence without repetition at k is taken out and put at the
\* end; one that is not is appended.
LEMMA WrittenAgain ==
  ASSUME NEW S, NEW s \in Seq(S), Distinct(s),
         NEW a \in S, NEW k \in 1 .. Len(s), s[k] = a
  PROVE  /\ Combining!Written(s, a) \in Seq(S)
         /\ PutLast(Combining!Written(s, a), s, k)
         /\ Distinct(Combining!Written(s, a))
<1> DEFINE L == Len(s)
           Seen(i) == \E j \in 1 .. i : s[j] = a
           value(i) == IF i = L THEN a ELSE IF Seen(i) THEN s[i + 1] ELSE s[i]
<1>1. L \in Nat /\ DOMAIN s = 1 .. L /\ \A i \in 1 .. L : s[i] \in S
  BY LenProperties
<1>0. L \in Nat /\ k \in 1 .. L
  BY <1>1
<1>2. a \in Combining!ToSet(s)
  BY <1>1 DEF Combining!ToSet
<1>3. Combining!Written(s, a) = [i \in 1 .. L |-> value(i)]
  BY <1>1, <1>2 DEF Combining!Written
<1>4. \A i \in 1 .. L : Seen(i) <=> k <= i
  <2> TAKE i \in 1 .. L
  <2>1. ASSUME k <= i PROVE Seen(i)
    <3>1. k \in 1 .. i
      BY <2>1, <1>1
    <3> QED  BY <3>1
  <2>2. ASSUME NEW j \in 1 .. i, s[j] = a PROVE k <= i
    <3>1. j \in 1 .. L
      BY <1>1
    <3>2. j = k
      BY <3>1, <2>2 DEF Distinct
    <3> QED  BY <3>2
  <2> QED  BY <2>1, <2>2
<1>5. \A i \in 1 .. L : value(i) = IF i = L THEN a ELSE IF k <= i THEN s[i + 1] ELSE s[i]
  <2> HIDE DEF Seen
  <2> QED  BY <1>4
<1>6. \A i \in 1 .. L : value(i) \in S
  <2> TAKE i \in 1 .. L
  <2>1. i = L \/ i + 1 \in 1 .. L
    <3> HIDE DEF L
    <3> QED  BY <1>0
  <2> HIDE DEF value, L
  <2> QED  BY <1>1, <1>5, <2>1
<1> HIDE DEF value
<1>7. Combining!Written(s, a) \in [1 .. L -> S]
  BY <1>3, <1>6
<1>8. Combining!Written(s, a) \in Seq(S) /\ Len(Combining!Written(s, a)) = L
  BY <1>7, <1>1
<1> DEFINE w == Combining!Written(s, a)
           at(i) == IF k <= i THEN i + 1 ELSE i
<1>9. \A i \in 1 .. L : w[i] = IF i = L THEN a ELSE IF k <= i THEN s[i + 1] ELSE s[i]
  BY <1>3, <1>5
<1>10. \A i \in 1 .. L : i # L => at(i) \in 1 .. L /\ at(i) # k /\ w[i] = s[at(i)]
  <2> TAKE i \in 1 .. L
  <2>1. i # L => i + 1 \in 1 .. L /\ (k <= i => i + 1 # k) /\ (~(k <= i) => i # k)
    <3> HIDE DEF L
    <3> QED  BY <1>0
  <2> HIDE DEF w, L
  <2> QED  BY <1>9, <2>1
<1>11. \A i, j \in 1 .. L : at(i) = at(j) => i = j
  BY <1>1
<1>12. \A i, j \in 1 .. L : w[i] = w[j] => i = j
  <2> HIDE DEF w, at, L
  <2> SUFFICES ASSUME NEW i \in 1 .. L, NEW j \in 1 .. L, w[i] = w[j] PROVE i = j
    OBVIOUS
  <2>1. \A m, n \in 1 .. L : s[m] = s[n] => m = n
    BY DEF L, Distinct
  <2>2. k \in 1 .. L
    BY DEF L
  <2>3. CASE i # L /\ j # L
    <3>1. at(i) = at(j)
      BY <2>1, <2>3, <1>10
    <3> QED  BY <3>1, <1>11
  <2>4. CASE i = L /\ j # L
    BY <2>1, <2>2, <2>4, <1>9, <1>10
  <2>5. CASE i # L /\ j = L
    BY <2>1, <2>2, <2>5, <1>9, <1>10
  <2> QED  BY <2>3, <2>4, <2>5
<1> HIDE DEF at
<1> QED  BY <1>8, <1>9, <1>12 DEF PutLast, Distinct

LEMMA WrittenAnew ==
  ASSUME NEW S, NEW s \in Seq(S), NEW a \in S, \A k \in 1 .. Len(s) : s[k] # a
  PROVE  Combining!Written(s, a) = Append(s, a)
  BY DEF Combining!Written, Combining!ToSet

LEMMA CombiningStep == CombiningInv /\ [Combining!Next]_combining => CombiningInv'
<1> SUFFICES ASSUME CombiningInv, [Combining!Next]_combining PROVE CombiningInv'
  OBVIOUS
<1> DEFINE B == Len(buffer)
           R == Len(recent)
<1>1. /\ buffer \in Seq(Writable) /\ recent \in Seq(Writable)
      /\ B \in Nat /\ R \in Nat /\ B <= R /\ B <= Entries /\ R - B <= refusals
      /\ refusals \in 0 .. MaxRefusals
      /\ DOMAIN buffer = 1 .. B
  BY LenProperties DEF CombiningInv, Combining!TypeOK
<1>2. /\ \A i, j \in 1 .. R : recent[i] = recent[j] => i = j
      /\ \A i \in 1 .. B : buffer[i] = recent[(R - B) + i]
      /\ \A i, j \in 1 .. B : buffer[i] = buffer[j] => i = j
      /\ Distinct(buffer) /\ Distinct(recent)
  <2>1. \A i \in 1 .. B : (R - B) + i \in 1 .. R
    BY <1>1
  <2>2. \A i, j \in 1 .. B : (R - B) + i = (R - B) + j => i = j
    BY <1>1
  <2>3. \A i, j \in 1 .. R : recent[i] = recent[j] => i = j
    BY DEF CombiningInv, Distinct
  <2>4. \A i \in 1 .. B : buffer[i] = recent[(R - B) + i]
    BY DEF CombiningInv
  <2>5. \A i, j \in 1 .. B : buffer[i] = buffer[j] => i = j
    <3> HIDE DEF B, R
    <3> QED  BY <2>1, <2>2, <2>3, <2>4
  <2> QED  BY <2>3, <2>4, <2>5 DEF Distinct
<1>3. Entries \in Nat \ {0} /\ MaxRefusals \in Nat
  BY StructuresAssumption DEF Combining!BufferAssumption
<1>4. CASE UNCHANGED combining
  BY <1>4 DEF combining, CombiningInv, Distinct, Combining!TypeOK
<1>5. ASSUME NEW a \in Writable, Combining!Combine(a) PROVE CombiningInv'
  <2> DEFINE b == Combining!Written(buffer, a)
             r == Combining!Written(recent, a)
  <2>1. /\ buffer' = b /\ recent' = r /\ refusals' = refusals
        /\ a \in Combining!ToSet(buffer)
    BY <1>5 DEF Combining!Combine, Combining!Stamped
  <2>2. PICK k \in 1 .. B : buffer[k] = a
    BY <2>1, <1>1 DEF Combining!ToSet
  <2>3. (R - B) + k \in 1 .. R /\ recent[(R - B) + k] = a
    BY <2>2, <1>1, <1>2
  <2>4. b \in Seq(Writable) /\ PutLast(b, buffer, k)
    BY <2>2, <1>1, <1>2, WrittenAgain
  <2> DEFINE n == (R - B) + k
  <2>5. r \in Seq(Writable) /\ PutLast(r, recent, n) /\ Distinct(r)
    <3> HIDE DEF n
    <3>1. n \in 1 .. Len(recent) /\ recent[n] = a
      BY <2>3 DEF n
    <3> QED  BY <3>1, <1>1, <1>2, WrittenAgain
  <2>6. \A i \in 1 .. B : b[i] = r[(R - B) + i]
    <3> HIDE DEF b, r
    <3> SUFFICES ASSUME NEW i \in 1 .. B PROVE b[i] = r[(R - B) + i]
      OBVIOUS
    <3>1. /\ (R - B) + i \in 1 .. R
          /\ (R - B) + i = R <=> i = B
          /\ n <= (R - B) + i <=> k <= i
          /\ i # B => i + 1 \in 1 .. B
          /\ ((R - B) + i) + 1 = (R - B) + (i + 1)
      <4> HIDE DEF B, R
      <4> QED  BY <1>1
    <3>2. /\ b[i] = IF i = B THEN buffer[k] ELSE IF k <= i THEN buffer[i + 1] ELSE buffer[i]
          /\ r[(R - B) + i] = IF (R - B) + i = R THEN recent[n] ELSE
                              IF n <= (R - B) + i THEN recent[((R - B) + i) + 1]
                              ELSE recent[(R - B) + i]
      BY <3>1, <2>4, <2>5 DEF PutLast
    <3>3. recent[n] = buffer[k]
      BY <2>2, <2>3
    <3> HIDE DEF n, B, R
    <3> QED  BY <3>1, <3>2, <3>3, <1>2
  <2>7. Len(b) = B /\ Len(r) = R
    BY <2>4, <2>5 DEF PutLast
  <2> HIDE DEF b, r, n
  <2> QED  BY <2>1, <2>4, <2>5, <2>6, <2>7, <1>1 DEF CombiningInv, Combining!TypeOK
<1>6. ASSUME NEW a \in Writable, Combining!Store(a) PROVE CombiningInv'
  <2> DEFINE r == Combining!Written(recent, a)
  <2>1. recent' = r /\ \A i \in 1 .. B : buffer[i] # a
    BY <1>1, <1>6 DEF Combining!Store, Combining!ToSet
  \* What the ghost becomes: a at its end, and before it what was there without a.
  <2>2. /\ r \in Seq(Writable) /\ Len(r) \in {R, R + 1} /\ Len(r) >= 1 /\ Len(r) > B
        /\ r[Len(r)] = a
        /\ \A i \in 1 .. B : r[((Len(r) - 1) - B) + i] = buffer[i]
        /\ Distinct(r)
    <3>1. CASE \E k \in 1 .. R : recent[k] = a
      <4>1. PICK k \in 1 .. R : recent[k] = a
        BY <3>1
      <4>2. k <= R - B
        <5> DEFINE m == k - (R - B)
        <5>1. k > R - B => m \in 1 .. B /\ (R - B) + m = k
          BY <1>1
        <5> HIDE DEF m, B, R
        <5>2. ~(k > R - B)
          BY <5>1, <4>1, <2>1, <1>2
        <5> QED  BY <5>2, <1>1
      <4>3. r \in Seq(Writable) /\ PutLast(r, recent, k) /\ Distinct(r)
        BY <4>1, <1>1, <1>2, WrittenAgain
      <4>6. \A i \in 1 .. R : r[i] = IF i = R THEN a ELSE IF k <= i THEN recent[i + 1] ELSE recent[i]
        BY <4>1, <4>3 DEF PutLast
      <4>7. Len(r) = R
        BY <4>3 DEF PutLast
      <4>4. \A i \in 1 .. B : r[((R - 1) - B) + i] = buffer[i]
        <5> HIDE DEF r
        <5> SUFFICES ASSUME NEW i \in 1 .. B PROVE r[((R - 1) - B) + i] = buffer[i]
          OBVIOUS
        <5> DEFINE m == ((R - 1) - B) + i
        <5>1. m \in 1 .. R /\ m # R /\ k <= m /\ m + 1 = (R - B) + i
          BY <4>1, <4>2, <1>1
        <5> HIDE DEF m
        <5>2. r[m] = recent[m + 1]
          <6> HIDE DEF R
          <6> QED  BY <5>1, <4>6
        <5> QED  BY <5>1, <5>2, <1>2 DEF m
      <4>5. R >= 1 /\ R > B /\ R \in 1 .. R
        BY <4>1, <4>2, <1>1
      <4> HIDE DEF r, R
      <4> QED  BY <4>3, <4>4, <4>5, <4>6, <4>7
    <3>2. CASE \A k \in 1 .. R : recent[k] # a
      <4>1. r = Append(recent, a)
        BY <3>2, <1>1, WrittenAnew
      <4>2. /\ r \in Seq(Writable) /\ Len(r) = R + 1 /\ r[R + 1] = a
            /\ \A i \in 1 .. R : r[i] = recent[i]
        BY <4>1, <1>1, AppendProperties
      <4>3. \A i \in 1 .. B : ((R + 1) - 1) - B + i = (R - B) + i /\ (R - B) + i \in 1 .. R
        BY <1>1
      <4>4. \A i \in 1 .. B : r[(((R + 1) - 1) - B) + i] = buffer[i]
        <5> HIDE DEF r, B, R
        <5> QED  BY <4>2, <4>3, <1>2
      <4>5. \A i, j \in 1 .. R + 1 : r[i] = r[j] => i = j
        <5>1. \A i \in 1 .. R + 1 : i \in 1 .. R \/ i = R + 1
          BY <1>1
        <5> HIDE DEF r, B, R
        <5> QED  BY <5>1, <4>2, <3>2, <1>2
      <4>7. Distinct(r)
        BY <4>2, <4>5 DEF Distinct
      <4>6. R + 1 >= 1 /\ R + 1 > B
        BY <1>1
      <4> HIDE DEF r, R
      <4> QED  BY <4>2, <4>4, <4>6, <4>7
    <3> QED  BY <3>1, <3>2
  <2> DEFINE n == Len(r)
  <2>3. CASE B < Entries
    <3>1. buffer' = Append(buffer, a) /\ refusals' = refusals
      BY <2>3, <1>6 DEF Combining!Store
    <3>2. /\ buffer' \in Seq(Writable) /\ Len(buffer') = B + 1 /\ buffer'[B + 1] = a
          /\ \A i \in 1 .. B : buffer'[i] = buffer[i]
      BY <3>1, <1>1, AppendProperties
    <3>3. \A i \in 1 .. B + 1 : buffer'[i] = r[(n - (B + 1)) + i]
      <4>1. \A i \in 1 .. B + 1 : i \in 1 .. B \/ i = B + 1
        BY <1>1
      <4>2. n \in Nat /\ (n - (B + 1)) + (B + 1) = n
        BY <2>2, <1>1
      <4>3. \A i \in 1 .. B : (n - (B + 1)) + i = ((n - 1) - B) + i
        BY <4>2, <1>1
      <4> HIDE DEF r, n, B, R
      <4> QED  BY <4>1, <4>2, <4>3, <3>2, <2>2 DEF n
    <3>4. B + 1 <= n /\ B + 1 <= Entries /\ n - (B + 1) <= refusals
      <4> HIDE DEF n, B, R
      <4> QED  BY <2>2, <2>3, <1>1, <1>3 DEF n
    <3> HIDE DEF r, B, R
    <3> QED  BY <2>1, <2>2, <3>1, <3>2, <3>3, <3>4, <1>1 DEF CombiningInv, Combining!TypeOK
  <2>4. CASE B >= Entries
    <3>1. buffer' = Append(Tail(buffer), a) /\ refusals' = refusals + 1 /\ refusals < MaxRefusals
      BY <2>4, <1>1, <1>3, <1>6 DEF Combining!Store
    <3>2. /\ buffer' \in Seq(Writable) /\ Len(buffer') = B /\ buffer'[B] = a
          /\ \A i \in 1 .. B - 1 : buffer'[i] = buffer[i + 1]
      <4> DEFINE t == Tail(buffer)
      <4>1. buffer # <<>>
        BY <2>4, <1>1, <1>3
      <4>2. t \in Seq(Writable) /\ Len(t) = B - 1 /\ \A i \in 1 .. B - 1 : t[i] = buffer[i + 1]
        BY <4>1, <1>1, HeadTailProperties
      <4> HIDE DEF t
      <4>3. buffer' = Append(t, a)
        BY <3>1 DEF t
      <4> QED  BY <4>2, <4>3, <1>1, AppendProperties
    <3>3. \A i \in 1 .. B : buffer'[i] = r[(n - B) + i]
      <4>1. \A i \in 1 .. B : i = B \/ (i \in 1 .. B - 1 /\ i + 1 \in 1 .. B)
        <5>1. B \in Nat
          BY <1>1
        <5> HIDE DEF B
        <5> QED  BY <5>1
      <4>2. n \in Nat /\ (n - B) + B = n
        BY <2>2, <1>1
      <4>3. \A i \in 1 .. B : (n - B) + i = ((n - 1) - B) + (i + 1)
        BY <4>2, <1>1
      <4>4. r[n] = a /\ \A i \in 1 .. B : r[((n - 1) - B) + i] = buffer[i]
        BY <2>2
      <4> HIDE DEF r, n, B, R
      <4>5. buffer'[B] = r[(n - B) + B]
        BY <4>2, <4>4, <3>2
      <4>6. \A i \in 1 .. B - 1 : buffer'[i] = r[(n - B) + i]
        BY <4>1, <4>3, <4>4, <3>2
      <4> QED  BY <4>1, <4>5, <4>6
    <3>4. B <= n /\ n - B <= refusals + 1 /\ refusals + 1 \in 0 .. MaxRefusals
      <4> HIDE DEF n, B, R
      <4> QED  BY <2>2, <3>1, <1>1, <1>3 DEF n
    <3> HIDE DEF r, B, R
    <3> QED  BY <2>1, <2>2, <3>1, <3>2, <3>3, <3>4, <1>1 DEF CombiningInv, Combining!TypeOK
  <2> QED  BY <2>3, <2>4, <1>1, <1>3
<1>7. CASE Combining!Flush
  BY <1>7, <1>3 DEF Combining!Flush, CombiningInv, Distinct, Combining!TypeOK
<1> QED  BY <1>4, <1>5, <1>6, <1>7 DEF Combining!Next

\* The end of the ghost that the buffer is.
LEMMA CombiningKeeps == CombiningInv => Combining!TypeOK /\ Combining!KeepsTheLatest
<1> SUFFICES ASSUME CombiningInv PROVE Combining!TypeOK /\ Combining!KeepsTheLatest
  OBVIOUS
<1> DEFINE B == Len(buffer)
           R == Len(recent)
           m == (R - B) + 1
           t == SubSeq(recent, m, R)
<1>1. /\ buffer \in Seq(Writable) /\ recent \in Seq(Writable)
      /\ B \in Nat /\ R \in Nat /\ B <= R
      /\ \A i \in 1 .. B : buffer[i] = recent[(R - B) + i]
  BY LenProperties DEF CombiningInv, Combining!TypeOK
<1>2. \A i \in 1 .. R : recent[i] \in Writable
  BY <1>1, LenProperties
<1>3. \A i \in m .. R : recent[i] \in Writable
  <2>1. \A i \in m .. R : i \in 1 .. R
    BY <1>1
  <2> HIDE DEF m, R
  <2> QED  BY <2>1, <1>2
<1>4. m \in Int /\ R \in Int /\ (R - m) + 1 = B /\ (m > R => B = 0)
      /\ \A i \in 1 .. B : (m + i) - 1 = (R - B) + i
  <2> HIDE DEF B, R
  <2> QED  BY <1>1
<1>5. t \in Seq(Writable) /\ Len(t) = B /\ \A i \in 1 .. B : t[i] = recent[(R - B) + i]
  <2> HIDE DEF m, B, R
  <2>1. /\ t \in Seq(Writable) /\ Len(t) = IF m <= R THEN (R - m) + 1 ELSE 0
        /\ \A i \in 1 .. (R - m) + 1 : t[i] = recent[(m + i) - 1]
    BY <1>3, <1>4, SubSeqProperties
  <2> HIDE DEF t
  <2> QED  BY <2>1, <1>4
<1>6. buffer = t
  <2> HIDE DEF t, m, R
  <2>1. \A i \in 1 .. Len(buffer) : buffer[i] = t[i]
    BY <1>1, <1>5
  <2> QED  BY <2>1, <1>1, <1>5, SeqEqual
<1> QED  BY <1>6 DEF CombiningInv, Combining!KeepsTheLatest

\* Under each write policy the last write of every block reaches the next level or a
\* block that will be written back; the combining buffer holds the addresses written
\* last and answers with false whenever it drops one.
THEOREM WritesStayKept == StructuresSpec => []WritesAreKept
<1> DEFINE Inv == /\ part = "writes" => WritesInv
                  /\ part = "combining" => CombiningInv
<1>1. StructuresInit => Inv
  BY WritesStart
<1>2. Inv /\ [StructuresNext]_structures => Inv'
  BY StepOfThePart, WritesStep, CombiningStep
<1>3. Inv => WritesAreKept
  BY CombiningKeeps DEF WritesAreKept, Promised, WritesInv
<1> QED  BY <1>1, <1>2, <1>3, PTL DEF StructuresSpec

-----------------------------------------------------------------------------
\* A set of the cache.  The nodes above a node y of the tree, with y and without the root,
\* are a chain: each of them but y, and the root, has exactly one child among them.
Climbs(f, m) == f = [y \in 0 .. m |-> IF y = 0 THEN {} ELSE {y} \cup f[(y - 1) \div 2]]
Chain(S, y) ==
  /\ S \subseteq 1 .. y
  /\ \A x \in S \cup {0} : x # y => \E c \in S : (c - 1) \div 2 = x
  /\ \A c, d \in S : (c - 1) \div 2 = (d - 1) \div 2 => c = d

LEMMA ParentOf ==
  ASSUME NEW y \in Nat \ {0}
  PROVE  (y - 1) \div 2 \in 0 .. y - 1
  OBVIOUS

\* The walk up the tree has a value at every node.
LEMMA ClimbsExists == ASSUME NEW n \in Nat PROVE \E f : Climbs(f, n)
<1> DEFINE Bad == {m \in Nat : ~ \E f : Climbs(f, m)}
<1>1. SUFFICES ASSUME Bad # {} PROVE FALSE
  OBVIOUS
<1>2. PICK m \in Bad : \A k \in Bad : m <= k
  <2>1. Bad \subseteq Nat
    OBVIOUS
  <2> HIDE DEF Bad
  <2> QED  BY <1>1, <2>1, LeastNumber
<1>3. m # 0
  <2> DEFINE f == [y \in 0 .. 0 |-> {}]
  <2>1. f = [y \in 0 .. 0 |-> IF y = 0 THEN {} ELSE {y} \cup f[(y - 1) \div 2]]
    OBVIOUS
  <2>2. Climbs(f, 0)
    BY <2>1 DEF Climbs
  <2> QED  BY <2>2
<1>4. m \in Nat /\ m - 1 \in Nat /\ ~(m <= m - 1)
  BY <1>2, <1>3
<1>5. PICK f : Climbs(f, m - 1)
  BY <1>2, <1>4
<1> DEFINE step(y) == IF y = 0 THEN {} ELSE {y} \cup f[(y - 1) \div 2]
           g == [y \in 0 .. m |-> step(y)]
<1>6. \A y \in 0 .. m - 1 : g[y] = f[y]
  <2>1. f = [y \in 0 .. m - 1 |-> step(y)]
    BY <1>5 DEF Climbs
  <2>2. \A y \in 0 .. m - 1 : y \in 0 .. m
    BY <1>4
  <2> HIDE DEF step
  <2> QED  BY <2>1, <2>2
<1>7. \A y \in 0 .. m : y # 0 => (y - 1) \div 2 \in 0 .. m - 1
  BY <1>4
<1>8. \A y \in 0 .. m : step(y) = IF y = 0 THEN {} ELSE {y} \cup g[(y - 1) \div 2]
  <2> HIDE DEF g
  <2> QED  BY <1>6, <1>7
<1>9. g = [y \in 0 .. m |-> IF y = 0 THEN {} ELSE {y} \cup g[(y - 1) \div 2]]
  <2>1. g = [y \in 0 .. m |-> step(y)]
    OBVIOUS
  <2> HIDE DEF g, step
  <2> QED  BY <2>1, <1>8
<1>10. Climbs(g, m)
  BY <1>9 DEF Climbs
<1> QED  BY <1>10, <1>2

LEMMA NodesAboveChain ==
  ASSUME NEW n \in Nat \ {0}, NEW y \in 0 .. 2*n - 2
  PROVE  Chain(Set!NodesAbove(n, y), y)
<1> DEFINE top == 2*n - 2
<1>1. PICK f : Climbs(f, top) /\ Set!NodesAbove(n, y) = f[y]
  <2>1. Set!NodesAbove(n, y) = (CHOOSE f : Climbs(f, top))[y]
    BY DEF Set!NodesAbove, Climbs
  <2>2. top \in Nat
    OBVIOUS
  <2> QED  BY <2>1, <2>2, ClimbsExists
<1>2. f[0] = {} /\ \A x \in 1 .. top : f[x] = {x} \cup f[(x - 1) \div 2]
  <2> DEFINE step(x) == IF x = 0 THEN {} ELSE {x} \cup f[(x - 1) \div 2]
  <2>1. f = [x \in 0 .. top |-> step(x)]
    BY <1>1 DEF Climbs
  <2>2. \A x \in 0 .. top : f[x] = step(x)
    <3> HIDE DEF step
    <3> QED  BY <2>1
  <2>3. 0 \in 0 .. top /\ \A x \in 1 .. top : x \in 0 .. top /\ x # 0
    OBVIOUS
  <2> HIDE DEF top
  <2> QED  BY <2>2, <2>3
<1> DEFINE Bad == {x \in 0 .. top : ~Chain(f[x], x)}
<1>3. Bad = {}
  <2> SUFFICES ASSUME Bad # {} PROVE FALSE
    OBVIOUS
  <2>1. PICK m \in Bad : \A k \in Bad : m <= k
    <3>1. Bad \subseteq Nat
      OBVIOUS
    <3> HIDE DEF Bad
    <3> QED  BY <3>1, LeastNumber
  <2>2. m # 0
    BY <1>2, <2>1 DEF Chain
  <2> DEFINE p == (m - 1) \div 2
  <2>3. m \in 1 .. top /\ p \in 0 .. m - 1 /\ p \in 0 .. top
    BY <2>1, <2>2, ParentOf
  <2>4. Chain(f[p], p)
    <3>1. ~(m <= p)
      BY <2>3
    <3> QED  BY <3>1, <2>1, <2>3
  <2>5. f[m] = {m} \cup f[p]
    BY <1>2, <2>3
  <2>6. f[m] \subseteq 1 .. m
    BY <2>3, <2>4, <2>5 DEF Chain
  <2>7. \A x \in f[m] \cup {0} : x # m => \E c \in f[m] : (c - 1) \div 2 = x
    <3> SUFFICES ASSUME NEW x \in f[m] \cup {0}, x # m PROVE \E c \in f[m] : (c - 1) \div 2 = x
      OBVIOUS
    <3>1. CASE x = p
      BY <3>1, <2>5
    <3>2. CASE x # p
      BY <3>2, <2>4, <2>5 DEF Chain
    <3> QED  BY <3>1, <3>2
  <2>8. \A c \in f[p] : (c - 1) \div 2 # p
    <3> TAKE c \in f[p]
    <3>1. c \in 1 .. p
      BY <2>4 DEF Chain
    <3>2. (c - 1) \div 2 \in 0 .. c - 1
      BY <3>1, <2>3, ParentOf
    <3> HIDE DEF p
    <3> QED  BY <3>1, <3>2, <2>3
  <2>9. \A c, d \in f[m] : (c - 1) \div 2 = (d - 1) \div 2 => c = d
    BY <2>4, <2>5, <2>8 DEF Chain
  <2>10. Chain(f[m], m)
    BY <2>6, <2>7, <2>9 DEF Chain
  <2> QED  BY <2>10, <2>1
<1> QED  BY <1>1, <1>3

\* The recursion that defines FollowBits, from node k to the leaves.
Descends(f, n, bits, k) ==
  f = [x \in k .. 2*n - 2 |->
         IF x >= n - 1 THEN x - (n - 1)
         ELSE IF bits[x] THEN f[2*x + 2] ELSE f[2*x + 1]]

\* The walk down the tree has a value at every node.
LEMMA DescendsExists ==
  ASSUME NEW n \in Nat \ {0}, NEW bits
  PROVE  \E f : Descends(f, n, bits, 0)
<1> DEFINE Top == 2*n - 2
           Bad == {m \in 0 .. Top : ~ \E f : Descends(f, n, bits, Top - m)}
<1>0. Top \in Nat /\ Top >= n - 1
  OBVIOUS
<1>1. SUFFICES ASSUME Bad # {} PROVE FALSE
  <2>1. Top \in 0 .. Top /\ Top - Top = 0
    BY <1>0
  <2> QED  BY <2>1
<1>2. PICK m \in Bad : \A k \in Bad : m <= k
  <2>1. Bad \subseteq Nat
    OBVIOUS
  <2> HIDE DEF Bad
  <2> QED  BY <1>1, <2>1, LeastNumber
<1>3. m # 0
  <2> DEFINE f == [x \in Top .. Top |-> x - (n - 1)]
  <2>1. \A x \in Top .. Top : x >= n - 1
    OBVIOUS
  <2>2. Descends(f, n, bits, Top)
    BY <2>1 DEF Descends
  <2>3. Top - 0 = Top
    BY <1>0
  <2> QED  BY <2>2, <2>3
<1>4. m \in 1 .. Top /\ m - 1 \in 0 .. Top
  BY <1>2, <1>3
<1>5. PICK f : Descends(f, n, bits, Top - (m - 1))
  <2>1. ~(m <= m - 1)
    BY <1>4
  <2> QED  BY <2>1, <1>2, <1>4
<1> DEFINE k == Top - m
           step(x) == IF x >= n - 1 THEN x - (n - 1)
                      ELSE IF bits[x] THEN f[2*x + 2] ELSE f[2*x + 1]
           g == [x \in k .. Top |-> step(x)]
<1>6. k \in Nat /\ Top - (m - 1) = k + 1
  BY <1>0, <1>4
<1>7. \A x \in k + 1 .. Top : g[x] = f[x]
  <2> SUFFICES ASSUME NEW x \in k + 1 .. Top PROVE g[x] = f[x]
    OBVIOUS
  <2>1. x \in k .. Top
    BY <1>6
  <2>2. g[x] = step(x)
    BY <2>1
  <2>3. f = [y \in k + 1 .. Top |-> step(y)]
    BY <1>5, <1>6 DEF Descends
  <2> HIDE DEF step, k, Top
  <2> QED  BY <2>2, <2>3
<1>8. \A x \in k .. Top : x < n - 1 => 2*x + 1 \in k + 1 .. Top /\ 2*x + 2 \in k + 1 .. Top
  BY <1>6
<1>9. \A x \in k .. Top : step(x) = IF x >= n - 1 THEN x - (n - 1)
                                    ELSE IF bits[x] THEN g[2*x + 2] ELSE g[2*x + 1]
  <2> SUFFICES ASSUME NEW x \in k .. Top
               PROVE step(x) = IF x >= n - 1 THEN x - (n - 1)
                               ELSE IF bits[x] THEN g[2*x + 2] ELSE g[2*x + 1]
    OBVIOUS
  <2> HIDE DEF g
  <2>1. CASE x >= n - 1
    BY <2>1
  <2>2. CASE x < n - 1
    BY <2>2, <1>7, <1>8
  <2> QED  BY <2>1, <2>2, <1>6
<1>10. g = [x \in k .. Top |-> IF x >= n - 1 THEN x - (n - 1)
                                ELSE IF bits[x] THEN g[2*x + 2] ELSE g[2*x + 1]]
  <2>1. g = [x \in k .. Top |-> step(x)]
    OBVIOUS
  <2> HIDE DEF g, step, k
  <2> QED  BY <2>1, <1>9
<1>11. Descends(g, n, bits, k)
  BY <1>10 DEF Descends
<1> QED  BY <1>11, <1>2


\* The bits that point at a way lead to it, whatever the other bits are.
LEMMA PointedIsFollowed ==
  ASSUME NEW n \in Nat \ {0}, NEW bits \in [0 .. n - 1 -> BOOLEAN], NEW w \in 0 .. n - 1
  PROVE  /\ Set!PointAt(n, bits, w) \in [0 .. n - 1 -> BOOLEAN]
         /\ Set!FollowBits(n, Set!PointAt(n, bits, w)) = w
<1> DEFINE top == 2*n - 2
           leaf == w + n - 1
           path == Set!NodesAbove(n, leaf)
           P(node) == \E x \in path : (x - 1) \div 2 = node
           R(node) == \E x \in path : (x - 1) \div 2 = node /\ x % 2 = 0
           v(node) == IF P(node) THEN R(node) ELSE bits[node]
           new == Set!PointAt(n, bits, w)
<1>1. leaf \in 0 .. top /\ leaf >= n - 1 /\ leaf - (n - 1) = w
  OBVIOUS
<1>2. Chain(path, leaf)
  BY <1>1, NodesAboveChain
<1>3. \A node \in 0 .. n - 1 : v(node) \in BOOLEAN
  <2> TAKE node \in 0 .. n - 1
  <2>1. R(node) \in BOOLEAN /\ bits[node] \in BOOLEAN
    OBVIOUS
  <2> HIDE DEF P, R
  <2> QED  BY <2>1
<1>4. new = [node \in 0 .. n - 1 |-> v(node)]
  BY DEF Set!PointAt
<1>5. new \in [0 .. n - 1 -> BOOLEAN] /\ \A node \in 0 .. n - 1 : new[node] = v(node)
  <2> HIDE DEF v
  <2> QED  BY <1>3, <1>4
<1> HIDE DEF new
<1>6. PICK f : Descends(f, n, new, 0) /\ Set!FollowBits(n, new) = f[0]
  <2>1. Set!FollowBits(n, new) = (CHOOSE f : Descends(f, n, new, 0))[0]
    BY DEF Set!FollowBits, Descends
  <2> QED  BY <2>1, DescendsExists
<1>7. \A x \in 0 .. top : f[x] = IF x >= n - 1 THEN x - (n - 1)
                               ELSE IF new[x] THEN f[2*x + 2] ELSE f[2*x + 1]
  <2> DEFINE step(x) == IF x >= n - 1 THEN x - (n - 1)
                        ELSE IF new[x] THEN f[2*x + 2] ELSE f[2*x + 1]
  <2>1. f = [x \in 0 .. top |-> step(x)]
    BY <1>6 DEF Descends
  <2> HIDE DEF step
  <2>2. \A x \in 0 .. top : f[x] = step(x)
    BY <2>1
  <2> QED  BY <2>2 DEF step
<1>8. path \subseteq 1 .. leaf
  BY <1>2 DEF Chain
<1> HIDE DEF path
\* From every node on the way down the bits lead on to the way.
<1> DEFINE Bad == {m \in 0 .. leaf : leaf - m \in path \cup {0} /\ f[leaf - m] # w}
<1>9. Bad = {}
  <2> SUFFICES ASSUME Bad # {} PROVE FALSE
    OBVIOUS
  <2>1. PICK m \in Bad : \A k \in Bad : m <= k
    <3>1. Bad \subseteq Nat
      OBVIOUS
    <3> HIDE DEF Bad
    <3> QED  BY <3>1, LeastNumber
  <2> DEFINE x == leaf - m
  <2>2. x \in path \cup {0} /\ f[x] # w /\ x \in 0 .. leaf
    BY <2>1, <1>1
  <2>3. x # leaf
    BY <2>2, <1>1, <1>7
  <2>4. PICK c \in path : (c - 1) \div 2 = x
    BY <2>2, <2>3, <1>2 DEF Chain, path
  <2>5. c \in 1 .. leaf /\ c > x /\ x < n - 1 /\ c \in {2*x + 1, 2*x + 2}
        /\ (c % 2 = 0 <=> c = 2*x + 2)
    <3>1. c \in 1 .. leaf
      BY <1>8
    <3> HIDE DEF x
    <3> QED  BY <3>1, <2>4, <1>1
  <2>6. f[c] = w
    <3>1. /\ leaf - c \in 0 .. leaf /\ leaf - (leaf - c) = c /\ ~(m <= leaf - c)
      <4>1. m \in 0 .. leaf /\ leaf \in Nat
        BY <2>1, <1>1
      <4> HIDE DEF leaf
      <4> QED  BY <4>1, <2>5
    <3> HIDE DEF leaf
    <3> QED  BY <3>1, <2>1
  <2>7. P(x) /\ (R(x) <=> c % 2 = 0)
    <3>1. \A d \in path : (d - 1) \div 2 = x => d = c
      BY <2>4, <1>2 DEF Chain, path
    <3> HIDE DEF x
    <3> QED  BY <3>1, <2>4
  <2>8. new[x] = (c % 2 = 0)
    <3>1. x \in 0 .. n - 1
      BY <2>2, <2>5
    <3>2. new[x] = R(x)
      <4> HIDE DEF P, R, x
      <4> QED  BY <3>1, <2>7, <1>5
    <3>3. R(x) \in BOOLEAN
      OBVIOUS
    <3> HIDE DEF R, x
    <3> QED  BY <3>2, <3>3, <2>7
  <2>9. f[x] = IF new[x] THEN f[2*x + 2] ELSE f[2*x + 1]
    <3>1. x \in 0 .. top /\ ~(x >= n - 1)
      BY <2>2, <2>5
    <3> HIDE DEF x
    <3> QED  BY <3>1, <1>7
  <2> HIDE DEF x
  <2> QED  BY <2>2, <2>5, <2>6, <2>8, <2>9
<1>10. f[0] = w
  <2>1. leaf \in 0 .. leaf /\ leaf - leaf = 0
    BY <1>1
  <2> QED  BY <2>1, <1>9
<1> QED  BY <1>5, <1>6, <1>10 DEF new

-----------------------------------------------------------------------------
\* The order of LRU and FIFO names every way once.
Permutation(n, o) ==
  /\ o \in [1 .. n -> 0 .. n - 1]
  /\ \A i, j \in 1 .. n : o[i] = o[j] => i = j
  /\ \A w \in 0 .. n - 1 : \E i \in 1 .. n : o[i] = w

PolicyOK(r) ==
  /\ r = [order |-> r.order, bits |-> r.bits, clock |-> r.clock]
  /\ Permutation(Ways, r.order)
  /\ r.bits \in [0 .. Ways - 1 -> BOOLEAN]
  /\ r.clock \in 0 .. 4 * Ways - 1

\* What was at k is first now, what was before it one place behind.
Fronted(m, o, k, n) ==
  m = [i \in 1 .. n |-> IF i = 1 THEN o[k] ELSE IF k < i THEN o[i] ELSE o[i - 1]]

LEMMA FrontIs ==
  ASSUME NEW n \in Nat \ {0}, NEW o, Permutation(n, o), NEW k \in 1 .. n
  PROVE  Fronted(Set!MoveToFront(o, o[k]), o, k, n)
<1> DEFINE Past(i) == \E j \in 1 .. i - 1 : o[j] = o[k]
<1>1. /\ DOMAIN o = 1 .. n
      /\ \A i, j \in 1 .. n : o[i] = o[j] => i = j
  BY DEF Permutation
<1>2. \A i \in 1 .. n : Past(i) <=> k < i
  <2> TAKE i \in 1 .. n
  <2>1. ASSUME k < i PROVE Past(i)
    <3>1. k \in 1 .. i - 1
      BY <2>1
    <3> QED  BY <3>1
  <2>2. ASSUME NEW j \in 1 .. i - 1, o[j] = o[k] PROVE k < i
    <3>1. j \in 1 .. n /\ j < i
      OBVIOUS
    <3> QED  BY <3>1, <2>2, <1>1
  <2> QED  BY <2>1, <2>2
<1>3. Set!MoveToFront(o, o[k]) =
        [i \in 1 .. n |-> IF i = 1 THEN o[k] ELSE IF Past(i) THEN o[i] ELSE o[i - 1]]
  BY <1>1 DEF Set!MoveToFront
<1> HIDE DEF Past
<1> QED  BY <1>2, <1>3 DEF Fronted

\* Where a way comes from that is behind the first now.
LEMMA FrontedAt ==
  ASSUME NEW n \in Nat \ {0}, NEW o, Permutation(n, o), NEW k \in 1 .. n,
         NEW m, Fronted(m, o, k, n)
  PROVE  /\ DOMAIN m = 1 .. n /\ m[1] = o[k]
         /\ \A i \in 1 .. n : i # 1 =>
              LET was == IF k < i THEN i ELSE i - 1 IN
              was \in 1 .. n /\ was # k /\ m[i] = o[was]
<1>1. DOMAIN m = 1 .. n /\ m[1] = o[k]
  BY DEF Fronted
<1>2. ASSUME NEW i \in 1 .. n, i # 1
      PROVE  LET was == IF k < i THEN i ELSE i - 1 IN
             was \in 1 .. n /\ was # k /\ m[i] = o[was]
  <2>1. m[i] = IF k < i THEN o[i] ELSE o[i - 1]
    BY <1>2 DEF Fronted
  <2>2. i - 1 \in 1 .. n
    BY <1>2
  <2> QED  BY <1>2, <2>1, <2>2
<1> QED  BY <1>1, <1>2

LEMMA FrontedPermutes ==
  ASSUME NEW n \in Nat \ {0}, NEW o, Permutation(n, o), NEW k \in 1 .. n,
         NEW m, Fronted(m, o, k, n)
  PROVE  Permutation(n, m)
<1> DEFINE was(i) == IF k < i THEN i ELSE i - 1
<1>1. /\ DOMAIN m = 1 .. n /\ m[1] = o[k] /\ m = [i \in 1 .. n |-> m[i]]
      /\ \A i \in 1 .. n : i # 1 => was(i) \in 1 .. n /\ was(i) # k /\ m[i] = o[was(i)]
  BY FrontedAt DEF Fronted
<1>2. /\ \A i \in 1 .. n : o[i] \in 0 .. n - 1
      /\ \A i, j \in 1 .. n : o[i] = o[j] => i = j
      /\ \A w \in 0 .. n - 1 : \E i \in 1 .. n : o[i] = w
  BY DEF Permutation
<1>3. \A i, j \in 1 .. n : i # 1 /\ j # 1 /\ was(i) = was(j) => i = j
  OBVIOUS
<1>4. \A i \in 1 .. n : i # k => \E j \in 1 .. n : j # 1 /\ was(j) = i
  <2> TAKE i \in 1 .. n
  <2>1. CASE k < i
    BY <2>1
  <2>2. CASE i < k
    <3>1. i + 1 \in 1 .. n /\ i + 1 # 1 /\ was(i + 1) = i
      BY <2>2
    <3> HIDE DEF was
    <3> QED  BY <3>1
  <2> QED  BY <2>1, <2>2
<1> HIDE DEF was
<1>5. m \in [1 .. n -> 0 .. n - 1]
  <2>1. \A i \in 1 .. n : m[i] \in 0 .. n - 1
    BY <1>1, <1>2
  <2> QED  BY <2>1, <1>1
<1>6. \A i, j \in 1 .. n : m[i] = m[j] => i = j
  <2> SUFFICES ASSUME NEW i \in 1 .. n, NEW j \in 1 .. n, m[i] = m[j] PROVE i = j
    OBVIOUS
  <2>1. CASE i # 1 /\ j # 1
    <3>1. was(i) = was(j)
      BY <2>1, <1>1, <1>2
    <3> QED  BY <3>1, <2>1, <1>3
  <2>2. CASE i = 1 /\ j # 1
    BY <2>2, <1>1, <1>2
  <2>3. CASE i # 1 /\ j = 1
    BY <2>3, <1>1, <1>2
  <2> QED  BY <2>1, <2>2, <2>3
<1>7. \A w \in 0 .. n - 1 : \E i \in 1 .. n : m[i] = w
  <2> TAKE w \in 0 .. n - 1
  <2>1. PICK i \in 1 .. n : o[i] = w
    BY <1>2
  <2>2. CASE i = k
    <3>1. 1 \in 1 .. n
      OBVIOUS
    <3> QED  BY <3>1, <2>1, <2>2, <1>1
  <2>3. CASE i # k
    BY <2>1, <2>3, <1>1, <1>4
  <2> QED  BY <2>2, <2>3
<1> QED  BY <1>5, <1>6, <1>7 DEF Permutation

\* The parts of a policy that an access may change, one by one.
LEMMA WithOrder ==
  ASSUME NEW r, PolicyOK(r), NEW o, Permutation(Ways, o)
  PROVE  /\ [r EXCEPT !.order = o] = [order |-> o, bits |-> r.bits, clock |-> r.clock]
         /\ PolicyOK([r EXCEPT !.order = o])
BY DEF PolicyOK

LEMMA WithBits ==
  ASSUME NEW r, PolicyOK(r), NEW b \in [0 .. Ways - 1 -> BOOLEAN]
  PROVE  /\ [r EXCEPT !.bits = b] = [order |-> r.order, bits |-> b, clock |-> r.clock]
         /\ PolicyOK([r EXCEPT !.bits = b])
BY DEF PolicyOK

LEMMA WithBit ==
  ASSUME NEW r, PolicyOK(r), NEW w \in 0 .. Ways - 1
  PROVE  /\ PolicyOK([r EXCEPT !.bits[w] = TRUE])
         /\ [r EXCEPT !.bits[w] = TRUE].order = r.order
<1> DEFINE marked == [r.bits EXCEPT ![w] = TRUE]
<1>1. marked \in [0 .. Ways - 1 -> BOOLEAN]
  BY DEF PolicyOK
<1>2. [r EXCEPT !.bits[w] = TRUE] = [r EXCEPT !.bits = marked]
  BY DEF PolicyOK
<1> HIDE DEF marked
<1>3. [r EXCEPT !.bits = marked].order = r.order
  BY DEF PolicyOK
<1> QED  BY <1>1, <1>2, <1>3, WithBits

LEMMA Cleared ==
  ASSUME Set!CacheSetAssumption, NEW r, PolicyOK(r)
  PROVE  /\ PolicyOK([r EXCEPT !.bits = Set!NoBits(r), !.clock = 0])
         /\ [r EXCEPT !.bits = Set!NoBits(r), !.clock = 0].order = r.order
<1> DEFINE cleared == Set!NoBits(r)
<1>1. cleared \in [0 .. Ways - 1 -> BOOLEAN]
  BY DEF Set!NoBits, PolicyOK
<1> HIDE DEF cleared
<1> DEFINE q == [r EXCEPT !.bits = cleared, !.clock = 0]
<1>2. q \in [order : {r.order}, bits : {cleared}, clock : {0}]
  <2>1. r \in [order : {r.order}, bits : {r.bits}, clock : {r.clock}]
    BY DEF PolicyOK
  <2> QED  BY <2>1
<1>3. 0 \in 0 .. 4 * Ways - 1
  BY DEF Set!CacheSetAssumption
<1> HIDE DEF q
<1>4. q = [order |-> q.order, bits |-> q.bits, clock |-> q.clock]
  BY <1>2
<1>5. q.order = r.order /\ q.bits = cleared /\ q.clock = 0
  BY <1>2
<1> QED  BY <1>1, <1>3, <1>4, <1>5 DEF PolicyOK, q, cleared

LEMMA Ticked ==
  ASSUME Set!CacheSetAssumption, NEW r, PolicyOK(r)
  PROVE  PolicyOK(Set!Tick(Ways, r)) /\ Set!Tick(Ways, r).order = r.order
<1>1. CASE r.clock + 1 >= 4 * Ways
  BY <1>1, Cleared DEF Set!Tick
<1>2. CASE ~(r.clock + 1 >= 4 * Ways)
  <2> DEFINE c == r.clock + 1
  <2>1. c \in 0 .. 4 * Ways - 1
    BY <1>2 DEF PolicyOK, Set!CacheSetAssumption
  <2>2. Set!Tick(Ways, r) = [r EXCEPT !.clock = c]
    BY <1>2 DEF Set!Tick
  <2> HIDE DEF c
  <2>3. PolicyOK([r EXCEPT !.clock = c]) /\ [r EXCEPT !.clock = c].order = r.order
    BY <2>1 DEF PolicyOK
  <2> QED  BY <2>2, <2>3
<1> QED  BY <1>1, <1>2

\* What an access to the way at k, or its installation, does to a policy.
Touched(p, r, q, k, access) ==
  /\ PolicyOK(q)
  /\ p = "LRU" \/ (p = "FIFO" /\ ~access) => Fronted(q.order, r.order, k, Ways)
  /\ p = "FIFO" /\ access => q = r
  /\ p = "PLRU" => Set!FollowBits(Ways, q.bits) = r.order[k]

LEMMA AccessTouches ==
  ASSUME Set!CacheSetAssumption, NEW p \in Set!PolicyNames, NEW r, PolicyOK(r), NEW k \in 1 .. Ways
  PROVE  Touched(p, r, Set!OnAccess(p, Ways, r, r.order[k]), k, TRUE)
<1> DEFINE w == r.order[k]
           q == Set!OnAccess(p, Ways, r, w)
<1>0. /\ Ways \in Nat \ {0} /\ Permutation(Ways, r.order) /\ r.bits \in [0 .. Ways - 1 -> BOOLEAN]
      /\ w \in 0 .. Ways - 1
  BY DEF PolicyOK, Permutation, Set!CacheSetAssumption
<1>1. CASE p = "LRU"
  <2> DEFINE o == Set!MoveToFront(r.order, w)
  <2>1. Fronted(o, r.order, k, Ways) /\ Permutation(Ways, o)
    BY <1>0, FrontIs, FrontedPermutes
  <2>2. q = [r EXCEPT !.order = o]
    BY <1>1 DEF Set!OnAccess
  <2> HIDE DEF o
  <2>3. PolicyOK(q) /\ q = [order |-> o, bits |-> r.bits, clock |-> r.clock]
    BY <2>1, <2>2, WithOrder
  <2> QED  BY <1>1, <2>1, <2>3 DEF Touched
<1>2. CASE p = "NRU"
  <2> DEFINE m == [r EXCEPT !.bits[w] = TRUE]
  <2>1. PolicyOK(m)
    BY <1>0, WithBit
  <2>2. q = Set!Tick(Ways, m)
    BY <1>2 DEF Set!OnAccess
  <2> HIDE DEF m
  <2>3. PolicyOK(q)
    BY <2>1, <2>2, Ticked
  <2> QED  BY <1>2, <2>3 DEF Touched
<1>3. CASE p = "PLRU"
  <2> DEFINE b == Set!PointAt(Ways, r.bits, w)
  <2>1. b \in [0 .. Ways - 1 -> BOOLEAN] /\ Set!FollowBits(Ways, b) = w
    BY <1>0, PointedIsFollowed
  <2>2. q = [r EXCEPT !.bits = b]
    BY <1>3 DEF Set!OnAccess
  <2> HIDE DEF b
  <2>3. PolicyOK(q) /\ q = [order |-> r.order, bits |-> b, clock |-> r.clock]
    BY <2>1, <2>2, WithBits
  <2> QED  BY <1>3, <2>1, <2>3 DEF Touched
<1>4. CASE p \notin {"LRU", "NRU", "PLRU"}
  <2>1. q = r
    BY <1>4 DEF Set!OnAccess
  <2> QED  BY <1>4, <2>1 DEF Touched
<1> QED  BY <1>1, <1>2, <1>3, <1>4

LEMMA InstallTouches ==
  ASSUME Set!CacheSetAssumption, NEW p \in Set!PolicyNames, NEW r, PolicyOK(r), NEW k \in 1 .. Ways
  PROVE  Touched(p, r, Set!OnInstall(p, Ways, r, r.order[k]), k, FALSE)
<1> DEFINE w == r.order[k]
           q == Set!OnInstall(p, Ways, r, w)
<1>0. /\ Ways \in Nat \ {0} /\ Permutation(Ways, r.order) /\ w \in 0 .. Ways - 1
  BY DEF PolicyOK, Permutation, Set!CacheSetAssumption
<1>1. CASE p \in {"LRU", "PLRU"}
  <2>1. q = Set!OnAccess(p, Ways, r, w)
    BY <1>1 DEF Set!OnInstall
  <2> QED  BY <1>1, <2>1, AccessTouches DEF Touched
<1>2. CASE p = "FIFO"
  <2> DEFINE o == Set!MoveToFront(r.order, w)
  <2>1. Fronted(o, r.order, k, Ways) /\ Permutation(Ways, o)
    BY <1>0, FrontIs, FrontedPermutes
  <2>2. q = [r EXCEPT !.order = o]
    BY <1>2 DEF Set!OnInstall
  <2> HIDE DEF o
  <2>3. PolicyOK(q) /\ q = [order |-> o, bits |-> r.bits, clock |-> r.clock]
    BY <2>1, <2>2, WithOrder
  <2> QED  BY <1>2, <2>1, <2>3 DEF Touched
<1>3. CASE p = "NRU"
  <2>1. q = [r EXCEPT !.bits[w] = TRUE]
    BY <1>3 DEF Set!OnInstall
  <2>2. PolicyOK(q)
    BY <1>0, <2>1, WithBit
  <2> QED  BY <1>3, <2>2 DEF Touched
<1>4. CASE p = "Random"
  <2>1. q = r
    BY <1>4 DEF Set!OnInstall
  <2> QED  BY <1>4, <2>1 DEF Touched
<1> QED  BY <1>1, <1>2, <1>3, <1>4 DEF Set!PolicyNames

\* What a policy selects: LRU and FIFO the last of their order, PLRU what its bits point
\* at; neither of the three is changed by it.
Selected(p, r, s) ==
  /\ PolicyOK(s.after) /\ s.after.order = r.order
  /\ p \in {"LRU", "FIFO"} => s.way = r.order[Ways]
  /\ p = "PLRU" => s.way = Set!FollowBits(Ways, r.bits)

LEMMA SelectionSelects ==
  ASSUME Set!CacheSetAssumption, NEW p \in Set!PolicyNames, NEW r, PolicyOK(r),
         NEW s \in Set!Selections(p, Ways, r)
  PROVE  Selected(p, r, s)
<1> DEFINE U == {w \in 0 .. Ways - 1 : ~r.bits[w]}
<1>1. CASE p \in {"LRU", "FIFO"}
  <2>1. s = [way |-> Set!Last(r.order), after |-> r]
    BY <1>1 DEF Set!Selections
  <2>2. r.order \in [1 .. Ways -> 0 .. Ways - 1] /\ Ways \in Nat
    BY DEF PolicyOK, Permutation, Set!CacheSetAssumption
  <2>3. Set!Last(r.order) = r.order[Ways]
    BY <2>2 DEF Set!Last
  <2> QED  BY <1>1, <2>1, <2>3 DEF Selected
<1>2. CASE p = "Random"
  <2>1. PICK w \in 0 .. Ways - 1 : s = [way |-> w, after |-> r]
    BY <1>2 DEF Set!Selections
  <2> QED  BY <2>1, <1>2 DEF Selected
<1>3. CASE p = "PLRU"
  <2>1. s = [way |-> Set!FollowBits(Ways, r.bits), after |-> r]
    BY <1>3 DEF Set!Selections
  <2> QED  BY <2>1, <1>3 DEF Selected
<1>4. CASE p = "NRU" /\ U # {}
  <2>1. s = [way |-> Set!Min(U), after |-> r]
    BY <1>4 DEF Set!Selections
  <2> QED  BY <2>1, <1>4 DEF Selected
<1>5. CASE p = "NRU" /\ U = {}
  <2>1. s = [way |-> 0, after |-> [r EXCEPT !.bits = Set!NoBits(r), !.clock = 0]]
    BY <1>5 DEF Set!Selections
  <2>2. /\ PolicyOK([r EXCEPT !.bits = Set!NoBits(r), !.clock = 0])
        /\ [r EXCEPT !.bits = Set!NoBits(r), !.clock = 0].order = r.order
    BY Cleared
  <2>3. s.after = [r EXCEPT !.bits = Set!NoBits(r), !.clock = 0]
    BY <2>1, Zenon
  <2> QED  BY <2>2, <2>3, <1>5 DEF Selected
<1> QED  BY <1>1, <1>2, <1>3, <1>4, <1>5 DEF Set!PolicyNames

-----------------------------------------------------------------------------
\* The set.  A way is behind another one in the order of LRU and FIFO when it was not
\* renewed since; a block at i waited for less than i replacements; what PLRU points at was
\* renewed last of all.
Aged(o, d) ==
  \A i, j \in 1 .. Ways : i <= j /\ <<o[i], o[i]>> \in d => <<o[j], o[i]>> \in d
Waits(o, blocked, t) == \A i \in 1 .. Ways : o[i] \in blocked => t[o[i]] < i

SetInv ==
  /\ policy \in Policies
  /\ valid \subseteq Set!WaySet
  /\ PolicyOK(state)
  /\ waited \in [Set!WaySet -> 0 .. Ways]
  /\ \A w \in valid : <<w, w>> \in idle
  /\ Set!Ordered => Aged(state.order, idle) /\ Waits(state.order, valid, waited)
  /\ policy = "PLRU" => idle = {} \/ \A w \in Set!WaySet : <<w, Set!FollowBits(Ways, state.bits)>> \in idle

LEMMA SetStart == StructuresInit => SetInv
<1> SUFFICES ASSUME StructuresInit PROVE SetInv
  OBVIOUS
<1>1. Set!Init /\ Ways \in Nat \ {0, 1}
  BY StructuresAssumption DEF StructuresInit, Set!CacheSetAssumption
<1>2. PolicyOK(state)
  <2> DEFINE o == [i \in 1 .. Ways |-> i - 1]
             b == [i \in 0 .. Ways - 1 |-> FALSE]
  <2>1. state = [order |-> o, bits |-> b, clock |-> 0]
    BY <1>1 DEF Set!Init, Set!NewPolicy
  <2>2. Permutation(Ways, o)
    <3>1. \A w \in 0 .. Ways - 1 : w + 1 \in 1 .. Ways /\ o[w + 1] = w
      BY <1>1
    <3>2. /\ o \in [1 .. Ways -> 0 .. Ways - 1]
          /\ \A i, j \in 1 .. Ways : o[i] = o[j] => i = j
      BY <1>1
    <3> HIDE DEF o
    <3> QED  BY <3>1, <3>2 DEF Permutation
  <2>3. b \in [0 .. Ways - 1 -> BOOLEAN] /\ 0 \in 0 .. 4 * Ways - 1
    BY <1>1
  <2> HIDE DEF o, b
  <2>4. state = [order |-> state.order, bits |-> state.bits, clock |-> state.clock]
    BY <2>1
  <2> QED  BY <2>1, <2>2, <2>3, <2>4 DEF PolicyOK
<1>3. waited \in [Set!WaySet -> 0 .. Ways]
  BY <1>1 DEF Set!Init
<1> QED  BY <1>1, <1>2, <1>3 DEF Set!Init, SetInv, Aged, Waits

LEMMA Renewed ==
  ASSUME NEW w \in Set!WaySet, Set!Renew(w)
  PROVE  /\ \A x \in Set!WaySet : <<x, w>> \in idle'
         /\ \A x, y \in Set!WaySet : x # w /\ y # w => (<<x, y>> \in idle <=> <<x, y>> \in idle')
         /\ \A x, y \in Set!WaySet : x # w /\ <<x, y>> \in idle => <<x, y>> \in idle'
  BY DEF Set!Renew

\* What renews the way at k keeps the promises of the policy.
LEMMA RenewedStays ==
  ASSUME Set!CacheSetAssumption, SetInv, NEW k \in 1 .. Ways, NEW w, w = state.order[k],
         Set!Renew(w), PolicyOK(state'), policy' = policy,
         valid' \subseteq Set!WaySet, valid' \subseteq valid \cup {w},
         waited' \in [Set!WaySet -> 0 .. Ways], Set!Ordered => waited'[w] = 0,
         \A x \in Set!WaySet : x # w => \/ waited'[x] <= waited[x]
                                        \/ k = Ways /\ waited'[x] <= waited[x] + 1,
         Set!Ordered => Fronted(state'.order, state.order, k, Ways),
         policy = "PLRU" => Set!FollowBits(Ways, state'.bits) = w
  PROVE  SetInv'
<1> DEFINE o == state.order
           m == state'.order
<1>1. /\ Ways \in Nat \ {0, 1} /\ Permutation(Ways, o) /\ o \in [1 .. Ways -> Set!WaySet]
      /\ w \in Set!WaySet
  BY DEF SetInv, PolicyOK, Permutation, Set!WaySet, Set!CacheSetAssumption
<1>2. /\ \A x \in Set!WaySet : <<x, w>> \in idle'
      /\ \A x, y \in Set!WaySet : x # w /\ y # w => (<<x, y>> \in idle <=> <<x, y>> \in idle')
      /\ \A x, y \in Set!WaySet : x # w /\ <<x, y>> \in idle => <<x, y>> \in idle'
  <2> HIDE DEF o
  <2> QED  BY <1>1, Renewed
<1>3. \A x \in valid' : <<x, x>> \in idle'
  BY <1>2 DEF SetInv
<1>4. ASSUME Set!Ordered PROVE Aged(m, idle') /\ Waits(m, valid', waited')
  <2> DEFINE was(i) == IF k < i THEN i ELSE i - 1
  <2>1. /\ m[1] = w
        /\ \A i \in 1 .. Ways : i # 1 => was(i) \in 1 .. Ways /\ was(i) # k /\ m[i] = o[was(i)]
    BY <1>1, <1>4, FrontedAt
  <2>2. /\ \A i, j \in 1 .. Ways : i <= j => was(i) <= was(j)
        /\ \A i \in 1 .. Ways : was(i) <= i /\ (k = Ways => was(i) = i - 1)
    BY <1>1
  <2>3. \A i \in 1 .. Ways : i # 1 => m[i] \in Set!WaySet /\ m[i] # w
    <3>1. \A i, j \in 1 .. Ways : o[i] = o[j] => i = j
      BY <1>1 DEF Permutation
    <3>2. w = o[k]
      OBVIOUS
    <3> HIDE DEF was, m, o
    <3> TAKE i \in 1 .. Ways
    <3> HAVE i # 1
    <3>3. was(i) \in 1 .. Ways /\ was(i) # k /\ m[i] = o[was(i)]
      BY <2>1
    <3>4. m[i] # w
      BY <3>1, <3>2, <3>3
    <3>5. m[i] \in Set!WaySet
      BY <3>3, <1>1
    <3> QED  BY <3>4, <3>5
  <2>4. Aged(o, idle) /\ Waits(o, valid, waited)
    BY <1>4 DEF SetInv
  <2>5. \A i \in 1 .. Ways : was(i) \in Int
    BY <1>1
  <2> HIDE DEF was, o, m
  <2>6. Aged(m, idle')
    <3> SUFFICES ASSUME NEW i \in 1 .. Ways, NEW j \in 1 .. Ways, i <= j, <<m[i], m[i]>> \in idle'
                 PROVE  <<m[j], m[i]>> \in idle'
      BY DEF Aged
    <3>1. CASE i = 1
      BY <3>1, <2>1, <2>3, <1>1, <1>2
    <3>2. CASE i # 1
      <4>1. j # 1
        BY <3>2
      <4>2. <<m[i], m[i]>> \in idle
        BY <3>2, <2>3, <1>2
      <4>3. <<o[was(j)], o[was(i)]>> \in idle
        BY <3>2, <4>1, <4>2, <2>1, <2>2, <2>4 DEF Aged
      <4> QED  BY <3>2, <4>1, <4>3, <2>1, <2>3, <1>2
    <3> QED  BY <3>1, <3>2
  <2>7. Waits(m, valid', waited')
    <3> SUFFICES ASSUME NEW i \in 1 .. Ways, m[i] \in valid' PROVE waited'[m[i]] < i
      BY DEF Waits
    <3>1. CASE i = 1
      BY <3>1, <2>1, <1>4
    <3>2. CASE i # 1
      <4>1. /\ was(i) \in 1 .. Ways /\ m[i] = o[was(i)] /\ m[i] \in Set!WaySet /\ m[i] # w
            /\ m[i] \in valid
        BY <3>2, <2>1, <2>3
      <4>2. waited[m[i]] < was(i)
        BY <4>1, <2>4 DEF Waits
      <4> DEFINE before == waited[m[i]]
                 after == waited'[m[i]]
      <4>3. before \in Int /\ after \in Int
        BY <4>1, <1>1 DEF SetInv
      <4>4. after <= before \/ (k = Ways /\ after <= before + 1)
        BY <4>1
      <4>5. was(i) <= i /\ (k = Ways => was(i) = i - 1) /\ was(i) \in Int
        BY <2>2, <2>5
      <4> HIDE DEF before, after
      <4>6. after < i
        BY <4>2, <4>3, <4>4, <4>5 DEF before
      <4> QED  BY <4>6 DEF after
    <3> QED  BY <3>1, <3>2
  <2> QED  BY <2>6, <2>7
<1>5. policy = "PLRU" => \A x \in Set!WaySet : <<x, Set!FollowBits(Ways, state'.bits)>> \in idle'
  BY <1>2
<1>6. Set!Ordered' <=> Set!Ordered
  BY DEF Set!Ordered
<1>7. /\ policy' \in Policies /\ PolicyOK(state') /\ Set!WaySet' = Set!WaySet
      /\ (policy' = "PLRU" => policy = "PLRU")
  BY DEF SetInv, Set!WaySet
<1>8. (PolicyOK(state))'
  BY <1>7
<1> QED  BY <1>3, <1>4, <1>5, <1>6, <1>7, <1>8 DEF SetInv, Set!WaySet

\* The way a policy is told about is somewhere in its order.
LEMMA PlaceOf ==
  ASSUME Set!CacheSetAssumption, NEW r, PolicyOK(r), NEW w \in Set!WaySet
  PROVE  \E k \in 1 .. Ways : r.order[k] = w
  BY DEF PolicyOK, Permutation, Set!WaySet

\* Fewer valid ways, and nothing else, keep the invariant.
LEMMA SetShrinks ==
  ASSUME SetInv, valid' \subseteq valid, UNCHANGED <<policy, state, idle, waited>>
  PROVE  SetInv'
BY DEF SetInv, PolicyOK, Set!Ordered, Set!WaySet, Set!FollowBits, Aged, Waits

LEMMA SetHit == ASSUME SetInv, NEW w \in Set!WaySet, Set!Hit(w) PROVE SetInv'
<1>1. Set!CacheSetAssumption /\ policy \in Set!PolicyNames /\ PolicyOK(state)
  BY StructuresAssumption DEF SetInv, Set!CacheSetAssumption
<1>2. PICK k \in 1 .. Ways : state.order[k] = w
  BY <1>1, PlaceOf
<1>3. Touched(policy, state, state', k, TRUE)
  <2>1. state' = Set!OnAccess(policy, Ways, state, state.order[k])
    BY <1>2 DEF Set!Hit
  <2> QED  BY <2>1, <1>1, AccessTouches
<1>4. policy' = policy /\ valid' = valid /\ valid \subseteq Set!WaySet
  BY DEF Set!Hit, SetInv
<1>5. CASE policy = "FIFO"
  <2>1. UNCHANGED <<policy, valid, state, idle, waited>>
    BY <1>3, <1>5 DEF Touched, Set!Hit
  <2> QED  BY <2>1, SetShrinks
<1>6. CASE policy # "FIFO"
  <2>1. Set!Renew(w) /\ waited' = [waited EXCEPT ![w] = 0]
    BY <1>6 DEF Set!Hit
  <2>2. /\ waited' \in [Set!WaySet -> 0 .. Ways] /\ waited'[w] = 0
        /\ \A x \in Set!WaySet : x # w => waited'[x] <= waited[x]
    BY <1>1, <2>1 DEF SetInv, Set!CacheSetAssumption
  <2>3. /\ PolicyOK(state')
        /\ Set!Ordered => Fronted(state'.order, state.order, k, Ways)
        /\ policy = "PLRU" => Set!FollowBits(Ways, state'.bits) = w
    BY <1>2, <1>3, <1>6 DEF Touched, Set!Ordered
  <2> QED  BY <1>1, <1>2, <1>4, <2>1, <2>2, <2>3, RenewedStays
<1> QED  BY <1>5, <1>6

LEMMA SetFill == ASSUME SetInv, Set!Fill PROVE SetInv'
<1> DEFINE free == Set!WaySet \ valid
           w == Set!Min(free)
<1>1. Set!CacheSetAssumption /\ policy \in Set!PolicyNames /\ PolicyOK(state)
  BY StructuresAssumption DEF SetInv, Set!CacheSetAssumption
<1>2. w \in Set!WaySet
  <2>1. free \subseteq Nat /\ free # {}
    <3>1. Set!WaySet \subseteq Nat /\ valid \subseteq Set!WaySet /\ valid # Set!WaySet
      BY <1>1 DEF SetInv, Set!Fill, Set!WaySet, Set!CacheSetAssumption
    <3> QED  BY <3>1
  <2> HIDE DEF free
  <2>2. w \in free
    BY <2>1, LeastNumber DEF Set!Min
  <2> QED  BY <2>2 DEF free
<1>3. /\ policy' = policy /\ valid' = valid \cup {w} /\ valid \subseteq Set!WaySet
      /\ state' = Set!OnInstall(policy, Ways, state, w)
      /\ Set!Renew(w) /\ waited' = [waited EXCEPT ![w] = 0]
  BY DEF Set!Fill, SetInv
<1> HIDE DEF w
<1>4. PICK k \in 1 .. Ways : state.order[k] = w
  BY <1>1, <1>2, PlaceOf
<1>5. Touched(policy, state, state', k, FALSE)
  <2>1. state' = Set!OnInstall(policy, Ways, state, state.order[k])
    BY <1>3, <1>4
  <2> QED  BY <2>1, <1>1, InstallTouches
<1>6. /\ waited' \in [Set!WaySet -> 0 .. Ways] /\ waited'[w] = 0
      /\ \A x \in Set!WaySet : x # w => waited'[x] <= waited[x]
  BY <1>1, <1>2, <1>3 DEF SetInv, Set!CacheSetAssumption
<1>7. /\ PolicyOK(state')
      /\ Set!Ordered => Fronted(state'.order, state.order, k, Ways)
      /\ policy = "PLRU" => Set!FollowBits(Ways, state'.bits) = w
  BY <1>4, <1>5 DEF Touched, Set!Ordered
<1>8. valid' \subseteq Set!WaySet /\ valid' \subseteq valid \cup {w}
  BY <1>2, <1>3
<1> QED  BY <1>1, <1>3, <1>4, <1>6, <1>7, <1>8, RenewedStays

LEMMA SetReplace == ASSUME SetInv, NEW v \in Set!WaySet, Set!Replace(v) PROVE SetInv'
<1>1. Set!CacheSetAssumption /\ policy \in Set!PolicyNames /\ PolicyOK(state)
  BY StructuresAssumption DEF SetInv, Set!CacheSetAssumption
<1>2. PICK s \in Set!Selections(policy, Ways, state) :
        s.way = v /\ state' = Set!OnInstall(policy, Ways, s.after, v)
  BY DEF Set!Replace
<1>3. Selected(policy, state, s)
  BY <1>1, SelectionSelects
<1>4. PolicyOK(s.after) /\ s.after.order = state.order
  BY <1>3 DEF Selected
<1>5. PICK k \in 1 .. Ways : state.order[k] = v
  BY <1>1, PlaceOf
<1>6. Touched(policy, s.after, state', k, FALSE)
  <2>1. state' = Set!OnInstall(policy, Ways, s.after, s.after.order[k])
    BY <1>2, <1>4, <1>5
  <2> QED  BY <2>1, <1>1, <1>4, InstallTouches
<1>7. Set!Ordered => k = Ways
  <2>1. Set!Ordered => state.order[Ways] = v
    BY <1>2, <1>3 DEF Selected, Set!Ordered
  <2>2. Ways \in 1 .. Ways /\ \A i, j \in 1 .. Ways : state.order[i] = state.order[j] => i = j
    BY <1>1 DEF PolicyOK, Permutation, Set!CacheSetAssumption
  <2> QED  BY <2>1, <2>2, <1>5
<1>8. /\ waited' \in [Set!WaySet -> 0 .. Ways] /\ (Set!Ordered => waited'[v] = 0)
      /\ \A x \in Set!WaySet : x # v => \/ waited'[x] <= waited[x]
                                        \/ k = Ways /\ waited'[x] <= waited[x] + 1
  <2>0. /\ Ways \in Nat /\ \A x \in Set!WaySet : waited[x] \in 0 .. Ways
        /\ waited \in [Set!WaySet -> 0 .. Ways]
    BY <1>1 DEF SetInv, Set!CacheSetAssumption
  <2>1. CASE Set!Ordered
    <3> DEFINE one(x) == Set!Min({waited[x] + 1, Ways})
    <3>1. \A x \in Set!WaySet : one(x) \in 0 .. Ways /\ one(x) <= waited[x] + 1
      BY <2>0 DEF Set!Min
    <3>2. waited' = [x \in Set!WaySet |-> IF x = v THEN 0 ELSE one(x)]
      BY <2>1 DEF Set!Replace
    <3> HIDE DEF one
    <3> QED  BY <2>0, <2>1, <3>1, <3>2, <1>7
  <2>2. CASE ~Set!Ordered
    <3>1. waited' = waited
      BY <2>2 DEF Set!Replace
    <3> QED  BY <3>1, <2>0, <2>2
  <2> QED  BY <2>1, <2>2
<1>9. /\ policy' = policy /\ valid' = valid /\ valid \subseteq Set!WaySet /\ Set!Renew(v)
  BY DEF Set!Replace, SetInv
<1>10. /\ PolicyOK(state')
       /\ Set!Ordered => Fronted(state'.order, state.order, k, Ways)
       /\ policy = "PLRU" => Set!FollowBits(Ways, state'.bits) = v
  BY <1>4, <1>5, <1>6 DEF Touched, Set!Ordered
<1> QED  BY <1>1, <1>5, <1>8, <1>9, <1>10, RenewedStays

LEMMA SetStep == SetInv /\ [Set!Next]_set => SetInv'
<1> SUFFICES ASSUME SetInv, [Set!Next]_set PROVE SetInv'
  OBVIOUS
<1>1. CASE UNCHANGED set
  BY <1>1, SetShrinks DEF set
<1>2. ASSUME NEW w \in Set!WaySet, Set!Invalidate(w) PROVE SetInv'
  <2>1. valid' \subseteq valid /\ UNCHANGED <<policy, state, idle, waited>>
    BY <1>2 DEF Set!Invalidate
  <2> QED  BY <2>1, SetShrinks
<1>3. ASSUME NEW w \in Set!WaySet, Set!Hit(w) PROVE SetInv'
  BY <1>3, SetHit
<1>4. ASSUME NEW w \in Set!WaySet, Set!Replace(w) PROVE SetInv'
  BY <1>4, SetReplace
<1>5. CASE Set!Fill
  BY <1>5, SetFill
<1> QED  BY <1>1, <1>2, <1>3, <1>4, <1>5 DEF Set!Next

\* What the promises of a set follow from.
LEMMA SetKeeps ==
  SetInv => /\ Set!TypeOK /\ Set!VictimIsOldest /\ Set!NoStarvation
            /\ Set!UsedLastIsVictim
<1> SUFFICES ASSUME SetInv PROVE Set!TypeOK /\ Set!VictimIsOldest /\ Set!NoStarvation
                                 /\ Set!UsedLastIsVictim
  OBVIOUS
<1> DEFINE o == state.order
<1>1. /\ Set!CacheSetAssumption /\ policy \in Set!PolicyNames /\ PolicyOK(state)
      /\ Ways \in Nat \ {0, 1} /\ waited \in [Set!WaySet -> 0 .. Ways]
  BY StructuresAssumption DEF SetInv, Set!CacheSetAssumption
<1>2. /\ o \in [1 .. Ways -> Set!WaySet]
      /\ \A w \in Set!WaySet : \E k \in 1 .. Ways : o[k] = w
  BY <1>1 DEF PolicyOK, Permutation, Set!WaySet
<1>3. Set!TypeOK
  <2>1. Len(o) = Ways /\ DOMAIN o = 1 .. Ways
    BY <1>1, <1>2
  <2>2. Set!ToSet(o) = Set!WaySet
    <3> HIDE DEF o
    <3> QED  BY <1>2, <2>1 DEF Set!ToSet
  <2>3. state.bits \in [Set!WaySet -> BOOLEAN] /\ state.clock \in 0 .. 4 * Ways - 1
    BY <1>1 DEF PolicyOK, Set!WaySet
  <2> QED  BY <2>1, <2>2, <2>3 DEF Set!TypeOK, SetInv
<1>4. Set!VictimIsOldest
  <2> SUFFICES ASSUME Set!Ordered, valid = Set!WaySet,
                      NEW s \in Set!Selections(policy, Ways, state), NEW w \in Set!WaySet
               PROVE  <<s.way, w>> \in idle
    BY DEF Set!VictimIsOldest
  <2>1. s.way = o[Ways]
    BY <1>1, SelectionSelects DEF Selected, Set!Ordered
  <2>2. PICK k \in 1 .. Ways : o[k] = w
    BY <1>2
  <2>3. <<o[k], o[k]>> \in idle /\ Aged(o, idle) /\ k <= Ways /\ Ways \in 1 .. Ways
    BY <1>1, <2>2 DEF SetInv
  <2> HIDE DEF o
  <2> QED  BY <2>1, <2>2, <2>3 DEF Aged
<1>5. Set!NoStarvation
  <2> SUFFICES ASSUME Set!Ordered, NEW w \in valid PROVE waited[w] < Ways
    BY DEF Set!NoStarvation
  <2>1. w \in Set!WaySet
    BY DEF SetInv
  <2>2. PICK k \in 1 .. Ways : o[k] = w
    BY <1>2, <2>1
  <2>3. Waits(o, valid, waited)
    BY DEF SetInv
  <2>4. waited[w] < k
    BY <2>2, <2>3 DEF Waits
  <2>5. waited[w] \in 0 .. Ways
    BY <1>1, <2>1
  <2> QED  BY <1>1, <2>4, <2>5
<1>6. Set!UsedLastIsVictim
  <2> SUFFICES ASSUME policy = "PLRU", valid = Set!WaySet,
                      NEW s \in Set!Selections(policy, Ways, state), NEW w \in Set!WaySet
               PROVE  <<w, s.way>> \in idle
    BY DEF Set!UsedLastIsVictim
  <2>1. s.way = Set!FollowBits(Ways, state.bits)
    BY <1>1, SelectionSelects DEF Selected
  <2>2. <<w, w>> \in idle
    BY DEF SetInv
  <2> QED  BY <2>1, <2>2 DEF SetInv
<1> QED  BY <1>3, <1>4, <1>5, <1>6

\* LRU throws out the block used longest ago and FIFO the one that has been there longest,
\* also after blocks were invalidated behind the policy's back; and no block that is in use
\* outlives more replacements than the set has ways.  The policies do not see which ways
\* are valid: what makes it true is that every way that holds a block was told to the policy
\* after it was chosen.
THEOREM OldestIsReplaced == StructuresSpec => []OldestGoes
<1> DEFINE P == part = "set" => SetInv
<1>1. StructuresInit => P
  BY SetStart
<1>2. P /\ [StructuresNext]_structures => P'
  BY SetStep, StepOfThePart
<1>3. P => OldestGoes
  BY SetKeeps DEF OldestGoes, Promised
<1> HIDE DEF P
<1> QED  BY <1>1, <1>2, <1>3, PTL DEF StructuresSpec

\* The tree of PLRU, whose comment promises the opposite, leads to the block used last: in
\* every full set that one is the next victim.
THEOREM LastUsedIsReplaced == StructuresSpec => []UsedLastIsVictim
<1> DEFINE P == part = "set" => SetInv
<1>1. StructuresInit => P
  BY SetStart
<1>2. P /\ [StructuresNext]_structures => P'
  BY SetStep, StepOfThePart
<1>3. P => UsedLastIsVictim
  BY SetKeeps DEF UsedLastIsVictim, Promised
<1> HIDE DEF P
<1> QED  BY <1>1, <1>2, <1>3, PTL DEF StructuresSpec

-----------------------------------------------------------------------------
\* The manager of configurations.  A level with all its fields, a hierarchy with all of
\* its, and what is made without a file: no L3, the policies left alone, L2 in step.
Lv(s, a, b, p, d, r, w) ==
  [size |-> s, associativity |-> a, blockSize |-> b, prefetch |-> p, distance |-> d,
   replacement |-> r, write |-> w]
Whole(c) ==
  c = [l1 |-> c.l1, l2 |-> c.l2, l3 |-> c.l3, stride |-> c.stride, adaptive |-> c.adaptive]
Plain(l) ==
  l = Lv(l.size, l.associativity, l.blockSize, l.prefetch, l.distance, "LRU", "WriteBack")
InStep(l, k) == l.blockSize = k.blockSize /\ l.prefetch = k.prefetch /\ l.distance = k.distance
Made(c) ==
  /\ Whole(c)
  /\ Plain(c.l1) /\ c.l3 = {} /\ c.stride \in BOOLEAN /\ c.adaptive \in BOOLEAN
  /\ \A l \in c.l2 : Plain(l) /\ InStep(l, c.l1)
  /\ \A l, k \in c.l2 : l = k

\* The ways to change a level leave it one.
LEMMA LevelChanges ==
  ASSUME NEW l, Plain(l), NEW v
  PROVE  /\ [l EXCEPT !.size = v] =
              Lv(v, l.associativity, l.blockSize, l.prefetch, l.distance, "LRU", "WriteBack")
         /\ [l EXCEPT !.associativity = v] =
              Lv(l.size, v, l.blockSize, l.prefetch, l.distance, "LRU", "WriteBack")
         /\ [l EXCEPT !.blockSize = v] =
              Lv(l.size, l.associativity, v, l.prefetch, l.distance, "LRU", "WriteBack")
         /\ [l EXCEPT !.prefetch = v] =
              Lv(l.size, l.associativity, l.blockSize, v, l.distance, "LRU", "WriteBack")
         /\ [l EXCEPT !.distance = v] =
              Lv(l.size, l.associativity, l.blockSize, l.prefetch, v, "LRU", "WriteBack")
<1> DEFINE s == l.size
           a == l.associativity
           b == l.blockSize
           p == l.prefetch
           d == l.distance
<1>1. l = [size |-> s, associativity |-> a, blockSize |-> b, prefetch |-> p, distance |-> d,
           replacement |-> "LRU", write |-> "WriteBack"]
  BY DEF Plain, Lv
<1> HIDE DEF s, a, b, p, d
<1> QED  BY <1>1 DEF Lv, s, a, b, p, d

LEMMA LevelFields ==
  ASSUME NEW s, NEW a, NEW b, NEW p, NEW d, NEW r, NEW w
  PROVE  /\ Lv(s, a, b, p, d, r, w).size = s /\ Lv(s, a, b, p, d, r, w).associativity = a
         /\ Lv(s, a, b, p, d, r, w).blockSize = b /\ Lv(s, a, b, p, d, r, w).prefetch = p
         /\ Lv(s, a, b, p, d, r, w).distance = d
         /\ Lv(s, a, b, p, d, r, w).replacement = r /\ Lv(s, a, b, p, d, r, w).write = w
         /\ Plain(Lv(s, a, b, p, d, "LRU", "WriteBack"))
BY DEF Lv, Plain

\* What a change does to one level, and to two that are in step.
LEMMA ChangedAlone ==
  ASSUME NEW l, Plain(l), NEW v
  PROVE  /\ Plain([l EXCEPT !.size = v]) /\ InStep([l EXCEPT !.size = v], l)
         /\ Plain([l EXCEPT !.associativity = v]) /\ InStep([l EXCEPT !.associativity = v], l)
         /\ Plain([l EXCEPT !.blockSize = v]) /\ Plain([l EXCEPT !.prefetch = v])
         /\ Plain([l EXCEPT !.distance = v])
<1> DEFINE m1 == Lv(v, l.associativity, l.blockSize, l.prefetch, l.distance, "LRU", "WriteBack")
           m2 == Lv(l.size, v, l.blockSize, l.prefetch, l.distance, "LRU", "WriteBack")
<1>1. Plain(m1) /\ InStep(m1, l)
  BY LevelFields DEF InStep
<1>2. Plain(m2) /\ InStep(m2, l)
  BY LevelFields DEF InStep
<1>3. /\ Plain(Lv(l.size, l.associativity, v, l.prefetch, l.distance, "LRU", "WriteBack"))
      /\ Plain(Lv(l.size, l.associativity, l.blockSize, v, l.distance, "LRU", "WriteBack"))
      /\ Plain(Lv(l.size, l.associativity, l.blockSize, l.prefetch, v, "LRU", "WriteBack"))
  BY LevelFields
<1> QED  BY <1>1, <1>2, <1>3, LevelChanges

LEMMA ChangedInStep ==
  ASSUME NEW l, Plain(l), NEW k, Plain(k), InStep(l, k), NEW v
  PROVE  /\ InStep(l, [k EXCEPT !.size = v]) /\ InStep(l, [k EXCEPT !.associativity = v])
         /\ InStep([l EXCEPT !.size = v], k) /\ InStep([l EXCEPT !.associativity = v], k)
         /\ InStep([l EXCEPT !.blockSize = v], [k EXCEPT !.blockSize = v])
         /\ InStep([l EXCEPT !.prefetch = v], [k EXCEPT !.prefetch = v])
         /\ InStep([l EXCEPT !.distance = v], [k EXCEPT !.distance = v])
<1>1. \A m : Plain(m) =>
        /\ [m EXCEPT !.blockSize = v] =
             Lv(m.size, m.associativity, v, m.prefetch, m.distance, "LRU", "WriteBack")
        /\ [m EXCEPT !.prefetch = v] =
             Lv(m.size, m.associativity, m.blockSize, v, m.distance, "LRU", "WriteBack")
        /\ [m EXCEPT !.distance = v] =
             Lv(m.size, m.associativity, m.blockSize, m.prefetch, v, "LRU", "WriteBack")
  BY LevelChanges
<1>2. InStep([l EXCEPT !.blockSize = v], [k EXCEPT !.blockSize = v])
  BY <1>1, LevelFields DEF InStep
<1>3. InStep([l EXCEPT !.prefetch = v], [k EXCEPT !.prefetch = v])
  BY <1>1, LevelFields DEF InStep
<1>4. InStep([l EXCEPT !.distance = v], [k EXCEPT !.distance = v])
  BY <1>1, LevelFields DEF InStep
<1>5. /\ InStep([l EXCEPT !.size = v], l) /\ InStep([l EXCEPT !.associativity = v], l)
      /\ InStep([k EXCEPT !.size = v], k) /\ InStep([k EXCEPT !.associativity = v], k)
  BY ChangedAlone
<1> QED  BY <1>2, <1>3, <1>4, <1>5 DEF InStep

\* What a level of the manager's is, and the hierarchies it makes.
LEMMA LevelIs ==
  ASSUME NEW s, NEW a, NEW b, NEW p, NEW d
  PROVE  Manager!Level(s, a, b, p, d) = Lv(s, a, b, p, d, "LRU", "WriteBack")
<1> DEFINE x == Manager!Level(s, a, b, p, d)
<1>1. x \in [size : {s}, associativity : {a}, blockSize : {b}, prefetch : {p}, distance : {d},
             replacement : {"LRU"}, write : {"WriteBack"}]
  BY DEF Manager!Level, Manager!Zeroed
<1> HIDE DEF x
<1>2. x = Lv(x.size, x.associativity, x.blockSize, x.prefetch, x.distance, x.replacement, x.write)
  BY <1>1 DEF Lv
<1>3. /\ x.size = s /\ x.associativity = a /\ x.blockSize = b /\ x.prefetch = p
      /\ x.distance = d /\ x.replacement = "LRU" /\ x.write = "WriteBack"
  BY <1>1
<1> QED  BY <1>2, <1>3 DEF x

LEMMA MadeOf ==
  ASSUME NEW l1, Plain(l1), NEW l2, \A l \in l2 : Plain(l) /\ InStep(l, l1), \A l, k \in l2 : l = k,
         NEW st \in BOOLEAN, NEW ad \in BOOLEAN, NEW c,
         c = [l1 |-> l1, l2 |-> l2, l3 |-> {}, stride |-> st, adaptive |-> ad]
  PROVE  Made(c)
<1>1. c.l1 = l1 /\ c.l2 = l2 /\ c.l3 = {} /\ c.stride = st /\ c.adaptive = ad
  OBVIOUS
<1> QED  BY <1>1 DEF Made, Whole

LEMMA RequestedIsMade ==
  ASSUME NEW a \in Manager!Arguments
  PROVE  Made(Manager!Requested(a))
<1> DEFINE l1 == Manager!Level(a.size1, a.ways1, a.block, a.prefetch, a.distance)
           k == Manager!Level(a.size2, a.ways2, a.block, a.prefetch, a.distance)
           l2 == IF a.size2 > 0 THEN {k} ELSE {}
<1>1. Plain(l1) /\ Plain(k) /\ InStep(k, l1)
  BY LevelIs, LevelFields DEF InStep
<1>2. a.prefetch \in BOOLEAN
  BY DEF Manager!Arguments
<1>3. Manager!Requested(a) =
        [l1 |-> l1, l2 |-> l2, l3 |-> {}, stride |-> a.prefetch, adaptive |-> a.prefetch]
  BY DEF Manager!Requested, Manager!Hierarchy
<1>4. \A l \in l2 : Plain(l) /\ InStep(l, l1)
  BY <1>1
<1>5. \A l, m \in l2 : l = m
  OBVIOUS
<1> HIDE DEF l1, k, l2
<1> QED  BY <1>1, <1>2, <1>3, <1>4, <1>5, MadeOf

\* Sweeps keep what was made in step.
LEMMA SweptIsMade ==
  ASSUME NEW c, Made(c), NEW p, NEW v
  PROVE  Made(Manager!Swept(c, p, v))
<1> DEFINE l1 == c.l1
           l2 == c.l2
           st == c.stride
           ad == c.adaptive
<1>1. /\ c = [l1 |-> l1, l2 |-> l2, l3 |-> {}, stride |-> st, adaptive |-> ad]
      /\ st \in BOOLEAN /\ ad \in BOOLEAN /\ Plain(l1)
      /\ \A l \in l2 : Plain(l) /\ InStep(l, l1)
      /\ \A l, k \in l2 : l = k
  BY DEF Made, Whole
<1> HIDE DEF l1, l2, st, ad
<1>2. CASE p = "l1_size"
  <2> DEFINE m == [l1 EXCEPT !.size = v]
  <2>1. Plain(m) /\ \A l \in l2 : InStep(l, m)
    BY <1>1, ChangedAlone, ChangedInStep
  <2>2. Manager!Swept(c, p, v) = [c EXCEPT !.l1 = m]
    BY <1>1, <1>2 DEF Manager!Swept
  <2> HIDE DEF m
  <2>3. Manager!Swept(c, p, v) = [l1 |-> m, l2 |-> l2, l3 |-> {}, stride |-> st, adaptive |-> ad]
    BY <2>2, <1>1
  <2> QED  BY <1>1, <2>1, <2>3, MadeOf
<1>3. CASE p = "l1_assoc"
  <2> DEFINE m == [l1 EXCEPT !.associativity = v]
  <2>1. Plain(m) /\ \A l \in l2 : InStep(l, m)
    BY <1>1, ChangedAlone, ChangedInStep
  <2>2. Manager!Swept(c, p, v) = [c EXCEPT !.l1 = m]
    BY <1>1, <1>3 DEF Manager!Swept
  <2> HIDE DEF m
  <2>3. Manager!Swept(c, p, v) = [l1 |-> m, l2 |-> l2, l3 |-> {}, stride |-> st, adaptive |-> ad]
    BY <2>2, <1>1
  <2> QED  BY <1>1, <2>1, <2>3, MadeOf
<1>4. CASE p = "l2_size"
  <2> DEFINE new == IF v <= 0 THEN {} ELSE
                    IF c.l2 = {} THEN {Manager!Added(c, v)} ELSE {[l EXCEPT !.size = v] : l \in c.l2}
  <2>1. c.l1 = l1 /\ c.l2 = l2
    BY <1>1
  <2>2. \A l \in l2 : Plain([l EXCEPT !.size = v]) /\ InStep([l EXCEPT !.size = v], l1)
    BY <1>1, ChangedAlone, ChangedInStep
  <2>3. Plain(Manager!Added(c, v)) /\ InStep(Manager!Added(c, v), l1)
    BY <2>1, LevelIs, LevelFields DEF Manager!Added, InStep
  <2>4. \A l \in new : Plain(l) /\ InStep(l, l1)
    BY <2>1, <2>2, <2>3
  <2>5. \A l, k \in new : l = k
    BY <2>1, <1>1
  <2>6. Manager!Swept(c, p, v) = [c EXCEPT !.l2 = new]
    BY <1>4 DEF Manager!Swept
  <2> HIDE DEF new
  <2>7. Manager!Swept(c, p, v) = [l1 |-> l1, l2 |-> new, l3 |-> {}, stride |-> st, adaptive |-> ad]
    BY <2>6, <1>1
  <2> QED  BY <1>1, <2>4, <2>5, <2>7, MadeOf
<1>5. CASE p = "l2_assoc"
  <2> DEFINE new == {[l EXCEPT !.associativity = v] : l \in c.l2}
  <2>1. c.l1 = l1 /\ c.l2 = l2
    BY <1>1
  <2>2. \A l \in l2 : Plain([l EXCEPT !.associativity = v]) /\ InStep([l EXCEPT !.associativity = v], l1)
    BY <1>1, ChangedAlone, ChangedInStep
  <2>4. \A l \in new : Plain(l) /\ InStep(l, l1)
    BY <2>1, <2>2
  <2>5. \A l, k \in new : l = k
    BY <2>1, <1>1
  <2>6. Manager!Swept(c, p, v) = [c EXCEPT !.l2 = new]
    BY <1>5 DEF Manager!Swept
  <2> HIDE DEF new
  <2>7. Manager!Swept(c, p, v) = [l1 |-> l1, l2 |-> new, l3 |-> {}, stride |-> st, adaptive |-> ad]
    BY <2>6, <1>1
  <2> QED  BY <1>1, <2>4, <2>5, <2>7, MadeOf
<1>6. CASE p = "block_size"
  <2> DEFINE new == {[l EXCEPT !.blockSize = v] : l \in c.l2}
             m == [l1 EXCEPT !.blockSize = v]
  <2>1. c.l1 = l1 /\ c.l2 = l2
    BY <1>1
  <2>2. Plain(m) /\ \A l \in l2 : Plain([l EXCEPT !.blockSize = v]) /\ InStep([l EXCEPT !.blockSize = v], m)
    BY <1>1, ChangedAlone, ChangedInStep
  <2>4. \A l \in new : Plain(l) /\ InStep(l, m)
    BY <2>1, <2>2
  <2>5. \A l, k \in new : l = k
    BY <2>1, <1>1
  <2>6. Manager!Swept(c, p, v) = [c EXCEPT !.l1 = m, !.l2 = new]
    BY <1>1, <1>6 DEF Manager!Swept, Manager!SweptBoth
  <2> HIDE DEF new, m
  <2>7. Manager!Swept(c, p, v) = [l1 |-> m, l2 |-> new, l3 |-> {}, stride |-> st, adaptive |-> ad]
    BY <2>6, <1>1
  <2> QED  BY <1>1, <2>2, <2>4, <2>5, <2>7, MadeOf
<1>7. CASE p = "prefetch_distance"
  <2> DEFINE new == {[l EXCEPT !.distance = v] : l \in c.l2}
             m == [l1 EXCEPT !.distance = v]
  <2>1. c.l1 = l1 /\ c.l2 = l2
    BY <1>1
  <2>2. Plain(m) /\ \A l \in l2 : Plain([l EXCEPT !.distance = v]) /\ InStep([l EXCEPT !.distance = v], m)
    BY <1>1, ChangedAlone, ChangedInStep
  <2>4. \A l \in new : Plain(l) /\ InStep(l, m)
    BY <2>1, <2>2
  <2>5. \A l, k \in new : l = k
    BY <2>1, <1>1
  <2>6. Manager!Swept(c, p, v) = [c EXCEPT !.l1 = m, !.l2 = new]
    BY <1>1, <1>7 DEF Manager!Swept, Manager!SweptBoth
  <2> HIDE DEF new, m
  <2>7. Manager!Swept(c, p, v) = [l1 |-> m, l2 |-> new, l3 |-> {}, stride |-> st, adaptive |-> ad]
    BY <2>6, <1>1
  <2> QED  BY <1>1, <2>2, <2>4, <2>5, <2>7, MadeOf
<1>8. CASE p \notin {"l1_size", "l1_assoc", "l2_size", "l2_assoc", "block_size", "prefetch_distance"}
  <2>1. Manager!Swept(c, p, v) = c
    BY <1>8 DEF Manager!Swept, Manager!SweptBoth
  <2> QED  BY <2>1
<1> QED  BY <1>2, <1>3, <1>4, <1>5, <1>6, <1>7, <1>8

LEMMA PrefetchingIsMade ==
  ASSUME NEW c, Made(c), NEW on \in BOOLEAN
  PROVE  Made(Manager!Prefetching(c, on))
<1> DEFINE l1 == c.l1
           l2 == c.l2
           new == {[l EXCEPT !.prefetch = on] : l \in c.l2}
           m == [c.l1 EXCEPT !.prefetch = on]
<1>1. /\ c = [l1 |-> l1, l2 |-> l2, l3 |-> {}, stride |-> c.stride, adaptive |-> c.adaptive]
      /\ Plain(l1)
      /\ \A l \in l2 : Plain(l) /\ InStep(l, l1)
      /\ \A l, k \in l2 : l = k
  BY DEF Made, Whole
<1>2. Plain(m) /\ \A l \in l2 : Plain([l EXCEPT !.prefetch = on]) /\ InStep([l EXCEPT !.prefetch = on], m)
  <2> HIDE DEF l2
  <2> QED  BY <1>1, ChangedAlone, ChangedInStep
<1>3. \A l \in new : Plain(l) /\ InStep(l, m)
  BY <1>2
<1>4. \A l, k \in new : l = k
  BY <1>1
<1> DEFINE d == Manager!Prefetching(c, on)
<1> HIDE DEF new, m
<1>5. d = [c EXCEPT !.l1 = m, !.l2 = new, !.stride = on, !.adaptive = on]
  BY DEF Manager!Prefetching, new, m
<1>6. d \in [l1 : {m}, l2 : {new}, l3 : {{}}, stride : {on}, adaptive : {on}]
  <2>1. c \in [l1 : {c.l1}, l2 : {c.l2}, l3 : {{}}, stride : {c.stride}, adaptive : {c.adaptive}]
    BY <1>1
  <2> HIDE DEF d
  <2> QED  BY <1>5, <2>1
<1> HIDE DEF d
<1>7. d = [l1 |-> m, l2 |-> new, l3 |-> {}, stride |-> on, adaptive |-> on]
  <2>1. d = [l1 |-> d.l1, l2 |-> d.l2, l3 |-> d.l3, stride |-> d.stride, adaptive |-> d.adaptive]
    BY <1>6
  <2>2. d.l1 = m /\ d.l2 = new /\ d.l3 = {} /\ d.stride = on /\ d.adaptive = on
    BY <1>6
  <2> QED  BY <2>1, <2>2
<1>8. Made(d)
  BY <1>2, <1>3, <1>4, <1>7, MadeOf
<1> QED  BY <1>8 DEF d

\* compareConfigs finds every difference between two of them, and no other.
LEMMA DifferencesAreFound ==
  ASSUME NEW c, Made(c), NEW d, Made(d)
  PROVE  d # c <=> Manager!DiffersIn(c, d) # {}
<1>1. c = d => Manager!DiffersIn(c, d) = {}
  BY DEF Made, Manager!DiffersIn
<1>2. ASSUME Manager!DiffersIn(c, d) = {} PROVE c = d
  <2>1. \A f \in {"size", "associativity", "blockSize", "prefetch", "distance"} : c.l1[f] = d.l1[f]
    BY <1>2 DEF Manager!DiffersIn
  <2>2. c.l1 = d.l1
    BY <2>1 DEF Made, Plain
  <2>3. (c.l2 = {}) <=> (d.l2 = {})
    BY <1>2 DEF Manager!DiffersIn
  <2>4. \A l \in c.l2, k \in d.l2 : l = k
    <3> SUFFICES ASSUME NEW l \in c.l2, NEW k \in d.l2 PROVE l = k
      OBVIOUS
    <3>1. \A f \in {"size", "associativity"} : l[f] = k[f]
      BY <1>2 DEF Manager!DiffersIn
    <3>2. Plain(l) /\ Plain(k) /\ InStep(l, c.l1) /\ InStep(k, c.l1)
      BY <2>2 DEF Made
    <3>3. /\ l.size = k.size /\ l.associativity = k.associativity /\ l.blockSize = k.blockSize
          /\ l.prefetch = k.prefetch /\ l.distance = k.distance
      BY <3>1, <3>2 DEF InStep
    <3> QED  BY <3>2, <3>3 DEF Plain
  <2>5. c.l2 = d.l2
    BY <2>3, <2>4 DEF Made
  <2>6. c.stride = d.stride /\ c.adaptive = d.adaptive
    BY <1>2 DEF Manager!DiffersIn
  <2> QED  BY <2>2, <2>5, <2>6 DEF Made, Whole
<1> QED  BY <1>1, <1>2

\* The reading of a file.  A state of the reading in which no strategy was set, and the
\* whole of what is read from a state on.
St(section, l1, l2) ==
  [section |-> section,
   config |-> [l1 |-> l1, l2 |-> l2, l3 |-> {}, stride |-> FALSE, adaptive |-> FALSE]]
LineRead(fmt, s, line) == IF fmt = "JSON" THEN Manager!JsonLine(s, line) ELSE Manager!IniLine(s, line)
Reading(f, fmt, lines, s, n) ==
  f = [i \in 0 .. n |-> IF i = 0 THEN s ELSE LineRead(fmt, f[i - 1], lines[i])]

LEMMA ReadingExists ==
  ASSUME NEW fmt, NEW lines, NEW s, NEW n \in Nat
  PROVE  \E f : Reading(f, fmt, lines, s, n)
<1> DEFINE Bad == {m \in Nat : ~ \E f : Reading(f, fmt, lines, s, m)}
<1> SUFFICES ASSUME Bad # {} PROVE FALSE
  OBVIOUS
<1>1. PICK m \in Bad : \A k \in Bad : m <= k
  BY LeastNumber
<1>2. CASE m = 0
  <2> DEFINE f == [i \in 0 .. 0 |-> s]
  <2>1. Reading(f, fmt, lines, s, 0)
    BY DEF Reading
  <2> QED  BY <1>1, <1>2, <2>1
<1>3. CASE m # 0
  <2>1. m - 1 \in Nat /\ m - 1 \notin Bad
    BY <1>1, <1>3
  <2>2. PICK g : Reading(g, fmt, lines, s, m - 1)
    BY <2>1
  <2> DEFINE f == [i \in 0 .. m |-> IF i = m THEN LineRead(fmt, g[m - 1], lines[m]) ELSE g[i]]
  <2>3. \A i \in 0 .. m - 1 : f[i] = g[i] /\ g[i] = IF i = 0 THEN s ELSE LineRead(fmt, g[i - 1], lines[i])
    BY <2>2, <1>3 DEF Reading
  <2>4. \A i \in 0 .. m : f[i] = IF i = 0 THEN s ELSE LineRead(fmt, f[i - 1], lines[i])
    <3> TAKE i \in 0 .. m
    <3>1. CASE i = m
      <4>1. m - 1 \in 0 .. m - 1 /\ f[m] = LineRead(fmt, g[m - 1], lines[m])
        BY <1>1, <1>3
      <4> HIDE DEF f
      <4>2. f[m - 1] = g[m - 1]
        BY <4>1, <2>3
      <4> QED  BY <3>1, <4>1, <4>2, <1>3
    <3>2. CASE i # m /\ i # 0
      <4>1. i \in 0 .. m - 1 /\ i - 1 \in 0 .. m - 1
        BY <3>2
      <4> HIDE DEF f
      <4> QED  BY <3>2, <4>1, <2>3
    <3>3. CASE i # m /\ i = 0
      <4>1. i \in 0 .. m - 1
        BY <3>3, <1>1
      <4> HIDE DEF f
      <4> QED  BY <3>3, <4>1, <2>3
    <3> QED  BY <3>1, <3>2, <3>3
  <2>5. f = [i \in 0 .. m |-> f[i]]
    OBVIOUS
  <2> HIDE DEF f
  <2>6. Reading(f, fmt, lines, s, m)
    BY <2>4, <2>5 DEF Reading
  <2> QED  BY <2>6, <1>1
<1> QED  BY <1>2, <1>3

\* States of which each follows from the one before by the next line.
ReadsBy(f, fmt, lines, s, n) ==
  f[0] = s /\ \A i \in 1 .. n : f[i] = LineRead(fmt, f[i - 1], lines[i])

\* What is read is what the last of a sequence of states is; and there is only one.
LEMMA ReadLinesIs ==
  ASSUME NEW fmt, NEW lines, NEW n \in Nat, Len(lines) = n, NEW s
  PROVE  \E f : ReadsBy(f, fmt, lines, s, n) /\ Manager!ReadLines(fmt, lines, s) = f[n]
<1> DEFINE f == CHOOSE g : Reading(g, fmt, lines, s, n)
<1>1. Manager!ReadLines(fmt, lines, s) = f[n]
  BY DEF Manager!ReadLines, Reading, LineRead
<1>2. Reading(f, fmt, lines, s, n)
  BY ReadingExists
<1> HIDE DEF f
<1>3. ReadsBy(f, fmt, lines, s, n)
  BY <1>2 DEF Reading, ReadsBy
<1> QED  BY <1>1, <1>3

LEMMA ReadAlong ==
  ASSUME NEW fmt, NEW lines, NEW n \in Nat, Len(lines) = n, NEW s, NEW f,
         ReadsBy(f, fmt, lines, s, n)
  PROVE  Manager!ReadLines(fmt, lines, s) = f[n]
<1>1. PICK g : ReadsBy(g, fmt, lines, s, n) /\ Manager!ReadLines(fmt, lines, s) = g[n]
  BY ReadLinesIs
<1> DEFINE Bad == {m \in Nat : m <= n /\ f[m] # g[m]}
<1>3. Bad = {}
  <2> SUFFICES ASSUME Bad # {} PROVE FALSE
    OBVIOUS
  <2>1. PICK m \in Bad : \A k \in Bad : m <= k
    BY LeastNumber
  <2>2. m # 0 /\ m \in 1 .. n
    BY <2>1, <1>1 DEF ReadsBy
  <2>3. m - 1 \in Nat /\ m - 1 <= n /\ m - 1 \notin Bad
    BY <2>1, <2>2
  <2>4. f[m - 1] = g[m - 1]
    BY <2>3
  <2>5. f[m] = g[m]
    BY <2>2, <2>4, <1>1 DEF ReadsBy
  <2> QED  BY <2>1, <2>5
<1>4. f[n] = g[n]
  BY <1>3
<1> QED  BY <1>1, <1>4

LEMMA ReadThen ==
  ASSUME NEW fmt, NEW S, NEW a \in Seq(S), NEW b \in Seq(S), NEW s
  PROVE  Manager!ReadLines(fmt, a \o b, s) =
           Manager!ReadLines(fmt, b, Manager!ReadLines(fmt, a, s))
<1> DEFINE n == Len(a)
           m == Len(b)
           c == a \o b
<1>1. n \in Nat /\ m \in Nat /\ Len(c) = n + m
  BY LenProperties, ConcatProperties
<1>2. (\A i \in 1 .. n : c[i] = a[i]) /\ (\A i \in 1 .. m : c[n + i] = b[i])
  BY ConcatProperties
<1> HIDE DEF c
<1> HIDE DEF n, m
<1>3. PICK f : ReadsBy(f, fmt, c, s, n + m) /\ Manager!ReadLines(fmt, c, s) = f[n + m]
  <2>1. n + m \in Nat
    BY <1>1
  <2> QED  BY <1>1, <2>1, ReadLinesIs
<1>4. Manager!ReadLines(fmt, a, s) = f[n]
  <2>1. \A i \in 1 .. n : f[i] = LineRead(fmt, f[i - 1], a[i])
    <3> TAKE i \in 1 .. n
    <3>1. i \in 1 .. n + m
      BY <1>1
    <3> QED  BY <3>1, <1>2, <1>3 DEF ReadsBy
  <2>2. ReadsBy(f, fmt, a, s, n) /\ Len(a) = n
    BY <2>1, <1>3 DEF ReadsBy, n
  <2> QED  BY <2>2, <1>1, ReadAlong
<1> DEFINE g == [i \in 0 .. m |-> f[n + i]]
<1>5. Manager!ReadLines(fmt, b, f[n]) = f[n + m]
  <2>1. g[0] = f[n] /\ g[m] = f[n + m]
    BY <1>1
  <2>2. \A i \in 1 .. m : g[i] = LineRead(fmt, g[i - 1], b[i])
    <3> TAKE i \in 1 .. m
    <3>1. i \in 0 .. m /\ i - 1 \in 0 .. m /\ n + i \in 1 .. n + m /\ (n + i) - 1 = n + (i - 1)
      BY <1>1
    <3>2. g[i] = f[n + i] /\ g[i - 1] = f[n + (i - 1)]
      BY <3>1
    <3> HIDE DEF g
    <3>3. f[n + i] = LineRead(fmt, f[(n + i) - 1], c[n + i])
      BY <3>1, <1>3 DEF ReadsBy
    <3> QED  BY <3>1, <3>2, <3>3, <1>2
  <2> HIDE DEF g
  <2>3. ReadsBy(g, fmt, b, f[n], m) /\ Len(b) = m
    BY <2>1, <2>2 DEF ReadsBy, m
  <2>4. Manager!ReadLines(fmt, b, f[n]) = g[m]
    BY <2>3, <1>1, ReadAlong
  <2> QED  BY <2>1, <2>4
<1> QED  BY <1>3, <1>4, <1>5 DEF c

\* No line, one, and three.
LEMMA ReadNone == ASSUME NEW fmt, NEW s PROVE Manager!ReadLines(fmt, <<>>, s) = s
<1> DEFINE lines == <<>>
<1>1. Len(lines) = 0 /\ 0 \in Nat
  OBVIOUS
<1> HIDE DEF lines
<1>2. PICK f : ReadsBy(f, fmt, lines, s, 0) /\ Manager!ReadLines(fmt, lines, s) = f[0]
  BY <1>1, ReadLinesIs
<1> QED  BY <1>2 DEF lines, ReadsBy

LEMMA ReadOne ==
  ASSUME NEW fmt, NEW s, NEW a
  PROVE  Manager!ReadLines(fmt, <<a>>, s) = LineRead(fmt, s, a)
<1> DEFINE lines == <<a>>
<1>1. Len(lines) = 1 /\ 1 \in Nat /\ lines[1] = a
  OBVIOUS
<1> HIDE DEF lines
<1>2. PICK f : ReadsBy(f, fmt, lines, s, 1) /\ Manager!ReadLines(fmt, lines, s) = f[1]
  BY <1>1, ReadLinesIs
<1> QED  BY <1>1, <1>2 DEF lines, ReadsBy

LEMMA ReadThree ==
  ASSUME NEW fmt, NEW s, NEW a, NEW b, NEW c
  PROVE  Manager!ReadLines(fmt, <<a, b, c>>, s) =
           LineRead(fmt, LineRead(fmt, LineRead(fmt, s, a), b), c)
<1> DEFINE lines == <<a, b, c>>
           n == 3
<1>1. Len(lines) = n /\ n \in Nat /\ lines[1] = a /\ lines[2] = b /\ lines[3] = c
  OBVIOUS
<1> HIDE DEF lines, n
<1>2. Len(lines) = n /\ n \in Nat
  BY <1>1
<1>3. PICK f : ReadsBy(f, fmt, lines, s, n) /\ Manager!ReadLines(fmt, lines, s) = f[n]
  BY <1>2, ReadLinesIs
<1>4. f[0] = s /\ \A i \in 1 .. 3 : f[i] = LineRead(fmt, f[i - 1], lines[i])
  BY <1>3 DEF ReadsBy, n
<1>5. f[1] = LineRead(fmt, s, a)
  BY <1>1, <1>4
<1>6. f[2] = LineRead(fmt, f[1], b)
  BY <1>1, <1>4
<1>7. f[3] = LineRead(fmt, f[2], c)
  BY <1>1, <1>4
<1> QED  BY <1>3, <1>5, <1>6, <1>7 DEF lines, n

\* What the keys say of a level, and the lines of the reading.
LEMMA JsonSets ==
  ASSUME NEW s, NEW a, NEW b, NEW p, NEW d, NEW r, NEW w, NEW v
  PROVE  /\ Manager!JsonSet(Lv(s, a, b, p, d, r, w), "size", v) = Lv(v, a, b, p, d, r, w)
         /\ Manager!JsonSet(Lv(s, a, b, p, d, r, w), "associativity", v) = Lv(s, v, b, p, d, r, w)
         /\ Manager!JsonSet(Lv(s, a, b, p, d, r, w), "blockSize", v) = Lv(s, a, v, p, d, r, w)
         /\ v \in Manager!Replacements =>
              Manager!JsonSet(Lv(s, a, b, p, d, r, w), "replacementPolicy", v) = Lv(s, a, b, p, d, v, w)
         /\ v \in Manager!WritePolicies =>
              Manager!JsonSet(Lv(s, a, b, p, d, r, w), "writePolicy", v) = Lv(s, a, b, p, d, r, v)
BY DEF Manager!JsonSet, Lv

LEMMA IniSets ==
  ASSUME NEW s, NEW a, NEW b, NEW p, NEW d, NEW r, NEW w, NEW v
  PROVE  /\ Manager!IniSet(Lv(s, a, b, p, d, r, w), "size", v) = Lv(v, a, b, p, d, r, w)
         /\ Manager!IniSet(Lv(s, a, b, p, d, r, w), "associativity", v) = Lv(s, v, b, p, d, r, w)
         /\ Manager!IniSet(Lv(s, a, b, p, d, r, w), "block_size", v) = Lv(s, a, b, p, d, r, w)
         /\ Manager!IniSet(Lv(s, a, b, p, d, r, w), "prefetch_enabled", v) = Lv(s, a, b, v, d, r, w)
         /\ Manager!IniSet(Lv(s, a, b, p, d, r, w), "prefetch_distance", v) = Lv(s, a, b, p, v, r, w)
         /\ v \in Manager!Replacements =>
              Manager!IniSet(Lv(s, a, b, p, d, r, w), "replacement_policy", v) = Lv(s, a, b, p, d, v, w)
BY DEF Manager!IniSet, Lv

JsonAll(b, key, v) == {Manager!JsonSet(l, key, v) : l \in Manager!Started(b)}
IniAll(b, key, v) == {Manager!IniSet(l, key, v) : l \in Manager!Started(b)}
IniFirst(l, key, v) == IF key = "block_size" THEN [l EXCEPT !.blockSize = v] ELSE Manager!IniSet(l, key, v)

LEMMA LineFields ==
  ASSUME NEW k, NEW n, NEW v
  PROVE  /\ Manager!Line(k, n, v).kind = k /\ Manager!Line(k, n, v).name = n
         /\ Manager!Line(k, n, v).value = v
BY DEF Manager!Line

WithSection(s, x) == [s EXCEPT !.section = x]
WithL1(s, x) == [s EXCEPT !.config = [s.config EXCEPT !.l1 = x]]
WithL2(s, x) == [s EXCEPT !.config = [s.config EXCEPT !.l2 = x]]

LEMMA StIs ==
  ASSUME NEW q, NEW a, NEW b, NEW x
  PROVE  /\ St(q, a, b).section = q /\ St(q, a, b).config.l1 = a /\ St(q, a, b).config.l2 = b
         /\ WithSection(St(q, a, b), x) = St(x, a, b)
         /\ WithL1(St(q, a, b), x) = St(q, x, b)
         /\ WithL2(St(q, a, b), x) = St(q, a, x)
<1> DEFINE h(m, n) == [l1 |-> m, l2 |-> n, l3 |-> {}, stride |-> FALSE, adaptive |-> FALSE]
<1>1. \A m, n : h(m, n).l1 = m /\ h(m, n).l2 = n
  OBVIOUS
<1> DEFINE y == h(a, b)
           f == FALSE
<1>9. y = [l1 |-> a, l2 |-> b, l3 |-> {}, stride |-> f, adaptive |-> f]
  OBVIOUS
<1> HIDE DEF y, f
<1>2. [y EXCEPT !.l1 = x] = h(x, b)
  <2>1. [y EXCEPT !.l1 = x] = [l1 |-> x, l2 |-> b, l3 |-> {}, stride |-> f, adaptive |-> f]
    BY <1>9
  <2> QED  BY <2>1 DEF f
<1>3. [y EXCEPT !.l2 = x] = h(a, x)
  <2>1. [y EXCEPT !.l2 = x] = [l1 |-> a, l2 |-> x, l3 |-> {}, stride |-> f, adaptive |-> f]
    BY <1>9
  <2> QED  BY <2>1 DEF f
<1>4. \A r, m, n : St(r, m, n) = [section |-> r, config |-> h(m, n)]
  BY DEF St
<1> HIDE DEF h
<1>5. St(q, a, b).config = h(a, b) /\ St(q, a, b).section = q
  BY <1>4
<1>6. [St(q, a, b) EXCEPT !.section = x] = St(x, a, b)
  BY <1>4
<1>7. [St(q, a, b) EXCEPT !.config = h(x, b)] = St(q, x, b)
  BY <1>4
<1>8. [St(q, a, b) EXCEPT !.config = h(a, x)] = St(q, a, x)
  BY <1>4
<1> QED  BY <1>1, <1>2, <1>3, <1>5, <1>6, <1>7, <1>8
         DEF y, WithSection, WithL1, WithL2

\* What the kinds of lines do to any state.
LEMMA JsonBrackets ==
  ASSUME NEW s, NEW n
  PROVE  /\ Manager!JsonLine(s, Manager!Open(n)) = WithSection(s, n)
         /\ Manager!JsonLine(s, Manager!Close) = WithSection(s, "none")
<1> DEFINE open == Manager!Open(n)
           close == Manager!Close
<1>1. open.kind = "open" /\ open.name = n /\ close.kind = "close"
  BY LineFields DEF Manager!Open, Manager!Close
<1> HIDE DEF open, close
<1>2. Manager!JsonLine(s, open) = WithSection(s, n)
  BY <1>1, Zenon DEF Manager!JsonLine, WithSection
<1>3. Manager!JsonLine(s, close) = WithSection(s, "none")
  BY <1>1 DEF Manager!JsonLine, WithSection
<1> QED  BY <1>2, <1>3 DEF open, close

LEMMA JsonKeys ==
  ASSUME NEW s, NEW n, NEW v
  PROVE  /\ s.section = "l1" \/ s.section = "none" =>
              Manager!JsonLine(s, Manager!Key(n, v)) =
                WithL1(s, Manager!JsonSet(s.config.l1, Manager!Normalized(n), v))
         /\ s.section = "l2" =>
              Manager!JsonLine(s, Manager!Key(n, v)) =
                WithL2(s, JsonAll(s.config.l2, Manager!Normalized(n), v))
         /\ s.section = "write_policy" => Manager!JsonLine(s, Manager!Key(n, v)) = s
<1> DEFINE line == Manager!Key(n, v)
           q == s.section
<1>1. line.kind = "key" /\ line.name = n /\ line.value = v
  BY LineFields DEF Manager!Key
<1> HIDE DEF line, q
<1>4. ASSUME q = "l1" \/ q = "none"
      PROVE  Manager!JsonLine(s, line) = WithL1(s, Manager!JsonSet(s.config.l1, Manager!Normalized(n), v))
  BY <1>1, <1>4 DEF Manager!JsonLine, WithL1, Manager!ToL1, q
<1>5. ASSUME q = "l2"
      PROVE  Manager!JsonLine(s, line) = WithL2(s, JsonAll(s.config.l2, Manager!Normalized(n), v))
  BY <1>1, <1>5 DEF Manager!JsonLine, WithL2, JsonAll, Manager!ToL2, q
<1>6. ASSUME q = "write_policy" PROVE Manager!JsonLine(s, line) = s
  BY <1>1, <1>6 DEF Manager!JsonLine, q
<1> QED  BY <1>4, <1>5, <1>6 DEF line, q

LEMMA IniLineIs ==
  ASSUME NEW s, NEW n, NEW v
  PROVE  /\ Manager!IniLine(s, Manager!Line("open", n, v)) = WithSection(s, n)
         /\ s.section = "L1Cache" =>
              Manager!IniLine(s, Manager!Line("key", n, v)) = WithL1(s, IniFirst(s.config.l1, n, v))
         /\ s.section = "L2Cache" =>
              Manager!IniLine(s, Manager!Line("key", n, v)) =
                WithL2(s, IniAll(s.config.l2, n, v))
<1> DEFINE line(k) == Manager!Line(k, n, v)
           q == s.section
<1>1. \A k : line(k).kind = k /\ line(k).name = n /\ line(k).value = v
  BY LineFields
<1> HIDE DEF line, q
<1>2. Manager!IniLine(s, line("open")) = WithSection(s, n)
  BY <1>1, Zenon DEF Manager!IniLine, WithSection
<1>3. ASSUME q = "L1Cache"
      PROVE  Manager!IniLine(s, line("key")) = WithL1(s, IniFirst(s.config.l1, n, v))
  BY <1>1, <1>3 DEF Manager!IniLine, WithL1, Manager!IniToL1, IniFirst, q
<1>4. ASSUME q = "L2Cache"
      PROVE  Manager!IniLine(s, line("key")) =
               WithL2(s, IniAll(s.config.l2, n, v))
  BY <1>1, <1>4 DEF Manager!IniLine, WithL2, IniAll, Manager!IniToL2, q
<1> QED  BY <1>2, <1>3, <1>4 DEF line, q

LEMMA JsonReads ==
  ASSUME NEW q, NEW a, NEW b, NEW n, NEW v
  PROVE  /\ LineRead("JSON", St(q, a, b), Manager!Open(n)) = St(n, a, b)
         /\ LineRead("JSON", St(q, a, b), Manager!Close) = St("none", a, b)
         /\ q = "l1" \/ q = "none" => LineRead("JSON", St(q, a, b), Manager!Key(n, v)) =
                                  St(q, Manager!JsonSet(a, Manager!Normalized(n), v), b)
         /\ q = "l2" => LineRead("JSON", St(q, a, b), Manager!Key(n, v)) =
              St(q, a, JsonAll(b, Manager!Normalized(n), v))
         /\ q = "write_policy" => LineRead("JSON", St(q, a, b), Manager!Key(n, v)) = St(q, a, b)
<1> DEFINE s == St(q, a, b)
<1>1. s.section = q /\ s.config.l1 = a /\ s.config.l2 = b
  BY StIs
<1>2. /\ \A x : WithSection(s, x) = St(x, a, b)
      /\ \A x : WithL1(s, x) = St(q, x, b)
      /\ \A x : WithL2(s, x) = St(q, a, x)
  BY StIs
<1>3. \A line : LineRead("JSON", s, line) = Manager!JsonLine(s, line)
  BY DEF LineRead
<1> HIDE DEF s
<1>4. LineRead("JSON", s, Manager!Open(n)) = St(n, a, b)
  BY <1>2, <1>3, JsonBrackets
<1>5. LineRead("JSON", s, Manager!Close) = St("none", a, b)
  BY <1>2, <1>3, JsonBrackets
<1>6. ASSUME q = "l1" \/ q = "none"
      PROVE  LineRead("JSON", s, Manager!Key(n, v)) = St(q, Manager!JsonSet(a, Manager!Normalized(n), v), b)
  BY <1>1, <1>2, <1>3, <1>6, JsonKeys
<1>7. ASSUME q = "l2"
      PROVE  LineRead("JSON", s, Manager!Key(n, v)) = St(q, a, JsonAll(b, Manager!Normalized(n), v))
  BY <1>1, <1>2, <1>3, <1>7, JsonKeys
<1>8. ASSUME q = "write_policy" PROVE LineRead("JSON", s, Manager!Key(n, v)) = s
  BY <1>1, <1>3, <1>8, JsonKeys
<1> QED  BY <1>4, <1>5, <1>6, <1>7, <1>8 DEF s

LEMMA IniOpens ==
  ASSUME NEW q, NEW a, NEW b, NEW n
  PROVE  LineRead("INI", St(q, a, b), Manager!Open(n)) = St(n, a, b)
<1> DEFINE s == St(q, a, b)
           v == "none"
<1>1. WithSection(s, n) = St(n, a, b)
  BY StIs
<1>2. LineRead("INI", s, Manager!Open(n)) = Manager!IniLine(s, Manager!Line("open", n, v))
  BY DEF LineRead, Manager!Open
<1> HIDE DEF s, v
<1>3. Manager!IniLine(s, Manager!Line("open", n, v)) = WithSection(s, n)
  BY IniLineIs
<1> QED  BY <1>1, <1>2, <1>3 DEF s

LEMMA IniReadsFirst ==
  ASSUME NEW a, NEW b, NEW n, NEW v
  PROVE  LineRead("INI", St("L1Cache", a, b), Manager!Key(n, v)) = St("L1Cache", IniFirst(a, n, v), b)
<1> DEFINE s == St("L1Cache", a, b)
           y == IniFirst(a, n, v)
<1>1. s.section = "L1Cache" /\ s.config.l1 = a
  BY StIs
<1>2. WithL1(s, y) = St("L1Cache", y, b)
  BY StIs
<1>3. LineRead("INI", s, Manager!Key(n, v)) = Manager!IniLine(s, Manager!Line("key", n, v))
  BY DEF LineRead, Manager!Key
<1> HIDE DEF s
<1>4. Manager!IniLine(s, Manager!Line("key", n, v)) = WithL1(s, IniFirst(s.config.l1, n, v))
  BY <1>1, IniLineIs
<1> QED  BY <1>1, <1>2, <1>3, <1>4 DEF s

LEMMA IniReadsSecond ==
  ASSUME NEW a, NEW b, NEW n, NEW v
  PROVE  LineRead("INI", St("L2Cache", a, b), Manager!Key(n, v)) = St("L2Cache", a, IniAll(b, n, v))
<1> DEFINE s == St("L2Cache", a, b)
           y == IniAll(b, n, v)
<1>1. s.section = "L2Cache" /\ s.config.l2 = b
  BY StIs
<1>2. WithL2(s, y) = St("L2Cache", a, y)
  BY StIs
<1>3. LineRead("INI", s, Manager!Key(n, v)) = Manager!IniLine(s, Manager!Line("key", n, v))
  BY DEF LineRead, Manager!Key
<1> HIDE DEF s
<1>4. Manager!IniLine(s, Manager!Line("key", n, v)) = WithL2(s, IniAll(s.config.l2, n, v))
  BY <1>1, IniLineIs
<1> QED  BY <1>1, <1>2, <1>3, <1>4 DEF s

\* The values a section holds, and the lines that hold such values.
Holds(V, l) ==
  {l.size, l.associativity, l.blockSize, l.prefetch, l.distance, l.replacement, l.write} \subseteq V
KeyNames ==
  {"size", "associativity", "block_size", "blockSize", "replacement_policy", "replacementPolicy",
   "update", "write_policy", "writePolicy", "prefetch_enabled", "prefetch_distance"}
SectionNames == {"l1", "l2", "write_policy", "L1Cache", "L2Cache"}
LinesOf(V) ==
  {Manager!Key(n, v) : n \in KeyNames, v \in V}
    \cup {Manager!Open(n) : n \in SectionNames} \cup {Manager!Close}

LEMMA LinesHave ==
  ASSUME NEW V
  PROVE  /\ \A n \in SectionNames : Manager!Open(n) \in LinesOf(V)
         /\ Manager!Close \in LinesOf(V)
         /\ \A n \in KeyNames, v \in V : Manager!Key(n, v) \in LinesOf(V)
<1>1. \A n \in KeyNames, v \in V : Manager!Key(n, v) \in LinesOf(V)
  BY DEF LinesOf
<1>2. \A n \in SectionNames : Manager!Open(n) \in LinesOf(V)
  BY DEF LinesOf
<1>3. Manager!Close \in LinesOf(V)
  BY DEF LinesOf
<1> QED  BY <1>1, <1>2, <1>3

LEMMA FewLines ==
  ASSUME NEW S, NEW x \in S, NEW y \in S, NEW z \in S
  PROVE  <<>> \in Seq(S) /\ <<x>> \in Seq(S) /\ <<x, y, z>> \in Seq(S)
OBVIOUS

\* A section, piece by piece.
JsonRest(l, snake, nested) ==
  IF nested THEN <<Manager!Open("write_policy"), Manager!Key("update", l.write), Manager!Close>>
  ELSE <<Manager!Key(IF snake THEN "write_policy" ELSE "writePolicy", l.write)>>
JsonBlock(l, snake) ==
  IF l.blockSize = 0 THEN <<>>
  ELSE <<Manager!Key(IF snake THEN "block_size" ELSE "blockSize", l.blockSize)>>
JsonReplacement(l, snake) ==
  <<Manager!Key(IF snake THEN "replacement_policy" ELSE "replacementPolicy", l.replacement)>>
JsonFirst(name, l) ==
  <<Manager!Open(name), Manager!Key("size", l.size), Manager!Key("associativity", l.associativity)>>

JsonThrough(name, l, snake, nested, s) ==
  LineRead("JSON",
    Manager!ReadLines("JSON", JsonRest(l, snake, nested),
      Manager!ReadLines("JSON", JsonReplacement(l, snake),
        Manager!ReadLines("JSON", JsonBlock(l, snake),
          Manager!ReadLines("JSON", JsonFirst(name, l), s)))), Manager!Close)

LEMMA JsonPieces ==
  ASSUME NEW l, NEW V, Holds(V, l), NEW name \in SectionNames, NEW snake, NEW nested, NEW s
  PROVE  /\ Manager!JsonSection(name, l, snake, nested) \in Seq(LinesOf(V))
         /\ Manager!ReadLines("JSON", Manager!JsonSection(name, l, snake, nested), s) =
              JsonThrough(name, l, snake, nested, s)
<1> DEFINE S == LinesOf(V)
           R(lines, t) == Manager!ReadLines("JSON", lines, t)
           p1 == JsonFirst(name, l)
           p2 == JsonBlock(l, snake)
           p3 == JsonReplacement(l, snake)
           p4 == JsonRest(l, snake, nested)
           p5 == <<Manager!Close>>
<1>1. /\ l.size \in V /\ l.associativity \in V /\ l.blockSize \in V
      /\ l.replacement \in V /\ l.write \in V
  BY DEF Holds
<1>2. /\ Manager!Open(name) \in S /\ Manager!Open("write_policy") \in S /\ Manager!Close \in S
      /\ \A n \in KeyNames, v \in V : Manager!Key(n, v) \in S
  BY LinesHave DEF SectionNames
<1>3. p1 \in Seq(S) /\ p2 \in Seq(S) /\ p3 \in Seq(S) /\ p4 \in Seq(S) /\ p5 \in Seq(S)
  <2> HIDE DEF S
  <2>1. p1 \in Seq(S)
    <3>1. Manager!Key("size", l.size) \in S /\ Manager!Key("associativity", l.associativity) \in S
      BY <1>1, <1>2 DEF KeyNames
    <3> QED  BY <3>1, <1>2, FewLines DEF JsonFirst
  <2>2. p2 \in Seq(S)
    <3>1. Manager!Key("block_size", l.blockSize) \in S /\ Manager!Key("blockSize", l.blockSize) \in S
      BY <1>1, <1>2 DEF KeyNames
    <3>2. <<Manager!Key("block_size", l.blockSize)>> \in Seq(S)
      BY <3>1, FewLines
    <3>3. <<Manager!Key("blockSize", l.blockSize)>> \in Seq(S)
      BY <3>1, FewLines
    <3>4. <<>> \in Seq(S)
      OBVIOUS
    <3> QED  BY <3>2, <3>3, <3>4 DEF JsonBlock
  <2>3. p3 \in Seq(S)
    <3>1. /\ Manager!Key("replacement_policy", l.replacement) \in S
          /\ Manager!Key("replacementPolicy", l.replacement) \in S
      BY <1>1, <1>2 DEF KeyNames
    <3>2. <<Manager!Key("replacement_policy", l.replacement)>> \in Seq(S)
      BY <3>1, FewLines
    <3>3. <<Manager!Key("replacementPolicy", l.replacement)>> \in Seq(S)
      BY <3>1, FewLines
    <3> QED  BY <3>2, <3>3 DEF JsonReplacement
  <2>4. p4 \in Seq(S)
    <3>1. /\ Manager!Open("write_policy") \in S /\ Manager!Key("update", l.write) \in S
          /\ Manager!Close \in S
          /\ Manager!Key("write_policy", l.write) \in S /\ Manager!Key("writePolicy", l.write) \in S
      BY <1>1, <1>2 DEF KeyNames
    <3>2. <<Manager!Open("write_policy"), Manager!Key("update", l.write), Manager!Close>> \in Seq(S)
      BY <3>1, FewLines
    <3>3. <<Manager!Key("write_policy", l.write)>> \in Seq(S)
      BY <3>1, FewLines
    <3>4. <<Manager!Key("writePolicy", l.write)>> \in Seq(S)
      BY <3>1, FewLines
    <3> QED  BY <3>2, <3>3, <3>4 DEF JsonRest
  <2>5. p5 \in Seq(S)
    BY <1>1, <1>2, FewLines
  <2> QED  BY <2>1, <2>2, <2>3, <2>4, <2>5
<1>4. Manager!JsonSection(name, l, snake, nested) = (((p1 \o p2) \o p3) \o p4) \o p5
  BY DEF Manager!JsonSection, JsonFirst, JsonBlock, JsonReplacement, JsonRest
<1>5. \A t : R(p5, t) = LineRead("JSON", t, Manager!Close)
  <2> TAKE t
  <2> QED  BY ReadOne
<1> DEFINE q2 == p1 \o p2
           q3 == q2 \o p3
           q4 == q3 \o p4
           q5 == q4 \o p5
<1> HIDE DEF p1, p2, p3, p4, p5, S
<1>6. q2 \in Seq(S) /\ R(q2, s) = R(p2, R(p1, s))
  BY <1>3, ConcatProperties, ReadThen
<1> HIDE DEF q2
<1>7. q3 \in Seq(S) /\ R(q3, s) = R(p3, R(q2, s))
  BY <1>3, <1>6, ConcatProperties, ReadThen
<1> HIDE DEF q3
<1>8. q4 \in Seq(S) /\ R(q4, s) = R(p4, R(q3, s))
  BY <1>3, <1>7, ConcatProperties, ReadThen
<1> HIDE DEF q4
<1>9. q5 \in Seq(S) /\ R(q5, s) = R(p5, R(q4, s))
  BY <1>3, <1>8, ConcatProperties, ReadThen
<1> QED  BY <1>4, <1>5, <1>6, <1>7, <1>8, <1>9 
         DEF p1, p2, p3, p4, S, q2, q3, q4, q5, JsonThrough

LEMMA JsonOpens ==
  ASSUME NEW q, NEW a, NEW b, NEW n
  PROVE  /\ LineRead("JSON", St(q, a, b), Manager!Open(n)) = St(n, a, b)
         /\ LineRead("JSON", St(q, a, b), Manager!Close) = St("none", a, b)
<1> DEFINE v == n
<1>1. /\ LineRead("JSON", St(q, a, b), Manager!Open(n)) = St(n, a, b)
      /\ LineRead("JSON", St(q, a, b), Manager!Close) = St("none", a, b)
      /\ q = "write_policy" => LineRead("JSON", St(q, a, b), Manager!Key(n, v)) = St(q, a, b)
  BY JsonReads
<1> QED  BY <1>1

\* The keys as the reader calls them.
LEMMA NormalNames ==
  /\ Manager!Normalized("size") = "size" /\ Manager!Normalized("associativity") = "associativity"
  /\ Manager!Normalized("block_size") = "blockSize" /\ Manager!Normalized("blockSize") = "blockSize"
  /\ Manager!Normalized("replacement_policy") = "replacementPolicy"
  /\ Manager!Normalized("replacementPolicy") = "replacementPolicy"
  /\ Manager!Normalized("write_policy") = "writePolicy"
  /\ Manager!Normalized("writePolicy") = "writePolicy"
BY DEF Manager!Normalized

\* Levels as files describe them.
Describes(l) == l.replacement \in Manager!Replacements /\ l.write \in Manager!WritePolicies
JsonFilled(l, b, p, d, w, nested) ==
  Lv(l.size, l.associativity, IF l.blockSize = 0 THEN b ELSE l.blockSize, p, d, l.replacement,
     IF nested THEN w ELSE l.write)

LEMMA JsonL1 ==
  ASSUME NEW s, NEW a, NEW b, NEW p, NEW d, NEW r, NEW w, NEW q, NEW x, NEW l, Describes(l),
         NEW snake, NEW nested
  PROVE  Manager!ReadLines("JSON", Manager!JsonSection("l1", l, snake, nested),
                           St(q, Lv(s, a, b, p, d, r, w), x)) =
           St("none", JsonFilled(l, b, p, d, w, nested), x)
<1> DEFINE R(lines, t) == Manager!ReadLines("JSON", lines, t)
           block == IF l.blockSize = 0 THEN b ELSE l.blockSize
           n == l.size
           m == l.associativity
           v == l.replacement
           u == l.write
           write == IF nested THEN w ELSE u
<1>1. R(JsonFirst("l1", l), St(q, Lv(s, a, b, p, d, r, w), x)) = St("l1", Lv(n, m, b, p, d, r, w), x)
  <2>1. LineRead("JSON", St(q, Lv(s, a, b, p, d, r, w), x), Manager!Open("l1")) =
          St("l1", Lv(s, a, b, p, d, r, w), x)
    BY JsonOpens
  <2>2. LineRead("JSON", St("l1", Lv(s, a, b, p, d, r, w), x), Manager!Key("size", n)) =
          St("l1", Lv(n, a, b, p, d, r, w), x)
    BY JsonReads, NormalNames, JsonSets
  <2>3. LineRead("JSON", St("l1", Lv(n, a, b, p, d, r, w), x), Manager!Key("associativity", m)) =
          St("l1", Lv(n, m, b, p, d, r, w), x)
    BY JsonReads, NormalNames, JsonSets
  <2> QED  BY <2>1, <2>2, <2>3, ReadThree DEF JsonFirst
<1>2. R(JsonBlock(l, snake), St("l1", Lv(n, m, b, p, d, r, w), x)) =
        St("l1", Lv(n, m, block, p, d, r, w), x)
  <2>1. CASE l.blockSize = 0
    BY <2>1, ReadNone DEF JsonBlock
  <2>2. CASE l.blockSize # 0
    <3>1. \A k \in {"block_size", "blockSize"} :
            LineRead("JSON", St("l1", Lv(n, m, b, p, d, r, w), x), Manager!Key(k, l.blockSize)) =
              St("l1", Lv(n, m, l.blockSize, p, d, r, w), x)
      BY JsonReads, NormalNames, JsonSets
    <3> QED  BY <2>2, <3>1, ReadOne DEF JsonBlock
  <2> QED  BY <2>1, <2>2
<1> HIDE DEF block
<1>3. R(JsonReplacement(l, snake), St("l1", Lv(n, m, block, p, d, r, w), x)) =
        St("l1", Lv(n, m, block, p, d, v, w), x)
  <2>1. \A k \in {"replacement_policy", "replacementPolicy"} :
          LineRead("JSON", St("l1", Lv(n, m, block, p, d, r, w), x), Manager!Key(k, v)) =
            St("l1", Lv(n, m, block, p, d, v, w), x)
    BY JsonReads, NormalNames, JsonSets DEF Describes
  <2> QED  BY <2>1, ReadOne DEF JsonReplacement
<1>4. \E z : R(JsonRest(l, snake, nested), St("l1", Lv(n, m, block, p, d, v, w), x)) =
               St(z, Lv(n, m, block, p, d, v, write), x)
  <2>1. CASE nested
    <3>1. LineRead("JSON", St("l1", Lv(n, m, block, p, d, v, w), x), Manager!Open("write_policy")) =
            St("write_policy", Lv(n, m, block, p, d, v, w), x)
      BY JsonOpens
    <3>2. LineRead("JSON", St("write_policy", Lv(n, m, block, p, d, v, w), x), Manager!Key("update", u)) =
            St("write_policy", Lv(n, m, block, p, d, v, w), x)
      BY JsonReads
    <3>3. LineRead("JSON", St("write_policy", Lv(n, m, block, p, d, v, w), x), Manager!Close) =
            St("none", Lv(n, m, block, p, d, v, w), x)
      BY JsonReads
    <3> QED  BY <2>1, <3>1, <3>2, <3>3, ReadThree DEF JsonRest
  <2>2. CASE ~nested
    <3>1. \A k \in {"write_policy", "writePolicy"} :
            LineRead("JSON", St("l1", Lv(n, m, block, p, d, v, w), x), Manager!Key(k, u)) =
              St("l1", Lv(n, m, block, p, d, v, u), x)
      BY JsonReads, NormalNames, JsonSets DEF Describes
    <3> QED  BY <2>2, <3>1, ReadOne DEF JsonRest
  <2> QED  BY <2>1, <2>2
<1> HIDE DEF n, m, v, u, write
<1>5. R(Manager!JsonSection("l1", l, snake, nested), St(q, Lv(s, a, b, p, d, r, w), x)) =
        JsonThrough("l1", l, snake, nested, St(q, Lv(s, a, b, p, d, r, w), x))
  <2> DEFINE V == {l.size, l.associativity, l.blockSize, l.prefetch, l.distance, l.replacement, l.write}
             t == St(q, Lv(s, a, b, p, d, r, w), x)
  <2>1. Holds(V, l) /\ "l1" \in SectionNames
    BY DEF SectionNames, Holds
  <2> HIDE DEF t, V
  <2>2. /\ Manager!JsonSection("l1", l, snake, nested) \in Seq(LinesOf(V))
        /\ R(Manager!JsonSection("l1", l, snake, nested), t) = JsonThrough("l1", l, snake, nested, t)
    BY <2>1, JsonPieces
  <2> QED  BY <2>2 DEF t
<1>6. \A z : LineRead("JSON", St(z, Lv(n, m, block, p, d, v, write), x), Manager!Close) =
               St("none", Lv(n, m, block, p, d, v, write), x)
  BY JsonReads
<1> QED  BY <1>1, <1>2, <1>3, <1>4, <1>5, <1>6
         DEF JsonThrough, JsonFilled, n, m, v, u, write, block

\* The same of the second level, which is there from its first key on.
One(x) == {x}
First2 == Lv(0, 0, 0, FALSE, 0, "LRU", "WriteBack")

LEMMA JsonNext ==
  ASSUME NEW a, NEW n, NEW v, NEW x
  PROVE  LineRead("JSON", St("l2", a, One(x)), Manager!Key(n, v)) =
           St("l2", a, One(Manager!JsonSet(x, Manager!Normalized(n), v)))
<1> DEFINE k == Manager!Normalized(n)
<1>1. Manager!Started({x}) = {x}
  BY DEF Manager!Started
<1>2. JsonAll({x}, k, v) = {Manager!JsonSet(x, k, v)}
  BY <1>1 DEF JsonAll
<1>3. LineRead("JSON", St("l2", a, {x}), Manager!Key(n, v)) = St("l2", a, JsonAll({x}, k, v))
  BY JsonReads
<1> QED  BY <1>2, <1>3 DEF One

LEMMA JsonAlone ==
  ASSUME NEW a, NEW n, NEW v
  PROVE  LineRead("JSON", St("l2", a, {}), Manager!Key(n, v)) =
           St("l2", a, One(Manager!JsonSet(First2, Manager!Normalized(n), v)))
<1> DEFINE k == Manager!Normalized(n)
           z == Manager!Zeroed
<1>1. z = First2
  BY DEF Manager!Zeroed, Lv, First2
<1> HIDE DEF k, z
<1>2. JsonAll({}, k, v) = {Manager!JsonSet(z, k, v)}
  <2>1. Manager!Started({}) = {z}
    BY DEF Manager!Started, z
  <2> QED  BY <2>1 DEF JsonAll
<1>3. LineRead("JSON", St("l2", a, {}), Manager!Key(n, v)) = St("l2", a, JsonAll({}, k, v))
  BY JsonReads DEF k
<1> QED  BY <1>1, <1>2, <1>3 DEF k, One

LEMMA JsonL2 ==
  ASSUME NEW a, NEW q, NEW l, Describes(l), NEW snake, NEW nested
  PROVE  Manager!ReadLines("JSON", Manager!JsonSection("l2", l, snake, nested), St(q, a, {})) =
           St("none", a, One(JsonFilled(l, 0, FALSE, 0, "WriteBack", nested)))
<1> DEFINE R(lines, t) == Manager!ReadLines("JSON", lines, t)
           o == 0
           p == FALSE
           r == "LRU"
           w == "WriteBack"
           block == IF l.blockSize = 0 THEN o ELSE l.blockSize
           n == l.size
           m == l.associativity
           v == l.replacement
           u == l.write
           write == IF nested THEN w ELSE u
<1>0. First2 = Lv(o, o, o, p, o, r, w)
  BY DEF First2
<1> HIDE DEF o, p, r, w
<1>1. R(JsonFirst("l2", l), St(q, a, {})) = St("l2", a, One(Lv(n, m, o, p, o, r, w)))
  <2>1. LineRead("JSON", St(q, a, {}), Manager!Open("l2")) =
          St("l2", a, {})
    BY JsonOpens
  <2>2. LineRead("JSON", St("l2", a, {}), Manager!Key("size", n)) =
          St("l2", a, One(Lv(n, o, o, p, o, r, w)))
    BY <1>0, JsonAlone, NormalNames, JsonSets
  <2>3. LineRead("JSON", St("l2", a, One(Lv(n, o, o, p, o, r, w))), Manager!Key("associativity", m)) =
          St("l2", a, One(Lv(n, m, o, p, o, r, w)))
    BY JsonNext, NormalNames, JsonSets
  <2> QED  BY <2>1, <2>2, <2>3, ReadThree DEF JsonFirst
<1>2. R(JsonBlock(l, snake), St("l2", a, One(Lv(n, m, o, p, o, r, w)))) =
        St("l2", a, One(Lv(n, m, block, p, o, r, w)))
  <2>1. CASE l.blockSize = 0
    BY <2>1, ReadNone DEF JsonBlock
  <2>2. CASE l.blockSize # 0
    <3>1. \A k \in {"block_size", "blockSize"} :
            LineRead("JSON", St("l2", a, One(Lv(n, m, o, p, o, r, w))), Manager!Key(k, l.blockSize)) =
              St("l2", a, One(Lv(n, m, l.blockSize, p, o, r, w)))
      BY JsonNext, NormalNames, JsonSets
    <3> QED  BY <2>2, <3>1, ReadOne DEF JsonBlock
  <2> QED  BY <2>1, <2>2
<1> HIDE DEF block
<1>3. R(JsonReplacement(l, snake), St("l2", a, One(Lv(n, m, block, p, o, r, w)))) =
        St("l2", a, One(Lv(n, m, block, p, o, v, w)))
  <2>1. \A k \in {"replacement_policy", "replacementPolicy"} :
          LineRead("JSON", St("l2", a, One(Lv(n, m, block, p, o, r, w))), Manager!Key(k, v)) =
            St("l2", a, One(Lv(n, m, block, p, o, v, w)))
    BY JsonNext, NormalNames, JsonSets DEF Describes
  <2> QED  BY <2>1, ReadOne DEF JsonReplacement
<1>4. \E z : R(JsonRest(l, snake, nested), St("l2", a, One(Lv(n, m, block, p, o, v, w)))) =
               St(z, a, One(Lv(n, m, block, p, o, v, write)))
  <2>1. CASE nested
    <3>1. LineRead("JSON", St("l2", a, One(Lv(n, m, block, p, o, v, w))), Manager!Open("write_policy")) =
            St("write_policy", a, One(Lv(n, m, block, p, o, v, w)))
      BY JsonOpens
    <3>2. LineRead("JSON", St("write_policy", a, One(Lv(n, m, block, p, o, v, w))), Manager!Key("update", u)) =
            St("write_policy", a, One(Lv(n, m, block, p, o, v, w)))
      BY JsonReads
    <3>3. LineRead("JSON", St("write_policy", a, One(Lv(n, m, block, p, o, v, w))), Manager!Close) =
            St("none", a, One(Lv(n, m, block, p, o, v, w)))
      BY JsonReads
    <3> QED  BY <2>1, <3>1, <3>2, <3>3, ReadThree DEF JsonRest
  <2>2. CASE ~nested
    <3>1. \A k \in {"write_policy", "writePolicy"} :
            LineRead("JSON", St("l2", a, One(Lv(n, m, block, p, o, v, w))), Manager!Key(k, u)) =
              St("l2", a, One(Lv(n, m, block, p, o, v, u)))
      BY JsonNext, NormalNames, JsonSets DEF Describes
    <3> QED  BY <2>2, <3>1, ReadOne DEF JsonRest
  <2> QED  BY <2>1, <2>2
<1> HIDE DEF n, m, v, u, write
<1>5. R(Manager!JsonSection("l2", l, snake, nested), St(q, a, {})) =
        JsonThrough("l2", l, snake, nested, St(q, a, {}))
  <2> DEFINE V == {l.size, l.associativity, l.blockSize, l.prefetch, l.distance, l.replacement, l.write}
             t == St(q, a, {})
  <2>1. Holds(V, l) /\ "l2" \in SectionNames
    BY DEF SectionNames, Holds
  <2> HIDE DEF t, V
  <2>2. /\ Manager!JsonSection("l2", l, snake, nested) \in Seq(LinesOf(V))
        /\ R(Manager!JsonSection("l2", l, snake, nested), t) = JsonThrough("l2", l, snake, nested, t)
    BY <2>1, JsonPieces
  <2> QED  BY <2>2 DEF t
<1>6. \A z : LineRead("JSON", St(z, a, One(Lv(n, m, block, p, o, v, write))), Manager!Close) =
               St("none", a, One(Lv(n, m, block, p, o, v, write)))
  BY JsonReads
<1> QED  BY <1>1, <1>2, <1>3, <1>4, <1>5, <1>6
         DEF JsonThrough, JsonFilled, n, m, v, u, write, block, o, p, r, w

\* The sections of an INI file, which are seven lines, from any state on.
ReadsToEnd(f, x1, x2, x3, x4, x5, x6, x7) ==
  /\ f[1] = LineRead("INI", f[0], x1) /\ f[2] = LineRead("INI", f[1], x2)
  /\ f[3] = LineRead("INI", f[2], x3) /\ f[4] = LineRead("INI", f[3], x4)
  /\ f[5] = LineRead("INI", f[4], x5) /\ f[6] = LineRead("INI", f[5], x6)
  /\ f[7] = LineRead("INI", f[6], x7)

LEMMA ReadSeven ==
  ASSUME NEW s, NEW x1, NEW x2, NEW x3, NEW x4, NEW x5, NEW x6, NEW x7
  PROVE  \E f : /\ ReadsToEnd(f, x1, x2, x3, x4, x5, x6, x7) /\ f[0] = s
                /\ Manager!ReadLines("INI", <<x1, x2, x3, x4, x5, x6, x7>>, s) = f[7]
<1> DEFINE lines == <<x1, x2, x3, x4, x5, x6, x7>>
           n == 7
<1>1. /\ Len(lines) = n /\ n \in Nat /\ lines[1] = x1 /\ lines[2] = x2 /\ lines[3] = x3
      /\ lines[4] = x4 /\ lines[5] = x5 /\ lines[6] = x6 /\ lines[7] = x7
  OBVIOUS
<1> HIDE DEF lines, n
<1>2. Len(lines) = n /\ n \in Nat
  BY <1>1
<1>3. PICK f : ReadsBy(f, "INI", lines, s, n) /\ Manager!ReadLines("INI", lines, s) = f[n]
  BY <1>2, ReadLinesIs
<1>4. f[0] = s /\ \A i \in 1 .. 7 : f[i] = LineRead("INI", f[i - 1], lines[i])
  BY <1>3 DEF ReadsBy, n
<1>5. ReadsToEnd(f, x1, x2, x3, x4, x5, x6, x7)
  BY <1>1, <1>4 DEF ReadsToEnd
<1> QED  BY <1>3, <1>4, <1>5 DEF lines, n

LEMMA IniFirsts ==
  ASSUME NEW s, NEW a, NEW b, NEW p, NEW d, NEW r, NEW w, NEW v
  PROVE  /\ IniFirst(Lv(s, a, b, p, d, r, w), "size", v) = Lv(v, a, b, p, d, r, w)
         /\ IniFirst(Lv(s, a, b, p, d, r, w), "associativity", v) = Lv(s, v, b, p, d, r, w)
         /\ IniFirst(Lv(s, a, b, p, d, r, w), "block_size", v) = Lv(s, a, v, p, d, r, w)
         /\ IniFirst(Lv(s, a, b, p, d, r, w), "prefetch_enabled", v) = Lv(s, a, b, v, d, r, w)
         /\ IniFirst(Lv(s, a, b, p, d, r, w), "prefetch_distance", v) = Lv(s, a, b, p, v, r, w)
         /\ v \in Manager!Replacements =>
              IniFirst(Lv(s, a, b, p, d, r, w), "replacement_policy", v) = Lv(s, a, b, p, d, v, w)
<1>1. IniFirst(Lv(s, a, b, p, d, r, w), "block_size", v) = Lv(s, a, v, p, d, r, w)
  BY DEF IniFirst, Lv
<1> QED  BY <1>1, IniSets DEF IniFirst

LEMMA IniL1 ==
  ASSUME NEW s, NEW a, NEW b, NEW p, NEW d, NEW r, NEW w, NEW q, NEW x, NEW l, Describes(l)
  PROVE  Manager!ReadLines("INI", Manager!IniSection("L1Cache", l), St(q, Lv(s, a, b, p, d, r, w), x)) =
           St("L1Cache", Lv(l.size, l.associativity, l.blockSize, l.prefetch, l.distance,
                            l.replacement, w), x)
<1> DEFINE n == l.size
           m == l.associativity
           k == l.blockSize
           e == l.prefetch
           h == l.distance
           v == l.replacement
           t == St(q, Lv(s, a, b, p, d, r, w), x)
<1>1. v \in Manager!Replacements
  BY DEF Describes
<1>2. PICK f : /\ ReadsToEnd(f, Manager!Open("L1Cache"), Manager!Key("size", n),
                    Manager!Key("associativity", m), Manager!Key("block_size", k),
                    Manager!Key("prefetch_enabled", e), Manager!Key("prefetch_distance", h),
                    Manager!Key("replacement_policy", v))
               /\ f[0] = t
               /\ Manager!ReadLines("INI", Manager!IniSection("L1Cache", l), t) = f[7]
  BY ReadSeven DEF Manager!IniSection
<1> HIDE DEF n, m, k, e, h, v
<1>3. f[1] = St("L1Cache", Lv(s, a, b, p, d, r, w), x)
  BY <1>2, IniOpens DEF ReadsToEnd
<1>4. f[2] = St("L1Cache", Lv(n, a, b, p, d, r, w), x)
  BY <1>2, <1>3, IniReadsFirst, IniFirsts DEF ReadsToEnd
<1>5. f[3] = St("L1Cache", Lv(n, m, b, p, d, r, w), x)
  BY <1>2, <1>4, IniReadsFirst, IniFirsts DEF ReadsToEnd
<1>6. f[4] = St("L1Cache", Lv(n, m, k, p, d, r, w), x)
  BY <1>2, <1>5, IniReadsFirst, IniFirsts DEF ReadsToEnd
<1>7. f[5] = St("L1Cache", Lv(n, m, k, e, d, r, w), x)
  BY <1>2, <1>6, IniReadsFirst, IniFirsts DEF ReadsToEnd
<1>8. f[6] = St("L1Cache", Lv(n, m, k, e, h, r, w), x)
  BY <1>2, <1>7, IniReadsFirst, IniFirsts DEF ReadsToEnd
<1>9. f[7] = St("L1Cache", Lv(n, m, k, e, h, v, w), x)
  BY <1>1, <1>2, <1>8, IniReadsFirst, IniFirsts DEF ReadsToEnd
<1> QED  BY <1>2, <1>9 DEF n, m, k, e, h, v

LEMMA IniNext ==
  ASSUME NEW a, NEW n, NEW v, NEW x
  PROVE  LineRead("INI", St("L2Cache", a, One(x)), Manager!Key(n, v)) =
           St("L2Cache", a, One(Manager!IniSet(x, n, v)))
<1>1. Manager!Started({x}) = {x}
  BY DEF Manager!Started
<1>2. IniAll({x}, n, v) = {Manager!IniSet(x, n, v)}
  BY <1>1 DEF IniAll
<1>3. LineRead("INI", St("L2Cache", a, {x}), Manager!Key(n, v)) = St("L2Cache", a, IniAll({x}, n, v))
  BY IniReadsSecond
<1> QED  BY <1>2, <1>3 DEF One

LEMMA IniAlone ==
  ASSUME NEW a, NEW n, NEW v
  PROVE  LineRead("INI", St("L2Cache", a, {}), Manager!Key(n, v)) =
           St("L2Cache", a, One(Manager!IniSet(First2, n, v)))
<1> DEFINE z == Manager!Zeroed
<1>1. z = First2
  BY DEF Manager!Zeroed, Lv, First2
<1> HIDE DEF z
<1>2. IniAll({}, n, v) = {Manager!IniSet(z, n, v)}
  <2>1. Manager!Started({}) = {z}
    BY DEF Manager!Started, z
  <2> QED  BY <2>1 DEF IniAll
<1>3. LineRead("INI", St("L2Cache", a, {}), Manager!Key(n, v)) = St("L2Cache", a, IniAll({}, n, v))
  BY IniReadsSecond
<1> QED  BY <1>1, <1>2, <1>3 DEF One

LEMMA IniL2 ==
  ASSUME NEW a, NEW q, NEW l, Describes(l)
  PROVE  Manager!ReadLines("INI", Manager!IniSection("L2Cache", l), St(q, a, {})) =
           St("L2Cache", a, One(Lv(l.size, l.associativity, 0, l.prefetch, l.distance,
                                   l.replacement, "WriteBack")))
<1> DEFINE n == l.size
           m == l.associativity
           k == l.blockSize
           e == l.prefetch
           h == l.distance
           v == l.replacement
           t == St(q, a, {})
           o == 0
           p == FALSE
           r == "LRU"
           w == "WriteBack"
<1>0. First2 = Lv(o, o, o, p, o, r, w)
  BY DEF First2
<1>1. v \in Manager!Replacements
  BY DEF Describes
<1>2. PICK f : /\ ReadsToEnd(f, Manager!Open("L2Cache"), Manager!Key("size", n),
                    Manager!Key("associativity", m), Manager!Key("block_size", k),
                    Manager!Key("prefetch_enabled", e), Manager!Key("prefetch_distance", h),
                    Manager!Key("replacement_policy", v))
               /\ f[0] = t
               /\ Manager!ReadLines("INI", Manager!IniSection("L2Cache", l), t) = f[7]
  BY ReadSeven DEF Manager!IniSection
<1> HIDE DEF n, m, k, e, h, v, o, p, r, w
<1>3. f[1] = St("L2Cache", a, {})
  BY <1>2, IniOpens DEF ReadsToEnd
<1>4. f[2] = St("L2Cache", a, One(Lv(n, o, o, p, o, r, w)))
  BY <1>0, <1>2, <1>3, IniAlone, IniSets DEF ReadsToEnd
<1>5. f[3] = St("L2Cache", a, One(Lv(n, m, o, p, o, r, w)))
  BY <1>2, <1>4, IniNext, IniSets DEF ReadsToEnd
<1>6. f[4] = St("L2Cache", a, One(Lv(n, m, o, p, o, r, w)))
  BY <1>2, <1>5, IniNext, IniSets DEF ReadsToEnd
<1>7. f[5] = St("L2Cache", a, One(Lv(n, m, o, e, o, r, w)))
  BY <1>2, <1>6, IniNext, IniSets DEF ReadsToEnd
<1>8. f[6] = St("L2Cache", a, One(Lv(n, m, o, e, h, r, w)))
  BY <1>2, <1>7, IniNext, IniSets DEF ReadsToEnd
<1>9. f[7] = St("L2Cache", a, One(Lv(n, m, o, e, h, v, w)))
  BY <1>1, <1>2, <1>8, IniNext, IniSets DEF ReadsToEnd
<1> QED  BY <1>2, <1>9 DEF n, m, k, e, h, v, o, w

\* What is completed when a file is read, with no L2 and with one.
Cf(l1, l2) == [l1 |-> l1, l2 |-> l2, l3 |-> {}, stride |-> FALSE, adaptive |-> FALSE]

FilledJson(b, x) ==
  {[l EXCEPT !.blockSize = IF l.blockSize = 0 THEN b ELSE l.blockSize,
             !.distance = Manager!AtLeastOne(l.distance)] : l \in x}
FilledIni(b, x) == {[l EXCEPT !.blockSize = b] : l \in x}

LEMMA JsonDone ==
  ASSUME NEW q, NEW s, NEW a, NEW b, NEW p, NEW d, NEW r, NEW w,
         NEW s2, NEW a2, NEW b2, NEW p2, NEW d2, NEW r2, NEW w2
  PROVE  /\ Manager!JsonCompleted(St(q, Lv(s, a, b, p, d, r, w), {}).config) =
              Cf(Lv(s, a, b, p, Manager!AtLeastOne(d), r, w), {})
         /\ Manager!JsonCompleted(St(q, Lv(s, a, b, p, d, r, w),
                                     One(Lv(s2, a2, b2, p2, d2, r2, w2))).config) =
              Cf(Lv(s, a, b, p, Manager!AtLeastOne(d), r, w),
                 One(Lv(s2, a2, IF b2 = 0 THEN b ELSE b2, p2, Manager!AtLeastOne(d2), r2, w2)))
<1> DEFINE l1 == Lv(s, a, b, p, d, r, w)
           k == Lv(s2, a2, b2, p2, d2, r2, w2)
           e == Manager!AtLeastOne(d)
           e2 == Manager!AtLeastOne(d2)
           m == [l1 EXCEPT !.distance = e]
           block == IF b2 = 0 THEN b ELSE b2
           n(l) == [l EXCEPT !.blockSize = IF l.blockSize = 0 THEN b ELSE l.blockSize,
                             !.distance = Manager!AtLeastOne(l.distance)]
           new(x) == FilledJson(b, x)
           c(x) == St(q, l1, x).config
<1>1. m = Lv(s, a, b, p, e, r, w) /\ l1.distance = d /\ l1.blockSize = b
  BY DEF Lv
<1>2. n(k) = Lv(s2, a2, block, p2, e2, r2, w2)
  <2>1. k.blockSize = b2 /\ k.distance = d2
    BY DEF Lv
  <2>3. k = [size |-> s2, associativity |-> a2, blockSize |-> b2, prefetch |-> p2, distance |-> d2,
             replacement |-> r2, write |-> w2]
    BY DEF Lv
  <2> HIDE DEF block, e2, k
  <2>2. [k EXCEPT !.blockSize = block, !.distance = e2] = Lv(s2, a2, block, p2, e2, r2, w2)
    <3> DEFINE x == [k EXCEPT !.blockSize = block, !.distance = e2]
    <3>1. k \in [size : {s2}, associativity : {a2}, blockSize : {b2}, prefetch : {p2}, distance : {d2},
                 replacement : {r2}, write : {w2}]
      BY <2>3
    <3>2. x \in [size : {s2}, associativity : {a2}, blockSize : {block}, prefetch : {p2},
                 distance : {e2}, replacement : {r2}, write : {w2}]
      BY <3>1
    <3> HIDE DEF x
    <3>3. x = Lv(x.size, x.associativity, x.blockSize, x.prefetch, x.distance, x.replacement, x.write)
      BY <3>2 DEF Lv
    <3>4. /\ x.size = s2 /\ x.associativity = a2 /\ x.blockSize = block /\ x.prefetch = p2
          /\ x.distance = e2 /\ x.replacement = r2 /\ x.write = w2
      BY <3>2
    <3> QED  BY <3>3, <3>4 DEF x
  <2> QED  BY <2>1, <2>2 DEF block, e2
<1>3. \A x : c(x) = Cf(l1, x) /\ c(x).l1 = l1 /\ c(x).l2 = x
  BY StIs DEF St, Cf
<1>4. \A x : Manager!JsonCompleted(c(x)) = [c(x) EXCEPT !.l1.distance = e, !.l2 = new(x)]
  <2> TAKE x
  <2> DEFINE y == c(x)
  <2>1. Manager!JsonCompleted(y) =
          [y EXCEPT !.l1.distance = Manager!AtLeastOne(y.l1.distance),
                    !.l2 = FilledJson(y.l1.blockSize, y.l2)]
    BY DEF Manager!JsonCompleted, FilledJson
  <2> QED  BY <1>1, <1>3, <2>1
<1> DEFINE g == FALSE
<1> HIDE DEF l1, k, e, e2, block, n, c
<1>5. \A x : Manager!JsonCompleted(c(x)) = [c(x) EXCEPT !.l1 = m, !.l2 = new(x)]
  BY <1>3, <1>4
<1> HIDE DEF m, g
<1>6. \A x : c(x) = [l1 |-> l1, l2 |-> x, l3 |-> {}, stride |-> g, adaptive |-> g]
  BY <1>3 DEF Cf, g
<1>7. \A x : Manager!JsonCompleted(c(x)) = [l1 |-> m, l2 |-> new(x), l3 |-> {}, stride |-> g, adaptive |-> g]
  <2> TAKE x
  <2> DEFINE y == new(x)
             z == c(x)
  <2>1. z = [l1 |-> l1, l2 |-> x, l3 |-> {}, stride |-> g, adaptive |-> g]
    BY <1>6
  <2>2. Manager!JsonCompleted(z) = [z EXCEPT !.l1 = m, !.l2 = y]
    BY <1>5
  <2> HIDE DEF y, z
  <2>3. Manager!JsonCompleted(z) = [l1 |-> m, l2 |-> y, l3 |-> {}, stride |-> g, adaptive |-> g]
    BY <2>1, <2>2
  <2> QED  BY <2>3 DEF y, z
<1>8. new({}) = {} /\ new(One(k)) = One(n(k))
  BY DEF One, FilledJson, n
<1> HIDE DEF new
<1>9. /\ Manager!JsonCompleted(c({})) = Cf(m, {})
      /\ Manager!JsonCompleted(c(One(k))) = Cf(m, One(n(k)))
  BY <1>7, <1>8 DEF Cf, g
<1> QED  BY <1>1, <1>2, <1>9 DEF c, l1, k, e, e2, block, m

LEMMA IniDone ==
  ASSUME NEW q, NEW s, NEW a, NEW b, NEW p, NEW d, NEW r, NEW w,
         NEW s2, NEW a2, NEW b2, NEW p2, NEW d2, NEW r2, NEW w2
  PROVE  /\ Manager!IniCompleted(St(q, Lv(s, a, b, p, d, r, w), {}).config) =
              Cf(Lv(s, a, b, p, d, r, w), {})
         /\ Manager!IniCompleted(St(q, Lv(s, a, b, p, d, r, w),
                                    One(Lv(s2, a2, b2, p2, d2, r2, w2))).config) =
              Cf(Lv(s, a, b, p, d, r, w), One(Lv(s2, a2, b, p2, d2, r2, w2)))
<1> DEFINE l1 == Lv(s, a, b, p, d, r, w)
           k == Lv(s2, a2, b2, p2, d2, r2, w2)
           n(l) == [l EXCEPT !.blockSize = b]
           new(x) == FilledIni(b, x)
           c(x) == St(q, l1, x).config
<1>1. l1.blockSize = b
  BY DEF Lv
<1>2. n(k) = Lv(s2, a2, b, p2, d2, r2, w2)
  BY DEF Lv
<1>3. \A x : c(x) = Cf(l1, x) /\ c(x).l1 = l1 /\ c(x).l2 = x
  BY StIs DEF St, Cf
<1>5. \A x : Manager!IniCompleted(c(x)) = [c(x) EXCEPT !.l2 = new(x)]
  <2> TAKE x
  <2> DEFINE y == c(x)
  <2>1. Manager!IniCompleted(y) = [y EXCEPT !.l2 = FilledIni(y.l1.blockSize, y.l2)]
    BY DEF Manager!IniCompleted, FilledIni
  <2> QED  BY <1>1, <1>3, <2>1
<1> DEFINE g == FALSE
<1> HIDE DEF l1, k, n, c, g
<1>6. \A x : c(x) = [l1 |-> l1, l2 |-> x, l3 |-> {}, stride |-> g, adaptive |-> g]
  BY <1>3 DEF Cf, g
<1>7. \A x : Manager!IniCompleted(c(x)) = [l1 |-> l1, l2 |-> new(x), l3 |-> {}, stride |-> g, adaptive |-> g]
  <2> TAKE x
  <2> DEFINE y == new(x)
             z == c(x)
  <2>1. z = [l1 |-> l1, l2 |-> x, l3 |-> {}, stride |-> g, adaptive |-> g]
    BY <1>6
  <2>2. Manager!IniCompleted(z) = [z EXCEPT !.l2 = y]
    BY <1>5
  <2> HIDE DEF y, z
  <2>3. Manager!IniCompleted(z) = [l1 |-> l1, l2 |-> y, l3 |-> {}, stride |-> g, adaptive |-> g]
    BY <2>1, <2>2
  <2> QED  BY <2>3 DEF y, z
<1>8. new({}) = {} /\ new(One(k)) = One(n(k))
  BY DEF One, FilledIni, n
<1> HIDE DEF new
<1>9. /\ Manager!IniCompleted(c({})) = Cf(l1, {})
      /\ Manager!IniCompleted(c(One(k))) = Cf(l1, One(n(k)))
  BY <1>7, <1>8 DEF Cf, g
<1> QED  BY <1>2, <1>9 DEF c, l1, k

\* Levels with all their fields and nothing else, and a hierarchy of such levels.
Full(l) == l = Lv(l.size, l.associativity, l.blockSize, l.prefetch, l.distance, l.replacement, l.write)
Shape(c) ==
  /\ Whole(c) /\ c.stride \in BOOLEAN /\ c.adaptive \in BOOLEAN
  /\ Full(c.l1) /\ \A l \in c.l2 : Full(l)
\* What users write of a level, and what is then understood of it.
Written(l, B) == Full(l) /\ Describes(l) /\ l.prefetch = FALSE /\ l.distance = 1 /\ l.blockSize \in B

LEMMA LevelsAreFull ==
  ASSUME NEW s, NEW a, NEW b, NEW p, NEW d, NEW r, NEW w
  PROVE  Full(Lv(s, a, b, p, d, r, w))
BY LevelFields DEF Full

LEMMA WrittenLevels ==
  ASSUME NEW W, NEW B, NEW l \in Manager!Described(W, B)
  PROVE  Written(l, B)
<1> DEFINE p == FALSE
<1>1. l \in [size : {8}, associativity : W, blockSize : B, prefetch : {p}, distance : {1},
             replacement : Manager!Replacements, write : Manager!WritePolicies]
  BY DEF Manager!Described
<1> HIDE DEF p
<1>2. Full(l)
  BY <1>1 DEF Full, Lv
<1>3. /\ l.blockSize \in B /\ l.prefetch = p /\ l.distance = 1
      /\ l.replacement \in Manager!Replacements /\ l.write \in Manager!WritePolicies
  BY <1>1
<1> QED  BY <1>2, <1>3 DEF Written, Describes, p

LEMMA UnsetLevels ==
  ASSUME NEW l \in Manager!Unset
  PROVE  \E g, p : l = Lv(g, g, g, p, g, "LRU", "WriteBack")
<1>1. PICK g \in Distances, p \in BOOLEAN : l = Manager!Level(g, g, g, p, g)
  BY DEF Manager!Unset
<1> QED  BY <1>1, LevelIs

UnderstoodAs(l, b, fmt, nested) ==
  Lv(l.size, l.associativity, IF fmt = "INI" \/ l.blockSize = 0 THEN b ELSE l.blockSize,
     l.prefetch, l.distance, l.replacement,
     IF fmt = "INI" \/ nested THEN "WriteBack" ELSE l.write)

AllUnderstood(l2, b, fmt, nested) == {UnderstoodAs(l, b, fmt, nested) : l \in l2}

LEMMA UnderstoodIs ==
  ASSUME NEW l, Full(l), NEW l1, NEW fmt, NEW nested
  PROVE  Manager!Understood(l, l1, fmt, nested) = UnderstoodAs(l, l1.blockSize, fmt, nested)
<1> DEFINE u == IF fmt = "INI" \/ nested THEN "WriteBack" ELSE l.write
           b == IF fmt = "INI" \/ l.blockSize = 0 THEN l1.blockSize ELSE l.blockSize
           x == Manager!Understood(l, l1, fmt, nested)
           s == l.size
           a == l.associativity
           p == l.prefetch
           d == l.distance
           r == l.replacement
           k == l.blockSize
           w == l.write
<1>1. x = [l EXCEPT !.write = u, !.blockSize = b]
  BY DEF Manager!Understood
<1>2. l = Lv(s, a, k, p, d, r, w)
  BY DEF Full
<1>3. UnderstoodAs(l, l1.blockSize, fmt, nested) = Lv(s, a, b, p, d, r, u)
  BY DEF UnderstoodAs
<1> HIDE DEF u, b, x, s, a, p, d, r, k, w
<1>4. l \in [size : {s}, associativity : {a}, blockSize : {k}, prefetch : {p}, distance : {d},
             replacement : {r}, write : {w}]
  BY <1>2 DEF Lv
<1>5. x \in [size : {s}, associativity : {a}, blockSize : {b}, prefetch : {p}, distance : {d},
             replacement : {r}, write : {u}]
  BY <1>1, <1>4
<1>6. x = Lv(x.size, x.associativity, x.blockSize, x.prefetch, x.distance, x.replacement, x.write)
  BY <1>5 DEF Lv
<1>7. /\ x.size = s /\ x.associativity = a /\ x.blockSize = b /\ x.prefetch = p
      /\ x.distance = d /\ x.replacement = r /\ x.write = u
  BY <1>5
<1> QED  BY <1>3, <1>6, <1>7 DEF x

LEMMA GeometryIs ==
  ASSUME NEW s, NEW a, NEW b, NEW r, NEW w, NEW p, NEW d, NEW q, NEW e
  PROVE  Manager!Geometry(Lv(s, a, b, p, d, r, w)) = Manager!Geometry(Lv(s, a, b, q, e, r, w))
<1> DEFINE l == Lv(s, a, b, p, d, r, w)
           k == Lv(s, a, b, q, e, r, w)
           D == {"size", "associativity", "blockSize", "replacement", "write"}
<1>1. DOMAIN l \ {"prefetch", "distance"} = D /\ DOMAIN k \ {"prefetch", "distance"} = D
  BY DEF Lv
<1>2. \A f \in D : l[f] = k[f]
  BY DEF Lv
<1> HIDE DEF l, k, D
<1>3. Manager!Geometry(l) = [f \in D |-> l[f]] /\ Manager!Geometry(k) = [f \in D |-> k[f]]
  BY <1>1 DEF Manager!Geometry
<1>4. [f \in D |-> l[f]] = [f \in D |-> k[f]]
  BY <1>2
<1> QED  BY <1>3, <1>4 DEF l, k

\* A JSON file of a section for L1 and perhaps one for L2, in either order.
FirstRead(l, p, g, nested) == JsonFilled(l, g, p, g, "WriteBack", nested)
SecondRead(l, nested) == One(JsonFilled(l, 0, FALSE, 0, "WriteBack", nested))
FirstIni(l) ==
  Lv(l.size, l.associativity, l.blockSize, l.prefetch, l.distance, l.replacement, "WriteBack")
SecondIni(l) ==
  One(Lv(l.size, l.associativity, 0, l.prefetch, l.distance, l.replacement, "WriteBack"))
UnsetLevel(g, p) == Lv(g, g, g, p, g, "LRU", "WriteBack")
LEMMA JsonOrder ==
  ASSUME NEW l1, Describes(l1), NEW l, Describes(l), NEW snake, NEW nested, NEW g, NEW p, NEW u, u = UnsetLevel(g, p),
         NEW x, x = Manager!JsonSection("l1", l1, snake, nested),
         NEW y, y = Manager!JsonSection("l2", l, snake, nested)
  PROVE  /\ Manager!ReadLines("JSON", x \o <<>>, St("none", u, {})) = St("none", FirstRead(l1, p, g, nested), {})
         /\ Manager!ReadLines("JSON", <<>> \o x, St("none", u, {})) = St("none", FirstRead(l1, p, g, nested), {})
         /\ Manager!ReadLines("JSON", x \o y, St("none", u, {})) = St("none", FirstRead(l1, p, g, nested), SecondRead(l, nested))
         /\ Manager!ReadLines("JSON", y \o x, St("none", u, {})) = St("none", FirstRead(l1, p, g, nested), SecondRead(l, nested))
<1> DEFINE V == {l1.size, l1.associativity, l1.blockSize, l1.prefetch, l1.distance, l1.replacement, l1.write}
                  \cup {l.size, l.associativity, l.blockSize, l.prefetch, l.distance, l.replacement, l.write}
           S == LinesOf(V)
           R(lines, s) == Manager!ReadLines("JSON", lines, s)
           e == <<>>
           j1 == FirstRead(l1, p, g, nested)
           k == SecondRead(l, nested)
<1>1. Holds(V, l1) /\ Holds(V, l) /\ "l1" \in SectionNames /\ "l2" \in SectionNames
  BY DEF Holds, SectionNames
<1> HIDE DEF V
<1>2. x \in Seq(S) /\ y \in Seq(S)
  <2> DEFINE s == St("none", u, {})
  <2>1. /\ Manager!JsonSection("l1", l1, snake, nested) \in Seq(S)
        /\ R(Manager!JsonSection("l1", l1, snake, nested), s) = JsonThrough("l1", l1, snake, nested, s)
    BY <1>1, JsonPieces
  <2>2. /\ Manager!JsonSection("l2", l, snake, nested) \in Seq(S)
        /\ R(Manager!JsonSection("l2", l, snake, nested), s) = JsonThrough("l2", l, snake, nested, s)
    BY <1>1, JsonPieces
  <2> QED  BY <2>1, <2>2
<1>3. e \in Seq(S)
  OBVIOUS
<1> HIDE DEF j1, k
<1>4. \A b : R(x, St("none", u, b)) = St("none", j1, b)
  <2> TAKE b
  <2>1. R(Manager!JsonSection("l1", l1, snake, nested), St("none", Lv(g, g, g, p, g, "LRU", "WriteBack"), b)) =
          St("none", JsonFilled(l1, g, p, g, "WriteBack", nested), b)
    BY JsonL1
  <2> QED  BY <2>1 DEF UnsetLevel, FirstRead, j1
<1>5. \A a : R(y, St("none", a, {})) = St("none", a, k)
  <2> TAKE a
  <2>1. R(Manager!JsonSection("l2", l, snake, nested), St("none", a, {})) =
          St("none", a, One(JsonFilled(l, 0, FALSE, 0, "WriteBack", nested)))
    BY JsonL2
  <2> QED  BY <2>1, Zenon DEF SecondRead, k
<1>6. \A s : R(e, s) = s
  BY ReadNone
<1> HIDE DEF e, S
<1>7. \A s : /\ R(x \o e, s) = R(e, R(x, s)) /\ R(e \o x, s) = R(x, R(e, s))
             /\ R(x \o y, s) = R(y, R(x, s)) /\ R(y \o x, s) = R(x, R(y, s))
  <2> TAKE s
  <2>1. R(x \o e, s) = R(e, R(x, s)) /\ R(e \o x, s) = R(x, R(e, s))
    BY <1>2, <1>3, ReadThen
  <2>2. R(x \o y, s) = R(y, R(x, s)) /\ R(y \o x, s) = R(x, R(y, s))
    BY <1>2, ReadThen
  <2> QED  BY <2>1, <2>2
<1>8. R(x \o e, St("none", u, {})) = St("none", j1, {})
  BY <1>4, <1>6, <1>7
<1>9. R(e \o x, St("none", u, {})) = St("none", j1, {})
  BY <1>4, <1>6, <1>7
<1>10. R(x \o y, St("none", u, {})) = St("none", j1, k)
  BY <1>4, <1>5, <1>7
<1>11. R(y \o x, St("none", u, {})) = St("none", j1, k)
  BY <1>4, <1>5, <1>7
<1> QED  BY <1>8, <1>9, <1>10, <1>11 DEF e, k, j1

LEMMA IniLines ==
  ASSUME NEW l, NEW V, Holds(V, l)
  PROVE  /\ Manager!IniSection("L1Cache", l) \in Seq(LinesOf(V))
         /\ Manager!IniSection("L2Cache", l) \in Seq(LinesOf(V))
<1> DEFINE S == LinesOf(V)
           a == Manager!Key("size", l.size)
           b == Manager!Key("associativity", l.associativity)
           c == Manager!Key("block_size", l.blockSize)
           d == Manager!Key("prefetch_enabled", l.prefetch)
           e == Manager!Key("prefetch_distance", l.distance)
           f == Manager!Key("replacement_policy", l.replacement)
           g == Manager!Open("L1Cache")
           h == Manager!Open("L2Cache")
<1>1. /\ l.size \in V /\ l.associativity \in V /\ l.blockSize \in V /\ l.prefetch \in V
      /\ l.distance \in V /\ l.replacement \in V
  BY DEF Holds
<1>2. a \in S /\ b \in S /\ c \in S /\ d \in S /\ e \in S /\ f \in S /\ g \in S /\ h \in S
  <2> HIDE DEF S
  <2> QED  BY <1>1, LinesHave DEF KeyNames, SectionNames, S
<1>3. /\ Manager!IniSection("L1Cache", l) = <<g, a, b, c, d, e, f>>
      /\ Manager!IniSection("L2Cache", l) = <<h, a, b, c, d, e, f>>
  BY DEF Manager!IniSection
<1> HIDE DEF S, a, b, c, d, e, f, g, h
<1>4. <<g, a, b, c, d, e, f>> \in Seq(S)
  BY <1>2
<1>5. <<h, a, b, c, d, e, f>> \in Seq(S)
  BY <1>2
<1> QED  BY <1>3, <1>4, <1>5 DEF S

LEMMA IniOrder ==
  ASSUME NEW l1, Describes(l1), NEW l, Describes(l), NEW g, NEW p, NEW u, u = UnsetLevel(g, p),
         NEW x, x = Manager!IniSection("L1Cache", l1), NEW y, y = Manager!IniSection("L2Cache", l)
  PROVE  /\ Manager!ReadLines("INI", x \o <<>>, St("none", u, {})) = St("L1Cache", FirstIni(l1), {})
         /\ Manager!ReadLines("INI", <<>> \o x, St("none", u, {})) = St("L1Cache", FirstIni(l1), {})
         /\ Manager!ReadLines("INI", x \o y, St("none", u, {})) = St("L2Cache", FirstIni(l1), SecondIni(l))
         /\ Manager!ReadLines("INI", y \o x, St("none", u, {})) = St("L1Cache", FirstIni(l1), SecondIni(l))
<1> DEFINE V == {l1.size, l1.associativity, l1.blockSize, l1.prefetch, l1.distance, l1.replacement, l1.write}
                  \cup {l.size, l.associativity, l.blockSize, l.prefetch, l.distance, l.replacement, l.write}
           S == LinesOf(V)
           R(lines, s) == Manager!ReadLines("INI", lines, s)
           e == <<>>
           j1 == FirstIni(l1)
           k == SecondIni(l)
<1>1. Holds(V, l1) /\ Holds(V, l)
  BY DEF Holds
<1> HIDE DEF V
<1>2. x \in Seq(S) /\ y \in Seq(S)
  BY <1>1, IniLines
<1>3. e \in Seq(S)
  OBVIOUS
<1>4. \A q, b : R(x, St(q, u, b)) = St("L1Cache", j1, b)
  BY IniL1 DEF UnsetLevel, FirstIni
<1>5. \A q, a : R(y, St(q, a, {})) = St("L2Cache", a, k)
  BY IniL2 DEF SecondIni
<1>6. \A s : R(e, s) = s
  BY ReadNone
<1> HIDE DEF e, S, j1, k
<1>7. \A s : /\ R(x \o e, s) = R(e, R(x, s)) /\ R(e \o x, s) = R(x, R(e, s))
             /\ R(x \o y, s) = R(y, R(x, s)) /\ R(y \o x, s) = R(x, R(y, s))
  BY <1>2, <1>3, ReadThen
<1> QED  BY <1>4, <1>5, <1>6, <1>7 DEF e, j1, k

\* What is loaded from such a file, whatever was in the uninitialised L1.
LEMMA StartIs == ASSUME NEW u PROVE Manager!Start(u) = St("none", u, {})
BY DEF Manager!Start, Manager!Hierarchy, St

JsonMeans(u, l1, l, p, e, nested, x, y) ==
  \A lines :
    /\ lines \in {x \o <<>>, <<>> \o x} => Manager!ParseJson(lines, u) =
         {Cf(Lv(l1.size, l1.associativity, l1.blockSize, p, e, l1.replacement,
                IF nested THEN "WriteBack" ELSE l1.write), {})}
    /\ lines \in {x \o y, y \o x} => Manager!ParseJson(lines, u) =
         {Cf(Lv(l1.size, l1.associativity, l1.blockSize, p, e, l1.replacement,
                IF nested THEN "WriteBack" ELSE l1.write),
             One(UnderstoodAs(l, l1.blockSize, "JSON", nested)))}
IniMeans(c, lines, l1, l, x, y) ==
  /\ lines \in {x \o <<>>, <<>> \o x} => c =
       Cf(Lv(l1.size, l1.associativity, l1.blockSize, l1.prefetch, l1.distance, l1.replacement,
             "WriteBack"), {})
  /\ lines \in {x \o y, y \o x} => c =
       Cf(Lv(l1.size, l1.associativity, l1.blockSize, l1.prefetch, l1.distance, l1.replacement,
             "WriteBack"),
          One(Lv(l.size, l.associativity, l1.blockSize, l.prefetch, l.distance, l.replacement,
                 "WriteBack")))

LEMMA JsonLoaded ==
  ASSUME NEW l1, Describes(l1), l1.blockSize # 0,
         NEW l, Describes(l), l.prefetch = FALSE, l.distance = 1, NEW snake, NEW nested,
         NEW g, NEW p, NEW u, u = UnsetLevel(g, p),
         NEW x, x = Manager!JsonSection("l1", l1, snake, nested),
         NEW y, y = Manager!JsonSection("l2", l, snake, nested)
  PROVE  \E e : JsonMeans(u, l1, l, p, e, nested, x, y)
<1> DEFINE R(lines) == Manager!ReadLines("JSON", lines, St("none", u, {}))
           j1 == FirstRead(l1, p, g, nested)
           j2 == JsonFilled(l, 0, FALSE, 0, "WriteBack", nested)
           r2 == SecondRead(l, nested)
           w1 == IF nested THEN "WriteBack" ELSE l1.write
           w2 == IF nested THEN "WriteBack" ELSE l.write
           b1 == l1.blockSize
           b2 == IF l.blockSize = 0 THEN 0 ELSE l.blockSize
           b3 == IF l.blockSize = 0 THEN b1 ELSE l.blockSize
           e == Manager!AtLeastOne(g)
           p2 == FALSE
           k1 == Lv(l1.size, l1.associativity, b1, p, e, l1.replacement, w1)
           k2 == UnderstoodAs(l, b1, "JSON", nested)
<1>1. /\ \A lines \in {x \o <<>>, <<>> \o x} : R(lines) = St("none", j1, {})
      /\ \A lines \in {x \o y, y \o x} : R(lines) = St("none", j1, r2)
  <2> HIDE DEF j1, j2, r2
  <2>1. /\ R(x \o <<>>) = St("none", j1, {}) /\ R(<<>> \o x) = St("none", j1, {})
        /\ R(x \o y) = St("none", j1, r2) /\ R(y \o x) = St("none", j1, r2)
    BY JsonOrder DEF j1, r2
  <2> QED  BY <2>1
<1>2. j1 = Lv(l1.size, l1.associativity, b1, p, g, l1.replacement, w1)
  BY DEF JsonFilled, FirstRead
<1>3. j2 = Lv(l.size, l.associativity, b2, p2, 0, l.replacement, w2) /\ r2 = One(j2)
  <2>1. j2 = Lv(l.size, l.associativity, b2, p2, 0, l.replacement, w2)
    BY DEF JsonFilled
  <2>2. r2 = One(j2)
    BY Zenon DEF SecondRead
  <2> HIDE DEF j2, r2
  <2> QED  BY <2>1, <2>2
<1>4. k2 = Lv(l.size, l.associativity, IF b2 = 0 THEN b1 ELSE b2, p2, Manager!AtLeastOne(0), l.replacement, w2)
  <2>1. Manager!AtLeastOne(0) = 1
    BY DEF Manager!AtLeastOne
  <2>2. (IF b2 = 0 THEN b1 ELSE b2) = b3
    OBVIOUS
  <2>3. k2 = Lv(l.size, l.associativity, b3, l.prefetch, l.distance, l.replacement, w2)
    BY DEF UnderstoodAs
  <2> QED  BY <2>1, <2>2, <2>3
<1> HIDE DEF j1, j2, r2, w1, w2, b1, b2, p2, k2
<1>5. /\ Manager!JsonCompleted(St("none", j1, {}).config) = Cf(k1, {})
      /\ Manager!JsonCompleted(St("none", j1, r2).config) = Cf(k1, One(k2))
  BY <1>2, <1>3, <1>4, JsonDone
<1>6. \A lines : Manager!ParseJson(lines, u) = {Manager!JsonCompleted(R(lines).config)}
  BY StartIs DEF Manager!ParseJson
<1> HIDE DEF R, k1
<1>7. \A lines \in {x \o <<>>, <<>> \o x} : Manager!ParseJson(lines, u) = {Cf(k1, {})}
  BY <1>1, <1>5, <1>6
<1>8. \A lines \in {x \o y, y \o x} : Manager!ParseJson(lines, u) = {Cf(k1, One(k2))}
  BY <1>1, <1>5, <1>6
<1>9. JsonMeans(u, l1, l, p, e, nested, x, y)
  BY <1>7, <1>8 DEF JsonMeans, k1, k2, b1, w1
<1> QED  BY <1>9

LEMMA IniLoaded ==
  ASSUME NEW l1, Describes(l1), NEW l, Describes(l),
         NEW g, NEW p, NEW u, u = UnsetLevel(g, p),
         NEW x, x = Manager!IniSection("L1Cache", l1),
         NEW y, y = Manager!IniSection("L2Cache", l), NEW lines, NEW c \in Manager!ParseIni(lines, u)
  PROVE  IniMeans(c, lines, l1, l, x, y)
<1> DEFINE R == Manager!ReadLines("INI", lines, St("none", u, {}))
           w == "WriteBack"
           o == 0
           k1 == Lv(l1.size, l1.associativity, l1.blockSize, l1.prefetch, l1.distance, l1.replacement, w)
           k2 == Lv(l.size, l.associativity, l1.blockSize, l.prefetch, l.distance, l.replacement, w)
           j2 == Lv(l.size, l.associativity, o, l.prefetch, l.distance, l.replacement, w)
<1>1. /\ lines \in {x \o <<>>, <<>> \o x} => R = St("L1Cache", k1, {})
      /\ lines \in {x \o y, y \o x} => R = St("L1Cache", k1, One(j2)) \/ R = St("L2Cache", k1, One(j2))
  <2>1. k1 = FirstIni(l1) /\ One(j2) = SecondIni(l)
    BY DEF FirstIni, SecondIni
  <2> HIDE DEF k1, j2
  <2>2. LET T(a) == Manager!ReadLines("INI", a, St("none", u, {}))
        IN  /\ T(x \o <<>>) = St("L1Cache", k1, {}) /\ T(<<>> \o x) = St("L1Cache", k1, {})
            /\ T(x \o y) = St("L2Cache", k1, One(j2)) /\ T(y \o x) = St("L1Cache", k1, One(j2))
    BY <2>1, IniOrder
  <2> QED  BY <2>2
<1> HIDE DEF w, o
<1>2. \A q : /\ Manager!IniCompleted(St(q, k1, {}).config) = Cf(k1, {})
             /\ Manager!IniCompleted(St(q, k1, One(j2)).config) = Cf(k1, One(k2))
  BY IniDone
<1>3. c = Manager!IniCompleted(R.config)
  BY StartIs DEF Manager!ParseIni
<1> HIDE DEF R, k1, k2, j2
<1> QED  BY <1>1, <1>2, <1>3 DEF IniMeans, k1, k2, w

\* A file is about what its ghost says: so whatever is loaded from it agrees.  Of a saved
\* one only the block size of JSON comes back.
Told(c, t) ==
  IF t.saved THEN t.format = "JSON" /\ c.l2 = {} /\ c.l1.blockSize = t.hierarchy.l1.blockSize
  ELSE Manager!Geometry(c.l1) = Manager!Geometry(t.hierarchy.l1) /\ c.l2 = t.hierarchy.l2
Loaded(f, u) ==
  IF f.format = "JSON" THEN Manager!ParseJson(f.lines, u) ELSE Manager!ParseIni(f.lines, u)
About(f, t) ==
  /\ f.format \in {"JSON", "INI"}
  /\ \A u \in Manager!Unset : \A c \in Loaded(f, u) : Shape(c) /\ Told(c, t)

LEMMA ConfigurationsHaveShape ==
  ASSUME NEW l1, Full(l1), NEW l2, \A l \in l2 : Full(l), NEW c, c = Cf(l1, l2)
  PROVE  Shape(c) /\ c.l1 = l1 /\ c.l2 = l2
<1> DEFINE g == FALSE
<1>1. c = [l1 |-> l1, l2 |-> l2, l3 |-> {}, stride |-> g, adaptive |-> g] /\ g \in BOOLEAN
  BY DEF Cf
<1> HIDE DEF g
<1>2. c.l1 = l1 /\ c.l2 = l2 /\ c.l3 = {} /\ c.stride = g /\ c.adaptive = g
  BY <1>1
<1>3. Whole(c)
  BY <1>1, <1>2 DEF Whole
<1> QED  BY <1>1, <1>2, <1>3 DEF Shape

TellsOf(t, fmt, nested, l1, l2) ==
  /\ t.saved = FALSE
  /\ t.hierarchy = Manager!Hierarchy(Manager!Understood(l1, l1, fmt, nested),
                                     {Manager!Understood(l, l1, fmt, nested) : l \in l2}, FALSE)

LEMMA ToldIs ==
  ASSUME NEW fmt, NEW nested, NEW l1, Full(l1), NEW l2, \A l \in l2 : Full(l),
         fmt = "INI" \/ l1.blockSize # 0,
         NEW t, TellsOf(t, fmt, nested, l1, l2),
         NEW p, NEW d, NEW k2, k2 = AllUnderstood(l2, l1.blockSize, fmt, nested),
         NEW k1, k1 = Lv(l1.size, l1.associativity, l1.blockSize, p, d, l1.replacement,
                         IF fmt = "INI" \/ nested THEN "WriteBack" ELSE l1.write)
  PROVE  Shape(Cf(k1, k2)) /\ Told(Cf(k1, k2), t)
<1> DEFINE c == Cf(k1, k2)
           w == IF fmt = "INI" \/ nested THEN "WriteBack" ELSE l1.write
           u1 == Manager!Understood(l1, l1, fmt, nested)
           u2 == {Manager!Understood(l, l1, fmt, nested) : l \in l2}
<1>1. Full(k1) /\ \A l \in k2 : Full(l)
  BY LevelsAreFull DEF UnderstoodAs, AllUnderstood
<1>2. Shape(c) /\ c.l1 = k1 /\ c.l2 = k2
  BY <1>1, ConfigurationsHaveShape
<1>3. t.hierarchy.l1 = u1 /\ t.hierarchy.l2 = u2
  BY DEF Manager!Hierarchy, TellsOf
<1>4. u2 = k2
  <2>1. \A l \in l2 : Manager!Understood(l, l1, fmt, nested) = UnderstoodAs(l, l1.blockSize, fmt, nested)
    BY UnderstoodIs
  <2> QED  BY <2>1 DEF AllUnderstood
<1>5. u1 = Lv(l1.size, l1.associativity, l1.blockSize, l1.prefetch, l1.distance, l1.replacement, w)
  BY UnderstoodIs DEF UnderstoodAs
<1> HIDE DEF w, u1, u2, c
<1>6. Manager!Geometry(k1) = Manager!Geometry(u1)
  BY <1>5, GeometryIs DEF w
<1> QED  BY <1>2, <1>3, <1>4, <1>6 DEF Told, TellsOf, c

FirstSection(fmt, l1, snake, nested) ==
  IF fmt = "JSON" THEN Manager!JsonSection("l1", l1, snake, nested)
  ELSE Manager!IniSection("L1Cache", l1)
SecondSection(fmt, l2, snake, nested) ==
  IF l2 = {} THEN <<>>
  ELSE IF fmt = "JSON" THEN Manager!JsonSection("l2", CHOOSE l \in l2 : TRUE, snake, nested)
  ELSE Manager!IniSection("L2Cache", CHOOSE l \in l2 : TRUE)

LEMMA LoadedIsTold ==
  ASSUME NEW fmt \in {"JSON", "INI"}, NEW snake, NEW nested,
         NEW B, NEW l1, Written(l1, B), l1.blockSize # 0,
         NEW l2, l2 = {} \/ \E l : l2 = {l} /\ Written(l, B \cup {0}),
         NEW t, TellsOf(t, fmt, nested, l1, l2),
         NEW f, f.format = fmt,
         NEW x, x = FirstSection(fmt, l1, snake, nested),
         NEW y, y = SecondSection(fmt, l2, snake, nested),
         f.lines = x \o y \/ f.lines = y \o x
  PROVE  About(f, t)
<1> SUFFICES ASSUME NEW u \in Manager!Unset, NEW c \in Loaded(f, u) PROVE Shape(c) /\ Told(c, t)
  BY DEF About
<1> DEFINE lines == f.lines
           w == IF fmt = "INI" \/ nested THEN "WriteBack" ELSE l1.write
           k(p, d) == Lv(l1.size, l1.associativity, l1.blockSize, p, d, l1.replacement, w)
           m(l) == UnderstoodAs(l, l1.blockSize, fmt, nested)
           k2 == {m(l) : l \in l2}
           Second(l, z) == z = IF fmt = "JSON" THEN Manager!JsonSection("l2", l, snake, nested)
                               ELSE Manager!IniSection("L2Cache", l)
           Reads(l, z) ==
             \E q, d :
               /\ lines \in {x \o <<>>, <<>> \o x} => c = Cf(k(q, d), {})
               /\ lines \in {x \o z, z \o x} => c = Cf(k(q, d), One(m(l)))
<1> HIDE DEF Second, Reads
<1>1. PICK g, p : u = UnsetLevel(g, p)
  BY UnsetLevels DEF UnsetLevel
<1>2. Full(l1) /\ Describes(l1) /\ \A l \in l2 : Full(l) /\ Describes(l) /\ l.prefetch = FALSE /\ l.distance = 1
  BY DEF Written
<1>3. ASSUME NEW l, Describes(l), l.prefetch = FALSE, l.distance = 1,
             NEW z, z = IF fmt = "JSON" THEN Manager!JsonSection("l2", l, snake, nested)
                        ELSE Manager!IniSection("L2Cache", l)
      PROVE  \E q, d : /\ lines \in {x \o <<>>, <<>> \o x} => c = Cf(k(q, d), {})
                       /\ lines \in {x \o z, z \o x} => c = Cf(k(q, d), One(m(l)))
  <2>1. CASE fmt = "JSON"
    <3>1. /\ x = Manager!JsonSection("l1", l1, snake, nested)
          /\ z = Manager!JsonSection("l2", l, snake, nested)
          /\ c \in Manager!ParseJson(lines, u)
      BY <1>3, <2>1 DEF FirstSection, Loaded
    <3> DEFINE v == IF nested THEN "WriteBack" ELSE l1.write
               h(e) == Lv(l1.size, l1.associativity, l1.blockSize, p, e, l1.replacement, v)
               n == UnderstoodAs(l, l1.blockSize, "JSON", nested)
    <3>4. PICK e : JsonMeans(u, l1, l, p, e, nested, x, z)
      BY <1>1, <1>2, <1>3, <3>1, JsonLoaded
    <3>2. \A a :
            /\ a \in {x \o <<>>, <<>> \o x} => Manager!ParseJson(a, u) = {Cf(h(e), {})}
            /\ a \in {x \o z, z \o x} => Manager!ParseJson(a, u) = {Cf(h(e), One(n))}
      BY <3>4 DEF JsonMeans
    <3>3. h(e) = k(p, e) /\ n = m(l)
      BY <2>1
    <3> HIDE DEF h, k, m, n, lines
    <3> QED  BY <3>1, <3>2, <3>3
  <2>2. CASE fmt = "INI"
    <3>1. /\ x = Manager!IniSection("L1Cache", l1)
          /\ z = Manager!IniSection("L2Cache", l)
          /\ c \in Manager!ParseIni(lines, u)
      BY <1>3, <2>2 DEF FirstSection, Loaded
    <3> DEFINE h == Lv(l1.size, l1.associativity, l1.blockSize, l1.prefetch, l1.distance, l1.replacement,
                       "WriteBack")
               n == Lv(l.size, l.associativity, l1.blockSize, l.prefetch, l.distance, l.replacement,
                       "WriteBack")
    <3>5. IniMeans(c, lines, l1, l, x, z)
      <4> HIDE DEF lines
      <4> QED  BY <1>1, <1>2, <1>3, <3>1, IniLoaded
    <3>2. /\ lines \in {x \o <<>>, <<>> \o x} => c = Cf(h, {})
          /\ lines \in {x \o z, z \o x} => c = Cf(h, One(n))
      BY <3>5 DEF IniMeans
    <3>3. h = k(l1.prefetch, l1.distance)
      BY <2>2
    <3>4. n = m(l)
      BY <2>2 DEF UnderstoodAs
    <3> HIDE DEF h, k, m, n, lines
    <3> QED  BY <3>2, <3>3, <3>4
  <2> QED  BY <2>1, <2>2
<1>6. \E q, d : c = Cf(k(q, d), k2)
  <2>0. \A l, z : Describes(l) /\ l.prefetch = FALSE /\ l.distance = 1 /\ Second(l, z) => Reads(l, z)
    BY <1>3 DEF Second, Reads
  <2>1. CASE l2 = {}
    <3>1. y = <<>> /\ k2 = {}
      BY <2>1 DEF SecondSection
    <3>2. \E l : Describes(l) /\ l.prefetch = FALSE /\ l.distance = 1
      <4> DEFINE no == FALSE
                 o == Lv(8, 8, 8, no, 1, "LRU", "WriteBack")
      <4> HIDE DEF no
      <4>2. o.prefetch = no /\ o.distance = 1 /\ o.replacement = "LRU" /\ o.write = "WriteBack"
        BY LevelFields
      <4> HIDE DEF o
      <4> QED  BY <4>2 DEF no, Describes, Manager!Replacements, Manager!WritePolicies
    <3>4. PICK o : Describes(o) /\ o.prefetch = FALSE /\ o.distance = 1
      BY <3>2
    <3> DEFINE z == IF fmt = "JSON" THEN Manager!JsonSection("l2", o, snake, nested)
                       ELSE Manager!IniSection("L2Cache", o)
    <3>5. Second(o, z)
      BY DEF Second
    <3> HIDE DEF z
    <3>6. Reads(o, z)
      BY <2>0, <3>4, <3>5
    <3>3. \E q, d : /\ lines \in {x \o <<>>, <<>> \o x} => c = Cf(k(q, d), {})
                    /\ lines \in {x \o z, z \o x} => c = Cf(k(q, d), One(m(o)))
      BY <3>6 DEF Reads
    <3> HIDE DEF k, m, k2
    <3> QED  BY <3>1, <3>3
  <2>2. CASE \E l : l2 = {l} /\ Written(l, B \cup {0})
    <3>1. PICK l : l2 = {l}
      BY <2>2
    <3>2. Describes(l) /\ l.prefetch = FALSE /\ l.distance = 1
      BY <3>1, <1>2
    <3>3. k2 = One(m(l))
      BY <3>1 DEF One
    <3>4. y = IF fmt = "JSON" THEN Manager!JsonSection("l2", l, snake, nested)
              ELSE Manager!IniSection("L2Cache", l)
      <4>1. l2 # {} /\ (CHOOSE a \in l2 : TRUE) = l
        BY <3>1
      <4> QED  BY <4>1 DEF SecondSection
    <3> HIDE DEF k, m, k2
    <3>5. \E q, d : /\ lines \in {x \o <<>>, <<>> \o x} => c = Cf(k(q, d), {})
                    /\ lines \in {x \o y, y \o x} => c = Cf(k(q, d), One(m(l)))
      BY <1>3, <3>2, <3>4
    <3> QED  BY <3>3, <3>5
  <2> QED  BY <2>1, <2>2
<1>4. PICK q, d : c = Cf(k(q, d), k2)
  BY <1>6
<1>5. Shape(Cf(k(q, d), k2)) /\ Told(Cf(k(q, d), k2), t)
  <2> DEFINE k1 == k(q, d)
  <2>1. k2 = AllUnderstood(l2, l1.blockSize, fmt, nested)
    BY DEF AllUnderstood
  <2>2. k1 = Lv(l1.size, l1.associativity, l1.blockSize, q, d, l1.replacement,
                IF fmt = "INI" \/ nested THEN "WriteBack" ELSE l1.write)
    OBVIOUS
  <2>3. \A l \in l2 : Full(l)
    BY <1>2
  <2>4. Full(l1) /\ (fmt = "INI" \/ l1.blockSize # 0)
    BY <1>2
  <2> HIDE DEF k1, k2
  <2> QED  BY <2>1, <2>2, <2>3, <2>4, ToldIs, ZenonT(40) DEF k1
<1> QED  BY <1>4, <1>5

\* A saved configuration.  Of what is written in JSON all but one line says nothing.
LEMMA ReadInVain ==
  ASSUME NEW fmt, NEW S, NEW lines \in Seq(S), NEW s, \A x \in S : LineRead(fmt, s, x) = s
  PROVE  Manager!ReadLines(fmt, lines, s) = s
<1> DEFINE n == Len(lines)
<1>1. n \in Nat /\ \A i \in 1 .. n : lines[i] \in S
  OBVIOUS
<1> HIDE DEF n
<1>2. PICK f : ReadsBy(f, fmt, lines, s, n) /\ Manager!ReadLines(fmt, lines, s) = f[n]
  BY <1>1, ReadLinesIs DEF n
<1> DEFINE Bad == {m \in Nat : m <= n /\ f[m] # s}
<1>3. Bad = {}
  <2> SUFFICES ASSUME Bad # {} PROVE FALSE
    OBVIOUS
  <2>1. PICK m \in Bad : \A k \in Bad : m <= k
    BY LeastNumber
  <2>2. m # 0 /\ m \in 1 .. n
    BY <2>1, <1>1, <1>2 DEF ReadsBy
  <2>3. m - 1 \in Nat /\ m - 1 <= n /\ m - 1 \notin Bad
    BY <1>1, <2>1, <2>2
  <2>4. f[m - 1] = s
    BY <2>3
  <2>5. f[m] = s
    BY <2>2, <2>4, <1>1, <1>2 DEF ReadsBy
  <2> QED  BY <2>1, <2>5
<1> QED  BY <1>1, <1>2, <1>3

LEMMA UnknownKeys ==
  ASSUME NEW a, NEW v, NEW n \in {"l1_size", "l1_assoc", "prefetch_enabled", "prefetch_distance",
                                  "l2_size", "l2_assoc", "use_stride_prediction",
                                  "use_adaptive_prefetching"}
  PROVE  LineRead("JSON", St("none", a, {}), Manager!Key(n, v)) = St("none", a, {})
<1> DEFINE k == Manager!Normalized(n)
           e == {}
<1>1. k = n
  BY DEF Manager!Normalized
<1>2. Manager!JsonSet(a, n, v) = a
  BY DEF Manager!JsonSet
<1> HIDE DEF e, k
<1>3. LineRead("JSON", St("none", a, e), Manager!Key(n, v)) = St("none", Manager!JsonSet(a, Manager!Normalized(n), v), e)
  BY JsonReads
<1> QED  BY <1>1, <1>2, <1>3 DEF e, k

LEMMA SavedJson ==
  ASSUME NEW c, NEW g, NEW p, NEW u, u = UnsetLevel(g, p)
  PROVE  Manager!ReadLines("JSON", Manager!WrittenJson(c), St("none", u, {})) =
           St("none", Lv(g, g, c.l1.blockSize, p, g, "LRU", "WriteBack"), {})
<1> DEFINE l == CHOOSE l \in c.l2 : TRUE
           x1 == Manager!Key("l1_size", c.l1.size)
           x2 == Manager!Key("l1_assoc", c.l1.associativity)
           x3 == Manager!Key("block_size", c.l1.blockSize)
           x4 == Manager!Key("prefetch_enabled", c.l1.prefetch)
           x5 == Manager!Key("prefetch_distance", c.l1.distance)
           y1 == Manager!Key("l2_size", 0)
           y2 == Manager!Key("l2_assoc", 0)
           y3 == Manager!Key("l2_size", l.size)
           y4 == Manager!Key("l2_assoc", l.associativity)
           z1 == Manager!Key("use_stride_prediction", c.stride)
           z2 == Manager!Key("use_adaptive_prefetching", c.adaptive)
           z3 == Manager!Close
           V == {x1, x2, x4, x5, y1, y2, y3, y4, z1, z2, z3}
           S == V \cup {x3}
           y == IF c.l2 = {} THEN <<y1, y2>> ELSE <<y3, y4>>
           R(lines, s) == Manager!ReadLines("JSON", lines, s)
           u2 == Lv(g, g, c.l1.blockSize, p, g, "LRU", "WriteBack")
           s1 == St("none", u, {})
           s2 == St("none", u2, {})
<1>1. \A a : \A x \in V : LineRead("JSON", St("none", a, {}), x) = St("none", a, {})
  <2> SUFFICES ASSUME NEW a PROVE \A x \in V : LineRead("JSON", St("none", a, {}), x) = St("none", a, {})
    OBVIOUS
  <2> DEFINE s == St("none", a, {})
             Stays(x) == LineRead("JSON", s, x) = s
  <2>1. Stays(x1) /\ Stays(x2) /\ Stays(x4) /\ Stays(x5)
    BY UnknownKeys
  <2>2. Stays(y1) /\ Stays(y2) /\ Stays(y3) /\ Stays(y4)
    BY UnknownKeys
  <2>3. Stays(z1) /\ Stays(z2)
    BY UnknownKeys
  <2>4. Stays(z3)
    BY JsonOpens
  <2> HIDE DEF Stays, x1, x2, x4, x5, y1, y2, y3, y4, z1, z2, z3
  <2>5. \A x \in V : Stays(x)
    BY <2>1, <2>2, <2>3, <2>4
  <2> QED  BY <2>5 DEF Stays
<1>2. LineRead("JSON", s1, x3) = s2
  BY JsonReads, NormalNames, JsonSets DEF UnsetLevel
<1>3. Manager!WrittenJson(c) = (<<x1, x2, x3, x4, x5>> \o y) \o <<z1, z2, z3>>
  BY DEF Manager!WrittenJson
<1> HIDE DEF x1, x2, x3, x4, x5, y1, y2, y3, y4, z1, z2, z3
<1>4. <<x1, x2, x3, x4, x5>> = (<<x1, x2>> \o <<x3>>) \o <<x4, x5>>
  OBVIOUS
<1> DEFINE p1 == <<x1, x2>>
           p2 == <<x3>>
           p3 == <<x4, x5>>
           p5 == <<z1, z2, z3>>
           q2 == p1 \o p2
           q3 == q2 \o p3
           q4 == q3 \o y
<1>5. p1 \in Seq(V) /\ p3 \in Seq(V) /\ y \in Seq(V) /\ p5 \in Seq(V)
  <2>1. p1 \in Seq(V) /\ p3 \in Seq(V)
    OBVIOUS
  <2>2. <<y1, y2>> \in Seq(V) /\ <<y3, y4>> \in Seq(V)
    OBVIOUS
  <2>3. p5 \in Seq(V)
    OBVIOUS
  <2> QED  BY <2>1, <2>2, <2>3
<1>6. p1 \in Seq(S) /\ p2 \in Seq(S) /\ p3 \in Seq(S) /\ y \in Seq(S) /\ p5 \in Seq(S)
  <2>1. p1 \in Seq(S) /\ p3 \in Seq(S) /\ p2 \in Seq(S)
    OBVIOUS
  <2>2. <<y1, y2>> \in Seq(S) /\ <<y3, y4>> \in Seq(S)
    OBVIOUS
  <2>3. p5 \in Seq(S)
    OBVIOUS
  <2> QED  BY <2>1, <2>2, <2>3
<1>14. /\ \A x \in V : LineRead("JSON", s1, x) = s1
       /\ \A x \in V : LineRead("JSON", s2, x) = s2
  <2> HIDE DEF V, u2
  <2> QED  BY <1>1
<1>15. R(p2, s1) = s2
  BY <1>2, ReadOne
<1> HIDE DEF V, S, y, s1, s2, p1, p2, p3, p5
<1>7. R(p1, s1) = s1
  BY <1>5, <1>14, ReadInVain
<1>9. R(p3, s2) = s2 /\ R(y, s2) = s2 /\ R(p5, s2) = s2
  BY <1>5, <1>14, ReadInVain
<1>10. q2 \in Seq(S) /\ R(q2, s1) = s2
  BY <1>6, <1>7, <1>15, ConcatProperties, ReadThen
<1> HIDE DEF q2
<1>11. q3 \in Seq(S) /\ R(q3, s1) = s2
  BY <1>6, <1>9, <1>10, ConcatProperties, ReadThen
<1> HIDE DEF q3
<1>12. q4 \in Seq(S) /\ R(q4, s1) = s2
  BY <1>6, <1>9, <1>11, ConcatProperties, ReadThen
<1> HIDE DEF q4
<1>13. R(q4 \o p5, s1) = s2
  BY <1>6, <1>9, <1>12, ReadThen
<1> QED  BY <1>3, <1>4, <1>13 DEF p1, p2, p3, p5, y, q2, q3, q4, s1, s2

LEMMA SavedIni ==
  ASSUME NEW c, NEW u
  PROVE  Manager!ParseIni(Manager!WrittenIni(c), u) = {}
<1> DEFINE l == IF c.l2 = {} THEN Manager!Zeroed ELSE CHOOSE l \in c.l2 : TRUE
           x1 == Manager!Open("General")
           x2 == Manager!Blank
           x3 == Manager!Open("L1Cache")
           x4 == Manager!Key("size", c.l1.size)
           x5 == Manager!Key("associativity", c.l1.associativity)
           x6 == Manager!Key("block_size", c.l1.blockSize)
           x7 == Manager!Key("prefetch_enabled", c.l1.prefetch)
           x8 == Manager!Key("prefetch_distance", c.l1.distance)
           x9 == Manager!Open("L2Cache")
           y1 == Manager!Key("size", l.size)
           y2 == Manager!Key("associativity", l.associativity)
           y3 == Manager!Key("prefetch_enabled", l.prefetch)
           y4 == Manager!Key("prefetch_distance", l.distance)
           z1 == Manager!Open("Prefetching")
           z2 == Manager!Key("use_stride_prediction", c.stride)
           z3 == Manager!Key("use_adaptive_prefetching", c.adaptive)
           S == {x1, x2, x3, x4, x5, x6, x7, x8, x9, y1, y2, y3, y4, z1, z2, z3}
           a == <<x1, x2, x3, x4, x5, x6, x7, x8, x2, x9>>
           b == <<y1, y2, y3, y4, x2>>
           d == <<z1, z2, z3, x2>>
           lines == Manager!WrittenIni(c)
<1>1. lines = (a \o b) \o d
  BY DEF Manager!WrittenIni
<1>2. x2.kind = "blank"
  BY LineFields DEF Manager!Blank
<1> HIDE DEF x1, x2, x3, x4, x5, x6, x7, x8, x9, y1, y2, y3, y4, z1, z2, z3
<1>3. a \in Seq(S) /\ b \in Seq(S) /\ d \in Seq(S)
  <2>1. a \in Seq(S)
    OBVIOUS
  <2>2. b \in Seq(S)
    OBVIOUS
  <2>3. d \in Seq(S)
    OBVIOUS
  <2> QED  BY <2>1, <2>2, <2>3
<1>4. Len(a) = 10 /\ a[2] = x2
  OBVIOUS
<1> HIDE DEF S, a, b, d, lines
<1>5. a \o b \in Seq(S) /\ Len(a \o b) \in Nat /\ Len(a \o b) >= 10 /\ (a \o b)[2] = x2
  <2>1. a \o b \in Seq(S) /\ Len(a \o b) = Len(a) + Len(b) /\ Len(b) \in Nat
    BY <1>3, ConcatProperties, LenProperties
  <2>2. \A i \in 1 .. Len(a) : (a \o b)[i] = a[i]
    BY <1>3, ConcatProperties
  <2> QED  BY <1>4, <2>1, <2>2
<1>6. 2 \in DOMAIN lines /\ lines[2] = x2
  BY <1>1, <1>3, <1>5, ConcatProperties, LenProperties
<1> QED  BY <1>2, <1>6 DEF Manager!ParseIni, lines

LEMMA SavedIsTold ==
  ASSUME NEW c, NEW fmt \in {"JSON", "INI"}, NEW f, f.format = fmt,
         f.lines = IF fmt = "JSON" THEN Manager!WrittenJson(c) ELSE Manager!WrittenIni(c),
         NEW t, t.format = fmt, t.saved = TRUE, t.hierarchy = c
  PROVE  About(f, t)
<1> SUFFICES ASSUME NEW u \in Manager!Unset, NEW d \in Loaded(f, u) PROVE Shape(d) /\ Told(d, t)
  BY DEF About
<1>1. fmt = "JSON" /\ d \in Manager!ParseJson(Manager!WrittenJson(c), u)
  BY SavedIni DEF Loaded
<1>2. PICK g, p : u = UnsetLevel(g, p)
  BY UnsetLevels DEF UnsetLevel
<1> DEFINE b == c.l1.blockSize
           r == "LRU"
           w == "WriteBack"
           e == Manager!AtLeastOne(g)
           k == Lv(g, g, b, p, e, r, w)
           x == Lv(g, g, b, p, g, r, w)
<1>3. d = Manager!JsonCompleted(St("none", x, {}).config)
  <2>1. d = Manager!JsonCompleted(Manager!ReadLines("JSON", Manager!WrittenJson(c), St("none", u, {})).config)
    BY <1>1, StartIs DEF Manager!ParseJson
  <2> QED  BY <1>2, <2>1, SavedJson
<1>4. d = Cf(k, {})
  <2> HIDE DEF b, r, w, e
  <2>1. Manager!JsonCompleted(St("none", x, {}).config) = Cf(k, {})
    <3>1. /\ Manager!JsonCompleted(St("none", x, {}).config) = Cf(k, {})
          /\ Manager!JsonCompleted(St("none", x, One(x)).config) =
               Cf(k, One(Lv(g, g, IF b = 0 THEN b ELSE b, p, e, r, w)))
      BY JsonDone DEF e
    <3> QED  BY <3>1
  <2> QED  BY <1>3, <2>1
<1>5. Full(k) /\ k.blockSize = b
  BY LevelsAreFull, LevelFields
<1>6. Shape(d) /\ d.l1 = k /\ d.l2 = {}
  <2> HIDE DEF k
  <2> QED  BY <1>4, <1>5, ConfigurationsHaveShape
<1> HIDE DEF k
<1> QED  BY <1>1, <1>5, <1>6 DEF Told

\* The manager keeps: variants only of a configuration that no file was read for, a
\* configuration made without a file in step, and files about what they are said to be.
ManagerInv ==
  /\ config = {} \/ told # {} => variant = {}
  /\ file # {} => config = {} /\ told # {}
  /\ told = {} => \A c \in config \cup variant : Made(c)
  /\ \A f \in file : f.format \in {"JSON", "INI"}
  /\ \A f \in file, t \in told : About(f, t)
  /\ file = {} => \A c \in config, t \in told : Shape(c) /\ Told(c, t)

LEMMA ManagerStart == Manager!Init => ManagerInv
BY DEF Manager!Init, ManagerInv

LEMMA ManagerCreates ==
  ASSUME ManagerInv, config = {}, file = {}, NEW c, Made(c), config' = {c}, told' = {},
         UNCHANGED <<variant, file>>
  PROVE  ManagerInv'
BY DEF ManagerInv

LEMMA ManagerWrites ==
  ASSUME ManagerInv, config = {}, file = {}, NEW fmt \in {"JSON", "INI"},
         NEW l1 \in Manager!Described(Associativities, BlockSizes \ {0}),
         NEW l2 \in {{}} \cup {{l} : l \in Manager!Described({8}, BlockSizes \cup {0})},
         NEW snake, NEW nested, NEW l2First,
         Manager!WriteFile(fmt, l1, l2, snake, nested, l2First)
  PROVE  ManagerInv'
<1> DEFINE B == BlockSizes \ {0}
           x == FirstSection(fmt, l1, snake, nested)
           y == SecondSection(fmt, l2, snake, nested)
           h == Manager!Hierarchy(Manager!Understood(l1, l1, fmt, nested),
                                  {Manager!Understood(l, l1, fmt, nested) : l \in l2}, FALSE)
           f == [format |-> fmt, lines |-> IF l2First THEN y \o x ELSE x \o y]
           t == [format |-> fmt, saved |-> FALSE, hierarchy |-> h]
<1>1. file' = {f} /\ told' = {t} /\ UNCHANGED <<config, variant>>
  BY DEF Manager!WriteFile, FirstSection, SecondSection
<1>2. Written(l1, B) /\ l1.blockSize # 0
  <2>1. l1 \in Manager!Described(Associativities, B)
    OBVIOUS
  <2>2. 0 \notin B
    OBVIOUS
  <2> HIDE DEF B
  <2>3. Written(l1, B)
    BY <2>1, WrittenLevels
  <2> QED  BY <2>2, <2>3 DEF Written
<1>3. l2 = {} \/ \E l : l2 = {l} /\ Written(l, B \cup {0})
  <2>1. CASE l2 = {}
    BY <2>1
  <2>2. CASE l2 # {}
    <3>1. PICK l \in Manager!Described({8}, BlockSizes \cup {0}) : l2 = {l}
      BY <2>2
    <3>2. Written(l, BlockSizes \cup {0})
      BY WrittenLevels
    <3>3. BlockSizes \cup {0} = B \cup {0}
      OBVIOUS
    <3> QED  BY <3>1, <3>2, <3>3
  <2> QED  BY <2>1, <2>2
<1>4. TellsOf(t, fmt, nested, l1, l2)
  BY DEF TellsOf
<1>5. f.format = fmt /\ (f.lines = x \o y \/ f.lines = y \o x)
  OBVIOUS
<1> HIDE DEF x, y, f, t, B
<1>6. About(f, t)
  BY <1>2, <1>3, <1>4, <1>5, LoadedIsTold DEF x, y
<1> QED  BY <1>1, <1>5, <1>6 DEF ManagerInv

LEMMA ManagerSaves ==
  ASSUME ManagerInv, NEW fmt \in {"JSON", "INI"}, Manager!SaveConfig(fmt)
  PROVE  ManagerInv'
<1> DEFINE lines(c) == IF fmt = "JSON" THEN Manager!WrittenJson(c) ELSE Manager!WrittenIni(c)
<1>1. PICK c \in config :
        /\ file' = {[format |-> fmt, lines |-> lines(c)]}
        /\ told' = {[format |-> fmt, saved |-> TRUE, hierarchy |-> c]}
  BY DEF Manager!SaveConfig
<1> DEFINE f == [format |-> fmt, lines |-> lines(c)]
           t == [format |-> fmt, saved |-> TRUE, hierarchy |-> c]
<1>2. f.format = fmt /\ f.lines = IF fmt = "JSON" THEN Manager!WrittenJson(c) ELSE Manager!WrittenIni(c)
  OBVIOUS
<1>3. t.format = fmt /\ t.saved = TRUE /\ t.hierarchy = c
  OBVIOUS
<1>4. file' = {f} /\ told' = {t} /\ variant = {} /\ config' = {} /\ variant' = variant
  BY <1>1 DEF Manager!SaveConfig
<1> HIDE DEF f, t, lines
<1>5. About(f, t)
  BY <1>2, <1>3, SavedIsTold
<1> QED  BY <1>2, <1>4, <1>5 DEF ManagerInv

LEMMA ManagerLoads == ASSUME ManagerInv, Manager!LoadConfig PROVE ManagerInv'
<1>1. PICK f \in file, u \in Manager!Unset : config' = Loaded(f, u)
  BY DEF Manager!LoadConfig, Loaded
<1>2. config = {} /\ file' = {} /\ told' = (IF config' = {} THEN {} ELSE told) /\ variant' = variant
  BY DEF Manager!LoadConfig
<1>3. variant = {} /\ told # {}
  BY <1>1, <1>2 DEF ManagerInv
<1>4. \A c \in config', t \in told : Shape(c) /\ Told(c, t)
  BY <1>1 DEF ManagerInv, About
<1> QED  BY <1>2, <1>3, <1>4 DEF ManagerInv

DefaultIs(on) ==
  Manager!Hierarchy(Manager!Level(32768, 4, 64, on, 4), {Manager!Level(262144, 8, 64, on, 4)}, on)

LEMMA DefaultIsMade == ASSUME NEW on \in BOOLEAN PROVE Made(DefaultIs(on))
<1> DEFINE c == DefaultIs(on)
           l1 == Manager!Level(32768, 4, 64, on, 4)
           k == Manager!Level(262144, 8, 64, on, 4)
           l2 == {k}
<1>1. c = [l1 |-> l1, l2 |-> l2, l3 |-> {}, stride |-> on, adaptive |-> on]
  BY DEF Manager!Hierarchy, DefaultIs
<1> HIDE DEF c
<1>2. Plain(l1) /\ Plain(k) /\ InStep(k, l1)
  BY LevelIs, LevelFields DEF InStep
<1> HIDE DEF l1, k
<1>3. (\A l \in l2 : Plain(l) /\ InStep(l, l1)) /\ \A l, m \in l2 : l = m
  BY <1>2
<1> HIDE DEF l2
<1> QED  BY <1>1, <1>2, <1>3, MadeOf DEF c

LEMMA ManagerStep == ManagerInv /\ [Manager!Next]_manager => ManagerInv'
<1> SUFFICES ASSUME ManagerInv, [Manager!Next]_manager PROVE ManagerInv'
  OBVIOUS
<1>1. CASE UNCHANGED manager
  BY <1>1 DEF manager, ManagerInv
<1>2. CASE Manager!Begin
  <2>1. config = {} /\ file = {}
    BY <1>2 DEF Manager!Begin
  <2>2. ASSUME NEW a \in Manager!Arguments, Manager!CreateFromCommandLine(a) PROVE ManagerInv'
    BY <2>1, <2>2, RequestedIsMade, ManagerCreates DEF Manager!CreateFromCommandLine
  <2>3. ASSUME NEW a \in Manager!Arguments, Manager!ParseConfigString(a) PROVE ManagerInv'
    BY <2>1, <2>3, RequestedIsMade, ManagerCreates DEF Manager!ParseConfigString
  <2>4. CASE Manager!GetDefaultConfig
    <3> DEFINE c == DefaultIs(TRUE)
    <3>1. config' = {c} /\ told' = {} /\ UNCHANGED <<variant, file>>
      BY <2>4 DEF Manager!GetDefaultConfig, DefaultIs
    <3>2. Made(c)
      BY DefaultIsMade
    <3> HIDE DEF c
    <3> QED  BY <2>1, <3>1, <3>2, ManagerCreates
  <2> QED  BY <1>2, <2>1, <2>2, <2>3, <2>4, ManagerWrites DEF Manager!Begin
<1>3. ASSUME NEW p, NEW v, Manager!Sweep(p, v) PROVE ManagerInv'
  <2>1. PICK c \in config : told = {} /\ variant' = {Manager!Swept(c, p, v)} /\ UNCHANGED <<config, file, told>>
    BY <1>3 DEF Manager!Sweep
  <2>2. Made(c)
    BY <2>1 DEF ManagerInv
  <2>3. Made(Manager!Swept(c, p, v))
    BY <2>2, SweptIsMade
  <2> QED  BY <2>1, <2>3 DEF ManagerInv
<1>4. ASSUME NEW on \in BOOLEAN, Manager!SweepPrefetch(on) PROVE ManagerInv'
  <2>1. PICK c \in config : told = {} /\ variant' = {Manager!Prefetching(c, on)} /\ UNCHANGED <<config, file, told>>
    BY <1>4 DEF Manager!SweepPrefetch
  <2>2. Made(c)
    BY <2>1 DEF ManagerInv
  <2>3. Made(Manager!Prefetching(c, on))
    BY <2>2, PrefetchingIsMade
  <2> QED  BY <2>1, <2>3 DEF ManagerInv
<1>5. CASE Manager!Adopt
  BY <1>5 DEF Manager!Adopt, ManagerInv
<1>6. ASSUME NEW fmt \in {"JSON", "INI"}, Manager!SaveConfig(fmt) PROVE ManagerInv'
  BY <1>6, ManagerSaves
<1>7. CASE Manager!LoadConfig
  BY <1>7, ManagerLoads
<1> QED  BY <1>1, <1>2, <1>3, <1>4, <1>5, <1>6, <1>7 DEF Manager!Next

LEMMA MadeHasShape == ASSUME NEW c, Made(c) PROVE Shape(c)
<1>1. \A l : Plain(l) => Full(l)
  <2> SUFFICES ASSUME NEW l, Plain(l) PROVE Full(l)
    OBVIOUS
  <2> DEFINE s == l.size
             a == l.associativity
             b == l.blockSize
             p == l.prefetch
             d == l.distance
             k == Lv(s, a, b, p, d, "LRU", "WriteBack")
  <2>1. l = k
    BY DEF Plain
  <2>2. Full(k)
    BY LevelsAreFull
  <2> QED  BY <2>1, <2>2
<1> QED  BY <1>1 DEF Made, Shape

LEMMA ShapesHaveFields ==
  ASSUME NEW c, Shape(c)
  PROVE  /\ DOMAIN c = {"l1", "l2", "l3", "stride", "adaptive"}
         /\ \A l \in {c.l1} \cup c.l2 : DOMAIN l = DOMAIN Manager!Zeroed
<1>1. DOMAIN c = {"l1", "l2", "l3", "stride", "adaptive"}
  <2> DEFINE a == c.l1
             b == c.l2
             d == c.l3
             e == c.stride
             f == c.adaptive
  <2>1. c = [l1 |-> a, l2 |-> b, l3 |-> d, stride |-> e, adaptive |-> f]
    BY DEF Shape, Whole
  <2> HIDE DEF a, b, d, e, f
  <2> QED  BY <2>1
<1>2. \A l : Full(l) => DOMAIN l = DOMAIN Manager!Zeroed
  <2> SUFFICES ASSUME NEW l, Full(l) PROVE DOMAIN l = DOMAIN Manager!Zeroed
    OBVIOUS
  <2> DEFINE s == l.size
             a == l.associativity
             b == l.blockSize
             p == l.prefetch
             d == l.distance
             r == l.replacement
             w == l.write
  <2>1. l = [size |-> s, associativity |-> a, blockSize |-> b, prefetch |-> p, distance |-> d,
             replacement |-> r, write |-> w]
    BY DEF Full, Lv
  <2>2. DOMAIN Manager!Zeroed = {"size", "associativity", "blockSize", "prefetch", "distance",
                                 "replacement", "write"}
    BY DEF Manager!Zeroed
  <2> HIDE DEF s, a, b, p, d, r, w
  <2> QED  BY <2>1, <2>2
<1> QED  BY <1>1, <1>2 DEF Shape

LEMMA ManagerKeeps ==
  ManagerInv => Manager!TypeOK /\ Manager!ComparedInFull /\ Manager!FilesAreRead
<1> SUFFICES ASSUME ManagerInv PROVE Manager!TypeOK /\ Manager!ComparedInFull /\ Manager!FilesAreRead
  OBVIOUS
<1>1. \A c \in config \cup variant : Shape(c)
  <2>1. CASE told = {}
    BY <2>1, MadeHasShape DEF ManagerInv
  <2>2. CASE told # {}
    BY <2>2 DEF ManagerInv
  <2> QED  BY <2>1, <2>2
<1>2. Manager!TypeOK
  BY <1>1, ShapesHaveFields DEF Manager!TypeOK, ManagerInv, Manager!Levels, Shape
<1>3. Manager!ComparedInFull
  <2> SUFFICES ASSUME told = {}, NEW c \in config
               PROVE  /\ \A l \in c.l2 : \A f \in {"blockSize", "prefetch", "distance"} : l[f] = c.l1[f]
                      /\ \A v \in variant : v # c <=> Manager!DiffersIn(c, v) # {}
    BY DEF Manager!ComparedInFull
  <2>1. Made(c) /\ \A v \in variant : Made(v)
    BY DEF ManagerInv
  <2>2. \A l \in c.l2 : InStep(l, c.l1)
    BY <2>1 DEF Made
  <2>3. \A l \in c.l2 : \A f \in {"blockSize", "prefetch", "distance"} : l[f] = c.l1[f]
    BY <2>2 DEF InStep
  <2>4. \A v \in variant : v # c <=> Manager!DiffersIn(c, v) # {}
    BY <2>1, DifferencesAreFound
  <2> QED  BY <2>3, <2>4
<1>4. Manager!FilesAreRead
  BY DEF ManagerInv, Manager!FilesAreRead, Told
<1> QED  BY <1>2, <1>3, <1>4

\* Configurations made without a file keep L1 and L2 in step through all sweeps, and
\* compareConfigs then tells any two of them apart.
THEOREM DifferencesAreAllFound == StructuresSpec => []ComparedInFull
<1> DEFINE P == part = "manager" => ManagerInv
<1>1. StructuresInit => P
  BY ManagerStart DEF StructuresInit
<1>2. P /\ [StructuresNext]_structures => P'
  BY ManagerStep, StepOfThePart
<1>3. P => ComparedInFull
  BY ManagerKeeps DEF ComparedInFull, Promised
<1> HIDE DEF P
<1> QED  BY <1>1, <1>2, <1>3, PTL DEF StructuresSpec

\* What a file that a user wrote says of the levels is what is loaded from it, whatever
\* was in the uninitialised L1.
THEOREM FilesSayWhatIsLoaded == StructuresSpec => []FilesAreRead
<1> DEFINE P == part = "manager" => ManagerInv
<1>1. StructuresInit => P
  BY ManagerStart DEF StructuresInit
<1>2. P /\ [StructuresNext]_structures => P'
  BY ManagerStep, StepOfThePart
<1>3. P => FilesAreRead
  BY ManagerKeeps DEF FilesAreRead, Promised
<1> HIDE DEF P
<1> QED  BY <1>1, <1>2, <1>3, PTL DEF StructuresSpec

-----------------------------------------------------------------------------
\* The victim cache.  The numbers that are kept of a queue, in their order.
Orders(f, K, n) ==
  f = [k \in 0 .. n |-> IF k = 0 THEN <<>> ELSE IF k \in K THEN Append(f[k - 1], k) ELSE f[k - 1]]

LEMMA OrderExists ==
  ASSUME NEW K, NEW n \in Nat
  PROVE  \E f : Orders(f, K, n)
<1> DEFINE Bad == {m \in Nat : ~ \E f : Orders(f, K, m)}
<1> SUFFICES ASSUME Bad # {} PROVE FALSE
  OBVIOUS
<1>1. PICK m \in Bad : \A k \in Bad : m <= k
  BY LeastNumber
<1>2. CASE m = 0
  <2> DEFINE f == [k \in 0 .. 0 |-> <<>>]
  <2>1. Orders(f, K, 0)
    BY DEF Orders
  <2> QED  BY <1>1, <1>2, <2>1
<1>3. CASE m # 0
  <2>1. m - 1 \in Nat /\ m - 1 \notin Bad
    BY <1>1, <1>3
  <2>2. PICK g : Orders(g, K, m - 1)
    BY <2>1
  <2> DEFINE f == [k \in 0 .. m |-> IF k <= m - 1 THEN g[k]
                                    ELSE IF m \in K THEN Append(g[m - 1], m) ELSE g[m - 1]]
  <2>3. \A k \in 0 .. m : f[k] = IF k = 0 THEN <<>> ELSE IF k \in K THEN Append(f[k - 1], k) ELSE f[k - 1]
    <3> TAKE k \in 0 .. m
    <3>1. CASE k <= m - 1
      <4>1. k \in 0 .. m - 1 /\ (k # 0 => k - 1 \in 0 .. m - 1 /\ k - 1 \in 0 .. m)
        BY <2>1, <3>1
      <4>2. g[k] = IF k = 0 THEN <<>> ELSE IF k \in K THEN Append(g[k - 1], k) ELSE g[k - 1]
        BY <2>2, <4>1 DEF Orders
      <4>3. f[k] = g[k] /\ (k # 0 => f[k - 1] = g[k - 1])
        BY <3>1, <4>1
      <4> HIDE DEF f
      <4> QED  BY <4>2, <4>3
    <3>2. CASE k = m
      <4>1. k # 0 /\ ~(k <= m - 1) /\ m - 1 \in 0 .. m /\ m - 1 <= m - 1
        BY <1>1, <1>3, <3>2
      <4>2. f[m - 1] = g[m - 1]
        BY <4>1
      <4>3. f[m] = IF m \in K THEN Append(g[m - 1], m) ELSE g[m - 1]
        BY <3>2, <4>1
      <4> HIDE DEF f
      <4> QED  BY <3>2, <4>1, <4>2, <4>3
    <3> QED  BY <1>1, <3>1, <3>2
  <2>4. f = [k \in 0 .. m |-> f[k]]
    OBVIOUS
  <2> HIDE DEF f
  <2>5. Orders(f, K, m)
    BY <2>3, <2>4 DEF Orders
  <2> QED  BY <1>1, <2>5
<1> QED  BY <1>2, <1>3

\* They are among those that are to be kept.
LEMMA OrderedLists ==
  ASSUME NEW n \in Nat, NEW K \in SUBSET (1 .. n)
  PROVE  Victims!Ordered(K, n) \in Seq(K)
<1> DEFINE f == CHOOSE g : Orders(g, K, n)
<1>1. Victims!Ordered(K, n) = f[n]
  BY DEF Victims!Ordered, Orders
<1>2. Orders(f, K, n)
  BY OrderExists
<1> HIDE DEF f
<1>3. /\ f[0] = <<>>
      /\ \A k \in 1 .. n : f[k] = IF k \in K THEN Append(f[k - 1], k) ELSE f[k - 1]
  <2>1. \A k \in 0 .. n : f[k] = IF k = 0 THEN <<>> ELSE IF k \in K THEN Append(f[k - 1], k) ELSE f[k - 1]
    BY <1>2, Zenon DEF Orders
  <2>2. 0 \in 0 .. n /\ \A k \in 1 .. n : k \in 0 .. n /\ k # 0
    OBVIOUS
  <2> QED  BY <2>1, <2>2
<1> DEFINE Bad == {m \in Nat : m <= n /\ f[m] \notin Seq(K)}
<1>4. Bad = {}
  <2> SUFFICES ASSUME Bad # {} PROVE FALSE
    OBVIOUS
  <2>1. PICK m \in Bad : \A k \in Bad : m <= k
    BY LeastNumber
  <2>2. f[0] \in Seq(K)
    BY <1>3
  <2>3. m # 0 /\ m \in 1 .. n
    BY <2>1, <2>2
  <2>4. m - 1 \in Nat /\ m - 1 <= n /\ m - 1 \notin Bad
    BY <2>1, <2>3
  <2>5. f[m - 1] \in Seq(K)
    BY <2>4
  <2>6. CASE m \in K
    <3>1. Append(f[m - 1], m) \in Seq(K)
      BY <2>5, <2>6, AppendProperties
    <3> QED  BY <2>1, <2>3, <2>6, <3>1, <1>3
  <2>7. CASE m \notin K
    BY <2>1, <2>3, <2>5, <2>7, <1>3
  <2> QED  BY <2>6, <2>7
<1>5. f[n] \in Seq(K)
  BY <1>4
<1> QED  BY <1>1, <1>5

LEMMA AnArrayIsASequence ==
  ASSUME NEW S, NEW n \in Nat, NEW w \in [1 .. n -> S]
  PROVE  w \in Seq(S) /\ Len(w) = n
  OBVIOUS

\* What is left of a queue consists of what was in it.
LEMMA WithoutIs ==
  ASSUME NEW S, NEW q \in Seq(S), NEW X
  PROVE  Victims!Without(q, X) \in Seq(S)
<1> DEFINE K == DOMAIN q \ Victims!Firsts(q, X)
           p == Victims!Ordered(K, Len(q))
           w == Victims!Without(q, X)
<1>1. Len(q) \in Nat /\ DOMAIN q = 1 .. Len(q) /\ \A k \in 1 .. Len(q) : q[k] \in S
  OBVIOUS
<1>2. K \in SUBSET (1 .. Len(q))
  BY <1>1
<1> HIDE DEF K
<1>3. p \in Seq(K)
  BY <1>1, <1>2, OrderedLists
<1>4. w = [j \in DOMAIN p |-> q[p[j]]]
  BY DEF Victims!Without, K
<1> HIDE DEF p, w
<1>5. Len(p) \in Nat /\ DOMAIN p = 1 .. Len(p) /\ \A j \in 1 .. Len(p) : p[j] \in K
  BY <1>3
<1>6. w = [j \in 1 .. Len(p) |-> q[p[j]]]
  BY <1>4, <1>5
<1>7. \A j \in 1 .. Len(p) : q[p[j]] \in S
  BY <1>1, <1>2, <1>5
<1>8. w \in [1 .. Len(p) -> S]
  BY <1>6, <1>7
<1> QED  BY <1>5, <1>8, AnArrayIsASequence DEF w

\* No two slots have the same address.
Apart(b) == \A i, j \in DOMAIN b : b[i].addr = b[j].addr => i = j

\* Blocks lose their validity, and nothing else.
Emptied(b, c, gone) ==
  /\ DOMAIN c = DOMAIN b
  /\ \A i \in DOMAIN b : c[i].addr = b[i].addr /\ (c[i].valid <=> b[i].valid /\ i \notin gone)

LEMMA CountUpTo ==
  ASSUME NEW n \in Nat
  PROVE  IsFiniteSet(1 .. n) /\ Cardinality(1 .. n) = n
<1>1. 1 \in Int /\ n \in Int
  OBVIOUS
<1>2. IsFiniteSet(1 .. n) /\ Cardinality(1 .. n) = IF 1 > n THEN 0 ELSE n - 1 + 1
  BY <1>1, FS_Interval
<1> QED  BY <1>2

\* A block comes to a slot.
Taken(b, c, s, a) ==
  /\ DOMAIN c = DOMAIN b \cup {s} /\ c[s].addr = a
  /\ \A i \in DOMAIN b \ {s} : c[i] = b[i]

\* The slots: what they hold, and what happens to one of them.
Slot == [addr : Addresses, valid : BOOLEAN]
LEMMA SlotsHold ==
  ASSUME NEW b \in Seq(Slot)
  PROVE  /\ Len(b) \in Nat /\ DOMAIN b = 1 .. Len(b) /\ b \in [1 .. Len(b) -> Slot]
         /\ \A i \in DOMAIN b : b[i].addr \in Addresses /\ b[i].valid \in BOOLEAN
<1>1. Len(b) \in Nat /\ DOMAIN b = 1 .. Len(b) /\ b \in [1 .. Len(b) -> Slot]
  OBVIOUS
<1> QED  BY <1>1 DEF Slot

LEMMA SlotIsEmptied ==
  ASSUME NEW b \in Seq(Slot), NEW i \in DOMAIN b, NEW c, c = [b EXCEPT ![i].valid = FALSE]
  PROVE  c \in Seq(Slot) /\ Len(c) = Len(b) /\ Emptied(b, c, {i})
<1>1. /\ Len(b) \in Nat /\ DOMAIN b = 1 .. Len(b) /\ b \in [1 .. Len(b) -> Slot]
      /\ \A k \in DOMAIN b : b[k].addr \in Addresses /\ b[k].valid \in BOOLEAN
  BY SlotsHold
<1> DEFINE x == b[i]
           y == [x EXCEPT !.valid = FALSE]
<1>2. y \in Slot /\ y.addr = x.addr /\ y.valid = FALSE
  <2>1. x \in Slot
    BY <1>1
  <2> HIDE DEF x
  <2> QED  BY <2>1 DEF Slot
<1>3. c = [b EXCEPT ![i] = y]
  OBVIOUS
<1> HIDE DEF y
<1>4. c \in [1 .. Len(b) -> Slot] /\ c[i] = y /\ \A k \in DOMAIN b : k # i => c[k] = b[k]
  BY <1>1, <1>2, <1>3
<1>5. c \in Seq(Slot) /\ Len(c) = Len(b)
  BY <1>1, <1>4, AnArrayIsASequence
<1>6. DOMAIN c = DOMAIN b
  BY <1>1, <1>4
<1>7. \A k \in DOMAIN b : c[k].addr = b[k].addr /\ (c[k].valid <=> b[k].valid /\ k \notin {i})
  BY <1>2, <1>4 DEF x
<1> QED  BY <1>5, <1>6, <1>7 DEF Emptied

LEMMA EmptiedIsApart ==
  ASSUME NEW b, NEW c, NEW gone, Apart(b), Emptied(b, c, gone)
  PROVE  Apart(c)
  BY DEF Apart, Emptied

LEMMA SlotIsTaken ==
  ASSUME NEW b \in Seq(Slot), NEW i \in DOMAIN b, NEW a \in Addresses, NEW c,
         NEW v \in BOOLEAN, c = [b EXCEPT ![i] = Victims!Fresh(a, v)]
  PROVE  c \in Seq(Slot) /\ Len(c) = Len(b) /\ Taken(b, c, i, a)
<1>1. Len(b) \in Nat /\ DOMAIN b = 1 .. Len(b) /\ b \in [1 .. Len(b) -> Slot]
  BY SlotsHold
<1> DEFINE y == Victims!Fresh(a, v)
<1>2. y \in Slot /\ y.addr = a
  BY DEF Slot, Victims!Fresh
<1> HIDE DEF y
<1>3. c \in [1 .. Len(b) -> Slot] /\ c[i] = y /\ \A k \in DOMAIN b : k # i => c[k] = b[k]
  <2>1. c = [b EXCEPT ![i] = y]
    BY DEF y
  <2> QED  BY <2>1, <1>1, <1>2
<1>4. c \in Seq(Slot) /\ Len(c) = Len(b) /\ DOMAIN c = DOMAIN b \cup {i}
  BY <1>1, <1>3, AnArrayIsASequence
<1> QED  BY <1>2, <1>3, <1>4 DEF Taken

LEMMA SlotIsAdded ==
  ASSUME NEW b \in Seq(Slot), NEW a \in Addresses, NEW v \in BOOLEAN
  PROVE  /\ Append(b, Victims!Fresh(a, v)) \in Seq(Slot)
         /\ Taken(b, Append(b, Victims!Fresh(a, v)), Len(b) + 1, a)
         /\ Len(b) + 1 \notin DOMAIN b
<1> DEFINE y == Victims!Fresh(a, v)
           c == Append(b, y)
<1>1. y \in Slot /\ y.addr = a
  BY DEF Slot, Victims!Fresh
<1>2. Len(b) \in Nat /\ DOMAIN b = 1 .. Len(b)
  BY SlotsHold
<1> HIDE DEF y
<1>3. /\ c \in Seq(Slot) /\ Len(c) = Len(b) + 1 /\ c[Len(b) + 1] = y
      /\ \A i \in 1 .. Len(b) : c[i] = b[i]
  BY <1>1, AppendProperties
<1> HIDE DEF c
<1>4. DOMAIN c = 1 .. Len(b) + 1
  BY <1>3, SlotsHold
<1>5. 1 .. Len(b) + 1 = (1 .. Len(b)) \cup {Len(b) + 1} /\ Len(b) + 1 \notin 1 .. Len(b)
  BY <1>2
<1>6. Taken(b, c, Len(b) + 1, a)
  BY <1>1, <1>2, <1>3, <1>4, <1>5 DEF Taken
<1> QED  BY <1>2, <1>3, <1>5, <1>6 DEF c, y

LEMMA TakenIsApart ==
  ASSUME NEW b, NEW c, NEW s, NEW a, Apart(b), Taken(b, c, s, a), \A i \in DOMAIN b : b[i].addr # a
  PROVE  Apart(c)
<1> SUFFICES ASSUME NEW i \in DOMAIN c, NEW j \in DOMAIN c, c[i].addr = c[j].addr PROVE i = j
  BY DEF Apart
<1>1. \A k \in DOMAIN c : k = s \/ (k \in DOMAIN b /\ c[k] = b[k])
  BY DEF Taken
<1>2. c[s].addr = a
  BY DEF Taken
<1> QED  BY <1>1, <1>2 DEF Apart

\* All slots have different addresses, the invalid ones too, whatever became of the queue
\* and the counter.
VictimInv ==
  /\ blocks \in Seq(Slot) /\ fifo \in Seq(DOMAIN blocks) /\ size \in 0 .. SizeModulus - 1
  /\ Apart(blocks)

LEMMA VictimSizes == MaxSize \in Nat /\ MaxSize # 0 /\ SizeModulus \in Nat /\ MaxSize < SizeModulus
  BY StructuresAssumption DEF Victims!VictimCacheAssumption

LEMMA VictimStart == Victims!Init => VictimInv
<1> SUFFICES ASSUME Victims!Init PROVE VictimInv
  OBVIOUS
<1>1. blocks = <<>> /\ fifo = <<>> /\ size = 0
  BY DEF Victims!Init
<1>2. blocks \in Seq(Slot) /\ fifo \in Seq(DOMAIN blocks) /\ Apart(blocks)
  BY <1>1 DEF Apart
<1>3. 0 \in 0 .. SizeModulus - 1
  BY VictimSizes
<1> QED  BY <1>1, <1>2, <1>3 DEF VictimInv

\* Blocks leave, by name or by a range of addresses.
LEMMA SlotsAreFinite ==
  ASSUME NEW b \in Seq(Slot), NEW gone \in SUBSET DOMAIN b
  PROVE  IsFiniteSet(gone) /\ Cardinality(gone) \in Nat
<1>1. IsFiniteSet(DOMAIN b)
  BY SlotsHold, CountUpTo
<1> QED  BY <1>1, FS_Subset, FS_CardinalityType

LEMMA VictimsLeave ==
  ASSUME VictimInv, NEW gone \in SUBSET DOMAIN blocks,
         blocks' \in Seq(Slot), Emptied(blocks, blocks', gone),
         fifo' = Victims!Without(fifo, gone), size' = (size - Cardinality(gone)) % SizeModulus
  PROVE  VictimInv'
<1>1. DOMAIN blocks' = DOMAIN blocks
  BY DEF Emptied
<1>2. fifo \in Seq(DOMAIN blocks) /\ blocks \in Seq(Slot)
  BY DEF VictimInv
<1>3. fifo' \in Seq(DOMAIN blocks)
  <2>1. Victims!Without(fifo, gone) \in Seq(DOMAIN blocks)
    BY <1>2, WithoutIs
  <2> QED  BY <2>1
<1>4. Apart(blocks')
  BY EmptiedIsApart DEF VictimInv
<1>5. Cardinality(gone) \in Nat /\ size \in Nat
  BY <1>2, SlotsAreFinite DEF VictimInv
<1>6. size' \in 0 .. SizeModulus - 1
  BY <1>5, VictimSizes
<1> QED  BY <1>1, <1>3, <1>4, <1>6 DEF VictimInv

LEMMA VictimIsRemoved ==
  ASSUME VictimInv, NEW a \in Addresses, Victims!SearchAndRemove(a)
  PROVE  VictimInv'
<1>1. PICK i \in Victims!Holding(a) \cap Victims!ValidSlots :
        /\ blocks' = [blocks EXCEPT ![i].valid = FALSE]
        /\ fifo' = Victims!Without(fifo, {i})
        /\ size' = Victims!Decremented(size)
  BY DEF Victims!SearchAndRemove
<1>2. i \in DOMAIN blocks
  BY <1>1 DEF Victims!Holding, Victims!ValidSlots, Victims!Slots
<1>3. blocks \in Seq(Slot)
  BY DEF VictimInv
<1>4. blocks' \in Seq(Slot) /\ Emptied(blocks, blocks', {i})
  BY <1>1, <1>2, <1>3, SlotIsEmptied
<1>5. Cardinality({i}) = 1
  BY FS_Singleton
<1>6. size' = (size - Cardinality({i})) % SizeModulus
  BY <1>1, <1>5 DEF Victims!Decremented
<1>7. {i} \in SUBSET DOMAIN blocks
  BY <1>2
<1> QED  BY <1>1, <1>4, <1>6, <1>7, VictimsLeave

LEMMA SameCount == \A S : Victims!Cardinality(S) = Cardinality(S)
  BY DEF Victims!Cardinality, Cardinality

LEMMA VictimsAreInvalidated ==
  ASSUME VictimInv, NEW first \in Addresses, NEW last \in Addresses, Victims!Invalidate(first, last)
  PROVE  VictimInv'
<1> DEFINE gone == Victims!InRange(first, last)
           c == [i \in DOMAIN blocks |-> IF i \in gone THEN [blocks[i] EXCEPT !.valid = FALSE] ELSE blocks[i]]
<1>1. /\ blocks' = c /\ fifo' = Victims!Without(fifo, gone)
      /\ size' = (size - Cardinality(gone)) % SizeModulus
  <2>1. Victims!Cardinality(gone) = Cardinality(gone)
    BY SameCount
  <2> QED  BY <2>1, Zenon DEF Victims!Invalidate, Victims!Slots
<1>2. gone \in SUBSET DOMAIN blocks
  BY DEF Victims!InRange, Victims!ValidSlots, Victims!Slots
<1>4. blocks \in Seq(Slot)
  BY DEF VictimInv
<1>5. /\ Len(blocks) \in Nat /\ DOMAIN blocks = 1 .. Len(blocks) /\ blocks \in [1 .. Len(blocks) -> Slot]
      /\ \A k \in DOMAIN blocks : blocks[k].addr \in Addresses /\ blocks[k].valid \in BOOLEAN
  BY <1>4, SlotsHold
<1>6. \A i \in DOMAIN blocks : /\ [blocks[i] EXCEPT !.valid = FALSE] \in Slot
                               /\ [blocks[i] EXCEPT !.valid = FALSE].addr = blocks[i].addr
                               /\ ~[blocks[i] EXCEPT !.valid = FALSE].valid
  <2> TAKE i \in DOMAIN blocks
  <2> DEFINE x == blocks[i]
  <2>1. x \in Slot
    BY <1>5
  <2> HIDE DEF x
  <2>2. /\ [x EXCEPT !.valid = FALSE] \in Slot /\ [x EXCEPT !.valid = FALSE].addr = x.addr
        /\ [x EXCEPT !.valid = FALSE].valid = FALSE
    BY <2>1 DEF Slot
  <2> QED  BY <2>2 DEF x
<1> HIDE DEF gone
<1>7. \A i \in DOMAIN blocks : /\ c[i] \in Slot /\ c[i].addr = blocks[i].addr
                               /\ c[i].valid <=> blocks[i].valid /\ i \notin gone
  BY <1>5, <1>6
<1>8. c \in [1 .. Len(blocks) -> Slot] /\ DOMAIN c = DOMAIN blocks
  BY <1>5, <1>7
<1> HIDE DEF c
<1>9. c \in Seq(Slot)
  BY <1>5, <1>8, AnArrayIsASequence
<1>10. blocks' \in Seq(Slot) /\ Emptied(blocks, blocks', gone)
  BY <1>1, <1>7, <1>8, <1>9 DEF Emptied
<1> QED  BY <1>1, <1>2, <1>10, VictimsLeave

\* A block is written over its slot.
LEMMA VictimIsOverwritten ==
  ASSUME VictimInv, NEW a \in Addresses, NEW v \in BOOLEAN, Victims!Overwrite(a, v)
  PROVE  VictimInv'
<1>1. PICK i \in Victims!Holding(a) : /\ blocks' = [blocks EXCEPT ![i] = Victims!Fresh(a, v)]
                                      /\ UNCHANGED <<fifo, size>>
  BY DEF Victims!Overwrite
<1>2. i \in DOMAIN blocks /\ blocks[i].addr = a
  BY <1>1 DEF Victims!Holding, Victims!Slots
<1>3. blocks \in Seq(Slot) /\ Apart(blocks) /\ fifo \in Seq(DOMAIN blocks)
  BY DEF VictimInv
<1>4. blocks' \in Seq(Slot) /\ Taken(blocks, blocks', i, a)
  BY <1>1, <1>2, <1>3, SlotIsTaken
<1>5. DOMAIN blocks' = DOMAIN blocks /\ \A k \in DOMAIN blocks : blocks'[k].addr = blocks[k].addr
  BY <1>2, <1>4 DEF Taken
<1>6. Apart(blocks')
  BY <1>3, <1>5 DEF Apart
<1> QED  BY <1>1, <1>3, <1>4, <1>5, <1>6 DEF VictimInv

\* The slots after an eviction, if the cache is full; a block comes to the first free slot.
LessOldest == IF Victims!Evicts THEN Victims!AfterEviction ELSE blocks
FreeSlots == {i \in DOMAIN blocks : ~LessOldest[i].valid}
SlotOf == IF FreeSlots = {} THEN Len(blocks) + 1 ELSE Victims!Min(FreeSlots)
SizeLess == IF Victims!Evicts THEN Victims!Decremented(size) ELSE size

LEMMA InsertIs ==
  ASSUME NEW a, NEW v, Victims!Insert(a, v)
  PROVE  /\ Victims!Holding(a) = {}
         /\ blocks' = IF FreeSlots = {} THEN Append(LessOldest, Victims!Fresh(a, v))
                                        ELSE [LessOldest EXCEPT ![SlotOf] = Victims!Fresh(a, v)]
         /\ fifo' = Append(Victims!QueueLess, SlotOf)
         /\ size' = (SizeLess + 1) % SizeModulus
  BY Zenon DEF Victims!Insert, LessOldest, FreeSlots, SlotOf, SizeLess, Victims!Slots

LEMMA OldestLeaves ==
  ASSUME VictimInv
  PROVE  /\ LessOldest \in Seq(Slot) /\ Len(LessOldest) = Len(blocks) /\ DOMAIN LessOldest = DOMAIN blocks
         /\ \A i \in DOMAIN blocks : LessOldest[i].addr = blocks[i].addr
         /\ Victims!QueueLess \in Seq(DOMAIN blocks)
<1>1. blocks \in Seq(Slot) /\ fifo \in Seq(DOMAIN blocks)
  BY DEF VictimInv
<1>2. CASE Victims!Evicts
  <2>1. fifo # <<>>
    BY <1>2 DEF Victims!Evicts
  <2>2. Head(fifo) \in DOMAIN blocks /\ Tail(fifo) \in Seq(DOMAIN blocks)
    BY <1>1, <2>1, HeadTailProperties
  <2>3. LessOldest = [blocks EXCEPT ![Head(fifo)].valid = FALSE]
    BY <1>2 DEF LessOldest, Victims!AfterEviction
  <2>4. LessOldest \in Seq(Slot) /\ Len(LessOldest) = Len(blocks) /\ Emptied(blocks, LessOldest, {Head(fifo)})
    BY <1>1, <2>2, <2>3, SlotIsEmptied
  <2>5. Victims!QueueLess \in Seq(DOMAIN blocks)
    BY <1>2, <2>2 DEF Victims!QueueLess
  <2> QED  BY <1>2, <2>4, <2>5 DEF Emptied
<1>3. CASE ~Victims!Evicts
  BY <1>1, <1>3 DEF LessOldest, Victims!QueueLess
<1> QED  BY <1>2, <1>3

LEMMA SlotIsFree ==
  ASSUME VictimInv, FreeSlots # {}
  PROVE  SlotOf \in DOMAIN blocks
<1>1. DOMAIN blocks = 1 .. Len(blocks)
  BY SlotsHold DEF VictimInv
<1>2. FreeSlots \subseteq Nat
  BY <1>1 DEF FreeSlots
<1>3. \E x \in FreeSlots : \A y \in FreeSlots : x <= y
  BY <1>2, LeastNumber
<1>4. Victims!Min(FreeSlots) \in FreeSlots
  BY <1>3 DEF Victims!Min
<1> QED  BY <1>4 DEF SlotOf, FreeSlots

LEMMA VictimIsTakenIn ==
  ASSUME VictimInv, NEW a \in Addresses, NEW v \in BOOLEAN, Victims!Insert(a, v)
  PROVE  /\ blocks' \in Seq(Slot) /\ Taken(LessOldest, blocks', SlotOf, a) /\ Apart(blocks')
<1>1. /\ Victims!Holding(a) = {}
      /\ blocks' = IF FreeSlots = {} THEN Append(LessOldest, Victims!Fresh(a, v))
                                     ELSE [LessOldest EXCEPT ![SlotOf] = Victims!Fresh(a, v)]
  BY InsertIs
<1>2. /\ LessOldest \in Seq(Slot) /\ Len(LessOldest) = Len(blocks) /\ DOMAIN LessOldest = DOMAIN blocks
      /\ \A i \in DOMAIN blocks : LessOldest[i].addr = blocks[i].addr
  BY OldestLeaves
<1>3. ASSUME FreeSlots = {}
      PROVE  /\ blocks' \in Seq(Slot) /\ Taken(LessOldest, blocks', SlotOf, a)
      <2>1. SlotOf = Len(LessOldest) + 1 /\ blocks' = Append(LessOldest, Victims!Fresh(a, v))
    BY <1>1, <1>2, <1>3 DEF SlotOf
  <2>2. /\ Append(LessOldest, Victims!Fresh(a, v)) \in Seq(Slot)
        /\ Taken(LessOldest, Append(LessOldest, Victims!Fresh(a, v)), Len(LessOldest) + 1, a)
    BY <1>2, SlotIsAdded
  <2>3. Taken(LessOldest, blocks', SlotOf, a)
    BY <2>1, <2>2
  <2> QED  BY <1>2, <2>1, <2>2, <2>3
<1>4. ASSUME FreeSlots # {}
      PROVE  /\ blocks' \in Seq(Slot) /\ Taken(LessOldest, blocks', SlotOf, a)
      <2>1. SlotOf \in DOMAIN LessOldest
    BY <1>2, <1>4, SlotIsFree
  <2>2. blocks' = [LessOldest EXCEPT ![SlotOf] = Victims!Fresh(a, v)]
    BY <1>1, <1>4
  <2>3. blocks' \in Seq(Slot) /\ Taken(LessOldest, blocks', SlotOf, a)
    BY <1>2, <2>1, <2>2, SlotIsTaken
  <2> QED  BY <2>1, <2>3
<1>5. blocks' \in Seq(Slot) /\ Taken(LessOldest, blocks', SlotOf, a)
  BY <1>3, <1>4, <1>2
<1>7. Apart(LessOldest) /\ \A i \in DOMAIN LessOldest : LessOldest[i].addr # a
  BY <1>1, <1>2 DEF Victims!Holding, Victims!Slots, VictimInv, Apart
<1>8. Apart(blocks')
  BY <1>5, <1>7, TakenIsApart
<1> QED  BY <1>5, <1>8

LEMMA VictimIsInserted ==
  ASSUME VictimInv, NEW a \in Addresses, NEW v \in BOOLEAN, Victims!Insert(a, v)
  PROVE  VictimInv'
<1>1. fifo' = Append(Victims!QueueLess, SlotOf) /\ size' = (SizeLess + 1) % SizeModulus
  BY InsertIs
<1>2. blocks' \in Seq(Slot) /\ Taken(LessOldest, blocks', SlotOf, a) /\ Apart(blocks')
  BY VictimIsTakenIn
<1>3. DOMAIN LessOldest = DOMAIN blocks /\ Victims!QueueLess \in Seq(DOMAIN blocks)
  BY OldestLeaves
<1>4. DOMAIN blocks' = DOMAIN blocks \cup {SlotOf}
  BY <1>2, <1>3 DEF Taken
<1>5. fifo' \in Seq(DOMAIN blocks')
  <2>1. Victims!QueueLess \in Seq(DOMAIN blocks') /\ SlotOf \in DOMAIN blocks'
    BY <1>3, <1>4
  <2> QED  BY <2>1, <1>1, AppendProperties
<1>6. SizeLess \in Nat
  <2>1. size \in 0 .. SizeModulus - 1
    BY DEF VictimInv
  <2> QED  BY <2>1, VictimSizes DEF SizeLess, Victims!Decremented
<1>7. size' \in 0 .. SizeModulus - 1
  BY <1>1, <1>6, VictimSizes
<1> QED  BY <1>2, <1>5, <1>7 DEF VictimInv

\* The slots change places.
LEMMA VictimsAreSorted ==
  ASSUME VictimInv, Victims!Sort
  PROVE  VictimInv'
<1>1. PICK order \in Victims!Injection(DOMAIN blocks, DOMAIN blocks) :
        /\ blocks' = [i \in DOMAIN blocks |-> blocks[order[i]]]
        /\ UNCHANGED <<fifo, size>>
  BY Zenon DEF Victims!Sort, Victims!Slots
<1>2. order \in [DOMAIN blocks -> DOMAIN blocks] /\ \A i, j \in DOMAIN blocks : order[i] = order[j] => i = j
  BY <1>1 DEF Victims!Injection, Victims!IsInjective
<1>3. blocks \in Seq(Slot) /\ Apart(blocks)
  BY DEF VictimInv
<1>4. /\ Len(blocks) \in Nat /\ DOMAIN blocks = 1 .. Len(blocks) /\ blocks \in [1 .. Len(blocks) -> Slot]
  BY <1>3, SlotsHold
<1>5. blocks' \in [1 .. Len(blocks) -> Slot] /\ \A i \in DOMAIN blocks : blocks'[i] = blocks[order[i]]
  BY <1>1, <1>2, <1>4
<1>6. blocks' \in Seq(Slot) /\ DOMAIN blocks' = DOMAIN blocks
  BY <1>4, <1>5, AnArrayIsASequence
<1>7. Apart(blocks')
  <2> SUFFICES ASSUME NEW i \in DOMAIN blocks, NEW j \in DOMAIN blocks, blocks'[i].addr = blocks'[j].addr
               PROVE  i = j
    BY <1>6 DEF Apart
  <2>1. order[i] \in DOMAIN blocks /\ order[j] \in DOMAIN blocks
    BY <1>2
  <2>2. blocks[order[i]].addr = blocks[order[j]].addr
    BY <1>5
  <2>3. order[i] = order[j]
    BY <2>1, <2>2, <1>3 DEF Apart
  <2> QED  BY <2>3, <1>2
<1>8. fifo' = fifo /\ size' = size /\ fifo \in Seq(DOMAIN blocks) /\ size \in 0 .. SizeModulus - 1
  BY <1>1 DEF VictimInv
<1> QED  BY <1>6, <1>7, <1>8 DEF VictimInv

LEMMA VictimStep == VictimInv /\ [Victims!Next]_victims => VictimInv'
<1> SUFFICES ASSUME VictimInv, [Victims!Next]_victims PROVE VictimInv'
  OBVIOUS
<1>1. ASSUME UNCHANGED victims PROVE VictimInv'
  BY <1>1 DEF victims, VictimInv
<1> QED  BY <1>1, VictimIsRemoved, VictimIsOverwritten, VictimIsInserted, VictimsAreInvalidated,
            VictimsAreSorted DEF Victims!Next

LEMMA VictimsKeep == VictimInv => Victims!TypeOK /\ Victims!NoAddressTwice
BY DEF VictimInv, Victims!TypeOK, Victims!NoAddressTwice, Apart, Victims!Slots, Slot

\* Through all insertions, evictions, removals, invalidations and sorts, and also when the
\* queue and the counter have gone wrong, no address is in two slots of the victim cache.
THEOREM VictimsAreFiledOnce == StructuresSpec => []AddressesAreUnique
<1> DEFINE P == part = "victims" => VictimInv
<1>1. StructuresInit => P
  BY VictimStart DEF StructuresInit
<1>2. P /\ [StructuresNext]_structures => P'
  BY VictimStep, StepOfThePart
<1>3. P => AddressesAreUnique
  BY VictimsKeep DEF AddressesAreUnique, Promised
<1> HIDE DEF P
<1> QED  BY <1>1, <1>2, <1>3, PTL DEF StructuresSpec

-----------------------------------------------------------------------------
\* The reading of a trace.  What the first n lines t of a file give in a format.
ParsesIn(fm, line) == IF fm = "JSON" THEN line.form = "json" ELSE line.form \in {"two", "three"}
LineByLine(f, t, fm, n) ==
  f = [k \in 0 .. n |-> IF k = 0 THEN <<>>
                        ELSE IF ParsesIn(fm, t[k]) THEN Append(f[k - 1], Profiling!Access(t[k])) ELSE f[k - 1]]
ReadUpTo(t, fm, n) == (CHOOSE f : LineByLine(f, t, fm, n))[n]

LEMMA ReadSoFar == \A n : Profiling!AccessesUpTo(n) = ReadUpTo(trace, format, n)
  BY DEF Profiling!AccessesUpTo, ReadUpTo, LineByLine, ParsesIn, Profiling!Parses

\* One line after the other.
ReadsOn(f, t, fm, k) ==
  f[k] = IF ParsesIn(fm, t[k]) THEN Append(f[k - 1], Profiling!Access(t[k])) ELSE f[k - 1]

LEMMA LineByLineUnfolds ==
  ASSUME NEW t, NEW fm, NEW n \in Nat, NEW f, LineByLine(f, t, fm, n)
  PROVE  f[0] = <<>> /\ \A k \in 1 .. n : ReadsOn(f, t, fm, k)
<1>1. \A k \in 0 .. n : f[k] = IF k = 0 THEN <<>>
                                ELSE IF ParsesIn(fm, t[k]) THEN Append(f[k - 1], Profiling!Access(t[k])) ELSE f[k - 1]
  BY Zenon DEF LineByLine
<1>2. 0 \in 0 .. n /\ \A k \in 1 .. n : k \in 0 .. n /\ k # 0
  OBVIOUS
<1> QED  BY <1>1, <1>2 DEF ReadsOn

LEMMA LineByLineExists ==
  ASSUME NEW t, NEW fm, NEW n \in Nat
  PROVE  \E f : LineByLine(f, t, fm, n)
<1> DEFINE Bad == {m \in Nat : ~ \E f : LineByLine(f, t, fm, m)}
<1> SUFFICES ASSUME Bad # {} PROVE FALSE
  OBVIOUS
<1>1. PICK m \in Bad : \A k \in Bad : m <= k
  BY LeastNumber
<1>2. CASE m = 0
  <2> DEFINE f == [k \in 0 .. 0 |-> <<>>]
  <2>1. LineByLine(f, t, fm, 0)
    BY DEF LineByLine
  <2> QED  BY <1>1, <1>2, <2>1
<1>3. CASE m # 0
  <2>1. m - 1 \in Nat /\ m - 1 \notin Bad
    BY <1>1, <1>3
  <2>2. PICK g : LineByLine(g, t, fm, m - 1)
    BY <2>1
  <2> DEFINE h == IF ParsesIn(fm, t[m]) THEN Append(g[m - 1], Profiling!Access(t[m])) ELSE g[m - 1]
             f == [k \in 0 .. m |-> IF k <= m - 1 THEN g[k] ELSE h]
  <2>3. g[0] = <<>> /\ \A k \in 1 .. m - 1 : ReadsOn(g, t, fm, k)
    BY <2>1, <2>2, LineByLineUnfolds
  <2>4. f[0] = <<>>
    BY <2>1, <2>3
  <2>5. \A k \in 1 .. m : ReadsOn(f, t, fm, k)
    <3> TAKE k \in 1 .. m
    <3>1. CASE k <= m - 1
      <4>1. f[k] = g[k] /\ f[k - 1] = g[k - 1] /\ ReadsOn(g, t, fm, k)
        BY <1>1, <2>1, <2>3, <3>1
      <4> HIDE DEF f
      <4> QED  BY <4>1 DEF ReadsOn
    <3>2. CASE k = m
      <4>1. f[k] = h /\ f[k - 1] = g[m - 1]
        BY <1>1, <2>1, <3>2
      <4> HIDE DEF f
      <4> QED  BY <4>1, <3>2 DEF ReadsOn
    <3> QED  BY <1>1, <3>1, <3>2
  <2>6. f = [k \in 0 .. m |-> f[k]]
    OBVIOUS
  <2> HIDE DEF f
  <2>7. \A k \in 0 .. m : f[k] = IF k = 0 THEN <<>>
                                  ELSE IF ParsesIn(fm, t[k]) THEN Append(f[k - 1], Profiling!Access(t[k])) ELSE f[k - 1]
    <3> TAKE k \in 0 .. m
    <3>1. k = 0 \/ k \in 1 .. m
      BY <1>1
    <3> QED  BY <3>1, <2>4, <2>5 DEF ReadsOn
  <2>8. LineByLine(f, t, fm, m)
    BY <2>6, <2>7 DEF LineByLine
  <2> QED  BY <1>1, <2>8
<1> QED  BY <1>2, <1>3

LEMMA LineByLineAgrees ==
  ASSUME NEW t, NEW fm, NEW n \in Nat, NEW m \in Nat, m <= n, NEW f, LineByLine(f, t, fm, n),
         NEW g, LineByLine(g, t, fm, m)
  PROVE  f[m] = g[m]
<1> DEFINE Bad == {k \in Nat : k <= m /\ f[k] # g[k]}
<1>1. Bad = {}
  <2> SUFFICES ASSUME Bad # {} PROVE FALSE
    OBVIOUS
  <2>1. PICK k \in Bad : \A j \in Bad : k <= j
    BY LeastNumber
  <2>2. f[0] = <<>> /\ g[0] = <<>>
    BY LineByLineUnfolds
  <2>3. k # 0 /\ k \in 1 .. m /\ k \in 1 .. n
    BY <2>1, <2>2
  <2>4. k - 1 \in Nat /\ k - 1 <= m /\ k - 1 \notin Bad
    BY <2>1, <2>3
  <2>5. f[k - 1] = g[k - 1]
    BY <2>4
  <2>6. ReadsOn(f, t, fm, k) /\ ReadsOn(g, t, fm, k)
    BY <2>3, LineByLineUnfolds
  <2> QED  BY <2>1, <2>5, <2>6 DEF ReadsOn
<1> QED  BY <1>1

LEMMA ReadFromTheStart == ASSUME NEW t, NEW fm PROVE ReadUpTo(t, fm, 0) = <<>>
<1>1. LineByLine(CHOOSE f : LineByLine(f, t, fm, 0), t, fm, 0)
  BY LineByLineExists
<1> QED  BY <1>1, LineByLineUnfolds DEF ReadUpTo

LEMMA ReadALine ==
  ASSUME NEW t, NEW fm, NEW n \in Nat \ {0}
  PROVE  ReadUpTo(t, fm, n) = IF ParsesIn(fm, t[n])
                              THEN Append(ReadUpTo(t, fm, n - 1), Profiling!Access(t[n]))
                              ELSE ReadUpTo(t, fm, n - 1)
<1> DEFINE f == CHOOSE h : LineByLine(h, t, fm, n)
           g == CHOOSE h : LineByLine(h, t, fm, n - 1)
<1>1. n - 1 \in Nat /\ n \in Nat /\ n - 1 <= n /\ n \in 1 .. n
  OBVIOUS
<1>2. LineByLine(f, t, fm, n)
  BY <1>1, LineByLineExists
<1>3. LineByLine(g, t, fm, n - 1)
  BY <1>1, LineByLineExists
<1>4. ReadUpTo(t, fm, n) = f[n] /\ ReadUpTo(t, fm, n - 1) = g[n - 1]
  BY DEF ReadUpTo
<1> HIDE DEF f, g
<1>5. f[n - 1] = g[n - 1]
  BY <1>1, <1>2, <1>3, LineByLineAgrees
<1>6. ReadsOn(f, t, fm, n)
  BY <1>1, <1>2, LineByLineUnfolds
<1> QED  BY <1>4, <1>5, <1>6 DEF ReadsOn

\* Lines that are no accesses are passed over.
NothingIn(t, fm, m, n) == \A k \in m + 1 .. n : ~ParsesIn(fm, t[k])
LEMMA ReadOver ==
  ASSUME NEW t, NEW fm, NEW m \in Nat, NEW n \in Nat, m <= n, NothingIn(t, fm, m, n)
  PROVE  ReadUpTo(t, fm, n) = ReadUpTo(t, fm, m)
<1> DEFINE Bad == {k \in Nat : m <= k /\ k <= n /\ ReadUpTo(t, fm, k) # ReadUpTo(t, fm, m)}
<1>1. Bad = {}
  <2> SUFFICES ASSUME Bad # {} PROVE FALSE
    OBVIOUS
  <2>1. PICK k \in Bad : \A j \in Bad : k <= j
    BY LeastNumber
  <2>2. k # m /\ k \in m + 1 .. n /\ k \in Nat \ {0}
    BY <2>1
  <2>3. k - 1 \in Nat /\ m <= k - 1 /\ k - 1 <= n /\ k - 1 \notin Bad
    BY <2>1, <2>2
  <2>4. ReadUpTo(t, fm, k - 1) = ReadUpTo(t, fm, m)
    BY <2>3
  <2>5. ~ParsesIn(fm, t[k])
    BY <2>2 DEF NothingIn
  <2> QED  BY <2>1, <2>2, <2>4, <2>5, ReadALine
<1> QED  BY <1>1

\* The counters of a sequence of accesses grow with it.
Accesses == [isWrite : BOOLEAN, address : Nat]
Counters == [total : Nat, reads : Nat, writes : Nat]
Writings(list) == {i \in DOMAIN list : list[i].isWrite}
Readings(list) == {i \in DOMAIN list : ~list[i].isWrite}

LEMMA TallyIs ==
  ASSUME NEW c, NEW list
  PROVE  Profiling!Tallied(c, list) = [total |-> c.total + Len(list), reads |-> c.reads + Cardinality(Readings(list)),
                                     writes |-> c.writes + Cardinality(Writings(list))]
<1>1. \A S : Profiling!Cardinality(S) = Cardinality(S)
  BY DEF Profiling!Cardinality, Cardinality
<1>2. Profiling!Cardinality(Readings(list)) = Cardinality(Readings(list))
  BY <1>1
<1>3. Profiling!Cardinality(Writings(list)) = Cardinality(Writings(list))
  BY <1>1
<1> QED  BY <1>2, <1>3, Zenon DEF Profiling!Tallied, Readings, Writings

LEMMA SomeArePicked ==
  ASSUME NEW list \in Seq(Accesses), NEW S \in SUBSET DOMAIN list
  PROVE  IsFiniteSet(S) /\ Cardinality(S) \in Nat
<1>1. Len(list) \in Nat /\ DOMAIN list = 1 .. Len(list)
  OBVIOUS
<1>2. IsFiniteSet(S)
  BY <1>1, CountUpTo, FS_Subset
<1> QED  BY <1>2, FS_CardinalityType

LEMMA TallyIsCounters ==
  ASSUME NEW c \in Counters, NEW list \in Seq(Accesses)
  PROVE  /\ Profiling!Tallied(c, list) \in Counters
         /\ Profiling!Tallied(c, list).total = c.total + Len(list)
<1>1. Readings(list) \in SUBSET DOMAIN list /\ Writings(list) \in SUBSET DOMAIN list
  BY DEF Readings, Writings
<1> DEFINE r == Cardinality(Readings(list))
           w == Cardinality(Writings(list))
<1>2. r \in Nat /\ w \in Nat
  BY <1>1, SomeArePicked
<1>3. Profiling!Tallied(c, list) = [total |-> c.total + Len(list), reads |-> c.reads + r, writes |-> c.writes + w]
  BY TallyIs
<1> HIDE DEF r, w
<1>4. c.total \in Nat /\ c.reads \in Nat /\ c.writes \in Nat /\ Len(list) \in Nat
  BY DEF Counters
<1>5. c.total + Len(list) \in Nat /\ c.reads + r \in Nat /\ c.writes + w \in Nat
  BY <1>2, <1>4
<1> QED  BY <1>3, <1>5 DEF Counters

LEMMA TallyOfNone ==
  ASSUME NEW c \in Counters
  PROVE  Profiling!Tallied(c, <<>>) = c
<1>1. Readings(<<>>) = {} /\ Writings(<<>>) = {}
  BY DEF Readings, Writings
<1>2. Cardinality(Readings(<<>>)) = 0 /\ Cardinality(Writings(<<>>)) = 0
  BY <1>1, FS_EmptySet
<1>3. c.total \in Nat /\ c.reads \in Nat /\ c.writes \in Nat /\ Len(<<>>) = 0
  BY DEF Counters
<1>4. c.total + Len(<<>>) = c.total /\ c.reads + Cardinality(Readings(<<>>)) = c.reads
      /\ c.writes + Cardinality(Writings(<<>>)) = c.writes
  BY <1>2, <1>3
<1>5. Profiling!Tallied(c, <<>>) = [total |-> c.total, reads |-> c.reads, writes |-> c.writes]
  BY <1>4, TallyIs
<1>6. c = [total |-> c.total, reads |-> c.reads, writes |-> c.writes]
  BY DEF Counters
<1> QED  BY <1>5, <1>6

LEMMA OneMore ==
  ASSUME NEW n \in Nat, NEW S \in SUBSET (1 .. n), NEW T, T = S \/ T = S \cup {n + 1}
  PROVE  Cardinality(T) = Cardinality(S) + (IF T = S THEN 0 ELSE 1) /\ Cardinality(S) \in Nat
<1>1. IsFiniteSet(S) /\ n + 1 \notin S
  <2>1. n + 1 \notin 1 .. n
    OBVIOUS
  <2> QED  BY <2>1, CountUpTo, FS_Subset
<1>2. Cardinality(S) \in Nat
  BY <1>1, FS_CardinalityType
<1>3. CASE T = S
  BY <1>2, <1>3
<1>4. CASE T = S \cup {n + 1}
  <2>1. Cardinality(S \cup {n + 1}) = Cardinality(S) + 1
    BY <1>1, FS_AddElement
  <2>2. T # S
    BY <1>1, <1>4
  <2> QED  BY <1>2, <1>4, <2>1, <2>2
<1> QED  BY <1>3, <1>4

LEMMA PickedGrow ==
  ASSUME NEW list \in Seq(Accesses), NEW a \in Accesses
  PROVE  /\ Readings(Append(list, a)) = Readings(list) \cup (IF a.isWrite THEN {} ELSE {Len(list) + 1})
         /\ Writings(Append(list, a)) = Writings(list) \cup (IF a.isWrite THEN {Len(list) + 1} ELSE {})
<1> DEFINE bs == Append(list, a)
           n == Len(list)
<1>1. n \in Nat /\ DOMAIN list = 1 .. n
  OBVIOUS
<1>2. bs \in Seq(Accesses) /\ Len(bs) = n + 1 /\ bs[n + 1] = a /\ \A i \in 1 .. n : bs[i] = list[i]
  BY AppendProperties
<1>3. DOMAIN bs = 1 .. n + 1
  BY <1>2
<1> HIDE DEF bs, n
<1>4. DOMAIN bs = (1 .. n) \cup {n + 1} /\ n + 1 \notin 1 .. n
  BY <1>1, <1>3
<1>5. Readings(bs) = Readings(list) \cup (IF a.isWrite THEN {} ELSE {n + 1})
  BY <1>1, <1>2, <1>4 DEF Readings
<1>6. Writings(bs) = Writings(list) \cup (IF a.isWrite THEN {n + 1} ELSE {})
  BY <1>1, <1>2, <1>4 DEF Writings
<1> QED  BY <1>5, <1>6 DEF bs, n

LEMMA TallyGrows ==
  ASSUME NEW c \in Counters, NEW list \in Seq(Accesses), NEW a \in Accesses
  PROVE  Profiling!Tallied(c, Append(list, a)) = Profiling!Counted(Profiling!Tallied(c, list), a)
<1> DEFINE bs == Append(list, a)
           n == Len(list)
           r == Cardinality(Readings(list))
           w == Cardinality(Writings(list))
<1>1. n \in Nat /\ Len(bs) = n + 1
  BY AppendProperties
<1>2. Readings(list) \in SUBSET (1 .. n) /\ Writings(list) \in SUBSET (1 .. n)
  BY DEF Readings, Writings
<1>3. Cardinality(Readings(bs)) = r + (IF a.isWrite THEN 0 ELSE 1) /\ r \in Nat
  <2>1. Readings(bs) = Readings(list) \cup (IF a.isWrite THEN {} ELSE {n + 1})
    BY PickedGrow
  <2>2. n + 1 \notin Readings(list)
    BY <1>1, <1>2
  <2> QED  BY <1>1, <1>2, <2>1, <2>2, OneMore, ZenonT(40)
<1>4. Cardinality(Writings(bs)) = w + (IF a.isWrite THEN 1 ELSE 0) /\ w \in Nat
  <2>1. Writings(bs) = Writings(list) \cup (IF a.isWrite THEN {n + 1} ELSE {})
    BY PickedGrow
  <2>2. n + 1 \notin Writings(list)
    BY <1>1, <1>2
  <2> QED  BY <1>1, <1>2, <2>1, <2>2, OneMore
<1>5. Profiling!Tallied(c, list) = [total |-> c.total + n, reads |-> c.reads + r, writes |-> c.writes + w]
  BY TallyIs
<1>6. Profiling!Tallied(c, bs) = [total |-> c.total + Len(bs), reads |-> c.reads + Cardinality(Readings(bs)),
                                  writes |-> c.writes + Cardinality(Writings(bs))]
  BY TallyIs
<1> DEFINE m == Profiling!Tallied(c, list)
<1>7. m.total = c.total + n /\ m.reads = c.reads + r /\ m.writes = c.writes + w
  <2> HIDE DEF r, w, n
  <2> QED  BY <1>5
<1>8. Profiling!Counted(m, a) = [total |-> m.total + 1, reads |-> m.reads + (IF a.isWrite THEN 0 ELSE 1),
                                 writes |-> m.writes + (IF a.isWrite THEN 1 ELSE 0)]
  BY DEF Profiling!Counted
<1>9. c.total \in Nat /\ c.reads \in Nat /\ c.writes \in Nat
  BY DEF Counters
<1> HIDE DEF bs, n, r, w, m
<1>10. /\ c.total + Len(bs) = m.total + 1
       /\ c.reads + Cardinality(Readings(bs)) = m.reads + (IF a.isWrite THEN 0 ELSE 1)
       /\ c.writes + Cardinality(Writings(bs)) = m.writes + (IF a.isWrite THEN 1 ELSE 0)
  <2> DEFINE d == IF a.isWrite THEN 0 ELSE 1
             e == IF a.isWrite THEN 1 ELSE 0
  <2>1. d \in Nat /\ e \in Nat
    OBVIOUS
  <2>2. Cardinality(Readings(bs)) = r + d /\ Cardinality(Writings(bs)) = w + e /\ r \in Nat /\ w \in Nat
    BY <1>3, <1>4
  <2> HIDE DEF d, e
  <2>3. /\ c.total + Len(bs) = m.total + 1
        /\ c.reads + Cardinality(Readings(bs)) = m.reads + d
        /\ c.writes + Cardinality(Writings(bs)) = m.writes + e
    <3>1. c.total + (n + 1) = m.total + 1
      BY <1>1, <1>7, <1>9
    <3>2. c.reads + (r + d) = m.reads + d
      BY <1>7, <1>9, <2>1, <2>2
    <3>3. c.writes + (w + e) = m.writes + e
      BY <1>7, <1>9, <2>1, <2>2
    <3> QED  BY <1>1, <2>2, <3>1, <3>2, <3>3
  <2> QED  BY <2>3 DEF d, e
<1>11. Profiling!Tallied(c, bs) = Profiling!Counted(m, a)
  BY <1>6, <1>8, <1>10
<1> QED  BY <1>11 DEF bs, m

\* The reader: what was returned are the accesses of the lines read, and the counters are
\* those at the last reset and these accesses.
ReaderInv ==
  /\ Len(trace) \in Nat /\ \A k \in 1 .. Len(trace) : Profiling!Access(trace[k]) \in Accesses
  /\ position \in 0 .. Len(trace) /\ failed \in BOOLEAN /\ (failed => position = Len(trace))
  /\ format \in {"Simple", "Extended", "JSON"}
  /\ returned = ReadUpTo(trace, format, position)
  /\ earlier \in Counters /\ counted = Profiling!Tallied(earlier, returned)
  /\ counted.total <= MaxCounted

LEMMA ReadsAccesses ==
  ASSUME NEW t, NEW fm, NEW n \in Nat, \A k \in 1 .. n : Profiling!Access(t[k]) \in Accesses
  PROVE  \A k \in 0 .. n : ReadUpTo(t, fm, k) \in Seq(Accesses)
<1> DEFINE Bad == {k \in Nat : k <= n /\ ReadUpTo(t, fm, k) \notin Seq(Accesses)}
<1>1. Bad = {}
  <2> SUFFICES ASSUME Bad # {} PROVE FALSE
    OBVIOUS
  <2>1. PICK k \in Bad : \A j \in Bad : k <= j
    BY LeastNumber
  <2>2. ReadUpTo(t, fm, 0) \in Seq(Accesses)
    <3>1. <<>> \in Seq(Accesses)
      OBVIOUS
    <3> QED  BY <3>1, ReadFromTheStart
  <2>3. k \in Nat \ {0} /\ k \in 1 .. n
    BY <2>1, <2>2
  <2>4. k - 1 \in Nat /\ k - 1 <= n /\ k - 1 \notin Bad
    BY <2>1, <2>3
  <2>5. ReadUpTo(t, fm, k - 1) \in Seq(Accesses) /\ Profiling!Access(t[k]) \in Accesses
    BY <2>3, <2>4
  <2>6. ReadUpTo(t, fm, k) = Append(ReadUpTo(t, fm, k - 1), Profiling!Access(t[k]))
        \/ ReadUpTo(t, fm, k) = ReadUpTo(t, fm, k - 1)
    BY <2>3, ReadALine
  <2>7. Append(ReadUpTo(t, fm, k - 1), Profiling!Access(t[k])) \in Seq(Accesses)
    BY <2>5, AppendProperties
  <2> QED  BY <2>1, <2>5, <2>6, <2>7
<1> QED  BY <1>1

LEMMA ReturnedAreAccesses ==
  ASSUME ReaderInv
  PROVE  returned \in Seq(Accesses) /\ counted \in Counters
<1>1. returned \in Seq(Accesses)
  BY ReadsAccesses DEF ReaderInv
<1>2. counted \in Counters
  BY <1>1, TallyIsCounters DEF ReaderInv
<1> QED  BY <1>1, <1>2

LEMMA LinesAreAccesses == ASSUME NEW l \in SomeLines PROVE Profiling!Access(l) \in Accesses
<1>1. l.isWrite \in BOOLEAN /\ l.address \in Nat
  <2>1. CASE \E w \in BOOLEAN, a \in 0 .. 2 : l = Line("two", w, a)
    <3>1. PICK w \in BOOLEAN, a \in 0 .. 2 : l = Line("two", w, a)
      BY <2>1
    <3>2. l.isWrite = w /\ l.address = a
      BY <3>1, Zenon DEF Line
    <3> QED  BY <3>1, <3>2
  <2>2. CASE \E f \in {"three", "json", "skip", "bad"} : l = AnyRead(f)
    <3>1. PICK f \in {"three", "json", "skip", "bad"} : l = AnyRead(f)
      BY <2>2
    <3> DEFINE g == FALSE
    <3>2. g \in BOOLEAN /\ l = [form |-> f, isWrite |-> g, address |-> 1]
      BY <3>1 DEF AnyRead, Line
    <3> HIDE DEF g
    <3> QED  BY <3>2
  <2> QED  BY <2>1, <2>2 DEF SomeLines
<1> QED  BY <1>1 DEF Profiling!Access, Accesses

LEMMA ReaderStart == Profiling!Init => ReaderInv
<1> SUFFICES ASSUME Profiling!Init PROVE ReaderInv
  OBVIOUS
<1>1. /\ trace \in SomeTraces /\ position = 0 /\ failed = FALSE /\ format = Profiling!FormatOf(trace)
      /\ counted = Profiling!Nothing /\ returned = <<>> /\ earlier = Profiling!Nothing
  BY DEF Profiling!Init
<1>2. PICK n \in 0 .. TraceLength : trace \in [1 .. n -> SomeLines]
  BY <1>1 DEF SomeTraces
<1>3. n \in Nat
  BY <1>2, StructuresAssumption
<1>4. Len(trace) = n
  BY <1>2, <1>3, AnArrayIsASequence
<1>5. \A k \in 1 .. Len(trace) : Profiling!Access(trace[k]) \in Accesses
  BY <1>2, <1>4, LinesAreAccesses
<1>6. format \in {"Simple", "Extended", "JSON"}
  <2>1. Profiling!FormatOf(trace) \in {"Simple", "Extended", "JSON"}
    BY DEF Profiling!FormatOf
  <2> QED  BY <1>1, <2>1
<1>7. Profiling!Nothing \in Counters /\ Profiling!Nothing.total = 0
  BY DEF Counters, Profiling!Nothing
<1>8. counted = Profiling!Tallied(earlier, returned)
  BY <1>1, <1>7, TallyOfNone
<1>9. returned = ReadUpTo(trace, format, position)
  BY <1>1, ReadFromTheStart
<1>10. 0 <= MaxCounted
  <2>1. MaxCounted \in Nat
    BY StructuresAssumption DEF Profiling!ParserAssumption
  <2> QED  BY <2>1
<1>11. counted.total <= MaxCounted /\ earlier \in Counters
  BY <1>1, <1>7, <1>10
<1>12. position \in 0 .. Len(trace) /\ failed \in BOOLEAN /\ ~failed /\ Len(trace) \in Nat
  <2>1. failed \in BOOLEAN /\ ~failed
    BY <1>1, Zenon
  <2>2. position = 0 /\ Len(trace) \in Nat
    BY <1>1, <1>3, <1>4
  <2> QED  BY <2>1, <2>2
<1> QED  BY <1>5, <1>6, <1>8, <1>9, <1>11, <1>12 DEF ReaderInv

\* An access is taken from line i, and none was before it.
LEMMA AccessIsTaken ==
  ASSUME ReaderInv, counted.total < MaxCounted, NEW i, i \in Profiling!AccessesAhead,
         NothingIn(trace, format, position, i - 1), Profiling!Take(i)
  PROVE  /\ ReaderInv' /\ Profiling!Access(trace[i]) \in Accesses
         /\ returned' = Append(returned, Profiling!Access(trace[i]))
<1>1. i \in position + 1 .. Len(trace) /\ ParsesIn(format, trace[i])
  BY DEF Profiling!AccessesAhead, Profiling!Parses, ParsesIn
<1>2. /\ position' = i /\ counted' = Profiling!Counted(counted, Profiling!Access(trace[i]))
      /\ returned' = Append(returned, Profiling!Access(trace[i]))
      /\ trace' = trace /\ failed' = failed /\ format' = format /\ earlier' = earlier
  BY DEF Profiling!Take
<1>3. Len(trace) \in Nat /\ position \in Nat /\ i \in Nat \ {0} /\ i \in 1 .. Len(trace)
      /\ i - 1 \in Nat /\ position <= i - 1 /\ position # Len(trace)
  BY <1>1 DEF ReaderInv
<1>4. Profiling!Access(trace[i]) \in Accesses
  BY <1>3 DEF ReaderInv
<1>5. ReadUpTo(trace, format, i - 1) = returned
  BY <1>3, ReadOver DEF ReaderInv
<1>6. ReadUpTo(trace, format, i) = Append(returned, Profiling!Access(trace[i]))
  BY <1>1, <1>3, <1>5, ReadALine
<1>7. returned \in Seq(Accesses) /\ counted \in Counters
  BY ReturnedAreAccesses
<1>8. counted' = Profiling!Tallied(earlier, returned')
  <2>1. earlier \in Counters /\ counted = Profiling!Tallied(earlier, returned)
    BY DEF ReaderInv
  <2>2. Profiling!Tallied(earlier, Append(returned, Profiling!Access(trace[i])))
          = Profiling!Counted(Profiling!Tallied(earlier, returned), Profiling!Access(trace[i]))
    BY <2>1, <1>4, <1>7, TallyGrows
  <2> QED  BY <2>1, <2>2, <1>2
<1>9. counted'.total <= MaxCounted
  <2>1. counted'.total = counted.total + 1
    BY <1>2 DEF Profiling!Counted
  <2>2. counted.total \in Nat
    BY <1>7 DEF Counters
  <2>3. MaxCounted \in Nat
    BY StructuresAssumption DEF Profiling!ParserAssumption
  <2> QED  BY <2>1, <2>2, <2>3
<1>10. ~failed
  BY <1>3 DEF ReaderInv
<1>11. returned' = ReadUpTo(trace', format', position')
  BY <1>2, <1>6
<1>12. /\ Len(trace') \in Nat /\ \A k \in 1 .. Len(trace') : Profiling!Access(trace'[k]) \in Accesses
       /\ position' \in 0 .. Len(trace') /\ failed' \in BOOLEAN /\ ~failed'
       /\ format' \in {"Simple", "Extended", "JSON"} /\ earlier' \in Counters
  <2>1. i \in 0 .. Len(trace)
    BY <1>3
  <2> QED  BY <1>2, <1>10, <2>1 DEF ReaderInv
<1>13. counted' = Profiling!Tallied(earlier', returned')
  BY <1>2, <1>8
<1>14. ReaderInv'
  BY <1>9, <1>11, <1>12, <1>13 DEF ReaderInv
<1> QED  BY <1>2, <1>4, <1>14

\* Nothing more is in the file, or it was read to its end already.
LEMMA ReaderRunsOut ==
  ASSUME ReaderInv, NothingIn(trace, format, position, Len(trace)), Profiling!RunOut
  PROVE  ReaderInv'
<1>1. /\ position' = Len(trace) /\ failed' = TRUE /\ trace' = trace /\ format' = format
      /\ counted' = counted /\ returned' = returned /\ earlier' = earlier
  BY DEF Profiling!RunOut
<1>2. Len(trace) \in Nat /\ position \in Nat /\ position <= Len(trace)
  BY DEF ReaderInv
<1>3. ReadUpTo(trace, format, Len(trace)) = returned
  BY <1>2, ReadOver DEF ReaderInv
<1>4. returned' = ReadUpTo(trace', format', position')
  BY <1>1, <1>3
<1>5. counted' = Profiling!Tallied(earlier', returned')
  BY <1>1 DEF ReaderInv
<1>6. Len(trace) \in 0 .. Len(trace)
  BY <1>2
<1> QED  BY <1>1, <1>4, <1>5, <1>6 DEF ReaderInv

LEMMA TheFirstIsFirst ==
  ASSUME NEW m \in Nat, NEW n \in Nat, NEW S \in SUBSET (m + 1 .. n), S # {}
  PROVE  Profiling!First(S) \in S /\ \A j \in S : Profiling!First(S) <= j
<1>1. \E i \in S : \A j \in S : i <= j
  <2>1. S \subseteq Nat
    OBVIOUS
  <2> QED  BY <2>1, LeastNumber
<1> QED  BY <1>1 DEF Profiling!First

LEMMA FailedAtTheEnd ==
  ASSUME ReaderInv, failed
  PROVE  NothingIn(trace, format, position, Len(trace))
<1>1. position = Len(trace) /\ Len(trace) \in Nat
  BY DEF ReaderInv
<1>2. position + 1 .. Len(trace) = {}
  BY <1>1
<1> QED  BY <1>2 DEF NothingIn

LEMMA ReaderGets ==
  ASSUME ReaderInv, Profiling!GetNextAccess
  PROVE  /\ ReaderInv'
         /\ \/ returned' = returned
            \/ \E a \in Accesses : returned' = Append(returned, a)
<1>1. counted.total < MaxCounted
  BY DEF Profiling!GetNextAccess
<1>2. Len(trace) \in Nat /\ position \in Nat
  BY DEF ReaderInv
<1>3. CASE Profiling!AccessesAhead = {}
  <2>1. Profiling!RunOut
    BY <1>3 DEF Profiling!GetNextAccess
  <2>2. NothingIn(trace, format, position, Len(trace))
    <3>1. CASE failed
      BY <3>1, FailedAtTheEnd
    <3>2. CASE ~failed
      BY <1>3, <3>2 DEF Profiling!AccessesAhead, NothingIn, Profiling!Parses, ParsesIn
    <3> QED  BY <3>1, <3>2
  <2>3. returned' = returned
    BY <2>1 DEF Profiling!RunOut
  <2> QED  BY <2>1, <2>2, <2>3, ReaderRunsOut
<1>4. CASE Profiling!AccessesAhead # {}
  <2> DEFINE i == Profiling!First(Profiling!AccessesAhead)
  <2>1. Profiling!Take(i)
    BY <1>4 DEF Profiling!GetNextAccess
  <2>2. Profiling!AccessesAhead \in SUBSET (position + 1 .. Len(trace))
    BY DEF Profiling!AccessesAhead
  <2>3. i \in Profiling!AccessesAhead /\ \A j \in Profiling!AccessesAhead : i <= j
    BY <1>2, <1>4, <2>2, TheFirstIsFirst
  <2> HIDE DEF i
  <2>4. ~failed /\ i \in position + 1 .. Len(trace)
    BY <2>3 DEF Profiling!AccessesAhead
  <2>5. NothingIn(trace, format, position, i - 1)
    <3> SUFFICES ASSUME NEW k \in position + 1 .. i - 1, ParsesIn(format, trace[k]) PROVE FALSE
      BY DEF NothingIn
    <3>1. k \in position + 1 .. Len(trace) /\ ~(i <= k)
      BY <1>2, <2>4
    <3>2. k \in Profiling!AccessesAhead
      BY <2>4, <3>1 DEF Profiling!AccessesAhead, Profiling!Parses, ParsesIn
    <3> QED  BY <2>3, <3>1, <3>2
  <2> QED  BY <1>1, <2>1, <2>3, <2>5, AccessIsTaken
<1> QED  BY <1>3, <1>4

LEMMA ReaderGetsWithError ==
  ASSUME ReaderInv, Profiling!GetNextAccessWithError
  PROVE  ReaderInv'
<1>1. counted.total < MaxCounted
  BY DEF Profiling!GetNextAccessWithError
<1>2. Len(trace) \in Nat /\ position \in Nat
  BY DEF ReaderInv
<1>3. \A line : ParsesIn(format, line) => line.form # "skip"
  BY DEF ParsesIn
<1>4. CASE Profiling!LinesAhead = {}
  <2>1. Profiling!RunOut
    BY <1>4 DEF Profiling!GetNextAccessWithError
  <2>2. NothingIn(trace, format, position, Len(trace))
    <3>1. CASE failed
      BY <3>1, FailedAtTheEnd
    <3>2. CASE ~failed
      BY <1>3, <1>4, <3>2 DEF Profiling!LinesAhead, NothingIn
    <3> QED  BY <3>1, <3>2
  <2> QED  BY <2>1, <2>2, ReaderRunsOut
<1>5. CASE Profiling!LinesAhead # {}
  <2> DEFINE i == Profiling!First(Profiling!LinesAhead)
  <2>1. Profiling!LinesAhead \in SUBSET (position + 1 .. Len(trace))
    BY DEF Profiling!LinesAhead
  <2>2. i \in Profiling!LinesAhead /\ \A j \in Profiling!LinesAhead : i <= j
    BY <1>2, <1>5, <2>1, TheFirstIsFirst
  <2>3. \/ i \in Profiling!AccessesAhead /\ Profiling!Take(i)
        \/ /\ i \notin Profiling!AccessesAhead /\ position' = i
           /\ UNCHANGED <<trace, failed, format, counted, returned, earlier>>
    BY <1>5 DEF Profiling!GetNextAccessWithError
  <2> HIDE DEF i
  <2>4. ~failed /\ i \in position + 1 .. Len(trace)
    BY <2>2 DEF Profiling!LinesAhead
  <2>5. NothingIn(trace, format, position, i - 1)
    <3> SUFFICES ASSUME NEW k \in position + 1 .. i - 1, ParsesIn(format, trace[k]) PROVE FALSE
      BY DEF NothingIn
    <3>1. k \in position + 1 .. Len(trace) /\ ~(i <= k)
      BY <1>2, <2>4
    <3>2. k \in Profiling!LinesAhead
      BY <1>3, <2>4, <3>1 DEF Profiling!LinesAhead
    <3> QED  BY <2>2, <3>1, <3>2
  <2>6. CASE i \in Profiling!AccessesAhead /\ Profiling!Take(i)
    BY <1>1, <2>5, <2>6, AccessIsTaken
  <2>7. CASE /\ i \notin Profiling!AccessesAhead /\ position' = i
             /\ UNCHANGED <<trace, failed, format, counted, returned, earlier>>
    <3>1. /\ position' = i /\ trace' = trace /\ failed' = failed /\ format' = format
          /\ counted' = counted /\ returned' = returned /\ earlier' = earlier
      BY <2>7
    <3>2. ~ParsesIn(format, trace[i])
      BY <2>4, <2>7 DEF Profiling!AccessesAhead, Profiling!Parses, ParsesIn
    <3>3. NothingIn(trace, format, position, i)
      <4> SUFFICES ASSUME NEW k \in position + 1 .. i PROVE ~ParsesIn(format, trace[k])
        BY DEF NothingIn
      <4>1. k = i \/ k \in position + 1 .. i - 1
        BY <1>2, <2>4
      <4> QED  BY <4>1, <2>5, <3>2 DEF NothingIn
    <3>4. i \in Nat /\ position <= i /\ i \in 0 .. Len(trace)
      BY <1>2, <2>4
    <3>5. ReadUpTo(trace, format, i) = returned
      BY <1>2, <3>3, <3>4, ReadOver DEF ReaderInv
    <3>6. returned' = ReadUpTo(trace', format', position')
      BY <3>1, <3>5
    <3>7. counted' = Profiling!Tallied(earlier', returned')
      BY <3>1 DEF ReaderInv
    <3> QED  BY <2>4, <3>1, <3>4, <3>6, <3>7 DEF ReaderInv
  <2> QED  BY <2>3, <2>6, <2>7
<1> QED  BY <1>4, <1>5

LEMMA ReaderIsReset ==
  ASSUME ReaderInv, Profiling!Reset
  PROVE  ReaderInv'
<1>1. /\ position' = 0 /\ failed' = FALSE /\ returned' = <<>> /\ earlier' = counted
      /\ trace' = trace /\ format' = format /\ counted' = counted
  BY DEF Profiling!Reset
<1>2. counted \in Counters
  BY ReturnedAreAccesses
<1>3. counted' = Profiling!Tallied(earlier', returned')
  <2>1. Profiling!Tallied(counted, <<>>) = counted
    BY <1>2, TallyOfNone
  <2> QED  BY <1>1, <2>1
<1>4. returned' = ReadUpTo(trace', format', position')
  <2>1. ReadUpTo(trace, format, 0) = <<>>
    BY ReadFromTheStart
  <2> QED  BY <1>1, <2>1
<1>5. 0 \in 0 .. Len(trace)
  BY DEF ReaderInv
<1> QED  BY <1>1, <1>2, <1>3, <1>4, <1>5 DEF ReaderInv

LEMMA ReaderReadsAll ==
  ASSUME ReaderInv, Profiling!ParseAll
  PROVE  ReaderInv'
<1> DEFINE all_ == ReadUpTo(trace, format, Len(trace))
<1>1. Profiling!AccessesUpTo(Len(trace)) = all_
  BY ReadSoFar
<1>2. /\ counted.total + Len(all_) <= MaxCounted
      /\ position' = Len(trace) /\ failed' = TRUE /\ returned' = all_ /\ earlier' = counted
      /\ counted' = Profiling!Tallied(counted, all_) /\ trace' = trace /\ format' = format
  BY <1>1 DEF Profiling!ParseAll
<1>3. counted \in Counters
  BY ReturnedAreAccesses
<1>4. all_ \in Seq(Accesses) /\ Len(trace) \in Nat /\ Len(trace) \in 0 .. Len(trace)
  <2>1. Len(trace) \in Nat /\ \A k \in 1 .. Len(trace) : Profiling!Access(trace[k]) \in Accesses
    BY DEF ReaderInv
  <2>2. Len(trace) \in 0 .. Len(trace)
    BY <2>1
  <2> QED  BY <2>1, <2>2, ReadsAccesses
<1>5. returned' = ReadUpTo(trace', format', position')
  BY <1>2
<1> HIDE DEF all_
<1>6. counted' = Profiling!Tallied(earlier', returned')
  BY <1>2
<1>7. counted'.total = counted.total + Len(all_)
  <2>1. Profiling!Tallied(counted, all_).total = counted.total + Len(all_)
    BY <1>3, <1>4, TallyIsCounters
  <2> QED  BY <1>2, <2>1
<1>8. counted'.total <= MaxCounted
  BY <1>2, <1>7
<1> QED  BY <1>2, <1>3, <1>4, <1>5, <1>6, <1>8 DEF ReaderInv

LEMMA ReaderLooks ==
  ASSUME ReaderInv, Profiling!DetectFormat
  PROVE  ReaderInv' /\ returned' = returned
  BY DEF Profiling!DetectFormat, Profiling!Restored, ReaderInv

\* The profile: what was tracked is counted, in all and by region.
StatRecord == [reads : Nat, writes : Nat, addresses : SUBSET Nat, unique : Nat, first : Nat]
StatIsRight(s) ==
  /\ s \in StatRecord /\ IsFiniteSet(s.addresses) /\ s.unique = Cardinality(s.addresses)
  /\ s.addresses = {} => s.first = 0
  /\ s.addresses # {} /\ 0 \notin s.addresses => s.first \in s.addresses /\ \A x \in s.addresses : s.first <= x
AllRight(st) == \A n \in DOMAIN st : StatIsRight(st[n])
ReadsPerRegion(st) == [n \in DOMAIN st |-> st[n].reads]
WritesPerRegion(st) == [n \in DOMAIN st |-> st[n].writes]
SeenPerRegion(st) == UNION {st[n].addresses : n \in DOMAIN st}

ProfileInv ==
  /\ tracked \in Seq(Accesses) /\ overall = Profiling!Tallied(Profiling!Nothing, tracked)
  /\ IsFiniteSet(DOMAIN stats) /\ AllRight(stats)
  /\ overall.reads = SumFunction(ReadsPerRegion(stats)) /\ overall.writes = SumFunction(WritesPerRegion(stats))
  /\ seen = SeenPerRegion(stats)

LEMMA SameSum == \A f : Profiling!SumFunction(f) = SumFunction(f)
  BY DEF Profiling!SumFunction, SumFunction, Profiling!SumFunctionOnSet, SumFunctionOnSet,
         Profiling!FoldFunctionOnSet, FoldFunctionOnSet, Profiling!MapThenFoldSet, MapThenFoldSet

\* One value of a sum grows, or is new in it.
GrowsAt(f, g, D, x, v) ==
  /\ f \in [D -> Nat] /\ g \in [D \cup {x} -> Nat] /\ v \in Nat
  /\ \A n \in D \ {x} : g[n] = f[n]
  /\ g[x] = (IF x \in D THEN f[x] ELSE 0) + v

LEMMA SumGrows ==
  ASSUME NEW f, NEW g, NEW D, NEW x, NEW v, IsFiniteSet(D), GrowsAt(f, g, D, x, v)
  PROVE  SumFunction(g) = SumFunction(f) + v
<1>0. /\ f \in [D -> Nat] /\ g \in [D \cup {x} -> Nat] /\ v \in Nat
      /\ \A n \in D \ {x} : g[n] = f[n]
      /\ g[x] = (IF x \in D THEN f[x] ELSE 0) + v
  BY DEF GrowsAt
<1> DEFINE E == D \cup {x}
           T == D \ {x}
<1>1. IsFiniteSet(E) /\ IsFiniteSet(T) /\ E \ {x} = T /\ x \in E
  BY FS_AddElement, FS_Subset
<1>2. DOMAIN g = E /\ DOMAIN f = D /\ (\A n \in E : g[n] \in Int) /\ (\A n \in D : f[n] \in Int)
  BY <1>0
<1>3. SumFunctionOnSet(g, E) = g[x] + SumFunctionOnSet(g, T)
  <2> HIDE DEF E, T
  <2>1. SumFunctionOnSet(g, E) = g[x] + SumFunctionOnSet(g, E \ {x})
    BY <1>1, <1>2, SumWithout
  <2> QED  BY <2>1, <1>1
<1>4. SumFunctionOnSet(g, T) = SumFunctionOnSet(f, T) /\ SumFunctionOnSet(f, T) \in Int
  <2>1. \A n \in T : g[n] = f[n] /\ f[n] \in Int
    BY <1>0, <1>2
  <2> HIDE DEF T
  <2> QED  BY <1>1, <2>1, SumAgree, SumType
<1>5. SumFunctionOnSet(f, D) = (IF x \in D THEN f[x] ELSE 0) + SumFunctionOnSet(f, T)
  <2>1. CASE x \in D
    BY <1>2, <2>1, SumWithout
  <2>2. CASE x \notin D
    <3>1. T = D
      BY <2>2
    <3> HIDE DEF T
    <3> QED  BY <1>4, <2>2, <3>1
  <2> QED  BY <2>1, <2>2
<1> DEFINE y == IF x \in D THEN f[x] ELSE 0
           z == SumFunctionOnSet(f, T)
<1>6. y \in Nat /\ z \in Int /\ v \in Nat
  BY <1>0, <1>4
<1>7. SumFunctionOnSet(g, E) = (y + v) + z /\ SumFunctionOnSet(f, D) = y + z
  BY <1>0, <1>3, <1>4, <1>5
<1> HIDE DEF y, z, E
<1>8. SumFunctionOnSet(g, E) = SumFunctionOnSet(f, D) + v
  BY <1>6, <1>7
<1> QED  BY <1>2, <1>8 DEF SumFunction, E

\* A region gets an access.
LEMMA StatGrows ==
  ASSUME NEW s, StatIsRight(s), NEW a \in Accesses
  PROVE  /\ StatIsRight(Profiling!AddAccess(s, a))
         /\ Profiling!AddAccess(s, a).reads = s.reads + (IF a.isWrite THEN 0 ELSE 1)
         /\ Profiling!AddAccess(s, a).writes = s.writes + (IF a.isWrite THEN 1 ELSE 0)
         /\ Profiling!AddAccess(s, a).addresses = s.addresses \cup {a.address}
<1> DEFINE d == IF a.isWrite THEN 0 ELSE 1
           e == IF a.isWrite THEN 1 ELSE 0
           x == a.address
           A == s.addresses
           u == IF x \in A THEN s.unique ELSE s.unique + 1
           f == IF s.first = 0 \/ x < s.first THEN x ELSE s.first
           t == Profiling!AddAccess(s, a)
<1>1. d \in Nat /\ e \in Nat /\ x \in Nat
  BY DEF Accesses
<1>2. t = [reads |-> s.reads + d, writes |-> s.writes + e, addresses |-> A \cup {x}, unique |-> u, first |-> f]
  BY Zenon DEF Profiling!AddAccess
<1>3. s.reads \in Nat /\ s.writes \in Nat /\ A \in SUBSET Nat /\ s.unique \in Nat /\ s.first \in Nat
  BY DEF StatIsRight, StatRecord
<1>4. IsFiniteSet(A) /\ s.unique = Cardinality(A) /\ (A = {} => s.first = 0)
      /\ (A # {} /\ 0 \notin A => s.first \in A /\ \A y \in A : s.first <= y)
  BY DEF StatIsRight
<1> HIDE DEF d, e, x, A, t
<1>5. IsFiniteSet(A \cup {x}) /\ u = Cardinality(A \cup {x}) /\ u \in Nat
  BY <1>3, <1>4, FS_AddElement
<1>6. f \in Nat /\ (0 \notin A \cup {x} => f \in A \cup {x} /\ \A y \in A \cup {x} : f <= y)
  BY <1>1, <1>3, <1>4
<1> HIDE DEF u, f
<1>7. s.reads + d \in Nat /\ s.writes + e \in Nat /\ A \cup {x} \in SUBSET Nat
  BY <1>1, <1>3
<1> DEFINE r == s.reads + d
           w == s.writes + e
           B == A \cup {x}
<1>8. B # {} /\ IsFiniteSet(B) /\ u = Cardinality(B) /\ (0 \notin B => f \in B /\ \A y \in B : f <= y)
  BY <1>5, <1>6
<1>9. r \in Nat /\ w \in Nat /\ B \in SUBSET Nat /\ u \in Nat /\ f \in Nat
  BY <1>5, <1>6, <1>7
<1>10. t = [reads |-> r, writes |-> w, addresses |-> B, unique |-> u, first |-> f]
  BY <1>2
<1> HIDE DEF r, w, B
<1>11. t \in StatRecord /\ t.reads = r /\ t.writes = w /\ t.addresses = B /\ t.unique = u /\ t.first = f
  BY <1>9, <1>10 DEF StatRecord
<1>12. StatIsRight(t)
  BY <1>8, <1>11 DEF StatIsRight
<1> QED  BY <1>11, <1>12 DEF t, r, w, B, A, x, d, e

LEMMA NoStatsAreRight ==
  /\ StatIsRight(Profiling!NoStats)
  /\ Profiling!NoStats.reads = 0 /\ Profiling!NoStats.writes = 0 /\ Profiling!NoStats.addresses = {}
<1> DEFINE s == Profiling!NoStats
<1>1. s \in StatRecord /\ s.reads = 0 /\ s.writes = 0 /\ s.addresses = {} /\ s.unique = 0 /\ s.first = 0
  BY DEF Profiling!NoStats, StatRecord
<1> HIDE DEF s
<1>2. IsFiniteSet({}) /\ Cardinality({}) = 0
  BY FS_EmptySet
<1>3. StatIsRight(s)
  BY <1>1, <1>2 DEF StatIsRight
<1> QED  BY <1>1, <1>3 DEF s

LEMMA NothingIsCounted ==
  Profiling!Nothing \in Counters /\ Profiling!Nothing = [total |-> 0, reads |-> 0, writes |-> 0]
  BY DEF Profiling!Nothing, Counters

\* The statistics of all regions but one stay; that one grows by some reads and writes.
GrownIn(st, nt, x, v, w, A) ==
  /\ DOMAIN nt = DOMAIN st \cup {x} /\ StatIsRight(nt[x])
  /\ \A n \in DOMAIN st \ {x} : nt[n] = st[n]
  /\ nt[x].reads = (IF x \in DOMAIN st THEN st[x].reads ELSE 0) + v
  /\ nt[x].writes = (IF x \in DOMAIN st THEN st[x].writes ELSE 0) + w
  /\ nt[x].addresses = (IF x \in DOMAIN st THEN st[x].addresses ELSE {}) \cup A

LEMMA RegionGrows ==
  ASSUME NEW st, NEW nt, NEW x, NEW v \in Nat, NEW w \in Nat, NEW A, GrownIn(st, nt, x, v, w, A),
         IsFiniteSet(DOMAIN st), AllRight(st)
  PROVE  /\ IsFiniteSet(DOMAIN nt) /\ AllRight(nt)
         /\ SumFunction(ReadsPerRegion(nt)) = SumFunction(ReadsPerRegion(st)) + v
         /\ SumFunction(WritesPerRegion(nt)) = SumFunction(WritesPerRegion(st)) + w
         /\ SeenPerRegion(nt) = SeenPerRegion(st) \cup A
<1> DEFINE D == DOMAIN st
<1>1. /\ DOMAIN nt = D \cup {x} /\ StatIsRight(nt[x]) /\ \A n \in D \ {x} : nt[n] = st[n]
  BY DEF GrownIn
<1>2. IsFiniteSet(DOMAIN nt)
  BY <1>1, FS_AddElement
<1>3. \A n \in DOMAIN nt : StatIsRight(nt[n])
  BY <1>1 DEF AllRight
<1>4. \A n \in D : st[n].reads \in Nat /\ st[n].writes \in Nat
  BY DEF AllRight, StatIsRight, StatRecord
<1>5. \A n \in D \cup {x} : nt[n].reads \in Nat /\ nt[n].writes \in Nat
  BY <1>1, <1>3 DEF StatIsRight, StatRecord
<1>6. SumFunction(ReadsPerRegion(nt)) = SumFunction(ReadsPerRegion(st)) + v
  <2> DEFINE f == ReadsPerRegion(st)
             g == ReadsPerRegion(nt)
  <2>1. f \in [D -> Nat] /\ \A n \in D : f[n] = st[n].reads
    BY <1>4 DEF ReadsPerRegion
  <2>2. g \in [D \cup {x} -> Nat] /\ \A n \in D \cup {x} : g[n] = nt[n].reads
    BY <1>1, <1>5 DEF ReadsPerRegion
  <2> HIDE DEF f, g
  <2>3. \A n \in D \ {x} : g[n] = f[n]
    BY <1>1, <2>1, <2>2
  <2>4. g[x] = (IF x \in D THEN f[x] ELSE 0) + v
    BY <2>1, <2>2 DEF GrownIn
  <2>5. GrowsAt(f, g, D, x, v)
    BY <2>1, <2>2, <2>3, <2>4 DEF GrowsAt
  <2>6. SumFunction(g) = SumFunction(f) + v
    BY <2>5, SumGrows
  <2> QED  BY <2>6 DEF f, g
<1>7. SumFunction(WritesPerRegion(nt)) = SumFunction(WritesPerRegion(st)) + w
  <2> DEFINE f == WritesPerRegion(st)
             g == WritesPerRegion(nt)
  <2>1. f \in [D -> Nat] /\ \A n \in D : f[n] = st[n].writes
    BY <1>4 DEF WritesPerRegion
  <2>2. g \in [D \cup {x} -> Nat] /\ \A n \in D \cup {x} : g[n] = nt[n].writes
    BY <1>1, <1>5 DEF WritesPerRegion
  <2> HIDE DEF f, g
  <2>3. \A n \in D \ {x} : g[n] = f[n]
    BY <1>1, <2>1, <2>2
  <2>4. g[x] = (IF x \in D THEN f[x] ELSE 0) + w
    BY <2>1, <2>2 DEF GrownIn
  <2>5. GrowsAt(f, g, D, x, w)
    BY <2>1, <2>2, <2>3, <2>4 DEF GrowsAt
  <2>6. SumFunction(g) = SumFunction(f) + w
    BY <2>5, SumGrows
  <2> QED  BY <2>6 DEF f, g
<1>8. SeenPerRegion(nt) = SeenPerRegion(st) \cup A
  <2>1. nt[x].addresses = (IF x \in D THEN st[x].addresses ELSE {}) \cup A
    BY DEF GrownIn
  <2> QED  BY <1>1, <2>1 DEF SeenPerRegion
<1> QED  BY <1>2, <1>3, <1>6, <1>7, <1>8 DEF AllRight

LEMMA ProfileStart == Profiling!ProfilerInit /\ tracked = <<>> => ProfileInv
<1> SUFFICES ASSUME Profiling!ProfilerInit, tracked = <<>> PROVE ProfileInv
  OBVIOUS
<1>1. /\ overall = [total |-> 0, reads |-> 0, writes |-> 0] /\ seen = {} /\ stats = <<>>
  BY DEF Profiling!ProfilerInit
<1>2. overall = Profiling!Tallied(Profiling!Nothing, tracked)
  <2>1. Profiling!Tallied(Profiling!Nothing, <<>>) = Profiling!Nothing
    BY NothingIsCounted, TallyOfNone
  <2> QED  BY <1>1, <2>1, NothingIsCounted
<1>3. DOMAIN stats = {} /\ tracked \in Seq(Accesses)
  BY <1>1
<1>4. IsFiniteSet(DOMAIN stats)
  BY <1>3, FS_EmptySet
<1>5. SumFunction(ReadsPerRegion(stats)) = 0 /\ SumFunction(WritesPerRegion(stats)) = 0
  <2>1. DOMAIN ReadsPerRegion(stats) = {} /\ DOMAIN WritesPerRegion(stats) = {}
    BY <1>3 DEF ReadsPerRegion, WritesPerRegion
  <2> QED  BY <2>1, SumOfNothing DEF SumFunction
<1>6. overall.reads = 0 /\ overall.writes = 0
  BY <1>1
<1>7. seen = SeenPerRegion(stats)
  BY <1>1, <1>3 DEF SeenPerRegion
<1> QED  BY <1>2, <1>3, <1>4, <1>5, <1>6, <1>7 DEF ProfileInv, AllRight

LEMMA AccessIsTracked ==
  ASSUME ProfileInv, NEW a \in Accesses, Profiling!TrackAccess(a), tracked' = Append(tracked, a)
  PROVE  ProfileInv'
<1> DEFINE v == IF a.isWrite THEN 0 ELSE 1
           w == IF a.isWrite THEN 1 ELSE 0
           D == DOMAIN stats
           A == {a.address}
<1>0. v \in Nat /\ w \in Nat
  OBVIOUS
<1>1. PICK x : Profiling!RegionOf(a.address) = {x}
  BY DEF Profiling!RegionOf
<1>2. /\ overall' = Profiling!Counted(overall, a)
      /\ seen' = seen \cup {a.address}
      /\ stats' = [n \in D \cup {x} |-> LET s == IF n \in D THEN stats[n] ELSE Profiling!NoStats IN
                                        IF n \in {x} THEN Profiling!AddAccess(s, a) ELSE s]
  <2>1. overall' = Profiling!Counted(overall, a)
    BY Zenon DEF Profiling!TrackAccess, Profiling!Counted
  <2>2. seen' = seen \cup {a.address}
    BY DEF Profiling!TrackAccess
  <2>3. stats' = [n \in D \cup Profiling!RegionOf(a.address) |->
                   LET s == IF n \in D THEN stats[n] ELSE Profiling!NoStats IN
                   IF n \in Profiling!RegionOf(a.address) THEN Profiling!AddAccess(s, a) ELSE s]
    BY DEF Profiling!TrackAccess
  <2> QED  BY <1>1, <2>1, <2>2, <2>3
<1> DEFINE s == IF x \in D THEN stats[x] ELSE Profiling!NoStats
<1>3. DOMAIN stats' = D \cup {x} /\ stats'[x] = Profiling!AddAccess(s, a) /\ \A n \in D \ {x} : stats'[n] = stats[n]
  BY <1>2
<1>4. StatIsRight(s)
  BY NoStatsAreRight DEF ProfileInv, AllRight
<1>5. /\ s.reads = (IF x \in D THEN stats[x].reads ELSE 0)
      /\ s.writes = (IF x \in D THEN stats[x].writes ELSE 0)
      /\ s.addresses = (IF x \in D THEN stats[x].addresses ELSE {})
  BY NoStatsAreRight
<1> HIDE DEF s
<1>6. /\ StatIsRight(Profiling!AddAccess(s, a)) /\ Profiling!AddAccess(s, a).reads = s.reads + v
      /\ Profiling!AddAccess(s, a).writes = s.writes + w
      /\ Profiling!AddAccess(s, a).addresses = s.addresses \cup {a.address}
  BY <1>4, StatGrows
<1>7. GrownIn(stats, stats', x, v, w, A)
  <2> HIDE DEF v, w
  <2> QED  BY <1>3, <1>5, <1>6 DEF GrownIn
<1>8. IsFiniteSet(DOMAIN stats) /\ AllRight(stats)
  BY DEF ProfileInv
<1> HIDE DEF v, w, A
<1>9. /\ IsFiniteSet(DOMAIN stats') /\ AllRight(stats')
      /\ SumFunction(ReadsPerRegion(stats')) = SumFunction(ReadsPerRegion(stats)) + v
      /\ SumFunction(WritesPerRegion(stats')) = SumFunction(WritesPerRegion(stats)) + w
      /\ SeenPerRegion(stats') = SeenPerRegion(stats) \cup A
  BY <1>0, <1>7, <1>8, RegionGrows
<1>10. overall'.reads = overall.reads + v /\ overall'.writes = overall.writes + w
  BY <1>2, Zenon DEF Profiling!Counted, v, w
<1>11. tracked \in Seq(Accesses) /\ overall = Profiling!Tallied(Profiling!Nothing, tracked)
  BY DEF ProfileInv
<1>12. overall' = Profiling!Tallied(Profiling!Nothing, tracked') /\ tracked' \in Seq(Accesses)
  <2>1. Profiling!Tallied(Profiling!Nothing, Append(tracked, a))
          = Profiling!Counted(Profiling!Tallied(Profiling!Nothing, tracked), a)
    BY <1>11, NothingIsCounted, TallyGrows
  <2>2. Append(tracked, a) \in Seq(Accesses)
    BY <1>11, AppendProperties
  <2> QED  BY <1>2, <1>11, <2>1, <2>2
<1>13. overall'.reads = SumFunction(ReadsPerRegion(stats')) /\ overall'.writes = SumFunction(WritesPerRegion(stats'))
  BY <1>9, <1>10 DEF ProfileInv
<1>14. seen' = SeenPerRegion(stats')
  BY <1>2, <1>9 DEF ProfileInv, A
<1> QED  BY <1>9, <1>12, <1>13, <1>14 DEF ProfileInv

LEMMA RegionIsDefined ==
  ASSUME ProfileInv, NEW r, Profiling!DefineRegion(r), tracked' = tracked
  PROVE  ProfileInv'
<1> DEFINE x == r.name
           D == DOMAIN stats
<1>1. /\ x \notin D /\ overall' = overall /\ seen' = seen
      /\ stats' = [n \in D \cup {x} |-> IF n = x THEN Profiling!NoStats ELSE stats[n]]
  BY DEF Profiling!DefineRegion
<1> HIDE DEF x
<1>2. DOMAIN stats' = D \cup {x} /\ stats'[x] = Profiling!NoStats /\ \A n \in D \ {x} : stats'[n] = stats[n]
  BY <1>1
<1> DEFINE z == 0
<1>3. GrownIn(stats, stats', x, z, z, {}) /\ z \in Nat /\ z = 0
  BY <1>1, <1>2, NoStatsAreRight DEF GrownIn
<1> HIDE DEF z
<1>4. IsFiniteSet(DOMAIN stats) /\ AllRight(stats)
  BY DEF ProfileInv
<1>5. /\ IsFiniteSet(DOMAIN stats') /\ AllRight(stats')
      /\ SumFunction(ReadsPerRegion(stats')) = SumFunction(ReadsPerRegion(stats)) + z
      /\ SumFunction(WritesPerRegion(stats')) = SumFunction(WritesPerRegion(stats)) + z
      /\ SeenPerRegion(stats') = SeenPerRegion(stats) \cup {}
  BY <1>3, <1>4, RegionGrows, ZenonT(40)
<1>6. overall.reads \in Nat /\ overall.writes \in Nat
  BY NothingIsCounted, TallyIsCounters DEF ProfileInv, Counters
<1>7. overall'.reads = SumFunction(ReadsPerRegion(stats')) /\ overall'.writes = SumFunction(WritesPerRegion(stats'))
  BY <1>1, <1>3, <1>5, <1>6 DEF ProfileInv
<1> QED  BY <1>1, <1>5, <1>7 DEF ProfileInv

LEMMA ProfileIsReset ==
  ASSUME ProfileInv, Profiling!ResetProfiler, tracked' = <<>>
  PROVE  ProfileInv'
<1>1. /\ overall' = [total |-> 0, reads |-> 0, writes |-> 0] /\ seen' = {}
      /\ stats' = [n \in DOMAIN stats |-> Profiling!NoStats]
  BY DEF Profiling!ResetProfiler
<1>2. overall' = Profiling!Tallied(Profiling!Nothing, tracked')
  <2>1. Profiling!Tallied(Profiling!Nothing, <<>>) = Profiling!Nothing
    BY NothingIsCounted, TallyOfNone
  <2> QED  BY <1>1, <2>1, NothingIsCounted
<1>3. DOMAIN stats' = DOMAIN stats /\ (\A n \in DOMAIN stats : stats'[n] = Profiling!NoStats)
  BY <1>1
<1>4. IsFiniteSet(DOMAIN stats') /\ AllRight(stats')
  BY <1>3, NoStatsAreRight DEF ProfileInv, AllRight
<1>5. SumFunction(ReadsPerRegion(stats')) = 0 /\ SumFunction(WritesPerRegion(stats')) = 0
  <2> DEFINE f == ReadsPerRegion(stats')
             g == WritesPerRegion(stats')
             D == DOMAIN stats
  <2>1. DOMAIN f = D /\ DOMAIN g = D /\ (\A n \in D : f[n] = 0) /\ (\A n \in D : g[n] = 0)
    BY <1>3, NoStatsAreRight DEF ReadsPerRegion, WritesPerRegion
  <2>2. IsFiniteSet(D)
    BY DEF ProfileInv
  <2> HIDE DEF f, g, D
  <2>3. SumFunctionOnSet(f, D) = 0 /\ SumFunctionOnSet(g, D) = 0
    BY <2>1, <2>2, SumOfZeros
  <2>4. SumFunction(f) = 0 /\ SumFunction(g) = 0
    BY <2>1, <2>3 DEF SumFunction
  <2> QED  BY <2>4 DEF f, g
<1>6. overall'.reads = 0 /\ overall'.writes = 0
  BY <1>1
<1>7. seen' = SeenPerRegion(stats')
  BY <1>1, <1>3, NoStatsAreRight DEF SeenPerRegion
<1>8. tracked' \in Seq(Accesses)
  OBVIOUS
<1> QED  BY <1>2, <1>4, <1>5, <1>6, <1>7, <1>8 DEF ProfileInv

\* Together.
ProfilingInv == ReaderInv /\ ProfileInv

LEMMA TrackingStep ==
  ASSUME ProfilingInv, Profiling!ReadAndTrack
  PROVE  ProfilingInv'
<1>1. Profiling!GetNextAccess /\ ReaderInv /\ ProfileInv
  BY DEF Profiling!ReadAndTrack, ProfilingInv
<1>2. ReaderInv' /\ (returned' = returned \/ \E a \in Accesses : returned' = Append(returned, a))
  BY <1>1, ReaderGets
<1>3. CASE returned' = returned
  <2>1. UNCHANGED <<regions, overall, seen, stats, tracked>>
    BY <1>3 DEF Profiling!ReadAndTrack, Profiling!profiler
  <2>2. ProfileInv'
    BY <1>1, <2>1 DEF ProfileInv
  <2> QED  BY <1>2, <2>2 DEF ProfilingInv
<1>4. CASE returned' # returned
  <2>1. PICK a \in Accesses : returned' = Append(returned, a)
    BY <1>2, <1>4
  <2>2. returned \in Seq(Accesses)
    BY <1>1, ReturnedAreAccesses
  <2>3. Profiling!Last(returned') = a
    BY <2>1, <2>2 DEF Profiling!Last
  <2>4. Profiling!TrackAccess(a) /\ tracked' = Append(tracked, a)
    BY <1>4, <2>3 DEF Profiling!ReadAndTrack
  <2>5. ProfileInv'
    BY <1>1, <2>4, AccessIsTracked
  <2> QED  BY <1>2, <2>5 DEF ProfilingInv
<1> QED  BY <1>3, <1>4

LEMMA ProfilingStep == ProfilingInv /\ [Profiling!Next]_profiling => ProfilingInv'
<1> SUFFICES ASSUME ProfilingInv, [Profiling!Next]_profiling PROVE ProfilingInv'
  OBVIOUS
<1>1. ReaderInv /\ ProfileInv
  BY DEF ProfilingInv
<1>2. ASSUME UNCHANGED <<regions, overall, seen, stats, tracked>> PROVE ProfileInv'
  BY <1>1, <1>2 DEF ProfileInv
<1>3. ASSUME UNCHANGED <<trace, position, failed, format, counted, returned, earlier>> PROVE ReaderInv'
  BY <1>1, <1>3 DEF ReaderInv
<1>4. CASE Profiling!ReadAndTrack
  BY <1>4, TrackingStep
<1>5. CASE /\ Profiling!GetNextAccessWithError \/ Profiling!Reset \/ Profiling!ParseAll \/ Profiling!DetectFormat
           /\ UNCHANGED <<Profiling!profiler, tracked>>
  <2>1. ReaderInv'
    BY <1>1, <1>5, ReaderGetsWithError, ReaderIsReset, ReaderReadsAll, ReaderLooks
  <2>2. ProfileInv'
    BY <1>2, <1>5 DEF Profiling!profiler
  <2> QED  BY <2>1, <2>2 DEF ProfilingInv
<1>6. CASE (\E r \in SomeRegions : Profiling!DefineRegion(r)) /\ UNCHANGED <<Profiling!parser, tracked>>
  <2>1. ReaderInv'
    BY <1>3, <1>6 DEF Profiling!parser
  <2>2. ProfileInv'
    BY <1>1, <1>6, RegionIsDefined
  <2> QED  BY <2>1, <2>2 DEF ProfilingInv
<1>7. CASE Profiling!ResetProfiler /\ tracked' = <<>> /\ UNCHANGED Profiling!parser
  <2>1. ReaderInv'
    BY <1>3, <1>7 DEF Profiling!parser
  <2>2. ProfileInv'
    BY <1>1, <1>7, ProfileIsReset
  <2> QED  BY <2>1, <2>2 DEF ProfilingInv
<1>8. CASE UNCHANGED profiling
  BY <1>2, <1>3, <1>8 DEF profiling, ProfilingInv
<1> QED  BY <1>4, <1>5, <1>6, <1>7, <1>8 DEF Profiling!Next

LEMMA ProfilingKeeps == ProfilingInv => Profiling!TypeOK /\ Profiling!EveryAccessIsCounted
<1> SUFFICES ASSUME ProfilingInv PROVE Profiling!TypeOK /\ Profiling!EveryAccessIsCounted
  OBVIOUS
<1>1. ReaderInv /\ ProfileInv
  BY DEF ProfilingInv
<1>2. Profiling!TypeOK
  BY <1>1 DEF ReaderInv, Profiling!TypeOK
<1>3. Profiling!ReadsInOrder
  BY <1>1, ReadSoFar DEF ReaderInv, Profiling!ReadsInOrder
<1>4. overall.reads = Profiling!SumFunction([n \in DOMAIN stats |-> stats[n].reads])
      /\ overall.writes = Profiling!SumFunction([n \in DOMAIN stats |-> stats[n].writes])
  BY <1>1, SameSum DEF ProfileInv, ReadsPerRegion, WritesPerRegion
<1>5. seen = UNION {stats[n].addresses : n \in DOMAIN stats}
  BY <1>1 DEF ProfileInv, SeenPerRegion
<1>6. ASSUME NEW n \in DOMAIN stats
      PROVE  /\ stats[n].unique = Profiling!Cardinality(stats[n].addresses)
             /\ stats[n].addresses # {} /\ 0 \notin stats[n].addresses =>
                  stats[n].first = Profiling!Min(stats[n].addresses)
  <2> DEFINE s == stats[n]
             A == s.addresses
  <2>1. StatIsRight(s)
    BY <1>1 DEF ProfileInv, AllRight
  <2> HIDE DEF s
  <2>2. s.unique = Cardinality(A) /\ A \in SUBSET Nat
        /\ (A # {} /\ 0 \notin A => s.first \in A /\ \A x \in A : s.first <= x)
    BY <2>1 DEF StatIsRight, StatRecord
  <2>3. Profiling!Cardinality(A) = Cardinality(A)
    BY DEF Profiling!Cardinality, Cardinality
  <2>4. ASSUME A # {}, 0 \notin A PROVE s.first = Profiling!Min(A)
    <3>1. s.first \in A /\ \A x \in A : s.first <= x
      BY <2>2, <2>4
    <3>2. \A y \in A : (\A x \in A : y <= x) => y = s.first
      <4> SUFFICES ASSUME NEW y \in A, \A x \in A : y <= x PROVE y = s.first
        OBVIOUS
      <4>1. y \in Nat /\ s.first \in Nat
        BY <2>2, <3>1
      <4> QED  BY <3>1, <4>1
    <3> HIDE DEF A
    <3> QED  BY <3>1, <3>2 DEF Profiling!Min
  <2>5. s.unique = Profiling!Cardinality(A)
    BY <2>2, <2>3
  <2> QED  BY <2>4, <2>5 DEF s
<1>7. Profiling!RegionsAddUp
  BY <1>4, <1>5, <1>6 DEF Profiling!RegionsAddUp
<1>8. overall = Profiling!Tallied(Profiling!Nothing, tracked)
  BY <1>1 DEF ProfileInv
<1> QED  BY <1>2, <1>3, <1>7, <1>8 DEF Profiling!EveryAccessIsCounted

\* Every access of the lines read is returned, in their order, also over resets and looks at
\* the format, and the counters of a trace read once are right; what the loop tracked is what
\* the profile says, in all and by region, also while regions are defined.
THEOREM AccessesAreCounted == StructuresSpec => []EveryAccessIsCounted
<1> DEFINE P == part = "profiling" => ProfilingInv
<1>1. StructuresInit => P
  BY ReaderStart, ProfileStart DEF StructuresInit, Profiling!TraceInit, ProfilingInv
<1>2. P /\ [StructuresNext]_structures => P'
  BY ProfilingStep, StepOfThePart
<1>3. P => EveryAccessIsCounted
  BY ProfilingKeeps DEF EveryAccessIsCounted, Promised
<1> HIDE DEF P
<1> QED  BY <1>1, <1>2, <1>3, PTL DEF StructuresSpec
=============================================================================

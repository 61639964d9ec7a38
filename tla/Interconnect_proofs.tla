------------------------- MODULE Interconnect_proofs -------------------------
(***************************************************************************)
(* Theorems about the interconnects, for any number of processors, any     *)
(* width of the mesh, any set of topologies and any number of messages:    *)
(*   LinksStaySound                    the channels and the threads at them *)
(*   InterconnectImplementsMailboxes   what the receivers see              *)
(*   CountersAgree                     what the statistics show            *)
(* The last one needs the distances of the networks: that the formulas of  *)
(* ring and torus and the route of the mesh are shortest paths.            *)
(***************************************************************************)
EXTENDS Interconnect, FiniteSums, SequenceTheorems

LetterSet == [source : Senders, number : Nat]

\* The recursion that defines NumbersFrom.
Reads(f, s, q, n) ==
  f = [i \in 0 .. n |-> IF i = 0 THEN <<>>
                        ELSE IF q[i].source = s THEN Append(f[i - 1], q[i].number)
                        ELSE f[i - 1]]

LEMMA ReadsExists ==
  ASSUME NEW s, NEW q, NEW n \in Nat
  PROVE  \E f : Reads(f, s, q, n)
<1> DEFINE Bad == {m \in Nat : ~ \E f : Reads(f, s, q, m)}
<1> SUFFICES ASSUME Bad # {} PROVE FALSE
  OBVIOUS
<1>1. PICK m \in Bad : \A k \in Bad : m <= k
  BY LeastNumber
<1>2. m # 0
  <2>1. Reads([i \in 0 .. 0 |-> <<>>], s, q, 0)
    BY DEF Reads
  <2> QED  BY <2>1
<1>3. PICK f : Reads(f, s, q, m - 1)
  <2>1. m - 1 \in Nat /\ ~(m <= m - 1)
    BY <1>2
  <2> QED  BY <2>1, <1>1
<1> DEFINE g == [i \in 0 .. m |-> IF i = 0 THEN <<>>
                   ELSE IF q[i].source = s THEN Append(f[i - 1], q[i].number)
                   ELSE f[i - 1]]
<1>4. \A i \in 0 .. m - 1 : g[i] = f[i]
  <2> SUFFICES ASSUME NEW i \in 0 .. m - 1 PROVE g[i] = f[i]
    OBVIOUS
  <2>1. i \in 0 .. m
    BY <1>1
  <2>2. g[i] = IF i = 0 THEN <<>>
               ELSE IF q[i].source = s THEN Append(f[i - 1], q[i].number) ELSE f[i - 1]
    BY <2>1
  <2>3. f[i] = IF i = 0 THEN <<>>
               ELSE IF q[i].source = s THEN Append(f[i - 1], q[i].number) ELSE f[i - 1]
    BY <1>3 DEF Reads
  <2> QED  BY <2>2, <2>3
<1>5. Reads(g, s, q, m)
  <2>0. m \in Nat  BY <1>1
  <2>1. \A i \in 0 .. m : i # 0 => i - 1 \in 0 .. m - 1
    BY <1>2
  <2>2. \A i \in 0 .. m : i # 0 => g[i - 1] = f[i - 1]
    BY <2>1, <1>4
  <2> HIDE DEF g
  <2>3. g = [i \in 0 .. m |-> IF i = 0 THEN <<>>
                   ELSE IF q[i].source = s THEN Append(f[i - 1], q[i].number)
                   ELSE f[i - 1]]
    BY DEF g
  <2>4. g = [i \in 0 .. m |-> IF i = 0 THEN <<>>
                   ELSE IF q[i].source = s THEN Append(g[i - 1], q[i].number)
                   ELSE g[i - 1]]
    BY <2>2, <2>3
  <2> QED  BY <2>4 DEF Reads
<1> QED  BY <1>5

LEMMA ReadsStep ==
  ASSUME NEW s, NEW q, NEW n \in Nat, NEW f, Reads(f, s, q, n)
  PROVE  /\ f[0] = <<>>
         /\ \A i \in 1 .. n :
              f[i] = IF q[i].source = s THEN Append(f[i - 1], q[i].number) ELSE f[i - 1]
<1> DEFINE body(i) == IF i = 0 THEN <<>>
                      ELSE IF q[i].source = s THEN Append(f[i - 1], q[i].number)
                      ELSE f[i - 1]
<1>1. f = [i \in 0 .. n |-> body(i)]
  BY DEF Reads
<1>2. \A i \in 0 .. n : f[i] = body(i)
  <2> HIDE DEF body
  <2> QED  BY <1>1
<1>3. 0 \in 0 .. n /\ \A i \in 1 .. n : i \in 0 .. n /\ i # 0
  OBVIOUS
<1> QED  BY <1>2, <1>3

\* Two sequences that agree up to n are read alike up to n.
LEMMA ReadsAgree ==
  ASSUME NEW s, NEW q, NEW r, NEW m \in Nat, NEW n \in Nat, NEW k \in Nat, k <= m, k <= n,
         \A i \in 1 .. k : q[i] = r[i],
         NEW f, NEW g, Reads(f, s, q, m), Reads(g, s, r, n)
  PROVE  f[k] = g[k]
<1>f. /\ f[0] = <<>>
      /\ \A i \in 1 .. m :
           f[i] = IF q[i].source = s THEN Append(f[i - 1], q[i].number) ELSE f[i - 1]
  BY ReadsStep, SMTT(30)
<1>g. /\ g[0] = <<>>
      /\ \A i \in 1 .. n :
           g[i] = IF r[i].source = s THEN Append(g[i - 1], r[i].number) ELSE g[i - 1]
  BY ReadsStep
<1> DEFINE Bad == {i \in 0 .. k : f[i] # g[i]}
<1> SUFFICES ASSUME Bad # {} PROVE FALSE
  OBVIOUS
<1>1. PICK b \in Bad : \A i \in Bad : b <= i
  <2>1. Bad \subseteq Nat
    OBVIOUS
  <2> HIDE DEF Bad
  <2> QED  BY <2>1, LeastNumber
<1>2. b # 0
  <2>1. f[b] # g[b]
    OBVIOUS
  <2> QED  BY <1>f, <1>g, <2>1
<1>3. f[b - 1] = g[b - 1]
  <2>1. b - 1 \in 0 .. k /\ ~(b <= b - 1)
    BY <1>2
  <2> QED  BY <2>1, <1>1
<1>4. f[b] = g[b]
  <2>1. b \in 1 .. m /\ b \in 1 .. n /\ q[b] = r[b]
    BY <1>2
  <2>2. f[b] = IF q[b].source = s THEN Append(f[b - 1], q[b].number) ELSE f[b - 1]
    BY <2>1, <1>f
  <2>3. g[b] = IF r[b].source = s THEN Append(g[b - 1], r[b].number) ELSE g[b - 1]
    BY <2>1, <1>g
  <2> QED  BY <2>1, <2>2, <2>3, <1>3
<1> QED  BY <1>4

LEMMA NumbersFromDef ==
  ASSUME NEW s, NEW q, Len(q) \in Nat
  PROVE  \E f : Reads(f, s, q, Len(q)) /\ NumbersFrom(s, q) = f[Len(q)]
<1>1. \E f : Reads(f, s, q, Len(q))
  BY ReadsExists
<1> QED  BY <1>1 DEF Reads, NumbersFrom

LEMMA NumbersFromAppend ==
  ASSUME NEW s, NEW q \in Seq(LetterSet), NEW l \in LetterSet
  PROVE  NumbersFrom(s, Append(q, l)) =
           IF l.source = s THEN Append(NumbersFrom(s, q), l.number) ELSE NumbersFrom(s, q)
<1> DEFINE r == Append(q, l)
<1>1. /\ Len(q) \in Nat /\ Len(r) = Len(q) + 1 /\ r[Len(r)] = l
      /\ \A i \in 1 .. Len(q) : q[i] = r[i]
  OBVIOUS
<1> HIDE DEF r
<1>2. PICK f : Reads(f, s, q, Len(q)) /\ NumbersFrom(s, q) = f[Len(q)]
  BY <1>1, NumbersFromDef
<1>3. PICK g : Reads(g, s, r, Len(r)) /\ NumbersFrom(s, r) = g[Len(r)]
  BY <1>1, NumbersFromDef
<1>4. g[Len(q)] = f[Len(q)]
  <2>1. Len(q) \in Nat /\ Len(r) \in Nat /\ Len(q) <= Len(q) /\ Len(q) <= Len(r)
    BY <1>1
  <2> QED  BY <1>1, <1>2, <1>3, <2>1, ReadsAgree
<1>5. g[Len(r)] = IF r[Len(r)].source = s THEN Append(g[Len(r) - 1], r[Len(r)].number)
                  ELSE g[Len(r) - 1]
  <2>1. Len(r) \in Nat /\ Len(r) \in 1 .. Len(r)
    BY <1>1
  <2> QED  BY <1>3, <2>1, ReadsStep
<1> QED  BY <1>1, <1>2, <1>3, <1>4, <1>5 DEF r

\* What is read up to the i-th letter is a sequence of numbers.
LEMMA ReadsType ==
  ASSUME NEW s, NEW q \in Seq(LetterSet), NEW f, Reads(f, s, q, Len(q))
  PROVE  \A i \in 0 .. Len(q) : f[i] \in Seq(Nat)
<1> DEFINE Bad == {i \in 0 .. Len(q) : f[i] \notin Seq(Nat)}
<1> SUFFICES ASSUME Bad # {} PROVE FALSE
  OBVIOUS
<1>s. /\ f[0] = <<>> /\ Len(q) \in Nat
      /\ \A i \in 1 .. Len(q) :
           f[i] = IF q[i].source = s THEN Append(f[i - 1], q[i].number) ELSE f[i - 1]
  <2>1. Len(q) \in Nat
    OBVIOUS
  <2> QED  BY <2>1, ReadsStep
<1>1. PICK b \in Bad : \A i \in Bad : b <= i
  <2>1. Bad \subseteq Nat
    OBVIOUS
  <2> HIDE DEF Bad
  <2> QED  BY <2>1, LeastNumber
<1>2. b # 0
  <2>1. f[b] \notin Seq(Nat) /\ <<>> \in Seq(Nat)
    OBVIOUS
  <2> QED  BY <1>s, <2>1
<1>3. f[b - 1] \in Seq(Nat)
  <2>1. b - 1 \in 0 .. Len(q) /\ ~(b <= b - 1)
    BY <1>2
  <2> QED  BY <2>1, <1>1
<1>4. f[b] = IF q[b].source = s THEN Append(f[b - 1], q[b].number) ELSE f[b - 1]
  <2>1. b \in 1 .. Len(q)
    BY <1>2
  <2> QED  BY <1>s, <2>1
<1>5. q[b].number \in Nat
  <2>1. b \in 1 .. Len(q)
    BY <1>2
  <2>2. q[b] \in LetterSet
    BY <2>1
  <2> QED  BY <2>2 DEF LetterSet
<1>6. f[b] \in Seq(Nat)
  BY <1>3, <1>4, <1>5
<1> QED  BY <1>6

LEMMA AppendThenTail ==
  ASSUME NEW u \in Seq(Nat), NEW x \in Nat
  PROVE  /\ Append(u, x) # <<>>
         /\ Tail(Append(u, x)) = IF u = <<>> THEN <<>> ELSE Append(Tail(u), x)
  BY HeadTailAppend, AppendProperties, ZenonT(40)

\* The first letter is the first to be taken, if it is from s.
LEMMA NumbersFromTail ==
  ASSUME NEW s, NEW q \in Seq(LetterSet), q # <<>>
  PROVE  IF Head(q).source = s
           THEN NumbersFrom(s, q) # <<>> /\ NumbersFrom(s, Tail(q)) = Tail(NumbersFrom(s, q))
           ELSE NumbersFrom(s, Tail(q)) = NumbersFrom(s, q)
<1> DEFINE r == Tail(q)
<1>1. /\ r \in Seq(LetterSet) /\ Len(r) \in Nat /\ Len(q) = Len(r) + 1
      /\ \A i \in 1 .. Len(r) : r[i] = q[i + 1]
      /\ Head(q) = q[1]
  OBVIOUS
<1> HIDE DEF r
<1>l. Len(q) \in Nat
  OBVIOUS
<1>2. PICK f : Reads(f, s, q, Len(q)) /\ NumbersFrom(s, q) = f[Len(q)]
  BY <1>1, NumbersFromDef
<1>3. PICK g : Reads(g, s, r, Len(r)) /\ NumbersFrom(s, r) = g[Len(r)]
  BY <1>1, NumbersFromDef
<1>f. \A i \in 0 .. Len(q) : f[i] \in Seq(Nat)
  BY <1>2, ReadsType
<1> DEFINE Shifted(i) == IF Head(q).source = s
                         THEN f[i + 1] # <<>> /\ g[i] = Tail(f[i + 1])
                         ELSE g[i] = f[i + 1]
           Bad == {i \in 0 .. Len(r) : ~Shifted(i)}
<1>4. Bad = {}
  <2> SUFFICES ASSUME Bad # {} PROVE FALSE
    OBVIOUS
  <2>1. PICK b \in Bad : \A i \in Bad : b <= i
    <3>1. Bad \subseteq Nat
      OBVIOUS
    <3> HIDE DEF Bad
    <3> QED  BY <3>1, LeastNumber
  <2>t. b \in 0 .. Len(r) /\ b \in Nat /\ b + 1 \in 0 .. Len(q)
    BY <1>1
  <2>2. f[b + 1] = IF q[b + 1].source = s THEN Append(f[b], q[b + 1].number) ELSE f[b]
    <3>1. b + 1 \in 1 .. Len(q) /\ (b + 1) - 1 = b
      BY <2>t
    <3> QED  BY <1>2, <1>l, <3>1, ReadsStep
  <2>f. f[b] \in Seq(Nat)
    BY <1>1, <1>f, <2>t
  <2>3. CASE b = 0
    <3>1. g[0] = <<>> /\ f[0] = <<>>
      BY <1>1, <1>2, <1>3, <1>l, ReadsStep
    <3>t. 0 + 1 = 1 /\ q[1].number \in Nat
      <4>1. q[1] \in LetterSet
        BY <1>1
      <4> QED  BY <4>1 DEF LetterSet
    <3>f. f[1] = IF q[1].source = s THEN Append(f[0], q[1].number) ELSE f[0]
      BY <2>2, <2>3, <3>t
    <3>2. Head(q).source = s => f[1] = Append(<<>>, q[1].number)
      BY <1>1, <3>f, <3>1
    <3>3. Head(q).source # s => f[1] = <<>>
      BY <1>1, <3>f, <3>1
    <3>4. Shifted(0)
      <4>1. 0 + 1 = 1 /\ <<>> \in Seq(Nat)
        OBVIOUS
      <4>2. Head(q).source = s => f[1] # <<>> /\ Tail(f[1]) = <<>>
        BY <3>t, <3>2, <4>1, AppendThenTail
      <4> QED  BY <3>1, <3>3, <4>1, <4>2
    <3> QED  BY <2>3, <3>4
  <2>4. CASE b # 0
    <3>1. b - 1 \in 0 .. Len(r) /\ ~(b <= b - 1) /\ (b - 1) + 1 = b
      BY <2>t, <2>4
    <3>2. Shifted(b - 1)
      BY <2>1, <3>1
    <3>3. g[b] = IF r[b].source = s THEN Append(g[b - 1], r[b].number) ELSE g[b - 1]
      <4>1. b \in 1 .. Len(r)
        BY <2>t, <2>4
      <4> QED  BY <1>1, <1>3, <4>1, ReadsStep
    <3>4. r[b] = q[b + 1] /\ q[b + 1].number \in Nat
      <4>1. b \in 1 .. Len(r) /\ b + 1 \in 1 .. Len(q)
        BY <1>1, <2>t, <2>4
      <4>2. q[b + 1] \in LetterSet
        BY <4>1
      <4> QED  BY <1>1, <4>1, <4>2 DEF LetterSet
    <3> DEFINE x == q[b + 1].number
    <3>a. f[b] # <<>> => Append(f[b], x) # <<>> /\ Tail(Append(f[b], x)) = Append(Tail(f[b]), x)
      BY <2>f, <3>4, AppendThenTail DEF x
    <3>5. Shifted(b)
      <4> HIDE DEF Bad, x
      <4>1. f[b + 1] = IF q[b + 1].source = s THEN Append(f[b], x) ELSE f[b]
        BY <2>2 DEF x
      <4>2. g[b] = IF q[b + 1].source = s THEN Append(g[b - 1], x) ELSE g[b - 1]
        BY <3>3, <3>4 DEF x
      <4>3. IF Head(q).source = s THEN f[b] # <<>> /\ g[b - 1] = Tail(f[b]) ELSE g[b - 1] = f[b]
        BY <3>1, <3>2
      <4> QED  BY <4>1, <4>2, <4>3, <3>a
    <3> QED  BY <3>5
  <2> QED  BY <2>3, <2>4
<1>5. Shifted(Len(r))
  BY <1>1, <1>4
<1> QED  BY <1>1, <1>2, <1>3, <1>5 DEF r

-----------------------------------------------------------------------------
\* Where a thread is, whom it sends to and what it sends fit together.
PlaceOK(p) ==
  /\ pc[p] # "idle" => dest[p] \in Dests /\ number[p][dest[p]] > 0
  /\ pc[p] # "idle" /\ topology \in {"Crossbar", "Mesh"} => dest[p] \in Nodes
  /\ pc[p] = "hop" => topology = "Mesh"

\* A connection of the crossbar holds letters of its source only.
QueuesOK ==
  /\ queue \in [Nodes -> Seq(LetterSet)]
  /\ connections \in [Nodes -> [Nodes -> Seq(LetterSet)]]
  /\ \A s, d \in Nodes : \A i \in DOMAIN connections[s][d] : connections[s][d][i].source = s

\* The inductive invariant.
LinkInv ==
  /\ LinksAreSound
  /\ \A p \in Senders : PlaceOK(p)
  /\ portOccupied # {} => topology = "Crossbar"
  /\ QueuesOK

LEMMA Quotient ==
  ASSUME NEW n \in Nat, NEW w \in Nat \ {0}
  PROVE  n % w \in 0 .. w - 1 /\ n \div w \in Nat /\ n = w * (n \div w) + (n % w)
  OBVIOUS

LEMMA NextRow ==
  ASSUME NEW i \in Int, NEW j \in Int, NEW w \in Nat, i < j
  PROVE  w * i + w <= w * j
<1>1. w * (j - i - 1) >= 0 /\ w * (j - i - 1) = w * j - w * i - w
  OBVIOUS
<1> QED  BY <1>1

\* A route of the mesh stays in it, because its last row is full.
LEMMA RouteStaysInMesh ==
  ASSUME NEW n \in Nodes, NEW d \in Nodes, n # d
  PROVE  NextRouter(n, d) \in Nodes
<1> DEFINE x == n % Width
           y == n \div Width
           u == d % Width
           v == d \div Width
           h == NumNodes \div Width
<1>w. Width \in Nat \ {0} /\ NumNodes \in Nat \ {0} /\ n \in Nat /\ d \in Nat
      /\ n < NumNodes /\ d < NumNodes
  BY InterconnectAssumption DEF Nodes
<1>1. x \in 0 .. Width - 1 /\ y \in Nat /\ n = Width * y + x
  BY <1>w, Quotient
<1>2. u \in 0 .. Width - 1 /\ v \in Nat /\ d = Width * v + u
  BY <1>w, Quotient
<1>3. h \in Nat /\ NumNodes = Width * h
  <2>1. NumNodes % Width = 0
    BY InterconnectAssumption
  <2>2. h \in Nat /\ NumNodes = Width * h + (NumNodes % Width)
    BY <1>w, Quotient
  <2> QED  BY <1>w, <2>1, <2>2
<1> DEFINE next == NextRouter(n, d)
<1>4. next = IF x # u THEN IF x < u THEN n + 1 ELSE n - 1 ELSE IF n < d THEN n + Width ELSE n - Width
  BY DEF NextRouter
<1> HIDE DEF x, y, u, v, h, next
<1>5. y < h
  <2>1. ~(h <= y)
    <3> SUFFICES ASSUME h <= y PROVE FALSE
      OBVIOUS
    <3>1. h = y \/ Width * h + Width <= Width * y
      BY <1>w, <1>1, <1>3, NextRow
    <3> QED  BY <1>w, <1>1, <1>3, <3>1
  <2> QED  BY <2>1, <1>1, <1>3
<1>6. CASE x < u
  <2>1. Width * y + Width <= Width * h
    BY <1>w, <1>1, <1>3, <1>5, NextRow
  <2>2. n + 1 < NumNodes
    BY <2>1, <1>w, <1>1, <1>2, <1>3, <1>6
  <2>3. next = n + 1
    BY <1>1, <1>2, <1>4, <1>6
  <2>4. next \in Nodes
    BY <2>2, <2>3, <1>w DEF Nodes
  <2> QED  BY <2>4 DEF next
<1>7. CASE u < x
  <2>1. next = n - 1 /\ n > 0
    <3>1. Width * y >= 0
      BY <1>w, <1>1
    <3>2. next = n - 1
      BY <1>1, <1>2, <1>4, <1>7
    <3>3. x > 0
      BY <1>1, <1>2, <1>7
    <3> QED  BY <1>w, <1>1, <3>1, <3>2, <3>3
  <2>2. next \in Nodes
    BY <2>1, <1>w DEF Nodes
  <2> QED  BY <2>2 DEF next
<1>8. CASE x = u
  <2>1. y # v
    BY <1>1, <1>2, <1>8
  <2>2. CASE y < v
    <3>1. Width * y + Width <= Width * v
      BY <1>w, <1>1, <1>2, <2>2, NextRow
    <3>2. n + Width <= d /\ n < d
      BY <3>1, <1>w, <1>1, <1>2, <1>8
    <3>3. next \in Nodes
      BY <3>2, <1>4, <1>8, <1>w DEF Nodes
    <3> QED  BY <3>3 DEF next
  <2>3. CASE v < y
    <3>1. Width * v + Width <= Width * y
      BY <1>w, <1>1, <1>2, <2>3, NextRow
    <3>2. d + Width <= n /\ ~(n < d)
      BY <3>1, <1>w, <1>1, <1>2, <1>8
    <3>3. next \in Nodes
      BY <3>2, <1>4, <1>8, <1>w DEF Nodes
    <3> QED  BY <3>3 DEF next
  <2> QED  BY <2>1, <2>2, <2>3, <1>1, <1>2
<1> QED  BY <1>1, <1>2, <1>6, <1>7, <1>8

LEMMA MinOfTwo ==
  ASSUME NEW a \in Int, NEW b \in Int
  PROVE  Min({a, b}) = IF a <= b THEN a ELSE b
<1> DEFINE m == IF a <= b THEN a ELSE b
<1>1. m \in {a, b} /\ \A y \in {a, b} : m <= y
  OBVIOUS
<1>2. \A x \in {a, b} : (\A y \in {a, b} : x <= y) => x = m
  OBVIOUS
<1> QED  BY <1>1, <1>2 DEF Min

LEMMA MaxOfTwo ==
  ASSUME NEW a \in Int, NEW b \in Int
  PROVE  Max({a, b}) = IF a >= b THEN a ELSE b
<1> DEFINE m == IF a >= b THEN a ELSE b
<1>1. m \in {a, b} /\ \A y \in {a, b} : m >= y
  OBVIOUS
<1>2. \A x \in {a, b} : (\A y \in {a, b} : x >= y) => x = m
  OBVIOUS
<1> QED  BY <1>1, <1>2 DEF Max

LEMMA WrappedType ==
  ASSUME NEW size \in Nat, NEW x \in 0 .. size, NEW y \in 0 .. size
  PROVE  Wrapped(x, y, size) \in Nat
<1>1. x - y \in Int /\ y - x \in Int
  OBVIOUS
<1>2. Apart(x, y) = IF x - y >= y - x THEN x - y ELSE y - x
  BY <1>1, MaxOfTwo DEF Apart
<1>3. Apart(x, y) \in 0 .. size
  BY <1>2
<1>4. Wrapped(x, y, size) = IF Apart(x, y) <= size - Apart(x, y) THEN Apart(x, y)
                            ELSE size - Apart(x, y)
  <2>1. Apart(x, y) \in Int /\ size - Apart(x, y) \in Int
    BY <1>3
  <2> QED  BY <2>1, MinOfTwo DEF Wrapped
<1> QED  BY <1>3, <1>4

\* The hops that ring and torus add to their counters are a number, also for the
\* destination that is nobody's id.
LEMMA FormulaHopsType ==
  ASSUME NEW p \in Nodes, NEW d \in 0 .. NumNodes
  PROVE  FormulaHops(p, d) \in Nat
<1>w. Width \in Nat \ {0} /\ NumNodes \in Nat \ {0} /\ p \in Nat /\ d \in Nat
      /\ p < NumNodes /\ d <= NumNodes
  BY InterconnectAssumption DEF Nodes
<1>1. RingHops(p, d) \in Nat
  <2> DEFINE clockwise == IF d >= p THEN d - p ELSE NumNodes - p + d
  <2>1. clockwise \in 0 .. NumNodes
    BY <1>w
  <2> HIDE DEF clockwise
  <2>2. clockwise \in Int /\ NumNodes - clockwise \in Nat
    BY <2>1, <1>w
  <2>3. Min({clockwise, NumNodes - clockwise}) \in Nat
    BY <2>1, <2>2, MinOfTwo
  <2> QED  BY <2>3 DEF RingHops, clockwise
<1>2. TorusHops(p, d) \in Nat
  <2>1. p % Width \in 0 .. Width /\ d % Width \in 0 .. Width
    BY <1>w, Quotient
  <2>2. Height \in Nat /\ NumNodes = Width * Height
    <3>1. NumNodes % Width = 0
      BY InterconnectAssumption
    <3>2. Height \in Nat /\ NumNodes = Width * Height + (NumNodes % Width)
      BY <1>w, Quotient DEF Height
    <3> QED  BY <1>w, <3>1, <3>2
  <2>3. \A n \in 0 .. NumNodes : n \div Width \in 0 .. Height
    <3> SUFFICES ASSUME NEW n \in 0 .. NumNodes PROVE n \div Width \in 0 .. Height
      OBVIOUS
    <3> DEFINE y == n \div Width
    <3>1. n \in Nat /\ n % Width \in 0 .. Width - 1 /\ y \in Nat /\ n = Width * y + (n % Width)
      <4>1. n \in Nat
        BY <1>w
      <4> QED  BY <4>1, <1>w, Quotient
    <3>2. Height < y => Width * Height + Width <= Width * y
      BY <1>w, <2>2, <3>1, NextRow
    <3> HIDE DEF y
    <3>3. ~(Height < y)
      BY <1>w, <2>2, <3>1, <3>2
    <3>4. y \in 0 .. Height
      BY <2>2, <3>1, <3>3
    <3> QED  BY <3>4 DEF y
  <2>4. p \div Width \in 0 .. Height /\ d \div Width \in 0 .. Height
    <3>1. p \in 0 .. NumNodes /\ d \in 0 .. NumNodes
      BY <1>w
    <3> QED  BY <3>1, <2>3
  <2>5. /\ Wrapped(p % Width, d % Width, Width) \in Nat
        /\ Wrapped(p \div Width, d \div Width, Height) \in Nat
    BY <1>w, <2>1, <2>2, <2>4, WrappedType
  <2> QED  BY <2>5 DEF TorusHops
<1> QED  BY <1>1, <1>2 DEF FormulaHops

LEMMA SendersType == Senders \subseteq Nodes /\ Dests \subseteq 0 .. NumNodes
                     /\ Nodes \subseteq 0 .. NumNodes /\ NumNodes \in Nat
  BY InterconnectAssumption DEF Nodes

LEMMA InitLinkInv == NetworkInit => LinkInv
<1> SUFFICES ASSUME NetworkInit PROVE LinkInv
  OBVIOUS
<1> USE DEF NetworkInit
<1>1. NetworkTypeOK
  BY SendersType DEF NetworkTypeOK, Places
<1>2. BusIsExclusive /\ PortsComeFree
  BY DEF BusIsExclusive, PortsComeFree, OnBus
<1>3. \A p \in Senders : PlaceOK(p)
  BY DEF PlaceOK
<1>4. QueuesOK
  BY DEF QueuesOK
<1> QED  BY <1>1, <1>2, <1>3, <1>4 DEF LinkInv, LinksAreSound

LEMMA SendLink == ASSUME LinkInv, NEW p \in Senders, NEW d \in Dests, Send(p, d) PROVE LinkInv'
<1> USE DEF LinkInv, LinksAreSound, Send, Go, FirstStep
<1>1. NetworkTypeOK'
  <2>1. p \in Nodes /\ d \in 0 .. NumNodes
    BY SendersType
  <2>2. FormulaHops(p, d) \in Nat
    BY <2>1, FormulaHopsType
  <2>3. topology \in {"Bus", "Crossbar", "Mesh", "Ring", "Torus"}
    BY InterconnectAssumption DEF NetworkTypeOK
  <2>4. number[p][d] + 1 \in Nat
    BY DEF NetworkTypeOK
  <2> QED  BY <2>1, <2>2, <2>3, <2>4, ZenonT(40) DEF NetworkTypeOK, Places
<1>2. BusIsExclusive'
  BY DEF NetworkTypeOK, BusIsExclusive, OnBus, PlaceOK
<1>3. PortsComeFree'
  BY DEF NetworkTypeOK, PortsComeFree
<1>4. \A q \in Senders : PlaceOK(q)'
  BY DEF NetworkTypeOK, PlaceOK
<1>5. (portOccupied # {} => topology = "Crossbar")'
  OBVIOUS
<1>6. QueuesOK'
  BY DEF QueuesOK
<1> QED  BY <1>1, <1>2, <1>3, <1>4, <1>5, <1>6

LEMMA TakeBusLink == ASSUME LinkInv, NEW p \in Senders, TakeBus(p) PROVE LinkInv'
<1> USE DEF LinkInv, LinksAreSound, TakeBus, MayTake, Go
<1>1. NetworkTypeOK'
  BY InterconnectAssumption DEF NetworkTypeOK, Places, PlaceOK, Nodes
<1>2. BusIsExclusive'
  BY DEF NetworkTypeOK, BusIsExclusive, OnBus, PlaceOK
<1>3. PortsComeFree'
  BY DEF NetworkTypeOK, PortsComeFree
<1>4. \A q \in Senders : PlaceOK(q)'
  BY DEF NetworkTypeOK, PlaceOK
<1>5. (portOccupied # {} => topology = "Crossbar")'
  OBVIOUS
<1>6. QueuesOK'
  BY DEF QueuesOK
<1> QED  BY <1>1, <1>2, <1>3, <1>4, <1>5, <1>6

LEMMA WaitForBusLink == ASSUME LinkInv, NEW p \in Senders, WaitForBus(p) PROVE LinkInv'
<1> USE DEF LinkInv, LinksAreSound, WaitForBus, MayTake, Go
<1>1. NetworkTypeOK'
  BY InterconnectAssumption DEF NetworkTypeOK, Places, PlaceOK, Nodes
<1>2. BusIsExclusive'
  BY DEF NetworkTypeOK, BusIsExclusive, OnBus, PlaceOK
<1>3. PortsComeFree'
  BY DEF NetworkTypeOK, PortsComeFree
<1>4. \A q \in Senders : PlaceOK(q)'
  BY DEF NetworkTypeOK, PlaceOK
<1>5. (portOccupied # {} => topology = "Crossbar")'
  OBVIOUS
<1>6. QueuesOK'
  BY DEF QueuesOK
<1> QED  BY <1>1, <1>2, <1>3, <1>4, <1>5, <1>6

LEMMA SpuriousWakeLink == ASSUME LinkInv, NEW p \in Senders, SpuriousWake(p) PROVE LinkInv'
<1> USE DEF LinkInv, LinksAreSound, SpuriousWake, Go
<1>1. NetworkTypeOK'
  BY InterconnectAssumption DEF NetworkTypeOK, Places, PlaceOK, Nodes
<1>2. BusIsExclusive'
  BY DEF NetworkTypeOK, BusIsExclusive, OnBus, PlaceOK
<1>3. PortsComeFree'
  BY DEF NetworkTypeOK, PortsComeFree
<1>4. \A q \in Senders : PlaceOK(q)'
  BY DEF NetworkTypeOK, PlaceOK
<1>5. (portOccupied # {} => topology = "Crossbar")'
  OBVIOUS
<1>6. QueuesOK'
  BY DEF QueuesOK
<1> QED  BY <1>1, <1>2, <1>3, <1>4, <1>5, <1>6

LEMMA TakePortLink == ASSUME LinkInv, NEW p \in Senders, TakePort(p) PROVE LinkInv'
<1> USE DEF LinkInv, LinksAreSound, TakePort, Go
<1>1. NetworkTypeOK'
  BY InterconnectAssumption, SMTT(30) DEF NetworkTypeOK, Places, PlaceOK, Nodes
<1>2. BusIsExclusive'
  BY DEF NetworkTypeOK, BusIsExclusive, OnBus, PlaceOK
<1>3. PortsComeFree'
  BY DEF NetworkTypeOK, PortsComeFree
<1>4. \A q \in Senders : PlaceOK(q)'
  BY DEF NetworkTypeOK, PlaceOK
<1>5. (portOccupied # {} => topology = "Crossbar")'
  OBVIOUS
<1>6. QueuesOK'
  BY DEF QueuesOK
<1> QED  BY <1>1, <1>2, <1>3, <1>4, <1>5, <1>6

LEMMA HopLink == ASSUME LinkInv, NEW p \in Senders, Hop(p) PROVE LinkInv'
<1> USE DEF LinkInv, LinksAreSound, Hop
<1>1. NetworkTypeOK'
  <2>1. topology = "Mesh" /\ at[p] \in Nodes /\ dest[p] \in Nodes
    BY DEF PlaceOK, NetworkTypeOK
  <2>2. NextRouter(at[p], dest[p]) \in Nodes
    BY <2>1, RouteStaysInMesh
  <2>3. congestion[at[p]] + 1 \in Nat /\ hops[p] + 1 \in Nat
    BY <2>1 DEF NetworkTypeOK
  <2> QED  BY <2>2, <2>3 DEF NetworkTypeOK
<1>2. BusIsExclusive'
  BY DEF NetworkTypeOK, BusIsExclusive, OnBus, PlaceOK
<1>3. PortsComeFree'
  BY DEF NetworkTypeOK, PortsComeFree
<1>4. \A q \in Senders : PlaceOK(q)'
  BY DEF NetworkTypeOK, PlaceOK
<1>5. (portOccupied # {} => topology = "Crossbar")'
  OBVIOUS
<1>6. QueuesOK'
  BY DEF QueuesOK
<1> QED  BY <1>1, <1>2, <1>3, <1>4, <1>5, <1>6

LEMMA DeliverLink == ASSUME LinkInv, NEW p \in Senders, Deliver(p) PROVE LinkInv'
<1> USE DEF LinkInv, LinksAreSound, Deliver, Arrived, Go
<1>1. NetworkTypeOK'
  BY InterconnectAssumption DEF NetworkTypeOK, Places, PlaceOK, Nodes
<1>2. BusIsExclusive'
  BY DEF NetworkTypeOK, BusIsExclusive, OnBus, PlaceOK
<1>3. PortsComeFree'
  BY DEF NetworkTypeOK, PortsComeFree
<1>4. \A q \in Senders : PlaceOK(q)'
  BY DEF NetworkTypeOK, PlaceOK
<1>5. (portOccupied # {} => topology = "Crossbar")'
  OBVIOUS
<1>6. QueuesOK'
  <2>1. Letter(p) \in LetterSet /\ Letter(p).source = p
    <3>1. pc[p] # "idle"
      OBVIOUS
    <3>2. dest[p] \in Dests
      BY <3>1 DEF PlaceOK
    <3>3. number[p][dest[p]] \in Nat
      BY <3>2 DEF NetworkTypeOK
    <3> QED  BY <3>3 DEF Letter, LetterSet
  <2>2. CASE dest[p] \notin Nodes
    BY <2>2 DEF QueuesOK
  <2>3. CASE dest[p] \in Nodes /\ topology = "Crossbar"
    <3> DEFINE old == connections[p][dest[p]]
               new == Append(old, Letter(p))
    <3>1. p \in Nodes
      BY SendersType
    <3>2. old \in Seq(LetterSet) /\ \A i \in DOMAIN old : old[i].source = p
      BY <2>3, <3>1 DEF QueuesOK
    <3> HIDE DEF old
    <3>3. new \in Seq(LetterSet)
      BY <2>1, <3>2
    <3>4. \A i \in DOMAIN new : new[i].source = p
      BY <2>1, <3>2, AppendProperties
    <3>5. connections' = [connections EXCEPT ![p][dest[p]] = new] /\ UNCHANGED queue
      BY <2>3 DEF Enqueued, old
    <3> HIDE DEF new
    <3>6. connections' \in [Nodes -> [Nodes -> Seq(LetterSet)]]
      BY <2>3, <3>1, <3>3, <3>5 DEF QueuesOK
    <3>7. ASSUME NEW s \in Nodes, NEW d \in Nodes, NEW i \in DOMAIN connections'[s][d]
          PROVE  connections'[s][d][i].source = s
      <4>1. connections'[s][d] = IF s = p /\ d = dest[p] THEN new ELSE connections[s][d]
        BY <2>3, <3>1, <3>5 DEF QueuesOK
      <4>2. CASE s = p /\ d = dest[p]
        <5>1. connections'[s][d] = new
          BY <4>1, <4>2
        <5> QED  BY <5>1, <4>2, <3>4, <3>7
      <4>3. CASE ~(s = p /\ d = dest[p])
        <5>1. connections'[s][d] = connections[s][d]
          BY <4>1, <4>3
        <5> QED  BY <5>1, <3>7 DEF QueuesOK
      <4> QED  BY <4>2, <4>3
    <3> QED  BY <3>5, <3>6, <3>7 DEF QueuesOK
  <2>4. CASE dest[p] \in Nodes /\ topology # "Crossbar"
    <3>1. Append(queue[dest[p]], Letter(p)) \in Seq(LetterSet)
      BY <2>1, <2>4 DEF QueuesOK
    <3>2. /\ queue' = [queue EXCEPT ![dest[p]] = Append(queue[dest[p]], Letter(p))]
          /\ UNCHANGED connections
      BY <2>4 DEF Enqueued
    <3> QED  BY <2>4, <3>1, <3>2 DEF QueuesOK
  <2> QED  BY <2>2, <2>3, <2>4
<1> QED  BY <1>1, <1>2, <1>3, <1>4, <1>5, <1>6

LEMMA CountLink == ASSUME LinkInv, NEW p \in Senders, CountSend(p) PROVE LinkInv'
<1> USE DEF LinkInv, LinksAreSound, CountSend, Go
<1>1. NetworkTypeOK'
  BY InterconnectAssumption DEF NetworkTypeOK, Places, PlaceOK, Nodes
<1>2. BusIsExclusive'
  BY DEF NetworkTypeOK, BusIsExclusive, OnBus, PlaceOK
<1>3. PortsComeFree'
  BY DEF NetworkTypeOK, PortsComeFree
<1>4. \A q \in Senders : PlaceOK(q)'
  BY DEF NetworkTypeOK, PlaceOK
<1>5. (portOccupied # {} => topology = "Crossbar")'
  OBVIOUS
<1>6. QueuesOK'
  BY DEF QueuesOK
<1> QED  BY <1>1, <1>2, <1>3, <1>4, <1>5, <1>6

LEMMA ReleaseBusLink == ASSUME LinkInv, NEW p \in Senders, ReleaseBus(p) PROVE LinkInv'
<1> USE DEF LinkInv, LinksAreSound, ReleaseBus, Notified
<1>1. NetworkTypeOK'
  BY InterconnectAssumption DEF NetworkTypeOK, Places, PlaceOK, Nodes
<1>2. BusIsExclusive'
  <2>1. p \in OnBus /\ \A q \in OnBus : q = p
    BY DEF BusIsExclusive, OnBus
  <2>2. \A q \in Senders : pc'[q] \notin {"deliver", "count", "release"}
    BY <2>1 DEF OnBus, NetworkTypeOK
  <2> QED  BY <2>2 DEF BusIsExclusive, OnBus
<1>3. PortsComeFree'
  BY DEF NetworkTypeOK, PortsComeFree
<1>4. \A q \in Senders : PlaceOK(q)'
  BY DEF NetworkTypeOK, PlaceOK
<1>5. (portOccupied # {} => topology = "Crossbar")'
  OBVIOUS
<1>6. QueuesOK'
  BY DEF QueuesOK
<1> QED  BY <1>1, <1>2, <1>3, <1>4, <1>5, <1>6

LEMMA ReleasePortLink == ASSUME LinkInv, NEW p \in Senders, ReleasePort(p) PROVE LinkInv'
<1> USE DEF LinkInv, LinksAreSound, ReleasePort, Released, Go
<1>1. NetworkTypeOK'
  BY InterconnectAssumption DEF NetworkTypeOK, Places, PlaceOK, Nodes
<1>2. BusIsExclusive'
  BY DEF NetworkTypeOK, BusIsExclusive, OnBus, PlaceOK
<1>3. PortsComeFree'
  BY DEF NetworkTypeOK, PortsComeFree
<1>4. \A q \in Senders : PlaceOK(q)'
  BY DEF NetworkTypeOK, PlaceOK
<1>5. (portOccupied # {} => topology = "Crossbar")'
  OBVIOUS
<1>6. QueuesOK'
  BY DEF QueuesOK
<1> QED  BY <1>1, <1>2, <1>3, <1>4, <1>5, <1>6

LEMMA ReceiveLink == ASSUME LinkInv, NEW d \in Nodes, Receive(d) PROVE LinkInv'
<1> USE DEF LinkInv, LinksAreSound, Receive, threads, Relieved
<1>1. NetworkTypeOK'
  BY InterconnectAssumption, SMTT(30) DEF NetworkTypeOK, Places, PlaceOK, Nodes
<1>2. BusIsExclusive'
  BY DEF NetworkTypeOK, BusIsExclusive, OnBus, PlaceOK
<1>3. PortsComeFree'
  BY DEF NetworkTypeOK, PortsComeFree
<1>4. \A q \in Senders : PlaceOK(q)'
  BY DEF NetworkTypeOK, PlaceOK
<1>5. (portOccupied # {} => topology = "Crossbar")'
  OBVIOUS
<1>6. QueuesOK'
  BY DEF QueuesOK
<1> QED  BY <1>1, <1>2, <1>3, <1>4, <1>5, <1>6

LEMMA QueuesAfterTaking ==
  ASSUME QueuesOK, NEW s \in Nodes, NEW d \in Nodes, connections[s][d] # <<>>,
         UNCHANGED queue, connections' = [connections EXCEPT ![s][d] = Tail(@)]
  PROVE  QueuesOK'
<1> DEFINE q == connections[s][d]
<1>1. connections \in [Nodes -> [Nodes -> Seq(LetterSet)]]
  BY DEF QueuesOK
<1>2. q \in Seq(LetterSet) /\ q # <<>> /\ \A i \in DOMAIN q : q[i].source = s
  BY DEF QueuesOK
<1>3. connections' = [connections EXCEPT ![s][d] = Tail(q)]
  OBVIOUS
<1> HIDE DEF q
<1>4. Tail(q) \in Seq(LetterSet) /\ \A i \in DOMAIN Tail(q) : Tail(q)[i].source = s
  BY <1>2, HeadTailProperties
<1>5. connections' \in [Nodes -> [Nodes -> Seq(LetterSet)]]
  BY <1>1, <1>3, <1>4
<1>6. /\ connections'[s] = [connections[s] EXCEPT ![d] = Tail(q)]
      /\ \A r \in Nodes : r # s => connections'[r] = connections[r]
  BY <1>1, <1>3
<1>7. ASSUME NEW r \in Nodes, NEW e \in Nodes
      PROVE  \A i \in DOMAIN connections'[r][e] : connections'[r][e][i].source = r
  <2>1. CASE r = s /\ e = d
    <3>1. connections'[r][e] = Tail(q)
      BY <1>1, <1>6, <2>1
    <3> QED  BY <1>4, <2>1, <3>1
  <2>2. CASE ~(r = s /\ e = d)
    <3>1. connections'[r][e] = connections[r][e]
      BY <1>1, <1>6, <2>2
    <3>2. \A i \in DOMAIN connections[r][e] : connections[r][e][i].source = r
      BY DEF QueuesOK
    <3> QED  BY <3>1, <3>2
  <2> QED  BY <2>1, <2>2
<1> QED  BY <1>5, <1>7 DEF QueuesOK

\* The search of the crossbar finds a source that has something.
LEMMA FirstSource ==
  ASSUME NEW d \in Nodes, \E s \in Nodes : connections[s][d] # <<>>
  PROVE  Min({r \in Nodes : connections[r][d] # <<>>}) \in {r \in Nodes : connections[r][d] # <<>>}
<1> DEFINE from == {r \in Nodes : connections[r][d] # <<>>}
<1>1. from \subseteq Nat /\ from # {}
  BY SendersType DEF Nodes
<1> HIDE DEF from
<1>2. \E m \in from : \A k \in from : m <= k
  BY <1>1, LeastNumber
<1>3. Min(from) \in from
  BY <1>2 DEF Min
<1> QED  BY <1>3 DEF from

LEMMA ReceiveFirstLink == ASSUME LinkInv, NEW d \in Nodes, ReceiveFirst(d) PROVE LinkInv'
<1> USE DEF LinkInv, LinksAreSound, ReceiveFirst, threads
<1>1. NetworkTypeOK'
  BY InterconnectAssumption DEF NetworkTypeOK, Places, PlaceOK, Nodes
<1>2. BusIsExclusive'
  BY DEF NetworkTypeOK, BusIsExclusive, OnBus, PlaceOK
<1>3. PortsComeFree'
  BY DEF NetworkTypeOK, PortsComeFree
<1>4. \A q \in Senders : PlaceOK(q)'
  BY DEF NetworkTypeOK, PlaceOK
<1>5. (portOccupied # {} => topology = "Crossbar")'
  OBVIOUS
<1>6. QueuesOK'
  <2>1. Min({r \in Nodes : connections[r][d] # <<>>}) \in {r \in Nodes : connections[r][d] # <<>>}
    BY FirstSource
  <2> QED  BY <2>1, QueuesAfterTaking
<1> QED  BY <1>1, <1>2, <1>3, <1>4, <1>5, <1>6

LEMMA AlwaysLinkInv == NetworkSpec => []LinkInv
<1>1. NetworkInit => LinkInv
  BY InitLinkInv
<1>2. LinkInv /\ [NetworkNext]_networkVars => LinkInv'
  <2> SUFFICES ASSUME LinkInv, [NetworkNext]_networkVars PROVE LinkInv'
    OBVIOUS
  <2>1. CASE UNCHANGED networkVars
    BY <2>1 DEF networkVars, LinkInv, LinksAreSound, NetworkTypeOK, BusIsExclusive, OnBus, PortsComeFree,
                PlaceOK, QueuesOK
  <2>2. ASSUME NEW p \in Senders, Continue(p) PROVE LinkInv'
    BY <2>2, TakeBusLink, WaitForBusLink, TakePortLink, HopLink, DeliverLink, CountLink,
       ReleaseBusLink, ReleasePortLink DEF Continue
  <2>3. ASSUME NEW p \in Senders, SpuriousWake(p) PROVE LinkInv'
    BY <2>3, SpuriousWakeLink
  <2>4. ASSUME NEW p \in Senders, NEW d \in Dests, Send(p, d) PROVE LinkInv'
    BY <2>4, SendLink
  <2>5. ASSUME NEW d \in Nodes, Receive(d) \/ ReceiveFirst(d) PROVE LinkInv'
    BY <2>5, ReceiveLink, ReceiveFirstLink
  <2>6. CASE ResetTotals
    BY <2>6 DEF ResetTotals, threads, LinkInv, LinksAreSound, NetworkTypeOK, BusIsExclusive, OnBus,
                PortsComeFree, PlaceOK, QueuesOK
  <2>7. CASE Finished
    BY <2>1, <2>7 DEF Finished
  <2> QED  BY <2>1, <2>2, <2>3, <2>4, <2>5, <2>6, <2>7 DEF NetworkNext
<1> QED  BY <1>1, <1>2, PTL DEF NetworkSpec

\* The bus carries one message at a time and busOccupied_ says so, no port of the
\* crossbar stays taken without somebody who is going to free it, and the routes of
\* a mesh with full rows stay in the mesh.
THEOREM LinksStaySound == NetworkSpec => []LinksAreSound
<1>1. LinkInv => LinksAreSound
  BY DEF LinkInv
<1> QED  BY <1>1, AlwaysLinkInv, PTL

-----------------------------------------------------------------------------
\* The refinement mapping, as in the instance Mail.
Targets == Dests \cap Nodes
Boxes == [s \in Senders |-> [d \in Targets |-> Letters(s, d)]]
Posted(s, d) == IF InFlight(s, d) THEN number[s][d] - 1 ELSE number[s][d]
PostedTo == [s \in Senders |-> [d \in Targets |-> Posted(s, d)]]

LEMMA NumbersFromType ==
  ASSUME NEW s, NEW q \in Seq(LetterSet)
  PROVE  NumbersFrom(s, q) \in Seq(Nat)
<1>1. Len(q) \in Nat /\ Len(q) \in 0 .. Len(q)
  OBVIOUS
<1>2. PICK f : Reads(f, s, q, Len(q)) /\ NumbersFrom(s, q) = f[Len(q)]
  BY <1>1, NumbersFromDef
<1> QED  BY <1>1, <1>2, ReadsType

LEMMA NumbersFromNothing == ASSUME NEW s PROVE NumbersFrom(s, <<>>) = <<>>
<1> DEFINE q == <<>>
<1>1. Len(q) = 0
  OBVIOUS
<1>2. Len(q) \in Nat
  OBVIOUS
<1> HIDE DEF q
<1>3. PICK f : Reads(f, s, q, Len(q)) /\ NumbersFrom(s, q) = f[Len(q)]
  BY <1>2, NumbersFromDef
<1>4. f[0] = <<>>
  <2>1. 0 \in 0 .. Len(q)
    BY <1>2
  <2> QED  BY <1>3, <2>1 DEF Reads
<1> QED  BY <1>1, <1>3, <1>4 DEF q

LEMMA LettersType ==
  ASSUME LinkInv, NEW s \in Senders, NEW d \in Targets
  PROVE  Letters(s, d) \in Seq(Nat)
<1>1. s \in Nodes /\ d \in Nodes
  BY SendersType DEF Targets
<1>2. connections[s][d] \in Seq(LetterSet) /\ queue[d] \in Seq(LetterSet)
  BY <1>1 DEF LinkInv, QueuesOK
<1> QED  BY <1>2, NumbersFromType DEF Letters

LEMMA PostedType ==
  ASSUME LinkInv, NEW s \in Senders, NEW d \in Targets
  PROVE  Posted(s, d) \in Nat
<1>1. number[s][d] \in Nat
  BY DEF LinkInv, LinksAreSound, NetworkTypeOK, Targets
<1>2. InFlight(s, d) => number[s][d] > 0
  BY DEF LinkInv, PlaceOK, InFlight
<1> QED  BY <1>1, <1>2 DEF Posted

MailTyped ==
  /\ Boxes \in [Senders -> [Targets -> Seq(Nat)]]
  /\ PostedTo \in [Senders -> [Targets -> Nat]]

LEMMA MailType == LinkInv => MailTyped
<1>1. ASSUME LinkInv PROVE \A s \in Senders, d \in Targets : Letters(s, d) \in Seq(Nat)
  BY <1>1, LettersType
<1>2. ASSUME LinkInv PROVE \A s \in Senders, d \in Targets : Posted(s, d) \in Nat
  BY <1>2, PostedType
<1> QED  BY <1>1, <1>2 DEF MailTyped, Boxes, PostedTo

LEMMA MailTypeNext == LinkInv' => MailTyped'
  BY MailType, PTL

\* Two tables that agree but for one entry.
LEMMA OneEntry ==
  ASSUME NEW S, NEW T, NEW V, NEW f \in [S -> [T -> V]], NEW g \in [S -> [T -> V]],
         NEW s \in S, NEW t \in T,
         \A a \in S, b \in T : a # s \/ b # t => g[a][b] = f[a][b]
  PROVE  g = [f EXCEPT ![s][t] = g[s][t]]
<1> DEFINE h == [f EXCEPT ![s][t] = g[s][t]]
<1>1. h \in [S -> [T -> V]] /\ h[s] = [f[s] EXCEPT ![t] = g[s][t]]
      /\ \A a \in S : a # s => h[a] = f[a]
  OBVIOUS
<1> HIDE DEF h
<1>2. ASSUME NEW a \in S, NEW b \in T PROVE h[a][b] = g[a][b]
  <2>1. CASE a = s /\ b = t
    BY <1>1, <2>1
  <2>2. CASE a = s /\ b # t
    BY <1>1, <2>2
  <2>3. CASE a # s
    BY <1>1, <2>3
  <2> QED  BY <2>1, <2>2, <2>3
<1>3. \A a \in S : h[a] = g[a]
  BY <1>1, <1>2
<1>4. h = g
  BY <1>1, <1>3
<1> QED  BY <1>4 DEF h

LEMMA SameTable ==
  ASSUME NEW S, NEW T, NEW V, NEW f \in [S -> [T -> V]], NEW g \in [S -> [T -> V]],
         \A a \in S, b \in T : g[a][b] = f[a][b]
  PROVE  g = f
<1>1. \A a \in S : g[a] = f[a]
  OBVIOUS
<1> QED  BY <1>1

LEMMA SameMail ==
  ASSUME UNCHANGED <<topology, queue, connections>>,
         \A s \in Senders, d \in Targets : Posted(s, d)' = Posted(s, d)
  PROVE  UNCHANGED <<Boxes, PostedTo>>
<1>1. \A s \in Senders, d \in Targets : Letters(s, d)' = Letters(s, d)
  BY DEF Letters
<1>2. Boxes' = Boxes
  BY <1>1 DEF Boxes
<1>3. PostedTo' = PostedTo
  BY DEF PostedTo
<1> QED  BY <1>2, <1>3

\* A sender that is on its way has not posted its last message yet.
LEMMA SendMail ==
  ASSUME LinkInv, NEW p \in Senders, NEW d \in Dests, Send(p, d)
  PROVE  UNCHANGED <<Boxes, PostedTo>>
<1>t. /\ pc \in [Senders -> Places] /\ dest \in [Senders -> 0 .. NumNodes]
      /\ number \in [Senders -> [Dests -> Nat]]
  BY DEF LinkInv, LinksAreSound, NetworkTypeOK
<1>1. ASSUME NEW s \in Senders, NEW e \in Targets PROVE Posted(s, e)' = Posted(s, e)
  <2>n. number'[s][e] = IF s = p /\ e = d THEN number[s][e] + 1 ELSE number[s][e]
    <3>1. number' = [number EXCEPT ![p] = [number[p] EXCEPT ![d] = number[p][d] + 1]]
      BY DEF Send
    <3> HIDE DEF Send
    <3> QED  BY <1>t, <3>1 DEF Targets
  <2>1. CASE s # p
    <3>1. pc'[s] = pc[s] /\ dest'[s] = dest[s]
      BY <1>t, <2>1 DEF Send, Go
    <3> QED  BY <2>n, <2>1, <3>1 DEF Posted, InFlight
  <2>2. CASE s = p /\ topology = "Crossbar" /\ d \notin Nodes
    <3>1. UNCHANGED <<pc, dest>> /\ pc[s] = "idle" /\ e # d
      BY <2>2 DEF Send, Targets
    <3> QED  BY <2>n, <3>1 DEF Posted, InFlight
  <2>3. CASE s = p /\ ~(topology = "Crossbar" /\ d \notin Nodes)
    <3>1. pc[s] = "idle" /\ pc'[s] \in {"arbitrate", "hop", "deliver"} /\ dest'[s] = d
      BY <1>t, <2>3 DEF Send, Go, FirstStep
    <3>2. number[s][e] \in Nat
      BY <1>t DEF Targets
    <3> QED  BY <2>n, <2>3, <3>1, <3>2 DEF Posted, InFlight
  <2> QED  BY <2>1, <2>2, <2>3
<1> QED  BY <1>1, SameMail DEF Send

\* The steps between the call and the delivery, and after it.
LEMMA QuietMail ==
  ASSUME LinkInv, NEW p \in Senders,
         \/ TakeBus(p) \/ WaitForBus(p) \/ SpuriousWake(p) \/ TakePort(p) \/ Hop(p)
         \/ CountSend(p) \/ ReleaseBus(p) \/ ReleasePort(p)
  PROVE  UNCHANGED <<Boxes, PostedTo>>
<1>t. pc \in [Senders -> Places]
  BY DEF LinkInv, LinksAreSound, NetworkTypeOK
<1> DEFINE Away(w) == w \notin {"idle", "count", "release"}
<1>1. /\ UNCHANGED <<topology, queue, connections, dest, number>>
      /\ \A s \in Senders : Away(pc'[s]) <=> Away(pc[s])
  <2>1. CASE TakeBus(p)
    BY <1>t, <2>1 DEF TakeBus, Go
  <2>2. CASE WaitForBus(p)
    BY <1>t, <2>2 DEF WaitForBus, Go
  <2>3. CASE SpuriousWake(p)
    BY <1>t, <2>3 DEF SpuriousWake, Go
  <2>4. CASE TakePort(p)
    BY <1>t, <2>4 DEF TakePort, Go
  <2>5. CASE Hop(p)
    BY <1>t, <2>5 DEF Hop
  <2>6. CASE CountSend(p)
    BY <1>t, <2>6 DEF CountSend, Go
  <2>7. CASE ReleaseBus(p)
    BY <1>t, <2>7 DEF ReleaseBus, Notified
  <2>8. CASE ReleasePort(p)
    BY <1>t, <2>8 DEF ReleasePort, Go
  <2> QED  BY <2>1, <2>2, <2>3, <2>4, <2>5, <2>6, <2>7, <2>8
<1>2. \A s \in Senders, d \in Targets : InFlight(s, d)' <=> InFlight(s, d)
  BY <1>1 DEF InFlight
<1>3. \A s \in Senders, d \in Targets : Posted(s, d)' = Posted(s, d)
  BY <1>1, <1>2 DEF Posted
<1> QED  BY <1>1, <1>3, SameMail

\* What a delivery does to the letters.
LEMMA DeliverLetters ==
  ASSUME LinkInv, NEW p \in Senders, Deliver(p), NEW s \in Senders, NEW e \in Targets
  PROVE  Letters(s, e)' = IF s = p /\ e = dest[p]
                          THEN Append(Letters(s, e), number[s][e]) ELSE Letters(s, e)
<1> DEFINE d == dest[p]
           l == Letter(p)
<1>l. l \in LetterSet /\ l.source = p /\ l.number = number[p][d]
  <2>1. pc[p] # "idle"
    BY DEF Deliver, Arrived
  <2>2. d \in Dests
    BY <2>1 DEF LinkInv, PlaceOK
  <2>3. number[p][d] \in Nat
    BY <2>2 DEF LinkInv, LinksAreSound, NetworkTypeOK
  <2> QED  BY <2>3 DEF Letter, LetterSet
<1>t. s \in Nodes /\ p \in Nodes /\ e \in Nodes
  BY SendersType DEF Targets
<1>q. /\ queue \in [Nodes -> Seq(LetterSet)]
      /\ connections \in [Nodes -> [Nodes -> Seq(LetterSet)]]
      /\ \A i \in DOMAIN connections[s][e] : connections[s][e][i].source = s
  BY <1>t DEF LinkInv, QueuesOK
<1>c. topology' = topology
  BY DEF Deliver
<1>1. CASE d \notin Nodes
  <2>1. UNCHANGED <<queue, connections>> /\ e # d
    BY <1>1, <1>t DEF Deliver
  <2> QED  BY <1>c, <2>1 DEF Letters
<1>2. CASE d \in Nodes /\ topology = "Crossbar"
  <2>1. connections' = [connections EXCEPT ![p] = [connections[p] EXCEPT ![d] = Append(connections[p][d], l)]]
    BY <1>2 DEF Deliver, Enqueued
  <2>2. CASE s = p /\ e = d
    <3>1. connections'[s][e] = Append(connections[s][e], l)
      BY <1>q, <1>t, <2>1, <2>2
    <3>2. connections[s][e] \in Seq(LetterSet)
      BY <1>q, <1>t
    <3> HIDE DEF l
    <3>3. NumbersFrom(s, connections'[s][e]) = Append(NumbersFrom(s, connections[s][e]), number[s][e])
      BY <1>l, <2>2, <3>1, <3>2, NumbersFromAppend
    <3> QED  BY <1>2, <1>c, <2>2, <3>3 DEF Letters
  <2>3. CASE ~(s = p /\ e = d)
    <3>1. connections'[s][e] = connections[s][e]
      BY <1>q, <1>t, <2>1, <2>3
    <3> QED  BY <1>2, <1>c, <2>3, <3>1 DEF Letters
  <2> QED  BY <2>2, <2>3
<1>3. CASE d \in Nodes /\ topology # "Crossbar"
  <2>1. queue' = [queue EXCEPT ![d] = Append(queue[d], l)]
    BY <1>3 DEF Deliver, Enqueued
  <2>2. CASE e = d
    <3>1. queue'[e] = Append(queue[e], l) /\ queue[e] \in Seq(LetterSet)
      BY <1>q, <1>t, <2>1, <2>2
    <3> HIDE DEF l
    <3>2. NumbersFrom(s, queue'[e]) = IF s = p THEN Append(NumbersFrom(s, queue[e]), number[s][e])
                                      ELSE NumbersFrom(s, queue[e])
      <4> DEFINE q == queue[e]
      <4>q. q \in Seq(LetterSet) /\ queue'[e] = Append(q, l)
        BY <3>1
      <4> HIDE DEF q
      <4>0. NumbersFrom(s, Append(q, l)) = IF l.source = s THEN Append(NumbersFrom(s, q), l.number)
                                           ELSE NumbersFrom(s, q)
        BY <1>l, <4>q, NumbersFromAppend
      <4>1. NumbersFrom(s, queue'[e]) = IF l.source = s THEN Append(NumbersFrom(s, queue[e]), l.number)
                                        ELSE NumbersFrom(s, queue[e])
        BY <4>q, <4>0 DEF q
      <4>2. s = p => l.number = number[s][e]
        BY <1>l, <2>2
      <4> QED  BY <1>l, <4>1, <4>2
    <3> QED  BY <1>3, <1>c, <2>2, <3>2 DEF Letters
  <2>3. CASE e # d
    <3>1. queue'[e] = queue[e]
      BY <1>q, <1>t, <2>1, <2>3
    <3> QED  BY <1>3, <1>c, <2>3, <3>1 DEF Letters
  <2> QED  BY <2>2, <2>3
<1> QED  BY <1>1, <1>2, <1>3

\* A delivery posts the message, unless its destination is nobody.
LEMMA DeliverMail ==
  ASSUME LinkInv, LinkInv', NEW p \in Senders, Deliver(p)
  PROVE  \/ \E d \in Targets :
              /\ PostedTo' = [PostedTo EXCEPT ![p][d] = PostedTo[p][d] + 1]
              /\ Boxes' = [Boxes EXCEPT ![p][d] = Append(Boxes[p][d], PostedTo[p][d] + 1)]
         \/ UNCHANGED <<Boxes, PostedTo>>
<1> DEFINE d == dest[p]
<1>t. /\ Boxes \in [Senders -> [Targets -> Seq(Nat)]] /\ PostedTo \in [Senders -> [Targets -> Nat]]
      /\ Boxes' \in [Senders -> [Targets -> Seq(Nat)]] /\ PostedTo' \in [Senders -> [Targets -> Nat]]
  BY MailType, MailTypeNext DEF MailTyped
<1>e. \A s \in Senders, e \in Targets :
        /\ Boxes[s][e] = Letters(s, e) /\ Boxes'[s][e] = Letters(s, e)'
        /\ PostedTo[s][e] = Posted(s, e) /\ PostedTo'[s][e] = Posted(s, e)'
  BY DEF Boxes, PostedTo
<1>d. d \in Dests
  <2>1. pc[p] # "idle"
    BY DEF Deliver, Arrived
  <2> QED  BY <2>1 DEF LinkInv, PlaceOK
<1>n. \A s \in Senders, e \in Targets : number[s][e] \in Nat
  BY DEF LinkInv, LinksAreSound, NetworkTypeOK, Targets
<1>1. ASSUME NEW s \in Senders, NEW e \in Targets
      PROVE  Posted(s, e)' = IF s = p /\ e = d THEN number[s][e] ELSE Posted(s, e)
  <2>1. pc \in [Senders -> Places] /\ pc' = [pc EXCEPT ![p] = "count"] /\ UNCHANGED <<dest, number>>
    BY DEF Deliver, Go, LinkInv, LinksAreSound, NetworkTypeOK
  <2>2. pc[p] \in {"hop", "deliver"}
    BY DEF Deliver, Arrived
  <2>3. CASE s = p
    BY <2>1, <2>2, <2>3 DEF Posted, InFlight
  <2>4. CASE s # p
    <3>1. pc'[s] = pc[s] /\ dest'[s] = dest[s] /\ number'[s][e] = number[s][e]
      BY <2>1, <2>4
    <3> QED  BY <2>4, <3>1 DEF Posted, InFlight
  <2> QED  BY <2>3, <2>4
<1>2. CASE d \in Targets
  <2>1. PostedTo[p][d] = number[p][d] - 1
    <3>1. InFlight(p, d)
      BY DEF Deliver, Arrived, InFlight
    <3> QED  BY <1>2, <1>e, <3>1 DEF Posted
  <2>2. PostedTo[p][d] + 1 = number[p][d]
    BY <1>2, <1>n, <2>1
  <2>3. PostedTo'[p][d] = PostedTo[p][d] + 1
    BY <1>2, <1>e, <1>1, <2>2
  <2>4. \A a \in Senders, b \in Targets : a # p \/ b # d => PostedTo'[a][b] = PostedTo[a][b]
    BY <1>e, <1>1
  <2>5. Boxes'[p][d] = Append(Boxes[p][d], PostedTo[p][d] + 1)
    BY <1>2, <1>e, <2>2, DeliverLetters, ZenonT(40)
  <2>6. \A a \in Senders, b \in Targets : a # p \/ b # d => Boxes'[a][b] = Boxes[a][b]
    BY <1>e, DeliverLetters
  <2> HIDE DEF d
  <2>7. PostedTo' = [PostedTo EXCEPT ![p][d] = PostedTo'[p][d]]
    BY <1>2, <1>t, <2>4, OneEntry
  <2>8. Boxes' = [Boxes EXCEPT ![p][d] = Boxes'[p][d]]
    BY <1>2, <1>t, <2>6, OneEntry
  <2> QED  BY <1>2, <2>3, <2>5, <2>7, <2>8
<1>3. CASE d \notin Targets
  <2>1. \A a \in Senders, b \in Targets : PostedTo'[a][b] = PostedTo[a][b]
    BY <1>3, <1>e, <1>1
  <2>2. \A a \in Senders, b \in Targets : Boxes'[a][b] = Boxes[a][b]
    BY <1>3, <1>e, DeliverLetters
  <2>3. PostedTo' = PostedTo
    BY <1>t, <2>1, SameTable
  <2>4. Boxes' = Boxes
    BY <1>t, <2>2, SameTable
  <2> QED  BY <2>3, <2>4
<1> QED  BY <1>2, <1>3

\* Taking the first letter from s: what is read from the rest.
LEMMA TakeLetters ==
  ASSUME NEW q \in Seq(LetterSet), q # <<>>, NEW s
  PROVE  IF Head(q).source = s
           THEN NumbersFrom(s, q) # <<>> /\ NumbersFrom(s, Tail(q)) = Tail(NumbersFrom(s, q))
           ELSE NumbersFrom(s, Tail(q)) = NumbersFrom(s, q)
  BY NumbersFromTail

\* A table of boxes in which one letter of one box is taken.
LEMMA TakeFromTable ==
  ASSUME MailTyped, MailTyped', UNCHANGED <<pc, dest, number>>,
         NEW s \in Senders, NEW d \in Targets,
         Letters(s, d) # <<>>, Letters(s, d)' = Tail(Letters(s, d)),
         \A a \in Senders, b \in Targets : a # s \/ b # d => Letters(a, b)' = Letters(a, b)
  PROVE  /\ Boxes[s][d] # <<>>
         /\ Boxes' = [Boxes EXCEPT ![s][d] = Tail(Boxes[s][d])]
         /\ PostedTo' = PostedTo
<1>1. \A a \in Senders, b \in Targets :
        Boxes[a][b] = Letters(a, b) /\ Boxes'[a][b] = Letters(a, b)'
  BY DEF Boxes
<1>2. Boxes' = [Boxes EXCEPT ![s][d] = Boxes'[s][d]]
  <2>1. \A a \in Senders, b \in Targets : a # s \/ b # d => Boxes'[a][b] = Boxes[a][b]
    BY <1>1
  <2>2. /\ Boxes \in [Senders -> [Targets -> Seq(Nat)]]
        /\ Boxes' \in [Senders -> [Targets -> Seq(Nat)]]
    BY DEF MailTyped
  <2> QED  BY <2>1, <2>2, OneEntry
<1>3. PostedTo' = PostedTo
  BY DEF PostedTo, Posted, InFlight
<1> QED  BY <1>1, <1>2, <1>3

\* A receiver takes the first letter of the processor that sent what is at the head
\* of the queue.
LEMMA ReceiveMail ==
  ASSUME LinkInv, MailTyped, MailTyped', NEW d \in Nodes, Receive(d)
  PROVE  \/ \E s \in Senders, t \in Targets :
              /\ Boxes[s][t] # <<>>
              /\ Boxes' = [Boxes EXCEPT ![s][t] = Tail(Boxes[s][t])]
              /\ PostedTo' = PostedTo
         \/ UNCHANGED <<Boxes, PostedTo>>
<1> DEFINE q == queue[d]
<1>1. /\ UNCHANGED <<topology, connections, pc, dest, number>> /\ topology # "Crossbar"
      /\ queue' = [queue EXCEPT ![d] = Tail(q)] /\ q # <<>>
  BY DEF Receive, threads
<1>2. queue \in [Nodes -> Seq(LetterSet)] /\ q \in Seq(LetterSet)
  BY DEF LinkInv, QueuesOK
<1>3. PICK s \in Senders : Head(q).source = s
  <2> HIDE DEF q
  <2>1. Head(q) \in LetterSet
    BY <1>1, <1>2
  <2> QED  BY <2>1 DEF LetterSet
<1>4. \A a \in Senders, b \in Targets : b # d => Letters(a, b)' = Letters(a, b)
  <2>1. \A b \in Targets : b # d => queue'[b] = queue[b]
    BY <1>1, <1>2 DEF Targets
  <2> QED  BY <1>1, <2>1 DEF Letters
<1>5. CASE d \notin Targets
  <2>1. \A a \in Senders, b \in Targets : Letters(a, b)' = Letters(a, b)
    BY <1>4, <1>5
  <2>2. Boxes' = Boxes
    BY <2>1 DEF Boxes
  <2>3. PostedTo' = PostedTo
    BY <1>1 DEF PostedTo, Posted, InFlight
  <2> QED  BY <2>2, <2>3
<1>6. CASE d \in Targets
  <2>1. \A a : /\ Letters(a, d) = NumbersFrom(a, q)
               /\ Letters(a, d)' = NumbersFrom(a, Tail(q))
    BY <1>1, <1>2 DEF Letters
  <2> HIDE DEF q
  <2>2. NumbersFrom(s, q) # <<>> /\ NumbersFrom(s, Tail(q)) = Tail(NumbersFrom(s, q))
    BY <1>1, <1>2, <1>3, TakeLetters
  <2>3. \A a : a # s => NumbersFrom(a, Tail(q)) = NumbersFrom(a, q)
    BY <1>1, <1>2, <1>3, TakeLetters
  <2>4. Letters(s, d) # <<>> /\ Letters(s, d)' = Tail(Letters(s, d))
    BY <2>1, <2>2
  <2>5. \A a \in Senders, b \in Targets : a # s \/ b # d => Letters(a, b)' = Letters(a, b)
    BY <1>4, <2>1, <2>3
  <2> QED  BY <1>1, <1>3, <1>6, <2>4, <2>5, TakeFromTable
<1> QED  BY <1>5, <1>6

LEMMA ReceiveFirstMail ==
  ASSUME LinkInv, MailTyped, MailTyped', NEW d \in Nodes, ReceiveFirst(d)
  PROVE  \/ \E s \in Senders, t \in Targets :
              /\ Boxes[s][t] # <<>>
              /\ Boxes' = [Boxes EXCEPT ![s][t] = Tail(Boxes[s][t])]
              /\ PostedTo' = PostedTo
         \/ UNCHANGED <<Boxes, PostedTo>>
<1> DEFINE from == {r \in Nodes : connections[r][d] # <<>>}
<1>1. PICK s \in from : s = Min(from)
  BY FirstSource DEF ReceiveFirst
<1> DEFINE q == connections[s][d]
<1>2. /\ UNCHANGED <<topology, pc, dest, number>> /\ topology = "Crossbar"
      /\ connections' = [connections EXCEPT ![s] = [connections[s] EXCEPT ![d] = Tail(q)]]
  BY <1>1 DEF ReceiveFirst, threads
<1>3. s \in Nodes /\ q # <<>>
  BY <1>1
<1>4. connections \in [Nodes -> [Nodes -> Seq(LetterSet)]] /\ q \in Seq(LetterSet)
  BY <1>3 DEF LinkInv, QueuesOK
<1>5. Head(q).source = s /\ s \in Senders
  <2>1. \A i \in DOMAIN q : q[i].source = s
    BY <1>3 DEF LinkInv, QueuesOK
  <2> HIDE DEF q
  <2>2. Head(q) \in LetterSet /\ Head(q) = q[1] /\ 1 \in DOMAIN q
    BY <1>3, <1>4
  <2> QED  BY <2>1, <2>2 DEF LetterSet
<1>6. /\ connections'[s][d] = Tail(q)
      /\ \A a, b \in Nodes : a # s \/ b # d => connections'[a][b] = connections[a][b]
  <2> HIDE DEF q
  <2>1. /\ connections'[s] = [connections[s] EXCEPT ![d] = Tail(q)]
        /\ \A a \in Nodes : a # s => connections'[a] = connections[a]
    BY <1>2, <1>3, <1>4
  <2>2. /\ connections'[s][d] = Tail(q)
        /\ \A b \in Nodes : b # d => connections'[s][b] = connections[s][b]
    BY <1>3, <1>4, <2>1
  <2> QED  BY <2>1, <2>2
<1>7. \A a \in Senders, b \in Targets : a # s \/ b # d => Letters(a, b)' = Letters(a, b)
  BY <1>2, <1>6, SendersType DEF Letters, Targets
<1>8. CASE d \notin Targets
  <2>1. \A a \in Senders, b \in Targets : Letters(a, b)' = Letters(a, b)
    BY <1>7, <1>8
  <2>2. Boxes' = Boxes
    BY <2>1 DEF Boxes
  <2>3. PostedTo' = PostedTo
    BY <1>2 DEF PostedTo, Posted, InFlight
  <2> QED  BY <2>2, <2>3
<1>9. CASE d \in Targets
  <2>1. Letters(s, d) = NumbersFrom(s, q) /\ Letters(s, d)' = NumbersFrom(s, Tail(q))
    BY <1>2, <1>6 DEF Letters
  <2> HIDE DEF q
  <2>2. NumbersFrom(s, q) # <<>> /\ NumbersFrom(s, Tail(q)) = Tail(NumbersFrom(s, q))
    BY <1>3, <1>4, <1>5, TakeLetters
  <2>3. Letters(s, d) # <<>> /\ Letters(s, d)' = Tail(Letters(s, d))
    BY <2>1, <2>2
  <2> QED  BY <1>2, <1>5, <1>7, <1>9, <2>3, TakeFromTable
<1> QED  BY <1>8, <1>9

\* What an interconnect promises as mailboxes, with the mapping of the instance.
MailPost(s, d) ==
  /\ PostedTo' = [PostedTo EXCEPT ![s][d] = PostedTo[s][d] + 1]
  /\ Boxes' = [Boxes EXCEPT ![s][d] = Append(Boxes[s][d], PostedTo[s][d] + 1)]
MailTake(s, d) ==
  /\ Boxes[s][d] # <<>>
  /\ Boxes' = [Boxes EXCEPT ![s][d] = Tail(Boxes[s][d])]
  /\ PostedTo' = PostedTo
MailStep ==
  \/ \E s \in Senders, d \in Targets : MailPost(s, d) \/ MailTake(s, d)
  \/ UNCHANGED <<Boxes, PostedTo>>

LEMMA EveryStepIsMail ==
  ASSUME LinkInv, LinkInv', [NetworkNext]_networkVars
  PROVE  MailStep
<1>t. MailTyped /\ MailTyped'
  BY MailType, MailTypeNext
<1>0. CASE UNCHANGED networkVars
  BY <1>0 DEF networkVars, MailStep, Boxes, PostedTo, Letters, Posted, InFlight
<1>1. ASSUME NEW p \in Senders, Continue(p) PROVE MailStep
  <2>1. CASE Deliver(p)
    BY <2>1, DeliverMail DEF MailStep, MailPost
  <2>2. CASE ~Deliver(p)
    BY <1>1, <2>2, QuietMail DEF Continue, MailStep
  <2> QED  BY <2>1, <2>2
<1>2. ASSUME NEW p \in Senders, SpuriousWake(p) PROVE MailStep
  BY <1>2, QuietMail DEF MailStep
<1>3. ASSUME NEW p \in Senders, NEW d \in Dests, Send(p, d) PROVE MailStep
  BY <1>3, SendMail DEF MailStep
<1>4. ASSUME NEW d \in Nodes, Receive(d) \/ ReceiveFirst(d) PROVE MailStep
  BY <1>t, <1>4, ReceiveMail, ReceiveFirstMail DEF MailStep, MailTake
<1>5. CASE ResetTotals
  BY <1>5 DEF ResetTotals, threads, MailStep, Boxes, PostedTo, Letters, Posted, InFlight
<1>6. CASE Finished
  BY <1>0, <1>6 DEF Finished
<1> QED  BY <1>0, <1>1, <1>2, <1>3, <1>4, <1>5, <1>6 DEF NetworkNext

\* Whatever its topology and whoever sends at the same time, sendMessage and
\* receiveMessage implement the mailboxes: no message is lost or delivered twice,
\* and none overtakes another one between the same two processors.
THEOREM InterconnectImplementsMailboxes == NetworkSpec => ImplementsMailboxes
<1>1. NetworkInit => Mail!BoxInit
  <2> SUFFICES ASSUME NetworkInit PROVE Mail!BoxInit
    OBVIOUS
  <2>1. ASSUME NEW s \in Senders, NEW d \in Targets
        PROVE  Letters(s, d) = <<>> /\ ~InFlight(s, d) /\ number[s][d] = 0
    <3>1. s \in Nodes /\ d \in Nodes /\ d \in Dests
      BY SendersType DEF Targets
    <3>2. (IF topology = "Crossbar" THEN connections[s][d] ELSE queue[d]) = <<>>
      BY <3>1 DEF NetworkInit
    <3>3. Letters(s, d) = <<>>
      BY <3>2, NumbersFromNothing DEF Letters
    <3> QED  BY <3>1, <3>3 DEF NetworkInit, InFlight
  <2> QED  BY <2>1 DEF Mail!BoxInit, Targets
<1>2. LinkInv /\ LinkInv' /\ [NetworkNext]_networkVars => [Mail!BoxNext]_<<Boxes, PostedTo>>
  <2> SUFFICES ASSUME LinkInv, LinkInv', [NetworkNext]_networkVars PROVE [Mail!BoxNext]_<<Boxes, PostedTo>>
    OBVIOUS
  <2>1. MailStep
    BY EveryStepIsMail
  <2>2. ASSUME NEW s \in Senders, NEW d \in Targets, MailPost(s, d) PROVE Mail!Post(s, d)
    BY <2>2 DEF MailPost, Mail!Post, Boxes, PostedTo, Posted, Targets
  <2>3. ASSUME NEW s \in Senders, NEW d \in Targets, MailTake(s, d) PROVE Mail!Take(s, d)
    BY <2>3 DEF MailTake, Mail!Take, Boxes, PostedTo, Posted, Targets
  <2> QED  BY <2>1, <2>2, <2>3 DEF MailStep, Mail!BoxNext, Targets
<1>3. LinkInv /\ LinkInv' /\ [NetworkNext]_networkVars =>
        [Mail!BoxNext]_<<[s \in Senders |-> [d \in Dests \cap Nodes |-> Letters(s, d)]],
                         [s \in Senders |-> [d \in Dests \cap Nodes |->
                           IF InFlight(s, d) THEN number[s][d] - 1 ELSE number[s][d]]]>>
  BY <1>2 DEF Boxes, PostedTo, Posted, Targets
<1>4. NetworkSpec => []LinkInv
  BY AlwaysLinkInv
<1> QED  BY <1>1, <1>3, <1>4, PTL DEF NetworkSpec, ImplementsMailboxes, Mail!BoxSpec

-----------------------------------------------------------------------------
\* Two coordinates make a router.
LEMMA Coordinates ==
  ASSUME NEW w \in Nat \ {0}, NEW i \in 0 .. w - 1, NEW j \in Nat
  PROVE  (j * w + i) % w = i /\ (j * w + i) \div w = j
<1> DEFINE n == j * w + i
<1>0. j * w = w * j /\ j * w \in Nat
  OBVIOUS
<1>1. n \in Nat
  BY <1>0
<1> DEFINE r == n % w
           q == n \div w
<1>2. r \in 0 .. w - 1 /\ q \in Nat /\ n = w * q + r
  <2> HIDE DEF n
  <2> QED  BY <1>1, Quotient
<1>3. n = w * j + i
  BY <1>0
<1> HIDE DEF r, q, n
<1>4. ~(q < j)
  <2>1. q < j => w * q + w <= w * j
    BY <1>2, NextRow
  <2> QED  BY <2>1, <1>2, <1>3
<1>5. ~(j < q)
  <2>1. j < q => w * j + w <= w * q
    BY <1>2, NextRow
  <2> QED  BY <2>1, <1>2, <1>3
<1>6. q = j
  BY <1>2, <1>4, <1>5
<1>7. r = i
  BY <1>2, <1>3, <1>6
<1> QED  BY <1>6, <1>7 DEF r, q, n

LEMMA InGrid ==
  ASSUME NEW w \in Nat \ {0}, NEW h \in Nat, NEW i \in 0 .. w - 1, NEW j \in 0 .. h - 1
  PROVE  j * w + i \in 0 .. w * h - 1
<1>1. w * j + w <= w * h
  BY NextRow
<1>2. j * w = w * j /\ w * j \in Nat /\ w * h \in Nat
  OBVIOUS
<1> QED  BY <1>1, <1>2

LEMMA Grid ==
  /\ Width \in Nat \ {0} /\ Height \in Nat \ {0} /\ NumNodes = Width * Height
  /\ NumNodes \in Nat \ {0} /\ Nodes = 0 .. Width * Height - 1
  /\ \A n \in Nodes : n % Width \in 0 .. Width - 1 /\ n \div Width \in 0 .. Height - 1
                      /\ n = (n \div Width) * Width + (n % Width)
<1>1. Width \in Nat \ {0} /\ NumNodes \in Nat \ {0} /\ NumNodes % Width = 0
  BY InterconnectAssumption
<1>2. Height \in Nat /\ NumNodes = Width * Height
  <2>1. Height \in Nat /\ NumNodes = Width * Height + (NumNodes % Width)
    BY <1>1, Quotient DEF Height
  <2> QED  BY <1>1, <2>1
<1>3. Height # 0
  BY <1>1, <1>2
<1>4. Nodes = 0 .. Width * Height - 1
  BY <1>2 DEF Nodes
<1>5. ASSUME NEW n \in Nodes
      PROVE  n % Width \in 0 .. Width - 1 /\ n \div Width \in 0 .. Height - 1
             /\ n = (n \div Width) * Width + (n % Width)
  <2> DEFINE y == n \div Width
             x == n % Width
  <2>1. n \in Nat /\ n < NumNodes
    BY <1>1 DEF Nodes
  <2>2. x \in 0 .. Width - 1 /\ y \in Nat /\ n = Width * y + x
    BY <1>1, <2>1, Quotient
  <2> HIDE DEF x, y
  <2>3. Height <= y => Height = y \/ Width * Height + Width <= Width * y
    BY <1>1, <1>2, <2>2, NextRow
  <2>4. y < Height
    BY <1>1, <1>2, <2>1, <2>2, <2>3
  <2>5. Width * y = y * Width
    BY <1>1, <2>2
  <2>6. y \in 0 .. Height - 1 /\ n = y * Width + x
    BY <1>2, <2>2, <2>4, <2>5
  <2> QED  BY <2>2, <2>6 DEF x, y
<1> QED  BY <1>1, <1>2, <1>3, <1>4, <1>5

LEMMA ApartDef ==
  ASSUME NEW x \in Int, NEW y \in Int
  PROVE  Apart(x, y) = IF x >= y THEN x - y ELSE y - x
<1>1. x - y \in Int /\ y - x \in Int
  OBVIOUS
<1>2. Apart(x, y) = IF x - y >= y - x THEN x - y ELSE y - x
  BY <1>1, MaxOfTwo DEF Apart
<1> QED  BY <1>2

LEMMA WrappedDef ==
  ASSUME NEW size \in Nat, NEW x \in 0 .. size, NEW y \in 0 .. size
  PROVE  LET a == IF x >= y THEN x - y ELSE y - x
         IN Wrapped(x, y, size) = IF a <= size - a THEN a ELSE size - a
<1> DEFINE a == IF x >= y THEN x - y ELSE y - x
<1>1. Apart(x, y) = a
  BY ApartDef
<1>2. a \in Int /\ size - a \in Int
  OBVIOUS
<1> HIDE DEF a
<1>3. Wrapped(x, y, size) = IF a <= size - a THEN a ELSE size - a
  BY <1>1, <1>2, MinOfTwo DEF Wrapped
<1> QED  BY <1>3 DEF a

\* One step around a ring of size nodes.
Around(b, size) == {(b + 1) % size, (b - 1) % size}

LEMMA AroundDef ==
  ASSUME NEW size \in Nat \ {0}, NEW b \in 0 .. size - 1
  PROVE  /\ (b + 1) % size = IF b = size - 1 THEN 0 ELSE b + 1
         /\ (b - 1) % size = IF b = 0 THEN size - 1 ELSE b - 1
         /\ Around(b, size) \subseteq 0 .. size - 1
<1>1. \A k \in 0 .. size - 1 : k % size = k
  OBVIOUS
<1>2. size % size = 0
  OBVIOUS
<1>3. (-1) % size = size - 1
  OBVIOUS
<1>4. (b + 1) % size = IF b = size - 1 THEN 0 ELSE b + 1
  <2>1. CASE b = size - 1
    <3>1. b + 1 = size
      BY <2>1
    <3> QED  BY <1>2, <2>1, <3>1
  <2>2. CASE b # size - 1
    <3>1. b + 1 \in 0 .. size - 1
      BY <2>2
    <3> QED  BY <1>1, <2>2, <3>1
  <2> QED  BY <2>1, <2>2
<1>5. (b - 1) % size = IF b = 0 THEN size - 1 ELSE b - 1
  <2>1. CASE b = 0
    <3>1. b - 1 = -1
      BY <2>1
    <3> QED  BY <1>3, <2>1, <3>1
  <2>2. CASE b # 0
    <3>1. b - 1 \in 0 .. size - 1
      BY <2>2
    <3> QED  BY <1>1, <2>2, <3>1
  <2> QED  BY <2>1, <2>2
<1>6. Around(b, size) \subseteq 0 .. size - 1
  BY <1>4, <1>5 DEF Around
<1> QED  BY <1>4, <1>5, <1>6

\* The distance around a ring changes by at most one with a step, and some step
\* comes from one nearer.
StepsAround(a, b, size) ==
  /\ Wrapped(a, b, size) \in 0 .. size - 1
  /\ Wrapped(a, b, size) = 0 <=> a = b
  /\ \A c \in Around(b, size) : Wrapped(a, c, size) <= Wrapped(a, b, size) + 1
  /\ a # b => \E c \in 0 .. size - 1 : /\ b \in Around(c, size)
                                       /\ Wrapped(a, c, size) = Wrapped(a, b, size) - 1

LEMMA WrappedSteps ==
  ASSUME NEW size \in Nat \ {0}, NEW a \in 0 .. size - 1, NEW b \in 0 .. size - 1
  PROVE  StepsAround(a, b, size)
<1> DEFINE W(c) == LET e == IF a >= c THEN a - c ELSE c - a IN IF e <= size - e THEN e ELSE size - e
<1>1. \A c \in 0 .. size - 1 : Wrapped(a, c, size) = W(c)
  <2> SUFFICES ASSUME NEW c \in 0 .. size - 1 PROVE Wrapped(a, c, size) = W(c)
    OBVIOUS
  <2>1. a \in 0 .. size /\ c \in 0 .. size
    OBVIOUS
  <2> QED  BY <2>1, WrappedDef
<1>2. W(b) \in 0 .. size - 1 /\ (W(b) = 0 <=> a = b)
  OBVIOUS
<1> DEFINE up == IF b = size - 1 THEN 0 ELSE b + 1
           down == IF b = 0 THEN size - 1 ELSE b - 1
<1>3. up \in 0 .. size - 1 /\ down \in 0 .. size - 1 /\ Around(b, size) = {up, down}
  <2>1. (b + 1) % size = up /\ (b - 1) % size = down
    BY AroundDef
  <2>2. up \in 0 .. size - 1 /\ down \in 0 .. size - 1
    OBVIOUS
  <2> QED  BY <2>1, <2>2 DEF Around
<1>4. W(up) <= W(b) + 1 /\ W(down) <= W(b) + 1
  OBVIOUS
<1>5. a # b => W(up) = W(b) - 1 \/ W(down) = W(b) - 1
  OBVIOUS
<1>6. b \in Around(up, size) /\ b \in Around(down, size)
  <2>1. (down + 1) % size = b /\ (up - 1) % size = b
    BY <1>3, AroundDef
  <2> QED  BY <2>1 DEF Around
<1> HIDE DEF W, up, down
<1>7. \A c \in Around(b, size) : Wrapped(a, c, size) <= Wrapped(a, b, size) + 1
  BY <1>1, <1>3, <1>4
<1>8. a # b => \E c \in 0 .. size - 1 : /\ b \in Around(c, size)
                                        /\ Wrapped(a, c, size) = Wrapped(a, b, size) - 1
  BY <1>1, <1>3, <1>5, <1>6
<1> QED  BY <1>1, <1>2, <1>7, <1>8 DEF StepsAround
-----------------------------------------------------------------------------
\* What D says of the distances from s is what the neighbours say: D is 0 at s alone,
\* grows by at most one with a step, and every other node has a neighbour nearer to s.
Metric(t, s, D) ==
  /\ D \in [Nodes -> 0 .. NumNodes]
  /\ \A d \in Nodes : D[d] = 0 <=> d = s
  /\ \A n \in Nodes : \A m \in Neighbours(t, n) : m \in Nodes /\ D[m] <= D[n] + 1
  /\ \A d \in Nodes : d # s => \E n \in Nodes : d \in Neighbours(t, n) /\ D[n] = D[d] - 1

\* The recursion of Within.
Balls(t, s, g) ==
  g = [k \in Nat |-> IF k = 0 THEN {s} ELSE g[k - 1] \cup UNION {Neighbours(t, n) : n \in g[k - 1]}]

LEMMA BallsAreUnique ==
  ASSUME NEW t, NEW s, NEW g, NEW h, Balls(t, s, g), Balls(t, s, h)
  PROVE  \A k \in Nat : g[k] = h[k]
<1> DEFINE B == {k \in Nat : g[k] # h[k]}
<1> SUFFICES ASSUME B # {} PROVE FALSE
  OBVIOUS
<1>1. PICK b \in B : \A k \in B : b <= k
  BY LeastNumber
<1>2. /\ g[b] = IF b = 0 THEN {s} ELSE g[b - 1] \cup UNION {Neighbours(t, n) : n \in g[b - 1]}
      /\ h[b] = IF b = 0 THEN {s} ELSE h[b - 1] \cup UNION {Neighbours(t, n) : n \in h[b - 1]}
  <2>1. b \in Nat
    OBVIOUS
  <2> HIDE DEF B
  <2> QED  BY <2>1 DEF Balls
<1>3. b # 0
  BY <1>2
<1>4. g[b - 1] = h[b - 1]
  <2>1. b - 1 \in Nat /\ ~(b <= b - 1)
    BY <1>3
  <2> QED  BY <1>1, <2>1
<1> QED  BY <1>2, <1>3, <1>4

LEMMA BallsOfMetric ==
  ASSUME NEW t, NEW s \in Nodes, NEW D, Metric(t, s, D)
  PROVE  \A k \in Nat : Within(t, s)[k] = {d \in Nodes : D[d] <= k}
<1> DEFINE h == [k \in Nat |-> {d \in Nodes : D[d] <= k}]
<1>0. \A d \in Nodes : D[d] \in Nat
  BY Grid DEF Metric
<1>1. h[0] = {s}
  BY <1>0 DEF Metric
<1>2. ASSUME NEW k \in Nat, k # 0
      PROVE  h[k] = h[k - 1] \cup UNION {Neighbours(t, n) : n \in h[k - 1]}
  <2>0. k - 1 \in Nat /\ h[k] = {d \in Nodes : D[d] <= k} /\ h[k - 1] = {d \in Nodes : D[d] <= k - 1}
    BY <1>2
  <2> HIDE DEF h
  <2>1. ASSUME NEW d \in h[k], d \notin h[k - 1]
        PROVE  \E n \in h[k - 1] : d \in Neighbours(t, n)
    <3>1. d \in Nodes /\ D[d] = k
      BY <1>0, <2>0, <2>1
    <3>2. d # s
      BY <1>2, <3>1 DEF Metric
    <3>3. PICK n \in Nodes : d \in Neighbours(t, n) /\ D[n] = D[d] - 1
      BY <3>1, <3>2 DEF Metric
    <3> QED  BY <2>0, <3>1, <3>3
  <2>2. ASSUME NEW d \in h[k - 1] PROVE d \in h[k]
    BY <1>0, <2>0
  <2>3. ASSUME NEW n \in h[k - 1], NEW d \in Neighbours(t, n) PROVE d \in h[k]
    <3>1. n \in Nodes /\ D[n] <= k - 1
      BY <2>0
    <3>2. d \in Nodes /\ D[d] <= D[n] + 1
      BY <3>1 DEF Metric
    <3>3. D[d] <= k
      BY <1>0, <3>1, <3>2
    <3> QED  BY <2>0, <3>2, <3>3
  <2> QED  BY <2>1, <2>2, <2>3
<1>3. Balls(t, s, h)
  <2>1. \A k \in Nat : h[k] = IF k = 0 THEN {s} ELSE h[k - 1] \cup UNION {Neighbours(t, n) : n \in h[k - 1]}
    BY <1>1, <1>2
  <2>2. h = [k \in Nat |-> h[k]]
    OBVIOUS
  <2> HIDE DEF h
  <2> QED  BY <2>1, <2>2 DEF Balls
<1> HIDE DEF h
<1>4. PICK g : Within(t, s) = g /\ Balls(t, s, g)
  BY <1>3 DEF Within, Balls
<1>5. \A k \in Nat : g[k] = h[k]
  BY <1>3, <1>4, BallsAreUnique
<1> QED  BY <1>4, <1>5 DEF h

\* Then D is the distance.
LEMMA DistanceIsMetric ==
  ASSUME NEW t \in {"Ring", "Torus", "Mesh"}, NEW s \in Nodes, NEW D, Metric(t, s, D), NEW d \in Nodes
  PROVE  Distance[t][s][d] = D[d]
<1> DEFINE K == {k \in 0 .. NumNodes : d \in Within(t, s)[k]}
<1>0. NumNodes \in Nat /\ D[d] \in 0 .. NumNodes
  BY Grid DEF Metric
<1>1. K = {k \in 0 .. NumNodes : D[d] <= k}
  <2>1. \A k \in 0 .. NumNodes : d \in Within(t, s)[k] <=> D[d] <= k
    <3>1. \A k \in 0 .. NumNodes : k \in Nat
      BY <1>0
    <3> QED  BY <3>1, BallsOfMetric
  <2> QED  BY <2>1
<1>2. Distance[t][s][d] = Min(K)
  BY DEF Distance
<1> HIDE DEF K
<1>3. D[d] \in K /\ \A k \in K : D[d] <= k
  BY <1>0, <1>1
<1>4. \A m \in K : (\A k \in K : m <= k) => m = D[d]
  BY <1>0, <1>1, <1>3
<1>5. Min(K) = D[d]
  BY <1>3, <1>4 DEF Min
<1> QED  BY <1>2, <1>5

-----------------------------------------------------------------------------
LEMMA RingIsMetric ==
  ASSUME NEW s \in Nodes
  PROVE  /\ Metric("Ring", s, [d \in Nodes |-> Wrapped(s, d, NumNodes)])
         /\ \A d \in Nodes : RingHops(s, d) = Wrapped(s, d, NumNodes)
<1> DEFINE D == [d \in Nodes |-> Wrapped(s, d, NumNodes)]
<1>1. NumNodes \in Nat \ {0} /\ Nodes = 0 .. NumNodes - 1
  BY Grid DEF Nodes
<1>2. \A n \in Nodes : Neighbours("Ring", n) = Around(n, NumNodes)
  BY DEF Neighbours, Around
<1>3. \A n \in Nodes : Around(n, NumNodes) \subseteq Nodes
  BY <1>1, AroundDef
<1>4. ASSUME NEW d \in Nodes
      PROVE  /\ Wrapped(s, d, NumNodes) \in 0 .. NumNodes
             /\ Wrapped(s, d, NumNodes) = 0 <=> d = s
             /\ \A c \in Around(d, NumNodes) : Wrapped(s, c, NumNodes) <= Wrapped(s, d, NumNodes) + 1
             /\ d # s => \E c \in Nodes : /\ d \in Around(c, NumNodes)
                                          /\ Wrapped(s, c, NumNodes) = Wrapped(s, d, NumNodes) - 1
  <2>1. StepsAround(s, d, NumNodes)
    BY <1>1, WrappedSteps
  <2>2. 0 .. NumNodes - 1 \subseteq 0 .. NumNodes
    BY <1>1
  <2> QED  BY <1>1, <2>1, <2>2 DEF StepsAround
<1>5. Metric("Ring", s, D)
  BY <1>2, <1>3, <1>4 DEF Metric
<1>6. ASSUME NEW d \in Nodes PROVE RingHops(s, d) = Wrapped(s, d, NumNodes)
  <2> DEFINE clockwise == IF d >= s THEN d - s ELSE NumNodes - s + d
             a == IF s >= d THEN s - d ELSE d - s
  <2>1. s \in 0 .. NumNodes /\ d \in 0 .. NumNodes /\ NumNodes \in Nat
    BY <1>1
  <2>2. Wrapped(s, d, NumNodes) = IF a <= NumNodes - a THEN a ELSE NumNodes - a
    BY <2>1, WrappedDef
  <2>3. clockwise \in Int /\ NumNodes - clockwise \in Int
    BY <2>1
  <2>4. Min({clockwise, NumNodes - clockwise}) =
          IF clockwise <= NumNodes - clockwise THEN clockwise ELSE NumNodes - clockwise
    <3> HIDE DEF clockwise
    <3> QED  BY <2>3, MinOfTwo
  <2>5. RingHops(s, d) = IF s = d THEN 0
                         ELSE IF clockwise <= NumNodes - clockwise THEN clockwise ELSE NumNodes - clockwise
    <3> HIDE DEF clockwise
    <3> QED  BY <2>4 DEF RingHops, clockwise
  <2> QED  BY <2>1, <2>2, <2>5
<1> QED  BY <1>5, <1>6

\* The routers of a torus or a mesh by their coordinates.
Column(n) == n % Width
Row(n) == n \div Width

LEMMA GridNodes ==
  /\ \A n \in Nodes : Column(n) \in 0 .. Width - 1 /\ Row(n) \in 0 .. Height - 1
                      /\ n = Row(n) * Width + Column(n)
  /\ \A i \in 0 .. Width - 1, j \in 0 .. Height - 1 :
       /\ j * Width + i \in Nodes /\ Column(j * Width + i) = i /\ Row(j * Width + i) = j
<1>1. \A n \in Nodes : Column(n) \in 0 .. Width - 1 /\ Row(n) \in 0 .. Height - 1
                      /\ n = Row(n) * Width + Column(n)
  BY Grid DEF Column, Row
<1>2. ASSUME NEW i \in 0 .. Width - 1, NEW j \in 0 .. Height - 1
      PROVE  /\ j * Width + i \in Nodes /\ Column(j * Width + i) = i /\ Row(j * Width + i) = j
  <2>1. Width \in Nat \ {0} /\ Height \in Nat /\ j \in Nat /\ Nodes = 0 .. Width * Height - 1
    BY Grid
  <2>2. j * Width + i \in Nodes
    BY <2>1, InGrid
  <2>3. (j * Width + i) % Width = i /\ (j * Width + i) \div Width = j
    BY <2>1, Coordinates
  <2> QED  BY <2>2, <2>3 DEF Column, Row
<1> QED  BY <1>1, <1>2

LEMMA ShortGrid == (Width - 1) + (Height - 1) <= NumNodes
<1> DEFINE a == Width - 1
           b == Height - 1
<1>1. a \in Nat /\ b \in Nat /\ Width = a + 1 /\ Height = b + 1 /\ NumNodes = Width * Height
  BY Grid
<1> HIDE DEF a, b
<1>2. NumNodes = (a + 1) * (b + 1)
  BY <1>1
<1>3. (a + 1) * (b + 1) = a * b + a + b + 1 /\ a * b >= 0
  BY <1>1
<1>4. a + b <= NumNodes
  BY <1>1, <1>2, <1>3
<1> QED  BY <1>4 DEF a, b

LEMMA TorusIsMetric ==
  ASSUME NEW s \in Nodes
  PROVE  Metric("Torus", s, [d \in Nodes |-> TorusHops(s, d)])
<1> DEFINE D == [d \in Nodes |-> TorusHops(s, d)]
           X(d) == Wrapped(Column(s), Column(d), Width)
           Y(d) == Wrapped(Row(s), Row(d), Height)
<1>w. Width \in Nat \ {0} /\ Height \in Nat \ {0}
  BY Grid
<1>1. \A d \in Nodes : D[d] = X(d) + Y(d)
  BY DEF TorusHops, Column, Row
<1>s. Column(s) \in 0 .. Width - 1 /\ Row(s) \in 0 .. Height - 1
  BY GridNodes
<1>2. \A i \in 0 .. Width - 1 : StepsAround(Column(s), i, Width)
  BY <1>w, <1>s, WrappedSteps
<1>3. \A j \in 0 .. Height - 1 : StepsAround(Row(s), j, Height)
  BY <1>w, <1>s, WrappedSteps
<1>4. ASSUME NEW n \in Nodes
      PROVE  Neighbours("Torus", n) = {Row(n) * Width + c : c \in Around(Column(n), Width)}
                                      \cup {c * Width + Column(n) : c \in Around(Row(n), Height)}
  <2> DEFINE x == n % Width
             y == n \div Width
  <2>1. x \in 0 .. Width - 1 /\ y \in 0 .. Height - 1
    BY GridNodes DEF Column, Row
  <2> HIDE DEF x, y
  <2>2. (x % Width) = x /\ (y % Height) = y
    BY <1>w, <2>1
  <2>3. Neighbours("Torus", n) =
          {((y % Height) * Width) + ((x + 1) % Width), ((y % Height) * Width) + ((x - 1) % Width),
           (((y + 1) % Height) * Width) + (x % Width), (((y - 1) % Height) * Width) + (x % Width)}
    BY DEF Neighbours, x, y
  <2>4. Neighbours("Torus", n) =
          {(y * Width) + ((x + 1) % Width), (y * Width) + ((x - 1) % Width),
           (((y + 1) % Height) * Width) + x, (((y - 1) % Height) * Width) + x}
    BY <2>2, <2>3
  <2> QED  BY <2>4 DEF Around, Column, Row, x, y
<1>5. \A d \in Nodes : X(d) \in 0 .. Width - 1 /\ Y(d) \in 0 .. Height - 1
  BY <1>2, <1>3, GridNodes DEF StepsAround
<1>6. D \in [Nodes -> 0 .. NumNodes]
  <2>1. ASSUME NEW d \in Nodes PROVE X(d) + Y(d) \in 0 .. NumNodes
    <3>1. X(d) \in 0 .. Width - 1 /\ Y(d) \in 0 .. Height - 1
      BY <1>5
    <3>2. NumNodes \in Nat /\ (Width - 1) + (Height - 1) <= NumNodes
      BY ShortGrid, Grid
    <3> HIDE DEF X, Y
    <3> QED  BY <1>w, <3>1, <3>2
  <2> QED  BY <2>1, <1>1
<1>7. \A d \in Nodes : D[d] = 0 <=> d = s
  <2> SUFFICES ASSUME NEW d \in Nodes PROVE D[d] = 0 <=> d = s
    OBVIOUS
  <2>1. X(d) = 0 <=> Column(s) = Column(d)
    BY <1>2, GridNodes DEF StepsAround
  <2>2. Y(d) = 0 <=> Row(s) = Row(d)
    BY <1>3, GridNodes DEF StepsAround
  <2>3. D[d] = 0 <=> X(d) = 0 /\ Y(d) = 0
    <3> HIDE DEF X, Y, D
    <3>1. X(d) \in Nat /\ Y(d) \in Nat
      BY <1>5, <1>w
    <3> QED  BY <1>1, <3>1
  <2>4. d = s <=> Column(s) = Column(d) /\ Row(s) = Row(d)
    BY GridNodes
  <2> QED  BY <2>1, <2>2, <2>3, <2>4
<1>8. ASSUME NEW n \in Nodes, NEW m \in Neighbours("Torus", n)
      PROVE  m \in Nodes /\ D[m] <= D[n] + 1
  <2>n. Column(n) \in 0 .. Width - 1 /\ Row(n) \in 0 .. Height - 1
    BY GridNodes
  <2>1. ASSUME NEW c \in Around(Column(n), Width), m = Row(n) * Width + c
        PROVE  m \in Nodes /\ X(m) <= X(n) + 1 /\ Y(m) = Y(n)
    <3>1. c \in 0 .. Width - 1
      BY <1>w, <2>n, AroundDef
    <3>2. m \in Nodes /\ Column(m) = c /\ Row(m) = Row(n)
      BY <2>n, <2>1, <3>1, GridNodes
    <3> QED  BY <1>2, <2>n, <2>1, <3>2 DEF StepsAround
  <2>2. ASSUME NEW c \in Around(Row(n), Height), m = c * Width + Column(n)
        PROVE  m \in Nodes /\ X(m) = X(n) /\ Y(m) <= Y(n) + 1
    <3>1. c \in 0 .. Height - 1
      BY <1>w, <2>n, AroundDef
    <3>2. m \in Nodes /\ Column(m) = Column(n) /\ Row(m) = c
      BY <2>n, <2>2, <3>1, GridNodes
    <3> QED  BY <1>3, <2>n, <2>2, <3>2 DEF StepsAround
  <2>3. m \in Nodes /\ ((X(m) <= X(n) + 1 /\ Y(m) = Y(n)) \/ (X(m) = X(n) /\ Y(m) <= Y(n) + 1))
    BY <1>4, <2>1, <2>2
  <2> HIDE DEF X, Y, D
  <2>4. X(m) \in Nat /\ Y(m) \in Nat /\ X(n) \in Nat /\ Y(n) \in Nat
    BY <1>w, <1>5, <2>3
  <2> QED  BY <1>1, <2>3, <2>4
<1>9. ASSUME NEW d \in Nodes, d # s
      PROVE  \E n \in Nodes : d \in Neighbours("Torus", n) /\ D[n] = D[d] - 1
  <2>d. Column(d) \in 0 .. Width - 1 /\ Row(d) \in 0 .. Height - 1 /\ d = Row(d) * Width + Column(d)
    BY GridNodes
  <2>1. CASE Column(s) # Column(d)
    <3>1. PICK c \in 0 .. Width - 1 : /\ Column(d) \in Around(c, Width)
                                      /\ Wrapped(Column(s), c, Width) = X(d) - 1
      BY <1>2, <2>d, <2>1 DEF StepsAround
    <3> DEFINE n == Row(d) * Width + c
    <3>2. n \in Nodes /\ Column(n) = c /\ Row(n) = Row(d)
      BY <2>d, GridNodes
    <3> HIDE DEF n
    <3>3. d \in Neighbours("Torus", n)
      BY <1>4, <2>d, <3>1, <3>2
    <3>4. X(n) = X(d) - 1 /\ Y(n) = Y(d)
      BY <3>1, <3>2
    <3>5. D[n] = D[d] - 1
      <4> HIDE DEF X, Y, D
      <4>1. X(d) \in Nat /\ Y(d) \in Nat
        BY <1>w, <1>5
      <4> QED  BY <1>1, <3>2, <3>4, <4>1
    <3> QED  BY <3>2, <3>3, <3>5
  <2>2. CASE Column(s) = Column(d)
    <3>0. Row(s) # Row(d)
      BY <1>9, <2>2, GridNodes
    <3>1. PICK c \in 0 .. Height - 1 : /\ Row(d) \in Around(c, Height)
                                       /\ Wrapped(Row(s), c, Height) = Y(d) - 1
      BY <1>3, <2>d, <3>0 DEF StepsAround
    <3> DEFINE n == c * Width + Column(d)
    <3>2. n \in Nodes /\ Column(n) = Column(d) /\ Row(n) = c
      BY <2>d, GridNodes
    <3> HIDE DEF n
    <3>3. d \in Neighbours("Torus", n)
      BY <1>4, <2>d, <3>1, <3>2
    <3>4. X(n) = X(d) /\ Y(n) = Y(d) - 1
      BY <3>1, <3>2
    <3>5. D[n] = D[d] - 1
      <4> HIDE DEF X, Y, D
      <4>1. X(d) \in Nat /\ Y(d) \in Nat
        BY <1>w, <1>5
      <4> QED  BY <1>1, <3>2, <3>4, <4>1
    <3> QED  BY <3>2, <3>3, <3>5
  <2> QED  BY <2>1, <2>2
<1> HIDE DEF D
<1>10. Metric("Torus", s, D)
  BY <1>6, <1>7, <1>8, <1>9 DEF Metric
<1> QED  BY <1>10 DEF D

\* What is left of a route through the mesh.
RouteLength(n, d) == Apart(Column(n), Column(d)) + Apart(Row(n), Row(d))

LEMMA ApartZero ==
  ASSUME NEW x \in Int, NEW y \in Int, NEW u \in Int, NEW v \in Int
  PROVE  /\ Apart(x, u) + Apart(y, v) \in Nat
         /\ Apart(x, u) + Apart(y, v) = 0 <=> x = u /\ y = v
<1>1. Apart(x, u) = IF x >= u THEN x - u ELSE u - x
  BY ApartDef
<1>2. Apart(y, v) = IF y >= v THEN y - v ELSE v - y
  BY ApartDef
<1> QED  BY <1>1, <1>2

LEMMA ApartSymmetric == ASSUME NEW x \in Int, NEW u \in Int PROVE Apart(x, u) = Apart(u, x)
<1>1. Apart(x, u) = IF x >= u THEN x - u ELSE u - x
  BY ApartDef
<1>2. Apart(u, x) = IF u >= x THEN u - x ELSE x - u
  BY ApartDef
<1> QED  BY <1>1, <1>2

\* One step towards (u, v).
Nearer(i, j, x, y, u, v) ==
  \/ j = y /\ x < u /\ i = x + 1
  \/ j = y /\ u < x /\ i = x - 1
  \/ i = x /\ y < v /\ j = y + 1
  \/ i = x /\ v < y /\ j = y - 1

LEMMA ApartNearer ==
  ASSUME NEW i \in Int, NEW j \in Int, NEW x \in Int, NEW y \in Int, NEW u \in Int, NEW v \in Int,
         Nearer(i, j, x, y, u, v)
  PROVE  Apart(i, u) + Apart(j, v) = (Apart(x, u) + Apart(y, v)) - 1
<1>1. /\ Apart(i, u) = (IF i >= u THEN i - u ELSE u - i)
      /\ Apart(j, v) = (IF j >= v THEN j - v ELSE v - j)
      /\ Apart(x, u) = (IF x >= u THEN x - u ELSE u - x)
      /\ Apart(y, v) = (IF y >= v THEN y - v ELSE v - y)
  BY ApartDef
<1> QED  BY <1>1 DEF Nearer

LEMMA MeshIsMetric ==
  ASSUME NEW s \in Nodes
  PROVE  Metric("Mesh", s, [d \in Nodes |-> RouteLength(s, d)])
<1> DEFINE D == [d \in Nodes |-> RouteLength(s, d)]
           X(d) == Apart(Column(s), Column(d))
           Y(d) == Apart(Row(s), Row(d))
<1>w. Width \in Nat \ {0} /\ Height \in Nat \ {0}
  BY Grid
<1>c. \A d \in Nodes : Column(d) \in 0 .. Width - 1 /\ Row(d) \in 0 .. Height - 1
                       /\ d = Row(d) * Width + Column(d)
  BY GridNodes
<1>1. \A d \in Nodes : D[d] = X(d) + Y(d)
  BY DEF RouteLength
<1>2. ASSUME NEW d \in Nodes
      PROVE  /\ X(d) = IF Column(s) >= Column(d) THEN Column(s) - Column(d) ELSE Column(d) - Column(s)
             /\ Y(d) = IF Row(s) >= Row(d) THEN Row(s) - Row(d) ELSE Row(d) - Row(s)
  <2>1. Column(s) \in Int /\ Column(d) \in Int /\ Row(s) \in Int /\ Row(d) \in Int
    BY <1>c
  <2> QED  BY <2>1, ApartDef
<1> HIDE DEF X, Y, D
<1>3. ASSUME NEW d \in Nodes PROVE X(d) \in 0 .. Width - 1 /\ Y(d) \in 0 .. Height - 1
  <2>1. /\ Column(s) \in 0 .. Width - 1 /\ Row(s) \in 0 .. Height - 1
        /\ Column(d) \in 0 .. Width - 1 /\ Row(d) \in 0 .. Height - 1
    BY <1>c
  <2> QED  BY <1>w, <1>2, <2>1
<1>4. D \in [Nodes -> 0 .. NumNodes]
  <2>1. ASSUME NEW d \in Nodes PROVE X(d) + Y(d) \in 0 .. NumNodes
    <3>1. X(d) \in 0 .. Width - 1 /\ Y(d) \in 0 .. Height - 1
      BY <1>3
    <3>2. NumNodes \in Nat /\ (Width - 1) + (Height - 1) <= NumNodes
      BY ShortGrid, Grid
    <3> QED  BY <1>w, <3>1, <3>2
  <2> QED  BY <1>1, <2>1 DEF D
<1>5. ASSUME NEW d \in Nodes PROVE D[d] = 0 <=> d = s
  <2>1. /\ Column(s) \in Nat /\ Row(s) \in Nat /\ s = Row(s) * Width + Column(s)
        /\ Column(d) \in Nat /\ Row(d) \in Nat /\ d = Row(d) * Width + Column(d)
    BY <1>c
  <2>2. D[d] = 0 <=> Column(s) = Column(d) /\ Row(s) = Row(d)
    <3>1. Column(s) \in Int /\ Row(s) \in Int /\ Column(d) \in Int /\ Row(d) \in Int
      BY <2>1
    <3>2. X(d) + Y(d) = 0 <=> Column(s) = Column(d) /\ Row(s) = Row(d)
      <4> DEFINE x == Column(s)
                 y == Row(s)
                 u == Column(d)
                 v == Row(d)
      <4>1. x \in Int /\ y \in Int /\ u \in Int /\ v \in Int
        BY <3>1
      <4>2. X(d) + Y(d) = Apart(x, u) + Apart(y, v)
        BY DEF X, Y
      <4> HIDE DEF x, y, u, v
      <4>3. Apart(x, u) + Apart(y, v) \in Nat /\ (Apart(x, u) + Apart(y, v) = 0 <=> x = u /\ y = v)
        BY <4>1, ApartZero
      <4>4. X(d) + Y(d) = 0 <=> x = u /\ y = v
        BY <4>2, <4>3
      <4> QED  BY <4>4 DEF x, y, u, v
    <3> QED  BY <1>1, <3>2
  <2> QED  BY <2>1, <2>2
<1>6. ASSUME NEW n \in Nodes
      PROVE  Neighbours("Mesh", n) =
               {j[2] * Width + j[1] : j \in
                  {r \in (0 .. Width - 1) \X (0 .. Height - 1) :
                     Apart(r[1], Column(n)) + Apart(r[2], Row(n)) = 1}}
  <2>1. \A i \in 0 .. Width - 1 : i % Width = i
    BY <1>w
  <2>2. \A i \in 0 .. Height - 1 : i % Height = i
    BY <1>w
  <2> DEFINE Grids == {r \in (0 .. Width - 1) \X (0 .. Height - 1) :
                         Apart(r[1], Column(n)) + Apart(r[2], Row(n)) = 1}
  <2>3. Neighbours("Mesh", n) = {((j[2] % Height) * Width) + (j[1] % Width) : j \in Grids}
    BY DEF Neighbours, Column, Row
  <2>4. \A j \in Grids : ((j[2] % Height) * Width) + (j[1] % Width) = j[2] * Width + j[1]
    BY <2>1, <2>2
  <2> HIDE DEF Grids
  <2>5. Neighbours("Mesh", n) = {j[2] * Width + j[1] : j \in Grids}
    BY <2>3, <2>4
  <2> QED  BY <2>5 DEF Grids
<1>7. ASSUME NEW n \in Nodes, NEW m
      PROVE  m \in Neighbours("Mesh", n) <=>
               m \in Nodes /\ Apart(Column(m), Column(n)) + Apart(Row(m), Row(n)) = 1
  <2>1. ASSUME m \in Neighbours("Mesh", n)
        PROVE  m \in Nodes /\ Apart(Column(m), Column(n)) + Apart(Row(m), Row(n)) = 1
    <3>1. PICK r \in (0 .. Width - 1) \X (0 .. Height - 1) :
            m = r[2] * Width + r[1] /\ Apart(r[1], Column(n)) + Apart(r[2], Row(n)) = 1
      BY <1>6, <2>1
    <3>2. m \in Nodes /\ Column(m) = r[1] /\ Row(m) = r[2]
      BY <3>1, GridNodes
    <3> QED  BY <3>1, <3>2
  <2>2. ASSUME m \in Nodes, Apart(Column(m), Column(n)) + Apart(Row(m), Row(n)) = 1
        PROVE  m \in Neighbours("Mesh", n)
    <3> DEFINE r == <<Column(m), Row(m)>>
    <3>1. r \in (0 .. Width - 1) \X (0 .. Height - 1) /\ m = r[2] * Width + r[1]
      BY <1>c, <2>2
    <3>2. Apart(r[1], Column(n)) + Apart(r[2], Row(n)) = 1
      BY <2>2
    <3> HIDE DEF r
    <3> QED  BY <1>6, <3>1, <3>2
  <2> QED  BY <2>1, <2>2
<1>8. ASSUME NEW n \in Nodes, NEW m \in Neighbours("Mesh", n)
      PROVE  m \in Nodes /\ D[m] <= D[n] + 1
  <2>1. m \in Nodes /\ Apart(Column(m), Column(n)) + Apart(Row(m), Row(n)) = 1
    BY <1>7
  <2>2. /\ Column(s) \in Int /\ Row(s) \in Int /\ Column(m) \in Int /\ Row(m) \in Int
        /\ Column(n) \in Int /\ Row(n) \in Int
    BY <1>c, <2>1
  <2>3. /\ Apart(Column(m), Column(n)) = IF Column(m) >= Column(n) THEN Column(m) - Column(n) ELSE Column(n) - Column(m)
        /\ Apart(Row(m), Row(n)) = IF Row(m) >= Row(n) THEN Row(m) - Row(n) ELSE Row(n) - Row(m)
    BY <2>2, ApartDef
  <2> QED  BY <1>1, <1>2, <2>1, <2>2, <2>3
<1>9. ASSUME NEW d \in Nodes, d # s
      PROVE  \E n \in Nodes : d \in Neighbours("Mesh", n) /\ D[n] = D[d] - 1
  <2>d. /\ Column(d) \in 0 .. Width - 1 /\ Row(d) \in 0 .. Height - 1 /\ d = Row(d) * Width + Column(d)
        /\ Column(s) \in 0 .. Width - 1 /\ Row(s) \in 0 .. Height - 1
        /\ Column(s) # Column(d) \/ Row(s) # Row(d)
    BY <1>9, <1>c
  <2> DEFINE i == IF Column(s) = Column(d) THEN Column(d)
                  ELSE IF Column(s) < Column(d) THEN Column(d) - 1 ELSE Column(d) + 1
             j == IF Column(s) # Column(d) \/ Row(s) = Row(d) THEN Row(d)
                  ELSE IF Row(s) < Row(d) THEN Row(d) - 1 ELSE Row(d) + 1
             n == j * Width + i
  <2>1. i \in 0 .. Width - 1 /\ j \in 0 .. Height - 1
    BY <1>w, <2>d
  <2>2. n \in Nodes /\ Column(n) = i /\ Row(n) = j
    <3> HIDE DEF i, j
    <3> QED  BY <2>1, GridNodes
  <2> HIDE DEF n
  <2>3. /\ Apart(Column(d), Column(n)) = IF Column(d) >= i THEN Column(d) - i ELSE i - Column(d)
        /\ Apart(Row(d), Row(n)) = IF Row(d) >= j THEN Row(d) - j ELSE j - Row(d)
    <3> HIDE DEF i, j
    <3>1. Column(d) \in Int /\ i \in Int /\ Row(d) \in Int /\ j \in Int
      BY <2>d, <2>1
    <3> QED  BY <2>2, <3>1, ApartDef
  <2>4. Apart(Column(d), Column(n)) + Apart(Row(d), Row(n)) = 1
    BY <2>d, <2>3
  <2>5. d \in Neighbours("Mesh", n)
    BY <1>7, <2>2, <2>4
  <2>6. X(n) + Y(n) = (X(d) + Y(d)) - 1
    <3>1. Nearer(i, j, Column(d), Row(d), Column(s), Row(s))
      BY <2>d DEF Nearer
    <3>2. /\ i \in Int /\ j \in Int /\ Column(d) \in Int /\ Row(d) \in Int
          /\ Column(s) \in Int /\ Row(s) \in Int
      BY <2>d, <2>1
    <3> HIDE DEF i, j
    <3>3. Apart(i, Column(s)) + Apart(j, Row(s)) = (Apart(Column(d), Column(s)) + Apart(Row(d), Row(s))) - 1
      BY <3>1, <3>2, ApartNearer, SMTT(30)
    <3>4. /\ X(n) = Apart(i, Column(s)) /\ Y(n) = Apart(j, Row(s))
          /\ X(d) = Apart(Column(d), Column(s)) /\ Y(d) = Apart(Row(d), Row(s))
      BY <2>2, <3>2, ApartSymmetric DEF X, Y
    <3> QED  BY <3>3, <3>4
  <2>7. D[n] = D[d] - 1
    <3> HIDE DEF i, j
    <3>1. D[n] = X(n) + Y(n) /\ D[d] = X(d) + Y(d)
      BY <1>1, <2>2
    <3> QED  BY <2>6, <3>1
  <2> QED  BY <2>2, <2>5, <2>7
<1>10. Metric("Mesh", s, D)
  BY <1>4, <1>5, <1>8, <1>9 DEF Metric
<1> QED  BY <1>10 DEF D

\* Every hop of a route is one hop nearer to its end.
LEMMA HopsCount ==
  ASSUME NEW n \in Nodes, NEW d \in Nodes
  PROVE  /\ RouteLength(n, d) \in Nat
         /\ RouteLength(n, d) = 0 <=> n = d
         /\ n # d => RouteLength(NextRouter(n, d), d) = RouteLength(n, d) - 1
<1> DEFINE x == Column(n)
           y == Row(n)
           u == Column(d)
           v == Row(d)
           next == NextRouter(n, d)
<1>w. Width \in Nat \ {0} /\ Height \in Nat \ {0}
  BY Grid
<1>1. /\ x \in 0 .. Width - 1 /\ y \in 0 .. Height - 1 /\ n = y * Width + x
      /\ u \in 0 .. Width - 1 /\ v \in 0 .. Height - 1 /\ d = v * Width + u
  BY GridNodes
<1>2. next = IF x # u THEN IF x < u THEN n + 1 ELSE n - 1 ELSE IF n < d THEN n + Width ELSE n - Width
  BY DEF NextRouter, Column
<1>3. \A i, j \in Int : Apart(i, j) = IF i >= j THEN i - j ELSE j - i
  BY ApartDef
<1>4. RouteLength(n, d) = Apart(x, u) + Apart(y, v)
  BY DEF RouteLength
<1>5. RouteLength(next, d) = Apart(Column(next), u) + Apart(Row(next), v)
  BY DEF RouteLength
<1> HIDE DEF x, y, u, v, next
<1>6. RouteLength(n, d) \in Nat /\ (RouteLength(n, d) = 0 <=> x = u /\ y = v)
  <2>1. x \in Int /\ y \in Int /\ u \in Int /\ v \in Int
    BY <1>1
  <2>2. Apart(x, u) + Apart(y, v) \in Nat /\ (Apart(x, u) + Apart(y, v) = 0 <=> x = u /\ y = v)
    BY <2>1, ApartZero
  <2> QED  BY <1>4, <2>2
<1>7. n = d <=> x = u /\ y = v
  BY <1>1 DEF x, y, u, v
<1>8. ASSUME NEW i \in 0 .. Width - 1, NEW j \in 0 .. Height - 1, next = j * Width + i,
             Nearer(i, j, x, y, u, v)
      PROVE  RouteLength(next, d) = RouteLength(n, d) - 1
  <2>1. Column(next) = i /\ Row(next) = j
    BY <1>8, GridNodes
  <2>2. x \in Int /\ y \in Int /\ u \in Int /\ v \in Int /\ i \in Int /\ j \in Int
    BY <1>1
  <2>3. Apart(i, u) + Apart(j, v) = (Apart(x, u) + Apart(y, v)) - 1
    <3>1. Nearer(i, j, x, y, u, v)
      BY <1>8
    <3> QED  BY <2>2, <3>1, ApartNearer, SMTT(30)
  <2>4. RouteLength(next, d) = Apart(i, u) + Apart(j, v)
    BY <1>5, <2>1
  <2> QED  BY <1>4, <2>3, <2>4
<1>9. CASE x < u
  <2>1. next = y * Width + (x + 1) /\ x + 1 \in 0 .. Width - 1
    BY <1>w, <1>1, <1>2, <1>9
  <2> QED  BY <1>1, <1>6, <1>7, <1>8, <1>9, <2>1 DEF next, Nearer
<1>10. CASE u < x
  <2>1. next = y * Width + (x - 1) /\ x - 1 \in 0 .. Width - 1
    BY <1>w, <1>1, <1>2, <1>10
  <2> QED  BY <1>1, <1>6, <1>7, <1>8, <1>10, <2>1 DEF next, Nearer
<1>11. CASE x = u /\ y < v
  <2>1. Width * y + Width <= Width * v
    BY <1>w, <1>1, <1>11, NextRow
  <2>2. n < d
    BY <1>w, <1>1, <1>11, <2>1
  <2>3. next = (y + 1) * Width + x /\ y + 1 \in 0 .. Height - 1
    BY <1>w, <1>1, <1>2, <1>11, <2>2
  <2> QED  BY <1>1, <1>6, <1>7, <1>8, <1>11, <2>3 DEF next, Nearer
<1>12. CASE x = u /\ v < y
  <2>1. Width * v + Width <= Width * y
    BY <1>w, <1>1, <1>12, NextRow
  <2>2. ~(n < d)
    BY <1>w, <1>1, <1>12, <2>1
  <2>3. next = (y - 1) * Width + x /\ y - 1 \in 0 .. Height - 1
    BY <1>w, <1>1, <1>2, <1>12, <2>2
  <2> QED  BY <1>1, <1>6, <1>7, <1>8, <1>12, <2>3 DEF next, Nearer
<1>13. CASE x = u /\ y = v
  BY <1>6, <1>7, <1>13
<1> QED  BY <1>1, <1>9, <1>10, <1>11, <1>12, <1>13

\* The formulas of ring and torus and the routes of the mesh are shortest paths.
LEMMA FormulasAreShortest ==
  ASSUME NEW p \in Nodes, NEW d \in 0 .. NumNodes, topology \in {"Bus", "Crossbar", "Mesh", "Ring", "Torus"},
         topology = "Mesh" => d \in Nodes
  PROVE  TrueHops(p, d) = FormulaHops(p, d) + IF topology = "Mesh" THEN RouteLength(p, d) ELSE 0
<1>0. DOMAIN Distance = {"Ring", "Torus", "Mesh"}
  BY DEF Distance
<1>f. FormulaHops(p, d) \in Nat
  BY FormulaHopsType
<1>1. CASE d \in Nodes /\ topology = "Ring"
  <2>1. Distance["Ring"][p][d] = Wrapped(p, d, NumNodes)
    <3> DEFINE D == [e \in Nodes |-> Wrapped(p, e, NumNodes)]
    <3>1. Metric("Ring", p, D) /\ D[d] = Wrapped(p, d, NumNodes)
      BY <1>1, RingIsMetric
    <3> HIDE DEF D
    <3>2. Distance["Ring"][p][d] = D[d]
      BY <1>1, <3>1, DistanceIsMetric
    <3> QED  BY <3>1, <3>2
  <2>2. RingHops(p, d) = Wrapped(p, d, NumNodes)
    BY <1>1, RingIsMetric
  <2> QED  BY <1>0, <1>1, <1>f, <2>1, <2>2 DEF TrueHops, FormulaHops
<1>2. CASE d \in Nodes /\ topology = "Torus"
  <2>1. Distance["Torus"][p][d] = TorusHops(p, d)
    <3> DEFINE D == [e \in Nodes |-> TorusHops(p, e)]
    <3>1. Metric("Torus", p, D) /\ D[d] = TorusHops(p, d)
      BY <1>2, TorusIsMetric
    <3> HIDE DEF D
    <3>2. Distance["Torus"][p][d] = D[d]
      BY <1>2, <3>1, DistanceIsMetric
    <3> QED  BY <3>1, <3>2
  <2> QED  BY <1>0, <1>2, <1>f, <2>1 DEF TrueHops, FormulaHops
<1>3. CASE topology = "Mesh"
  <2>1. Distance["Mesh"][p][d] = RouteLength(p, d)
    <3> DEFINE D == [e \in Nodes |-> RouteLength(p, e)]
    <3>1. Metric("Mesh", p, D) /\ D[d] = RouteLength(p, d)
      BY <1>3, MeshIsMetric
    <3> HIDE DEF D
    <3>2. Distance["Mesh"][p][d] = D[d]
      BY <1>3, <3>1, DistanceIsMetric
    <3> QED  BY <3>1, <3>2
  <2>2. RouteLength(p, d) \in Nat
    BY <1>3, HopsCount
  <2> QED  BY <1>0, <1>3, <2>1, <2>2 DEF TrueHops, FormulaHops
<1>4. CASE topology \in {"Bus", "Crossbar"}
  BY <1>0, <1>4, <1>f DEF TrueHops, FormulaHops
<1>5. CASE d \notin Nodes /\ topology \in {"Ring", "Torus"}
  BY <1>0, <1>5, <1>f DEF TrueHops, FormulaHops
<1> QED  BY <1>1, <1>2, <1>3, <1>4, <1>5

-----------------------------------------------------------------------------
\* What a thread inside sendMessage is still going to add to the counters.
Counted(p) == pc[p] \in {"idle", "release"}
Owes == [p \in Senders |-> IF Counted(p) THEN 0 ELSE 1]
OwesHops == [p \in Senders |->
  IF Counted(p) THEN 0
  ELSE hops[p] + (IF pc[p] = "hop" THEN RouteLength(at[p], dest[p]) ELSE 0)]

CountsTyped ==
  /\ totals \in [messages : Nat, hops : Nat, conflicts : Nat]
  /\ due \in [messages : Int, hops : Int]

\* The counters and what the threads are going to add are what is due.
CountInv ==
  /\ CountsTyped
  /\ due.messages = totals.messages + SumFunction(Owes)
  /\ due.hops = totals.hops + SumFunction(OwesHops)

OwedTyped == Owes \in [Senders -> Int] /\ OwesHops \in [Senders -> Int]

LEMMA OwedType == LinkInv => OwedTyped
<1> SUFFICES ASSUME LinkInv PROVE OwedTyped
  OBVIOUS
<1>1. ASSUME NEW p \in Senders
      PROVE  hops[p] + (IF pc[p] = "hop" THEN RouteLength(at[p], dest[p]) ELSE 0) \in Int
  <2>1. hops[p] \in Nat /\ at[p] \in Nodes
    BY DEF LinkInv, LinksAreSound, NetworkTypeOK
  <2>2. pc[p] = "hop" => RouteLength(at[p], dest[p]) \in Nat
    <3>1. pc[p] = "hop" => dest[p] \in Nodes
      BY DEF LinkInv, PlaceOK
    <3> QED  BY <2>1, <3>1, HopsCount
  <2> QED  BY <2>1, <2>2
<1>2. Owes \in [Senders -> Int]
  BY DEF Owes
<1>3. OwesHops \in [Senders -> Int]
  BY <1>1 DEF OwesHops
<1> QED  BY <1>2, <1>3 DEF OwedTyped

LEMMA OwedTypeNext == LinkInv' => OwedTyped'
  BY OwedType, PTL

LEMMA SendersAreFinite == IsFiniteSet(Senders)
<1>1. IsFiniteSet(0 .. NumNodes - 1) /\ Senders \subseteq 0 .. NumNodes - 1
  BY FS_Interval, InterconnectAssumption
<1> QED  BY <1>1, FS_Subset

LEMMA SumOfOne ==
  ASSUME NEW f \in [Senders -> Int], NEW g \in [Senders -> Int], NEW p \in Senders,
         \A q \in Senders : q # p => g[q] = f[q]
  PROVE  SumFunction(g) = (SumFunction(f) + g[p]) - f[p] /\ SumFunction(f) \in Int
<1>1. g = [f EXCEPT ![p] = g[p]] /\ g[p] \in Int
  OBVIOUS
<1>2. SumFunction([f EXCEPT ![p] = g[p]]) = SumFunction(f) + g[p] - f[p]
  BY <1>1, SendersAreFinite, SumUpdate, ZenonT(40)
<1>3. SumFunction(f) \in Int
  <2>1. DOMAIN f = Senders /\ \A q \in Senders : f[q] \in Int
    OBVIOUS
  <2> QED  BY <2>1, SendersAreFinite, SumType DEF SumFunction
<1>4. SumFunction(g) = SumFunction(f) + g[p] - f[p]
  BY <1>1, <1>2
<1>5. f[p] \in Int /\ g[p] \in Int
  OBVIOUS
<1> QED  BY <1>3, <1>4, <1>5

\* A step of one thread that keeps the balance.
LEMMA Balance ==
  ASSUME CountInv, OwedTyped, OwedTyped', CountsTyped', NEW p \in Senders,
         \A q \in Senders : q # p => Owes'[q] = Owes[q] /\ OwesHops'[q] = OwesHops[q],
         due'.messages - totals'.messages - Owes'[p] = due.messages - totals.messages - Owes[p],
         due'.hops - totals'.hops - OwesHops'[p] = due.hops - totals.hops - OwesHops[p]
  PROVE  CountInv'
<1>1. SumFunction(Owes') = (SumFunction(Owes) + Owes'[p]) - Owes[p] /\ SumFunction(Owes) \in Int
  BY SumOfOne DEF OwedTyped
<1>2. SumFunction(OwesHops') = (SumFunction(OwesHops) + OwesHops'[p]) - OwesHops[p]
      /\ SumFunction(OwesHops) \in Int
  BY SumOfOne DEF OwedTyped
<1>3. /\ due'.messages \in Int /\ totals'.messages \in Int /\ due.messages \in Int
      /\ totals.messages \in Int /\ Owes[p] \in Int /\ Owes'[p] \in Int
      /\ due'.hops \in Int /\ totals'.hops \in Int /\ due.hops \in Int
      /\ totals.hops \in Int /\ OwesHops[p] \in Int /\ OwesHops'[p] \in Int
  BY DEF CountInv, CountsTyped, OwedTyped
<1> DEFINE Sum1 == SumFunction(Owes)
           Sum2 == SumFunction(Owes')
           Sum3 == SumFunction(OwesHops)
           Sum4 == SumFunction(OwesHops')
<1>s. /\ Sum2 = (Sum1 + Owes'[p]) - Owes[p] /\ Sum1 \in Int
      /\ Sum4 = (Sum3 + OwesHops'[p]) - OwesHops[p] /\ Sum3 \in Int
      /\ due.messages = totals.messages + Sum1 /\ due.hops = totals.hops + Sum3
  BY <1>1, <1>2 DEF CountInv
<1> HIDE DEF Sum1, Sum2, Sum3, Sum4
<1>4. due'.messages = totals'.messages + Sum2
  <2> DEFINE d == due.messages
             e == due'.messages
             s == totals.messages
             t == totals'.messages
             o == Owes[p]
             q == Owes'[p]
  <2>1. e - t - q = d - s - o
    OBVIOUS
  <2>2. d \in Int /\ e \in Int /\ s \in Int /\ t \in Int /\ o \in Int /\ q \in Int
    BY <1>3
  <2>3. d = s + Sum1 /\ Sum2 = (Sum1 + q) - o /\ Sum1 \in Int
    BY <1>s
  <2> HIDE DEF d, e, s, t, o, q
  <2>4. e = t + Sum2
    BY <2>1, <2>2, <2>3
  <2> QED  BY <2>4 DEF e, t
<1>5. due'.hops = totals'.hops + Sum4
  <2> DEFINE d == due.hops
             e == due'.hops
             s == totals.hops
             t == totals'.hops
             o == OwesHops[p]
             q == OwesHops'[p]
  <2>1. e - t - q = d - s - o
    OBVIOUS
  <2>2. d \in Int /\ e \in Int /\ s \in Int /\ t \in Int /\ o \in Int /\ q \in Int
    BY <1>3
  <2>3. d = s + Sum3 /\ Sum4 = (Sum3 + q) - o /\ Sum3 \in Int
    BY <1>s
  <2> HIDE DEF d, e, s, t, o, q
  <2>4. e = t + Sum4
    BY <2>1, <2>2, <2>3
  <2> QED  BY <2>4 DEF e, t
<1> QED  BY <1>4, <1>5 DEF CountInv, Sum2, Sum4

LEMMA OwedBy ==
  \A q \in Senders :
    /\ Owes[q] = IF Counted(q) THEN 0 ELSE 1
    /\ OwesHops[q] = IF Counted(q) THEN 0
                     ELSE hops[q] + (IF pc[q] = "hop" THEN RouteLength(at[q], dest[q]) ELSE 0)
  BY DEF Owes, OwesHops

LEMMA OwedByNext ==
  \A q \in Senders :
    /\ Owes'[q] = IF pc'[q] \in {"idle", "release"} THEN 0 ELSE 1
    /\ OwesHops'[q] = IF pc'[q] \in {"idle", "release"} THEN 0
                      ELSE hops'[q] + (IF pc'[q] = "hop" THEN RouteLength(at'[q], dest'[q]) ELSE 0)
  BY DEF Owes, OwesHops, Counted, RouteLength

\* Nothing is owed for a thread whose variables stay, or one that only wakes up.
LEMMA OthersOwe ==
  ASSUME NEW q \in Senders, hops'[q] = hops[q], at'[q] = at[q], dest'[q] = dest[q],
         pc'[q] = pc[q] \/ (pc[q] = "waiting" /\ pc'[q] = "woken")
  PROVE  Owes'[q] = Owes[q] /\ OwesHops'[q] = OwesHops[q]
  BY OwedBy, OwedByNext DEF Counted

\* A thread that passes a place where it still has to count everything.
LEMMA PassingOwes ==
  ASSUME NEW p \in Senders, hops'[p] = hops[p], hops[p] \in Nat,
         pc[p] \notin {"idle", "release", "hop"}, pc'[p] \notin {"idle", "release", "hop"}
  PROVE  Owes'[p] = Owes[p] /\ OwesHops'[p] = OwesHops[p]
  BY OwedBy, OwedByNext DEF Counted

LEMMA SendCounts ==
  ASSUME LinkInv, LinkInv', CountInv, NEW p \in Senders, NEW d \in Dests, Send(p, d)
  PROVE  CountInv'
<1>t. OwedTyped /\ OwedTyped'
  BY OwedType, OwedTypeNext
<1>1. /\ pc \in [Senders -> Places] /\ dest \in [Senders -> 0 .. NumNodes]
      /\ at \in [Senders -> Nodes] /\ hops \in [Senders -> Nat] /\ pc[p] = "idle"
  BY DEF LinkInv, LinksAreSound, NetworkTypeOK, Send
<1>2. p \in Nodes /\ d \in 0 .. NumNodes
  BY SendersType
<1>3. CASE topology = "Crossbar" /\ d \notin Nodes
  <2>1. UNCHANGED <<pc, dest, at, hops, due, totals>>
    BY <1>3 DEF Send
  <2>2. \A q \in Senders : Owes'[q] = Owes[q] /\ OwesHops'[q] = OwesHops[q]
    BY <2>1, OthersOwe
  <2>3. CountsTyped'
    BY <2>1 DEF CountInv, CountsTyped
  <2> QED  BY <1>t, <2>1, <2>2, <2>3, Balance
<1>4. CASE ~(topology = "Crossbar" /\ d \notin Nodes)
  <2>0. topology \in {"Bus", "Crossbar", "Mesh", "Ring", "Torus"} /\ (topology = "Mesh" => d \in Nodes)
    BY InterconnectAssumption DEF Send, LinkInv, LinksAreSound, NetworkTypeOK
  <2> DEFINE left == IF topology = "Mesh" THEN RouteLength(p, d) ELSE 0
  <2>1. /\ UNCHANGED totals /\ pc' = [pc EXCEPT ![p] = FirstStep]
        /\ dest' = [dest EXCEPT ![p] = d] /\ at' = [at EXCEPT ![p] = p]
        /\ hops' = [hops EXCEPT ![p] = FormulaHops(p, d)]
        /\ due' = [messages |-> due.messages + 1, hops |-> due.hops + TrueHops(p, d)]
    BY <1>4 DEF Send, Go
  <2>2. FirstStep \in {"arbitrate", "hop", "deliver"} /\ (FirstStep = "hop" <=> topology = "Mesh")
    BY <2>0 DEF FirstStep
  <2>3. TrueHops(p, d) = FormulaHops(p, d) + left /\ FormulaHops(p, d) \in Nat /\ left \in Nat
    <3>1. topology = "Mesh" => RouteLength(p, d) \in Nat
      BY <1>2, <2>0, HopsCount
    <3> QED  BY <1>2, <2>0, <3>1, FormulasAreShortest, FormulaHopsType
  <2>4. \A q \in Senders : q # p => Owes'[q] = Owes[q] /\ OwesHops'[q] = OwesHops[q]
    BY <1>1, <2>1, OthersOwe
  <2>5. /\ pc'[p] = FirstStep /\ dest'[p] = d /\ at'[p] = p /\ hops'[p] = FormulaHops(p, d)
    BY <1>1, <2>1
  <2>6. Owes[p] = 0 /\ OwesHops[p] = 0 /\ Owes'[p] = 1 /\ OwesHops'[p] = FormulaHops(p, d) + left
    BY <1>1, <2>2, <2>5, OwedBy, OwedByNext DEF Counted
  <2> HIDE DEF left
  <2>7. due.messages \in Int /\ due.hops \in Int /\ totals.messages \in Nat /\ totals.hops \in Nat
    BY DEF CountInv, CountsTyped
  <2>8. due'.messages = due.messages + 1 /\ due'.hops = due.hops + (FormulaHops(p, d) + left)
    BY <2>1, <2>3
  <2>9. CountsTyped'
    BY <2>1, <2>3, <2>7 DEF CountInv, CountsTyped
  <2>10. /\ due'.messages - totals'.messages - Owes'[p] = due.messages - totals.messages - Owes[p]
         /\ due'.hops - totals'.hops - OwesHops'[p] = due.hops - totals.hops - OwesHops[p]
    BY <2>1, <2>3, <2>6, <2>7, <2>8
  <2> QED  BY <1>t, <2>4, <2>9, <2>10, Balance
<1> QED  BY <1>3, <1>4

\* Steps that count no message and no hop.
LEMMA PassingCounts ==
  ASSUME LinkInv, LinkInv', CountInv, NEW p \in Senders,
         \/ TakeBus(p) \/ WaitForBus(p) \/ SpuriousWake(p) \/ TakePort(p) \/ Hop(p)
         \/ Deliver(p) \/ ReleaseBus(p) \/ ReleasePort(p)
  PROVE  CountInv'
<1>t. OwedTyped /\ OwedTyped'
  BY OwedType, OwedTypeNext
<1>1. /\ pc \in [Senders -> Places] /\ dest \in [Senders -> 0 .. NumNodes]
      /\ at \in [Senders -> Nodes] /\ hops \in [Senders -> Nat]
  BY DEF LinkInv, LinksAreSound, NetworkTypeOK
<1>c. CountsTyped
  BY DEF CountInv
<1>2. ASSUME CountsTyped', totals'.messages = totals.messages, totals'.hops = totals.hops, due' = due,
             \A q \in Senders : Owes'[q] = Owes[q] /\ OwesHops'[q] = OwesHops[q]
      PROVE  CountInv'
  BY <1>t, <1>2, Balance
<1>3. CASE TakeBus(p) \/ WaitForBus(p) \/ SpuriousWake(p) \/ TakePort(p)
  <2>1. /\ UNCHANGED <<dest, at, hops, due>>
        /\ totals' = totals \/ totals' = [totals EXCEPT !.conflicts = @ + 1]
        /\ \E place \in {"deliver", "waiting", "woken"} : pc' = [pc EXCEPT ![p] = place]
        /\ pc[p] \in {"arbitrate", "woken", "waiting"}
    BY <1>3 DEF TakeBus, WaitForBus, SpuriousWake, TakePort, Go
  <2>2. CountsTyped' /\ totals'.messages = totals.messages /\ totals'.hops = totals.hops
    BY <1>c, <2>1 DEF CountsTyped
  <2>3. \A q \in Senders : q # p => Owes'[q] = Owes[q] /\ OwesHops'[q] = OwesHops[q]
    BY <1>1, <2>1, OthersOwe
  <2>4. Owes'[p] = Owes[p] /\ OwesHops'[p] = OwesHops[p]
    <3>1. pc'[p] \in {"deliver", "waiting", "woken"} /\ hops'[p] = hops[p] /\ hops[p] \in Nat
      BY <1>1, <2>1
    <3> QED  BY <2>1, <3>1, PassingOwes
  <2> QED  BY <1>2, <2>1, <2>2, <2>3, <2>4
<1>4. CASE Hop(p)
  <2>1. /\ UNCHANGED <<pc, dest, due>> /\ pc[p] = "hop" /\ at[p] # dest[p]
        /\ totals' = totals \/ totals' = [totals EXCEPT !.conflicts = @ + 1]
        /\ at' = [at EXCEPT ![p] = NextRouter(at[p], dest[p])]
        /\ hops' = [hops EXCEPT ![p] = hops[p] + 1]
    BY <1>4 DEF Hop
  <2>2. CountsTyped' /\ totals'.messages = totals.messages /\ totals'.hops = totals.hops
    BY <1>c, <2>1 DEF CountsTyped
  <2>3. \A q \in Senders : q # p => Owes'[q] = Owes[q] /\ OwesHops'[q] = OwesHops[q]
    BY <1>1, <2>1, OthersOwe
  <2>4. /\ RouteLength(at[p], dest[p]) \in Nat
        /\ RouteLength(NextRouter(at[p], dest[p]), dest[p]) = RouteLength(at[p], dest[p]) - 1
    <3>1. at[p] \in Nodes /\ dest[p] \in Nodes
      BY <1>1, <2>1 DEF LinkInv, PlaceOK
    <3> QED  BY <2>1, <3>1, HopsCount
  <2>5. /\ at'[p] = NextRouter(at[p], dest[p]) /\ hops'[p] = hops[p] + 1 /\ dest'[p] = dest[p]
        /\ pc'[p] = "hop" /\ hops[p] \in Nat
    BY <1>1, <2>1
  <2>6. Owes'[p] = Owes[p] /\ OwesHops'[p] = OwesHops[p]
    BY <2>1, <2>4, <2>5, OwedBy, OwedByNext DEF Counted
  <2> QED  BY <1>2, <2>1, <2>2, <2>3, <2>6
<1>5. CASE Deliver(p)
  <2>1. /\ UNCHANGED <<dest, at, hops, totals, due>> /\ pc' = [pc EXCEPT ![p] = "count"]
        /\ pc[p] = "deliver" \/ (pc[p] = "hop" /\ at[p] = dest[p])
    BY <1>5 DEF Deliver, Arrived, Go
  <2>2. CountsTyped'
    BY <1>c, <2>1 DEF CountsTyped
  <2>3. \A q \in Senders : q # p => Owes'[q] = Owes[q] /\ OwesHops'[q] = OwesHops[q]
    BY <1>1, <2>1, OthersOwe
  <2>4. pc[p] = "hop" => RouteLength(at[p], dest[p]) = 0
    <3>1. pc[p] = "hop" => at[p] \in Nodes /\ dest[p] \in Nodes /\ at[p] = dest[p]
      BY <1>1, <2>1 DEF LinkInv, PlaceOK
    <3> QED  BY <3>1, HopsCount
  <2>5. pc'[p] = "count" /\ hops'[p] = hops[p] /\ hops[p] \in Nat
    BY <1>1, <2>1
  <2>6. Owes'[p] = Owes[p] /\ OwesHops'[p] = OwesHops[p]
    BY <2>1, <2>4, <2>5, OwedBy, OwedByNext DEF Counted
  <2> QED  BY <1>2, <2>1, <2>2, <2>3, <2>6
<1>6. CASE ReleaseBus(p) \/ ReleasePort(p)
  <2>1. /\ UNCHANGED <<dest, at, hops, totals, due>> /\ pc[p] = "release" /\ pc'[p] = "idle"
        /\ \A q \in Senders : q # p => pc'[q] = pc[q] \/ (pc[q] = "waiting" /\ pc'[q] = "woken")
    BY <1>1, <1>6 DEF ReleaseBus, ReleasePort, Notified, Go
  <2>2. CountsTyped'
    BY <1>c, <2>1 DEF CountsTyped
  <2>3. \A q \in Senders : q # p => Owes'[q] = Owes[q] /\ OwesHops'[q] = OwesHops[q]
    BY <2>1, OthersOwe
  <2>4. Owes'[p] = Owes[p] /\ OwesHops'[p] = OwesHops[p]
    BY <2>1, OwedBy, OwedByNext DEF Counted
  <2> QED  BY <1>2, <2>1, <2>2, <2>3, <2>4
<1> QED  BY <1>3, <1>4, <1>5, <1>6

LEMMA CountCounts ==
  ASSUME LinkInv, LinkInv', CountInv, NEW p \in Senders, CountSend(p)
  PROVE  CountInv'
<1>t. OwedTyped /\ OwedTyped'
  BY OwedType, OwedTypeNext
<1>1. /\ pc \in [Senders -> Places] /\ hops \in [Senders -> Nat]
  BY DEF LinkInv, LinksAreSound, NetworkTypeOK
<1>2. /\ UNCHANGED <<dest, at, hops, due>> /\ pc[p] = "count"
      /\ \E place \in {"idle", "release"} : pc' = [pc EXCEPT ![p] = place]
      /\ totals' = [totals EXCEPT !.messages = totals.messages + 1, !.hops = totals.hops + hops[p]]
  BY DEF CountSend, Go
<1>3. /\ due \in [messages : Int, hops : Int] /\ totals \in [messages : Nat, hops : Nat, conflicts : Nat]
      /\ hops[p] \in Nat
  BY <1>1 DEF CountInv, CountsTyped
<1>4. CountsTyped' /\ totals'.messages = totals.messages + 1 /\ totals'.hops = totals.hops + hops[p]
  <2>1. /\ totals'.messages = totals.messages + 1
        /\ totals'.hops = totals.hops + hops[p]
        /\ totals'.conflicts = totals.conflicts
        /\ DOMAIN totals' = {"messages", "hops", "conflicts"}
    BY <1>2, <1>3
  <2>2. totals.messages + 1 \in Nat /\ totals.hops + hops[p] \in Nat /\ totals.conflicts \in Nat
    BY <1>3
  <2>3. totals' = [messages |-> totals.messages + 1, hops |-> totals.hops + hops[p],
                  conflicts |-> totals.conflicts]
    BY <1>2, <1>3
  <2>4. totals' \in [messages : Nat, hops : Nat, conflicts : Nat]
    BY <2>2, <2>3
  <2> QED  BY <1>2, <1>3, <2>1, <2>4 DEF CountsTyped
<1>5. \A q \in Senders : q # p => Owes'[q] = Owes[q] /\ OwesHops'[q] = OwesHops[q]
  BY <1>1, <1>2, OthersOwe
<1>6. Owes[p] = 1 /\ OwesHops[p] = hops[p] /\ Owes'[p] = 0 /\ OwesHops'[p] = 0
  <2>1. pc'[p] \in {"idle", "release"}
    BY <1>1, <1>2
  <2> QED  BY <1>2, <1>3, <2>1, OwedBy, OwedByNext DEF Counted
<1>7. /\ due'.messages - totals'.messages - Owes'[p] = due.messages - totals.messages - Owes[p]
      /\ due'.hops - totals'.hops - OwesHops'[p] = due.hops - totals.hops - OwesHops[p]
  BY <1>2, <1>3, <1>4, <1>6
<1> QED  BY <1>t, <1>4, <1>5, <1>7, Balance

LEMMA QuietOwesNothing ==
  ASSUME Quiet
  PROVE  SumFunction(Owes) = 0 /\ SumFunction(OwesHops) = 0
<1>1. /\ DOMAIN Owes = Senders /\ DOMAIN OwesHops = Senders
      /\ \A p \in Senders : Owes[p] = 0 /\ OwesHops[p] = 0
  BY DEF Quiet, Owes, OwesHops, Counted
<1> QED  BY <1>1, SendersAreFinite, SumOfZeros DEF SumFunction

LEMMA SumsAreIntegers ==
  ASSUME LinkInv
  PROVE  SumFunction(Owes) \in Int /\ SumFunction(OwesHops) \in Int
<1>1. OwedTyped
  BY OwedType
<1>2. /\ DOMAIN Owes = Senders /\ \A p \in Senders : Owes[p] \in Int
      /\ DOMAIN OwesHops = Senders /\ \A p \in Senders : OwesHops[p] \in Int
  BY <1>1 DEF OwedTyped
<1> QED  BY <1>2, SendersAreFinite, SumType DEF SumFunction

LEMMA AlwaysCounted == NetworkSpec => []CountInv
<1>1. NetworkInit => CountInv
  <2> SUFFICES ASSUME NetworkInit PROVE CountInv
    OBVIOUS
  <2>1. Quiet
    BY DEF NetworkInit, Quiet
  <2>2. SumFunction(Owes) = 0 /\ SumFunction(OwesHops) = 0
    BY <2>1, QuietOwesNothing
  <2> QED  BY <2>2 DEF NetworkInit, NoStats, CountInv, CountsTyped
<1>2. LinkInv /\ LinkInv' /\ CountInv /\ [NetworkNext]_networkVars => CountInv'
  <2> SUFFICES ASSUME LinkInv, LinkInv', CountInv, [NetworkNext]_networkVars PROVE CountInv'
    OBVIOUS
  <2>0. ASSUME UNCHANGED <<pc, dest, at, hops, totals, due>> PROVE CountInv'
    <3>1. Owes' = Owes /\ OwesHops' = OwesHops
      BY <2>0 DEF Owes, OwesHops, Counted, RouteLength
    <3> QED  BY <2>0, <3>1 DEF CountInv, CountsTyped
  <2>1. CASE UNCHANGED networkVars
    BY <2>0, <2>1 DEF networkVars
  <2>2. ASSUME NEW p \in Senders, Continue(p) PROVE CountInv'
    BY <2>2, PassingCounts, CountCounts DEF Continue
  <2>3. ASSUME NEW p \in Senders, SpuriousWake(p) PROVE CountInv'
    BY <2>3, PassingCounts
  <2>4. ASSUME NEW p \in Senders, NEW d \in Dests, Send(p, d) PROVE CountInv'
    BY <2>4, SendCounts
  <2>5. ASSUME NEW d \in Nodes, Receive(d) \/ ReceiveFirst(d) PROVE CountInv'
    BY <2>0, <2>5 DEF Receive, ReceiveFirst, threads
  <2>6. CASE ResetTotals
    <3>1. UNCHANGED <<pc, dest, at, hops>>
      BY <2>6 DEF ResetTotals, threads
    <3>2. Owes' = Owes /\ OwesHops' = OwesHops
      BY <3>1 DEF Owes, OwesHops, Counted, RouteLength
    <3>3. PICK c \in {"messages", "hops", "conflicts"} :
             /\ totals' = [totals EXCEPT ![c] = 0]
             /\ due' = IF c \in DOMAIN due THEN [due EXCEPT ![c] = @ - totals[c]] ELSE due
      BY <2>6 DEF ResetTotals, NoStats
    <3> DEFINE d == due
               n == SumFunction(Owes)
               h == SumFunction(OwesHops)
    <3>4. /\ d \in [messages : Int, hops : Int] /\ DOMAIN d = {"messages", "hops"}
          /\ totals \in [messages : Nat, hops : Nat, conflicts : Nat]
          /\ d.messages = totals.messages + n /\ d.hops = totals.hops + h
      BY DEF CountInv, CountsTyped
    <3>5. n \in Int /\ h \in Int
      BY SumsAreIntegers
    <3> HIDE DEF d, n, h
    <3>6. CASE c = "messages"
      <4>1. /\ totals' = [totals EXCEPT !.messages = 0]
            /\ due' = [d EXCEPT !.messages = d.messages - totals.messages]
        BY <3>3, <3>4, <3>6 DEF d
      <4>2. d.messages - totals.messages = n
        BY <3>4, <3>5
      <4>3. /\ totals' \in [messages : Nat, hops : Nat, conflicts : Nat]
            /\ due' \in [messages : Int, hops : Int]
            /\ totals'.messages = 0 /\ totals'.hops = totals.hops
            /\ due'.messages = n /\ due'.hops = d.hops
        BY <3>4, <3>5, <4>1, <4>2
      <4>4. due'.messages = totals'.messages + n /\ due'.hops = totals'.hops + h
        BY <3>4, <3>5, <4>3
      <4> QED  BY <3>2, <4>3, <4>4 DEF CountInv, CountsTyped, n, h
    <3>7. CASE c = "hops"
      <4>1. /\ totals' = [totals EXCEPT !.hops = 0]
            /\ due' = [d EXCEPT !.hops = d.hops - totals.hops]
        BY <3>3, <3>4, <3>7 DEF d
      <4>2. d.hops - totals.hops = h
        BY <3>4, <3>5
      <4>3. /\ totals' \in [messages : Nat, hops : Nat, conflicts : Nat]
            /\ due' \in [messages : Int, hops : Int]
            /\ totals'.hops = 0 /\ totals'.messages = totals.messages
            /\ due'.hops = h /\ due'.messages = d.messages
        BY <3>4, <3>5, <4>1, <4>2
      <4>4. due'.messages = totals'.messages + n /\ due'.hops = totals'.hops + h
        BY <3>4, <3>5, <4>3
      <4> QED  BY <3>2, <4>3, <4>4 DEF CountInv, CountsTyped, n, h
    <3>8. CASE c = "conflicts"
      <4>1. totals' = [totals EXCEPT !.conflicts = 0] /\ due' = d
        BY <3>3, <3>4, <3>8 DEF d
      <4>2. /\ totals' \in [messages : Nat, hops : Nat, conflicts : Nat]
            /\ totals'.hops = totals.hops /\ totals'.messages = totals.messages
        BY <3>4, <4>1
      <4> QED  BY <3>2, <3>4, <4>1, <4>2 DEF CountInv, CountsTyped, n, h
    <3> QED  BY <3>3, <3>6, <3>7, <3>8
  <2>7. CASE Finished
    BY <2>1, <2>7 DEF Finished
  <2> QED  BY <2>1, <2>2, <2>3, <2>4, <2>5, <2>6, <2>7 DEF NetworkNext
<1> QED  BY <1>1, <1>2, AlwaysLinkInv, PTL DEF NetworkSpec

\* For any number of processors, the counters of every interconnect show each message
\* once, and the hops of a shortest path for each: the formulas of ring and torus and
\* the routes of the mesh agree with the distances in the network.
THEOREM CountersAgree == NetworkSpec => []StatisticsAgree
<1>1. CountInv => StatisticsAgree
  <2> SUFFICES ASSUME CountInv, Quiet PROVE totals.messages = due.messages /\ totals.hops = due.hops
    BY DEF StatisticsAgree
  <2> QED  BY QuietOwesNothing DEF CountInv, CountsTyped
<1> QED  BY <1>1, AlwaysCounted, PTL

=============================================================================

---------------------------- MODULE SimdKernels -----------------------------
(***************************************************************************)
(* The kernels of the SIMD laboratory, each as plain loop and with vectors *)
(* of eight floats: whole vectors first, the elements that are left one by *)
(* one.  Numbers are integers: what is modelled is which elements meet     *)
(* which, not how a float rounds.  All but the pixel kernels are linear in *)
(* each argument, so that vectors with a single 1 tell all about them.     *)
(* Arrays are functions on 0 .. n-1.                                       *)
(***************************************************************************)
EXTENDS Integers, FiniteSetsExt

CONSTANTS
  Lengths,    \* lengths of vectors
  Embed,      \* EMBED_DIM
  Heads,      \* NUM_HEADS
  SeqLen,     \* SEQ_LEN
  Pixels      \* values of a pixel, in 0 .. 255

HeadDim == Embed \div Heads

KernelsAssumption ==
  /\ Lengths \subseteq Nat /\ Pixels \subseteq 0 .. 255
  /\ {Embed, Heads, SeqLen} \subseteq Nat \ {0}
  /\ Embed % 8 = 0 /\ Embed % Heads = 0

VARIABLES
  call,    \* the kernel called last and its arguments
  scalar,  \* what its plain loop computes
  simd     \* what the vectors compute

vars == <<call, scalar, simd>>

Array(n) == 0 .. n - 1
Unit(n, i) == [k \in Array(n) |-> IF k = i THEN 1 ELSE 0]

\* The loop for (i = 0; i <= n - w; i += w), and the loop behind it.
Blocks(n, w) == {i \in Array(n) : i % w = 0 /\ i + w <= n}
Rest(n, w) == w * (n \div w) .. n - 1

\* Two halves are added, then neighbours, twice.
HAdd(v) == [l \in 0 .. 3 |-> v[2 * (l % 2)] + v[2 * (l % 2) + 1]]
HorizontalSum(v) == HAdd(HAdd([l \in 0 .. 3 |-> v[l] + v[l + 4]]))[0]

DotScalar(a, b, n) == MapThenSumSet(LAMBDA k : a[k] * b[k], Array(n))

\* The mutant takes one vector too many for none: it stops before the last one.
RestOfFewer(a, b, n) == MapThenSumSet(LAMBDA k : a[k] * b[k], 8 * (n \div 8) + 1 .. n - 1)
RestOfDot(a, b, n) == MapThenSumSet(LAMBDA k : a[k] * b[k], Rest(n, 8))
DotSimd(a, b, n) ==
  HorizontalSum([l \in 0 .. 7 |-> MapThenSumSet(LAMBDA i : a[i + l] * b[i + l], Blocks(n, 8))])
    + RestOfDot(a, b, n)

\* dot_q8_simd: sixteen weights in a load, then eight, then one.  The scale is a
\* factor of all of them.
DotQ8(w, x, n) ==
  LET eights == {i \in Rest(n, 16) : i % 8 = 0 /\ i + 8 <= n} IN
  HorizontalSum([l \in 0 .. 7 |->
      MapThenSumSet(LAMBDA i : w[i + l] * x[i + l] + w[i + 8 + l] * x[i + 8 + l], Blocks(n, 16))
        + MapThenSumSet(LAMBDA i : w[i + l] * x[i + l], eights)])
    + RestOfDot(w, x, n)

\* simdDotProductLarge: three arrays of components, the lanes stored and added.
DotLarge(v1, v2, n) ==
  LET dot(i) == v1[0][i] * v2[0][i] + v1[1][i] * v2[1][i] + v1[2][i] * v2[2][i] IN
  MapThenSumSet(LAMBDA l : MapThenSumSet(LAMBDA i : dot(i + l), Blocks(n, 8)), 0 .. 7)
    + MapThenSumSet(LAMBDA i : dot(i), Rest(n, 8))
DotOfVectors(v1, v2, n) == MapThenSumSet(LAMBDA c : DotScalar(v1[c], v2[c], n), 0 .. 2)

\* A row of a matrix with k columns; the second factor is given transposed.
Row(m, i, k) == [x \in Array(k) |-> m[i * k + x]]
MatMulScalar(a, bT, m, k, n) ==
  [x \in Array(m * n) |-> DotScalar(Row(a, x \div n, k), Row(bT, x % n, k), k)]
MatMulSimd(a, bT, m, k, n) ==
  [x \in Array(m * n) |-> DotSimd(Row(a, x \div n, k), Row(bT, x % n, k), k)]

\* An element is stored by the vector that covers it, or by the loop behind.
Stored(n, w) == UNION {i .. i + w - 1 : i \in Blocks(n, w)} \cup Rest(n, w)
ResidualAddScalar(a, b, n) == [k \in Array(n) |-> a[k] + b[k]]
ResidualAddSimd(a, b, n) == [k \in Array(n) |-> IF k \in Stored(n, 8) THEN a[k] + b[k] ELSE 0]

\* rmsnorm up to the factor that the sum of squares gives: gamma is loaded from
\* where the vector starts.
NormScalar(x, gamma, n) == <<DotScalar(x, x, n), [k \in Array(n) |-> x[k] * gamma[k % Embed]]>>
NormSimd(x, gamma, n) ==
  <<DotSimd(x, x, n),
    [k \in Array(n) |->
       IF k \in Rest(n, 8) THEN x[k] * gamma[k % Embed]
       ELSE x[k] * gamma[((8 * (k \div 8)) % Embed) + (k % 8)]]>>

ConvolveScalar(input, kernel, n, m) ==
  [i \in Array(n - m + 1) |-> MapThenSumSet(LAMBDA j : input[i + j] * kernel[j], Array(m))]
ConvolveSimd(input, kernel, n, m) ==
  [k \in Array(n - m + 1) |->
     IF k \in Stored(n - m + 1, 8) THEN MapThenSumSet(LAMBDA j : input[k + j] * kernel[j], Array(m)) ELSE 0]

-----------------------------------------------------------------------------
\* The matrices of attention: heads apart and together again.
Transpose(src, rows, cols) == [x \in Array(rows * cols) |-> src[(x % rows) * cols + x \div rows]]
SplitHeads(src) ==
  [x \in Array(SeqLen * Embed) |->
     LET h == x \div (SeqLen * HeadDim)
         s == (x \div HeadDim) % SeqLen
     IN  src[s * Embed + h * HeadDim + (x % HeadDim)]]
CombineHeads(src) ==
  [x \in Array(SeqLen * Embed) |->
     LET h == (x % Embed) \div HeadDim
         s == x \div Embed
     IN  src[(h * SeqLen + s) * HeadDim + (x % HeadDim)]]

\* Both the keys and the values of a head are transposed before the product.
Scores(q, k) == MatMulSimd(q, Transpose(k, SeqLen, HeadDim), SeqLen, HeadDim, SeqLen)
Context(weights, v) == MatMulSimd(weights, Transpose(v, SeqLen, HeadDim), SeqLen, SeqLen, HeadDim)

\* What they should be: each token's weights of the others' values.
Weighted(weights, v) ==
  [x \in Array(SeqLen * HeadDim) |->
     MapThenSumSet(LAMBDA j : weights[(x \div HeadDim) * SeqLen + j] * v[j * HeadDim + (x % HeadDim)],
                   Array(SeqLen))]

-----------------------------------------------------------------------------
\* Pixels.  A byte saturates; 50 is added by the program.
Clamped(v, top) == IF v < 0 THEN 0 ELSE IF v > top THEN top ELSE v
BrightnessScalar(p, b) == Clamped(p + b, 255)
BrightnessSimd(p, b) == Clamped(p + (b % 256), 255)

\* Half a step up to an even number, as the conversion instruction does; a cast cuts off.
RoundedToEven(twice) ==
  IF twice % 2 = 0 THEN twice \div 2
  ELSE IF (twice \div 2) % 2 = 0 THEN twice \div 2 ELSE twice \div 2 + 1

\* Twice (p - 128) * 1.5 + 128.
ContrastTwice(p) == Clamped(3 * (p - 128) + 256, 510)
ContrastScalar(p) == ContrastTwice(p) \div 2
ContrastSimd(p) == RoundedToEven(ContrastTwice(p))

\* Weights of red, green and blue in thousandths.
Gray(r, g, b) == 299 * r + 587 * g + 114 * b
GrayScalar(r, g, b) == Gray(r, g, b) \div 1000
GraySimd(r, g, b) == (Gray(r, g, b) + 500) \div 1000

\* quantize_into: a row is scaled so that its largest weight is 127 and rounded.
Abs(v) == IF v < 0 THEN -v ELSE v
Rounded(a, b) == IF a >= 0 THEN (2 * a + b) \div (2 * b) ELSE -((b - 2 * a) \div (2 * b))
Largest(row) == Max({Abs(row[k]) : k \in DOMAIN row})
Quantized(row) ==
  [k \in DOMAIN row |->
     IF Largest(row) = 0 THEN 0 ELSE Clamped(Rounded(127 * row[k], Largest(row)) + 127, 254) - 127]

-----------------------------------------------------------------------------
Init == call = <<"none">> /\ scalar = 0 /\ simd = 0

Ran(kernel, expected, computed) ==
  /\ call = <<"none">>
  /\ call' = kernel /\ scalar' = expected /\ simd' = computed

RunDot ==
  \E n \in Lengths : \E i, j \in Array(n) :
    LET a == Unit(n, i)
        b == Unit(n, j)
    IN  \/ Ran(<<"dot", n, i, j>>, DotScalar(a, b, n), DotSimd(a, b, n))
        \/ Ran(<<"q8", n, i, j>>, DotScalar(a, b, n), DotQ8(a, b, n))
        \/ Ran(<<"add", n, i, j>>, ResidualAddScalar(a, b, n), ResidualAddSimd(a, b, n))

RunVectors ==
  \E n \in Lengths : \E i, j \in Array(n) : \E c, d \in 0 .. 2 :
    LET v1 == [e \in 0 .. 2 |-> IF e = c THEN Unit(n, i) ELSE [k \in Array(n) |-> 0]]
        v2 == [e \in 0 .. 2 |-> IF e = d THEN Unit(n, j) ELSE [k \in Array(n) |-> 0]]
    IN  /\ i - j \in -1 .. 1
        /\ Ran(<<"vectors", n, i, j, c, d>>, DotOfVectors(v1, v2, n), DotLarge(v1, v2, n))

RunNorm ==
  \E n \in Lengths : \E i \in Array(n) : \E g \in Array(Embed) :
    Ran(<<"norm", n, i, g>>, NormScalar(Unit(n, i), Unit(Embed, g), n), NormSimd(Unit(n, i), Unit(Embed, g), n))

RunConvolve ==
  \E n \in Lengths, m \in 1 .. 3 : \E i \in Array(n), j \in Array(m) :
    /\ m <= n
    /\ Ran(<<"convolve", n, m, i, j>>, ConvolveScalar(Unit(n, i), Unit(m, j), n, m),
           ConvolveSimd(Unit(n, i), Unit(m, j), n, m))

RunAttention ==
  \/ \E i \in Array(SeqLen * Embed) :
       LET x == Unit(SeqLen * Embed, i) IN
       Ran(<<"heads", i>>, x, CombineHeads(SplitHeads(x)))
  \/ \E i \in Array(SeqLen * SeqLen), j \in Array(SeqLen * HeadDim) :
       LET w == Unit(SeqLen * SeqLen, i)
           v == Unit(SeqLen * HeadDim, j)
       IN  Ran(<<"context", i, j>>, Weighted(w, v), Context(w, v))
  \/ \E i, j \in Array(SeqLen * HeadDim) :
       LET q == Unit(SeqLen * HeadDim, i)
           k == Unit(SeqLen * HeadDim, j)
       IN  Ran(<<"scores", i, j>>, MatMulScalar(q, Transpose(k, SeqLen, HeadDim), SeqLen, HeadDim, SeqLen), Scores(q, k))

RunPixels ==
  \/ \E p \in Pixels, b \in {0, 50, 255} :
       Ran(<<"brightness", p, b>>, BrightnessScalar(p, b), BrightnessSimd(p, b))
  \/ \E p \in Pixels : Ran(<<"contrast", p>>, ContrastScalar(p), ContrastSimd(p))
  \/ \E r, g, b \in Pixels : Ran(<<"gray", r, g, b>>, GrayScalar(r, g, b), GraySimd(r, g, b))

RunQuantize ==
  \E row \in [0 .. 2 -> -4 .. 4] : Ran(<<"quantize", row>>, row, Quantized(row))

Return == call # <<"none">> /\ call' = <<"none">> /\ scalar' = 0 /\ simd' = 0

Next ==
  \/ RunDot \/ RunVectors \/ RunNorm \/ RunConvolve \/ RunAttention \/ RunPixels \/ RunQuantize
  \/ Return

Spec == Init /\ [][Next]_vars

-----------------------------------------------------------------------------
\* For every length, whole vectors or not, the vectors compute what the plain loop
\* computes; a pixel may differ by one, for the conversion rounds where the cast cuts
\* off; a quantized weight is at most half a step away.
VectorsAgree ==
  CASE call[1] \in {"contrast", "gray"} -> Abs(scalar - simd) <= 1
    [] call[1] = "quantize" ->
         \A k \in DOMAIN simd :
           /\ Abs(simd[k]) <= 127
           /\ 2 * Abs(simd[k] * Largest(scalar) - 127 * scalar[k]) <= Largest(scalar)
    [] OTHER -> scalar = simd
=============================================================================

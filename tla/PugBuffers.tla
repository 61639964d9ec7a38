----------------------------- MODULE PugBuffers -----------------------------
(***************************************************************************)
(* The buffers of the GPGPU demonstrations of Lab 7 and what is computed   *)
(* in them: the reductions of an array, in passes that read one image of a *)
(* double buffer and draw the other, and a simulation that does the same   *)
(* once a frame.  A pixel of an array holds the set of the elements that   *)
(* were combined in it: what is modelled is which elements meet, whatever  *)
(* associative and commutative operation combines them.                    *)
(***************************************************************************)
EXTENDS Integers, FiniteSetsExt

CONSTANTS
  Shapes,     \* <<rows, columns>> of the arrays
  MaxCalls,   \* bound of the model: reductions of one array
  MaxAge      \* bound of the model: steps of the simulation

PugAssumption == Shapes \subseteq (Nat \ {0}) \X (Nat \ {0}) /\ {MaxCalls, MaxAge} \subseteq Nat

VARIABLES
  demo,         \* "reductions" or "reactiondiffusion"
  shape,        \* of the array
  buffer,       \* the double buffer
  reduction,    \* the one that runs, or the last one
  calls,        \* how many have been started
  source,       \* g_currentSource
  age           \* ghost: steps of the simulation since it was reset

vars == <<demo, shape, buffer, reduction, calls, source, age>>

Other(t) == IF t = "BACK" THEN "FRONT" ELSE "BACK"

-----------------------------------------------------------------------------
\* A double buffer has two images and a texture, which shows one of them or what was
\* put into itself.  bound is what the code remembers of it; current tells whether
\* what is drawn goes to this buffer, and not to the window.
NewBuffer(old) ==
  [image |-> [t \in {"FRONT", "BACK", "OWN"} |-> old], shows |-> "OWN", bound |-> {},
   currentDrawBuffer |-> "FRONT", current |-> TRUE]

pugBindTexture(b, t) ==
  IF t \in b.bound THEN b ELSE [b EXCEPT !.bound = @ \cup {t}, !.shows = t]
pugReleaseBuffer(b, t) ==
  [b EXCEPT !.bound = @ \ {t}, !.shows = IF @ = t THEN "OWN" ELSE @]
pugActivateBuffer(b, t) ==
  [(IF t \in b.bound THEN pugReleaseBuffer(b, t) ELSE b) EXCEPT !.current = TRUE]
pugMakeWindowCurrent(b) == [b EXCEPT !.current = FALSE]

Sampled(b) == b.image[b.shows]

\* What pugRunProgram leaves in a buffer that has been activated.
pugRunProgram(b, t, picture) ==
  [b EXCEPT !.image[t] = IF b.current THEN picture ELSE @, !.currentDrawBuffer = t]

-----------------------------------------------------------------------------
Rows == shape[1]
Columns == shape[2]
Rectangle(x0, x1, y0, y1) == (x0 .. x1 - 1) \X (y0 .. y1 - 1)
WholeBuffer == Rectangle(0, Columns, 0, Rows)
inbuf == [p \in WholeBuffer |-> {p}]

\* An element that was never there, or twice.
Wrong == {<<-1, -1>>}
Op(x, y) == IF x \cap y = {} THEN x \cup y ELSE Wrong
Value(src, x, y) == IF <<x, y>> \in DOMAIN src THEN src[<<x, y>>] ELSE Wrong

\* The fragment programs: the sources of the pixel p.
reduce_2samples(src, p, dx, dy) == Op(Value(src, p[1], p[2]), Value(src, p[1] + dx, p[2] + dy))
reduce_4samples(src, p, dx, dy) ==
  Op(reduce_2samples(src, p, dx, 0), reduce_2samples(src, <<p[1], p[2] + dy>>, dx, 0))

\* The largest power of two that is not greater.
FloorPow2(n) == Max({k \in {1, 2, 4, 8, 16, 32} : k <= n})
IsPowerOfTwo(n) == FloorPow2(n) = n

NoReduction ==
  [dim |-> "none", whole |-> FALSE, running |-> FALSE, m |-> 0, n |-> 0, pass |-> 0,
   srcbuf |-> "inbuf", source |-> "FRONT"]

\* pugReduce1D, and pugReduce2D up to its loop.  m is what is left of the columns and n of
\* the rows, or the halves of both.
Start(dim, whole, m, n, from) ==
  [dim |-> dim, whole |-> whole, running |-> TRUE, m |-> m, n |-> n, pass |-> 0, srcbuf |-> from,
   source |-> IF from = "dblbuf" THEN buffer.currentDrawBuffer ELSE "FRONT"]

pugReduce1D(dim) == reduction' = Start(dim, FALSE, Columns, Rows, "inbuf")
pugReduce2D ==
  reduction' = IF IsPowerOfTwo(Rows) /\ IsPowerOfTwo(Columns)
                 THEN Start("XY", TRUE, Columns \div 2, Rows \div 2, "inbuf")
                 ELSE Start("X", TRUE, Columns, Rows, "inbuf")

Call ==
  /\ ~reduction.running /\ calls < MaxCalls
  /\ calls' = calls + 1
  /\ pugReduce1D("X") \/ pugReduce1D("Y") \/ pugReduce2D
  /\ UNCHANGED <<demo, shape, buffer, source, age>>

\* The source of a pass as the texture shows it when the target has been activated, and
\* the buffer after that.
Bound == IF reduction.srcbuf = "dblbuf" THEN pugBindTexture(buffer, reduction.source) ELSE buffer
Active == pugActivateBuffer(Bound, Other(reduction.source))
Src == IF reduction.srcbuf = "dblbuf" THEN Sampled(Active) ELSE inbuf

Draw(picture) ==
  /\ buffer' = pugRunProgram(Active, Other(reduction.source), picture)
  /\ UNCHANGED <<demo, shape, calls, source, age>>
Pass(m, n) ==
  reduction' = [reduction EXCEPT !.m = m, !.n = n, !.pass = @ + 1, !.srcbuf = "dblbuf",
                                 !.source = Other(@)]

\* A pass along a row or a column of length: what goes beyond a power of two is copied,
\* by the first two passes only, and the halves of the rest are combined.
Length == IF reduction.dim = "Y" THEN reduction.n ELSE reduction.m
np2 == Length - FloorPow2(Length)
p2m == np2 + FloorPow2(Length) \div 2
CopiesRestOnce == reduction.pass < 1
CopiesRest == reduction.pass < 2
Across(from, to) ==
  IF reduction.dim = "Y" THEN Rectangle(0, reduction.m, from, to) ELSE Rectangle(from, to, 0, reduction.n)

Pass1D ==
  /\ reduction.running /\ reduction.dim # "XY" /\ Length > 1
  /\ Draw([p \in WholeBuffer |->
       IF p \in Across(np2, p2m)
         THEN IF reduction.dim = "Y" THEN reduce_2samples(Src, p, 0, p2m - np2)
                                     ELSE reduce_2samples(Src, p, p2m - np2, 0)
       ELSE IF CopiesRest /\ p \in Across(0, np2) THEN Src[p]
       ELSE Active.image[Other(reduction.source)][p]])
  /\ IF reduction.dim = "Y" THEN Pass(reduction.m, p2m) ELSE Pass(p2m, reduction.n)

\* Four quarters, or two halves of the row or the column that is left.
Pass2D ==
  /\ reduction.running /\ reduction.dim = "XY" /\ (reduction.m > 0 \/ reduction.n > 0)
  /\ LET m == reduction.m
         n == reduction.n
     IN  /\ Draw([p \in WholeBuffer |->
              IF p \notin Rectangle(0, Max({m, 1}), 0, Max({n, 1}))
                THEN Active.image[Other(reduction.source)][p]
              ELSE IF m > 0 /\ n > 0 THEN reduce_4samples(Src, p, m, n)
              ELSE reduce_2samples(Src, p, m, n)])
         /\ Pass(m \div 2, n \div 2)

\* The loop is over.  An array that is no square of powers of two is reduced to a column
\* first and then, in the same buffer, to one pixel.
Return ==
  /\ reduction.running
  /\ IF reduction.dim = "XY" THEN reduction.m = 0 /\ reduction.n = 0 ELSE Length <= 1
  /\ reduction' = IF reduction.dim = "X" /\ reduction.whole
                    THEN Start("Y", TRUE, 1, reduction.n, reduction.srcbuf)
                    ELSE [reduction EXCEPT !.running = FALSE]
  /\ UNCHANGED <<demo, shape, buffer, calls, source, age>>

-----------------------------------------------------------------------------
\* The simulation.  A picture is the number of steps that it took.  Redefining the texture
\* may release the image it shows, or write into that.
reset(b) ==
  LET bound == pugBindTexture(b, source) IN
  {[bound EXCEPT !.image["OWN"] = 0, !.shows = "OWN"], [bound EXCEPT !.image[bound.shows] = 0]}

reset_rd ==
  /\ demo = "reactiondiffusion" /\ age > 0
  /\ buffer' \in reset(buffer) /\ age' = 0
  /\ UNCHANGED <<demo, shape, reduction, calls, source>>

update_rd ==
  LET active == pugActivateBuffer(pugBindTexture(buffer, source), Other(source)) IN
  pugRunProgram(active, Other(source), Sampled(active) + 1)
display ==
  /\ demo = "reactiondiffusion" /\ age < MaxAge
  /\ buffer' = pugBindTexture(pugMakeWindowCurrent(update_rd), Other(source))
  /\ source' = Other(source) /\ age' = age + 1
  /\ UNCHANGED <<demo, shape, reduction, calls>>

-----------------------------------------------------------------------------
Init ==
  /\ demo \in {"reductions", "reactiondiffusion"}
  /\ shape \in IF demo = "reductions" THEN Shapes ELSE {<<1, 1>>}
  /\ source = "FRONT"
  /\ IF demo = "reductions" THEN buffer = NewBuffer([p \in WholeBuffer |-> Wrong])
     ELSE \E b \in reset(NewBuffer(-1)) : buffer = pugMakeWindowCurrent(b)
  /\ reduction = NoReduction /\ calls = 0 /\ age = 0

\* The program reduces no more.
Over ==
  demo = "reductions" /\ ~reduction.running /\ calls = MaxCalls /\ UNCHANGED vars

Next == Call \/ Pass1D \/ Pass2D \/ Return \/ reset_rd \/ display

Spec == Init /\ [][Next \/ Over]_vars

-----------------------------------------------------------------------------
\* A reduction leaves in the first pixel of a row, of a column or of all what it returns,
\* every element of them once, whatever the sizes and whatever was in the buffer before,
\* though only the first two passes copy what they do not combine.
Result == IF reduction.srcbuf = "inbuf" THEN inbuf ELSE buffer.image[buffer.currentDrawBuffer]
ReducedExactly ==
  ~reduction.running =>
    CASE reduction.whole     -> Result[<<0, 0>>] = WholeBuffer
      [] reduction.dim = "X" -> \A y \in 0 .. Rows - 1 : Result[<<0, y>>] = Rectangle(0, Columns, y, y + 1)
      [] reduction.dim = "Y" -> \A x \in 0 .. Columns - 1 : Result[<<x, 0>>] = Rectangle(x, x + 1, 0, Rows)
      [] OTHER               -> calls = 0

\* The texture that is shown, and that the next step reads, is always the youngest picture.
ShowsTheYoungest == demo = "reactiondiffusion" => Sampled(buffer) = age
=============================================================================

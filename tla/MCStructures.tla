---------------------------- MODULE MCStructures ----------------------------
(***************************************************************************)
(* The structures of a cache, and beside them the exercises that compute   *)
(* with workers, vectors, threads and pixels, each on its own: a behaviour *)
(* is one of the part named by part, the others rest in a fixed initial    *)
(* state.  The sizes are small and awkward: four ways are two levels of a  *)
(* PLRU tree; the victim cache is smaller than its addresses; two of the   *)
(* combined addresses are too many; 5, 6 and 3 are no powers of two, so    *)
(* that doubling a distance has to be cut off.                             *)
(***************************************************************************)
EXTENDS Structures

CONSTANTS
  Workers, Procs, Threshold,       \* longer inputs than there are processors
  Lengths, Embed, Heads, SeqLen, Pixels, \* no vector, whole ones, and a rest
  MaxCalls, MaxAge,                \* a reduction of what another one left in the buffer
  Repeats, Attempts, Count, Size, BlockSize, Random \* two blocks, the second nearly empty

VARIABLES
  program, data, other, round, jobs, running, results, private, table, answer,
  call, scalar, simd,
  demo, shape, images, reduction, calls, source, age,
  exercise, script, pc, register, memory, locked

\* Short sequences, and two that are sorted in parallel and have a rest.
SomeInputs == UNION {[1..n -> 1..2] : n \in 1..3} \cup {<<3, 1, 2, 2, 3>>, <<5, 4, 4, 2, 1>>}
Squared == [x \in 0..9 |-> x * x + 1]

Parallel == INSTANCE Skeletons WITH Inputs <- SomeInputs, Operation <- Squared
Kernels == INSTANCE SimdKernels

\* Rows and columns of all lengths up to thirteen, small arrays, and powers of two.
SomeShapes ==
  {s \in (1..13) \X (1..13) : s[1] = 1 \/ s[2] = 1 \/ s[1] + s[2] <= 7}
    \cup {<<4, 8>>, <<2, 7>>}

Buffers == INSTANCE PugBuffers WITH Shapes <- SomeShapes, buffer <- images
Threads == INSTANCE ThreadPrograms WITH
  Elements <- << <<1, 2>>, <<3, 3>> >>, Arrays <- {<<5, 4, 3, 2, 1>>, <<1, 3, 2, 3, 0>>}

ASSUME ExercisesAssumption ==
  /\ Parallel!SkeletonAssumption /\ Kernels!KernelsAssumption
  /\ Buffers!PugAssumption /\ Threads!ThreadsAssumption

skeletons == <<program, data, other, round, jobs, running, results, private, table, answer>>
kernels == <<call, scalar, simd>>
buffers == <<demo, shape, images, reduction, calls, source, age>>
threads == <<exercise, script, pc, register, memory, locked>>

Parts == {"set", "victims", "writes", "combining", "prefetcher", "manager", "profiling",
          "skeletons", "kernels", "buffers", "threads"}

Init ==
  /\ part \in Parts
  /\ StructuresInit /\ (part # "set" => policy = "LRU")
  /\ part # "writes" => rules = [update |-> "WriteBack", allocate |-> TRUE, nextLevel |-> TRUE]
  /\ part # "prefetcher" => strategy = "Adaptive"
  /\ part # "profiling" => trace = <<>>
  /\ Threads!Init /\ (part # "threads" => exercise = "thread_3")
  /\ Parallel!Init /\ (part # "skeletons" => program = "scan" /\ data = <<1>>)
  /\ Kernels!Init
  /\ Buffers!Init /\ (part # "buffers" => demo = "reductions" /\ shape = <<1, 1>>)

Next ==
  /\ StructuresNext
  /\ IF part = "skeletons"
     THEN Parallel!Next \/ (Parallel!Ended /\ UNCHANGED skeletons)
     ELSE UNCHANGED skeletons
  /\ IF part = "kernels" THEN Kernels!Next ELSE UNCHANGED kernels
  /\ IF part = "buffers" THEN Buffers!Next \/ Buffers!Over ELSE UNCHANGED buffers
  /\ IF part = "threads" THEN Threads!Next \/ Threads!Over ELSE UNCHANGED threads

Spec == Init /\ [][Next]_<<structures, skeletons, kernels, buffers, threads>>

\* The skeletons: the workers compute what one process computes.
SkeletonsAgree == Promised("skeletons", Parallel!ParallelIsSequential)

\* The kernels: the vectors compute what a plain loop computes.
KernelsAgree == Promised("kernels", Kernels!VectorsAgree)

\* The image buffers: a reduction is exact, and the image that is shown is the youngest.
BuffersAgree == Promised("buffers", Buffers!ReducedExactly /\ Buffers!ShowsTheYoungest)

\* The thread exercises end with what one thread would have computed, except where the
\* program races; there it is known what it may leave.
ThreadsAgree == Promised("threads", Threads!ThreadsAgree)
=============================================================================

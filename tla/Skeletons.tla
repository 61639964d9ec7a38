----------------------------- MODULE Skeletons ------------------------------
(***************************************************************************)
(* The parallel skeletons of Lab 5 (map, reduce, scan, merge sort,         *)
(* wavefront) over a pool of processes, and the parallel loop of Lab 6     *)
(* over a team of threads.  A program hands a round of jobs to its         *)
(* workers, which take them in order and finish in any order; when all are *)
(* done it collects the results and goes on to the next round.             *)
(***************************************************************************)
EXTENDS Integers, SequencesExt, FiniteSetsExt

CONSTANTS
  Workers,     \* the processes of the pool, the threads of the team
  Inputs,      \* sequences of numbers, none of them empty
  Procs,       \* cpu_count()
  Threshold,   \* below it nothing is sorted in parallel
  Operation    \* complex_operation and heavy_worker: a function on the numbers

SkeletonAssumption ==
  /\ {Procs, Threshold} \subseteq Nat \ {0} /\ IsFiniteSet(Workers) /\ Workers # {}
  /\ <<>> \notin Inputs

VARIABLES
  program, data, other,  \* what runs, and its input; the wavefront has two
  round,                 \* of jobs: the diagonal of the wavefront, else 1
  jobs,                  \* of the round, in the order they were submitted
  running,               \* the jobs each worker is at, at most one
  results,               \* of the jobs that are done
  private,               \* reduction(+:count): the count of each thread
  table,                 \* dp
  answer                 \* what the program returns, a sequence once it is there

vars == <<program, data, other, round, jobs, running, results, private, table, answer>>

Total(s) == FoldLeft(LAMBDA x, y : x + y, 0, s)
Operated(s) == [i \in DOMAIN s |-> Operation[s[i]]]

\* The code in one process.
SequentialScan(s) == [i \in DOMAIN s |-> Total(SubSeq(s, 1, i))]

\* What is merged once i numbers on the left and j on the right have been taken.
Merge(left, right) ==
  LET from[i \in 0 .. Len(left), j \in 0 .. Len(right)] ==
        IF i = Len(left) THEN SubSeq(right, j + 1, Len(right))
        ELSE IF j = Len(right) THEN SubSeq(left, i + 1, Len(left))
        ELSE IF left[i + 1] <= right[j + 1] THEN <<left[i + 1]>> \o from[i + 1, j]
        ELSE <<right[j + 1]>> \o from[i, j + 1]
  IN  from[0, 0]

LeftHalf(s) == SubSeq(s, 1, Len(s) \div 2)
RightHalf(s) == SubSeq(s, Len(s) \div 2 + 1, Len(s))

\* sorted[i, j] is what is behind i up to j in order: both halves are sorted and merged.
SequentialMergeSort(s) ==
  LET sorted[i \in 0 .. Len(s), j \in 0 .. Len(s)] ==
        LET middle == i + (j - i) \div 2 IN
        IF j - i <= 1 THEN SubSeq(s, i + 1, j) ELSE Merge(sorted[i, middle], sorted[middle, j])
  IN  sorted[0, Len(s)]

\* sequential_lcs_heavy: the longest run that ends at i in one and at j in the other.
Run(s, t) ==
  LET dp[i \in 0 .. Len(s), j \in 0 .. Len(t)] ==
        IF i = 0 \/ j = 0 THEN 0 ELSE IF s[i] = t[j] THEN dp[i - 1, j - 1] + 1 ELSE 0
  IN  dp
SequentialLcs(s, t) == Max({0} \cup {Run(s, t)[i, j] : i \in 1 .. Len(s), j \in 1 .. Len(t)})

IsPrime(n) == n >= 2 /\ \A i \in 2 .. n - 1 : i * i <= n => n % i # 0

\* parallel_scan_sim: a step reads the copy made before it.  The mutant makes no copy.
ScanInPlace(s, step) ==
  LET now[i \in DOMAIN s] == IF i > step THEN s[i] + now[i - step] ELSE s[i] IN now
ScanStep(s, step) == [i \in DOMAIN s |-> IF i > step THEN s[i] + s[i - step] ELSE s[i]]
ParallelScan(s) == FoldLeft(ScanStep, s, SelectSeq(<<1, 2, 4, 8>>, LAMBDA step : step < Len(s)))

Expected ==
  CASE program = "map"       -> Operated(data)
    [] program = "reduce"    -> <<Total(Operated(data))>>
    [] program = "scan"      -> SequentialScan(data)
    [] program = "sort"      -> SequentialMergeSort(data)
    [] program = "wavefront" -> <<SequentialLcs(data, other)>>
    [] program = "loop"      -> <<Cardinality({i \in DOMAIN data : IsPrime(data[i])})>>

-----------------------------------------------------------------------------
\* The slices of parallel_reduce: one more than there are processors if a rest is left.
ChunkSize == Len(data) \div Procs
Chunks ==
  [c \in 1 .. (Len(data) + ChunkSize - 1) \div ChunkSize |->
     SubSeq(data, (c - 1) * ChunkSize + 1, Min({c * ChunkSize, Len(data)}))]

\* The cells of a diagonal from top to bottom; a job knows the value before it.
Diagonal(k) == {i \in 1 .. Len(data) : k - i \in 1 .. Len(other)}
Cell(k, n) == Min(Diagonal(k)) + n - 1
DiagonalJobs(k) ==
  [n \in 1 .. Cardinality(Diagonal(k)) |->
     LET i == Cell(k, n) IN <<data[i], other[k - i], table[i - 1, k - i - 1]>>]

JobsOf(k) ==
  CASE program \in {"map", "loop"} -> data
    [] program = "reduce"          -> Chunks
    [] program = "sort"            -> <<LeftHalf(data), RightHalf(data)>>
    [] program = "wavefront"       -> DiagonalJobs(k)

Result(job) ==
  CASE program = "map"       -> Operation[job]
    [] program = "reduce"    -> Total(Operated(job))
    [] program = "sort"      -> SequentialMergeSort(job)
    [] program = "wavefront" -> IF job[1] = job[2] THEN job[3] + 1 ELSE 0
    [] program = "loop"      -> IF IsPrime(job) THEN 1 ELSE 0

Programs == {"map", "reduce", "scan", "sort", "wavefront", "loop"}

Init ==
  /\ program \in Programs /\ data \in Inputs
  /\ other \in IF program = "wavefront" THEN Inputs ELSE {<<>>}
  /\ round = 1 /\ jobs = <<>> /\ answer = <<>>
  /\ running = [w \in Workers |-> {}] /\ results = <<>>
  /\ private = [w \in Workers |-> 0]
  /\ table = [c \in (0 .. Len(data)) \X (0 .. Len(other)) |-> 0]

\* Without the pool: the scan is simulated, and short data are sorted at once.
\* A reduction of fewer numbers than processors has slices of length 0, which
\* range() refuses.
Alone == program = "scan" \/ (program = "sort" /\ Len(data) < Threshold)
Refused == program = "reduce" /\ ChunkSize = 0

ComputeAlone ==
  /\ Alone /\ answer = <<>>
  /\ answer' = <<IF program = "scan" THEN ParallelScan(data) ELSE SequentialMergeSort(data)>>
  /\ UNCHANGED <<program, data, other, round, jobs, running, results, private, table>>

\* The next diagonal, or the only round.
Rounds == IF program = "wavefront" THEN 2 .. Len(data) + Len(other) ELSE {2}

Submit ==
  /\ ~Alone /\ ~Refused /\ answer = <<>> /\ jobs = <<>>
  /\ round + 1 \in Rounds
  /\ round' = round + 1
  /\ jobs' = JobsOf(round + 1)
  /\ UNCHANGED <<program, data, other, running, results, private, table, answer>>

\* The first job nobody has begun.
Begun == DOMAIN results \cup UNION {running[w] : w \in Workers}
Take(w) ==
  /\ running[w] = {} /\ DOMAIN jobs \ Begun # {}
  /\ running' = [running EXCEPT ![w] = {Min(DOMAIN jobs \ Begun)}]
  /\ UNCHANGED <<program, data, other, round, jobs, results, private, table, answer>>

\* The result goes where its job was.
Finish(w) ==
  /\ \E n \in running[w] :
       /\ results' = [m \in DOMAIN results \cup {n} |->
                        IF m = n THEN Result(jobs[n]) ELSE results[m]]
       /\ private' = IF program = "loop" THEN [private EXCEPT ![w] = @ + Result(jobs[n])] ELSE private
  /\ running' = [running EXCEPT ![w] = {}]
  /\ UNCHANGED <<program, data, other, round, jobs, table, answer>>

\* All results are there: pool.map returns, both futures have a result, the loop ends.
AllDone == jobs # <<>> /\ DOMAIN results = DOMAIN jobs /\ \A w \in Workers : running[w] = {}
Filled ==
  [c \in DOMAIN table |->
     IF program = "wavefront" /\ c[1] \in Diagonal(round) /\ c[1] + c[2] = round
     THEN results[c[1] - Min(Diagonal(round)) + 1] ELSE table[c]]

Combined ==
  CASE program = "map"    -> results
    [] program = "reduce" -> <<Total(results)>>
    [] program = "sort"   -> Merge(results[1], results[2])
    [] program = "loop"   -> <<MapThenSumSet(LAMBDA w : private[w], Workers)>>
    [] OTHER              -> <<Max({Filled[c] : c \in DOMAIN table})>>

Collect ==
  /\ AllDone
  /\ table' = Filled
  /\ answer' = IF round + 1 \in Rounds THEN <<>> ELSE <<Combined>>
  /\ jobs' = <<>> /\ results' = <<>>
  /\ UNCHANGED <<program, data, other, round, running, private>>

Next ==
  \/ ComputeAlone \/ Submit \/ Collect
  \/ \E w \in Workers : Take(w) \/ Finish(w)

\* The program has returned, or was stopped by an exception.
Ended == answer # <<>> \/ Refused

Spec == Init /\ [][Next]_vars

-----------------------------------------------------------------------------
\* Whatever the order in which the workers finish, the answer is that of one process,
\* and a diagonal of the wavefront is filled before the next one reads it.
ParallelIsSequential ==
  /\ answer # <<>> => answer = <<Expected>>
  /\ program = "wavefront" /\ jobs = <<>> =>
       \A c \in DOMAIN table :
         c[1] # 0 /\ c[2] # 0 /\ c[1] + c[2] <= round => table[c] = Run(data, other)[c[1], c[2]]
=============================================================================

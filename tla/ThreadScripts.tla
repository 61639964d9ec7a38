--------------------------- MODULE ThreadScripts ----------------------------
(***************************************************************************)
(* The threads of Lab 2 and the kernels of Lab 8, as the accesses to what  *)
(* they share and the calls that may block, in order; of what a thread     *)
(* computes alone only the result is kept.  A program is its threads, of   *)
(* which the first is main, and its memory.  A cell is <<name, index>>.    *)
(***************************************************************************)
EXTENDS Integers, SequencesExt

CONSTANTS
  Repeats,     \* 1000000 increments
  Attempts,    \* 10 attempts of the livelock
  Count,       \* NUM_THREADS, and about half of NUM_NUMBERS, which two threads do not share evenly
  Elements,    \* those of the matrices that are computed: the threads of two share nothing
  Size,        \* of the arrays
  BlockSize    \* threads of a block, a power of two

\* An increment loads, adds and stores; anybody may come in between.
Load(c) == <<"sum", {c}, 0>>
Increment(c, v) == << <<"sum", {c}, v>>, <<"put", c>> >>
Guarded(m, calls) == << <<"lock", m>> >> \o calls \o << <<"unlock", m>> >>
Times(n, calls) == FlattenSeq([i \in 1 .. n |-> calls])
Started(n) == 2 .. n + 1
CreateAndJoin(n) ==
  [t \in 1 .. n |-> <<"create", {t + 1}>>] \o [t \in 1 .. n |-> <<"join", {t + 1}>>]
Launch(ts) == << <<"create", ts>>, <<"join", ts>> >>
Cells(name, indices, v) == [c \in {name} \X indices |-> v]
Counter == <<"counter", 0>>

-----------------------------------------------------------------------------
\* thread_3, thread_4 and thread_7: a counter that two threads increment.
Counting(calls) ==
  [threads |-> << CreateAndJoin(2), Times(Repeats, calls), Times(Repeats, calls) >>,
   memory  |-> Cells("counter", {0}, 0)]
Race == Counting(Increment(Counter, 1))
WithMutex == Counting(Guarded("lock", Increment(Counter, 1)))
Atomically == Counting(<< <<"fetchAdd", Counter, 1>> >>)

\* thread_5, and the end of Q3: two locks in both orders.
Both(m, n) == Guarded(m, Guarded(n, <<>>))
CrossedLocks ==
  [threads |-> << CreateAndJoin(2), Both("lock1", "lock2"), Both("lock2", "lock1") >>,
   memory  |-> Cells("counter", {0}, 0)]

\* thread_6: four threads, of which a semaphore lets in two.
Inside == << <<"wait", <<"sem", 0>> >>, <<"fetchAdd", <<"sem", 0>>, 1>> >>
WithSemaphore ==
  [threads |-> <<CreateAndJoin(4)>> \o [t \in 1 .. 4 |-> Inside], memory |-> Cells("sem", {0}, 2)]

-----------------------------------------------------------------------------
\* Q1 and Q2: a thread, or two, for each element of a product of matrices.
A == << <<1, 2, 3>>, <<4, 5, 6>>, <<7, 8, 9>> >>
B == << <<9, 8, 7>>, <<6, 5, 4>>, <<3, 2, 1>> >>
Partial(e, from, to) ==
  FoldLeft(+, 0, [i \in 1 .. to - from |-> A[e[1]][from + i] * B[from + i][e[2]]])
Element(k) == <<"C", k>>
MatrixByElement ==
  [threads |-> <<CreateAndJoin(Len(Elements))>>
                 \o [k \in DOMAIN Elements |->
                       << <<"set", Element(k), Partial(Elements[k], 0, 3)>> >>],
   memory  |-> Cells("C", DOMAIN Elements, 0)]

\* work_per_thread is 3 \div 2; the last thread takes the rest.
PerThread == 3 \div 2
Share(e, t) == Partial(e, t * PerThread, IF t = 1 THEN 3 ELSE (t + 1) * PerThread)
MatrixByShares ==
  [threads |-> <<CreateAndJoin(2 * Len(Elements))>>
                 \o [i \in 1 .. 2 * Len(Elements) |->
                       LET k == (i + 1) \div 2 IN
                       Guarded(<<"mutex", k>>, Increment(Element(k), Share(Elements[k], (i + 1) % 2)))],
   memory  |-> Cells("C", DOMAIN Elements, 0)]

\* Q3: who does not get the second lock gives the first one back and tries again, until
\* too many have failed.  Then two threads cross their locks, and main returns.  The
\* mutant goes on without the second lock.
RetryNot(m, n) ==
  << <<"while", <<"attempts", 0>>, Attempts, 11>>, <<"lock", m>>, <<"tryLock", n, 4>>,
     <<"unlock", n>>, <<"unlock", m>>, <<"goto", 11>> >>
Retry(m, n) ==
  << <<"while", <<"attempts", 0>>, Attempts, 11>>, <<"lock", m>>, <<"tryLock", n, 7>>,
     <<"unlock", n>>, <<"unlock", m>>, <<"goto", 11>>,
     <<"unlock", m>> >> \o Increment(<<"attempts", 0>>, 1) \o << <<"goto", 1>> >>
Livelock ==
  [threads |-> << CreateAndJoin(2) \o << <<"create", {4}>>, <<"create", {5}>> >>,
                  Retry("res1", "res2"), Retry("res2", "res1"),
                  Both("mtx1", "mtx2"), Both("mtx2", "mtx1") >>,
   memory  |-> Cells("attempts", {0}, 0)]

\* Q4: threads that are given the address of the loop's variable, and then of a value
\* of their own; thread_2 is the second half.
Printing(cell) == << Load(cell) >>
LoopVariable ==
  [threads |-> << FlattenSeq([i \in 1 .. Count |->
                         << <<"set", <<"i", 0>>, i - 1>>, <<"create", {i + 1}>> >>])
                    \o << <<"set", <<"i", 0>>, Count>> >>
                    \o [i \in 1 .. Count |-> <<"join", {i + 1}>>]
                    \o FlattenSeq([i \in 1 .. Count |->
                         << <<"set", <<"values", i>>, i - 1>>, <<"create", {Count + i + 1}>> >>])
                    \o [i \in 1 .. Count |-> <<"join", {Count + i + 1}>>] >>
                 \o [i \in 1 .. Count |-> Printing(<<"i", 0>>)]
                 \o [i \in 1 .. Count |-> Printing(<<"values", i>>)],
   memory  |-> [c \in {<<"i", 0>>} \cup ({"values"} \X (1 .. Count)) |-> 0]]

\* Q5: two threads write numbers to a file, the last of them the rest; two others count
\* the digits of their parts of it and add them to one histogram.
Append1 == Guarded("file", << <<"append", <<"file", 0>> >> >>)
Histogram(k) ==
  << <<"tally", <<"file", 0>>, k>> >>
    \o Guarded("histogram", << <<"merge", <<"histogram", 0>> >>, <<"put", <<"histogram", 0>> >> >>)
Numbers == 2 * Count - 1
FileHistogram ==
  [threads |-> << CreateAndJoin(2) \o << <<"create", {4}>>, <<"create", {5}>>,
                                           <<"join", {4}>>, <<"join", {5}>> >>,
                  Times(Numbers \div 2, Append1), Times(Numbers - Numbers \div 2, Append1),
                  Histogram(0), Histogram(1) >>,
   memory  |-> [c \in {<<"file", 0>>, <<"histogram", 0>>} |->
                  IF c[1] = "file" THEN <<>> ELSE [d \in 0 .. 9 |-> 0]]]

-----------------------------------------------------------------------------
\* A kernel runs as blocks of threads, as many as the array needs; those beyond its end do
\* nothing.  One launch begins when the one before has ended.
Blocks == (Size + BlockSize - 1) \div BlockSize
Total == Blocks * BlockSize
In(i) == <<"in", i>>
Out(i) == <<"out", i>>
Grid(script) ==
  [threads |-> <<Launch(Started(Total))>> \o [t \in 1 .. Total |-> script[t - 1]],
   memory  |-> Cells("out", 0 .. Size - 1, 0)]

AddTo(i) == << <<"sum", {In(i)}, i>>, <<"put", Out(i)>> >>
AddArrays == Grid([idx \in 0 .. Total - 1 |-> IF idx < Size THEN AddTo(idx) ELSE <<>>])

\* The second launch has fewer threads than elements.
Strided(idx, stride) ==
  FlattenSeq([k \in 1 .. (Size - idx + stride - 1) \div stride |-> AddTo(idx + (k - 1) * stride)])
AddArraysStride ==
  [threads |-> << Launch(Started(Total)) \o Launch({Total + 2, Total + 3}) >>
                 \o [t \in 1 .. Total |-> IF t <= Size THEN Strided(t - 1, Total) ELSE <<>>]
                 \o [t \in 1 .. 2 |-> Strided(t - 1, 2)],
   memory  |-> Cells("out", 0 .. Size - 1, 0)]

MovingSum ==
  Grid([idx \in 0 .. Total - 1 |->
    IF idx < Size - 2
      THEN << <<"sum", {In(idx), In(idx + 1), In(idx + 2)}, 0>>, <<"put", Out(idx)>> >>
      ELSE <<>>])

\* Half of the threads of a block take the larger of their own number and of one of the
\* other half's, then half of those.  Everyone waits for the block after each step.
Least == -1
Shared(block, tid) == <<"shared", block * BlockSize + tid>>
Sync(block) == << <<"sync", {block * BlockSize + tid + 2 : tid \in 0 .. BlockSize - 1}>> >>
Halves ==
  [k \in 1 .. Cardinality({j \in 1 .. 10 : 2 ^ j <= BlockSize}) |-> BlockSize \div 2 ^ k]
Larger(block, tid, s) ==
  IF tid < s
    THEN << <<"max", Shared(block, tid), Shared(block, tid + s)>>, <<"put", Shared(block, tid)>> >>
    ELSE <<>>
MaxOf(block, tid) ==
  << IF block * BlockSize + tid < Size
       THEN <<"copy", Shared(block, tid), In(block * BlockSize + tid)>>
       ELSE <<"set", Shared(block, tid), Least>> >>
    \o Sync(block)
    \o FlattenSeq([k \in DOMAIN Halves |-> Larger(block, tid, Halves[k]) \o Sync(block)])
    \o IF tid = 0 THEN << <<"atomicMax", <<"max", 0>>, Shared(block, 0)>> >> ELSE <<>>
MaxReduce ==
  [threads |-> <<Launch(Started(Total))>>
                 \o [t \in 1 .. Total |-> MaxOf((t - 1) \div BlockSize, (t - 1) % BlockSize)],
   memory  |-> Cells("max", {0}, Least) @@ Cells("shared", 0 .. Total - 1, 0)]

\* As many launches as there are elements; in turn the even and the odd positions are
\* compared with their right neighbours.
Exchange(idx) ==
  << <<"exchange", In(idx), In(idx + 1)>>, <<"putOf", In(idx), 2>>, <<"putOf", In(idx + 1), 1>> >>
SortLaunch(phase) ==
  [t \in 1 .. Total |-> IF (t - 1) % 2 = phase /\ t < Size THEN Exchange(t - 1) ELSE <<>>]
OddEvenSort ==
  [threads |-> <<FlattenSeq([i \in 1 .. Size |->
                    Launch({(i - 1) * Total + t + 1 : t \in 1 .. Total})])>>
                 \o FlattenSeq([i \in 1 .. Size |-> SortLaunch((i - 1) % 2)]),
   memory  |-> Cells("out", {0}, 0)]

Kernels ==
  [addArrays |-> AddArrays, addArraysStride |-> AddArraysStride, movingSum |-> MovingSum,
   maxReduce |-> MaxReduce, oddEvenSort |-> OddEvenSort]
Programs ==
  [thread_3 |-> Race, thread_4 |-> WithMutex, thread_7 |-> Atomically, thread_5 |-> CrossedLocks,
   thread_6 |-> WithSemaphore, Qone_mat |-> MatrixByElement, Qtwo_mat |-> MatrixByShares,
   Q3 |-> Livelock, Q4 |-> LoopVariable, Q5 |-> FileHistogram] @@ Kernels
=============================================================================

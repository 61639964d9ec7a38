--------------------------- MODULE ThreadPrograms ---------------------------
(***************************************************************************)
(* The programs of Lab 2 and the kernels of Lab 8, run by threads that     *)
(* share their memory: a step is one access of one thread to it.  What     *)
(* they leave in it when main returns is stated for each of them, also     *)
(* where the program shows what goes wrong.                                *)
(***************************************************************************)
EXTENDS ThreadScripts

CONSTANTS
  Arrays,      \* inputs of the kernels
  Random       \* the numbers that rand() % 101 may be

ThreadsAssumption ==
  /\ {Repeats, Attempts, Count, Size, BlockSize} \subseteq Nat \ {0}
  /\ Arrays \subseteq [1 .. Size -> Nat] /\ Random \subseteq 0 .. 100
  /\ \E k \in 1 .. 10 : BlockSize = 2 ^ k

VARIABLES
  exercise,    \* the program
  script,      \* of each of its threads
  pc,          \* of each thread: 0 before it is created
  register,    \* what it has read or computed
  memory,
  locked       \* pairs of a mutex and its owner

vars == <<exercise, script, pc, register, memory, locked>>

Threads == DOMAIN pc
Ended(t) == pc[t] > Len(script[t])
Main == 1

\* t is at a call of the operation, and the process has not ended.
At(t, op) == pc[t] > 0 /\ ~Ended(t) /\ ~Ended(Main) /\ script[t][pc[t]][1] = op
Arg(t, k) == script[t][pc[t]][k + 1]
Goto(t, target) == pc' = [pc EXCEPT ![t] = target]
Return(t) == Goto(t, pc[t] + 1)

\* A kernel works on the device's copy of an array of the host.
Copied(name, array) == [c \in {name} \X (0 .. Size - 1) |-> array[c[2] + 1]]

Init ==
  /\ exercise \in DOMAIN Programs
  /\ script = Programs[exercise].threads
  /\ pc = [t \in DOMAIN script |-> IF t = Main THEN 1 ELSE 0]
  /\ register = [t \in Threads |-> 0]
  /\ IF exercise \in DOMAIN Kernels
       THEN \E array \in Arrays :
              memory = Programs[exercise].memory @@ Copied("host", array) @@ Copied("in", array)
       ELSE memory = Programs[exercise].memory
  /\ locked = {}

-----------------------------------------------------------------------------
\* Threads start and end.
Create(t) ==
  /\ At(t, "create")
  /\ pc' = [u \in Threads |-> IF u \in Arg(t, 1) THEN 1 ELSE IF u = t THEN pc[t] + 1 ELSE pc[u]]
  /\ UNCHANGED <<exercise, script, register, memory, locked>>
Join(t) ==
  /\ At(t, "join") /\ (\A u \in Arg(t, 1) : Ended(u)) /\ Return(t)
  /\ UNCHANGED <<exercise, script, register, memory, locked>>

\* Control.
While(t) ==
  /\ At(t, "while") /\ Goto(t, IF memory[Arg(t, 1)] < Arg(t, 2) THEN pc[t] + 1 ELSE Arg(t, 3))
  /\ UNCHANGED <<exercise, script, register, memory, locked>>
Jump(t) ==
  /\ At(t, "goto") /\ Goto(t, Arg(t, 1)) /\ UNCHANGED <<exercise, script, register, memory, locked>>

-----------------------------------------------------------------------------
\* Mutexes, a semaphore, and the barrier of a block: a thread goes on when everyone has
\* come as far.
Free(m) == \A u \in Threads : <<m, u>> \notin locked
Lock(t) ==
  /\ At(t, "lock") /\ Free(Arg(t, 1)) /\ Return(t)
  /\ locked' = locked \cup {<<Arg(t, 1), t>>}
  /\ UNCHANGED <<exercise, script, register, memory>>
TryLock(t) ==
  /\ At(t, "tryLock")
  /\ IF Free(Arg(t, 1)) THEN Return(t) /\ locked' = locked \cup {<<Arg(t, 1), t>>}
                        ELSE Goto(t, Arg(t, 2)) /\ UNCHANGED locked
  /\ UNCHANGED <<exercise, script, register, memory>>
Unlock(t) ==
  /\ At(t, "unlock") /\ Return(t) /\ locked' = locked \ {<<Arg(t, 1), t>>}
  /\ UNCHANGED <<exercise, script, register, memory>>

SemWait(t) ==
  /\ At(t, "wait") /\ memory[Arg(t, 1)] > 0 /\ Return(t)
  /\ memory' = [memory EXCEPT ![Arg(t, 1)] = @ - 1]
  /\ UNCHANGED <<exercise, script, register, locked>>

Syncs(t) == Cardinality({i \in 1 .. pc[t] - 1 : script[t][i][1] = "sync"})
SyncThreads(t) ==
  /\ At(t, "sync") /\ Return(t)
  /\ \A u \in Arg(t, 1) : Syncs(u) > Syncs(t) \/ (Syncs(u) = Syncs(t) /\ At(u, "sync"))
  /\ UNCHANGED <<exercise, script, register, memory, locked>>

-----------------------------------------------------------------------------
\* What a thread reads and computes.
Digits(n) == IF n < 10 THEN <<n>> ELSE IF n < 100 THEN <<n % 10, n \div 10>> ELSE <<0, 0, 1>>
TimesIn(d, numbers) ==
  FoldLeft(LAMBDA sum, n : sum + Len(SelectSeq(Digits(n), LAMBDA x : x = d)), 0, numbers)
HistogramOf(numbers) == [d \in 0 .. 9 |-> TimesIn(d, numbers)]
PartOf(k, numbers) ==
  LET each == Len(numbers) \div 2
  IN  SubSeq(numbers, k * each + 1, IF k = 1 THEN Len(numbers) ELSE (k + 1) * each)

Compute(t, v) ==
  /\ Return(t) /\ register' = [register EXCEPT ![t] = v]
  /\ UNCHANGED <<exercise, script, memory, locked>>
Larger2(v, w) == IF w > v THEN w ELSE v
Sum(t) == At(t, "sum") /\ Compute(t, FoldSet(LAMBDA c, sum : sum + memory[c], Arg(t, 2), Arg(t, 1)))
Maximum(t) == At(t, "max") /\ Compute(t, Larger2(memory[Arg(t, 1)], memory[Arg(t, 2)]))
Tally(t) == At(t, "tally") /\ Compute(t, HistogramOf(PartOf(Arg(t, 2), memory[Arg(t, 1)])))
Merge(t) == At(t, "merge") /\ Compute(t, [d \in 0 .. 9 |-> memory[Arg(t, 1)][d] + register[t][d]])

\* Two neighbours in order are left alone.
Compare(t) ==
  LET pair == <<memory[Arg(t, 1)], memory[Arg(t, 2)]>> IN
  /\ At(t, "exchange") /\ Goto(t, IF pair[1] > pair[2] THEN pc[t] + 1 ELSE pc[t] + 3)
  /\ register' = [register EXCEPT ![t] = pair]
  /\ UNCHANGED <<exercise, script, memory, locked>>

\* What it writes.
Write(t, v) ==
  /\ Return(t) /\ memory' = [memory EXCEPT ![Arg(t, 1)] = v]
  /\ UNCHANGED <<exercise, script, register, locked>>
Put(t) == At(t, "put") /\ Write(t, register[t])
PutOf(t) == At(t, "putOf") /\ Write(t, register[t][Arg(t, 2)])
Set(t) == At(t, "set") /\ Write(t, Arg(t, 2))
Copy(t) == At(t, "copy") /\ Write(t, memory[Arg(t, 2)])   \* from what nobody writes
FetchAdd(t) == At(t, "fetchAdd") /\ Write(t, memory[Arg(t, 1)] + Arg(t, 2))
AtomicMax(t) == At(t, "atomicMax") /\ Write(t, Larger2(memory[Arg(t, 1)], memory[Arg(t, 2)]))
AppendTo(t) == At(t, "append") /\ \E n \in Random : Write(t, Append(memory[Arg(t, 1)], n))

-----------------------------------------------------------------------------
\* Two threads that have one lock each and want the other's wait for ever.
Crossed ==
  exercise = "thread_5" /\ \A t \in {2, 3} : pc[t] = 2 /\ Cardinality(locked) = 2

Step(t) ==
  \/ Create(t) \/ Join(t) \/ While(t) \/ Jump(t)
  \/ Lock(t) \/ TryLock(t) \/ Unlock(t) \/ SemWait(t) \/ SyncThreads(t)
  \/ Sum(t) \/ Maximum(t) \/ Tally(t) \/ Merge(t) \/ Compare(t)
  \/ Put(t) \/ PutOf(t) \/ Set(t) \/ Copy(t) \/ FetchAdd(t) \/ AtomicMax(t) \/ AppendTo(t)
Next == \E t \in Threads : Step(t)
Over == (Ended(Main) \/ Crossed) /\ UNCHANGED vars

Spec == Init /\ [][Next \/ Over]_vars

-----------------------------------------------------------------------------
Input(i) == memory[<<"host", i>>]
Counted == memory[Counter]

\* What the cells hold when main returns.  A race loses increments, but two threads leave
\* at least two; the loop's variable may have gone on when a thread reads it; everything
\* else is what one thread would compute.
Results ==
  CASE exercise = "thread_3" -> Counted \in (IF Repeats = 1 THEN 1 ELSE 2) .. 2 * Repeats
    [] exercise \in {"thread_4", "thread_7"} -> Counted = 2 * Repeats
    [] exercise = "thread_5" -> locked = {}
    [] exercise = "thread_6" -> memory[<<"sem", 0>>] = 2
    [] exercise \in {"Qone_mat", "Qtwo_mat"} ->
         \A k \in DOMAIN Elements : memory[Element(k)] = Partial(Elements[k], 0, 3)
    [] exercise = "Q3" -> memory[<<"attempts", 0>>] <= Attempts + 1
                            /\ \A p \in locked : p[1] \in {"mtx1", "mtx2"}
    [] exercise = "Q4" -> \A i \in 1 .. Count : register[i + 1] \in i - 1 .. Count
                                                  /\ register[Count + i + 1] = i - 1
    [] exercise = "Q5" -> Len(memory[<<"file", 0>>]) = Numbers
                            /\ memory[<<"histogram", 0>>] = HistogramOf(memory[<<"file", 0>>])
    [] exercise \in {"addArrays", "addArraysStride"} ->
         \A i \in 0 .. Size - 1 : memory[Out(i)] = Input(i) + i
    [] exercise = "movingSum" ->
         \A i \in 0 .. Size - 3 : memory[Out(i)] = Input(i) + Input(i + 1) + Input(i + 2)
    [] exercise = "maxReduce" -> memory[<<"max", 0>>] = Max({Input(i) : i \in 0 .. Size - 1})
    [] exercise = "oddEvenSort" ->
         [i \in 1 .. Size |-> memory[In(i - 1)]] = SortSeq([i \in 1 .. Size |-> Input(i - 1)], <)

\* Lab 2 says who excludes whom: no third thread passes the semaphore, and one
\* of two that retry has both locks at a time.
Exclusion ==
  /\ exercise = "thread_6" => Cardinality({t \in Threads : pc[t] = 2 /\ t # Main}) <= 2
  /\ exercise = "Q3" => ~(pc[2] \in 4 .. 5 /\ pc[3] \in 4 .. 5)

\* Both of these.
ThreadsAgree == Exclusion /\ (Ended(Main) => Results)
=============================================================================

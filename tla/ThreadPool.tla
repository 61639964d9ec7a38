----------------------------- MODULE ThreadPool -----------------------------
(***************************************************************************)
(* ThreadPool and the two ways ParallelTraceProcessor uses it              *)
(* (utils/parallel_executor.h).  The main thread and the workers run       *)
(* jobs; a job enqueues its children one by one and then gets their        *)
(* futures in order.  processTrace is a main job whose children are the    *)
(* chunks; processMultipleConfigs is a main job whose children are the     *)
(* configurations, each with its chunks as children, on the same pool.     *)
(* The code under queueMutex_ is atomic.                                   *)
(***************************************************************************)
EXTENDS Naturals, Sequences

CONSTANTS
  Workers,    \* workers_
  Tasks,      \* the tasks that may be enqueued
  Root,       \* the job of the main thread; not a task
  Children    \* Children[j]: the tasks job j enqueues, in order

CONSTANT MayThrow   \* the jobs that may end by an exception of their own

Main == "main"
NoJob == "none"

\* Each call of enqueue makes a new task: no two of them are the same.
OneParent ==
  \A j, k \in Tasks \cup {Root} :
    \A i \in 1 .. Len(Children[j]), l \in 1 .. Len(Children[k]) :
      Children[j][i] = Children[k][l] => j = k /\ i = l

ASSUME PoolAssumption ==
  /\ Main \notin Workers /\ Root \notin Tasks /\ NoJob \notin Tasks \cup {Root}
  /\ Workers # {}
  /\ Children \in [Tasks \cup {Root} -> Seq(Tasks)]
  /\ OneParent
  /\ MayThrow \subseteq Tasks \cup {Root}

VARIABLES
  tasks,     \* the queue tasks_
  stop,      \* stop_
  pc,        \* where each thread is
  job,       \* the job each thread runs
  next,      \* the index of the child a thread submits or gets next
  future     \* the state of the future of each task

poolVars == <<tasks, stop, pc, job, next, future>>

Actors == Workers \cup {Main}
Jobs == Tasks \cup {Root}

\* Worker: "check" (evaluates the predicate of wait), "wait", "gone".
\* Any job: "submit", "notify", "get".  Main: "stopping", "wakeAll", "join", "end".
Places == {"check", "wait", "gone", "submit", "notify", "get",
           "stopping", "wakeAll", "join", "end"}

Ready(t) == future[t] \in {"value", "exception"}

Goto(w, place) == pc' = [pc EXCEPT ![w] = place]

\* The threads in S are woken.
Woken(S) == [w \in Actors |-> IF w \in S THEN "check" ELSE pc[w]]
Waiting == {w \in Workers : pc[w] = "wait"}

\* notify_one wakes one waiter if there is one.
WokenByOne == {S \in SUBSET Waiting : S = {} <=> Waiting = {} /\ \A v, w \in S : v = w}

\* notify_all wakes every waiter; the mutant wakes only one.
WokenByAllNot == WokenByOne
WokenByAll == {Waiting}

\* The queue without its front; one mutant forgets the pop, one pops the back.
RestNot(queue) == queue
RestWrongEnd(queue) == SubSeq(queue, 1, Len(queue) - 1)
Rest(queue) == Tail(queue)

\* A job's loops over its children start at the first.
FirstChild(w) == [next EXCEPT ![w] = 1]

\* A worker may return when the pool is stopped AND the queue is empty; the
\* mutant returns as soon as the pool is stopped.
DrainedNot == TRUE
Drained == tasks = <<>>

\* enqueue refuses tasks once the pool is stopped.
Accepting == ~stop

-----------------------------------------------------------------------------
PoolInit ==
  /\ tasks = <<>>
  /\ stop = FALSE
  /\ pc = [w \in Actors |-> IF w = Main THEN "submit" ELSE "check"]
  /\ job = [w \in Actors |-> IF w = Main THEN Root ELSE NoJob]
  /\ next = [w \in Actors |-> 1]
  /\ future = [t \in Tasks |-> "none"]

\* The worker finds the queue empty and the pool running: it waits.
Wait(w) ==
  /\ pc[w] = "check" /\ tasks = <<>> /\ ~stop
  /\ Goto(w, "wait")
  /\ UNCHANGED <<tasks, stop, job, next, future>>

SpuriousWake(w) ==
  /\ pc[w] = "wait"
  /\ Goto(w, "check")
  /\ UNCHANGED <<tasks, stop, job, next, future>>

\* A stopped pool is drained before its workers return.
Exit(w) ==
  /\ pc[w] = "check" /\ stop /\ Drained
  /\ Goto(w, "gone")
  /\ UNCHANGED <<tasks, stop, job, next, future>>

Take(w) ==
  /\ pc[w] = "check" /\ tasks # <<>>
  /\ tasks' = Rest(tasks)
  /\ job' = [job EXCEPT ![w] = Head(tasks)]
  /\ next' = FirstChild(w)
  /\ Goto(w, "submit")
  /\ UNCHANGED <<stop, future>>

\* The packaged_task of w's job sets its future and the worker loops; for the
\* main thread the pool goes out of scope and its destructor runs.
Finish(w, outcome) ==
  IF w = Main
  THEN Goto(w, "stopping") /\ UNCHANGED <<job, future>>
  ELSE /\ Goto(w, "check")
       /\ job' = [job EXCEPT ![w] = NoJob]
       /\ future' = [future EXCEPT ![job[w]] = outcome]

\* enqueue, the part under queueMutex_.
Enqueue(w) ==
  /\ pc[w] = "submit" /\ next[w] <= Len(Children[job[w]]) /\ Accepting
  /\ LET t == Children[job[w]][next[w]] IN
       /\ tasks' = Append(tasks, t)
       /\ future' = [future EXCEPT ![t] = "pending"]
  /\ next' = [next EXCEPT ![w] = @ + 1]
  /\ Goto(w, "notify")
  /\ UNCHANGED <<stop, job>>

\* partitionTrace cannot open the trace: the job ends before it enqueues anything.
FailEarly(w) ==
  /\ pc[w] = "submit" /\ next[w] = 1 /\ job[w] \in MayThrow
  /\ Finish(w, "exception")
  /\ UNCHANGED <<tasks, stop, next>>

\* enqueue throws "enqueue on stopped ThreadPool"; the job ends by it.
EnqueueThrows(w) ==
  /\ pc[w] = "submit" /\ next[w] <= Len(Children[job[w]]) /\ ~Accepting
  /\ Finish(w, "exception")
  /\ UNCHANGED <<tasks, stop, next>>

\* condition_.notify_one(), after the mutex was released.
NotifyOne(w) ==
  /\ pc[w] = "notify"
  /\ \E S \in WokenByOne : pc' = [Woken(S) EXCEPT ![w] = "submit"]
  /\ UNCHANGED <<tasks, stop, job, next, future>>

\* All children are submitted: their futures are collected in order.
StartGetting(w) ==
  /\ pc[w] = "submit" /\ next[w] > Len(Children[job[w]])
  /\ next' = FirstChild(w)
  /\ Goto(w, "get")
  /\ UNCHANGED <<tasks, stop, job, future>>

\* future.get() blocks until the child is done; an exception ends the job.
Get(w) ==
  /\ pc[w] = "get" /\ next[w] <= Len(Children[job[w]])
  /\ LET t == Children[job[w]][next[w]] IN
       \/ /\ future[t] = "value"
          /\ next' = [next EXCEPT ![w] = @ + 1]
          /\ UNCHANGED <<pc, job, future>>
       \/ /\ future[t] = "exception"
          /\ Finish(w, "exception")
          /\ UNCHANGED next
  /\ UNCHANGED <<tasks, stop>>

\* The rest of the job: the result, or an exception of its own.
Complete(w) ==
  /\ pc[w] = "get" /\ next[w] > Len(Children[job[w]])
  /\ \/ Finish(w, "value")
     \/ job[w] \in MayThrow /\ Finish(w, "exception")
  /\ UNCHANGED <<tasks, stop, next>>

\* ~ThreadPool: stop_ under the mutex, notify_all after it, join every worker.
SetStop ==
  /\ pc[Main] = "stopping"
  /\ stop' = TRUE
  /\ Goto(Main, "wakeAll")
  /\ UNCHANGED <<tasks, job, next, future>>

NotifyAll ==
  /\ pc[Main] = "wakeAll"
  /\ \E S \in WokenByAll : pc' = [Woken(S) EXCEPT ![Main] = "join"]
  /\ UNCHANGED <<tasks, stop, job, next, future>>

WorkersJoined ==
  /\ pc[Main] = "join" /\ \A w \in Workers : pc[w] = "gone"
  /\ Goto(Main, "end")
  /\ UNCHANGED <<tasks, stop, job, next, future>>

\* The program may end here.
Ended == pc[Main] = "end" /\ UNCHANGED poolVars

WorkerStep(w) == Wait(w) \/ Exit(w) \/ Take(w)
JobStep(w) == \/ FailEarly(w) \/ Enqueue(w) \/ EnqueueThrows(w) \/ NotifyOne(w)
              \/ StartGetting(w) \/ Get(w) \/ Complete(w)
Destroy == SetStop \/ NotifyAll \/ WorkersJoined

PoolNext == \/ \E w \in Workers : WorkerStep(w) \/ SpuriousWake(w)
        \/ \E w \in Actors : JobStep(w)
        \/ Destroy
        \/ Ended

\* Every thread that can go on eventually does; nobody relies on spurious wakes.
Fairness == /\ \A w \in Workers : WF_poolVars(WorkerStep(w))
            /\ \A w \in Actors : WF_poolVars(JobStep(w))
            /\ WF_poolVars(Destroy)

PoolSpec == PoolInit /\ [][PoolNext]_poolVars /\ Fairness

-----------------------------------------------------------------------------
PoolTypeOK ==
  /\ tasks \in Seq(Tasks)
  /\ stop \in BOOLEAN
  /\ pc \in [Actors -> Places]
  /\ job \in [Actors -> Jobs \cup {NoJob}]
  /\ next \in [Actors -> Nat \ {0}]
  /\ \A w \in Actors : job[w] # NoJob => next[w] <= Len(Children[job[w]]) + 1
  /\ future \in [Tasks -> {"none", "pending", "value", "exception"}]

\* A task whose future somebody may wait for is in exactly one place: once in the
\* queue, or in the hands of one worker; a finished or unknown task is nowhere.
PendingIsSomewhere ==
  \A t \in Tasks :
    LET queued == {i \in 1 .. Len(tasks) : tasks[i] = t}
        running == {w \in Workers : job[w] = t}
    IN /\ future[t] = "pending" <=> queued \cup running # {}
       /\ queued = {} \/ running = {}
       /\ \A i, j \in queued : i = j
       /\ \A v, w \in running : v = w

\* When the destructor has joined the workers, no accepted task is left without
\* a result: also not after an exception made main leave with tasks queued.
DrainedAtEnd ==
  pc[Main] = "end" => \A t \in Tasks : future[t] = "none" \/ Ready(t)

\* A worker that has returned leaves nothing behind, and nothing is queued later.
GoneMeansDrained ==
  (\E w \in Workers : pc[w] = "gone") => stop /\ tasks = <<>>

\* Where the tasks are, in a state that is well formed.
TasksArePlaced == PoolTypeOK /\ PendingIsSomewhere

\* What the end of a worker and the end of the pool promise.
PoolEndsEmpty == DrainedAtEnd /\ GoneMeansDrained

\* A result is set once: a second run of the task would overwrite it.
ResultsAreFinal ==
  [][\A t \in Tasks : Ready(t) => future'[t] = future[t]]_poolVars

\* The main thread gets its results and its pool is destroyed: "@return Results
\* for each configuration" of processMultipleConfigs, "@return Combined processing
\* results" of processTrace.
Returns == <>(pc[Main] = "end")
=============================================================================

---------------------------- MODULE Threads_proofs ----------------------------
(***************************************************************************)
(* Safety of the thread pool, for any number of workers and any tree of    *)
(* jobs: where the tasks are, that each runs once, and what is left when   *)
(* the pool is destroyed.  Theorems about the global barrier, for any      *)
(* number of threads and of calls.                                         *)
(***************************************************************************)
EXTENDS ThreadPool, GlobalBarrier, FiniteSetTheorems, TLAPS

Idle == {"check", "wait", "gone"}
Busy == {"submit", "notify", "get"}
Queued(t) == \E i \in 1 .. Len(tasks) : tasks[i] = t
Running(t) == \E w \in Workers : job[w] = t

\* The place of a thread fits its job, the flag and what the destructor has seen.
Fit ==
  /\ job[Main] = Root /\ pc[Main] \notin Idle
  /\ \A w \in Workers : /\ pc[w] \in Idle \cup Busy
                        /\ job[w] \in Tasks \cup {NoJob}
                        /\ job[w] = NoJob <=> pc[w] \in Idle
  /\ stop <=> pc[Main] \in {"wakeAll", "join", "end"}
  /\ pc[Main] = "end" => \A w \in Workers : pc[w] = "gone"

\* PendingIsSomewhere without its sets.
Placed ==
  /\ \A t \in Tasks : future[t] = "pending" <=> Queued(t) \/ Running(t)
  /\ \A t \in Tasks : ~(Queued(t) /\ Running(t))
  /\ \A i, j \in 1 .. Len(tasks) : tasks[i] = tasks[j] => i = j
  /\ \A v, w \in Workers : job[v] = job[w] /\ job[v] # NoJob => v = w

\* What a job has not enqueued yet is unknown to everybody.
Fresh ==
  /\ \A w \in Actors : pc[w] \in {"submit", "notify"} =>
       \A i \in 1 .. Len(Children[job[w]]) :
         i >= next[w] => future[Children[job[w]][i]] = "none"
  /\ \A t \in Tasks : future[t] = "none" \/ Queued(t) =>
       \A i \in 1 .. Len(Children[t]) : future[Children[t][i]] = "none"

PoolInv == PoolTypeOK /\ Fit /\ Placed /\ Fresh /\ GoneMeansDrained

\* What the constants say of a job's children.
LEMMA ChildrenAreTasks ==
  ASSUME NEW j \in Jobs
  PROVE  /\ Children[j] \in Seq(Tasks) /\ Len(Children[j]) \in Nat
         /\ \A i \in 1 .. Len(Children[j]) : Children[j][i] \in Tasks
BY PoolAssumption DEF Jobs

LEMMA InitPool == PoolInit => PoolInv
<1> SUFFICES ASSUME PoolInit PROVE PoolInv
  OBVIOUS
<1>0. /\ \A j \in Jobs : Len(Children[j]) \in Nat
      /\ \A j \in Jobs : \A i \in 1 .. Len(Children[j]) : Children[j][i] \in Tasks
  BY ChildrenAreTasks
<1>1. PoolTypeOK
  <2>1. tasks \in Seq(Tasks)
    BY DEF PoolInit
  <2>2. next \in [Actors -> Nat \ {0}] /\ \A w \in Actors : next[w] = 1
    BY DEF PoolInit
  <2>3. \A w \in Actors : job[w] # NoJob => next[w] <= Len(Children[job[w]]) + 1
    BY <1>0, <2>2 DEF PoolInit, Jobs
  <2> QED  BY <2>1, <2>2, <2>3 DEF PoolInit, PoolTypeOK, Actors, Jobs, Places
<1>2. Fit
  BY PoolAssumption DEF PoolInit, Fit, Idle, Busy, Actors
<1>3. Placed
  BY PoolAssumption DEF PoolInit, Placed, Queued, Running, Actors
<1>4. Fresh
  <2>1. \A t \in Tasks : future[t] = "none"
    BY DEF PoolInit
  <2>2. \A w \in Actors : pc[w] \in {"submit", "notify"} => job[w] \in Jobs
    BY DEF PoolInit, Actors, Jobs
  <2> QED  BY <1>0, <2>1, <2>2 DEF Fresh, Jobs
<1>5. GoneMeansDrained
  BY PoolAssumption DEF PoolInit, GoneMeansDrained, Actors
<1> QED  BY <1>1, <1>2, <1>3, <1>4, <1>5 DEF PoolInv

\* Fresh outlives a step that lets nobody submit who did not, and keeps who submits.
LEMMA FreshStays ==
  ASSUME Fresh, UNCHANGED <<tasks, future>>,
         \A v \in Actors : pc'[v] \in {"submit", "notify"} =>
           pc[v] \in {"submit", "notify"} /\ job'[v] = job[v] /\ next'[v] = next[v]
  PROVE  Fresh'
<1>1. \A v \in Actors : pc'[v] \in {"submit", "notify"} =>
        \A i \in 1 .. Len(Children[job'[v]]) :
          i >= next'[v] => future'[Children[job'[v]][i]] = "none"
  BY DEF Fresh
<1>2. \A u \in Tasks : Queued(u)' = Queued(u)
  BY DEF Queued
<1>3. \A u \in Tasks : future'[u] = "none" \/ Queued(u)' =>
        \A i \in 1 .. Len(Children[u]) : future'[Children[u][i]] = "none"
  BY <1>2 DEF Fresh
<1> QED  BY <1>1, <1>3 DEF Fresh

\* Steps that only move a thread: queue, jobs and futures stay as they are.
Moves ==
  \/ \E w \in Workers : Wait(w) \/ SpuriousWake(w) \/ Exit(w)
  \/ \E w \in Actors : NotifyOne(w) \/ StartGetting(w)
  \/ Destroy

LEMMA MovesKeep == ASSUME PoolInv, Moves PROVE PoolInv'
<1> USE DEF PoolInv
<1>0. UNCHANGED <<tasks, job, future>> /\ Main \in Actors
  BY DEF Moves, Wait, SpuriousWake, Exit, NotifyOne, StartGetting, Destroy, SetStop, NotifyAll,
         WorkersJoined, Actors
<1>1. Placed'
  BY <1>0 DEF Placed, Queued, Running
<1>2. ASSUME NEW w \in Workers, Wait(w) \/ SpuriousWake(w) \/ Exit(w) PROVE PoolInv'
  <2>1. UNCHANGED <<stop, next>> /\ w # Main /\ w \in Actors
    BY <1>2, PoolAssumption DEF Wait, SpuriousWake, Exit, Actors
  <2>2. PICK place \in Idle : pc' = [pc EXCEPT ![w] = place]
                              /\ (place = "gone" => stop /\ tasks = <<>>)
    BY <1>2 DEF Wait, SpuriousWake, Exit, Goto, Idle, Drained
  <2>3. pc[w] \in Idle /\ pc[w] # "gone"
    BY <1>2 DEF Wait, SpuriousWake, Exit, Idle
  <2>4. PoolTypeOK'
    BY <1>0, <2>1, <2>2 DEF PoolTypeOK, Idle, Places
  <2>5. Fit'
    BY <1>0, <2>1, <2>2, <2>3 DEF Fit, PoolTypeOK, Idle, Busy
  <2>6. Fresh'
    BY <1>0, <2>1, <2>2, FreshStays DEF PoolTypeOK, Idle
  <2>7. GoneMeansDrained'
    BY <1>0, <2>1, <2>2 DEF GoneMeansDrained, PoolTypeOK
  <2> QED  BY <1>1, <2>4, <2>5, <2>6, <2>7
<1>3. ASSUME NEW w \in Actors, NotifyOne(w) PROVE PoolInv'
  <2>1. UNCHANGED <<stop, next>>
    BY <1>3 DEF NotifyOne
  <2>2. PICK S \in SUBSET Waiting : pc' = [Woken(S) EXCEPT ![w] = "submit"]
    BY <1>3 DEF NotifyOne, WokenByOne
  <2>3. /\ pc' \in [Actors -> Places] /\ pc'[w] = "submit" /\ pc[w] = "notify"
        /\ \A v \in Actors \ {w} : pc'[v] = pc[v]
                                   \/ (v \in Workers /\ pc[v] = "wait" /\ pc'[v] = "check")
    BY <1>3, <2>2 DEF NotifyOne, Woken, Waiting, PoolTypeOK, Places, Actors
  <2>4. PoolTypeOK'
    BY <1>0, <2>1, <2>3 DEF PoolTypeOK
  <2>5. Fit'
    BY <1>0, <2>1, <2>3, PoolAssumption DEF Fit, Idle, Busy, Actors
  <2>6. Fresh'
    BY <1>0, <2>1, <2>3, FreshStays
  <2>7. GoneMeansDrained'
    BY <1>0, <2>1, <2>3 DEF GoneMeansDrained, Actors
  <2> QED  BY <1>1, <2>4, <2>5, <2>6, <2>7
<1>4. ASSUME NEW w \in Actors, StartGetting(w) PROVE PoolInv'
  <2>1. /\ UNCHANGED stop /\ pc[w] = "submit"
        /\ pc' = [pc EXCEPT ![w] = "get"] /\ next' = [next EXCEPT ![w] = 1]
    BY <1>4 DEF StartGetting, Goto, FirstChild
  <2>2. PoolTypeOK'
    <3>1. job[w] # NoJob => Len(Children[job[w]]) \in Nat
      BY PoolAssumption DEF PoolTypeOK, Jobs
    <3> QED  BY <1>0, <2>1, <3>1 DEF PoolTypeOK, Places
  <2>3. Fit'
    BY <1>0, <2>1, PoolAssumption DEF Fit, PoolTypeOK, Idle, Busy, Actors
  <2>4. Fresh'
    BY <1>0, <2>1, FreshStays DEF PoolTypeOK
  <2>5. GoneMeansDrained'
    BY <1>0, <2>1 DEF GoneMeansDrained, PoolTypeOK
  <2> QED  BY <1>1, <2>2, <2>3, <2>4, <2>5
<1>5. CASE SetStop \/ WorkersJoined
  <2>1. /\ UNCHANGED next
        /\ \/ pc[Main] = "stopping" /\ stop' /\ pc' = [pc EXCEPT ![Main] = "wakeAll"]
           \/ /\ pc[Main] = "join" /\ UNCHANGED stop /\ pc' = [pc EXCEPT ![Main] = "end"]
              /\ \A w \in Workers : pc[w] = "gone"
    BY <1>5 DEF SetStop, WorkersJoined, Goto
  <2>2. stop' \in BOOLEAN
    BY <1>5 DEF SetStop, WorkersJoined, PoolTypeOK
  <2>3. PoolTypeOK'
    BY <1>0, <2>1, <2>2 DEF PoolTypeOK, Places
  <2>4. Fit'
    BY <1>0, <2>1, PoolAssumption DEF Fit, PoolTypeOK, Idle, Busy, Actors
  <2>5. Fresh'
    BY <1>0, <2>1, FreshStays DEF PoolTypeOK
  <2>6. GoneMeansDrained'
    BY <1>0, <2>1, PoolAssumption DEF GoneMeansDrained, PoolTypeOK, Actors
  <2> QED  BY <1>1, <2>3, <2>4, <2>5, <2>6
<1>6. CASE NotifyAll
  <2>1. UNCHANGED <<stop, next>> /\ pc[Main] = "wakeAll"
    BY <1>6 DEF NotifyAll
  <2>2. pc' = [Woken(Waiting) EXCEPT ![Main] = "join"]
    BY <1>6 DEF NotifyAll, WokenByAll
  <2>3. /\ pc' \in [Actors -> Places] /\ pc'[Main] = "join"
        /\ \A v \in Actors \ {Main} : pc'[v] = pc[v]
                                      \/ (v \in Workers /\ pc[v] = "wait" /\ pc'[v] = "check")
    BY <2>2 DEF Woken, Waiting, PoolTypeOK, Places, Actors
  <2>4. PoolTypeOK'
    BY <1>0, <2>1, <2>3 DEF PoolTypeOK
  <2>5. Fit'
    BY <1>0, <2>1, <2>3, PoolAssumption DEF Fit, Idle, Busy, Actors
  <2>6. Fresh'
    BY <1>0, <2>1, <2>3, FreshStays
  <2>7. GoneMeansDrained'
    BY <1>0, <2>1, <2>3, PoolAssumption DEF GoneMeansDrained, Actors
  <2> QED  BY <1>1, <2>4, <2>5, <2>6, <2>7
<1> QED  BY <1>2, <1>3, <1>4, <1>5, <1>6 DEF Moves, Destroy

\* A worker takes the front of the queue.
LEMMA TakeKeeps == ASSUME PoolInv, NEW w \in Workers, Take(w) PROVE PoolInv'
<1> USE DEF PoolInv
<1> DEFINE t == Head(tasks)
<1>1. /\ pc[w] = "check" /\ tasks # <<>> /\ tasks' = Tail(tasks)
      /\ job' = [job EXCEPT ![w] = t] /\ next' = [next EXCEPT ![w] = 1]
      /\ pc' = [pc EXCEPT ![w] = "submit"] /\ UNCHANGED <<stop, future>>
      /\ w \in Actors /\ w # Main
  BY PoolAssumption DEF Take, Rest, FirstChild, Goto, Actors
<1>2. /\ t \in Tasks /\ t = tasks[1] /\ tasks' \in Seq(Tasks) /\ Len(tasks) \in Nat \ {0}
      /\ Len(tasks') = Len(tasks) - 1
      /\ \A i \in 1 .. Len(tasks') : tasks'[i] = tasks[i + 1]
  BY <1>1 DEF PoolTypeOK
<1>3. Queued(t) /\ job[w] = NoJob
  BY <1>1, <1>2 DEF Queued, Fit, Idle
<1>4. \A u \in Tasks : Queued(u)' <=> Queued(u) /\ u # t
  <2> SUFFICES ASSUME NEW u \in Tasks PROVE Queued(u)' <=> Queued(u) /\ u # t
    OBVIOUS
  <2>1. Queued(u)' => Queued(u) /\ u # t
    BY <1>2, SMTT(30) DEF Queued, Placed
  <2>2. ASSUME Queued(u), u # t PROVE Queued(u)'
    <3>1. PICK i \in 1 .. Len(tasks) : tasks[i] = u
      BY <2>2 DEF Queued
    <3>2. i # 1 /\ i - 1 \in 1 .. Len(tasks') /\ tasks'[i - 1] = u
      BY <1>2, <2>2, <3>1
    <3> QED  BY <3>2 DEF Queued
  <2> QED  BY <2>1, <2>2
<1>5. \A u \in Tasks : Running(u)' <=> Running(u) \/ u = t
  BY <1>1, <1>3, PoolAssumption DEF Running, PoolTypeOK
<1>6. PoolTypeOK'
  <2>1. Len(Children[t]) \in Nat
    BY <1>2, PoolAssumption
  <2> QED  BY <1>1, <1>2, <2>1 DEF PoolTypeOK, Places, Jobs
<1>7. Fit'
  BY <1>1, <1>2, PoolAssumption DEF Fit, PoolTypeOK, Idle, Busy, Actors
<1>8. Placed'
  <2>1. \A u \in Tasks : /\ future'[u] = "pending" <=> Queued(u)' \/ Running(u)'
                         /\ ~(Queued(u)' /\ Running(u)')
    BY <1>1, <1>3, <1>4, <1>5 DEF Placed
  <2>2. \A i, j \in 1 .. Len(tasks') : tasks'[i] = tasks'[j] => i = j
    BY <1>2 DEF Placed
  <2>3. \A v \in Workers : job[v] # t
    BY <1>2, <1>3 DEF Placed, Running
  <2>4. \A v, x \in Workers : job'[v] = job'[x] /\ job'[v] # NoJob => v = x
    BY <1>1, <2>3 DEF Placed, PoolTypeOK
  <2> QED  BY <2>1, <2>2, <2>4 DEF Placed
<1>9. Fresh'
  <2>1. \A i \in 1 .. Len(Children[t]) : future[Children[t][i]] = "none"
    BY <1>2, <1>3 DEF Fresh
  <2>2. \A v \in Actors : pc'[v] \in {"submit", "notify"} =>
          \A i \in 1 .. Len(Children[job'[v]]) :
            i >= next'[v] => future'[Children[job'[v]][i]] = "none"
    BY <1>1, <2>1 DEF Fresh, PoolTypeOK
  <2>3. \A u \in Tasks : future'[u] = "none" \/ Queued(u)' =>
          \A i \in 1 .. Len(Children[u]) : future'[Children[u][i]] = "none"
    BY <1>1, <1>4 DEF Fresh
  <2> QED  BY <2>2, <2>3 DEF Fresh
<1>10. GoneMeansDrained'
  BY <1>1 DEF GoneMeansDrained, PoolTypeOK
<1> QED  BY <1>6, <1>7, <1>8, <1>9, <1>10

\* A job hands its next child to the pool; nobody has heard of that child before.
LEMMA EnqueueKeeps == ASSUME PoolInv, NEW w \in Actors, Enqueue(w) PROVE PoolInv'
<1> USE DEF PoolInv
<1> DEFINE n == next[w]
           t == Children[job[w]][n]
<1>1. /\ pc[w] = "submit" /\ n <= Len(Children[job[w]]) /\ ~stop
      /\ tasks' = Append(tasks, t) /\ future' = [future EXCEPT ![t] = "pending"]
      /\ next' = [next EXCEPT ![w] = n + 1] /\ pc' = [pc EXCEPT ![w] = "notify"]
      /\ UNCHANGED <<stop, job>>
  BY DEF Enqueue, Goto, Accepting
<1>2. job[w] \in Jobs
  BY <1>1 DEF Fit, Idle, Jobs, Actors, PoolTypeOK
<1>3. n \in 1 .. Len(Children[job[w]]) /\ t \in Tasks /\ Len(Children[job[w]]) \in Nat
  BY <1>1, <1>2, ChildrenAreTasks DEF PoolTypeOK
<1>4. future[t] = "none" /\ ~Queued(t) /\ ~Running(t)
  <2>1. \A i \in 1 .. Len(Children[job[w]]) : i >= n => future[Children[job[w]][i]] = "none"
    BY <1>1 DEF Fresh
  <2>2. n >= n
    BY <1>3
  <2>3. future[t] = "none"
    BY <1>3, <2>1, <2>2
  <2> QED  BY <1>3, <2>3 DEF Placed
<1>5. /\ tasks' \in Seq(Tasks) /\ Len(tasks) \in Nat /\ Len(tasks') = Len(tasks) + 1
      /\ tasks'[Len(tasks) + 1] = t /\ \A i \in 1 .. Len(tasks) : tasks'[i] = tasks[i]
  BY <1>1, <1>3 DEF PoolTypeOK
<1>6. \A u \in Tasks : Queued(u)' <=> Queued(u) \/ u = t
  BY <1>5 DEF Queued
<1>7. \A u \in Tasks : Running(u)' <=> Running(u)
  BY <1>1 DEF Running
<1>8. \A u \in Tasks : future'[u] = IF u = t THEN "pending" ELSE future[u]
  BY <1>1 DEF PoolTypeOK
<1>9. PoolTypeOK'
  <2>1. /\ next' \in [Actors -> Nat \ {0}] /\ pc' \in [Actors -> Places]
        /\ future' \in [Tasks -> {"none", "pending", "value", "exception"}]
    BY <1>1, <1>3 DEF PoolTypeOK, Places
  <2>2. \A v \in Actors : job[v] # NoJob => next'[v] <= Len(Children[job[v]]) + 1
    BY <1>1, <1>3 DEF PoolTypeOK
  <2> QED  BY <1>1, <1>5, <2>1, <2>2 DEF PoolTypeOK
<1>10. Fit'
  BY <1>1, PoolAssumption DEF Fit, PoolTypeOK, Idle, Busy, Actors
<1>11. Placed'
  <2>1. \A u \in Tasks : /\ future'[u] = "pending" <=> Queued(u)' \/ Running(u)'
                         /\ ~(Queued(u)' /\ Running(u)')
    BY <1>4, <1>6, <1>7, <1>8 DEF Placed
  <2>2. \A i, k \in 1 .. Len(tasks') : tasks'[i] = tasks'[k] => i = k
    BY <1>4, <1>5 DEF Placed, Queued
  <2> QED  BY <1>1, <2>1, <2>2 DEF Placed
<1>12. Fresh'
  <2>1. \A j \in Jobs : \A i \in 1 .. Len(Children[j]) :
          Children[j][i] = t => j = job[w] /\ i = n
    <3>1. job[w] \in Jobs /\ n \in 1 .. Len(Children[job[w]])
      BY <1>2, <1>3, PoolAssumption DEF Jobs
    <3>2. ASSUME NEW j \in Jobs, NEW i \in 1 .. Len(Children[j]),
                 Children[j][i] = Children[job[w]][n]
          PROVE  j = job[w] /\ i = n
      <4>1. OneParent
        BY PoolAssumption
      <4>2. j \in Tasks \cup {Root} /\ job[w] \in Tasks \cup {Root}
        BY <3>1 DEF Jobs
      <4> HIDE DEF n
      <4> QED  BY <4>1, <4>2, <3>1, <3>2 DEF OneParent
    <3> QED  BY <3>2
  <2>2. \A j \in Jobs : \A i \in 1 .. Len(Children[j]) :
          future[Children[j][i]] = "none" /\ ~(j = job[w] /\ i = n)
            => future'[Children[j][i]] = "none"
    BY <1>8, <2>1, ChildrenAreTasks
  <2>3. ASSUME NEW v \in Actors, pc'[v] \in {"submit", "notify"},
               NEW i \in 1 .. Len(Children[job'[v]]), i >= next'[v]
        PROVE  future'[Children[job'[v]][i]] = "none"
    <3>1. job'[v] = job[v] /\ job[v] \in Jobs
      BY <1>1, <1>2, <2>3 DEF Fit, Idle, Jobs, Actors, PoolTypeOK
    <3>2. future[Children[job[v]][i]] = "none"
      BY <1>1, <1>3, <2>3, <3>1 DEF Fresh, PoolTypeOK
    <3>3. ~(job[v] = job[w] /\ i = n)
      <4>1. CASE v = w
        BY <1>1, <1>3, <2>3, <3>1, <4>1 DEF PoolTypeOK
      <4>2. CASE v # w
        <5>1. job[v] # job[w]
          BY <1>2, <3>1, <4>2, PoolAssumption DEF Placed, Fit, Actors, Jobs
        <5> QED  BY <5>1
      <4> QED  BY <4>1, <4>2
    <3> QED  BY <2>2, <3>1, <3>2, <3>3
  <2>4. ASSUME NEW u \in Tasks, future'[u] = "none" \/ Queued(u)',
               NEW i \in 1 .. Len(Children[u])
        PROVE  future'[Children[u][i]] = "none"
    <3>1. future[u] = "none" \/ Queued(u)
      BY <1>4, <1>6, <1>8, <2>4
    <3>2. future[Children[u][i]] = "none"
      BY <3>1 DEF Fresh
    <3>3. u # job[w]
      <4>1. CASE w = Main
        BY <4>1, PoolAssumption DEF Fit
      <4>2. CASE w \in Workers
        <5>1. job[w] \in Tasks => Running(job[w])
          BY <4>2 DEF Running
        <5> QED  BY <3>1, <5>1 DEF Placed
      <4> QED  BY <4>1, <4>2 DEF Actors
    <3> QED  BY <2>2, <3>2, <3>3 DEF Jobs
  <2> QED  BY <2>3, <2>4 DEF Fresh
<1>13. GoneMeansDrained'
  BY <1>1, PoolAssumption DEF GoneMeansDrained, PoolTypeOK, Actors
<1> QED  BY <1>9, <1>10, <1>11, <1>12, <1>13

\* A job ends, by a value or by an exception: of its own, of a child, of the pool.
LEMMA FinishKeeps ==
  ASSUME PoolInv, NEW w \in Actors, pc[w] \in {"submit", "get"},
         NEW outcome \in {"value", "exception"}, Finish(w, outcome),
         UNCHANGED <<tasks, stop, next>>
  PROVE  PoolInv'
<1> USE DEF PoolInv
<1>1. CASE w = Main
  <2>1. pc' = [pc EXCEPT ![Main] = "stopping"] /\ UNCHANGED <<job, future>> /\ Main \in Actors
    BY <1>1 DEF Finish, Goto
  <2>2. PoolTypeOK'
    BY <2>1 DEF PoolTypeOK, Places
  <2>3. Fit'
    BY <1>1, <2>1, PoolAssumption DEF Fit, PoolTypeOK, Idle, Busy, Actors
  <2>4. Placed'
    BY <2>1 DEF Placed, Queued, Running
  <2>5. Fresh'
    BY <2>1, FreshStays DEF PoolTypeOK
  <2>6. GoneMeansDrained'
    BY <2>1, PoolAssumption DEF GoneMeansDrained, PoolTypeOK, Actors
  <2> QED  BY <2>2, <2>3, <2>4, <2>5, <2>6
<1>2. CASE w # Main
  <2> DEFINE t == job[w]
  <2>1. /\ pc' = [pc EXCEPT ![w] = "check"] /\ job' = [job EXCEPT ![w] = NoJob]
        /\ future' = [future EXCEPT ![t] = outcome] /\ w \in Workers
    BY <1>2 DEF Finish, Goto, Actors
  <2>2. t \in Tasks /\ Running(t) /\ future[t] = "pending" /\ ~Queued(t)
    BY <2>1 DEF Fit, Idle, Running, Placed
  <2>3. \A u \in Tasks : future'[u] = IF u = t THEN outcome ELSE future[u]
    BY <2>1 DEF PoolTypeOK
  <2>4. \A u \in Tasks : Queued(u)' <=> Queued(u)
    BY DEF Queued
  <2>5. \A u \in Tasks : Running(u)' <=> Running(u) /\ u # t
    BY <2>1, <2>2, PoolAssumption DEF Running, Placed, PoolTypeOK, Actors
  <2>6. PoolTypeOK'
    BY <2>1, <2>2 DEF PoolTypeOK, Places
  <2>7. Fit'
    BY <1>2, <2>1, PoolAssumption DEF Fit, PoolTypeOK, Idle, Busy, Actors
  <2>8. Placed'
    <3>1. \A u \in Tasks : /\ future'[u] = "pending" <=> Queued(u)' \/ Running(u)'
                           /\ ~(Queued(u)' /\ Running(u)')
      BY <2>2, <2>3, <2>4, <2>5 DEF Placed
    <3>2. \A v, x \in Workers : job'[v] = job'[x] /\ job'[v] # NoJob => v = x
      BY <2>1 DEF Placed, PoolTypeOK, Actors
    <3> QED  BY <3>1, <3>2 DEF Placed
  <2>9. Fresh'
    <3>1. \A j \in Jobs : \A i \in 1 .. Len(Children[j]) :
            future[Children[j][i]] = "none" => future'[Children[j][i]] = "none"
      BY <2>2, <2>3, ChildrenAreTasks
    <3>2. ASSUME NEW v \in Actors, pc'[v] \in {"submit", "notify"},
                 NEW i \in 1 .. Len(Children[job'[v]]), i >= next'[v]
          PROVE  future'[Children[job'[v]][i]] = "none"
      <4>1. v # w /\ job'[v] = job[v] /\ pc'[v] = pc[v]
        BY <2>1, <3>2 DEF PoolTypeOK
      <4>2. job[v] \in Jobs
        BY <3>2, <4>1 DEF Fit, Idle, Jobs, Actors, PoolTypeOK
      <4>3. future[Children[job[v]][i]] = "none"
        BY <3>2, <4>1 DEF Fresh
      <4> QED  BY <3>1, <4>1, <4>2, <4>3
    <3>3. ASSUME NEW u \in Tasks, future'[u] = "none" \/ Queued(u)',
                 NEW i \in 1 .. Len(Children[u])
          PROVE  future'[Children[u][i]] = "none"
      <4>1. future[Children[u][i]] = "none"
        BY <2>3, <2>4, <3>3 DEF Fresh
      <4> QED  BY <3>1, <4>1 DEF Jobs
    <3> QED  BY <3>2, <3>3 DEF Fresh
  <2>10. GoneMeansDrained'
    BY <2>1 DEF GoneMeansDrained, PoolTypeOK
  <2> QED  BY <2>6, <2>7, <2>8, <2>9, <2>10
<1> QED  BY <1>1, <1>2

\* A child's value is there: the job goes on to its next child.
LEMMA GetKeeps == ASSUME PoolInv, NEW w \in Actors, Get(w) PROVE PoolInv'
<1>1. CASE next' = [next EXCEPT ![w] = @ + 1] /\ UNCHANGED <<pc, job, future>>
  <2> USE DEF PoolInv
  <2>1. UNCHANGED <<tasks, stop>> /\ pc[w] = "get" /\ next[w] <= Len(Children[job[w]])
    BY DEF Get
  <2>2. job[w] \in Jobs /\ Len(Children[job[w]]) \in Nat
    BY <2>1, ChildrenAreTasks DEF Fit, Idle, Jobs, Actors, PoolTypeOK
  <2>3. PoolTypeOK'
    BY <1>1, <2>1, <2>2 DEF PoolTypeOK
  <2>4. Fit' /\ Placed' /\ GoneMeansDrained'
    BY <1>1, <2>1 DEF Fit, Placed, Queued, Running, GoneMeansDrained
  <2>5. Fresh'
    BY <1>1, <2>1, FreshStays DEF PoolTypeOK
  <2> QED  BY <2>3, <2>4, <2>5
<1>2. CASE Finish(w, "exception") /\ UNCHANGED next
  BY <1>2, FinishKeeps DEF Get
<1> QED  BY <1>1, <1>2 DEF Get

LEMMA PoolStep == ASSUME PoolInv, [PoolNext]_poolVars PROVE PoolInv'
<1>1. CASE Moves
  BY <1>1, MovesKeep
<1>2. ASSUME NEW w \in Workers, Take(w) PROVE PoolInv'
  BY <1>2, TakeKeeps
<1>3. ASSUME NEW w \in Actors, Enqueue(w) PROVE PoolInv'
  BY <1>3, EnqueueKeeps
<1>4. ASSUME NEW w \in Actors, FailEarly(w) \/ EnqueueThrows(w) \/ Complete(w) PROVE PoolInv'
  <2>1. PICK outcome \in {"value", "exception"} :
          Finish(w, outcome) /\ UNCHANGED <<tasks, stop, next>> /\ pc[w] \in {"submit", "get"}
    BY <1>4 DEF FailEarly, EnqueueThrows, Complete
  <2> QED  BY <2>1, FinishKeeps
<1>5. ASSUME NEW w \in Actors, Get(w) PROVE PoolInv'
  BY <1>5, GetKeeps
<1>6. CASE UNCHANGED poolVars
  BY <1>6 DEF poolVars, PoolInv, PoolTypeOK, Fit, Placed, Queued, Running, Fresh, GoneMeansDrained
<1> QED  BY <1>1, <1>2, <1>3, <1>4, <1>5, <1>6
         DEF PoolNext, WorkerStep, JobStep, Moves, Destroy, Ended

LEMMA PoolInvariant == PoolSpec => []PoolInv
BY InitPool, PoolStep, PTL DEF PoolSpec

-----------------------------------------------------------------------------
\* Every state is well formed, and a task somebody may wait for is exactly once in
\* the queue or in the hands of exactly one worker (enqueue, the worker's pop).
THEOREM TasksAlwaysPlaced == PoolSpec => []TasksArePlaced
<1>1. PoolInv => TasksArePlaced
  <2> SUFFICES ASSUME PoolInv, NEW t \in Tasks
               PROVE  LET queued == {i \in 1 .. Len(tasks) : tasks[i] = t}
                          running == {w \in Workers : job[w] = t}
                      IN /\ future[t] = "pending" <=> queued \cup running # {}
                         /\ queued = {} \/ running = {}
                         /\ \A i, j \in queued : i = j
                         /\ \A v, w \in running : v = w
    BY DEF TasksArePlaced, PendingIsSomewhere, PoolInv
  <2> DEFINE queued == {i \in 1 .. Len(tasks) : tasks[i] = t}
             running == {w \in Workers : job[w] = t}
  <2>1. (queued # {} <=> Queued(t)) /\ (running # {} <=> Running(t))
    BY DEF Queued, Running
  <2>2. (future[t] = "pending" <=> queued \cup running # {}) /\ (queued = {} \/ running = {})
    BY <2>1 DEF PoolInv, Placed
  <2>3. \A i, j \in queued : i = j
    BY DEF PoolInv, Placed
  <2>4. \A v, w \in running : v = w
    BY PoolAssumption DEF PoolInv, Placed
  <2> QED  BY <2>2, <2>3, <2>4
<1> QED  BY <1>1, PoolInvariant, PTL

\* ~ThreadPool leaves no task without a result, also after an exception of main,
\* and no worker returns before the stopped pool is empty.
THEOREM PoolIsLeftEmpty == PoolSpec => []PoolEndsEmpty
<1>1. PoolInv => PoolEndsEmpty
  <2> SUFFICES ASSUME PoolInv PROVE PoolEndsEmpty
    OBVIOUS
  <2>1. ASSUME pc[Main] = "end", NEW t \in Tasks PROVE future[t] = "none" \/ Ready(t)
    <3>1. /\ \A w \in Workers : pc[w] = "gone" /\ job[w] = NoJob
          /\ tasks = <<>>
      BY <2>1, PoolAssumption DEF PoolInv, Fit, Idle, GoneMeansDrained
    <3>2. ~Queued(t) /\ ~Running(t)
      BY <3>1, PoolAssumption DEF Queued, Running
    <3> QED  BY <3>2 DEF PoolInv, PoolTypeOK, Placed, Ready
  <2> QED  BY <2>1 DEF PoolEndsEmpty, DrainedAtEnd, PoolInv
<1> QED  BY <1>1, PoolInvariant, PTL

\* A future is set once: no step of the pool changes a value or an exception.
THEOREM ResultsStay == PoolSpec => ResultsAreFinal
<1>1. ASSUME PoolInv, [PoolNext]_poolVars, NEW t \in Tasks, Ready(t)
      PROVE  future'[t] = future[t]
  <2>1. CASE UNCHANGED future
    BY <2>1
  <2>2. ASSUME NEW w \in Actors, Enqueue(w) PROVE future'[t] = future[t]
    <3> DEFINE u == Children[job[w]][next[w]]
    <3>1. job[w] \in Jobs /\ next[w] \in 1 .. Len(Children[job[w]])
      BY <1>1, <2>2, ChildrenAreTasks DEF PoolInv, Fit, Idle, Jobs, Actors, PoolTypeOK, Enqueue
    <3>2. future[u] = "none"
      BY <1>1, <2>2, <3>1 DEF PoolInv, Fresh, Enqueue
    <3>3. future' = [future EXCEPT ![u] = "pending"] /\ u # t
      BY <1>1, <2>2, <3>2 DEF Enqueue, Ready
    <3> QED  BY <1>1, <3>3 DEF PoolInv, PoolTypeOK
  <2>3. ASSUME NEW w \in Actors, NEW outcome \in {"value", "exception"},
               Finish(w, outcome), pc[w] \in {"submit", "get"}
        PROVE  future'[t] = future[t]
    <3>1. CASE w = Main
      BY <2>3, <3>1 DEF Finish
    <3>2. CASE w # Main
      <4>1. future[job[w]] = "pending" /\ future' = [future EXCEPT ![job[w]] = outcome]
        BY <1>1, <2>3, <3>2 DEF Finish, PoolInv, Fit, Idle, Placed, Running, Actors
      <4> QED  BY <1>1, <4>1 DEF PoolInv, PoolTypeOK, Ready
    <3> QED  BY <3>1, <3>2
  <2>4. ASSUME NEW w \in Actors, JobStep(w) PROVE future'[t] = future[t]
    BY <2>1, <2>2, <2>3, <2>4
       DEF JobStep, FailEarly, EnqueueThrows, NotifyOne, StartGetting, Get, Complete
  <2>5. ASSUME NEW w \in Workers, WorkerStep(w) \/ SpuriousWake(w) PROVE UNCHANGED future
    BY <2>5 DEF WorkerStep, SpuriousWake, Wait, Exit, Take
  <2>6. Destroy \/ Ended \/ UNCHANGED poolVars => UNCHANGED future
    BY DEF Destroy, SetStop, NotifyAll, WorkersJoined, Ended, poolVars
  <2> QED  BY <1>1, <2>1, <2>4, <2>5, <2>6 DEF PoolNext
<1>2. PoolInv /\ [PoolNext]_poolVars
        => [\A t \in Tasks : Ready(t) => future'[t] = future[t]]_poolVars
  BY <1>1
<1> QED  BY <1>2, PoolInvariant, PTL DEF PoolSpec, ResultsAreFinal

-----------------------------------------------------------------------------
\* The global barrier.
\* BarrierTypeOK is inductive, and with it the counter stays below the value the waiters
\* wait for.
CountBelow == BarrierTypeOK /\ barrierCount < NumThreads

LEMMA CountBelowInit == BarrierInit => CountBelow
BY BarrierAssumption DEF BarrierInit, CountBelow, BarrierTypeOK, BarrierPlaces

LEMMA CountBelowStep == CountBelow /\ [BarrierNext]_barrierVars => CountBelow'
<1> SUFFICES ASSUME CountBelow, [BarrierNext]_barrierVars PROVE CountBelow'
  OBVIOUS
<1> USE BarrierAssumption DEF CountBelow, BarrierTypeOK, BarrierPlaces
<1>1. CASE UNCHANGED barrierVars
  BY <1>1 DEF barrierVars
<1>2. ASSUME NEW t \in Threads, ArriveEarly(t) PROVE CountBelow'
  BY <1>2 DEF IsLast, ArriveEarly
<1>3. ASSUME NEW t \in Threads, ArriveLast(t) PROVE CountBelow'
  BY <1>3 DEF IsLast, ResetCount, ArriveLast
<1>4. ASSUME NEW t \in Threads, WakeSpuriously(t) PROVE CountBelow'
  BY <1>4 DEF WakeSpuriously
<1>5. ASSUME NEW t \in Threads, Recheck(t) PROVE CountBelow'
  BY <1>5 DEF Recheck, WaitAgain, LeaveWait
<1> QED  BY <1>1, <1>2, <1>3, <1>4, <1>5 DEF BarrierNext

\* For any number of threads: the variables keep their types, and the counter
\* stays below the number of processors.
THEOREM BarrierTypeCorrect == BarrierSpec => []BarrierTypeOK
<1>1. CountBelow => BarrierTypeOK
  BY DEF CountBelow
<1> QED  BY <1>1, CountBelowInit, CountBelowStep, PTL DEF BarrierSpec

\* For any number of threads: a thread that has to wait in globalBarrier never
\* returns from it, whatever the wake-ups.
THEOREM WaitersAreStuck == BarrierSpec => WaitersNeverLeave
<1>1. CountBelow /\ [BarrierNext]_barrierVars
        => [\A t \in Threads : where[t] # "outside" => where'[t] # "outside"]_barrierVars
  <2> SUFFICES ASSUME CountBelow, BarrierNext, NEW t \in Threads, where[t] # "outside"
               PROVE  where'[t] # "outside"
    OBVIOUS
  <2> USE DEF CountBelow, BarrierTypeOK, BarrierPlaces
  <2>1. ASSUME NEW u \in Threads, ArriveEarly(u) \/ ArriveLast(u) PROVE where'[t] # "outside"
    BY <2>1 DEF IsLast, ArriveEarly, ResetCount, ArriveLast
  <2>2. ASSUME NEW u \in Threads, WakeSpuriously(u) PROVE where'[t] # "outside"
    BY <2>2 DEF WakeSpuriously
  <2>3. ASSUME NEW u \in Threads, Recheck(u) PROVE where'[t] # "outside"
    <3>1. ~WaitPredicate
      BY BarrierAssumption DEF WaitPredicate
    <3> QED  BY <2>3, <3>1 DEF Recheck, WaitAgain
  <2> QED  BY <2>1, <2>2, <2>3 DEF BarrierNext
<1> QED  BY <1>1, CountBelowInit, CountBelowStep, PTL DEF BarrierSpec, WaitersNeverLeave

-----------------------------------------------------------------------------
Inside == {t \in Threads : where[t] # "outside"}

\* Nobody has returned yet, and the counter counts the threads inside.
Filling == (\A t \in Threads : returns[t] = 0) /\ barrierCount = Cardinality(Inside)

\* One thread has returned, once; everybody else is stuck inside.
Released ==
  /\ NumThreads > 1
  /\ \E last \in Threads :
       /\ \A t \in Threads \ {last} : t \in Inside /\ returns[t] = 0
       /\ returns[last] = 1 /\ arrivals[last] >= 1
       /\ barrierCount = IF last \in Inside THEN 1 ELSE 0

BarrierInv ==
  /\ CountBelow
  /\ \A t \in Threads : returns[t] <= arrivals[t]
  /\ \A t \in Threads : t \in Inside => arrivals[t] >= 1
  /\ NumThreads = 1 \/ Filling \/ Released

LEMMA InsideFinite == IsFiniteSet(Threads) /\ Cardinality(Threads) = NumThreads
                      /\ IsFiniteSet(Inside)
<1>1. IsFiniteSet(1 .. NumThreads)
  BY FS_Interval, BarrierAssumption
<1>2. Cardinality(1 .. NumThreads) = IF 1 > NumThreads THEN 0 ELSE NumThreads - 1 + 1
  BY FS_Interval, BarrierAssumption
<1>3. Cardinality(Threads) = NumThreads
  BY <1>2, BarrierAssumption DEF Threads
<1>4. IsFiniteSet(Inside)
  BY <1>1, FS_Subset DEF Inside, Threads
<1> QED  BY <1>1, <1>3, <1>4 DEF Threads

LEMMA BarrierInvInit == BarrierInit => BarrierInv
<1> SUFFICES ASSUME BarrierInit PROVE BarrierInv
  OBVIOUS
<1>1. Inside = {}
  BY DEF BarrierInit, Inside
<1>2. Filling
  BY <1>1, FS_EmptySet DEF Filling, BarrierInit
<1> QED  BY <1>1, <1>2, CountBelowInit DEF BarrierInv, BarrierInit

LEMMA EarlyKeeps ==
  ASSUME BarrierInv, NEW t \in Threads, ArriveEarly(t), CountBelow'
  PROVE  BarrierInv'
<1>1. Inside' = Inside \cup {t} /\ t \notin Inside
  BY DEF IsLast, ArriveEarly, Inside, BarrierInv, CountBelow, BarrierTypeOK
<1>2. /\ \A u \in Threads : returns'[u] <= arrivals'[u]
      /\ \A u \in Threads : u \in Inside' => arrivals'[u] >= 1
  BY <1>1 DEF IsLast, ArriveEarly, BarrierInv, CountBelow, BarrierTypeOK
<1>3. CASE Filling
  <2>1. Cardinality(Inside') = Cardinality(Inside) + 1
    BY <1>1, InsideFinite, FS_AddElement
  <2>2. Filling'
    BY <1>3, <2>1 DEF Filling, IsLast, ArriveEarly
  <2> QED  BY <1>2, <2>2 DEF BarrierInv
<1>4. CASE Released
  <2>1. PICK last \in Threads :
           /\ \A u \in Threads \ {last} : u \in Inside /\ returns[u] = 0
           /\ returns[last] = 1 /\ arrivals[last] >= 1
           /\ barrierCount = IF last \in Inside THEN 1 ELSE 0
    BY <1>4 DEF Released
  <2>2. t = last
    BY <1>1, <2>1
  <2>3. Released'
    BY <1>1, <1>4, <2>1, <2>2 DEF Released, IsLast, ArriveEarly, BarrierInv, CountBelow, BarrierTypeOK
  <2> QED  BY <1>2, <2>3 DEF BarrierInv
<1> QED  BY <1>2, <1>3, <1>4 DEF BarrierInv

LEMMA LastKeeps ==
  ASSUME BarrierInv, NEW t \in Threads, ArriveLast(t), CountBelow'
  PROVE  BarrierInv'
<1>1. Inside' = Inside /\ t \notin Inside
  BY DEF IsLast, ResetCount, ArriveLast, Inside, BarrierInv, CountBelow, BarrierTypeOK
<1>2. /\ \A u \in Threads : returns'[u] <= arrivals'[u]
      /\ \A u \in Threads : u \in Inside' => arrivals'[u] >= 1
  BY <1>1 DEF IsLast, ResetCount, ArriveLast, BarrierInv, CountBelow, BarrierTypeOK
<1>3. CASE NumThreads > 1 /\ Filling
  <2>1. Cardinality(Inside) = NumThreads - 1
    BY <1>3, BarrierAssumption DEF Filling, IsLast, ResetCount, ArriveLast, BarrierInv, CountBelow, BarrierTypeOK
  <2>2. Cardinality(Inside \cup {t}) = Cardinality(Threads)
    <3>1. Cardinality(Inside \cup {t}) = Cardinality(Inside) + 1
      BY <1>1, InsideFinite, FS_AddElement
    <3> QED  BY <2>1, <3>1, InsideFinite, BarrierAssumption
  <2>3. Inside \cup {t} = Threads
    BY <2>2, InsideFinite, FS_Subset DEF Inside
  <2>4. \A u \in Threads \ {t} : u \in Inside' /\ returns'[u] = 0
    BY <1>1, <1>3, <2>3 DEF Filling, IsLast, ResetCount, ArriveLast, BarrierInv, CountBelow, BarrierTypeOK
  <2>5. returns'[t] = 1 /\ arrivals'[t] >= 1 /\ barrierCount' = 0 /\ t \notin Inside'
    BY <1>1, <1>3 DEF Filling, IsLast, ResetCount, ArriveLast, BarrierInv, CountBelow, BarrierTypeOK
  <2>6. Released'
    BY <1>3, <2>4, <2>5 DEF Released
  <2> QED  BY <1>2, <2>6 DEF BarrierInv
<1>4. CASE NumThreads > 1 /\ Released
  <2>1. PICK last \in Threads :
           /\ \A u \in Threads \ {last} : u \in Inside
           /\ barrierCount = IF last \in Inside THEN 1 ELSE 0
    BY <1>4 DEF Released
  <2>2. t = last /\ barrierCount = 0
    BY <1>1, <2>1
  <2> QED  BY <1>4, <2>2, BarrierAssumption DEF IsLast, ResetCount, ArriveLast
<1> QED  BY <1>2, <1>3, <1>4, BarrierAssumption DEF BarrierInv

LEMMA WakeKeeps ==
  ASSUME BarrierInv, NEW t \in Threads, WakeSpuriously(t) \/ Recheck(t), CountBelow'
  PROVE  BarrierInv'
<1>1. ~WaitPredicate
  BY BarrierAssumption DEF WaitPredicate, BarrierInv, CountBelow, BarrierTypeOK
<1>2. Inside' = Inside /\ UNCHANGED <<barrierCount, arrivals, returns>>
  BY <1>1 DEF WakeSpuriously, Recheck, WaitAgain, Inside, BarrierInv, CountBelow, BarrierTypeOK
<1> QED  BY <1>2 DEF BarrierInv, Filling, Released

\* For any number of threads: nobody returns from a call of globalBarrier before
\* every thread has made as many calls.
THEOREM BarrierIsSafe == BarrierSpec => []NobodyLeavesEarly
<1>1. BarrierInv /\ [BarrierNext]_barrierVars => BarrierInv'
  <2> SUFFICES ASSUME BarrierInv, [BarrierNext]_barrierVars PROVE BarrierInv'
    OBVIOUS
  <2>1. CountBelow'
    BY CountBelowStep DEF BarrierInv
  <2>2. CASE UNCHANGED barrierVars
    <3>1. Inside' = Inside
      BY <2>2 DEF barrierVars, Inside
    <3> QED  BY <2>1, <2>2, <3>1 DEF barrierVars, BarrierInv, Filling, Released
  <2>3. CASE BarrierNext
    BY <2>1, <2>3, EarlyKeeps, LastKeeps, WakeKeeps DEF BarrierNext
  <2> QED  BY <2>2, <2>3
<1>2. BarrierInv => NobodyLeavesEarly
  <2> SUFFICES ASSUME BarrierInv, NEW t \in Threads, NEW u \in Threads
               PROVE  returns[t] <= arrivals[u]
    BY DEF NobodyLeavesEarly
  <2> USE DEF BarrierInv, CountBelow, BarrierTypeOK
  <2>1. CASE NumThreads = 1
    <3>1. t = u
      BY <2>1 DEF Threads
    <3> QED  BY <3>1
  <2>2. CASE Filling
    BY <2>2 DEF Filling
  <2>3. CASE Released
    <3>1. PICK last \in Threads :
             /\ \A v \in Threads \ {last} : v \in Inside /\ returns[v] = 0
             /\ returns[last] = 1 /\ arrivals[last] >= 1
      BY <2>3 DEF Released
    <3>2. arrivals[u] >= 1
      BY <3>1
    <3>3. returns[t] <= 1
      BY <3>1
    <3> QED  BY <3>2, <3>3
  <2> QED  BY <2>1, <2>2, <2>3
<1> QED  BY <1>1, <1>2, BarrierInvInit, PTL DEF BarrierSpec
=============================================================================

SPECIFICATION ThreadsSpec
CONSTANTS
  Workers = {w1, w2, w3}
  Tasks <- NestedTasks
  Children <- NestedChildren
  MayThrow = {c1, t1}
  Root = root
  NumThreads = 4
  MaxRounds = 2
  NumProcs = 3
  Addresses = {a1}
  InterconnectLatency = 2
  WordModulus = 16
  MaxOps = 12
  c1 = c1
  c2 = c2
  t1 = t1
  t2 = t2
  root = root
INVARIANTS TasksArePlaced PoolEndsEmpty NobodyLeavesEarly DirectoryConsistent
PROPERTIES ResultsAreFinal PoolReturns HopsPaid

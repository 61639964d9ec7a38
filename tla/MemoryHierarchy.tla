-------------------------- MODULE MemoryHierarchy ---------------------------
(***************************************************************************)
(* MemoryHierarchy: an L1 cache with optional prefetching, and an L2 and   *)
(* an L3 that may be missing.  One call of access is one action: the       *)
(* program is single-threaded.  It has three ways to go: a hit in L1, a    *)
(* hit in the stream buffer, a miss.  The adaptive prefetcher computes a   *)
(* distance nothing reads, and is left out with the printed statistics.    *)
(***************************************************************************)
EXTENDS Cache

CONSTANTS
  AddressSpace,  \* addresses are unsigned and wrap at this power of two
  BlockSize,     \* bytes of a block, the same on every level
  Addresses,     \* the addresses of the trace
  L1Configs,     \* configurations of L1 to choose from
  L2, L3,        \* the configurations of L2 and L3
  Layouts,       \* which of "L2" and "L3" there are, to choose from
  Prefetching,   \* prefetchEnabled of L1, to choose from
  Distance,      \* prefetchDistance, the size of the stream buffer
  TableSize,     \* strideTableSize
  MaxAccesses    \* bound of the model: the length of the trace

\* The constructor of Cache divides the size by the associativity, and throws if
\* that leaves no set.
CacheConfigs == [numSets : Nat \ {0}, ways : Nat \ {0}, policy : PolicyNames,
                 writeBack : BOOLEAN]

\* A distance of 0 with prefetching enabled would make an empty vector.
ASSUME HierarchyAssumption ==
  /\ AddressSpace \in Nat \ {0} /\ BlockSize \in Nat \ {0}
  /\ AddressSpace % BlockSize = 0
  /\ Addresses \subseteq 0 .. AddressSpace - 1
  /\ L1Configs \subseteq CacheConfigs /\ L2 \in CacheConfigs /\ L3 \in CacheConfigs
  /\ Layouts \subseteq SUBSET {"L2", "L3"}
  /\ Prefetching \subseteq BOOLEAN
  /\ Distance \in Nat \ {0} /\ TableSize \in Nat \ {0} /\ MaxAccesses \in Nat

VARIABLES
  l1cfg, levels, prefetch,  \* the configuration: L1, the levels below, prefetchEnabled
  l1, l2, l3,               \* the caches
  predictor,                \* the table of the StridePredictor
  buffer,                   \* the addresses in the StreamBuffer
  aborted,                  \* whether the library has stopped the program (OverrunAborts)
  counts,                   \* the counters of the hierarchy, and the buffer's hits
  unsaved,                  \* ghost: the blocks whose last write is not in memory
  last,                     \* ghost: the block L1 was asked for last
  steps                     \* accesses so far

config == <<l1cfg, levels, prefetch>>
vars == <<l1cfg, levels, prefetch, l1, l2, l3, predictor, buffer, aborted, counts,
          unsaved, last, steps>>

Block(a) == a \div BlockSize

CounterNames == {"l1Reads", "l1Writes", "l1Misses", "l2Accesses", "l2Misses",
                 "l3Accesses", "l3Misses", "streamHits"}
NoCounts == [k \in CounterNames |-> 0]

Entry == [valid : BOOLEAN, lastAddress : 0 .. AddressSpace - 1,
          stride : 0 .. AddressSpace - 1, confidence : 0 .. 3]
NewEntry == [valid |-> FALSE, lastAddress |-> 0, stride |-> 0, confidence |-> 0]

\* A new stream buffer is filled with zeros, which are addresses like others.
Init ==
  /\ l1cfg \in L1Configs /\ levels \in Layouts /\ prefetch \in Prefetching
  /\ l1 = NewCache(l1cfg) /\ l2 = NewCache(L2) /\ l3 = NewCache(L3)
  /\ predictor = [i \in 0 .. TableSize - 1 |-> NewEntry]
  /\ buffer = [i \in 1 .. Distance |-> 0]
  /\ aborted = FALSE
  /\ counts = NoCounts
  /\ unsaved = {} /\ last = {} /\ steps = 0

-----------------------------------------------------------------------------
\* StridePredictor::update.  A stride is a difference modulo the address space.
Trained(e, a) ==
  LET stride == (a - e.lastAddress) % AddressSpace IN
  IF ~e.valid THEN [NewEntry EXCEPT !.valid = TRUE, !.lastAddress = a]
  ELSE IF stride = e.stride
    THEN [e EXCEPT !.lastAddress = a, !.confidence = Min({@ + 1, 3})]
    ELSE [e EXCEPT !.lastAddress = a, !.stride = stride, !.confidence = Max({@ - 1, 0})]

Update(a) ==
  IF prefetch THEN [predictor EXCEPT ![a % TableSize] = Trained(@, a)] ELSE predictor

\* getStride, after the update.
Stride(a) ==
  LET e == Update(a)[a % TableSize] IN
  IF e.valid /\ e.confidence >= 2 THEN e.stride ELSE 0

\* StreamBuffer::shift after a hit: everything up to the address goes, and the
\* resize that follows gives the buffer the size it already has.
Shifted(a) ==
  LET i == Min({j \in DOMAIN buffer : buffer[j] = a}) IN SubSeq(buffer, i + 1, Len(buffer))

\* StreamBuffer::prefetch.  After shift has emptied the vector the write to buffer[0]
\* is behind its end, which is undefined: it lands in the capacity the vector keeps,
\* where nothing reads it, as here, or a checking library stops the program.
Streamed(a) == [i \in DOMAIN buffer |-> (a + i - 1) % AddressSpace]

\* handlePrefetch, on cache c: what it installs, and what it asks of L2.  The
\* mutant does not look whether the block is already there.
PrefetchUnchecked(c, a, isWrite) ==
  LET target == (a + Stride(a)) % AddressSpace
      none == {[cache |-> c, requests |-> <<>>, buffer |-> buffer]}
  IN IF ~prefetch \/ isWrite \/ Stride(a) = 0 THEN none
     ELSE {[cache |-> r.cache, requests |-> r.requests, buffer |-> Streamed(target)]
             : r \in Install(l1cfg, c, Block(target), FALSE)}
Prefetch(c, a, isWrite) ==
  LET target == (a + Stride(a)) % AddressSpace
      none == {[cache |-> c, requests |-> <<>>, buffer |-> buffer]}
  IN IF ~prefetch \/ isWrite \/ Stride(a) = 0 THEN none
     ELSE IF Find(l1cfg, c, Block(target)) # {}
       THEN {[cache |-> c, requests |-> <<>>, buffer |-> Streamed(target)]}
       ELSE {[cache |-> r.cache, requests |-> r.requests, buffer |-> Streamed(target)]
               : r \in Install(l1cfg, c, Block(target), FALSE)}

-----------------------------------------------------------------------------
\* The requests of L1 go to L2, or without one to memory.
Below(requests) ==
  IF "L2" \in levels THEN Serve(L2, l2, requests)
  ELSE {[cache |-> l2, saved |-> Written(requests)]}

\* MemoryHierarchy::access after a miss in L1: L2, now in state c, is accessed
\* once more, and L3 if that missed.
Demand(c, b, isWrite) ==
  LET second == IF "L2" \in levels THEN Access(L2, c, b, isWrite)
                ELSE {[cache |-> c, hit |-> FALSE, requests |-> <<>>]}
      third(d) == IF d.hit \/ "L3" \notin levels
                    THEN {[cache |-> l3, hit |-> TRUE, requests |-> <<>>]}
                    ELSE Access(L3, l3, b, isWrite)
      names(d, e) ==
        {n \in {"l2Accesses", "l2Misses", "l3Accesses", "l3Misses"} :
           CASE n = "l2Accesses" -> "L2" \in levels
             [] n = "l2Misses"   -> "L2" \in levels /\ ~d.hit
             [] n = "l3Accesses" -> "L3" \in levels /\ ~d.hit
             [] n = "l3Misses"   -> ~e.hit}
  IN UNION {{[l2 |-> d.cache, l3 |-> e.cache, names |-> names(d, e),
              saved |-> Written(d.requests)] : e \in third(d)} : d \in second}

Count(names, isWrite) ==
  LET all == names \cup {IF isWrite THEN "l1Writes" ELSE "l1Reads"} IN
  counts' = [k \in CounterNames |-> IF k \in all THEN counts[k] + 1 ELSE counts[k]]

\* A block is in memory once it was written there and L1 has no newer copy.
Track(b, isWrite, saved) ==
  /\ unsaved' = (unsaved \cup IF isWrite THEN {b} ELSE {}) \ (saved \ Owed(l1cfg, l1'))
  /\ last' = {b}

Begin(a) ==
  /\ steps < MaxAccesses /\ ~aborted
  /\ steps' = steps + 1
  /\ predictor' = Update(a)
  /\ UNCHANGED <<config, aborted>>

\* access, a hit in L1.
Hit(a, isWrite) ==
  LET b == Block(a) IN
  /\ Begin(a)
  /\ Find(l1cfg, l1, b) # {}
  /\ LET r == OnHit(l1cfg, l1, b, isWrite) IN
     \E x \in Below(r.requests) :
       l1' = r.cache /\ l2' = x.cache /\ Track(b, isWrite, x.saved)
  /\ Count({}, isWrite)
  /\ UNCHANGED <<l3, buffer>>

\* access, a miss in L1 and a hit in the stream buffer: L1 counts a miss, the
\* hierarchy a hit, and no block is installed or written.
StreamHit(a, isWrite) ==
  LET b == Block(a) IN
  /\ Begin(a)
  /\ prefetch /\ Find(l1cfg, l1, b) = {} /\ a \in ToSet(buffer)
  /\ l1' = OnMiss(l1cfg, l1, b, isWrite)
  /\ buffer' = IF isWrite THEN buffer ELSE Shifted(a)
  /\ Count({"streamHits"}, isWrite)
  /\ last' = {}
  /\ UNCHANGED <<l2, l3, unsaved>>

\* access, a miss: the victim, the new block and the prefetched block go through
\* L1, what L1 asks for to L2, and then the hierarchy asks L2 and L3 itself.
Miss(a, isWrite) ==
  LET b == Block(a) IN
  /\ Begin(a)
  /\ Find(l1cfg, l1, b) = {} /\ (prefetch => a \notin ToSet(buffer))
  /\ \E i \in Install(l1cfg, OnMiss(l1cfg, l1, b, isWrite), b, isWrite) :
     \E p \in Prefetch(i.cache, a, isWrite) :
     \E x \in Below(i.requests \o p.requests) :
     \E d \in Demand(x.cache, b, isWrite) :
       /\ l1' = p.cache /\ l2' = d.l2 /\ l3' = d.l3
       /\ buffer' = p.buffer
       /\ Count({"l1Misses"} \cup d.names, isWrite)
       /\ Track(b, isWrite, x.saved \cup d.saved)

\* The other outcome of prefetch on an emptied stream buffer: the read that prefetches
\* never returns, and what the caches hold ends with the program.
OverrunAborts(a) ==
  /\ steps < MaxAccesses /\ ~aborted
  /\ prefetch /\ buffer = <<>> /\ Find(l1cfg, l1, Block(a)) = {} /\ Stride(a) # 0
  /\ aborted' = TRUE
  /\ UNCHANGED <<config, l1, l2, l3, predictor, buffer, counts, unsaved, last, steps>>

\* resetStats, of the hierarchy, of each cache and of the stream buffer; the last
\* access of the bounded trace comes after it.
ResetStats ==
  /\ counts # NoCounts /\ steps < MaxAccesses /\ ~aborted
  /\ counts' = NoCounts
  /\ l1' = ResetCounts(l1) /\ l2' = ResetCounts(l2) /\ l3' = ResetCounts(l3)
  /\ UNCHANGED <<config, predictor, buffer, aborted, unsaved, last, steps>>

\* The end of the trace, or of the program.
Ended == (steps = MaxAccesses \/ aborted) /\ UNCHANGED vars

Next ==
  \/ \E a \in Addresses, isWrite \in BOOLEAN :
       Hit(a, isWrite) \/ StreamHit(a, isWrite) \/ Miss(a, isWrite)
  \/ \E a \in Addresses : OverrunAborts(a)
  \/ ResetStats
  \/ Ended

Spec == Init /\ [][Next]_vars

-----------------------------------------------------------------------------
TypeOK ==
  /\ predictor \in [0 .. TableSize - 1 -> Entry]
  /\ buffer \in Seq(0 .. AddressSpace - 1) /\ aborted \in BOOLEAN
  /\ counts \in [CounterNames -> Nat]
  /\ unsaved \subseteq 0 .. (AddressSpace \div BlockSize) - 1

\* Prefetched, evicted and written blocks cross each other in one call, and still
\* no block is twice in a cache.
NoBlockTwice ==
  \A b \in 0 .. (AddressSpace \div BlockSize) - 1 :
    /\ Cardinality(Find(l1cfg, l1, b)) <= 1
    /\ Cardinality(Find(L2, l2, b)) <= 1
    /\ Cardinality(Find(L3, l3, b)) <= 1

\* The tables and the sets are well formed after any access.
WellFormed == TypeOK /\ NoBlockTwice

\* The stream buffer never shrinks: "Check that the buffer size is preserved", "Buffer
\* size should remain unchanged" (tests/unit/core/stream_buffer_test.cpp:107, 108).
StreamKeepsSize == Len(buffer) = Distance

\* Every write that L1 took is in memory, or a cache that the line can still be
\* written back from knows that it has to.
NoLostWrite ==
  unsaved \subseteq Owed(l1cfg, l1) \cup (IF "L2" \in levels THEN Owed(L2, l2) ELSE {})

\* With LRU and two ways, the prefetch behind an access never throws out the
\* block the access was for.
AccessedStays ==
  (l1cfg.policy = "LRU" /\ l1cfg.ways > 1) =>
    \A b \in last : Find(l1cfg, l1, b) # {}

\* The counters that three classes keep of the same accesses agree: a hit in the
\* stream buffer is a miss of L1 and none of the hierarchy; without prefetching
\* L2 sees every miss of L1 twice, once from L1 and once from the hierarchy.
StatisticsAgree ==
  LET s == l1.stats
      t == l2.stats
  IN /\ s["hits"] + s["misses"] = s["reads"] + s["writes"]
     /\ s["reads"] = counts["l1Reads"] /\ s["writes"] = counts["l1Writes"]
     /\ s["misses"] = counts["l1Misses"] + counts["streamHits"]
     /\ s["misses"] = s["Compulsory"] + s["Conflict"] + s["Capacity"]
     /\ counts["l3Accesses"] = (IF levels = {"L3"} THEN counts["l1Misses"]
                                ELSE IF "L3" \in levels THEN counts["l2Misses"] ELSE 0)
     /\ ("L2" \in levels /\ ~prefetch) =>
          t["hits"] + t["misses"]
            = 2 * counts["l1Misses"] + s["writeBacks"] + s["writeThroughs"]
=============================================================================

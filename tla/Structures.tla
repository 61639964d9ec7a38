----------------------------- MODULE Structures -----------------------------
(***************************************************************************)
(* The sequential data structures around a cache, the manager of its       *)
(* configuration and the reading of a trace, each on its own: a behaviour  *)
(* is one of the structure named by part, the others rest in an initial    *)
(* state.                                                                  *)
(***************************************************************************)
EXTENDS Integers, SequencesExt

CONSTANTS
  Ways, Policies,                  \* the sets of a cache, under these policies
  Addresses, MaxSize, MaxQueue, SizeModulus, \* the victim cache
  Lines,                           \* the write policies
  Writable, Entries, MaxRefusals,  \* the combining buffer
  MaxDistance, MaxOutcomes,        \* the adaptive prefetcher
  Sizes, Associativities, BlockSizes, Distances, \* the numbers of a configuration
  TraceLength, MaxCounted          \* the traces and how often they are read

VARIABLES
  part,
  policy, valid, state, idle, waited,
  blocks, fifo, size,
  rules, held, dirty, below,
  buffer, recent, refusals,
  strategy, distance, useful, useless, moved,
  config, variant, file, told,
  trace, position, failed, format, counted, returned, earlier,
  regions, overall, seen, stats, tracked

Set == INSTANCE CacheSet
Victims == INSTANCE VictimCache
Writes == INSTANCE WritePolicy WITH policy <- rules
Combining == INSTANCE WriteCombiningBuffer
Prefetcher == INSTANCE AdaptivePrefetcher
Manager == INSTANCE Configuration

\* Lines of all forms, reads and writes of three addresses; two regions that overlap.
Line(form, isWrite, address) == [form |-> form, isWrite |-> isWrite, address |-> address]
AnyRead(form) == Line(form, FALSE, 1)
SomeLines ==
  {Line("two", w, a) : w \in BOOLEAN, a \in 0..2}
    \cup {AnyRead(f) : f \in {"three", "json", "skip", "bad"}}
SomeTraces == UNION {[1..n -> SomeLines] : n \in 0..TraceLength}
SomeRegions == {[first |-> 0, last |-> 1, name |-> "low"], [first |-> 1, last |-> 1, name |-> "one"]}

Profiling == INSTANCE ProfiledTrace WITH Traces <- SomeTraces, Regions <- SomeRegions

ASSUME StructuresAssumption ==
  /\ Set!CacheSetAssumption /\ Victims!VictimCacheAssumption
  /\ Combining!BufferAssumption /\ Prefetcher!PrefetcherAssumption /\ TraceLength \in Nat
  /\ Profiling!ParserAssumption

set == <<policy, valid, state, idle, waited>>
victims == <<blocks, fifo, size>>
writes == <<rules, held, dirty, below>>
combining == <<buffer, recent, refusals>>
prefetcher == <<strategy, distance, useful, useless, moved>>
manager == <<config, variant, file, told>>
profiling == <<trace, position, failed, format, counted, returned, earlier,
               regions, overall, seen, stats, tracked>>
structures == <<part, set, victims, writes, combining, prefetcher, manager, profiling>>

StructuresInit ==
  /\ Set!Init /\ Victims!Init /\ Writes!Init /\ Combining!Init /\ Prefetcher!Init
  /\ Manager!Init /\ Profiling!TraceInit

StructuresNext ==
  /\ UNCHANGED part
  /\ IF part = "set" THEN Set!Next ELSE UNCHANGED set
  /\ IF part = "victims" THEN Victims!Next ELSE UNCHANGED victims
  /\ IF part = "writes" THEN Writes!Next ELSE UNCHANGED writes
  /\ IF part = "combining" THEN Combining!Next ELSE UNCHANGED combining
  /\ IF part = "prefetcher" THEN Prefetcher!Next ELSE UNCHANGED prefetcher
  /\ IF part = "manager" THEN Manager!Next ELSE UNCHANGED manager
  /\ IF part = "profiling" THEN Profiling!Next ELSE UNCHANGED profiling

StructuresSpec == StructuresInit /\ [][StructuresNext]_structures

\* What each of them promises, with its types, in the behaviours that are its own.
Promised(name, promise) == part = name => promise

\* LRU and FIFO throw out the oldest block and starve nobody.
OldestGoes == Promised("set", Set!TypeOK /\ Set!VictimIsOldest /\ Set!NoStarvation)

\* PLRU spares the block that was used last, as its comments say.
LastUsedIsSpared == Promised("set", Set!LastUsedIsSpared)

\* PLRU throws out the block that was used last, as its code says.
UsedLastIsVictim == Promised("set", Set!UsedLastIsVictim)

\* The victim cache files no address twice, and counts what it holds, as its test says.
AddressesAreUnique == Promised("victims", Victims!TypeOK /\ Victims!NoAddressTwice)
SizeStaysBounded == Promised("victims", Victims!SizeStaysBounded)

\* No write is forgotten by a policy, and none dropped in silence by the buffer.
WritesAreKept ==
  /\ Promised("writes", Writes!TypeOK /\ Writes!NoWriteForgotten)
  /\ Promised("combining", Combining!TypeOK /\ Combining!KeepsTheLatest)

\* The prefetch distance stays in range and recovers from prefetches that were no use.
DistanceRecovers ==
  Promised("prefetcher", Prefetcher!TypeOK /\ Prefetcher!DistanceRecovers)

\* The adaptive strategy becomes Stride once and for all.
SettlesOnStride == Prefetcher!SettlesOnStride

\* Configurations made without a file keep L1 and L2 in step, and compareConfigs
\* tells every two of them apart that a sweep makes different.
ComparedInFull == Promised("manager", Manager!TypeOK /\ Manager!ComparedInFull)

\* What a file in the manner of configs/ says of its levels is what is loaded.
FilesAreRead == Promised("manager", Manager!FilesAreRead)

\* Every access of a trace is returned once a pass, in its order, and what the profiler
\* is given is counted once, in all and by region.
EveryAccessIsCounted ==
  Promised("profiling", Profiling!TypeOK /\ Profiling!EveryAccessIsCounted)
=============================================================================

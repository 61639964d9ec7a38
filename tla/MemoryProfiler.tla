--------------------------- MODULE MemoryProfiler ---------------------------
(***************************************************************************)
(* MemoryProfiler: accesses are counted, all of them and by region.  The   *)
(* patterns it detects are functions of the last hundred addresses and of  *)
(* the strides between them; neither changes what is counted.              *)
(***************************************************************************)
EXTENDS Integers, FiniteSetsExt, SequencesExt

CONSTANT Regions  \* the regions a program may define: first and last address, name

VARIABLES
  regions,  \* in the order of their definition
  overall,  \* accessCount, readCount and writeCount
  seen,     \* the addresses in addressFrequency
  stats     \* regionStats, a partial function on the names

profiler == <<regions, overall, seen, stats>>

NoStats == [reads |-> 0, writes |-> 0, addresses |-> {}, unique |-> 0, first |-> 0]

ProfilerInit ==
  regions = <<>> /\ overall = [total |-> 0, reads |-> 0, writes |-> 0] /\ seen = {} /\ stats = <<>>

\* defineRegion; the programs never define a name twice.
DefineRegion(r) ==
  /\ r.name \notin DOMAIN stats
  /\ regions' = Append(regions, r)
  /\ stats' = [n \in DOMAIN stats \cup {r.name} |-> IF n = r.name THEN NoStats ELSE stats[n]]
  /\ UNCHANGED <<overall, seen>>

\* RegionStats::addAccess; 0 stands for no first address yet.
AddAccess(s, a) ==
  [reads     |-> s.reads + (IF a.isWrite THEN 0 ELSE 1),
   writes    |-> s.writes + (IF a.isWrite THEN 1 ELSE 0),
   addresses |-> s.addresses \cup {a.address},
   unique    |-> IF a.address \in s.addresses THEN s.unique ELSE s.unique + 1,
   first     |-> IF s.first = 0 \/ a.address < s.first THEN a.address ELSE s.first]

\* Regions may overlap: the one defined first has the access.  The mutant counts
\* it in every region that contains it.
Containing(address) == {i \in DOMAIN regions : regions[i].first <= address /\ address <= regions[i].last}
EveryRegion(address) ==
  IF Containing(address) = {} THEN {"unknown"} ELSE {regions[i].name : i \in Containing(address)}
RegionOf(address) ==
  IF Containing(address) = {} THEN {"unknown"} ELSE {regions[Min(Containing(address))].name}

TrackAccess(a) ==
  /\ overall' = [total  |-> overall.total + 1,
                 reads  |-> overall.reads + (IF a.isWrite THEN 0 ELSE 1),
                 writes |-> overall.writes + (IF a.isWrite THEN 1 ELSE 0)]
  /\ seen' = seen \cup {a.address}
  /\ stats' = [n \in DOMAIN stats \cup RegionOf(a.address) |->
                 LET s == IF n \in DOMAIN stats THEN stats[n] ELSE NoStats IN
                 IF n \in RegionOf(a.address) THEN AddAccess(s, a) ELSE s]
  /\ UNCHANGED regions

ResetProfiler ==
  /\ overall' = [total |-> 0, reads |-> 0, writes |-> 0] /\ seen' = {}
  /\ stats' = [n \in DOMAIN stats |-> NoStats]
  /\ UNCHANGED regions

-----------------------------------------------------------------------------
\* Every access is in exactly one region, also while regions are added: the regions
\* add up to the whole.  The first address of a region is its least, unless address
\* 0 was accessed, which the profiler takes for none.
RegionsAddUp ==
  /\ overall.reads = SumFunction([n \in DOMAIN stats |-> stats[n].reads])
  /\ overall.writes = SumFunction([n \in DOMAIN stats |-> stats[n].writes])
  /\ seen = UNION {stats[n].addresses : n \in DOMAIN stats}
  /\ \A n \in DOMAIN stats :
       /\ stats[n].unique = Cardinality(stats[n].addresses)
       /\ stats[n].addresses # {} /\ 0 \notin stats[n].addresses =>
            stats[n].first = Min(stats[n].addresses)
=============================================================================

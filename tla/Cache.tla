------------------------------- MODULE Cache --------------------------------
(***************************************************************************)
(* The class Cache as operators on cache records: the result of a call is  *)
(* the new cache, whether it hit, and the requests it makes to the next    *)
(* level, in their order; with the random policy a call has several        *)
(* results.  Blocks are numbered (address / blockSize).  cfg is the        *)
(* configuration: numSets, ways, policy and writeBack.  accessCount,       *)
(* lastAccess and prefetched of a block and the MESI transition counts are *)
(* only printed, and left out.                                             *)
(***************************************************************************)
EXTENDS ReplacementPolicy, Functions

MissTypes == {"Compulsory", "Conflict", "Capacity"}
StatNames == {"hits", "misses", "reads", "writes", "writeBacks", "writeThroughs"} \cup MissTypes
NoStats == [k \in StatNames |-> 0]

NoBlock == [valid |-> FALSE, dirty |-> FALSE, tag |-> 0, state |-> "I"]

NewCache(cfg) ==
  [sets  |-> [s \in 0 .. cfg.numSets - 1 |-> [w \in 0 .. cfg.ways - 1 |-> NoBlock]],
   repl  |-> [s \in 0 .. cfg.numSets - 1 |-> NewPolicy(cfg.ways)],
   stats |-> NoStats]

\* getTagAndSet, and back.
SetIndex(cfg, b) == b % cfg.numSets
Tag(cfg, b) == b \div cfg.numSets
BlockNumber(cfg, s, tag) == tag * cfg.numSets + s

\* findBlock: the ways of its set that hold the block.
Find(cfg, c, b) ==
  LET set == c.sets[SetIndex(cfg, b)] IN
  {w \in DOMAIN set : set[w].valid /\ set[w].tag = Tag(cfg, b)}

MissType(cfg, c, b) ==
  LET set == c.sets[SetIndex(cfg, b)] IN
  IF \E w \in DOMAIN set : ~set[w].valid THEN "Compulsory"
  ELSE IF cfg.ways < cfg.numSets THEN "Conflict" ELSE "Capacity"

RequiresWriteback(block) == block.dirty \/ block.state = "M"

\* The blocks a cache has to write to the level below some day.
Owed(cfg, c) ==
  {BlockNumber(cfg, p[1], c.sets[p[1]][p[2]].tag) :
     p \in {q \in (0 .. cfg.numSets - 1) \X (0 .. cfg.ways - 1) :
              c.sets[q[1]][q[2]].valid /\ RequiresWriteback(c.sets[q[1]][q[2]])}}

Counted(c, names) ==
  [c EXCEPT !.stats =
     [k \in StatNames |-> IF k \in names THEN c.stats[k] + 1 ELSE c.stats[k]]]

Kind(isWrite) == IF isWrite THEN "writes" ELSE "reads"

WriteRequest(b) == [block |-> b, isWrite |-> TRUE]
ReadRequest(b) == [block |-> b, isWrite |-> FALSE]
Written(requests) == {q.block : q \in {r \in ToSet(requests) : r.isWrite}}

-----------------------------------------------------------------------------
\* access, a hit.  A write-through write goes to the next level and leaves the
\* MESI state as it was.
OnHit(cfg, c, b, isWrite) ==
  LET s == SetIndex(cfg, b)
      w == Min(Find(cfg, c, b))
      through == isWrite /\ ~cfg.writeBack
      block == IF ~isWrite THEN c.sets[s][w]
               ELSE IF through THEN [c.sets[s][w] EXCEPT !.dirty = FALSE]
               ELSE [c.sets[s][w] EXCEPT !.dirty = TRUE, !.state = "M"]
      names == {"hits", Kind(isWrite)} \cup (IF through THEN {"writeThroughs"} ELSE {})
  IN [cache |-> [sets  |-> [c.sets EXCEPT ![s][w] = block],
                 repl  |-> [c.repl EXCEPT ![s] = OnAccess(cfg.policy, cfg.ways, @, w)],
                 stats |-> Counted(c, names).stats],
      hit |-> TRUE,
      requests |-> IF through THEN <<WriteRequest(b)>> ELSE <<>>]

\* access, a miss is counted and classified; the mutant counts it as a miss only.
OnMissUncounted(cfg, c, b, isWrite) == Counted(c, {"misses", MissType(cfg, c, b)})
OnMiss(cfg, c, b, isWrite) ==
  Counted(c, {"misses", Kind(isWrite), MissType(cfg, c, b)})

\* findVictim: the first invalid way, or what the policy selects.
Victims(cfg, c, s) ==
  LET invalid == {w \in DOMAIN c.sets[s] : ~c.sets[s][w].valid} IN
  IF invalid # {} THEN {[way |-> Min(invalid), after |-> c.repl[s]]}
  ELSE Selections(cfg.policy, cfg.ways, c.repl[s])

\* The write-back of a victim comes before the read of the new block; the mutant
\* writes back to the address of the new block.
EvictionToNewAddress(cfg, s, victim, b) ==
  IF victim.valid /\ RequiresWriteback(victim) THEN <<WriteRequest(b)>> ELSE <<>>
Eviction(cfg, s, victim, b) ==
  IF victim.valid /\ RequiresWriteback(victim)
    THEN <<WriteRequest(BlockNumber(cfg, s, victim.tag))>> ELSE <<>>

\* Victim, write-back, installBlock and onInstall; a written block is Modified,
\* under either write policy, any other Exclusive.
Install(cfg, c, b, isWrite) ==
  LET s == SetIndex(cfg, b)
      block == [valid |-> TRUE, dirty |-> isWrite, tag |-> Tag(cfg, b),
                state |-> IF isWrite THEN "M" ELSE "E"]
  IN {LET evicted == Eviction(cfg, s, c.sets[s][v.way], b) IN
      [cache |-> [sets  |-> [c.sets EXCEPT ![s][v.way] = block],
                  repl  |-> [c.repl EXCEPT ![s] = OnInstall(cfg.policy, cfg.ways, v.after, v.way)],
                  stats |-> [c.stats EXCEPT !["writeBacks"] = @ + Len(evicted)]],
       hit |-> FALSE,
       requests |-> evicted \o <<ReadRequest(b)>>] : v \in Victims(cfg, c, s)}

\* access of a cache without prefetching.
Access(cfg, c, b, isWrite) ==
  IF Find(cfg, c, b) # {} THEN {OnHit(cfg, c, b, isWrite)}
  ELSE Install(cfg, OnMiss(cfg, c, b, isWrite), b, isWrite)

\* The next level serves requests one after the other; it has no next level of
\* its own, so what it writes goes to memory.
ServeOne(cfg, results, q) ==
  UNION {{[cache |-> r.cache, saved |-> x.saved \cup Written(r.requests)]
            : r \in Access(cfg, x.cache, q.block, q.isWrite)} : x \in results}
Serve(cfg, c, requests) ==
  LET upTo[i \in 0 .. Len(requests)] ==
        IF i = 0 THEN {[cache |-> c, saved |-> {}]}
        ELSE ServeOne(cfg, upTo[i - 1], requests[i])
  IN upTo[Len(requests)]

\* resetStats.
ResetCounts(c) == [c EXCEPT !.stats = NoStats]
=============================================================================

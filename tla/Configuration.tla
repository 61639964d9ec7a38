---------------------------- MODULE Configuration ----------------------------
(***************************************************************************)
(* ConfigManager: one program makes a configuration from its arguments, a  *)
(* string, a file or out of nothing, varies it by parameter sweeps and     *)
(* compares the variants with it, or saves it; the next one may load what  *)
(* was saved.  A std::optional is a set of at most one element.  A file is *)
(* the sequence of its lines; names, the options that are only stored and  *)
(* the size of the stride table are left out.  The parsers write into an   *)
(* uninitialised L1.                                                       *)
(***************************************************************************)
EXTENDS Integers, SequencesExt

CONSTANTS Sizes, Associativities, BlockSizes, Distances \* the numbers a user gives

Replacements == {"LRU", "PLRU"}  \* of the five, which are treated alike
WritePolicies == {"WriteBack", "WriteThrough"}

VARIABLES
  config,   \* the configuration in use
  variant,  \* one that a sweep has made of it
  file,     \* a configuration file
  told      \* ghost: what the last file that was written is about

vars == <<config, variant, file, told>>

Zeroed ==
  [size |-> 0, associativity |-> 0, blockSize |-> 0, prefetch |-> FALSE, distance |-> 0,
   replacement |-> "LRU", write |-> "WriteBack"]

Level(size, ways, block, prefetch, distance) ==
  [Zeroed EXCEPT !.size = size, !.associativity = ways, !.blockSize = block,
                 !.prefetch = prefetch, !.distance = distance]

Unset == {Level(g, g, g, prefetch, g) : g \in Distances, prefetch \in BOOLEAN}

Hierarchy(l1, l2, strategies) ==
  [l1 |-> l1, l2 |-> l2, l3 |-> {}, stride |-> strategies, adaptive |-> strategies]

PowersOfTwo == {2^n : n \in 0..18}

\* CacheConfig::validate, without which the constructor throws.
Constructs(l) ==
  /\ l.size > 0 /\ l.associativity > 0 /\ l.blockSize \in PowersOfTwo
  /\ l.size % (l.associativity * l.blockSize) = 0
  /\ l.distance >= 0

Init == config = {} /\ variant = {} /\ file = {} /\ told = {}

-----------------------------------------------------------------------------
\* What the command line and a string both name.
Arguments ==
  [size1 : Sizes, ways1 : Associativities, size2 : Sizes, ways2 : Associativities, block : BlockSizes,
   prefetch : BOOLEAN, distance : Distances]

Requested(a) ==
  Hierarchy(Level(a.size1, a.ways1, a.block, a.prefetch, a.distance),
            IF a.size2 > 0 THEN {Level(a.size2, a.ways2, a.block, a.prefetch, a.distance)} ELSE {},
            a.prefetch)

Levels(c) == {c.l1} \cup c.l2

AcceptedArguments(a) ==
  /\ a.block \in PowersOfTwo /\ a.size1 \in PowersOfTwo /\ a.ways1 > 0
  /\ a.size2 > 0 => a.ways2 > 0
  /\ a.prefetch => a.distance > 0

\* main without a configuration file.
CreateFromCommandLine(a) ==
  /\ AcceptedArguments(a) /\ \A l \in Levels(Requested(a)) : Constructs(l)
  /\ config' = {Requested(a)} /\ told' = {}
  /\ UNCHANGED <<variant, file>>

ValidateConfig(c) ==
  /\ c.l1.size \in PowersOfTwo /\ c.l1.associativity > 0 /\ c.l1.blockSize \in PowersOfTwo
  /\ c.l1.prefetch => c.l1.distance > 0
  /\ \A l \in c.l2 : /\ l.size \in PowersOfTwo /\ l.associativity > 0
                     /\ l.blockSize = c.l1.blockSize

ParseConfigString(a) ==
  /\ \A l \in Levels(Requested(a)) : Constructs(l)
  /\ ValidateConfig(Requested(a))
  /\ config' = {Requested(a)} /\ told' = {}
  /\ UNCHANGED <<variant, file>>

\* 32 KB and 256 KB; the sweeps below replace these numbers by those of a user.
GetDefaultConfig ==
  /\ config' = {Hierarchy(Level(32768, 4, 64, TRUE, 4), {Level(262144, 8, 64, TRUE, 4)}, TRUE)}
  /\ told' = {} /\ UNCHANGED <<variant, file>>

-----------------------------------------------------------------------------
Parameters ==
  ({"l1_size", "l2_size"} \X Sizes) \cup ({"l1_assoc", "l2_assoc"} \X Associativities)
    \cup ({"block_size"} \X BlockSizes) \cup ({"prefetch_distance"} \X Distances)

\* An L2 that a sweep adds has eight ways and the rest from L1.
Added(c, size) == Level(size, 8, c.l1.blockSize, c.l1.prefetch, c.l1.distance)

\* The mutant forgets L2.
SweptDistanceL1(c, p, v) ==
  CASE p = "prefetch_distance" -> [c EXCEPT !.l1.distance = v]
    [] p = "block_size" -> [c EXCEPT !.l1.blockSize = v, !.l2 = {[l EXCEPT !.blockSize = v] : l \in c.l2}]
    [] OTHER -> c
SweptBoth(c, p, v) ==
  CASE p = "prefetch_distance" ->
         [c EXCEPT !.l1.distance = v, !.l2 = {[l EXCEPT !.distance = v] : l \in c.l2}]
    [] p = "block_size" ->
         [c EXCEPT !.l1.blockSize = v, !.l2 = {[l EXCEPT !.blockSize = v] : l \in c.l2}]
    [] OTHER -> c

Swept(c, p, v) ==
  CASE p = "l1_size"  -> [c EXCEPT !.l1.size = v]
    [] p = "l1_assoc" -> [c EXCEPT !.l1.associativity = v]
    [] p = "l2_size"  ->
         [c EXCEPT !.l2 = IF v <= 0 THEN {} ELSE
                          IF c.l2 = {} THEN {Added(c, v)} ELSE {[l EXCEPT !.size = v] : l \in c.l2}]
    [] p = "l2_assoc" -> [c EXCEPT !.l2 = {[l EXCEPT !.associativity = v] : l \in c.l2}]
    [] OTHER          -> SweptBoth(c, p, v)

Prefetching(c, on) ==
  [c EXCEPT !.l1.prefetch = on, !.l2 = {[l EXCEPT !.prefetch = on] : l \in c.l2},
            !.stride = on, !.adaptive = on]

\* generateParameterSweep for one value; it throws when it cannot construct an L2.
\* Sweeps of a configuration from a file are left out: told is empty.
Sweep(p, v) ==
  \E c \in config :
    /\ told = {}
    /\ p = "l2_size" /\ v > 0 /\ c.l2 = {} => Constructs(Added(c, v))
    /\ variant' = {Swept(c, p, v)}
    /\ UNCHANGED <<config, file, told>>

SweepPrefetch(on) ==
  \E c \in config :
    /\ told = {}
    /\ variant' = {Prefetching(c, on)}
    /\ UNCHANGED <<config, file, told>>

\* The program goes on with one of the variants.
Adopt ==
  /\ variant # {}
  /\ config' = variant /\ variant' = {}
  /\ UNCHANGED <<file, told>>

\* compareConfigs: the parameters it reports as different.  L2 is not asked for
\* its block size and its prefetching, nor anyone for policies and an L3.
DiffersIn(c, d) ==
  {f \in {"size", "associativity", "blockSize", "prefetch", "distance"} : c.l1[f] # d.l1[f]}
    \cup (IF (c.l2 = {}) # (d.l2 = {}) THEN {"L2 cache"} ELSE {})
    \cup {f \in {"size", "associativity"} : \E l \in c.l2, k \in d.l2 : l[f] # k[f]}
    \cup {f \in {"stride", "adaptive"} : c[f] # d[f]}
-----------------------------------------------------------------------------
Line(kind, name, value) == [kind |-> kind, name |-> name, value |-> value]
Open(s) == Line("open", s, "none")
Key(k, v) == Line("key", k, v)
Close == Line("close", "none", "none")
Blank == Line("blank", "none", "none")

WrittenJson(c) ==
  <<Key("l1_size", c.l1.size), Key("l1_assoc", c.l1.associativity), Key("block_size", c.l1.blockSize),
    Key("prefetch_enabled", c.l1.prefetch), Key("prefetch_distance", c.l1.distance)>>
  \o (IF c.l2 = {} THEN <<Key("l2_size", 0), Key("l2_assoc", 0)>>
      ELSE LET l == CHOOSE l \in c.l2 : TRUE
           IN  <<Key("l2_size", l.size), Key("l2_assoc", l.associativity)>>)
  \o <<Key("use_stride_prediction", c.stride), Key("use_adaptive_prefetching", c.adaptive), Close>>

\* Every section ends with an empty line.
WrittenIni(c) ==
  <<Open("General"), Blank, Open("L1Cache"), Key("size", c.l1.size),
    Key("associativity", c.l1.associativity), Key("block_size", c.l1.blockSize),
    Key("prefetch_enabled", c.l1.prefetch), Key("prefetch_distance", c.l1.distance), Blank,
    Open("L2Cache")>>
  \o (LET l == IF c.l2 = {} THEN Zeroed ELSE CHOOSE l \in c.l2 : TRUE
      IN  <<Key("size", l.size), Key("associativity", l.associativity),
            Key("prefetch_enabled", l.prefetch), Key("prefetch_distance", l.distance), Blank>>)
  \o <<Open("Prefetching"), Key("use_stride_prediction", c.stride),
       Key("use_adaptive_prefetching", c.adaptive), Blank>>

\* A program saves its configuration and ends.
SaveConfig(format) ==
  /\ variant = {} /\ file = {}
  /\ \E c \in config :
       /\ file' = {[format |-> format,
                    lines |-> IF format = "JSON" THEN WrittenJson(c) ELSE WrittenIni(c)]}
       /\ told' = {[format |-> format, saved |-> TRUE, hierarchy |-> c]}
  /\ config' = {} /\ UNCHANGED variant

-----------------------------------------------------------------------------
\* normalizeConfigKey, for the keys of a level.
Unnormalized(key) == key
Normalized(key) ==
  CASE key = "block_size"         -> "blockSize"
    [] key = "replacement_policy" -> "replacementPolicy"
    [] key = "write_policy"       -> "writePolicy"
    [] OTHER                      -> key

\* What a key says of its level, in JSON.  Unknown keys and policies say nothing.
JsonSet(l, key, v) ==
  CASE key = "size"          -> [l EXCEPT !.size = v]
    [] key = "associativity" -> [l EXCEPT !.associativity = v]
    [] key = "blockSize"     -> [l EXCEPT !.blockSize = v]
    [] key = "replacementPolicy" /\ v \in Replacements -> [l EXCEPT !.replacement = v]
    [] key = "writePolicy" /\ v \in WritePolicies      -> [l EXCEPT !.write = v]
    [] OTHER -> l

\* emplace: the level is there from the first key of its section on.
Started(level) == IF level = {} THEN {Zeroed} ELSE level

ToL1(c, key, v) == [c EXCEPT !.l1 = JsonSet(c.l1, key, v)]
ToL2(c, key, v) == [c EXCEPT !.l2 = {JsonSet(l, key, v) : l \in Started(c.l2)}]
ToL3(c, key, v) == [c EXCEPT !.l3 = {JsonSet(l, key, v) : l \in Started(c.l3)}]

\* A key outside of every section counts as one of L1.
JsonLine(s, line) ==
  CASE line.kind = "open"  -> [s EXCEPT !.section = line.name]
    [] line.kind = "close" -> [s EXCEPT !.section = "none"]
    [] line.kind = "key" /\ s.section \in {"perCoreL1", "l1", "none"} ->
         [s EXCEPT !.config = ToL1(s.config, Normalized(line.name), line.value)]
    [] line.kind = "key" /\ s.section \in {"sharedL2", "l2"} ->
         [s EXCEPT !.config = ToL2(s.config, Normalized(line.name), line.value)]
    [] line.kind = "key" /\ s.section \in {"sharedL3", "l3"} ->
         [s EXCEPT !.config = ToL3(s.config, Normalized(line.name), line.value)]
    [] OTHER -> s

AtLeastOne(d) == IF d = 0 THEN 1 ELSE d

JsonCompleted(c) ==
  [c EXCEPT
    !.l1.distance = AtLeastOne(c.l1.distance),
    !.l2 = {[l EXCEPT !.blockSize = IF l.blockSize = 0 THEN c.l1.blockSize ELSE l.blockSize,
                      !.distance = AtLeastOne(l.distance)] : l \in c.l2}]

Start(l1) == [section |-> "none", config |-> Hierarchy(l1, {}, FALSE)]

\* The same for INI, which also reads the prefetching but not the write policy.
IniSet(l, key, v) ==
  CASE key = "size"              -> [l EXCEPT !.size = v]
    [] key = "associativity"     -> [l EXCEPT !.associativity = v]
    [] key = "prefetch_enabled"  -> [l EXCEPT !.prefetch = v]
    [] key = "prefetch_distance" -> [l EXCEPT !.distance = v]
    [] key \in {"replacement_policy", "replacementPolicy"} /\ v \in Replacements ->
         [l EXCEPT !.replacement = v]
    [] OTHER -> l

IniToL1(c, key, v) ==
  [c EXCEPT !.l1 = IF key = "block_size" THEN [c.l1 EXCEPT !.blockSize = v] ELSE IniSet(c.l1, key, v)]
IniToL2(c, key, v) == [c EXCEPT !.l2 = {IniSet(l, key, v) : l \in Started(c.l2)}]
IniToStrategies(c, key, v) ==
  CASE key = "use_stride_prediction"    -> [c EXCEPT !.stride = v]
    [] key = "use_adaptive_prefetching" -> [c EXCEPT !.adaptive = v]
    [] OTHER                            -> c

IniLine(s, line) ==
  CASE line.kind = "open" -> [s EXCEPT !.section = line.name]
    [] line.kind = "key" /\ s.section = "L1Cache" ->
         [s EXCEPT !.config = IniToL1(s.config, line.name, line.value)]
    [] line.kind = "key" /\ s.section = "L2Cache" ->
         [s EXCEPT !.config = IniToL2(s.config, line.name, line.value)]
    [] line.kind = "key" /\ s.section = "Prefetching" ->
         [s EXCEPT !.config = IniToStrategies(s.config, line.name, line.value)]
    [] OTHER -> s

\* A file is read line by line from the state s on.
ReadLines(format, lines, s) ==
  LET read[i \in 0 .. Len(lines)] ==
        IF i = 0 THEN s
        ELSE IF format = "JSON" THEN JsonLine(read[i - 1], lines[i]) ELSE IniLine(read[i - 1], lines[i])
  IN  read[Len(lines)]

ParseJson(lines, l1) == {JsonCompleted(ReadLines("JSON", lines, Start(l1)).config)}

IniCompleted(c) == [c EXCEPT !.l2 = {[l EXCEPT !.blockSize = c.l1.blockSize] : l \in c.l2}]

\* An empty line has no first character that is not blank: substr throws.
ParseIni(lines, l1) ==
  IF \E i \in DOMAIN lines : lines[i].kind = "blank" THEN {}
  ELSE {IniCompleted(ReadLines("INI", lines, Start(l1)).config)}

\* The next program loads the file.  Whatever it finds is not validated.
LoadConfig ==
  /\ config = {}
  /\ \E f \in file, l1 \in Unset :
       config' = IF f.format = "JSON" THEN ParseJson(f.lines, l1) ELSE ParseIni(f.lines, l1)
  /\ file' = {} /\ told' = IF config' = {} THEN {} ELSE told
  /\ UNCHANGED variant

-----------------------------------------------------------------------------
\* Files as users write them, and the levels they are about; block size 0 is none.
Described(ways, blocks) ==
  [size : {8}, associativity : ways, blockSize : blocks, prefetch : {FALSE}, distance : {1},
   replacement : Replacements, write : WritePolicies]

\* A section of the configurations that come with the program: keys in either
\* spelling, and perhaps objects in it, which are then the last in it.
JsonSection(name, l, snake, nested) ==
  <<Open(name), Key("size", l.size), Key("associativity", l.associativity)>>
  \o (IF l.blockSize = 0 THEN <<>>
      ELSE <<Key(IF snake THEN "block_size" ELSE "blockSize", l.blockSize)>>)
  \o <<Key(IF snake THEN "replacement_policy" ELSE "replacementPolicy", l.replacement)>>
  \o (IF nested THEN <<Open("write_policy"), Key("update", l.write), Close>>
      ELSE <<Key(IF snake THEN "write_policy" ELSE "writePolicy", l.write)>>)
  \o <<Close>>

IniSection(name, l) ==
  <<Open(name), Key("size", l.size), Key("associativity", l.associativity),
    Key("block_size", l.blockSize), Key("prefetch_enabled", l.prefetch),
    Key("prefetch_distance", l.distance), Key("replacement_policy", l.replacement)>>

\* What is understood of a level: no write policy in a nested object or in INI, and
\* the block size of L1 where there is none and in INI.
Understood(l, l1, format, nested) ==
  [l EXCEPT !.write = IF format = "INI" \/ nested THEN "WriteBack" ELSE l.write,
            !.blockSize = IF format = "INI" \/ l.blockSize = 0 THEN l1.blockSize ELSE l.blockSize]

WriteFile(format, l1, l2, snake, nested, l2First) ==
  LET Section(name, l) == IF format = "JSON" THEN JsonSection(name, l, snake, nested)
                                             ELSE IniSection(name, l)
      first  == Section(IF format = "JSON" THEN "l1" ELSE "L1Cache", l1)
      second == IF l2 = {} THEN <<>>
                ELSE Section(IF format = "JSON" THEN "l2" ELSE "L2Cache", CHOOSE l \in l2 : TRUE)
  IN
  /\ file' = {[format |-> format, lines |-> IF l2First THEN second \o first ELSE first \o second]}
  /\ told' = {[format |-> format, saved |-> FALSE,
               hierarchy |-> Hierarchy(Understood(l1, l1, format, nested),
                                       {Understood(l, l1, format, nested) : l \in l2}, FALSE)]}
  /\ UNCHANGED <<config, variant>>

\* Without a file main makes a configuration; or a user writes a file for it.
Begin ==
  /\ config = {} /\ file = {}
  /\ \/ \E a \in Arguments : CreateFromCommandLine(a) \/ ParseConfigString(a)
     \/ GetDefaultConfig
     \/ \E format \in {"JSON", "INI"}, l1 \in Described(Associativities, BlockSizes \ {0}),
           l2 \in {{}} \cup {{l} : l \in Described({8}, BlockSizes \cup {0})},
           snake, nested, l2First \in BOOLEAN : WriteFile(format, l1, l2, snake, nested, l2First)

Next ==
  \/ Begin
  \/ \E pv \in Parameters : Sweep(pv[1], pv[2])
  \/ \E on \in BOOLEAN : SweepPrefetch(on)
  \/ Adopt
  \/ \E format \in {"JSON", "INI"} : SaveConfig(format)
  \/ LoadConfig

Spec == Init /\ [][Next]_vars

-----------------------------------------------------------------------------
TypeOK ==
  /\ \A c \in config \cup variant :
       /\ DOMAIN c = {"l1", "l2", "l3", "stride", "adaptive"}
       /\ c.stride \in BOOLEAN /\ c.adaptive \in BOOLEAN
       /\ \A l \in Levels(c) : DOMAIN l = DOMAIN Zeroed
  /\ \A f \in file : f.format \in {"JSON", "INI"}

\* A configuration that no file was read for keeps its levels in step, through any
\* sweeps, and so compareConfigs, which asks L1 only, finds every real difference.
ComparedInFull ==
  told = {} =>
    \A c \in config :
      /\ \A l \in c.l2 : \A f \in {"blockSize", "prefetch", "distance"} : l[f] = c.l1[f]
      /\ \A v \in variant : v # c <=> DiffersIn(c, v) # {}

\* A configuration read from a file a user wrote says of both levels what the file says,
\* whatever the order of its sections: an L2 without a block size has that of L1.
Geometry(l) == [f \in DOMAIN l \ {"prefetch", "distance"} |-> l[f]]
FilesAreRead ==
  file = {} =>
    \A c \in config, t \in told :
      ~t.saved => Geometry(c.l1) = Geometry(t.hierarchy.l1) /\ c.l2 = t.hierarchy.l2
=============================================================================

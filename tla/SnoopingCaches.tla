--------------------------- MODULE SnoopingCaches ---------------------------
(***************************************************************************)
(* Caches that follow one of the protocols and snoop on a bus: a miss is   *)
(* one transaction, in which the requestor learns whether somebody else    *)
(* has a copy, every other cache applies its remote handler, and whoever   *)
(* ceases to be responsible for a modified line writes it back.  The bus   *)
(* is external: it is what coherence_protocol.h says of the parameters and *)
(* of the remote handlers.  Reads that hit change nothing.                 *)
(***************************************************************************)
EXTENDS CoherenceProtocol

CONSTANTS Caches, Lines

VARIABLES
  protocol,  \* the protocol of all caches
  state,     \* state[l][c]: the state of line l in cache c
  newest,    \* ghost, newest[l]: the caches that hold the last write to l
  saved      \* ghost: the lines whose last write is in memory

snoopVars == <<protocol, state, newest, saved>>

SnoopInit ==
  /\ protocol \in Protocols
  /\ state = [l \in Lines |-> [c \in Caches |-> "I"]]
  /\ newest = [l \in Lines |-> {}]
  /\ saved = Lines

SharedCopy(c, l) == \E d \in Caches \ {c} : IsValid(state[l][d])

\* The line after a transaction of c: c in state s, the others by their handler.
ReadSnooped(c, l, s) ==
  [d \in Caches |-> IF d = c THEN s ELSE RemoteRead(protocol, state[l][d])]
WriteSnooped(c, l, s) ==
  [d \in Caches |-> IF d = c THEN s ELSE RemoteWrite(protocol, state[l][d])]

\* The caches that were responsible for the line and are no longer in line n.
Flushing(l, n) ==
  {d \in Caches : RequiresWriteback(state[l][d]) /\ ~RequiresWriteback(n[d])}

Suppliers(c, l) == {d \in Caches \ {c} : CanSupplyData(protocol, state[l][d])}

\* Whether c may end up with the last write when it fetches the line, and
\* whether the transaction brings that write to memory.
Fetches(c, l) ==
  {d \in newest[l] : d \in Suppliers(c, l)} # {} \/ (Suppliers(c, l) = {} /\ l \in saved)
Flushed(l, n) == Flushing(l, n) \cap newest[l] # {}

-----------------------------------------------------------------------------
\* A read that misses.
ReadMiss(c, l) ==
  LET n == ReadSnooped(c, l, LocalRead(protocol, state[l][c], SharedCopy(c, l))) IN
  /\ ~IsValid(state[l][c])
  /\ state' = [state EXCEPT ![l] = n]
  /\ newest' = [newest EXCEPT ![l] = IF Fetches(c, l) THEN @ \cup {c} ELSE @ \ {c}]
  /\ saved' = IF Flushed(l, n) THEN saved \cup {l} ELSE saved
  /\ UNCHANGED protocol

\* A write, to a copy or after a fetch.  It is lost on a copy that is out of date:
\* the rest of the line then is not what was written last.
Write(c, l) ==
  LET current == IF IsValid(state[l][c]) THEN c \in newest[l] ELSE Fetches(c, l) IN
  /\ state' = [state EXCEPT ![l] = WriteSnooped(c, l, LocalWrite(protocol, state[l][c]))]
  /\ newest' = [newest EXCEPT ![l] = IF current THEN {c} ELSE {}]
  /\ saved' = saved \ {l}
  /\ UNCHANGED protocol

\* The line is evicted, and saved when the protocol says so.
Evict(c, l) ==
  /\ IsValid(state[l][c])
  /\ state' = [state EXCEPT ![l][c] = Eviction(protocol, state[l][c])]
  /\ newest' = [newest EXCEPT ![l] = @ \ {c}]
  /\ saved' = IF RequiresWriteback(state[l][c]) /\ c \in newest[l] THEN saved \cup {l} ELSE saved
  /\ UNCHANGED protocol

SnoopNext == \E c \in Caches, l \in Lines : ReadMiss(c, l) \/ Write(c, l) \/ Evict(c, l)

SnoopSpec == SnoopInit /\ [][SnoopNext]_snoopVars

-----------------------------------------------------------------------------
SnoopTypeOK ==
  /\ protocol \in Protocols
  /\ state \in [Lines -> [Caches -> States(protocol)]]
  /\ newest \in [Lines -> SUBSET Caches]
  /\ saved \subseteq Lines

\* At most one cache is responsible for a line that memory does not have, and
\* while memory does not have it there is one: the last write is never lost.
LastWriteIsOwed ==
  \A l \in Lines :
    /\ \A c, d \in Caches :
         RequiresWriteback(state[l][c]) /\ RequiresWriteback(state[l][d]) => c = d
    /\ l \notin saved => \E c \in Caches : RequiresWriteback(state[l][c])

\* A read that hits returns the last write of any cache, also from a copy that was
\* fetched from an owner that never wrote it back.
CopiesAreCurrent ==
  \A l \in Lines : \A c \in Caches : IsValid(state[l][c]) => c \in newest[l]

\* The right of a cache, in the words of the directory: an owner may only read.
Right(s) == IF s = "O" THEN "S" ELSE s

BusLine == INSTANCE CoherentLine WITH
  Procs <- Caches, Addresses <- Lines,
  held <- [l \in Lines |-> [c \in Caches |-> Right(state[l][c])]]

\* All three protocols implement the line that the directory implements.
SnoopsImplementLine == BusLine!LineSpec
=============================================================================

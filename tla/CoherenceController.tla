------------------------- MODULE CoherenceController -------------------------
(***************************************************************************)
(* The coherence directory of the multi-processor simulator: class         *)
(* CoherenceController of core/multiprocessor.  Every operation on the     *)
(* directory holds directoryMutex_ from its first to its last line, so     *)
(* each is one action here; resetStats takes no mutex and is one action    *)
(* for each of its stores.  The directory is keyed by the ADDRESS of the   *)
(* access (not by its block).  lastAccess_ (written, never read) is left   *)
(* out.                                                                    *)
(***************************************************************************)
EXTENDS Integers, FiniteSets, Functions

CONSTANTS
  NumProcs,              \* numProcessors_
  Addresses,             \* the byte addresses the clients use
  InterconnectLatency,   \* interconnectLatency_
  WordModulus,           \* 2^32: processor ids are uint32_t, owner_ is int32_t
  MaxOps                 \* bound of the model: the sum of the counters in stats

ASSUME ControllerAssumption ==
  /\ NumProcs \in Nat \ {0}
  /\ InterconnectLatency \in Nat
  /\ WordModulus \in Nat /\ 2 * NumProcs < WordModulus
  /\ MaxOps \in Nat

VARIABLES
  directory,   \* the DirectoryEntry of each address
  known,       \* the keys of directory_: addresses that have an entry
  stats,       \* the atomic counters
  response     \* the CoherenceResponse last returned, with its request

dirVars == <<directory, known, stats, response>>

Procs == 0 .. NumProcs - 1
None == -1
MESI == {"M", "E", "S", "I"}
Requests == {"Read", "Write", "Invalidate", "Writeback", "Share", "Flush"}

\* The conversion of owner_ (int32_t) to an element of a uint32_t container.
ToUnsigned(i) == IF i < 0 THEN i + WordModulus ELSE i
Phantom == ToUnsigned(None)
Ids == Procs \cup {Phantom}

DirectoryEntry ==
  [state : MESI, owner : Procs \cup {None}, sharers : SUBSET Ids, dirty : BOOLEAN]

\* What getOrCreateEntry default-constructs.
NewEntry == [state |-> "I", owner |-> None, sharers |-> {}, dirty |-> FALSE]

Counters == {"readRequests", "writeRequests", "invalidations", "writebacks",
             "stateTransitions", "coherenceMessages"}
ZeroStats == [c \in Counters |-> 0]

NoResponse == [request |-> "None", requestor |-> None, address |-> None, granted |-> FALSE,
               newState |-> "Uninitialized", latency |-> 0, invalidated |-> {}]

\* The model stops counting (and serving) when the counters have reached MaxOps.
Budget == SumFunction(stats) < MaxOps

-----------------------------------------------------------------------------
\* The list with the owner but without the sharers.
InvalidateOwnerOnly(e, exclude) ==
  IF e.owner >= 0 /\ e.owner # exclude THEN {e.owner} ELSE {}

\* Who is in the vector invalidateSharers returns: nothing depends on its order.
InvalidateSharers(e, exclude) ==
  {s \in e.sharers : s # exclude}
    \cup (IF e.owner >= 0 /\ e.owner # exclude THEN {e.owner} ELSE {})

\* How long the vector is.  The owner is appended without a look at the sharers: one
\* who is among them is listed twice, and charged twice.
ListLength(e, exclude) ==
  Cardinality({s \in e.sharers : s # exclude})
    + (IF e.owner >= 0 /\ e.owner # exclude THEN 1 ELSE 0)

\* An owner loses its exclusive right to a reader: the owner is not reset, or is
\* not kept among the sharers.
DowngradedKeepsOwner(e, p) ==
  [e EXCEPT !.state = "S", !.sharers = @ \cup {ToUnsigned(e.owner), p}]
DowngradedForgetsOwner(e, p) ==
  [e EXCEPT !.state = "S", !.owner = None, !.sharers = @ \cup {p}]

Downgraded(e, p) ==
  [e EXCEPT !.state = "S", !.owner = None, !.sharers = @ \cup {ToUnsigned(e.owner), p}]

\* A reader joins, or is forgotten.
JoinedNot(e, p) == e
Joined(e, p) == [e EXCEPT !.sharers = @ \cup {p}]

\* A writer takes the line over, or forgets to mark it dirty.
OwnedClean(e, p) == [e EXCEPT !.state = "M", !.owner = p]
Owned(e, p) == [e EXCEPT !.state = "M", !.owner = p, !.dirty = TRUE]

\* A processor drops its copy, or the entry is left as it is.
DroppedNot(e, p) == e
Dropped(e, p) ==
  [e EXCEPT !.sharers = @ \ {p}, !.owner = IF @ = p THEN None ELSE @]

\* Whether p may go ahead without asking.  An address without an entry is free.
CheckPermission(p, a, isWrite) ==
  LET e == directory[a] IN
  \/ a \notin known
  \/ isWrite /\ e.state = "M" /\ e.owner = p
  \/ ~isWrite /\ e.state = "S" /\ p \in e.sharers
  \/ ~isWrite /\ e.state \in {"E", "M"} /\ e.owner = p

\* The state of the line as processor p is entitled to see it.
ViewOf(e, p) ==
  IF e.state = "S" /\ p \in e.sharers THEN "S"
  ELSE IF e.state \in {"E", "M"} /\ e.owner = p THEN e.state
  ELSE "I"

GetCacheLineState(p, a) == ViewOf(directory[a], p)

\* The end of processRequest: the entry is stored, the message counted and the
\* response returned.  "more" are the counters the branch itself increased.
Respond(p, a, req, entry, more, reply) ==
  /\ directory' = [directory EXCEPT ![a] = entry]
  /\ known' = known \cup {a}
  /\ stats' = [[c \in Counters |-> stats[c] + more[c]]
                 EXCEPT !["coherenceMessages"] = @ + 1]
  /\ response' = [request |-> req, requestor |-> p, address |-> a,
                  granted |-> reply.granted, newState |-> reply.newState,
                  latency |-> InterconnectLatency * (1 + reply.hops),
                  invalidated |-> reply.invalidated]

Count(names) == [c \in Counters |-> IF c \in names THEN 1 ELSE 0]

\* A granted response, and one that forgets the extra hops.
GrantWithoutHops(st, hops, invalidated) ==
  [granted |-> TRUE, newState |-> st, hops |-> 0, invalidated |-> invalidated]
Grant(st, hops, invalidated) ==
  [granted |-> TRUE, newState |-> st, hops |-> hops, invalidated |-> invalidated]

-----------------------------------------------------------------------------
\* processRequest, ReadRequest.
ReadRequest(p, a) ==
  LET e == directory[a]
      Reply(entry, st, hops) ==
        Respond(p, a, "Read", entry, Count({"readRequests"}), Grant(st, hops, {}))
  IN
  /\ Budget
  /\ \/ /\ e.state = "I"
        /\ Reply([e EXCEPT !.state = "E", !.owner = p], "E", 0)
     \/ /\ e.state \in {"E", "M"} /\ e.owner = p
        /\ Reply(e, e.state, 0)
     \/ /\ e.state \in {"E", "M"} /\ e.owner # p
        /\ Reply(Downgraded(e, p), "S", 1)
     \/ /\ e.state = "S"
        /\ Reply(Joined(e, p), "S", 0)

\* processRequest, WriteRequest.
WriteRequest(p, a) ==
  LET e == directory[a]
      Reply(entry, victims, length) ==
        Respond(p, a, "Write", entry,
                [Count({"writeRequests"}) EXCEPT !["invalidations"] = length],
                Grant("M", length, victims))
  IN
  /\ Budget
  /\ \/ /\ e.state = "I" \/ (e.state \in {"E", "M"} /\ e.owner = p)
        /\ Reply(Owned(e, p), {}, 0)
     \/ /\ e.state \in {"E", "M"} /\ e.owner # p
        /\ Reply(Owned(e, p), {ToUnsigned(e.owner)}, 1)
     \/ /\ e.state = "S"
        /\ Reply([Owned(e, p) EXCEPT !.sharers = {}], InvalidateSharers(e, p), ListLength(e, p))

\* processRequest, InvalidateRequest.  dirty_ stays as it was, newState unset.
InvalidateRequest(p, a) ==
  LET e == directory[a] IN
  /\ Budget
  /\ Respond(p, a, "Invalidate",
             [e EXCEPT !.state = "I", !.owner = None, !.sharers = {}],
             Count({"invalidations"}),
             Grant("Uninitialized", 0, InvalidateSharers(e, p)))

\* processRequest, WritebackRequest: granted to the owner only.
WritebackRequest(p, a) ==
  LET e == directory[a]
      own == e.owner = p
  IN
  /\ Budget
  /\ Respond(p, a, "Writeback", IF own THEN [e EXCEPT !.dirty = FALSE] ELSE e,
             Count({"writebacks"}),
             [Grant("Uninitialized", 0, {}) EXCEPT !.granted = own])

\* processRequest has no case for these kinds: an entry, a message, no grant.
UnhandledRequest(p, a, kind) ==
  /\ Budget
  /\ Respond(p, a, kind, directory[a], Count({}),
             [Grant("Uninitialized", 0, {}) EXCEPT !.granted = FALSE])

\* updateCacheState: only a transition to Invalid changes the entry, and it
\* leaves the state_ of the entry alone.
UpdateCacheState(p, a, newState) ==
  /\ Budget
  /\ known' = known \cup {a}
  /\ stats' = [stats EXCEPT !["stateTransitions"] = @ + 1]
  /\ directory' =
       IF newState = "I" THEN [directory EXCEPT ![a] = Dropped(@, p)] ELSE directory
  /\ UNCHANGED response

\* handleWriteback.
HandleWriteback(p, a) ==
  /\ Budget
  /\ known' = known \cup {a}
  /\ stats' = [stats EXCEPT !["writebacks"] = @ + 1]
  /\ directory' = IF directory[a].owner = p
                  THEN [directory EXCEPT ![a].dirty = FALSE]
                  ELSE directory
  /\ UNCHANGED response

\* resetStats takes no mutex: it stores 0 into the six atomics one by one while other
\* threads are served, and so also in the middle of a request.  Here every store may
\* come at any time, so that every mixture of old and new counts is reached.
ResetStats ==
  \E c \in Counters :
    /\ stats' = [stats EXCEPT ![c] = 0]
    /\ UNCHANGED <<directory, known, response>>

-----------------------------------------------------------------------------
Init ==
  /\ directory = [a \in Addresses |-> NewEntry]
  /\ known = {}
  /\ stats = ZeroStats
  /\ response = NoResponse

\* What ProcessorCore::access and atomicAccess call.
AccessStep(p, a) ==
  \/ ReadRequest(p, a)
  \/ WriteRequest(p, a)
  \/ \E st \in {"M", "S"} : UpdateCacheState(p, a, st)

\* The rest of the public interface.
ClientStep(p, a) ==
  \/ InvalidateRequest(p, a)
  \/ WritebackRequest(p, a)
  \/ \E kind \in {"Share", "Flush"} : UnhandledRequest(p, a, kind)
  \/ UpdateCacheState(p, a, "I")
  \/ HandleWriteback(p, a)

AccessNext == \E p \in Procs, a \in Addresses : AccessStep(p, a)

Next == \/ \E p \in Procs, a \in Addresses : AccessStep(p, a) \/ ClientStep(p, a)
        \/ ResetStats

\* Any client of the public interface.
Spec == Init /\ [][Next]_dirVars

\* The simulator: the calls the processor cores make while they run traces.
AccessSpec == Init /\ [][AccessNext]_dirVars

-----------------------------------------------------------------------------
TypeOK ==
  /\ directory \in [Addresses -> DirectoryEntry]
  /\ known \subseteq Addresses
  /\ stats \in [Counters -> Nat]
  /\ response.requestor \in Procs \cup {None}
  /\ response.request \in Requests \cup {"None"}
  /\ response.invalidated \subseteq Ids

\* Whatever the clients call, an entry keeps sharers only while it is Shared and
\* an owner only while it is not: no request can turn the leftovers of an
\* earlier state of the line into rights of a later one.
NoLeftovers ==
  \A a \in Addresses : LET e == directory[a] IN
     /\ e.state # "S" => e.sharers = {}
     /\ e.state \in {"S", "I"} => e.owner = None

\* The directory seen through getCacheLineState implements CoherentLine.
Views == [a \in Addresses |-> [p \in Procs |-> GetCacheLineState(p, a)]]
Line == INSTANCE CoherentLine WITH held <- Views

\* Whatever sequence of calls the clients make, the views the directory hands
\* out obey the single-writer / multiple-readers discipline of CoherentLine,
\* step by step.
LineSpec == Line!LineSpec

\* A processor whose view is lost to somebody's request, other than the
\* requestor itself, is named in response.invalidatedProcessors.
VictimsNamed ==
  [][\A a \in Addresses : \A q \in Procs :
       (/\ stats'["coherenceMessages"] > stats["coherenceMessages"]
        /\ GetCacheLineState(q, a) # "I" /\ GetCacheLineState(q, a)' = "I"
        /\ q # response'.requestor)
          => q \in response'.invalidated]_dirVars

\* A read or a write request is always granted, to the state the directory then
\* records for the requestor, and with the permission access() did not have
\* when it asked: coherenceMisses_ stays 0 and a retry would not ask again.
GrantIsEffective ==
  [][\A p \in Procs, a \in Addresses :
       (/\ stats'["coherenceMessages"] > stats["coherenceMessages"]
        /\ response'.requestor = p /\ response'.address = a
        /\ response'.request \in {"Read", "Write"})
          => /\ response'.granted
             /\ response'.newState = GetCacheLineState(p, a)'
             /\ CheckPermission(p, a, FALSE)'
             /\ response'.request = "Write" => CheckPermission(p, a, TRUE)']_dirVars

-----------------------------------------------------------------------------
\* Named parts of the consistency of an entry in the simulator (AccessSpec).
InvalidIsEmpty(e) == e.state = "I" => e.owner = None /\ e.sharers = {} /\ ~e.dirty

SharedHasSharers(e) ==
  e.state = "S" => e.owner = None /\ e.sharers # {} /\ e.sharers \subseteq Procs

ExclusiveHasOwner(e) == e.state \in {"E", "M"} => e.owner \in Procs /\ e.sharers = {}

DirtyIffWritten(e) == (e.state = "E" => ~e.dirty) /\ (e.state = "M" => e.dirty)

\* As long as the processors only read and write, the four fields of an entry
\* agree: an entry never keeps an owner beside sharers, never loses its last
\* holder, and is clean when it is handed out as Exclusive.
DirectoryConsistent ==
  \A a \in Addresses : LET e == directory[a] IN
     /\ InvalidIsEmpty(e)
     /\ SharedHasSharers(e)
     /\ ExclusiveHasOwner(e)
     /\ DirtyIffWritten(e)

\* What a request costs, and what it adds to the invalidations counter.
Charged ==
  \A p \in Procs, a \in Addresses :
     LET affected == {q \in Procs \ {p} :
                        GetCacheLineState(q, a)' # GetCacheLineState(q, a)}
         losers == {q \in affected : GetCacheLineState(q, a)' = "I"}
     IN (/\ stats'["coherenceMessages"] > stats["coherenceMessages"]
         /\ response'.requestor = p /\ response'.address = a)
          => /\ response'.latency = InterconnectLatency * (1 + Cardinality(affected))
             /\ stats'["invalidations"] = stats["invalidations"] + Cardinality(losers)

\* The requestor pays one interconnect latency for the request and one for every
\* other processor whose view the request changes; and the invalidations counter
\* grows by the number of processors that lose the line: none is charged twice,
\* although the list is made of sharers and an owner.
HopsPaid == [][Charged]_dirVars
=============================================================================

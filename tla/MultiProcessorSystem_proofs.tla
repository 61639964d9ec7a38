-------------------- MODULE MultiProcessorSystem_proofs --------------------
(***************************************************************************)
(* Theorems about the coherence directory and about the simulator as a     *)
(* whole, for any number of cores, any set of addresses, any layout of the *)
(* L1 caches and traces of any length.                                     *)
(*                                                                         *)
(* Of the directory: the refinement of CoherentLine, the consistency of    *)
(* its entries in the simulator, and what its responses say (grants,       *)
(* victims, hops), for any client of its public interface.                 *)
(*                                                                         *)
(* Of the simulator: its threads drive the directory only as a client of   *)
(* its public interface, so that what is proved of the directory holds in  *)
(* the simulator (SystemInv); the L1 sets never overfill (CachesInv); the  *)
(* accounts of cores and directory agree (AccountsInv); and the result is  *)
(* the slowest thread.                                                     *)
(***************************************************************************)
EXTENDS MultiProcessorSystem, FiniteSums

\* owner_ = -1, converted to uint32_t, is not the number of a processor.
LEMMA PhantomIsNoProcessor ==
  /\ Phantom \notin Procs
  /\ None \notin Procs
  /\ \A p \in Procs : ToUnsigned(p) = p
  /\ \A o \in Procs \cup {None} : ToUnsigned(o) \in Ids
BY ControllerAssumption DEF Phantom, None, Procs, ToUnsigned, Ids

\* The invalidation list of an entry is a finite set of ids.
LEMMA InvalidateSharersType ==
  ASSUME NEW e \in DirectoryEntry, NEW p \in Procs
  PROVE  /\ InvalidateSharers(e, p) \subseteq Ids
         /\ IsFiniteSet(InvalidateSharers(e, p))
         /\ Cardinality(InvalidateSharers(e, p)) \in Nat
<1>1. InvalidateSharers(e, p) \subseteq Ids
  BY DEF InvalidateSharers, DirectoryEntry, Ids, None
<1>2. IsFiniteSet(Procs)
  BY FS_Interval, ControllerAssumption DEF Procs
<1>3. IsFiniteSet(Ids)
  BY <1>2, FS_AddElement DEF Ids
<1>4. IsFiniteSet(InvalidateSharers(e, p))
  BY <1>1, <1>3, FS_Subset
<1> QED  BY <1>1, <1>4, FS_CardinalityType

\* The length of the list is a natural number.
LEMMA ListLengthType ==
  ASSUME NEW e \in DirectoryEntry, NEW p \in Procs
  PROVE  ListLength(e, p) \in Nat
<1> DEFINE others == {s \in e.sharers : s # p}
<1>1. others \subseteq InvalidateSharers(e, p)
  BY DEF InvalidateSharers
<1>2. IsFiniteSet(others)
  BY <1>1, InvalidateSharersType, FS_Subset
<1>3. Cardinality(others) \in Nat
  BY <1>2, FS_CardinalityType
<1> HIDE DEF others
<1>4. ListLength(e, p) = Cardinality(others) + (IF e.owner >= 0 /\ e.owner # p THEN 1 ELSE 0)
  BY DEF ListLength, others
<1> QED  BY <1>3, <1>4

\* What the common end of processRequest preserves.
LEMMA RespondType ==
  ASSUME TypeOK, NEW p \in Procs, NEW a \in Addresses, NEW req \in Requests,
         NEW entry \in DirectoryEntry, NEW more \in [Counters -> Nat], NEW reply,
         reply.invalidated \subseteq Ids,
         Respond(p, a, req, entry, more, reply)
  PROVE  TypeOK'
<1>1. directory' \in [Addresses -> DirectoryEntry] /\ known' \subseteq Addresses
  BY DEF TypeOK, Respond
<1>2. stats' \in [Counters -> Nat]
  <2>1. [c \in Counters |-> stats[c] + more[c]] \in [Counters -> Nat]
    BY DEF TypeOK
  <2> QED  BY <2>1 DEF Respond, Counters
<1>3. /\ response'.requestor = p
      /\ response'.request = req
      /\ response'.invalidated = reply.invalidated
  BY DEF Respond
<1> QED  BY <1>1, <1>2, <1>3 DEF TypeOK

\* Type correctness of the initial state and of every operation.
LEMMA CountType == ASSUME NEW names PROVE Count(names) \in [Counters -> Nat]
BY DEF Count

LEMMA TypeStep == TypeOK /\ [Next]_dirVars => TypeOK'
<1> SUFFICES ASSUME TypeOK, [Next]_dirVars PROVE TypeOK'
  OBVIOUS
<1>1. CASE UNCHANGED dirVars
  BY <1>1 DEF TypeOK, dirVars
<1>2. CASE ResetStats
  <2>1. stats' \in [Counters -> Nat]
    BY <1>2 DEF TypeOK, ResetStats
  <2> QED  BY <1>2, <2>1 DEF TypeOK, ResetStats
<1>3. ASSUME NEW p \in Procs, NEW a \in Addresses, AccessStep(p, a) \/ ClientStep(p, a)
      PROVE  TypeOK'
  <2> DEFINE e == directory[a]
  <2>e. e \in DirectoryEntry
    BY DEF TypeOK
  <2>1. CASE ReadRequest(p, a)
    <3>1. PICK entry, st, hops :
             /\ entry \in DirectoryEntry
             /\ Respond(p, a, "Read", entry, Count({"readRequests"}), Grant(st, hops, {}))
      <4>1. /\ [e EXCEPT !.state = "E", !.owner = p] \in DirectoryEntry
            /\ Downgraded(e, p) \in DirectoryEntry
            /\ Joined(e, p) \in DirectoryEntry
        BY <2>e, PhantomIsNoProcessor, ZenonT(40) DEF DirectoryEntry, MESI, Ids, Downgraded, Joined
      <4> QED  BY <4>1, <2>1, <2>e DEF ReadRequest
    <3>2. Grant(st, hops, {}).invalidated \subseteq Ids
      BY DEF Grant
    <3> QED  BY <3>1, <3>2, CountType, RespondType DEF Requests
  <2>2. CASE WriteRequest(p, a)
    <3>1. PICK entry \in DirectoryEntry, victims \in SUBSET Ids, length \in Nat :
             Respond(p, a, "Write", entry,
                  [Count({"writeRequests"}) EXCEPT !["invalidations"] = length],
                  Grant("M", length, victims))
      <4> DEFINE Own == Owned(e, p)
      <4>1. Own \in DirectoryEntry /\ [Own EXCEPT !.sharers = {}] \in DirectoryEntry
        BY <2>e DEF DirectoryEntry, MESI, Owned
      <4>2. ToUnsigned(e.owner) \in Ids
        BY <2>e, PhantomIsNoProcessor DEF DirectoryEntry
      <4> DEFINE Reply(entry, victims, length) ==
                   Respond(p, a, "Write", entry,
                     [Count({"writeRequests"}) EXCEPT !["invalidations"] = length],
                     Grant("M", length, victims))
      <4>5. \/ Reply(Own, {}, 0)
            \/ Reply(Own, {ToUnsigned(e.owner)}, 1)
            \/ Reply([Own EXCEPT !.sharers = {}], InvalidateSharers(e, p), ListLength(e, p))
        BY <2>2 DEF WriteRequest
      <4>6. CASE Reply(Own, {}, 0)
        <5>1. {} \in SUBSET Ids /\ 0 \in Nat
          OBVIOUS
        <5> HIDE DEF e, Own
        <5> QED  BY <4>1, <4>6, <5>1
      <4>7. CASE Reply(Own, {ToUnsigned(e.owner)}, 1)
        <5>1. {ToUnsigned(e.owner)} \in SUBSET Ids /\ 1 \in Nat
          BY <4>2
        <5> HIDE DEF e, Own
        <5> QED  BY <4>1, <4>7, <5>1
      <4>8. CASE Reply([Own EXCEPT !.sharers = {}], InvalidateSharers(e, p), ListLength(e, p))
        <5>1. InvalidateSharers(e, p) \in SUBSET Ids /\ ListLength(e, p) \in Nat
          BY <2>e, InvalidateSharersType, ListLengthType
        <5> HIDE DEF e, Own
        <5> QED  BY <4>1, <4>8, <5>1
      <4> QED  BY <4>5, <4>6, <4>7, <4>8
    <3>2. [Count({"writeRequests"}) EXCEPT !["invalidations"] = length] \in [Counters -> Nat]
      BY <3>1, CountType
    <3>3. Grant("M", length, victims).invalidated \subseteq Ids
      BY DEF Grant
    <3> QED  BY <3>1, <3>2, <3>3, RespondType DEF Requests
  <2>3. CASE InvalidateRequest(p, a)
    <3>1. [e EXCEPT !.state = "I", !.owner = None, !.sharers = {}] \in DirectoryEntry
      BY <2>e DEF DirectoryEntry, MESI
    <3>2. Grant("Uninitialized", 0, InvalidateSharers(e, p)).invalidated \subseteq Ids
      BY <2>e, InvalidateSharersType DEF Grant
    <3> QED  BY <2>3, <3>1, <3>2, CountType, RespondType DEF InvalidateRequest, Requests
  <2>4. CASE WritebackRequest(p, a)
    <3>1. (IF e.owner = p THEN [e EXCEPT !.dirty = FALSE] ELSE e) \in DirectoryEntry
      BY <2>e DEF DirectoryEntry
    <3>2. [Grant("Uninitialized", 0, {}) EXCEPT !.granted = (e.owner = p)].invalidated
             \subseteq Ids
      BY DEF Grant
    <3> QED  BY <2>4, <3>1, <3>2, CountType, RespondType DEF WritebackRequest, Requests
  <2>5. CASE \E kind \in {"Share", "Flush"} : UnhandledRequest(p, a, kind)
    <3>1. [Grant("Uninitialized", 0, {}) EXCEPT !.granted = FALSE].invalidated \subseteq Ids
      BY DEF Grant
    <3> QED  BY <2>5, <2>e, <3>1, CountType, RespondType DEF UnhandledRequest, Requests
  <2>6. ASSUME NEW st \in MESI, UpdateCacheState(p, a, st) PROVE TypeOK'
    <3>1. [directory EXCEPT ![a] = Dropped(@, p)] \in [Addresses -> DirectoryEntry]
      BY ZenonT(40) DEF TypeOK, DirectoryEntry, Dropped
    <3>2. stats' \in [Counters -> Nat]
      BY <2>6 DEF UpdateCacheState, TypeOK, Counters
    <3> QED  BY <2>6, <3>1, <3>2 DEF UpdateCacheState, TypeOK
  <2>7. CASE HandleWriteback(p, a)
    <3>1. [directory EXCEPT ![a].dirty = FALSE] \in [Addresses -> DirectoryEntry]
      BY DEF TypeOK, DirectoryEntry
    <3>2. stats' \in [Counters -> Nat]
      BY <2>7 DEF HandleWriteback, TypeOK, Counters
    <3> QED  BY <2>7, <3>1, <3>2 DEF HandleWriteback, TypeOK
  <2> QED  BY <1>3, <2>1, <2>2, <2>3, <2>4, <2>5, <2>6, <2>7
           DEF AccessStep, ClientStep, MESI
<1> QED  BY <1>1, <1>2, <1>3 DEF Next

LEMMA InitType == Init => TypeOK
BY DEF Init, TypeOK, NewEntry, DirectoryEntry, MESI, ZeroStats, NoResponse

\* Type correctness, whatever the clients of the directory call: in particular
\* the ids in sharers_ are processors or the converted -1, never anything else.
THEOREM TypeCorrect == Spec => []TypeOK
<1>1. Init => TypeOK
  BY InitType
<1>2. TypeOK /\ [Next]_dirVars => TypeOK'
  BY TypeStep
<1> QED  BY <1>1, <1>2, PTL DEF Spec

-----------------------------------------------------------------------------
\* Storing an entry changes the views of its address and of no other.
LEMMA ViewsStep ==
  ASSUME TypeOK, NEW a \in Addresses, NEW entry \in DirectoryEntry,
         directory' = [directory EXCEPT ![a] = entry]
  PROVE  Views' = [Views EXCEPT ![a] = [q \in Procs |-> ViewOf(entry, q)]]
BY DEF TypeOK, Views, GetCacheLineState

LEMMA ViewsType ==
  ASSUME TypeOK
  PROVE  /\ Views \in [Addresses -> [Procs -> MESI]]
         /\ \A a \in Addresses, q \in Procs : Views[a][q] = ViewOf(directory[a], q)
BY DEF TypeOK, Views, GetCacheLineState, ViewOf, MESI, DirectoryEntry

\* An entry never entitles a processor beside an exclusive one.
LEMMA EntrySWMR ==
  ASSUME NEW e, NEW p \in Procs, NEW q \in Procs, p # q, ViewOf(e, p) \in {"E", "M"}
  PROVE  ViewOf(e, q) = "I"
BY DEF ViewOf

\* The new entry gives p the right r, and keeps or downgrades the others.
ReadOutcome(p, a, entry, r) ==
  /\ entry \in DirectoryEntry
  /\ directory' = [directory EXCEPT ![a] = entry]
  /\ r \in {"M", "E", "S"}
  /\ r \in {"M", "E"} => \A q \in Procs \ {p} : ViewOf(directory[a], q) = "I"
  /\ r = "M" => ViewOf(directory[a], p) = "M"
  /\ \A q \in Procs : ViewOf(entry, q) =
        IF q = p THEN r
        ELSE IF ViewOf(directory[a], q) \in {"M", "E"} THEN "S"
        ELSE ViewOf(directory[a], q)

LEMMA GrantReadFrom ==
  ASSUME TypeOK, NEW p \in Procs, NEW a \in Addresses, NEW entry, NEW r,
         ReadOutcome(p, a, entry, r)
  PROVE  Line!GrantRead(p, a)
<1> USE DEF ReadOutcome
<1>1. Views' = [Views EXCEPT ![a] = [q \in Procs |-> ViewOf(entry, q)]]
  BY ViewsStep
<1>2. \A q \in Procs : Views[a][q] = ViewOf(directory[a], q)
  BY ViewsType
<1>3. [q \in Procs |-> ViewOf(entry, q)]
        = [q \in Procs |-> IF q = p THEN r
                           ELSE IF Line!Exclusive(Views[a][q]) THEN "S"
                           ELSE Views[a][q]]
  BY <1>2 DEF Line!Exclusive
<1>4. Line!Exclusive(r) => \A q \in Procs \ {p} : Views[a][q] = "I"
  BY <1>2 DEF Line!Exclusive
<1>5. r = "M" => Views[a][p] = "M"
  BY <1>2
<1> QED  BY <1>1, <1>3, <1>4, <1>5 DEF Line!GrantRead, Line!SetLine

\* A read request gives its requestor a copy and downgrades an exclusive holder.
LEMMA ReadRefines ==
  ASSUME TypeOK, NoLeftovers, NEW p \in Procs, NEW a \in Addresses, ReadRequest(p, a)
  PROVE  Line!GrantRead(p, a)
<1> DEFINE e == directory[a]
<1>e. e \in DirectoryEntry
  BY DEF TypeOK
<1>1. CASE e.state = "I"
  <2> DEFINE new == [e EXCEPT !.state = "E", !.owner = p]
  <2>1. new \in DirectoryEntry /\ directory' = [directory EXCEPT ![a] = new]
    BY <1>1, <1>e DEF ReadRequest, Respond, DirectoryEntry, MESI
  <2>2. \A q \in Procs : ViewOf(e, q) = "I"
    BY <1>1 DEF ViewOf
  <2>3. \A q \in Procs : ViewOf(new, q) = IF q = p THEN "E" ELSE "I"
    BY <1>e DEF ViewOf, DirectoryEntry
  <2>4. ReadOutcome(p, a, new, "E")
    BY <2>1, <2>2, <2>3 DEF ReadOutcome
  <2> QED  BY <2>4, GrantReadFrom
<1>2. CASE e.state \in {"E", "M"} /\ e.owner = p
  <2>1. directory' = [directory EXCEPT ![a] = e]
    BY <1>2 DEF ReadRequest, Respond
  <2>2. ViewOf(e, p) = e.state /\ \A q \in Procs \ {p} : ViewOf(e, q) = "I"
    BY <1>2 DEF ViewOf
  <2>3. ReadOutcome(p, a, e, e.state)
    BY <1>e, <1>2, <2>1, <2>2 DEF ReadOutcome
  <2> QED  BY <2>3, GrantReadFrom
<1>3. CASE e.state \in {"E", "M"} /\ e.owner # p
  <2> DEFINE new == Downgraded(e, p)
  <2> USE DEF Downgraded
  <2>1. new \in DirectoryEntry
    BY <1>e, PhantomIsNoProcessor, ZenonT(40) DEF DirectoryEntry, MESI, Ids
  <2>2. directory' = [directory EXCEPT ![a] = new]
    BY <1>3 DEF ReadRequest, Respond
  <2>3. new.state = "S" /\ new.sharers = {ToUnsigned(e.owner), p}
    BY <1>e, <1>3 DEF NoLeftovers, DirectoryEntry
  <2>4. \A q \in Procs : ToUnsigned(e.owner) = q <=> e.owner = q
    BY <1>e, PhantomIsNoProcessor DEF DirectoryEntry, Phantom
  <2>5. \A q \in Procs : ViewOf(new, q) = IF q = p \/ q = e.owner THEN "S" ELSE "I"
    BY <2>3, <2>4 DEF ViewOf
  <2>6. \A q \in Procs : ViewOf(e, q) = IF q = e.owner THEN e.state ELSE "I"
    BY <1>3 DEF ViewOf
  <2> HIDE DEF new
  <2>7. ReadOutcome(p, a, new, "S")
    BY <1>3, <2>1, <2>2, <2>5, <2>6 DEF ReadOutcome
  <2> QED  BY <2>7, GrantReadFrom
<1>4. CASE e.state = "S"
  <2> DEFINE new == Joined(e, p)
  <2> USE DEF Joined
  <2>1. new \in DirectoryEntry /\ directory' = [directory EXCEPT ![a] = new]
    BY <1>4, <1>e DEF ReadRequest, Respond, DirectoryEntry, Ids
  <2>2. \A q \in Procs : ViewOf(new, q) = IF q = p \/ q \in e.sharers THEN "S" ELSE "I"
    BY <1>4, <1>e DEF ViewOf, DirectoryEntry
  <2>3. \A q \in Procs : ViewOf(e, q) = IF q \in e.sharers THEN "S" ELSE "I"
    BY <1>4 DEF ViewOf
  <2> HIDE DEF new
  <2>4. ReadOutcome(p, a, new, "S")
    BY <2>1, <2>2, <2>3 DEF ReadOutcome
  <2> QED  BY <2>4, GrantReadFrom
<1> QED  BY <1>1, <1>2, <1>3, <1>4, <1>e DEF DirectoryEntry, MESI

\* A write request leaves its requestor alone with the line.
LEMMA WriteRefines ==
  ASSUME TypeOK, NEW p \in Procs, NEW a \in Addresses, WriteRequest(p, a)
  PROVE  Line!GrantWrite(p, a)
<1> DEFINE e == directory[a]
           Own == Owned(e, p)
<1>1. PICK new \in {Own, [Own EXCEPT !.sharers = {}]} :
         directory' = [directory EXCEPT ![a] = new]
  BY DEF WriteRequest, Respond
<1>2. new \in DirectoryEntry /\ new.state = "M" /\ new.owner = p
  BY DEF TypeOK, DirectoryEntry, MESI, Owned
<1>3. Views' = [Views EXCEPT ![a] = [q \in Procs |-> ViewOf(new, q)]]
  BY <1>1, <1>2, ViewsStep
<1>4. [q \in Procs |-> ViewOf(new, q)] = [q \in Procs |-> IF q = p THEN "M" ELSE "I"]
  BY <1>2 DEF ViewOf
<1> QED  BY <1>3, <1>4 DEF Line!GrantWrite, Line!SetLine

\* An operation after which the views of D are gone and the others as before.
DropOutcome(D, a, entry) ==
  /\ D \in SUBSET Procs
  /\ entry \in DirectoryEntry
  /\ directory' = [directory EXCEPT ![a] = entry]
  /\ \A q \in Procs :
        ViewOf(entry, q) = IF q \in D THEN "I" ELSE ViewOf(directory[a], q)

LEMMA DropFrom ==
  ASSUME TypeOK, NEW a \in Addresses, NEW entry, NEW D, DropOutcome(D, a, entry)
  PROVE  D \in SUBSET Procs /\ Line!Drop(D, a)
<1> USE DEF DropOutcome
<1>1. Views' = [Views EXCEPT ![a] = [q \in Procs |-> ViewOf(entry, q)]]
  BY ViewsStep
<1>2. [q \in Procs |-> ViewOf(entry, q)]
        = [q \in Procs |-> IF q \in D THEN "I" ELSE Views[a][q]]
  BY ViewsType
<1> QED  BY <1>1, <1>2 DEF Line!Drop, Line!SetLine

\* Every other operation drops the views of somebody, or of nobody.
LEMMA OthersRefine ==
  ASSUME TypeOK, NEW p \in Procs, NEW a \in Addresses,
         \/ ClientStep(p, a)
         \/ \E st \in {"M", "S"} : UpdateCacheState(p, a, st)
  PROVE  \E D \in SUBSET Procs : Line!Drop(D, a)
<1> DEFINE e == directory[a]
<1>e. e \in DirectoryEntry /\ directory = [directory EXCEPT ![a] = e]
  BY DEF TypeOK
<1>1. CASE InvalidateRequest(p, a)
  <2> DEFINE new == [e EXCEPT !.state = "I", !.owner = None, !.sharers = {}]
  <2>1. new \in DirectoryEntry /\ directory' = [directory EXCEPT ![a] = new]
    BY <1>1, <1>e DEF InvalidateRequest, Respond, DirectoryEntry, MESI
  <2>2. \A q \in Procs : ViewOf(new, q) = "I"
    BY <1>e DEF ViewOf, DirectoryEntry
  <2>3. DropOutcome(Procs, a, new)
    BY <2>1, <2>2 DEF DropOutcome
  <2> QED  BY <2>3, DropFrom
<1>2. ASSUME UpdateCacheState(p, a, "I")
      PROVE  \E D \in SUBSET Procs : Line!Drop(D, a)
  <2> DEFINE new == Dropped(e, p)
  <2> USE DEF Dropped
  <2>1. new \in DirectoryEntry /\ directory' = [directory EXCEPT ![a] = new]
    BY <1>2, <1>e DEF UpdateCacheState, TypeOK, DirectoryEntry
  <2>2. \A q \in Procs : ViewOf(new, q) = IF q \in {p} THEN "I" ELSE ViewOf(e, q)
    BY <1>e, PhantomIsNoProcessor DEF ViewOf, DirectoryEntry
  <2>3. DropOutcome({p}, a, new)
    BY <2>1, <2>2 DEF DropOutcome
  <2> QED  BY <2>3, DropFrom
<1>3. ASSUME \/ WritebackRequest(p, a)
             \/ HandleWriteback(p, a)
             \/ \E kind \in {"Share", "Flush"} : UnhandledRequest(p, a, kind)
             \/ \E st \in {"M", "S"} : UpdateCacheState(p, a, st)
      PROVE  \E D \in SUBSET Procs : Line!Drop(D, a)
  <2>1. PICK new \in {e, [e EXCEPT !.dirty = FALSE]} :
           directory' = [directory EXCEPT ![a] = new]
    BY <1>3, <1>e DEF WritebackRequest, HandleWriteback, UnhandledRequest,
                      UpdateCacheState, Respond, TypeOK
  <2>2. new \in DirectoryEntry /\ \A q \in Procs : ViewOf(new, q) = ViewOf(e, q)
    BY <1>e DEF ViewOf, DirectoryEntry
  <2>3. DropOutcome({}, a, new)
    BY <2>1, <2>2 DEF DropOutcome
  <2> QED  BY <2>3, DropFrom
<1> QED  BY <1>1, <1>2, <1>3 DEF ClientStep

-----------------------------------------------------------------------------
\* What NoLeftovers says of one entry; it is kept entry by entry.
Clean(e) == /\ e.state # "S" => e.sharers = {}
            /\ e.state \in {"S", "I"} => e.owner = None

LEMMA CleanStep ==
  ASSUME TypeOK, NoLeftovers, NEW p \in Procs, NEW a \in Addresses,
         AccessStep(p, a) \/ ClientStep(p, a)
  PROVE  /\ Clean(directory'[a])
         /\ \A b \in Addresses \ {a} : directory'[b] = directory[b]
<1> DEFINE e == directory[a]
<1>e. e \in DirectoryEntry /\ Clean(e)
  BY DEF TypeOK, NoLeftovers, Clean
<1>d. directory \in [Addresses -> DirectoryEntry]
  BY DEF TypeOK
<1>1. PICK new : Clean(new) /\ directory' = [directory EXCEPT ![a] = new]
  <2>1. CASE ReadRequest(p, a)
    <3>1. /\ e.state = "I" => Clean([e EXCEPT !.state = "E", !.owner = p])
          /\ Clean(Downgraded(e, p))
          /\ e.state = "S" => Clean(Joined(e, p))
      BY <1>e DEF Clean, DirectoryEntry, Downgraded, Joined
    <3> QED  BY <1>e, <2>1, <3>1 DEF ReadRequest, Respond
  <2>2. CASE WriteRequest(p, a)
    <3> DEFINE Own == Owned(e, p)
    <3>1. /\ e.state # "S" => Clean(Own)
          /\ Clean([Own EXCEPT !.sharers = {}])
      BY <1>e DEF Clean, DirectoryEntry, Owned
    <3> QED  BY <2>2, <3>1 DEF WriteRequest, Respond
  <2>3. CASE InvalidateRequest(p, a)
    <3>1. Clean([e EXCEPT !.state = "I", !.owner = None, !.sharers = {}])
      BY <1>e DEF Clean, DirectoryEntry
    <3> QED  BY <2>3, <3>1 DEF InvalidateRequest, Respond
  <2>4. CASE \E st \in {"M", "S", "I"} : UpdateCacheState(p, a, st)
    <3>1. Clean(Dropped(e, p))
      BY <1>e DEF Clean, DirectoryEntry, Dropped
    <3> QED  BY <1>e, <1>d, <2>4, <3>1 DEF UpdateCacheState
  <2>5. CASE \/ WritebackRequest(p, a)
             \/ HandleWriteback(p, a)
             \/ \E kind \in {"Share", "Flush"} : UnhandledRequest(p, a, kind)
    <3>1. Clean([e EXCEPT !.dirty = FALSE])
      BY <1>e DEF Clean, DirectoryEntry
    <3> QED  BY <1>e, <1>d, <2>5, <3>1, ZenonT(40)
             DEF WritebackRequest, HandleWriteback, UnhandledRequest, Respond
  <2> QED  BY <2>1, <2>2, <2>3, <2>4, <2>5 DEF AccessStep, ClientStep
<1> QED  BY <1>1, <1>d

LEMMA LeftoversStep == TypeOK /\ NoLeftovers /\ [Next]_dirVars => NoLeftovers'
<1> SUFFICES ASSUME TypeOK, NoLeftovers, [Next]_dirVars PROVE NoLeftovers'
  OBVIOUS
<1>1. CASE UNCHANGED dirVars
  BY <1>1 DEF NoLeftovers, dirVars
<1>2. CASE ResetStats
  BY <1>2 DEF NoLeftovers, ResetStats
<1>3. ASSUME NEW p \in Procs, NEW a \in Addresses, AccessStep(p, a) \/ ClientStep(p, a)
      PROVE  NoLeftovers'
  BY <1>3, CleanStep DEF NoLeftovers, Clean
<1> QED  BY <1>1, <1>2, <1>3 DEF Next

\* An entry never carries the sharers or the owner of an earlier state of its
\* line over into a state that would read them differently.
THEOREM LeftoversNeverSurvive == Spec => []NoLeftovers
<1>1. Init => NoLeftovers
  BY DEF Init, NoLeftovers, NewEntry
<1>2. TypeOK /\ NoLeftovers /\ [Next]_dirVars => NoLeftovers'
  BY LeftoversStep
<1> QED  BY <1>1, <1>2, TypeCorrect, PTL DEF Spec

-----------------------------------------------------------------------------
LEMMA InitRefines == Init => Line!LineInit
<1> SUFFICES ASSUME Init PROVE Line!LineInit
  OBVIOUS
<1>1. \A a \in Addresses, p \in Procs : GetCacheLineState(p, a) = "I"
  BY DEF Init, GetCacheLineState, ViewOf, NewEntry
<1> QED  BY <1>1 DEF Line!LineInit, Views

LEMMA StepRefines ==
  TypeOK /\ NoLeftovers /\ [Next]_dirVars => [Line!LineNext]_Views
<1> SUFFICES ASSUME TypeOK, NoLeftovers, [Next]_dirVars PROVE [Line!LineNext]_Views
  OBVIOUS
<1>1. CASE UNCHANGED dirVars
  BY <1>1 DEF dirVars, Views, GetCacheLineState
<1>2. CASE ResetStats
  BY <1>2 DEF ResetStats, Views, GetCacheLineState
<1>3. ASSUME NEW p \in Procs, NEW a \in Addresses, AccessStep(p, a) \/ ClientStep(p, a)
      PROVE  Line!LineNext
  <2>1. CASE ReadRequest(p, a)
    BY <2>1, ReadRefines DEF Line!LineNext
  <2>2. CASE WriteRequest(p, a)
    BY <2>2, WriteRefines DEF Line!LineNext
  <2>3. CASE \/ ClientStep(p, a)
             \/ \E st \in {"M", "S"} : UpdateCacheState(p, a, st)
    BY <2>3, OthersRefine DEF Line!LineNext
  <2> QED  BY <1>3, <2>1, <2>2, <2>3 DEF AccessStep
<1> QED  BY <1>1, <1>2, <1>3 DEF Next

\* The directory implements the single-writer / multiple-readers line: every
\* call of its public interface is a grant, a drop or no step of CoherentLine.
THEOREM DirectoryImplementsLine == Spec => LineSpec
<1>1. Init => Line!LineInit
  BY InitRefines
<1>2. TypeOK /\ NoLeftovers /\ [Next]_dirVars => [Line!LineNext]_Views
  BY StepRefines
<1> QED  BY <1>1, <1>2, TypeCorrect, LeftoversNeverSurvive, PTL
         DEF Spec, LineSpec, Line!LineSpec

\* A processor that the directory reports as exclusive is alone with the line.
THEOREM SingleWriter == Spec => []Line!SWMR
<1>1. TypeOK => Line!SWMR
  BY ViewsType, EntrySWMR DEF Line!SWMR, Line!Exclusive
<1> QED  BY <1>1, TypeCorrect, PTL

-----------------------------------------------------------------------------
\* What DirectoryConsistent says of one entry.
Consistent(e) == /\ InvalidIsEmpty(e)
                 /\ SharedHasSharers(e)
                 /\ ExclusiveHasOwner(e)
                 /\ DirtyIffWritten(e)

LEMMA ConsistentStep ==
  ASSUME TypeOK, DirectoryConsistent, NEW p \in Procs, NEW a \in Addresses,
         AccessStep(p, a)
  PROVE  /\ Consistent(directory'[a])
         /\ \A b \in Addresses \ {a} : directory'[b] = directory[b]
<1> DEFINE e == directory[a]
<1> USE DEF InvalidIsEmpty, SharedHasSharers, ExclusiveHasOwner, DirtyIffWritten
<1>e. e \in DirectoryEntry /\ Consistent(e)
  BY DEF TypeOK, DirectoryConsistent, Consistent
<1>d. directory \in [Addresses -> DirectoryEntry]
  BY DEF TypeOK
<1>1. PICK new : Consistent(new) /\ directory' = [directory EXCEPT ![a] = new]
  <2>1. CASE ReadRequest(p, a)
    <3>1. e.state = "I" => Consistent([e EXCEPT !.state = "E", !.owner = p])
      BY <1>e DEF Consistent, DirectoryEntry
    <3>2. e.state \in {"E", "M"} =>
             Consistent(Downgraded(e, p))
      BY <1>e, PhantomIsNoProcessor DEF Consistent, DirectoryEntry, Downgraded
    <3>3. e.state = "S" => Consistent(Joined(e, p))
      BY <1>e DEF Consistent, DirectoryEntry, Joined
    <3> QED  BY <1>e, <2>1, <3>1, <3>2, <3>3 DEF ReadRequest, Respond
  <2>2. CASE WriteRequest(p, a)
    <3> DEFINE Own == Owned(e, p)
           Alone == [Own EXCEPT !.sharers = {}]
    <3>1. /\ Own.state = "M" /\ Own.owner = p /\ Own.dirty /\ Own.sharers = e.sharers
          /\ Alone.state = "M" /\ Alone.owner = p /\ Alone.dirty /\ Alone.sharers = {}
      BY <1>e DEF DirectoryEntry, Owned
    <3>2. e.state # "S" => e.sharers = {}
      BY <1>e DEF Consistent, DirectoryEntry, MESI
    <3>3. /\ e.state # "S" => Own.sharers = {}
          /\ directory' \in {[directory EXCEPT ![a] = new] : new \in {Own, Alone}}
          /\ e.state = "S" => directory' = [directory EXCEPT ![a] = Alone]
      BY <2>2, <3>1, <3>2 DEF WriteRequest, Respond
    <3> HIDE DEF Own, Alone
    <3>4. Own.sharers = {} => Consistent(Own)
      BY <3>1 DEF Consistent
    <3>5. Consistent(Alone)
      BY <3>1 DEF Consistent
    <3> QED  BY <3>3, <3>4, <3>5
  <2>3. CASE \E st \in {"M", "S"} : UpdateCacheState(p, a, st)
    BY <1>e, <1>d, <2>3 DEF UpdateCacheState
  <2> QED  BY <2>1, <2>2, <2>3 DEF AccessStep
<1> QED  BY <1>1, <1>d

\* In the simulator, where the cores only read and write, the four fields of
\* every directory entry agree at all times.
THEOREM SimulatorKeepsDirectoryConsistent == AccessSpec => []DirectoryConsistent
<1>1. Init => TypeOK /\ DirectoryConsistent
  <2>1. Init => DirectoryConsistent
    BY DEF Init, DirectoryConsistent, NewEntry, InvalidIsEmpty, SharedHasSharers,
           ExclusiveHasOwner, DirtyIffWritten
  <2> QED  BY <2>1, InitType
<1>2. TypeOK /\ DirectoryConsistent /\ [AccessNext]_dirVars
        => TypeOK' /\ DirectoryConsistent'
  <2> SUFFICES ASSUME TypeOK, DirectoryConsistent, [AccessNext]_dirVars
               PROVE  TypeOK' /\ DirectoryConsistent'
    OBVIOUS
  <2>1. TypeOK'
    BY TypeStep DEF AccessNext, Next
  <2>2. CASE UNCHANGED dirVars
    BY <2>1, <2>2 DEF DirectoryConsistent, dirVars
  <2>3. ASSUME NEW p \in Procs, NEW a \in Addresses, AccessStep(p, a)
        PROVE  DirectoryConsistent'
    BY <2>3, ConsistentStep DEF DirectoryConsistent, Consistent
  <2> QED  BY <2>1, <2>2, <2>3 DEF AccessNext
<1> QED  BY <1>1, <1>2, PTL DEF AccessSpec

-----------------------------------------------------------------------------
\* A message is counted by a request only, and each request has one address.
Requested == stats'["coherenceMessages"] > stats["coherenceMessages"]

LEMMA RequestsRespond ==
  ASSUME TypeOK, NEW p \in Procs, NEW a \in Addresses, AccessStep(p, a) \/ ClientStep(p, a),
         Requested
  PROVE  \/ ReadRequest(p, a)
         \/ WriteRequest(p, a)
         \/ InvalidateRequest(p, a)
         \/ WritebackRequest(p, a)
         \/ \E kind \in {"Share", "Flush"} : UnhandledRequest(p, a, kind)
<1>1. ASSUME NEW st \in MESI, UpdateCacheState(p, a, st) PROVE FALSE
  BY <1>1 DEF UpdateCacheState, Requested, TypeOK, Counters
<1>2. CASE HandleWriteback(p, a)
  BY <1>2 DEF HandleWriteback, Requested, TypeOK, Counters
<1> QED  BY <1>1, <1>2 DEF AccessStep, ClientStep, MESI

LEMMA ResetRequestsNothing == ASSUME TypeOK, ResetStats PROVE ~Requested
<1>1. PICK c \in Counters : stats' = [stats EXCEPT ![c] = 0]
  BY DEF ResetStats
<1>2. stats["coherenceMessages"] \in Nat /\ stats'["coherenceMessages"] <= stats["coherenceMessages"]
  BY <1>1 DEF TypeOK, Counters
<1>3. stats'["coherenceMessages"] \in Nat
  BY <1>1 DEF TypeOK, Counters
<1> QED  BY <1>2, <1>3 DEF Requested

\* What a response says of its request.
LEMMA Answer ==
  ASSUME NEW p, NEW a, NEW req, NEW entry, NEW more, NEW reply,
         Respond(p, a, req, entry, more, reply)
  PROVE  /\ response'.requestor = p /\ response'.address = a /\ response'.request = req
         /\ response'.granted = reply.granted /\ response'.newState = reply.newState
         /\ response'.invalidated = reply.invalidated
         /\ directory' = [directory EXCEPT ![a] = entry] /\ known' = known \cup {a}
BY DEF Respond

\* The entry that a request leaves behind gives its requestor the state it is told.
Effective(p, a) ==
  /\ response'.granted
  /\ response'.newState = GetCacheLineState(p, a)'
  /\ CheckPermission(p, a, FALSE)'
  /\ response'.request = "Write" => CheckPermission(p, a, TRUE)'

LEMMA EffectiveFrom ==
  ASSUME TypeOK, NEW p \in Procs, NEW a \in Addresses, NEW entry \in DirectoryEntry,
         directory' = [directory EXCEPT ![a] = entry],
         response'.granted, response'.newState = ViewOf(entry, p), ViewOf(entry, p) # "I",
         response'.request = "Write" => ViewOf(entry, p) = "M"
  PROVE  Effective(p, a)
<1>1. directory'[a] = entry
  BY DEF TypeOK
<1>2. GetCacheLineState(p, a)' = ViewOf(entry, p)
  BY <1>1 DEF GetCacheLineState
<1>3. CheckPermission(p, a, FALSE)'
  BY <1>1 DEF CheckPermission, ViewOf
<1>4. ViewOf(entry, p) = "M" => CheckPermission(p, a, TRUE)'
  BY <1>1 DEF CheckPermission, ViewOf
<1> QED  BY <1>2, <1>3, <1>4 DEF Effective

LEMMA ReadIsEffective ==
  ASSUME TypeOK, NEW p \in Procs, NEW a \in Addresses, ReadRequest(p, a)
  PROVE  response'.requestor = p /\ response'.address = a /\ Effective(p, a)
<1> DEFINE e == directory[a]
<1>e. e \in DirectoryEntry
  BY DEF TypeOK
<1>1. PICK entry, st, hops :
         /\ Respond(p, a, "Read", entry, Count({"readRequests"}), Grant(st, hops, {}))
         /\ entry \in DirectoryEntry /\ st = ViewOf(entry, p) /\ st # "I"
  <2>1. CASE e.state = "I"
    <3> DEFINE new == [e EXCEPT !.state = "E", !.owner = p]
    <3>1. new \in DirectoryEntry /\ ViewOf(new, p) = "E"
      BY <1>e DEF DirectoryEntry, MESI, ViewOf
    <3> QED  BY <2>1, <3>1 DEF ReadRequest
  <2>2. CASE e.state \in {"E", "M"} /\ e.owner = p
    <3>1. ViewOf(e, p) = e.state
      BY <2>2 DEF ViewOf
    <3> QED  BY <1>e, <2>2, <3>1 DEF ReadRequest
  <2>3. CASE e.state \in {"E", "M"} /\ e.owner # p
    <3>1. Downgraded(e, p) \in DirectoryEntry /\ ViewOf(Downgraded(e, p), p) = "S"
      BY <1>e, PhantomIsNoProcessor, ZenonT(40) DEF Downgraded, DirectoryEntry, MESI, Ids, ViewOf
    <3> QED  BY <2>3, <3>1 DEF ReadRequest
  <2>4. CASE e.state = "S"
    <3>1. Joined(e, p) \in DirectoryEntry /\ ViewOf(Joined(e, p), p) = "S"
      BY <1>e, <2>4 DEF Joined, DirectoryEntry, MESI, Ids, ViewOf
    <3> QED  BY <2>4, <3>1 DEF ReadRequest
  <2> QED  BY <1>e, <2>1, <2>2, <2>3, <2>4 DEF DirectoryEntry, MESI
<1>2. /\ Grant(st, hops, {}).granted
      /\ Grant(st, hops, {}).newState = st
  BY DEF Grant
<1> QED  BY <1>1, <1>2, Answer, EffectiveFrom

LEMMA WriteIsEffective ==
  ASSUME TypeOK, NEW p \in Procs, NEW a \in Addresses, WriteRequest(p, a)
  PROVE  response'.requestor = p /\ response'.address = a /\ Effective(p, a)
<1> DEFINE e == directory[a]
           Own == Owned(e, p)
<1>1. PICK entry \in {Own, [Own EXCEPT !.sharers = {}]} :
         \E more, hops, victims :
           Respond(p, a, "Write", entry, more, Grant("M", hops, victims))
  BY DEF WriteRequest
<1>4. PICK more, hops, victims :
         Respond(p, a, "Write", entry, more, Grant("M", hops, victims))
  BY <1>1
<1>2. entry \in DirectoryEntry /\ ViewOf(entry, p) = "M"
  BY DEF TypeOK, DirectoryEntry, MESI, Owned, ViewOf
<1>3. /\ Grant("M", hops, victims).granted
      /\ Grant("M", hops, victims).newState = "M"
  BY DEF Grant
<1> QED  BY <1>2, <1>3, <1>4, Answer, EffectiveFrom

\* A read or write request is granted, to the state that is then recorded for the
\* requestor and with the permission it asked for: access() need not ask again.
THEOREM GrantsAreEffective == Spec => GrantIsEffective
<1>1. TypeOK /\ [Next]_dirVars =>
        [\A p \in Procs, a \in Addresses :
           (/\ stats'["coherenceMessages"] > stats["coherenceMessages"]
            /\ response'.requestor = p /\ response'.address = a
            /\ response'.request \in {"Read", "Write"})
              => /\ response'.granted
                 /\ response'.newState = GetCacheLineState(p, a)'
                 /\ CheckPermission(p, a, FALSE)'
                 /\ response'.request = "Write" => CheckPermission(p, a, TRUE)']_dirVars
  <2> SUFFICES ASSUME TypeOK, Next, NEW p \in Procs, NEW a \in Addresses, Requested,
                      response'.requestor = p, response'.address = a,
                      response'.request \in {"Read", "Write"}
               PROVE  Effective(p, a)
    BY DEF Requested, Effective
  <2>1. PICK q \in Procs, b \in Addresses : AccessStep(q, b) \/ ClientStep(q, b)
    BY ResetRequestsNothing DEF Next
  <2>2. CASE ReadRequest(q, b)
    BY <2>2, ReadIsEffective
  <2>3. CASE WriteRequest(q, b)
    BY <2>3, WriteIsEffective
  <2>4. ASSUME \/ InvalidateRequest(q, b)
               \/ WritebackRequest(q, b)
               \/ \E kind \in {"Share", "Flush"} : UnhandledRequest(q, b, kind)
        PROVE  FALSE
    BY <2>4, Answer DEF InvalidateRequest, WritebackRequest, UnhandledRequest
  <2> QED  BY <2>1, <2>2, <2>3, <2>4, RequestsRespond
<1> QED  BY <1>1, TypeCorrect, PTL DEF Spec, GrantIsEffective

-----------------------------------------------------------------------------
\* Who loses a view to a request for a is told of, and other addresses keep theirs.
Told(p, a) ==
  \A q \in Procs :
    ViewOf(directory[a], q) # "I" /\ ViewOf(directory'[a], q) = "I" /\ q # p
      => q \in response'.invalidated

LEMMA AnswerTells ==
  ASSUME TypeOK, NEW p \in Procs, NEW a \in Addresses, NEW req, NEW entry, NEW more, NEW reply,
         Respond(p, a, req, entry, more, reply),
         \A q \in Procs : ViewOf(directory[a], q) # "I" /\ ViewOf(entry, q) = "I" /\ q # p
                            => q \in reply.invalidated
  PROVE  /\ response'.requestor = p
         /\ \A b \in Addresses \ {a} : directory'[b] = directory[b]
         /\ Told(p, a)
<1>1. directory'[a] = entry /\ \A b \in Addresses \ {a} : directory'[b] = directory[b]
  BY DEF TypeOK, Respond
<1>2. response'.requestor = p /\ response'.invalidated = reply.invalidated
  BY DEF Respond
<1> QED  BY <1>1, <1>2 DEF Told

LEMMA RequestTells ==
  ASSUME TypeOK, NEW p \in Procs, NEW a \in Addresses,
         \/ ReadRequest(p, a)
         \/ WriteRequest(p, a)
         \/ InvalidateRequest(p, a)
         \/ WritebackRequest(p, a)
         \/ \E kind \in {"Share", "Flush"} : UnhandledRequest(p, a, kind)
  PROVE  /\ response'.requestor = p
         /\ \A b \in Addresses \ {a} : directory'[b] = directory[b]
         /\ Told(p, a)
<1> DEFINE e == directory[a]
<1>e. e \in DirectoryEntry /\ directory \in [Addresses -> DirectoryEntry]
  BY DEF TypeOK
<1>1. CASE ReadRequest(p, a)
  <2>1. PICK entry, st, hops :
           /\ Respond(p, a, "Read", entry, Count({"readRequests"}), Grant(st, hops, {}))
           /\ \A q \in Procs : ViewOf(e, q) # "I" => ViewOf(entry, q) # "I"
    <3>1. CASE e.state = "I"
      <4>1. \A q \in Procs : ViewOf(e, q) = "I"
        BY <3>1 DEF ViewOf
      <4> QED  BY <1>1, <3>1, <4>1 DEF ReadRequest
    <3>2. CASE e.state \in {"E", "M"} /\ e.owner = p
      BY <1>1, <3>2 DEF ReadRequest
    <3>3. CASE e.state \in {"E", "M"} /\ e.owner # p
      <4>1. \A q \in Procs : ViewOf(e, q) # "I" => ViewOf(Downgraded(e, p), q) = "S"
        BY <1>e, <3>3, PhantomIsNoProcessor DEF Downgraded, DirectoryEntry, ViewOf
      <4> QED  BY <1>1, <3>3, <4>1 DEF ReadRequest
    <3>4. CASE e.state = "S"
      <4>1. \A q \in Procs : ViewOf(e, q) # "I" => ViewOf(Joined(e, p), q) = "S"
        BY <1>e, <3>4 DEF Joined, DirectoryEntry, ViewOf
      <4> QED  BY <1>1, <3>4, <4>1 DEF ReadRequest
    <3> QED  BY <1>e, <3>1, <3>2, <3>3, <3>4 DEF DirectoryEntry, MESI
  <2> QED  BY <2>1, AnswerTells
<1>2. CASE WriteRequest(p, a)
  <2>1. PICK entry, more, hops, victims :
           /\ Respond(p, a, "Write", entry, more, Grant("M", hops, victims))
           /\ \A q \in Procs : ViewOf(e, q) # "I" /\ q # p => q \in victims
    <3>1. CASE e.state = "I" \/ (e.state \in {"E", "M"} /\ e.owner = p)
      <4>1. \A q \in Procs : ViewOf(e, q) # "I" => q = p
        BY <3>1 DEF ViewOf
      <4> QED  BY <1>2, <3>1, <4>1 DEF WriteRequest
    <3>2. CASE e.state \in {"E", "M"} /\ e.owner # p
      <4>1. \A q \in Procs : ViewOf(e, q) # "I" => q = ToUnsigned(e.owner)
        BY <1>e, <3>2, PhantomIsNoProcessor DEF ViewOf, DirectoryEntry
      <4> QED  BY <1>2, <3>2, <4>1 DEF WriteRequest
    <3>3. CASE e.state = "S"
      <4>1. \A q \in Procs : ViewOf(e, q) # "I" /\ q # p => q \in InvalidateSharers(e, p)
        BY <3>3 DEF ViewOf, InvalidateSharers
      <4> QED  BY <1>2, <3>3, <4>1 DEF WriteRequest
    <3> QED  BY <1>e, <3>1, <3>2, <3>3 DEF DirectoryEntry, MESI
  <2>2. Grant("M", hops, victims).invalidated = victims
    BY DEF Grant
  <2> QED  BY <2>1, <2>2, AnswerTells
<1>3. CASE InvalidateRequest(p, a)
  <2>1. Grant("Uninitialized", 0, InvalidateSharers(e, p)).invalidated = InvalidateSharers(e, p)
    BY DEF Grant
  <2>2. \A q \in Procs : ViewOf(e, q) # "I" /\ q # p => q \in InvalidateSharers(e, p)
    BY <1>e DEF ViewOf, InvalidateSharers, DirectoryEntry, Procs
  <2> QED  BY <1>3, <2>1, <2>2, AnswerTells DEF InvalidateRequest
<1>4. CASE \/ WritebackRequest(p, a)
           \/ \E kind \in {"Share", "Flush"} : UnhandledRequest(p, a, kind)
  <2>1. PICK entry \in {e, [e EXCEPT !.dirty = FALSE]} :
           \E req, more, reply : Respond(p, a, req, entry, more, reply)
    BY <1>4 DEF WritebackRequest, UnhandledRequest
  <2>2. \A q \in Procs : ViewOf(entry, q) = ViewOf(e, q)
    BY <1>e DEF ViewOf, DirectoryEntry
  <2>3. PICK req, more, reply : Respond(p, a, req, entry, more, reply)
    BY <2>1
  <2> QED  BY <2>2, <2>3, AnswerTells
<1> QED  BY <1>1, <1>2, <1>3, <1>4

\* Nobody loses a line to another's request without being in the list that the
\* requestor is given.
THEOREM VictimsAreNamed == Spec => VictimsNamed
<1>1. TypeOK /\ [Next]_dirVars =>
        [\A a \in Addresses : \A q \in Procs :
           (/\ stats'["coherenceMessages"] > stats["coherenceMessages"]
            /\ GetCacheLineState(q, a) # "I" /\ GetCacheLineState(q, a)' = "I"
            /\ q # response'.requestor)
              => q \in response'.invalidated]_dirVars
  <2> SUFFICES ASSUME TypeOK, Next, NEW a \in Addresses, NEW q \in Procs, Requested,
                      ViewOf(directory[a], q) # "I", ViewOf(directory'[a], q) = "I",
                      q # response'.requestor
               PROVE  q \in response'.invalidated
    BY DEF Requested, GetCacheLineState
  <2>1. PICK p \in Procs, b \in Addresses : AccessStep(p, b) \/ ClientStep(p, b)
    BY ResetRequestsNothing DEF Next
  <2>2. /\ response'.requestor = p
        /\ \A c \in Addresses \ {b} : directory'[c] = directory[c]
        /\ Told(p, b)
    BY <2>1, RequestsRespond, RequestTells
  <2> QED  BY <2>2 DEF Told
<1> QED  BY <1>1, TypeCorrect, PTL DEF Spec, VictimsNamed

-----------------------------------------------------------------------------
\* The processors other than p whose view a change from entry e to entry f alters,
\* and those of them that lose the line.
Affected(e, f, p) == {q \in Procs \ {p} : ViewOf(f, q) # ViewOf(e, q)}
Losers(e, f, p) == {q \in Affected(e, f, p) : ViewOf(f, q) = "I"}

\* A request is paid for: with a hop for every processor it affects, and one
\* invalidation for every one that loses the line.
Paid(p, a) ==
  /\ response'.requestor = p /\ response'.address = a
  /\ response'.latency
       = InterconnectLatency * (1 + Cardinality(Affected(directory[a], directory'[a], p)))
  /\ stats'["invalidations"]
       = stats["invalidations"] + Cardinality(Losers(directory[a], directory'[a], p))

LEMMA PaidFrom ==
  ASSUME TypeOK, NEW p \in Procs, NEW a \in Addresses, NEW req, NEW more,
         NEW entry \in DirectoryEntry, NEW st, NEW victims, NEW hops, NEW lost,
         more["invalidations"] = Cardinality(lost),
         hops = Cardinality(Affected(directory[a], entry, p)),
         lost = Losers(directory[a], entry, p),
         Respond(p, a, req, entry, more, Grant(st, hops, victims))
  PROVE  Paid(p, a)
<1>1. /\ response'.requestor = p /\ response'.address = a
      /\ directory' = [directory EXCEPT ![a] = entry]
      /\ response'.latency = InterconnectLatency * (1 + hops)
      /\ stats'["invalidations"] = stats["invalidations"] + more["invalidations"]
  BY DEF Respond, Grant, Counters
<1>2. directory'[a] = entry
  BY <1>1 DEF TypeOK
<1> QED  BY <1>1, <1>2 DEF Paid

LEMMA ReadIsPaid ==
  ASSUME TypeOK, DirectoryConsistent, NEW p \in Procs, NEW a \in Addresses, ReadRequest(p, a)
  PROVE  Paid(p, a)
<1> DEFINE e == directory[a]
<1>e. e \in DirectoryEntry /\ Consistent(e)
  BY DEF TypeOK, DirectoryConsistent, Consistent
<1>c. /\ Count({"readRequests"})["invalidations"] = 0
      /\ Cardinality({}) = 0 /\ \A o : Cardinality({o}) = 1
  BY FS_EmptySet, FS_Singleton DEF Count, Counters
<1> DEFINE Reply(entry, st, hops) ==
      Respond(p, a, "Read", entry, Count({"readRequests"}), Grant(st, hops, {}))
<1>1. ASSUME NEW entry \in DirectoryEntry, NEW st, NEW hops, Reply(entry, st, hops),
             hops = Cardinality(Affected(e, entry, p)), Losers(e, entry, p) = {}
      PROVE  Paid(p, a)
  <2>1. Count({"readRequests"})["invalidations"] = Cardinality({})
    BY <1>c
  <2> QED  BY <1>1, <2>1, PaidFrom
<1> USE DEF InvalidIsEmpty, SharedHasSharers, ExclusiveHasOwner, DirtyIffWritten, Consistent
<1>2. CASE e.state = "I"
  <2> DEFINE new == [e EXCEPT !.state = "E", !.owner = p]
  <2>1. new \in DirectoryEntry /\ Affected(e, new, p) = {}
    BY <1>e, <1>2 DEF DirectoryEntry, MESI, ViewOf, Affected
  <2>2. Reply(new, "E", 0)
    BY <1>2 DEF ReadRequest
  <2> HIDE DEF new, Reply
  <2> QED  BY <1>1, <1>c, <2>1, <2>2 DEF Losers
<1>3. CASE e.state \in {"E", "M"} /\ e.owner = p
  <2>1. Affected(e, e, p) = {}
    BY DEF Affected
  <2>2. Reply(e, e.state, 0)
    BY <1>3 DEF ReadRequest
  <2> HIDE DEF e, Reply
  <2> QED  BY <1>1, <1>c, <1>e, <2>1, <2>2 DEF Losers
<1>4. CASE e.state \in {"E", "M"} /\ e.owner # p
  <2> DEFINE new == Downgraded(e, p)
  <2>1. /\ new \in DirectoryEntry /\ new.state = "S" /\ e.owner \in Procs
        /\ new.sharers = {e.owner, p}
    <3>1. e.owner \in Procs /\ e.sharers = {} /\ ToUnsigned(e.owner) = e.owner
      BY <1>e, <1>4, PhantomIsNoProcessor
    <3>2. new \in DirectoryEntry
      BY <1>e, PhantomIsNoProcessor, ZenonT(40) DEF DirectoryEntry, MESI, Ids, Downgraded
    <3>3. new.state = "S" /\ new.sharers = e.sharers \cup {ToUnsigned(e.owner), p}
      BY <1>e DEF DirectoryEntry, Downgraded
    <3> HIDE DEF new, e
    <3> QED  BY <3>1, <3>2, <3>3
  <2>2. /\ \A q \in Procs \ {p} : ViewOf(new, q) = IF q = e.owner THEN "S" ELSE "I"
        /\ \A q \in Procs \ {p} : ViewOf(e, q) = IF q = e.owner THEN e.state ELSE "I"
    BY <1>4, <2>1 DEF ViewOf
  <2>3. Affected(e, new, p) = {e.owner} /\ Losers(e, new, p) = {}
    BY <1>4, <2>1, <2>2 DEF Affected, Losers
  <2>4. Reply(new, "S", 1)
    BY <1>4 DEF ReadRequest
  <2> HIDE DEF new, e, Reply
  <2> QED  BY <1>1, <1>c, <2>1, <2>3, <2>4
<1>5. CASE e.state = "S"
  <2> DEFINE new == Joined(e, p)
  <2>1. new \in DirectoryEntry /\ new.state = "S" /\ new.sharers = e.sharers \cup {p}
    BY <1>e, <1>5 DEF DirectoryEntry, MESI, Ids, Joined
  <2>2. Affected(e, new, p) = {}
    BY <1>5, <2>1 DEF Affected, ViewOf
  <2>3. Reply(new, "S", 0)
    BY <1>5 DEF ReadRequest
  <2> HIDE DEF new, e, Reply
  <2> QED  BY <1>1, <1>c, <2>1, <2>2, <2>3 DEF Losers
<1> QED  BY <1>e, <1>2, <1>3, <1>4, <1>5 DEF DirectoryEntry, MESI

LEMMA WriteIsPaid ==
  ASSUME TypeOK, DirectoryConsistent, NEW p \in Procs, NEW a \in Addresses, WriteRequest(p, a)
  PROVE  Paid(p, a)
<1> DEFINE e == directory[a]
           Own == Owned(e, p)
           Alone == [Own EXCEPT !.sharers = {}]
<1>e. e \in DirectoryEntry /\ Consistent(e)
  BY DEF TypeOK, DirectoryConsistent, Consistent
<1> USE DEF InvalidIsEmpty, SharedHasSharers, ExclusiveHasOwner, DirtyIffWritten, Consistent
<1>n. /\ Own \in DirectoryEntry /\ Own.state = "M" /\ Own.owner = p
      /\ Alone \in DirectoryEntry /\ Alone.state = "M" /\ Alone.owner = p
  BY <1>e DEF DirectoryEntry, MESI, Owned
<1> DEFINE Reply(entry, victims, length) ==
      Respond(p, a, "Write", entry,
              [Count({"writeRequests"}) EXCEPT !["invalidations"] = length],
              Grant("M", length, victims))
<1>c. Cardinality({}) = 0 /\ Cardinality({e.owner}) = 1
  BY FS_EmptySet, FS_Singleton
<1>1. ASSUME NEW entry \in DirectoryEntry, NEW victims, NEW length,
             Reply(entry, victims, length), entry.state = "M", entry.owner = p,
             length = Cardinality(victims), victims = {q \in Procs \ {p} : ViewOf(e, q) # "I"}
      PROVE  Paid(p, a)
  <2>1. \A q \in Procs \ {p} : ViewOf(entry, q) = "I"
    BY <1>1 DEF ViewOf
  <2>2. victims = Affected(e, entry, p) /\ victims = Losers(e, entry, p)
    BY <1>1, <2>1 DEF Affected, Losers
  <2> DEFINE more == [Count({"writeRequests"}) EXCEPT !["invalidations"] = length]
  <2>3. more["invalidations"] = Cardinality(victims)
    BY <1>1 DEF Count, Counters
  <2>4. Respond(p, a, "Write", entry, more, Grant("M", length, victims))
    BY <1>1
  <2> HIDE DEF more, e
  <2> QED  BY <1>1, <2>2, <2>3, <2>4, PaidFrom DEF e
<1>2. CASE e.state = "I" \/ (e.state \in {"E", "M"} /\ e.owner = p)
  <2>1. {q \in Procs \ {p} : ViewOf(e, q) # "I"} = {}
    BY <1>2 DEF ViewOf
  <2>2. Reply(Own, {}, 0)
    BY <1>2 DEF WriteRequest
  <2> HIDE DEF Own, e, Reply
  <2> QED  BY <1>1, <1>c, <1>n, <2>1, <2>2
<1>3. CASE e.state \in {"E", "M"} /\ e.owner # p
  <2>1. e.owner \in Procs /\ ToUnsigned(e.owner) = e.owner
    BY <1>e, <1>3, PhantomIsNoProcessor
  <2>2. {q \in Procs \ {p} : ViewOf(e, q) # "I"} = {e.owner}
    BY <1>3, <2>1 DEF ViewOf
  <2>3. Reply(Own, {ToUnsigned(e.owner)}, 1)
    BY <1>3 DEF WriteRequest
  <2> HIDE DEF Own, e, Reply
  <2> QED  BY <1>1, <1>c, <1>n, <2>1, <2>2, <2>3
<1>4. CASE e.state = "S"
  <2>1. e.owner = None /\ e.sharers \subseteq Procs /\ ~(None >= 0)
    BY <1>e, <1>4 DEF None
  <2>2. InvalidateSharers(e, p) = {q \in Procs \ {p} : ViewOf(e, q) # "I"}
    BY <1>4, <2>1 DEF InvalidateSharers, ViewOf
  <2>3. Reply(Alone, InvalidateSharers(e, p), ListLength(e, p))
    BY <1>4 DEF WriteRequest
  <2>4. ListLength(e, p) = Cardinality(InvalidateSharers(e, p))
    <3>1. InvalidateSharers(e, p) = {s \in e.sharers : s # p}
      BY <2>1 DEF InvalidateSharers
    <3>2. Cardinality(InvalidateSharers(e, p)) \in Nat
      BY <1>e, InvalidateSharersType
    <3>3. ListLength(e, p) = Cardinality({s \in e.sharers : s # p}) + 0
      BY <2>1 DEF ListLength
    <3> HIDE DEF e
    <3> QED  BY <3>1, <3>2, <3>3
  <2> HIDE DEF Alone, e, Reply
  <2> QED  BY <1>1, <1>n, <2>2, <2>3, <2>4
<1> QED  BY <1>e, <1>2, <1>3, <1>4 DEF DirectoryEntry, MESI

LEMMA ConsistentAlways == AccessSpec => [](TypeOK /\ DirectoryConsistent)
<1>1. Init => TypeOK
  BY InitType
<1>2. TypeOK /\ [AccessNext]_dirVars => TypeOK'
  BY TypeStep DEF AccessNext, Next
<1> QED  BY <1>1, <1>2, SimulatorKeepsDirectoryConsistent, PTL DEF AccessSpec

\* In the simulator a request costs its caller one trip of the interconnect, and one
\* more for every other processor whose view of the line it changes, for any number
\* of processors: also when the list of victims is made of sharers and an owner.
THEOREM RequestsArePaid == AccessSpec => HopsPaid
<1>1. TypeOK /\ DirectoryConsistent /\ [AccessNext]_dirVars => [Charged]_dirVars
  <2> SUFFICES ASSUME TypeOK, DirectoryConsistent, AccessNext, Requested,
                      NEW p \in Procs, NEW a \in Addresses,
                      response'.requestor = p, response'.address = a
               PROVE  Paid(p, a)
    BY DEF Charged, Requested, Paid, Affected, Losers, GetCacheLineState
  <2>1. PICK q \in Procs, b \in Addresses : AccessStep(q, b)
    BY DEF AccessNext
  <2>2. ASSUME NEW st \in {"M", "S"}, UpdateCacheState(q, b, st) PROVE FALSE
    BY <2>2 DEF UpdateCacheState, Requested, TypeOK, Counters
  <2>3. Paid(q, b)
    BY <2>1, <2>2, ReadIsPaid, WriteIsPaid DEF AccessStep
  <2> QED  BY <2>3 DEF Paid
<1> QED  BY <1>1, ConsistentAlways, PTL DEF AccessSpec, HopsPaid

-----------------------------------------------------------------------------
\* The simulator.

Operations ==
  [address : Addresses \cup {None},
   kind : {"Access", "Atomic", "Remote", "None"},
   isWrite : BOOLEAN]

\* Between its start and its end an operation has an address, and only an
\* operation on behalf of another core registers a lost copy.
Running(p) ==
  /\ pc[p] \notin {"ready", "fold", "done"} => op[p].address \in Addresses
  /\ pc[p] = "register" => "Remote" \in Kinds

\* What the compare-exchange loop maintains: no thread has read more than
\* maxCycles, which covers every thread that is done and, once it is not 0, is
\* the number of one of them.
Folding ==
  /\ \A p \in Procs : pc[p] = "fold" => current[p] <= maxCycles
  /\ \A p \in Procs : pc[p] = "done" => localCycles[p] <= maxCycles
  /\ maxCycles = 0 \/ \E p \in Procs : pc[p] = "done" /\ localCycles[p] = maxCycles

\* The inductive invariant.
SystemInv ==
  /\ TypeOK
  /\ pc \in [Procs -> Places]
  /\ op \in [Procs -> Operations]
  /\ latency \in [Procs -> Nat]
  /\ localCycles \in [Procs -> Nat]
  /\ current \in [Procs -> Nat]
  /\ maxCycles \in Nat
  /\ \A p \in Procs : Running(p)
  /\ Folding

-----------------------------------------------------------------------------
\* A request answers with a natural number of cycles.
LEMMA LatencyIsNat ==
  ASSUME TypeOK, NEW p \in Procs, NEW a \in Addresses,
         ReadRequest(p, a) \/ WriteRequest(p, a)
  PROVE  response'.latency \in Nat
<1> DEFINE e == directory[a]
<1>e. e \in DirectoryEntry
  BY DEF TypeOK
<1>1. PICK hops \in Nat : response'.latency = InterconnectLatency * (1 + hops)
  <2>1. CASE ReadRequest(p, a)
    <3>1. PICK entry, st, hops :
             /\ hops \in {0, 1}
             /\ Respond(p, a, "Read", entry, Count({"readRequests"}), Grant(st, hops, {}))
      BY <2>1 DEF ReadRequest
    <3>2. hops \in Nat /\ response'.latency = InterconnectLatency * (1 + hops)
      BY <3>1 DEF Respond, Grant
    <3> QED  BY <3>2
  <2>2. CASE WriteRequest(p, a)
    <3>1. PICK length \in {0, 1, ListLength(e, p)} :
             response'.latency = InterconnectLatency * (1 + length)
      BY <2>2 DEF WriteRequest, Respond, Grant
    <3>2. ListLength(e, p) \in Nat
      BY <1>e, ListLengthType
    <3> HIDE DEF e
    <3>3. length \in Nat
      BY <3>1, <3>2
    <3> QED  BY <3>1, <3>3
  <2> QED  BY <2>1, <2>2
<1> QED  BY <1>1, ControllerAssumption

\* Every step of a core is a call of the directory or leaves it alone, and only
\* a registration on behalf of another core is not one of AccessNext.
LEMMA DirectoryStep ==
  ASSUME \A p \in Procs : Running(p), [SystemNext]_vars
  PROVE  /\ [Next]_dirVars
         /\ "Remote" \notin Kinds => [AccessNext]_dirVars
<1> USE DEF Running, dirVars, AccessStep, ClientStep, AccessNext, Next
<1>1. CASE UNCHANGED vars \/ Ended
  BY <1>1 DEF vars, Ended
<1>2. ASSUME NEW p \in Procs, Run(p)
      PROVE  /\ [Next]_dirVars
             /\ "Remote" \notin Kinds => [AccessNext]_dirVars
  <2>1. CASE \/ \E a \in Addresses, k \in Kinds \ {"Remote"}, w \in BOOLEAN : Issue(p, a, k, w)
             \/ Check(p) \/ L1Hit(p) \/ StreamHit(p) \/ L1Miss(p) \/ Account(p)
             \/ EndOfTrace(p) \/ FoldSucceeds(p) \/ FoldNotNeeded(p)
    BY <2>1 DEF Issue, Check, L1Hit, StreamHit, L1Miss, Account, EndOfTrace,
                FoldSucceeds, FoldNotNeeded
  <2>2. CASE AtomicRequest(p) \/ Request(p)
    <3>1. op[p].address \in Addresses
      BY <2>2 DEF AtomicRequest, Request
    <3> QED  BY <2>2, <3>1 DEF AtomicRequest, Request
  <2>3. CASE HandleL1Miss(p) \/ KeepExclusive(p)
    <3>1. op[p].address \in Addresses
      BY <2>3 DEF HandleL1Miss, KeepExclusive
    <3>2. \E st \in {"M", "S"} : UpdateCacheState(p, op[p].address, st)
      BY <2>3 DEF HandleL1Miss, KeepExclusive
    <3> QED  BY <3>1, <3>2
  <2>4. CASE Register(p)
    <3>1. op[p].address \in Addresses /\ "Remote" \in Kinds
      BY <2>4 DEF Register
    <3>2. \E st \in {"I", "S"} : UpdateCacheState(p, op[p].address, st)
      BY <2>4 DEF Register
    <3> QED  BY <3>1, <3>2
  <2> QED  BY <1>2, <2>1, <2>2, <2>3, <2>4 DEF Run
<1>3. ASSUME NEW p \in Procs, FoldFails(p) PROVE UNCHANGED dirVars
  BY <1>3 DEF FoldFails
<1>4. ASSUME NEW p \in Procs, NEW a \in Addresses,
             NEW req \in {"Invalidate", "Share", "Flush"}, HandleRemote(p, a, req)
      PROVE  UNCHANGED dirVars
  BY <1>4 DEF HandleRemote
<1> QED  BY <1>1, <1>2, <1>3, <1>4 DEF SystemNext

-----------------------------------------------------------------------------
\* A step in which the thread of p works on an operation, or starts or ends one.
Works(p) ==
  /\ pc[p] \notin {"fold", "done"}
  /\ \E place \in Places \ {"fold", "done"} :
        /\ Goto(p, place)
        /\ place # "ready" => op'[p].address \in Addresses
        /\ place = "register" => "Remote" \in Kinds
  /\ op' \in [Procs -> Operations]
  /\ latency' \in [Procs -> Nat]
  /\ localCycles' \in [Procs -> Nat]
  /\ \A q \in Procs \ {p} : op'[q] = op[q] /\ localCycles'[q] = localCycles[q]
  /\ UNCHANGED <<maxCycles, current>>

LEMMA WorksKeeps ==
  ASSUME SystemInv, TypeOK', NEW p \in Procs, Works(p)
  PROVE  SystemInv'
<1>1. PICK place \in Places \ {"fold", "done"} :
         /\ pc' = [pc EXCEPT ![p] = place]
         /\ place # "ready" => op'[p].address \in Addresses
         /\ place = "register" => "Remote" \in Kinds
  BY DEF Works, Goto
<1>2. pc' \in [Procs -> Places]
  BY <1>1 DEF SystemInv
<1>3. \A q \in Procs : Running(q)'
  BY <1>1 DEF SystemInv, Works, Running
<1>4. \A q \in Procs : pc'[q] \in {"fold", "done"} =>
        q # p /\ pc'[q] = pc[q] /\ localCycles'[q] = localCycles[q]
  BY <1>1 DEF SystemInv, Works
<1>5. \A q \in Procs : pc[q] = "done" => q # p /\ pc'[q] = "done"
  BY <1>1 DEF SystemInv, Works
<1>6. Folding'
  BY <1>4, <1>5 DEF SystemInv, Folding, Works
<1> QED  BY <1>2, <1>3, <1>6 DEF SystemInv, Works

\* Every action of a thread before the end of its trace is such a step.
LEMMA WorkSteps ==
  ASSUME SystemInv, NEW p \in Procs,
         \/ \E a \in Addresses, k \in Kinds \ {"Remote"}, w \in BOOLEAN : Issue(p, a, k, w)
         \/ AtomicRequest(p) \/ Check(p) \/ Request(p)
         \/ L1Hit(p) \/ StreamHit(p) \/ L1Miss(p) \/ HandleL1Miss(p)
         \/ KeepExclusive(p) \/ Account(p) \/ Register(p)
         \/ \E a \in Addresses, req \in {"Invalidate", "Share", "Flush"} :
               HandleRemote(p, a, req)
  PROVE  Works(p)
<1> USE DEF SystemInv, Works, Goto, Places, cycleVars
<1>1. CASE \E a \in Addresses, k \in Kinds \ {"Remote"}, w \in BOOLEAN : Issue(p, a, k, w)
  <2>1. PICK a \in Addresses, k \in Kinds \ {"Remote"}, w \in BOOLEAN : Issue(p, a, k, w)
    BY <1>1
  <2>2. [address |-> a, kind |-> k, isWrite |-> w] \in Operations
    BY SystemAssumption DEF Operations
  <2> DEFINE place == IF k = "Atomic" THEN "atomic" ELSE "check"
  <2>3. /\ pc[p] = "ready"
        /\ pc' = [pc EXCEPT ![p] = place]
        /\ op' = [op EXCEPT ![p] = [address |-> a, kind |-> k, isWrite |-> w]]
        /\ latency' = [latency EXCEPT ![p] = 0]
        /\ UNCHANGED <<localCycles, maxCycles, current>>
    BY <2>1 DEF Issue
  <2>4. op'[p].address \in Addresses
    BY <2>3
  <2>5. op' \in [Procs -> Operations] /\ \A q \in Procs \ {p} : op'[q] = op[q]
    BY <2>2, <2>3
  <2>6. latency' \in [Procs -> Nat]
    BY <2>3
  <2>7. place \in Places \ {"fold", "done"} /\ place # "register"
    OBVIOUS
  <2> HIDE DEF place
  <2> QED  BY <2>3, <2>4, <2>5, <2>6, <2>7
<1>2. CASE AtomicRequest(p) \/ Request(p)
  <2>1. op[p].address \in Addresses
    BY <1>2 DEF AtomicRequest, Request, Running
  <2>2. response'.latency \in Nat
    BY <1>2, <2>1, LatencyIsNat DEF AtomicRequest, Request
  <2>3. latency' \in [Procs -> Nat]
    BY <1>2, <2>2 DEF AtomicRequest, Request, Spend
  <2> QED  BY <1>2, <2>1, <2>3 DEF AtomicRequest, Request
<1>3. CASE Check(p) \/ L1Hit(p) \/ StreamHit(p) \/ HandleL1Miss(p)
  <2>1. op[p].address \in Addresses
    BY <1>3 DEF Check, L1Hit, StreamHit, HandleL1Miss, Running
  <2>2. latency' \in [Procs -> Nat]
    BY <1>3 DEF Check, L1Hit, StreamHit, HandleL1Miss, Spend, BaseLatency, HitLatency,
                MissPenalty
  <2> QED  BY <1>3, <2>1, <2>2 DEF Check, L1Hit, StreamHit, HandleL1Miss, AfterAccess
<1>4. CASE L1Miss(p) \/ KeepExclusive(p)
  <2>1. op[p].address \in Addresses
    BY <1>4 DEF L1Miss, KeepExclusive, Running
  <2> QED  BY <1>4, <2>1 DEF L1Miss, KeepExclusive
<1>5. CASE Account(p)
  <2>1. localCycles' \in [Procs -> Nat]
    BY <1>5 DEF Account
  <2>2. \A q \in Procs \ {p} : localCycles'[q] = localCycles[q]
    BY <1>5 DEF Account
  <2>3. pc[p] = "account" /\ pc' = [pc EXCEPT ![p] = "ready"]
    BY <1>5 DEF Account
  <2>4. UNCHANGED <<op, latency, maxCycles, current>>
    BY <1>5 DEF Account
  <2>5. "ready" \in Places \ {"fold", "done"}
    OBVIOUS
  <2> QED  BY <2>1, <2>2, <2>3, <2>4, <2>5 DEF Works
<1>6. CASE Register(p)
  <2>1. pc[p] = "register" /\ pc' = [pc EXCEPT ![p] = "ready"]
    BY <1>6 DEF Register
  <2>2. UNCHANGED <<op, latency, localCycles, maxCycles, current>>
    BY <1>6 DEF Register
  <2>3. "ready" \in Places \ {"fold", "done"}
    OBVIOUS
  <2> QED  BY <2>1, <2>2, <2>3 DEF Works
<1>7. CASE \E a \in Addresses, req \in {"Invalidate", "Share", "Flush"} : HandleRemote(p, a, req)
  <2>1. PICK a \in Addresses, req \in {"Invalidate", "Share", "Flush"} : HandleRemote(p, a, req)
    BY <1>7
  <2>2. [address |-> a, kind |-> "Remote", isWrite |-> req # "Share"] \in Operations
    BY DEF Operations
  <2> QED  BY <2>1, <2>2 DEF HandleRemote
<1> QED  BY <1>1, <1>2, <1>3, <1>4, <1>5, <1>6, <1>7

\* The steps of the compare-exchange loop.
LEMMA FoldSteps ==
  ASSUME SystemInv, TypeOK', NEW p \in Procs,
         EndOfTrace(p) \/ FoldFails(p) \/ FoldSucceeds(p) \/ FoldNotNeeded(p)
  PROVE  SystemInv'
<1> USE DEF SystemInv
<1>1. CASE EndOfTrace(p)
  <2>1. /\ pc' = [pc EXCEPT ![p] = "fold"] /\ pc[p] = "ready"
        /\ current' = [current EXCEPT ![p] = maxCycles]
        /\ UNCHANGED <<op, latency, localCycles, maxCycles>>
    BY <1>1 DEF EndOfTrace, Goto
  <2>2. /\ pc' \in [Procs -> Places] /\ current' \in [Procs -> Nat]
        /\ \A q \in Procs : Running(q)'
    BY <2>1 DEF Places, Running
  <2>3. Folding'
    BY <2>1 DEF Folding
  <2> QED  BY <2>1, <2>2, <2>3
<1>2. CASE FoldFails(p)
  <2>1. /\ current' = [current EXCEPT ![p] = maxCycles]
        /\ UNCHANGED <<pc, op, latency, localCycles, maxCycles>>
    BY <1>2 DEF FoldFails, Reload, coreVars
  <2>2. current' \in [Procs -> Nat] /\ \A q \in Procs : Running(q)'
    BY <2>1 DEF Running
  <2>3. Folding'
    BY <2>1 DEF Folding
  <2> QED  BY <2>1, <2>2, <2>3
<1>3. CASE FoldSucceeds(p)
  <2>1. /\ pc' = [pc EXCEPT ![p] = "done"] /\ pc[p] = "fold"
        /\ maxCycles = current[p] /\ localCycles[p] > current[p]
        /\ maxCycles' = localCycles[p]
        /\ UNCHANGED <<op, latency, localCycles, current>>
    BY <1>3 DEF FoldSucceeds, ExchangeMatches, Goto
  <2>2. pc' \in [Procs -> Places] /\ \A q \in Procs : Running(q)'
    BY <2>1 DEF Places, Running
  <2>3. maxCycles <= maxCycles' /\ maxCycles' \in Nat
    BY <2>1
  <2>4. Folding'
    BY <2>1, <2>3 DEF Folding
  <2> QED  BY <2>1, <2>2, <2>3, <2>4
<1>4. CASE FoldNotNeeded(p)
  <2>1. /\ pc' = [pc EXCEPT ![p] = "done"] /\ pc[p] = "fold"
        /\ localCycles[p] <= current[p]
        /\ UNCHANGED <<op, latency, localCycles, maxCycles, current>>
    BY <1>4 DEF FoldNotNeeded, Goto, cycleVars
  <2>2. pc' \in [Procs -> Places] /\ \A q \in Procs : Running(q)'
    BY <2>1 DEF Places, Running
  <2>3. Folding'
    BY <2>1 DEF Folding
  <2> QED  BY <2>1, <2>2, <2>3
<1> QED  BY <1>1, <1>2, <1>3, <1>4

-----------------------------------------------------------------------------
LEMMA SystemInvInit == SystemInit => SystemInv
<1> SUFFICES ASSUME SystemInit PROVE SystemInv
  OBVIOUS
<1>1. TypeOK
  BY InitType DEF SystemInit
<1>2. pc \in [Procs -> Places] /\ op \in [Procs -> Operations]
  BY DEF SystemInit, Places, NoOperation, Operations
<1>3. Folding /\ \A p \in Procs : Running(p)
  BY DEF SystemInit, Folding, Running
<1> QED  BY <1>1, <1>2, <1>3 DEF SystemInit, SystemInv

LEMMA SystemInvStep == SystemInv /\ [SystemNext]_vars => SystemInv'
<1> SUFFICES ASSUME SystemInv, [SystemNext]_vars PROVE SystemInv'
  OBVIOUS
<1>1. TypeOK'
  BY DirectoryStep, TypeStep DEF SystemInv
<1>2. CASE UNCHANGED vars \/ Ended
  BY <1>1, <1>2 DEF vars, Ended, SystemInv, Running, Folding
<1>3. ASSUME NEW p \in Procs, Run(p) PROVE SystemInv'
  BY <1>1, <1>3, WorkSteps, WorksKeeps, FoldSteps DEF Run
<1>4. ASSUME NEW p \in Procs, FoldFails(p) PROVE SystemInv'
  BY <1>1, <1>4, FoldSteps
<1>5. ASSUME NEW p \in Procs, NEW a \in Addresses,
             NEW req \in {"Invalidate", "Share", "Flush"}, HandleRemote(p, a, req)
      PROVE  SystemInv'
  BY <1>1, <1>5, WorkSteps, WorksKeeps
<1> QED  BY <1>2, <1>3, <1>4, <1>5 DEF SystemNext

LEMMA SystemInvariant == SystemSpec => []SystemInv
BY SystemInvInit, SystemInvStep, PTL DEF SystemSpec

\* Whatever the interleaving of the threads, and also when cores handle the
\* requests of others: the cores are clients of the directory, so everything
\* proved of Spec holds in the simulator.
THEOREM CoresAreClients == SystemSpec => Spec
<1>1. SystemInit => Init
  BY DEF SystemInit
<1>2. SystemInv /\ [SystemNext]_vars => [Next]_dirVars
  BY DirectoryStep DEF SystemInv
<1> QED  BY <1>1, <1>2, SystemInvariant, PTL DEF SystemSpec, Spec

\* Cores that handle no requests of others use the directory as AccessSpec says.
LEMMA CoresOnlyAccess ==
  ASSUME "Remote" \notin Kinds
  PROVE  SystemSpec => AccessSpec
<1>1. SystemInit => Init
  BY DEF SystemInit
<1>2. SystemInv /\ [SystemNext]_vars => [AccessNext]_dirVars
  BY DirectoryStep DEF SystemInv
<1> QED  BY <1>1, <1>2, SystemInvariant, PTL DEF SystemSpec, AccessSpec

\* As long as the cores only run their traces, state, owner, sharers and dirty
\* of every directory entry agree.
THEOREM TracesKeepDirectoryConsistent ==
  ASSUME "Remote" \notin Kinds
  PROVE  SystemSpec => []DirectoryConsistent
BY CoresOnlyAccess, SimulatorKeepsDirectoryConsistent, PTL

\* And every request costs its core one trip of the interconnect for each processor
\* whose view it changes.
THEOREM TracesPayTheirHops ==
  ASSUME "Remote" \notin Kinds
  PROVE  SystemSpec => HopsPaid
BY CoresOnlyAccess, RequestsArePaid, PTL

\* In the simulator the views the directory hands out to the cores obey the
\* single-writer line.
COROLLARY SystemImplementsLine == SystemSpec => LineSpec
BY CoresAreClients, DirectoryImplementsLine, PTL

\* simulateParallelTraces returns the cycles of its slowest thread.
THEOREM ResultIsTheSlowestThread == SystemSpec => []MaxOfThreads
<1>1. SystemInv => MaxOfThreads
  <2> SUFFICES ASSUME SystemInv, AllJoined
               PROVE  /\ \A p \in Procs : localCycles[p] <= maxCycles
                      /\ \E p \in Procs : localCycles[p] = maxCycles
    BY DEF MaxOfThreads
  <2>1. \A p \in Procs : localCycles[p] <= maxCycles
    BY DEF SystemInv, Folding, AllJoined
  <2>2. CASE maxCycles = 0
    <3>1. 0 \in Procs
      BY ControllerAssumption DEF Procs
    <3> QED  BY <2>1, <2>2, <3>1 DEF SystemInv
  <2>3. CASE \E p \in Procs : pc[p] = "done" /\ localCycles[p] = maxCycles
    BY <2>1, <2>3
  <2> QED  BY <2>2, <2>3 DEF SystemInv, Folding
<1> QED  BY <1>1, SystemInvariant, PTL

-----------------------------------------------------------------------------
\* The blocks a core holds in one set are finitely many, and no more than its ways.
Fits(p, b) ==
  /\ IsFiniteSet(Held(p) \cap SameSet(b))
  /\ Cardinality(Held(p) \cap SameSet(b)) <= Associativity

CoreCounters == [total : Nat, hits : Nat, misses : Nat, atomics : Nat, handled : Nat]

\* The inductive invariant of the caches and of the counters of the cores.
CachesInv ==
  /\ l1 \in [Procs -> [Blocks -> Copy]]
  /\ \A p \in Procs, b \in Blocks : Fits(p, b)
  /\ counters \in [Procs -> CoreCounters]
  /\ zeros \in [Procs -> 0 .. Distance]
  /\ systemCycles \in Nat

\* The latency of an operation under way is not yet in any account, and a miss that
\* is counted is not yet paid and registered.
Pending == [p \in Procs |-> IF pc[p] \in {"ready", "fold", "done"} THEN 0 ELSE latency[p]]
Unpaid == [p \in Procs |-> IF pc[p] = "miss" THEN 1 ELSE 0]
Counter(counter) == [p \in Procs |-> counters[p][counter]]

\* The cycles of all operations, under way or not, that are not those of hits, misses
\* and the pipeline: the cycles of the interconnect.
Travelled ==
  (systemCycles + SumFunction(Pending) + MissPenalty * SumFunction(Unpaid))
    - (BaseLatency * Total("total") + HitLatency * Total("hits") + MissPenalty * Total("misses"))

\* The inductive invariant behind CyclesBalance.
AccountsInv ==
  /\ stats["stateTransitions"] = Total("misses") - SumFunction(Unpaid)
  /\ stats["coherenceMessages"] = stats["readRequests"] + stats["writeRequests"]
  /\ systemCycles = SumFunction(localCycles)
  /\ Travelled >= InterconnectLatency * (stats["coherenceMessages"] + stats["invalidations"])
  /\ Travelled <= InterconnectLatency * (stats["coherenceMessages"] + stats["invalidations"]
                                           + stats["readRequests"])

\* Cores that only run their traces.
OnlyTraces ==
  /\ returned = 0
  /\ \A p \in Procs :
        /\ pc[p] \notin {"atomic", "keep", "register"}
        /\ pc[p] \notin {"ready", "fold", "done"} => op[p].kind = "Access"
        /\ counters[p].atomics = 0 /\ counters[p].handled = 0

-----------------------------------------------------------------------------
\* A core that only gives up blocks stays within its sets.
LEMMA ShrinkingFits ==
  ASSUME NEW p \in Procs, NEW b \in Blocks, Fits(p, b), Held(p)' \subseteq Held(p)
  PROVE  Fits(p, b)'
<1> DEFINE K == Held(p) \cap SameSet(b)
           L == Held(p)' \cap SameSet(b)
<1>1. IsFiniteSet(K) /\ Cardinality(K) <= Associativity /\ L \subseteq K
  BY DEF Fits
<1>2. IsFiniteSet(L) /\ Cardinality(L) <= Cardinality(K)
      /\ Cardinality(L) \in Nat /\ Cardinality(K) \in Nat
  <2> HIDE DEF K, L
  <2> QED  BY <1>1, FS_Subset, FS_CardinalityType
<1>3. Cardinality(L) <= Associativity
  <2> HIDE DEF K, L
  <2> QED  BY <1>1, <1>2, SystemAssumption
<1> QED  BY <1>2, <1>3 DEF Fits, SameSet

\* What a miss makes of the blocks of a core.
LEMMA MissHolds ==
  ASSUME CachesInv, SystemInv, NEW p \in Procs, L1Miss(p)
  PROVE  LET b == BlockOf[op[p].address]
         IN /\ b \in Blocks /\ b \notin Held(p) /\ Held(p) \subseteq Blocks
            /\ l1' \in [Procs -> [Blocks -> Copy]]
            /\ \A q \in Procs \ {p} : l1'[q] = l1[q]
            /\ \/ ~IsFull(p, b) /\ Held(p)' = Held(p) \cup {b}
               \/ IsFull(p, b) /\ \E v \in Held(p) \cap SameSet(b) :
                                    Held(p)' = (Held(p) \ {v}) \cup {b}
<1> DEFINE b == BlockOf[op[p].address]
<1>1. b \in Blocks
  BY SystemAssumption DEF SystemInv, Running, L1Miss
<1>2. b \notin Held(p) /\ Held(p) \subseteq Blocks
  BY DEF L1Miss, Held
<1>3. PICK victims \in IF IsFull(p, b) THEN {{v} : v \in Held(p) \cap SameSet(b)} ELSE {{}} :
         l1' = [l1 EXCEPT ![p] =
                [c \in Blocks |-> IF c = b THEN Installed(op[p].isWrite)
                                  ELSE IF c \in victims THEN NoCopy
                                  ELSE l1[p][c]]]
  BY DEF L1Miss
<1>w. op[p].isWrite \in BOOLEAN
  BY DEF SystemInv, Operations
<1>4. Installed(op[p].isWrite) \in Copy /\ Installed(op[p].isWrite).state # "I"
      /\ NoCopy \in Copy /\ NoCopy.state = "I"
  BY <1>w DEF Installed, NoCopy, Copy, MESI
<1> HIDE DEF b
<1>5. l1' \in [Procs -> [Blocks -> Copy]] /\ \A q \in Procs \ {p} : l1'[q] = l1[q]
  BY <1>3, <1>4 DEF CachesInv
<1>6. Held(p)' = (Held(p) \ victims) \cup {b}
  <2>1. l1'[p] = [c \in Blocks |-> IF c = b THEN Installed(op[p].isWrite)
                                  ELSE IF c \in victims THEN NoCopy
                                  ELSE l1[p][c]]
    BY <1>3 DEF CachesInv
  <2>2. \A c \in Blocks : l1'[p][c].state # "I" <=> c = b \/ (c \notin victims /\ l1[p][c].state # "I")
    BY <1>4, <2>1
  <2> QED  BY <1>1, <2>2 DEF Held
<1>7. \/ ~IsFull(p, b) /\ victims = {}
      \/ IsFull(p, b) /\ \E v \in Held(p) \cap SameSet(b) : victims = {v}
  OBVIOUS
<1> QED  BY <1>1, <1>2, <1>5, <1>6, <1>7 DEF b

LEMMA MissFits ==
  ASSUME CachesInv, SystemInv, NEW p \in Procs, L1Miss(p), NEW c \in Blocks
  PROVE  Fits(p, c)'
<1> DEFINE b == BlockOf[op[p].address]
           H == Held(p)
           K == Held(p) \cap SameSet(c)
<1>1. /\ b \in Blocks /\ b \notin H /\ H \subseteq Blocks
      /\ \/ ~IsFull(p, b) /\ Held(p)' = H \cup {b}
         \/ IsFull(p, b) /\ \E v \in H \cap SameSet(b) : Held(p)' = (H \ {v}) \cup {b}
  BY MissHolds
<1>2. IsFiniteSet(K) /\ Cardinality(K) <= Associativity /\ Cardinality(K) \in Nat
  BY FS_CardinalityType DEF CachesInv, Fits
<1>a. Associativity \in Nat
  BY SystemAssumption
<1>3. CASE SetOf[c] # SetOf[b]
  <2>1. b \notin SameSet(c) /\ SameSet(b) \cap SameSet(c) = {}
    BY <1>3 DEF SameSet
  <2>2. Held(p)' \cap SameSet(c) = K
    <3> HIDE DEF b
    <3> QED  BY <1>1, <2>1
  <2> QED  BY <1>2, <2>2 DEF Fits, SameSet
<1>4. CASE SetOf[c] = SetOf[b]
  <2>1. SameSet(c) = SameSet(b) /\ b \in SameSet(c)
    BY <1>1, <1>4 DEF SameSet
  <2>2. CASE ~IsFull(p, b) /\ Held(p)' = H \cup {b}
    <3>1. Held(p)' \cap SameSet(c) = K \cup {b} /\ b \notin K
      BY <1>1, <2>1, <2>2
    <3>2. Cardinality(K) < Associativity
      BY <1>2, <1>a, <2>1, <2>2 DEF IsFull
    <3> HIDE DEF K, b
    <3>3. IsFiniteSet(K \cup {b}) /\ Cardinality(K \cup {b}) = Cardinality(K) + 1
      BY <1>2, <3>1, FS_AddElement
    <3> QED  BY <1>2, <1>a, <3>1, <3>2, <3>3 DEF Fits, SameSet
  <2>3. CASE \E v \in H \cap SameSet(b) : Held(p)' = (H \ {v}) \cup {b}
    <3>1. PICK v \in H \cap SameSet(b) : Held(p)' = (H \ {v}) \cup {b}
      BY <2>3
    <3>2. Held(p)' \cap SameSet(c) = (K \ {v}) \cup {b} /\ b \notin K \ {v} /\ v \in K
      BY <1>1, <2>1, <3>1
    <3> HIDE DEF K, b
    <3>3. IsFiniteSet(K \ {v}) /\ Cardinality(K \ {v}) = Cardinality(K) - 1
      BY <1>2, <3>2, FS_RemoveElement
    <3>4. /\ IsFiniteSet((K \ {v}) \cup {b})
          /\ Cardinality((K \ {v}) \cup {b}) = Cardinality(K \ {v}) + 1
      BY <3>2, <3>3, FS_AddElement
    <3> QED  BY <1>2, <1>a, <3>2, <3>3, <3>4 DEF Fits, SameSet
  <2> QED  BY <1>1, <2>2, <2>3
<1> QED  BY <1>3, <1>4

\* A hit, and a state a core sets itself, change no copy to Invalid.
LEMMA HitHolds ==
  ASSUME CachesInv, SystemInv, NEW p \in Procs, L1Hit(p) \/ KeepExclusive(p)
  PROVE  /\ l1' \in [Procs -> [Blocks -> Copy]]
         /\ \A q \in Procs : Held(q)' = Held(q)
<1> DEFINE b == BlockOf[op[p].address]
<1>1. op[p].isWrite \in BOOLEAN /\ b \in Blocks
  BY SystemAssumption DEF SystemInv, Operations, Running, L1Hit, KeepExclusive
<1> HIDE DEF b
<1>2. CASE UNCHANGED l1
  BY <1>2 DEF CachesInv, Held
<1>3. CASE \E c \in Copy : c.state # "I" /\ l1' = [l1 EXCEPT ![p][b] = c] /\ b \in Held(p)
  <2>1. PICK c \in Copy : c.state # "I" /\ l1' = [l1 EXCEPT ![p][b] = c] /\ b \in Held(p)
    BY <1>3
  <2>2. l1' \in [Procs -> [Blocks -> Copy]]
    BY <1>1, <2>1 DEF CachesInv
  <2>3. \A q \in Procs, d \in Blocks : l1'[q][d] = IF q = p /\ d = b THEN c ELSE l1[q][d]
    BY <1>1, <2>1 DEF CachesInv
  <2> QED  BY <2>1, <2>2, <2>3 DEF Held
<1>4. CASE L1Hit(p)
  <2>1. b \in Held(p) /\ l1' = [l1 EXCEPT ![p][b] = AfterHit(l1[p][b], op[p].isWrite)]
    BY <1>4 DEF L1Hit, b
  <2>2. l1[p][b] \in Copy /\ l1[p][b].state # "I"
    BY <1>1, <2>1 DEF Held, CachesInv
  <2>3. AfterHit(l1[p][b], op[p].isWrite) \in Copy /\ AfterHit(l1[p][b], op[p].isWrite).state # "I"
    BY <1>1, <2>2 DEF AfterHit, Copy, MESI
  <2> QED  BY <1>3, <2>1, <2>3
<1>5. CASE KeepExclusive(p)
  <2>1. UNCHANGED l1 \/ (b \in Held(p) /\ l1' = [l1 EXCEPT ![p][b].state = "M"])
    BY <1>5 DEF KeepExclusive, b
  <2>2. CASE b \in Held(p) /\ l1' = [l1 EXCEPT ![p][b].state = "M"]
    <3> DEFINE c == [l1[p][b] EXCEPT !.state = "M"]
    <3>1. l1[p][b] \in Copy
      BY <1>1 DEF CachesInv
    <3>2. c \in Copy /\ c.state # "I"
      BY <3>1 DEF Copy, MESI
    <3>3. l1' = [l1 EXCEPT ![p][b] = c]
      BY <2>2
    <3> HIDE DEF c
    <3> QED  BY <1>3, <2>2, <3>2, <3>3
  <2> QED  BY <1>2, <2>1, <2>2
<1> QED  BY <1>4, <1>5

\* A request of another core costs a core at most the block it is about.
LEMMA RemoteHolds ==
  ASSUME CachesInv, NEW p \in Procs, NEW a \in Addresses,
         NEW req \in {"Invalidate", "Share", "Flush"}, HandleRemote(p, a, req)
  PROVE  /\ l1' \in [Procs -> [Blocks -> Copy]]
         /\ \A q \in Procs : Held(q)' \subseteq Held(q)
         /\ \A q \in Procs : Held(q) \ (IF q = p /\ req # "Share" THEN {BlockOf[a]} ELSE {})
                                \subseteq Held(q)'
<1> DEFINE b == BlockOf[a]
           c == IF req = "Share" THEN [l1[p][b] EXCEPT !.state = "S"] ELSE NoCopy
<1>1. b \in Blocks
  BY SystemAssumption
<1>2. l1[p][b] \in Copy
  BY <1>1 DEF CachesInv
<1>3. c \in Copy /\ (req = "Share" => c.state = "S") /\ (req # "Share" => c.state = "I")
  BY <1>2 DEF Copy, MESI, NoCopy
<1>4. l1' = [l1 EXCEPT ![p][b] = c] /\ (req = "Share" => l1[p][b].state \in {"M", "E"})
  BY DEF HandleRemote
<1> HIDE DEF b, c
<1>5. l1' \in [Procs -> [Blocks -> Copy]]
  BY <1>1, <1>3, <1>4 DEF CachesInv
<1>6. \A q \in Procs, d \in Blocks : l1'[q][d] = IF q = p /\ d = b THEN c ELSE l1[q][d]
  BY <1>1, <1>4 DEF CachesInv
<1> QED  BY <1>3, <1>4, <1>5, <1>6 DEF Held, b

CounterNames == {"total", "hits", "misses", "atomics", "handled"}

LEMMA CountOfType ==
  ASSUME counters \in [Procs -> CoreCounters], NEW p \in Procs, NEW name \in CounterNames,
         CountOf(p, name)
  PROVE  /\ counters' \in [Procs -> CoreCounters]
         /\ \A q \in Procs \ {p} : counters'[q] = counters[q]
         /\ counters'[p][name] = counters[p][name] + 1
         /\ \A other \in CounterNames \ {name} : counters'[p][other] = counters[p][other]
<1> USE DEF CounterNames
<1> DEFINE c == counters[p]
           d == [c EXCEPT ![name] = c[name] + 1]
<1>1. c \in CoreCounters
  OBVIOUS
<1>2. /\ c["total"] \in Nat /\ c["hits"] \in Nat /\ c["misses"] \in Nat
      /\ c["atomics"] \in Nat /\ c["handled"] \in Nat
  BY <1>1 DEF CoreCounters
<1>3. /\ d \in CoreCounters /\ d[name] = c[name] + 1
      /\ \A other \in CounterNames \ {name} : d[other] = c[other]
  <2>1. CASE name = "total"
    BY <1>1, <1>2, <2>1 DEF CoreCounters
  <2>2. CASE name = "hits"
    BY <1>1, <1>2, <2>2 DEF CoreCounters
  <2>3. CASE name = "misses"
    BY <1>1, <1>2, <2>3 DEF CoreCounters
  <2>4. CASE name = "handled"
    BY <1>1, <1>2, <2>4 DEF CoreCounters
  <2>5. CASE name = "atomics"
    BY <1>1, <1>2, <2>5 DEF CoreCounters
  <2> QED  BY <2>1, <2>2, <2>3, <2>4, <2>5
<1>4. counters' = [counters EXCEPT ![p] = d]
  BY DEF CountOf
<1> HIDE DEF d
<1> QED  BY <1>3, <1>4

LEMMA CachesInit == SystemInit => CachesInv
<1> SUFFICES ASSUME SystemInit PROVE CachesInv
  OBVIOUS
<1>1. l1 \in [Procs -> [Blocks -> Copy]] /\ \A p \in Procs : Held(p) = {}
  BY DEF SystemInit, NoCopy, Copy, MESI, Held
<1>2. \A p \in Procs, b \in Blocks : Fits(p, b)
  <2>1. \A p \in Procs, b \in Blocks : Held(p) \cap SameSet(b) = {}
    BY <1>1
  <2>2. IsFiniteSet({}) /\ Cardinality({}) = 0
    BY FS_EmptySet
  <2>3. 0 <= Associativity
    BY SystemAssumption
  <2>4. ASSUME NEW p \in Procs, NEW b \in Blocks PROVE Fits(p, b)
    <3>1. Held(p) \cap SameSet(b) = {}
      BY <2>1
    <3> QED  BY <2>2, <2>3, <3>1 DEF Fits
  <2> QED  BY <2>4
<1>3. counters \in [Procs -> CoreCounters] /\ systemCycles \in Nat
  BY DEF SystemInit, CoreCounters
<1>4. zeros \in [Procs -> 0 .. Distance]
  BY SystemAssumption DEF SystemInit
<1> QED  BY <1>1, <1>2, <1>3, <1>4 DEF CachesInv

\* What a step may do to the caches, given what becomes of the held blocks.
LEMMA HeldFits ==
  ASSUME CachesInv, \A q \in Procs : Held(q)' \subseteq Held(q)
  PROVE  \A q \in Procs, b \in Blocks : Fits(q, b)'
BY ShrinkingFits DEF CachesInv

LEMMA CachesStep == CachesInv /\ SystemInv /\ [SystemNext]_vars => CachesInv'
<1> SUFFICES ASSUME CachesInv, SystemInv, [SystemNext]_vars PROVE CachesInv'
  OBVIOUS
<1> USE DEF CounterNames
<1>1. ASSUME UNCHANGED l1
      PROVE  /\ l1' \in [Procs -> [Blocks -> Copy]]
             /\ \A q \in Procs, b \in Blocks : Fits(q, b)'
  BY <1>1 DEF CachesInv, Fits, Held, SameSet
<1>2. CASE UNCHANGED vars \/ Ended
  BY <1>1, <1>2 DEF vars, Ended, CachesInv
<1>3. ASSUME NEW p \in Procs, Run(p) \/ FoldFails(p) PROVE CachesInv'
  <2>1. CASE \/ \E a \in Addresses, k \in Kinds \ {"Remote"}, w \in BOOLEAN : Issue(p, a, k, w)
             \/ Request(p) \/ HandleL1Miss(p) \/ Register(p)
             \/ EndOfTrace(p) \/ FoldSucceeds(p) \/ FoldNotNeeded(p) \/ FoldFails(p)
    <3>1. UNCHANGED <<l1, counters, zeros, systemCycles>>
      BY <2>1 DEF Issue, Request, HandleL1Miss, Register, EndOfTrace,
                  FoldSucceeds, FoldNotNeeded, FoldFails, cycleVars, coreVars
    <3> QED  BY <1>1, <3>1 DEF CachesInv
  <2>2. CASE Check(p) \/ AtomicRequest(p)
    <3>1. /\ CountOf(p, "total") \/ CountOf(p, "atomics")
          /\ UNCHANGED <<l1, zeros, systemCycles>>
      BY <2>2 DEF Check, AtomicRequest, cycleVars
    <3>2. counters' \in [Procs -> CoreCounters]
      BY <3>1, CountOfType DEF CachesInv
    <3> QED  BY <1>1, <3>1, <3>2 DEF CachesInv
  <2>3. CASE Account(p)
    <3>1. /\ UNCHANGED <<l1, counters, zeros>>
          /\ systemCycles' = systemCycles + (IF op[p].kind = "Access" THEN latency[p] ELSE 0)
          /\ latency[p] \in Nat
      BY <2>3 DEF Account, SystemInv
    <3>2. systemCycles' \in Nat
      BY <3>1 DEF CachesInv
    <3> QED  BY <1>1, <3>1, <3>2 DEF CachesInv
  <2>4. CASE L1Hit(p)
    <3>1. CountOf(p, "hits") /\ UNCHANGED <<zeros, systemCycles>>
      BY <2>4 DEF L1Hit, cycleVars
    <3>2. counters' \in [Procs -> CoreCounters]
      BY <3>1, CountOfType DEF CachesInv
    <3> QED  BY <2>4, <3>1, <3>2, HitHolds, HeldFits DEF CachesInv
  <2>5. CASE KeepExclusive(p)
    <3>1. UNCHANGED <<counters, zeros, systemCycles>>
      BY <2>5 DEF KeepExclusive, cycleVars
    <3> QED  BY <2>5, <3>1, HitHolds, HeldFits DEF CachesInv
  <2>6. CASE L1Miss(p)
    <3>1. CountOf(p, "misses") /\ UNCHANGED <<zeros, systemCycles>>
      BY <2>6 DEF L1Miss, cycleVars
    <3>2. counters' \in [Procs -> CoreCounters]
      BY <3>1, CountOfType DEF CachesInv
    <3>3. /\ l1' \in [Procs -> [Blocks -> Copy]]
          /\ \A q \in Procs \ {p} : l1'[q] = l1[q]
      BY <2>6, MissHolds
    <3>4. ASSUME NEW q \in Procs, NEW b \in Blocks PROVE Fits(q, b)'
      <4>1. CASE q = p
        BY <2>6, <4>1, MissFits
      <4>2. CASE q # p
        <5>1. Held(q)' = Held(q)
          BY <3>3, <4>2 DEF Held
        <5> QED  BY <5>1, ShrinkingFits DEF CachesInv
      <4> QED  BY <4>1, <4>2
    <3> QED  BY <3>1, <3>2, <3>3, <3>4 DEF CachesInv
  <2>7. CASE StreamHit(p)
    <3>1. /\ CountOf(p, "hits") /\ UNCHANGED <<l1, systemCycles>>
          /\ zeros[p] > 0
          /\ zeros' = zeros \/ zeros' = [zeros EXCEPT ![p] = zeros[p] - 1]
      BY <2>7 DEF StreamHit, InStream, cycleVars
    <3>2. counters' \in [Procs -> CoreCounters]
      BY <3>1, CountOfType DEF CachesInv
    <3>3. zeros[p] - 1 \in 0 .. Distance
      BY <3>1, SystemAssumption DEF CachesInv
    <3>4. zeros' \in [Procs -> 0 .. Distance]
      BY <3>1, <3>3 DEF CachesInv
    <3> QED  BY <1>1, <3>1, <3>2, <3>4 DEF CachesInv
  <2> QED  BY <1>3, <2>1, <2>2, <2>3, <2>4, <2>5, <2>6, <2>7 DEF Run
<1>4. ASSUME NEW p \in Procs, NEW a \in Addresses,
             NEW req \in {"Invalidate", "Share", "Flush"}, HandleRemote(p, a, req)
      PROVE  CachesInv'
  <2>1. CountOf(p, "handled") /\ UNCHANGED <<zeros, systemCycles>>
    BY <1>4 DEF HandleRemote, cycleVars
  <2>2. counters' \in [Procs -> CoreCounters]
    BY <2>1, CountOfType DEF CachesInv
  <2> QED  BY <1>4, <2>1, <2>2, RemoteHolds, HeldFits DEF CachesInv
<1> QED  BY <1>2, <1>3, <1>4 DEF SystemNext

LEMMA CachesInvariant == SystemSpec => [](SystemInv /\ CachesInv)
BY SystemInvariant, CachesInit, CachesStep, PTL DEF SystemSpec

\* The types of the simulator, and that no L1 set ever holds more blocks than it has
\* ways, for any layout of the caches and any of the core's operations.
THEOREM CachesNeverOverfill == SystemSpec => []SystemTypeOK
<1>1. SystemInv /\ CachesInv => SystemTypeOK
  BY DEF SystemInv, CachesInv, SystemTypeOK, Fits
<1> QED  BY <1>1, CachesInvariant, PTL

-----------------------------------------------------------------------------
LEMMA OnlyTracesStep ==
  ASSUME Kinds \subseteq {"Access"}, SystemInv, CachesInv, OnlyTraces, [SystemNext]_vars
  PROVE  OnlyTraces'
<1>t. /\ pc \in [Procs -> Places] /\ op \in [Procs -> Operations]
      /\ counters \in [Procs -> CoreCounters] /\ latency \in [Procs -> Nat]
  BY DEF SystemInv, CachesInv
<1>k. "Remote" \notin Kinds /\ "Atomic" \notin Kinds
  OBVIOUS
<1>1. CASE UNCHANGED vars \/ Ended
  BY <1>1 DEF vars, Ended, OnlyTraces
\* Neither of the counters of the other operations moves in the steps of a trace.
<1>c. ASSUME NEW p \in Procs,
             \/ UNCHANGED counters
             \/ CountOf(p, "total") \/ CountOf(p, "hits") \/ CountOf(p, "misses")
      PROVE  \A q \in Procs : /\ counters'[q].atomics = counters[q].atomics
                              /\ counters'[q].handled = counters[q].handled
  <2>1. CASE \E name \in {"total", "hits", "misses"} : CountOf(p, name)
    <3>1. PICK name \in {"total", "hits", "misses"} : CountOf(p, name)
      BY <2>1
    <3>2. name \in CounterNames /\ "atomics" \in CounterNames \ {name}
          /\ "handled" \in CounterNames \ {name}
      BY <3>1 DEF CounterNames
    <3>3. /\ \A q \in Procs \ {p} : counters'[q] = counters[q]
          /\ counters'[p]["atomics"] = counters[p]["atomics"]
          /\ counters'[p]["handled"] = counters[p]["handled"]
      BY <1>t, <3>1, <3>2, CountOfType
    <3> QED  BY <3>3
  <2>2. CASE UNCHANGED counters
    BY <2>2
  <2> QED  BY <1>c, <2>1, <2>2
<1>2. ASSUME NEW p \in Procs, NEW place, Goto(p, place), UNCHANGED <<op, returned>>,
             \/ UNCHANGED counters
             \/ CountOf(p, "total") \/ CountOf(p, "hits") \/ CountOf(p, "misses"),
             place \notin {"atomic", "keep", "register"},
             place \in {"ready", "fold", "done"} \/ pc[p] \notin {"ready", "fold", "done"}
      PROVE  OnlyTraces'
  <2>1. pc' = [pc EXCEPT ![p] = place]
    BY <1>2 DEF Goto
  <2>2. pc'[p] = place /\ \A q \in Procs \ {p} : pc'[q] = pc[q]
    BY <1>t, <2>1
  <2>3. \A q \in Procs : /\ counters'[q].atomics = counters[q].atomics
                         /\ counters'[q].handled = counters[q].handled
    BY <1>2, <1>c
  <2> QED  BY <1>2, <2>2, <2>3 DEF OnlyTraces
<1>3. ASSUME NEW p \in Procs, Run(p) \/ FoldFails(p) PROVE OnlyTraces'
  <2>1. CASE \E a \in Addresses, k \in Kinds \ {"Remote"}, w \in BOOLEAN : Issue(p, a, k, w)
    <3>1. PICK a \in Addresses, k \in Kinds \ {"Remote"}, w \in BOOLEAN : Issue(p, a, k, w)
      BY <2>1
    <3>2. k = "Access"
      BY <3>1
    <3>3. /\ pc' = [pc EXCEPT ![p] = "check"]
          /\ op' = [op EXCEPT ![p] = [address |-> a, kind |-> k, isWrite |-> w]]
          /\ UNCHANGED <<counters, returned>>
      BY <3>1, <3>2 DEF Issue, Goto, cycleVars
    <3>4. /\ pc'[p] = "check" /\ op'[p].kind = "Access"
          /\ \A q \in Procs \ {p} : pc'[q] = pc[q] /\ op'[q] = op[q]
      BY <1>t, <3>2, <3>3
    <3> QED  BY <3>3, <3>4 DEF OnlyTraces
  <2>2. CASE AtomicRequest(p) \/ KeepExclusive(p) \/ Register(p)
    BY <2>2 DEF AtomicRequest, KeepExclusive, Register, OnlyTraces
  <2>3. CASE Check(p) \/ Request(p) \/ L1Miss(p)
    <3>1. \E place \in {"l1", "request", "miss"} : Goto(p, place)
      BY <2>3 DEF Check, Request, L1Miss
    <3>2. /\ UNCHANGED <<op, returned>> /\ pc[p] \in {"check", "request", "l1"}
          /\ UNCHANGED counters \/ CountOf(p, "total") \/ CountOf(p, "misses")
      BY <2>3 DEF Check, Request, L1Miss, cycleVars
    <3> QED  BY <1>2, <3>1, <3>2
  <2>4. CASE L1Hit(p) \/ StreamHit(p) \/ HandleL1Miss(p)
    <3>1. /\ UNCHANGED <<op, returned>> /\ pc[p] \in {"l1", "miss"} /\ Goto(p, AfterAccess(p))
          /\ UNCHANGED counters \/ CountOf(p, "hits")
      BY <2>4 DEF L1Hit, StreamHit, HandleL1Miss, cycleVars
    <3>2. AfterAccess(p) = "account"
      BY <3>1 DEF AfterAccess, OnlyTraces
    <3> QED  BY <1>2, <3>1, <3>2
  <2>5. CASE Account(p)
    <3>1. op[p].kind = "Access"
      BY <2>5 DEF Account, OnlyTraces
    <3>2. latency[p] - latency[p] = 0 /\ returned + 0 = returned
      BY <1>t DEF OnlyTraces
    <3>3. returned' = returned
      BY <2>5, <3>1, <3>2 DEF Account
    <3>4. Goto(p, "ready") /\ UNCHANGED <<op, counters>>
      BY <2>5 DEF Account
    <3> QED  BY <1>2, <3>3, <3>4
  <2>6. CASE EndOfTrace(p) \/ FoldSucceeds(p) \/ FoldNotNeeded(p)
    <3>1. \E place \in {"ready", "fold", "done"} : Goto(p, place)
      BY <2>6 DEF EndOfTrace, FoldSucceeds, FoldNotNeeded
    <3>2. UNCHANGED <<op, counters, returned>>
      BY <2>6 DEF EndOfTrace, FoldSucceeds, FoldNotNeeded, cycleVars
    <3> QED  BY <1>2, <3>1, <3>2
  <2>7. CASE FoldFails(p)
    BY <2>7 DEF FoldFails, coreVars, OnlyTraces
  <2> QED  BY <1>3, <2>1, <2>2, <2>3, <2>4, <2>5, <2>6, <2>7 DEF Run
<1>4. ASSUME NEW p \in Procs, NEW a \in Addresses,
             NEW req \in {"Invalidate", "Share", "Flush"}, HandleRemote(p, a, req)
      PROVE  FALSE
  BY <1>k, <1>4 DEF HandleRemote
<1> QED  BY <1>1, <1>3, <1>4 DEF SystemNext

-----------------------------------------------------------------------------
\* The sums over the cores, and what the step of one core makes of them.
LedgersTyped ==
  /\ Pending \in [Procs -> Nat]
  /\ Unpaid \in [Procs -> Nat]
  /\ localCycles \in [Procs -> Nat]
  /\ \A name \in {"total", "hits", "misses"} : Counter(name) \in [Procs -> Nat]

LEMMA LedgersType == SystemInv /\ CachesInv => LedgersTyped
BY DEF SystemInv, CachesInv, LedgersTyped, Pending, Unpaid, Counter, CoreCounters

LEMMA LedgersTypeNext == SystemInv' /\ CachesInv' => LedgersTyped'
BY LedgersType, PTL

LEMMA ProcsAreFinite == IsFiniteSet(Procs)
BY FS_Interval, ControllerAssumption DEF Procs

LEMMA SumOfOneCore ==
  ASSUME NEW f \in [Procs -> Nat], NEW g \in [Procs -> Nat], NEW p \in Procs,
         \A q \in Procs \ {p} : g[q] = f[q]
  PROVE  SumFunction(g) = (SumFunction(f) + g[p]) - f[p] /\ SumFunction(f) \in Int
<1>1. g = [f EXCEPT ![p] = g[p]] /\ g[p] \in Int /\ f \in [Procs -> Int]
  OBVIOUS
<1>2. SumFunction([f EXCEPT ![p] = g[p]]) = SumFunction(f) + g[p] - f[p]
  BY <1>1, ProcsAreFinite, SumUpdate, ZenonT(40)
<1>3. SumFunction(f) \in Int
  <2>1. DOMAIN f = Procs /\ \A q \in Procs : f[q] \in Int
    OBVIOUS
  <2> QED  BY <2>1, ProcsAreFinite, SumType DEF SumFunction
<1>4. SumFunction(g) = SumFunction(f) + g[p] - f[p]
  BY <1>1, <1>2
<1>5. f[p] \in Int /\ g[p] \in Int
  OBVIOUS
<1> QED  BY <1>3, <1>4, <1>5

LEMMA TotalIsSum ==
  /\ \A name : Total(name) = SumFunction(Counter(name))
  /\ Total("total")' = SumFunction(Counter("total")')
  /\ Total("hits")' = SumFunction(Counter("hits")')
  /\ Total("misses")' = SumFunction(Counter("misses")')
BY DEF Total, Counter

\* What core p contributes: the cycles it has not accounted for, less the cycles of its
\* hits, misses and pipeline.
Balance(p) ==
  (systemCycles + Pending[p] + MissPenalty * Unpaid[p])
    - (BaseLatency * counters[p]["total"] + HitLatency * counters[p]["hits"]
         + MissPenalty * counters[p]["misses"])

OnlyCore(p) ==
  \A q \in Procs \ {p} :
     /\ pc'[q] = pc[q] /\ latency'[q] = latency[q]
     /\ counters'[q] = counters[q] /\ localCycles'[q] = localCycles[q]

\* The step of one core moves the sums as it moves its own contribution.
LEMMA OneCoreMoves ==
  ASSUME LedgersTyped, LedgersTyped', systemCycles \in Nat, systemCycles' \in Nat,
         NEW p \in Procs, OnlyCore(p)
  PROVE  /\ Travelled' - Balance(p)' = Travelled - Balance(p)
         /\ Travelled \in Int /\ Balance(p) \in Int /\ Travelled' \in Int /\ Balance(p)' \in Int
         /\ Total("misses")' - SumFunction(Unpaid)'
              = ((Total("misses") - SumFunction(Unpaid))
                  + (counters'[p]["misses"] - Unpaid'[p])) - (counters[p]["misses"] - Unpaid[p])
         /\ SumFunction(localCycles)' = (SumFunction(localCycles) + localCycles'[p]) - localCycles[p]
         /\ SumFunction(localCycles) \in Int
<1>1. \A q \in Procs \ {p} :
        /\ Pending'[q] = Pending[q] /\ Unpaid'[q] = Unpaid[q]
        /\ localCycles'[q] = localCycles[q]
        /\ counters'[q] = counters[q]
  BY DEF OnlyCore, Pending, Unpaid
<1>c. /\ Counter("total") \in [Procs -> Nat] /\ Counter("total")' \in [Procs -> Nat]
      /\ Counter("hits") \in [Procs -> Nat] /\ Counter("hits")' \in [Procs -> Nat]
      /\ Counter("misses") \in [Procs -> Nat] /\ Counter("misses")' \in [Procs -> Nat]
  BY DEF LedgersTyped
<1>d. /\ \A q \in Procs : /\ Counter("total")[q] = counters[q]["total"]
                          /\ Counter("hits")[q] = counters[q]["hits"]
                          /\ Counter("misses")[q] = counters[q]["misses"]
      /\ \A q \in Procs : /\ Counter("total")'[q] = counters'[q]["total"]
                          /\ Counter("hits")'[q] = counters'[q]["hits"]
                          /\ Counter("misses")'[q] = counters'[q]["misses"]
  BY DEF Counter
<1>2. /\ SumFunction(Pending') = (SumFunction(Pending) + Pending'[p]) - Pending[p]
      /\ SumFunction(Pending) \in Int
  BY <1>1, SumOfOneCore, ZenonT(40) DEF LedgersTyped
<1>3. /\ SumFunction(Unpaid') = (SumFunction(Unpaid) + Unpaid'[p]) - Unpaid[p]
      /\ SumFunction(Unpaid) \in Int
  BY <1>1, SumOfOneCore, ZenonT(40) DEF LedgersTyped
<1>4. /\ SumFunction(localCycles') = (SumFunction(localCycles) + localCycles'[p]) - localCycles[p]
      /\ SumFunction(localCycles) \in Int
  BY <1>1, SumOfOneCore, ZenonT(40) DEF LedgersTyped
<1>5. /\ SumFunction(Counter("total")')
           = (SumFunction(Counter("total")) + Counter("total")'[p]) - Counter("total")[p]
      /\ SumFunction(Counter("total")) \in Int
  <2>1. \A q \in Procs \ {p} : Counter("total")'[q] = Counter("total")[q]
    BY <1>1, <1>d
  <2> QED  BY <1>c, <2>1, SumOfOneCore
<1>6. /\ SumFunction(Counter("hits")')
           = (SumFunction(Counter("hits")) + Counter("hits")'[p]) - Counter("hits")[p]
      /\ SumFunction(Counter("hits")) \in Int
  <2>1. \A q \in Procs \ {p} : Counter("hits")'[q] = Counter("hits")[q]
    BY <1>1, <1>d
  <2> QED  BY <1>c, <2>1, SumOfOneCore
<1>7. /\ SumFunction(Counter("misses")')
           = (SumFunction(Counter("misses")) + Counter("misses")'[p]) - Counter("misses")[p]
      /\ SumFunction(Counter("misses")) \in Int
  <2>1. \A q \in Procs \ {p} : Counter("misses")'[q] = Counter("misses")[q]
    BY <1>1, <1>d
  <2> QED  BY <1>c, <2>1, SumOfOneCore
<1> DEFINE t == counters[p]["total"]
           h == counters[p]["hits"]
           m == counters[p]["misses"]
           tt == counters'[p]["total"]
           hh == counters'[p]["hits"]
           mm == counters'[p]["misses"]
           P == Pending[p]
           PP == Pending'[p]
           U == Unpaid[p]
           UU == Unpaid'[p]
           sP == SumFunction(Pending)
           sPP == SumFunction(Pending')
           sU == SumFunction(Unpaid)
           sUU == SumFunction(Unpaid')
           sT == Total("total")
           sTT == Total("total")'
           sH == Total("hits")
           sHH == Total("hits")'
           sM == Total("misses")
           sMM == Total("misses")'
           y == systemCycles
           yy == systemCycles'
<1>8. /\ t \in Int /\ h \in Int /\ m \in Int /\ tt \in Int /\ hh \in Int /\ mm \in Int
      /\ P \in Int /\ PP \in Int /\ U \in Int /\ UU \in Int /\ y \in Int /\ yy \in Int
  <2>1. /\ Counter("total")[p] \in Nat /\ Counter("hits")[p] \in Nat /\ Counter("misses")[p] \in Nat
        /\ Counter("total")'[p] \in Nat /\ Counter("hits")'[p] \in Nat
        /\ Counter("misses")'[p] \in Nat
    BY <1>c
  <2>2. P \in Nat /\ PP \in Nat /\ U \in Nat /\ UU \in Nat
    BY DEF LedgersTyped
  <2> QED  BY <1>d, <2>1, <2>2
<1>9. /\ sP \in Int /\ sU \in Int /\ sT \in Int /\ sH \in Int /\ sM \in Int
      /\ sPP = (sP + PP) - P /\ sUU = (sU + UU) - U
      /\ sTT = (sT + tt) - t /\ sHH = (sH + hh) - h /\ sMM = (sM + mm) - m
  BY <1>2, <1>3, <1>5, <1>6, <1>7, <1>d, TotalIsSum
<1>10. /\ Travelled = (y + sP + 10 * sU) - (1 * sT + 1 * sH + 10 * sM)
       /\ Travelled' = (yy + sPP + 10 * sUU) - (1 * sTT + 1 * sHH + 10 * sMM)
       /\ Balance(p) = (y + P + 10 * U) - (1 * t + 1 * h + 10 * m)
       /\ Balance(p)' = (yy + PP + 10 * UU) - (1 * tt + 1 * hh + 10 * mm)
  BY DEF Travelled, Balance, BaseLatency, HitLatency, MissPenalty
<1>11. SumFunction(Unpaid)' = sUU
  OBVIOUS
<1> HIDE DEF t, h, m, tt, hh, mm, P, PP, U, UU, sP, sPP, sU, sUU, sT, sTT, sH, sHH, sM, sMM, y, yy
<1>12. /\ Travelled' - Balance(p)' = Travelled - Balance(p)
       /\ Travelled \in Int /\ Balance(p) \in Int /\ Travelled' \in Int /\ Balance(p)' \in Int
  BY <1>8, <1>9, <1>10
<1>13. sMM - sUU = ((sM - sU) + (mm - UU)) - (m - U)
  BY <1>8, <1>9
<1> QED  BY <1>4, <1>11, <1>12, <1>13 DEF sMM, sUU, sM, sU, mm, UU, m, U

LEMMA Distributes ==
  ASSUME NEW x \in Nat, NEW y \in Nat, NEW z \in Nat
  PROVE  x * (y + z) = x * y + x * z /\ x * y \in Nat /\ x * z \in Nat /\ x * (y + z) \in Nat
OBVIOUS

\* What a request adds to the counters, and what it costs.
LEMMA RequestCosts ==
  ASSUME TypeOK, NEW p \in Procs, NEW a \in Addresses, ReadRequest(p, a) \/ WriteRequest(p, a)
  PROVE  \E reads \in {0, 1}, hops \in Nat, lost \in Nat :
           /\ response'.latency = InterconnectLatency * (1 + hops)
           /\ lost <= hops /\ hops <= lost + reads
           /\ stats'["stateTransitions"] = stats["stateTransitions"]
           /\ stats'["coherenceMessages"] = stats["coherenceMessages"] + 1
           /\ stats'["readRequests"] = stats["readRequests"] + reads
           /\ stats'["writeRequests"] = stats["writeRequests"] + (1 - reads)
           /\ stats'["invalidations"] = stats["invalidations"] + lost
<1> DEFINE e == directory[a]
<1>e. e \in DirectoryEntry
  BY DEF TypeOK
<1>t. \A c \in Counters : stats[c] \in Nat
  BY DEF TypeOK
<1>1. CASE ReadRequest(p, a)
  <2>1. PICK entry, st, hops :
           /\ hops \in {0, 1}
           /\ Respond(p, a, "Read", entry, Count({"readRequests"}), Grant(st, hops, {}))
    BY <1>1 DEF ReadRequest
  <2>2. /\ response'.latency = InterconnectLatency * (1 + hops)
        /\ stats' = [[c \in Counters |-> stats[c] + Count({"readRequests"})[c]]
                       EXCEPT !["coherenceMessages"] = @ + 1]
    BY <2>1 DEF Respond, Grant
  <2>3. /\ stats'["stateTransitions"] = stats["stateTransitions"]
        /\ stats'["coherenceMessages"] = stats["coherenceMessages"] + 1
        /\ stats'["readRequests"] = stats["readRequests"] + 1
        /\ stats'["writeRequests"] = stats["writeRequests"]
        /\ stats'["invalidations"] = stats["invalidations"]
    BY <1>t, <2>2 DEF Count, Counters
  <2>4. stats["writeRequests"] \in Nat /\ stats["invalidations"] \in Nat
    BY <1>t DEF Counters
  <2>5. /\ 1 \in {0, 1} /\ hops \in Nat /\ 0 \in Nat /\ 0 <= hops /\ hops <= 0 + 1
        /\ stats'["writeRequests"] = stats["writeRequests"] + (1 - 1)
        /\ stats'["invalidations"] = stats["invalidations"] + 0
    BY <2>1, <2>3, <2>4
  <2>6. /\ hops <= 0 + 1
        /\ response'.latency = InterconnectLatency * (1 + hops)
    BY <2>2, <2>5
  <2> HIDE DEF e
  <2> QED  BY <2>3, <2>5, <2>6
<1>2. CASE WriteRequest(p, a)
  <2>1. ListLength(e, p) \in Nat
    BY <1>e, ListLengthType
  <2>2. PICK n \in {0, 1, ListLength(e, p)} :
           /\ response'.latency = InterconnectLatency * (1 + n)
           /\ stats' = [[c \in Counters |->
                           stats[c] + [Count({"writeRequests"}) EXCEPT !["invalidations"] = n][c]]
                          EXCEPT !["coherenceMessages"] = @ + 1]
    BY <1>2 DEF WriteRequest, Respond, Grant
  <2> DEFINE more == [Count({"writeRequests"}) EXCEPT !["invalidations"] = n]
  <2> HIDE DEF e
  <2>3. n \in Nat
    BY <2>1, <2>2
  <2>4. /\ response'.latency = InterconnectLatency * (1 + n)
        /\ stats' = [[c \in Counters |-> stats[c] + more[c]]
                       EXCEPT !["coherenceMessages"] = @ + 1]
    BY <2>2
  <2>5. /\ more["stateTransitions"] = 0 /\ more["coherenceMessages"] = 0
        /\ more["readRequests"] = 0 /\ more["writeRequests"] = 1 /\ more["invalidations"] = n
    BY DEF Count, Counters
  <2> HIDE DEF more
  <2>6. /\ stats'["stateTransitions"] = stats["stateTransitions"] + 0
        /\ stats'["coherenceMessages"] = (stats["coherenceMessages"] + 0) + 1
        /\ stats'["readRequests"] = stats["readRequests"] + 0
        /\ stats'["writeRequests"] = stats["writeRequests"] + 1
        /\ stats'["invalidations"] = stats["invalidations"] + n
    BY <2>4, <2>5 DEF Counters
  <2>7. /\ stats["stateTransitions"] \in Nat /\ stats["coherenceMessages"] \in Nat
        /\ stats["readRequests"] \in Nat /\ stats["writeRequests"] \in Nat
    BY <1>t DEF Counters
  <2>8. /\ 0 \in {0, 1} /\ n <= n /\ n <= n + 0
        /\ stats'["stateTransitions"] = stats["stateTransitions"]
        /\ stats'["coherenceMessages"] = stats["coherenceMessages"] + 1
        /\ stats'["writeRequests"] = stats["writeRequests"] + (1 - 0)
    BY <2>3, <2>6, <2>7
  <2> QED  BY <2>3, <2>4, <2>6, <2>8
<1> QED  BY <1>1, <1>2

-----------------------------------------------------------------------------
\* A step of one core, seen from the accounts.
LEMMA AccountsFrom ==
  ASSUME AccountsInv, TypeOK, TypeOK', LedgersTyped, LedgersTyped',
         systemCycles \in Nat, systemCycles' \in Nat,
         NEW p \in Procs, OnlyCore(p),
         NEW reads \in {0, 1}, NEW hops \in Nat, NEW lost \in Nat, NEW asked \in {0, 1},
         lost <= hops, hops <= lost + reads, reads <= asked, asked = 0 => hops = 0,
         Balance(p)' = Balance(p) + InterconnectLatency * (asked + hops),
         stats'["stateTransitions"] - counters'[p]["misses"] + Unpaid'[p]
           = stats["stateTransitions"] - counters[p]["misses"] + Unpaid[p],
         stats'["coherenceMessages"] = stats["coherenceMessages"] + asked,
         stats'["readRequests"] = stats["readRequests"] + reads,
         stats'["writeRequests"] = stats["writeRequests"] + (asked - reads),
         stats'["invalidations"] = stats["invalidations"] + lost,
         systemCycles' - localCycles'[p] = systemCycles - localCycles[p]
  PROVE  AccountsInv'
<1> DEFINE trans == stats["stateTransitions"]
           trans2 == stats'["stateTransitions"]
           msgs == stats["coherenceMessages"]
           rd == stats["readRequests"]
           wr == stats["writeRequests"]
           inv == stats["invalidations"]
           m == counters[p]["misses"]
           mm == counters'[p]["misses"]
           U == Unpaid[p]
           UU == Unpaid'[p]
           open == Total("misses") - SumFunction(Unpaid)
           open2 == Total("misses")' - SumFunction(Unpaid)'
           D == Travelled
           DD == Travelled'
           b == Balance(p)
           bb == Balance(p)'
           L == InterconnectLatency
           l == localCycles[p]
           ll == localCycles'[p]
           s == SumFunction(localCycles)
           ss == SumFunction(localCycles)'
           y == systemCycles
           yy == systemCycles'
<1>1. /\ DD - bb = D - b /\ D \in Int /\ b \in Int /\ DD \in Int /\ bb \in Int
      /\ open2 = (open + (mm - UU)) - (m - U)
      /\ ss = (s + ll) - l /\ s \in Int
  BY OneCoreMoves
<1>2. /\ trans \in Nat /\ trans2 \in Nat /\ msgs \in Nat /\ rd \in Nat /\ wr \in Nat /\ inv \in Nat
  BY DEF TypeOK, Counters
<1>3. /\ m \in Nat /\ mm \in Nat /\ U \in Nat /\ UU \in Nat /\ l \in Nat /\ ll \in Nat
  <2>1. Counter("misses") \in [Procs -> Nat] /\ Counter("misses")' \in [Procs -> Nat]
    BY DEF LedgersTyped
  <2>2. /\ \A q \in Procs : Counter("misses")[q] = counters[q]["misses"]
        /\ \A q \in Procs : Counter("misses")'[q] = counters'[q]["misses"]
    BY DEF Counter
  <2> QED  BY <2>1, <2>2 DEF LedgersTyped
<1>4. /\ trans = open /\ msgs = rd + wr /\ y = s
      /\ D >= L * (msgs + inv) /\ D <= L * (msgs + inv + rd)
  BY DEF AccountsInv
<1>5. /\ (trans2 - mm) + UU = (trans - m) + U
      /\ bb = b + L * (asked + hops)
      /\ yy - ll = y - l
      /\ y \in Nat /\ yy \in Nat
  BY <1>2, <1>3
<1>l. L \in Nat
  BY ControllerAssumption
<1>a. asked \in Nat /\ reads \in Nat
  OBVIOUS
<1> HIDE DEF trans, trans2, msgs, rd, wr, inv, m, mm, U, UU, open, open2, D, DD, b, bb, L, l, ll, s, ss, y, yy
<1>6. trans2 = open2
  BY <1>1, <1>2, <1>3, <1>4, <1>5
<1>7. yy = ss
  BY <1>1, <1>3, <1>4, <1>5
<1>8. msgs + asked = (rd + reads) + (wr + (asked - reads))
  BY <1>2, <1>4, <1>a
<1>9. DD = D + L * (asked + hops)
  <2>1. L * (asked + hops) \in Nat
    BY <1>a, <1>l, Distributes
  <2> QED  BY <1>1, <1>5, <2>1
<1>10. DD >= L * ((msgs + asked) + (inv + lost))
  <2> DEFINE u == msgs + inv
             v == asked + lost
             w == hops - lost
  <2>1. u \in Nat /\ v \in Nat /\ w \in Nat /\ v + w = asked + hops
        /\ (msgs + asked) + (inv + lost) = u + v
    BY <1>2, <1>a
  <2> HIDE DEF u, v, w
  <2>2. L * (v + w) = L * v + L * w /\ L * v \in Nat /\ L * w \in Nat
    BY <1>l, <2>1, Distributes
  <2>3. L * (u + v) = L * u + L * v /\ L * u \in Nat
    BY <1>l, <2>1, Distributes
  <2>4. D >= L * u
    BY <1>4 DEF u
  <2>5. DD >= L * (u + v)
    BY <1>1, <1>9, <2>1, <2>2, <2>3, <2>4
  <2> QED  BY <2>1, <2>5
<1>11. DD <= L * ((msgs + asked) + (inv + lost) + (rd + reads))
  <2> DEFINE u == msgs + inv + rd
             v == asked + hops
             w == (lost + reads) - hops
  <2>1. u \in Nat /\ v \in Nat /\ w \in Nat
        /\ (msgs + asked) + (inv + lost) + (rd + reads) = u + (v + w)
    BY <1>2, <1>a
  <2> HIDE DEF u, v, w
  <2>2. L * (v + w) = L * v + L * w /\ L * v \in Nat /\ L * w \in Nat /\ L * (v + w) \in Nat
    BY <1>l, <2>1, Distributes
  <2>3. L * (u + (v + w)) = L * u + L * (v + w) /\ L * u \in Nat
    <3>1. v + w \in Nat
      BY <2>1
    <3> QED  BY <1>l, <2>1, <3>1, Distributes
  <2>4. D <= L * u
    BY <1>4 DEF u
  <2>5. DD = D + L * v
    BY <1>9 DEF v
  <2>6. DD <= L * (u + (v + w))
    BY <1>1, <2>2, <2>3, <2>4, <2>5
  <2> QED  BY <2>1, <2>6
<1>12. /\ stats'["coherenceMessages"] = msgs + asked
       /\ stats'["readRequests"] = rd + reads
       /\ stats'["writeRequests"] = wr + (asked - reads)
       /\ stats'["invalidations"] = inv + lost
       /\ InterconnectLatency = L
  BY DEF msgs, rd, wr, inv, L
<1> QED  BY <1>6, <1>7, <1>8, <1>10, <1>11, <1>12 DEF AccountsInv, trans2, open2, ss, DD, yy

LEMMA BalanceIs ==
  ASSUME NEW p \in Procs
  PROVE  /\ Pending[p] = IF pc[p] \in {"ready", "fold", "done"} THEN 0 ELSE latency[p]
         /\ Unpaid[p] = IF pc[p] = "miss" THEN 1 ELSE 0
         /\ Pending'[p] = IF pc'[p] \in {"ready", "fold", "done"} THEN 0 ELSE latency'[p]
         /\ Unpaid'[p] = IF pc'[p] = "miss" THEN 1 ELSE 0
         /\ Balance(p) = (systemCycles + Pending[p] + 10 * Unpaid[p])
              - (1 * counters[p]["total"] + 1 * counters[p]["hits"] + 10 * counters[p]["misses"])
         /\ Balance(p)' = (systemCycles' + Pending'[p] + 10 * Unpaid'[p])
              - (1 * counters'[p]["total"] + 1 * counters'[p]["hits"] + 10 * counters'[p]["misses"])
<1>1. /\ Pending[p] = IF pc[p] \in {"ready", "fold", "done"} THEN 0 ELSE latency[p]
      /\ Unpaid[p] = IF pc[p] = "miss" THEN 1 ELSE 0
      /\ Pending'[p] = IF pc'[p] \in {"ready", "fold", "done"} THEN 0 ELSE latency'[p]
      /\ Unpaid'[p] = IF pc'[p] = "miss" THEN 1 ELSE 0
  BY DEF Pending, Unpaid
<1>2. Balance(p) = (systemCycles + Pending[p] + 10 * Unpaid[p])
              - (1 * counters[p]["total"] + 1 * counters[p]["hits"] + 10 * counters[p]["misses"])
  BY DEF Balance, BaseLatency, HitLatency, MissPenalty
<1>3. Balance(p)' = (systemCycles' + Pending'[p] + 10 * Unpaid'[p])
              - (1 * counters'[p]["total"] + 1 * counters'[p]["hits"] + 10 * counters'[p]["misses"])
  BY DEF Balance, BaseLatency, HitLatency, MissPenalty
<1> QED  BY <1>1, <1>2, <1>3

\* A step that asks the directory nothing: the directory counts at most a transition,
\* one for every miss that is paid.
LEMMA NothingAsked ==
  ASSUME AccountsInv, TypeOK, TypeOK', LedgersTyped, LedgersTyped',
         systemCycles \in Nat, systemCycles' \in Nat,
         NEW p \in Procs, OnlyCore(p), Balance(p)' = Balance(p),
         stats'["stateTransitions"] - counters'[p]["misses"] + Unpaid'[p]
           = stats["stateTransitions"] - counters[p]["misses"] + Unpaid[p],
         \A c \in Counters \ {"stateTransitions"} : stats'[c] = stats[c],
         systemCycles' - localCycles'[p] = systemCycles - localCycles[p]
  PROVE  AccountsInv'
<1>1. Balance(p) \in Int /\ InterconnectLatency \in Nat
  BY OneCoreMoves, ControllerAssumption
<1>2. Balance(p)' = Balance(p) + InterconnectLatency * (0 + 0)
  <2> DEFINE b == Balance(p)
             bb == Balance(p)'
             L == InterconnectLatency
  <2>1. b \in Int /\ L \in Nat /\ bb = b
    BY <1>1
  <2> HIDE DEF b, bb, L
  <2>2. bb = b + L * (0 + 0)
    BY <2>1
  <2> QED  BY <2>2 DEF b, bb, L
<1>3. \A c \in Counters : stats[c] \in Nat
  BY DEF TypeOK
<1>4. /\ stats'["coherenceMessages"] = stats["coherenceMessages"] + 0
      /\ stats'["readRequests"] = stats["readRequests"] + 0
      /\ stats'["writeRequests"] = stats["writeRequests"] + (0 - 0)
      /\ stats'["invalidations"] = stats["invalidations"] + 0
  BY <1>3 DEF Counters
<1>5. 0 \in {0, 1} /\ 0 \in Nat /\ 0 <= 0 /\ 0 <= 0 + 0
  OBVIOUS
<1> QED  BY <1>2, <1>4, <1>5, AccountsFrom

\* A step that leaves the accounts alone.
LEMMA NothingMoves ==
  ASSUME AccountsInv, Pending' = Pending, Unpaid' = Unpaid,
         UNCHANGED <<stats, counters, localCycles, systemCycles>>
  PROVE  AccountsInv'
<1>1. \A name : Total(name)' = Total(name)
  BY DEF Total
<1>2. Travelled' = Travelled
  BY <1>1 DEF Travelled
<1> QED  BY <1>1, <1>2 DEF AccountsInv

LEMMA AccountsStep ==
  ASSUME Kinds \subseteq {"Access"}, SystemInv, SystemInv', CachesInv, CachesInv', OnlyTraces,
         AccountsInv, [SystemNext]_vars
  PROVE  AccountsInv'
<1>t. /\ TypeOK /\ TypeOK' /\ LedgersTyped /\ LedgersTyped'
      /\ systemCycles \in Nat /\ systemCycles' \in Nat
      /\ pc \in [Procs -> Places] /\ op \in [Procs -> Operations]
      /\ counters \in [Procs -> CoreCounters] /\ latency \in [Procs -> Nat]
      /\ localCycles \in [Procs -> Nat]
  BY LedgersType, LedgersTypeNext DEF SystemInv, CachesInv
<1>n. ASSUME NEW p \in Procs
      PROVE  /\ counters[p]["total"] \in Nat /\ counters[p]["hits"] \in Nat
             /\ counters[p]["misses"] \in Nat /\ counters[p]["handled"] \in Nat
             /\ latency[p] \in Nat /\ localCycles[p] \in Nat
  BY <1>t DEF CoreCounters
<1>d. \A c \in Counters : stats[c] \in Nat
  BY <1>t DEF TypeOK
<1> USE DEF CounterNames
<1>1. CASE UNCHANGED vars \/ Ended
  <2>1. UNCHANGED <<stats, counters, localCycles, systemCycles, pc, latency>>
    BY <1>1 DEF vars, Ended
  <2>2. Pending' = Pending /\ Unpaid' = Unpaid
    BY <2>1 DEF Pending, Unpaid
  <2> QED  BY <2>1, <2>2, NothingMoves
<1>2. ASSUME NEW p \in Procs, Run(p) \/ FoldFails(p) PROVE AccountsInv'
  <2>1. CASE \E a \in Addresses, k \in Kinds \ {"Remote"}, w \in BOOLEAN : Issue(p, a, k, w)
    <3>1. /\ UNCHANGED <<stats, counters, localCycles, systemCycles>>
          /\ pc[p] = "ready" /\ latency'[p] = 0 /\ pc'[p] \in {"atomic", "check"}
          /\ \A q \in Procs \ {p} : pc'[q] = pc[q] /\ latency'[q] = latency[q]
      BY <1>t, <2>1 DEF Issue, Goto, dirVars, cycleVars
    <3>2. \A q \in Procs : /\ Pending'[q] = Pending[q] /\ Unpaid'[q] = Unpaid[q]
      BY <3>1, BalanceIs
    <3>3. Pending' = Pending /\ Unpaid' = Unpaid
      BY <3>2 DEF Pending, Unpaid
    <3> QED  BY <3>1, <3>3, NothingMoves
  <2>2. CASE EndOfTrace(p) \/ FoldSucceeds(p) \/ FoldNotNeeded(p) \/ FoldFails(p)
    <3>1. /\ UNCHANGED <<stats, counters, localCycles, systemCycles, latency>>
          /\ pc[p] \in {"ready", "fold"} /\ pc'[p] \in {"fold", "done"}
          /\ \A q \in Procs \ {p} : pc'[q] = pc[q]
      BY <1>t, <2>2 DEF EndOfTrace, FoldSucceeds, FoldNotNeeded, FoldFails, Goto, dirVars,
                        cycleVars, coreVars
    <3>2. \A q \in Procs : /\ Pending'[q] = Pending[q] /\ Unpaid'[q] = Unpaid[q]
      BY <3>1, BalanceIs
    <3>3. Pending' = Pending /\ Unpaid' = Unpaid
      BY <3>2 DEF Pending, Unpaid
    <3> QED  BY <3>1, <3>3, NothingMoves
  <2>3. CASE AtomicRequest(p) \/ KeepExclusive(p) \/ Register(p)
    BY <2>3 DEF AtomicRequest, KeepExclusive, Register, OnlyTraces
  <2>4. CASE Check(p)
    <3>1. /\ UNCHANGED <<stats, localCycles, systemCycles>>
          /\ pc[p] = "check" /\ pc'[p] \in {"l1", "request"}
          /\ latency'[p] = latency[p] + 1
          /\ \A q \in Procs \ {p} : pc'[q] = pc[q] /\ latency'[q] = latency[q]
          /\ CountOf(p, "total")
      BY <1>t, <2>4 DEF Check, Goto, Spend, BaseLatency, dirVars, cycleVars
    <3>2. /\ \A q \in Procs \ {p} : counters'[q] = counters[q]
          /\ counters'[p]["total"] = counters[p]["total"] + 1
          /\ counters'[p]["hits"] = counters[p]["hits"]
          /\ counters'[p]["misses"] = counters[p]["misses"]
      BY <1>t, <3>1, CountOfType
    <3>3. OnlyCore(p)
      BY <3>1, <3>2 DEF OnlyCore
    <3>4. Balance(p)' = Balance(p) /\ Unpaid'[p] = Unpaid[p]
      <4> DEFINE y == systemCycles
                 c == latency[p]
                 t == counters[p]["total"]
                 h == counters[p]["hits"]
                 m == counters[p]["misses"]
      <4>1. /\ Pending[p] = c /\ Unpaid[p] = 0
            /\ Pending'[p] = (c + 1) /\ Unpaid'[p] = 0
        BY <3>1, BalanceIs
      <4>2. /\ Balance(p) = (y + c + 10 * 0) - (1 * t + 1 * h + 10 * m)
            /\ Balance(p)' = (y + (c + 1) + 10 * 0) - (1 * (t + 1) + 1 * h + 10 * m)
        BY <3>1, <3>2, <4>1, BalanceIs
      <4>3. y \in Nat /\ c \in Nat /\ t \in Nat /\ h \in Nat /\ m \in Nat
        BY <1>n, <1>t
      <4> HIDE DEF y, c, t, h, m
      <4>4. Balance(p)' = Balance(p)
        BY <4>2, <4>3
      <4> QED  BY <4>1, <4>4
    <3> QED  BY <1>t, <3>1, <3>2, <3>3, <3>4, NothingAsked
  <2>5. CASE L1Hit(p) \/ StreamHit(p)
    <3>1. /\ UNCHANGED <<stats, localCycles, systemCycles>>
          /\ pc[p] = "l1" /\ pc'[p] \in {"account", "keep"}
          /\ latency'[p] = latency[p] + 1
          /\ \A q \in Procs \ {p} : pc'[q] = pc[q] /\ latency'[q] = latency[q]
          /\ CountOf(p, "hits")
      BY <1>t, <2>5 DEF L1Hit, StreamHit, Goto, AfterAccess, Spend, HitLatency, dirVars, cycleVars
    <3>2. /\ \A q \in Procs \ {p} : counters'[q] = counters[q]
          /\ counters'[p]["total"] = counters[p]["total"]
          /\ counters'[p]["hits"] = counters[p]["hits"] + 1
          /\ counters'[p]["misses"] = counters[p]["misses"]
      BY <1>t, <3>1, CountOfType
    <3>3. OnlyCore(p)
      BY <3>1, <3>2 DEF OnlyCore
    <3>4. Balance(p)' = Balance(p) /\ Unpaid'[p] = Unpaid[p]
      <4> DEFINE y == systemCycles
                 c == latency[p]
                 t == counters[p]["total"]
                 h == counters[p]["hits"]
                 m == counters[p]["misses"]
      <4>1. /\ Pending[p] = c /\ Unpaid[p] = 0
            /\ Pending'[p] = (c + 1) /\ Unpaid'[p] = 0
        BY <3>1, BalanceIs
      <4>2. /\ Balance(p) = (y + c + 10 * 0) - (1 * t + 1 * h + 10 * m)
            /\ Balance(p)' = (y + (c + 1) + 10 * 0) - (1 * t + 1 * (h + 1) + 10 * m)
        BY <3>1, <3>2, <4>1, BalanceIs
      <4>3. y \in Nat /\ c \in Nat /\ t \in Nat /\ h \in Nat /\ m \in Nat
        BY <1>n, <1>t
      <4> HIDE DEF y, c, t, h, m
      <4>4. Balance(p)' = Balance(p)
        BY <4>2, <4>3
      <4> QED  BY <4>1, <4>4
    <3> QED  BY <1>t, <3>1, <3>2, <3>3, <3>4, NothingAsked
  <2>6. CASE L1Miss(p)
    <3>1. /\ UNCHANGED <<stats, localCycles, systemCycles, latency>>
          /\ pc[p] = "l1" /\ pc'[p] = "miss"
          /\ \A q \in Procs \ {p} : pc'[q] = pc[q]
          /\ CountOf(p, "misses")
      BY <1>t, <2>6 DEF L1Miss, Goto, dirVars, cycleVars
    <3>2. /\ \A q \in Procs \ {p} : counters'[q] = counters[q]
          /\ counters'[p]["total"] = counters[p]["total"]
          /\ counters'[p]["hits"] = counters[p]["hits"]
          /\ counters'[p]["misses"] = counters[p]["misses"] + 1
      BY <1>t, <3>1, CountOfType
    <3>3. OnlyCore(p)
      BY <3>1, <3>2 DEF OnlyCore
    <3>4. Balance(p)' = Balance(p) /\ Unpaid[p] = 0 /\ Unpaid'[p] = 1
      <4> DEFINE y == systemCycles
                 c == latency[p]
                 t == counters[p]["total"]
                 h == counters[p]["hits"]
                 m == counters[p]["misses"]
      <4>1. /\ Pending[p] = c /\ Unpaid[p] = 0
            /\ Pending'[p] = c /\ Unpaid'[p] = 1
        BY <3>1, BalanceIs
      <4>2. /\ Balance(p) = (y + c + 10 * 0) - (1 * t + 1 * h + 10 * m)
            /\ Balance(p)' = (y + c + 10 * 1) - (1 * t + 1 * h + 10 * (m + 1))
        BY <3>1, <3>2, <4>1, BalanceIs
      <4>3. y \in Nat /\ c \in Nat /\ t \in Nat /\ h \in Nat /\ m \in Nat
        BY <1>n, <1>t
      <4> HIDE DEF y, c, t, h, m
      <4>4. Balance(p)' = Balance(p)
        BY <4>2, <4>3
      <4> QED  BY <4>1, <4>4
    <3>5. stats["stateTransitions"] \in Nat
      BY <1>d DEF Counters
    <3>6. stats'["stateTransitions"] - counters'[p]["misses"] + Unpaid'[p]
            = stats["stateTransitions"] - counters[p]["misses"] + Unpaid[p]
      BY <1>n, <3>1, <3>2, <3>4, <3>5
    <3> QED  BY <1>t, <3>1, <3>3, <3>4, <3>6, NothingAsked
  <2>7. CASE HandleL1Miss(p)
    <3>1. /\ UNCHANGED <<counters, localCycles, systemCycles>>
          /\ pc[p] = "miss" /\ pc'[p] \in {"account", "keep"}
          /\ latency'[p] = latency[p] + 10
          /\ \A q \in Procs \ {p} : pc'[q] = pc[q] /\ latency'[q] = latency[q]
          /\ stats' = [stats EXCEPT !["stateTransitions"] = @ + 1]
      BY <1>t, <2>7 DEF HandleL1Miss, UpdateCacheState, Goto, AfterAccess, Spend, MissPenalty,
                        cycleVars
    <3>2. /\ stats'["stateTransitions"] = stats["stateTransitions"] + 1
          /\ \A c \in Counters \ {"stateTransitions"} : stats'[c] = stats[c]
          /\ stats["stateTransitions"] \in Nat
      BY <1>d, <1>t, <3>1 DEF TypeOK, Counters
    <3>3. OnlyCore(p)
      BY <3>1 DEF OnlyCore
    <3>4. Balance(p)' = Balance(p) /\ Unpaid[p] = 1 /\ Unpaid'[p] = 0
      <4> DEFINE y == systemCycles
                 c == latency[p]
                 t == counters[p]["total"]
                 h == counters[p]["hits"]
                 m == counters[p]["misses"]
      <4>1. /\ Pending[p] = c /\ Unpaid[p] = 1
            /\ Pending'[p] = (c + 10) /\ Unpaid'[p] = 0
        BY <3>1, BalanceIs
      <4>2. /\ Balance(p) = (y + c + 10 * 1) - (1 * t + 1 * h + 10 * m)
            /\ Balance(p)' = (y + (c + 10) + 10 * 0) - (1 * t + 1 * h + 10 * m)
        BY <3>1, <4>1, BalanceIs
      <4>3. y \in Nat /\ c \in Nat /\ t \in Nat /\ h \in Nat /\ m \in Nat
        BY <1>n, <1>t
      <4> HIDE DEF y, c, t, h, m
      <4>4. Balance(p)' = Balance(p)
        BY <4>2, <4>3
      <4> QED  BY <4>1, <4>4
    <3>6. stats'["stateTransitions"] - counters'[p]["misses"] + Unpaid'[p]
            = stats["stateTransitions"] - counters[p]["misses"] + Unpaid[p]
      BY <1>n, <3>1, <3>2, <3>4
    <3> QED  BY <1>t, <3>1, <3>2, <3>3, <3>4, <3>6, NothingAsked
  <2>8. CASE Account(p)
    <3>1. /\ UNCHANGED <<stats, counters, latency>>
          /\ pc[p] = "account" /\ pc'[p] = "ready"
          /\ \A q \in Procs \ {p} : pc'[q] = pc[q] /\ localCycles'[q] = localCycles[q]
          /\ op[p].kind = "Access"
      BY <1>t, <2>8 DEF Account, Goto, dirVars, OnlyTraces
    <3>2. /\ systemCycles' = systemCycles + latency[p]
          /\ localCycles'[p] = localCycles[p] + latency[p]
      BY <1>t, <2>8, <3>1 DEF Account
    <3>3. OnlyCore(p)
      BY <3>1 DEF OnlyCore
    <3>4. Balance(p)' = Balance(p) /\ Unpaid'[p] = Unpaid[p]
      BY <1>n, <1>t, <3>1, <3>2, BalanceIs
    <3>5. systemCycles' - localCycles'[p] = systemCycles - localCycles[p]
      BY <1>n, <1>t, <3>2
    <3> QED  BY <1>t, <3>1, <3>3, <3>4, <3>5, NothingAsked
  <2>9. CASE Request(p)
    <3>1. /\ UNCHANGED <<counters, localCycles, systemCycles>>
          /\ pc[p] = "request" /\ pc'[p] = "l1"
          /\ latency'[p] = latency[p] + response'.latency
          /\ \A q \in Procs \ {p} : pc'[q] = pc[q] /\ latency'[q] = latency[q]
          /\ ReadRequest(p, op[p].address) \/ WriteRequest(p, op[p].address)
      BY <1>t, <2>9 DEF Request, Goto, Spend, cycleVars
    <3>2. op[p].address \in Addresses
      BY <3>1 DEF SystemInv, Running
    <3>3. PICK reads \in {0, 1}, hops \in Nat, lost \in Nat :
           /\ response'.latency = InterconnectLatency * (1 + hops)
           /\ lost <= hops /\ hops <= lost + reads
           /\ stats'["stateTransitions"] = stats["stateTransitions"]
           /\ stats'["coherenceMessages"] = stats["coherenceMessages"] + 1
           /\ stats'["readRequests"] = stats["readRequests"] + reads
           /\ stats'["writeRequests"] = stats["writeRequests"] + (1 - reads)
           /\ stats'["invalidations"] = stats["invalidations"] + lost
      BY <1>t, <3>1, <3>2, RequestCosts
    <3>4. OnlyCore(p)
      BY <3>1 DEF OnlyCore
    <3>5. response'.latency \in Nat
      BY <1>t, <3>1, <3>2, LatencyIsNat
    <3>6. Balance(p)' = Balance(p) + response'.latency /\ Unpaid'[p] = Unpaid[p]
      BY <1>n, <1>t, <3>1, <3>5, BalanceIs
    <3>7. Balance(p)' = Balance(p) + InterconnectLatency * (1 + hops)
      BY <3>3, <3>6
    <3>8. 1 \in {0, 1} /\ reads <= 1 /\ (1 = 0 => hops = 0)
      OBVIOUS
    <3>9. /\ stats'["stateTransitions"] - counters'[p]["misses"] + Unpaid'[p]
               = stats["stateTransitions"] - counters[p]["misses"] + Unpaid[p]
          /\ systemCycles' - localCycles'[p] = systemCycles - localCycles[p]
      BY <3>1, <3>3, <3>6
    <3> QED  BY <1>t, <3>3, <3>4, <3>7, <3>8, <3>9, AccountsFrom
  <2> QED  BY <1>2, <2>1, <2>2, <2>3, <2>4, <2>5, <2>6, <2>7, <2>8, <2>9 DEF Run
<1>3. ASSUME NEW p \in Procs, NEW a \in Addresses,
             NEW req \in {"Invalidate", "Share", "Flush"}, HandleRemote(p, a, req)
      PROVE  FALSE
  BY <1>3 DEF HandleRemote
<1> QED  BY <1>1, <1>2, <1>3 DEF SystemNext

\* When no core is between the start and the end of an operation, nothing is pending.
LEMMA QuietOwesNothing ==
  ASSUME Quiet
  PROVE  SumFunction(Pending) = 0 /\ SumFunction(Unpaid) = 0
<1>1. /\ DOMAIN Pending = Procs /\ DOMAIN Unpaid = Procs
      /\ \A p \in Procs : Pending[p] = 0 /\ Unpaid[p] = 0
  BY DEF Quiet, Idle, Pending, Unpaid
<1> QED  BY <1>1, ProcsAreFinite, SumOfZeros DEF SumFunction

LEMMA AccountsInit == SystemInit => AccountsInv /\ OnlyTraces
<1> SUFFICES ASSUME SystemInit PROVE AccountsInv /\ OnlyTraces
  OBVIOUS
<1>1. SumFunction(Pending) = 0 /\ SumFunction(Unpaid) = 0
  BY QuietOwesNothing DEF SystemInit, Quiet, Idle
<1>2. SumFunction(localCycles) = 0
  <2>1. DOMAIN localCycles = Procs /\ \A p \in Procs : localCycles[p] = 0
    BY DEF SystemInit
  <2> QED  BY <2>1, ProcsAreFinite, SumOfZeros DEF SumFunction
<1>3. ASSUME NEW name \in {"total", "hits", "misses"} PROVE Total(name) = 0
  <2>1. DOMAIN Counter(name) = Procs /\ \A p \in Procs : Counter(name)[p] = 0
    BY DEF SystemInit, Counter
  <2>2. SumFunction(Counter(name)) = 0
    BY <2>1, ProcsAreFinite, SumOfZeros DEF SumFunction
  <2> QED  BY <2>2, TotalIsSum
<1>4. Total("total") = 0 /\ Total("hits") = 0 /\ Total("misses") = 0
  BY <1>3
<1>5. systemCycles = 0 /\ \A c \in Counters : stats[c] = 0
  BY DEF SystemInit, Init, ZeroStats
<1>6. Travelled = 0
  BY <1>1, <1>4, <1>5 DEF Travelled, BaseLatency, HitLatency, MissPenalty
<1>7. /\ stats["stateTransitions"] = 0 /\ stats["coherenceMessages"] = 0
      /\ stats["readRequests"] = 0 /\ stats["writeRequests"] = 0 /\ stats["invalidations"] = 0
  BY <1>5 DEF Counters
<1>8. InterconnectLatency * (0 + 0) = 0 /\ InterconnectLatency * (0 + 0 + 0) = 0
  BY ControllerAssumption
<1>9. AccountsInv
  BY <1>1, <1>2, <1>4, <1>5, <1>6, <1>7, <1>8 DEF AccountsInv
<1>10. OnlyTraces
  BY DEF SystemInit, OnlyTraces
<1> QED  BY <1>9, <1>10

LEMMA AccountsBalance ==
  SystemInv /\ CachesInv /\ AccountsInv /\ OnlyTraces => CyclesBalance
<1> SUFFICES ASSUME SystemInv, CachesInv, AccountsInv, OnlyTraces, Quiet
             PROVE  LET own == Total("total") * BaseLatency + Total("hits") * HitLatency
                                 + Total("misses") * MissPenalty
                        hops == stats["coherenceMessages"] + stats["invalidations"]
                        cycles == systemCycles + returned
                        registered == Total("misses") + Total("handled")
                    IN /\ stats["stateTransitions"] >= registered
                       /\ stats["stateTransitions"] <= registered + Total("atomics")
                       /\ stats["coherenceMessages"] = stats["readRequests"] + stats["writeRequests"]
                       /\ systemCycles = SumFunction(localCycles)
                       /\ cycles >= own + InterconnectLatency * hops
                       /\ cycles <= own + InterconnectLatency * (hops + stats["readRequests"])
  BY DEF CyclesBalance
<1>0. returned = 0 /\ Total("handled") = 0 /\ Total("atomics") = 0
  <2>1. ASSUME NEW name \in {"handled", "atomics"} PROVE Total(name) = 0
    <3>1. DOMAIN Counter(name) = Procs /\ \A p \in Procs : Counter(name)[p] = 0
      BY DEF OnlyTraces, Counter
    <3>2. SumFunction(Counter(name)) = 0
      BY <3>1, ProcsAreFinite, SumOfZeros DEF SumFunction
    <3> QED  BY <3>2, TotalIsSum
  <2> QED  BY <2>1 DEF OnlyTraces
<1>1. SumFunction(Pending) = 0 /\ SumFunction(Unpaid) = 0
  BY QuietOwesNothing
<1>2. ASSUME NEW name \in {"total", "hits", "misses"} PROVE Total(name) \in Int
  <2>1. Counter(name) \in [Procs -> Nat]
    BY LedgersType DEF LedgersTyped
  <2>2. DOMAIN Counter(name) = Procs /\ \A p \in Procs : Counter(name)[p] \in Int
    BY <2>1
  <2>3. SumFunction(Counter(name)) \in Int
    BY <2>2, ProcsAreFinite, SumType DEF SumFunction
  <2> QED  BY <2>3, TotalIsSum
<1> DEFINE t == Total("total")
           h == Total("hits")
           m == Total("misses")
           y == systemCycles
           low == InterconnectLatency * (stats["coherenceMessages"] + stats["invalidations"])
           high == InterconnectLatency * (stats["coherenceMessages"] + stats["invalidations"]
                                            + stats["readRequests"])
           trans == stats["stateTransitions"]
<1>3. t \in Int /\ h \in Int /\ m \in Int /\ y \in Int /\ trans \in Int
      /\ low \in Int /\ high \in Int
  <2>1. \A c \in Counters : stats[c] \in Nat
    BY DEF SystemInv, TypeOK
  <2>2. stats["coherenceMessages"] \in Nat /\ stats["invalidations"] \in Nat
        /\ stats["readRequests"] \in Nat /\ trans \in Nat
    BY <2>1 DEF Counters
  <2>3. stats["coherenceMessages"] + stats["invalidations"] \in Nat
        /\ stats["coherenceMessages"] + stats["invalidations"] + stats["readRequests"] \in Nat
    BY <2>2
  <2>4. low \in Int /\ high \in Int
    BY <2>3, ControllerAssumption
  <2> QED  BY <1>2, <2>2, <2>4 DEF CachesInv
<1>4. /\ trans = m - 0
      /\ (y + 0 + 10 * 0) - (1 * t + 1 * h + 10 * m) >= low
      /\ (y + 0 + 10 * 0) - (1 * t + 1 * h + 10 * m) <= high
  BY <1>1 DEF AccountsInv, Travelled, BaseLatency, HitLatency, MissPenalty
<1>5. /\ stats["coherenceMessages"] = stats["readRequests"] + stats["writeRequests"]
      /\ y = SumFunction(localCycles)
  BY DEF AccountsInv
<1>6. t * BaseLatency + h * HitLatency + m * MissPenalty = t * 1 + h * 1 + m * 10
  BY DEF BaseLatency, HitLatency, MissPenalty
<1> HIDE DEF t, h, m, y, low, high, trans
<1>7. /\ trans = m
      /\ y >= (t * 1 + h * 1 + m * 10) + low
      /\ y <= (t * 1 + h * 1 + m * 10) + high
  BY <1>3, <1>4
<1>8. trans >= m + 0 /\ trans <= m + 0 + 0 /\ y + 0 = y
  BY <1>3, <1>7
<1> QED  BY <1>0, <1>5, <1>6, <1>7, <1>8 DEF t, h, m, y, low, high, trans

\* Whenever the trace threads are between two accesses, what they have added up one by
\* one is what the directory has counted under its lock, for any number of cores, any
\* caches and traces of any length.
THEOREM AccountsStaySound ==
  ASSUME Kinds \subseteq {"Access"}
  PROVE  SystemSpec => []AccountsAreSound
<1> DEFINE Inv == AccountsInv /\ OnlyTraces
<1>1. SystemInit => Inv
  BY AccountsInit
<1>2. /\ SystemInv /\ CachesInv /\ SystemInv' /\ CachesInv' /\ Inv /\ [SystemNext]_vars
           => Inv'
  BY AccountsStep, OnlyTracesStep
<1>3. SystemInv /\ CachesInv /\ AccountsInv /\ OnlyTraces => AccountsAreSound
  BY AccountsBalance DEF AccountsAreSound, SystemTypeOK, SystemInv, CachesInv, Fits
<1> QED  BY <1>1, <1>2, <1>3, CachesInvariant, PTL DEF SystemSpec
=============================================================================

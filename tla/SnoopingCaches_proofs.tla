------------------------ MODULE SnoopingCaches_proofs -----------------------
(***************************************************************************)
(* For any number of caches and lines, and under each of the protocols:    *)
(* the states are those of the protocol, the last write is never lost,     *)
(* valid copies are current, and the caches implement CoherentLine.        *)
(***************************************************************************)
EXTENDS SnoopingCaches, TLAPS

\* What holds of the states of one line: M and E exclude every copy, O excludes
\* every other copy that is not Shared.
Exclusion(s) ==
  /\ \A c, d \in Caches : c # d /\ s[c] \in {"M", "E"} => s[d] = "I"
  /\ \A c, d \in Caches : c # d /\ s[c] = "O" => s[d] \in {"S", "I"}

\* What holds of a line, its copies and memory.
LineOK(l) ==
  /\ Exclusion(state[l])
  /\ \A c \in Caches : IsValid(state[l][c]) => c \in newest[l]
  /\ l \notin saved => \E c \in Caches : RequiresWriteback(state[l][c])

\* The inductive invariant: the properties speak of one cache at a time, a step
\* needs to know which copies can stand beside each other.
Coherent == SnoopTypeOK /\ \A l \in Lines : LineOK(l)

-----------------------------------------------------------------------------
\* What the tables return is a state of the protocol.
LEMMA TablesClosed ==
  ASSUME NEW p \in Protocols, NEW s \in States(p), NEW shared \in BOOLEAN
  PROVE  /\ LocalRead(p, s, shared) \in States(p)
         /\ LocalWrite(p, s) \in States(p)
         /\ RemoteRead(p, s) \in States(p)
         /\ RemoteWrite(p, s) \in States(p)
         /\ Eviction(p, s) \in States(p)
         /\ States(p) \subseteq AllStates
  BY DEF Protocols, States, AllStates, LocalRead, LocalWrite, RemoteRead, RemoteWrite,
         Eviction, IsValid

\* Another cache's read leaves an invalid line invalid, and nothing exclusive.
LEMMA RemoteReadDowngrades ==
  ASSUME NEW p \in Protocols, NEW s \in States(p)
  PROVE  /\ RemoteRead(p, s) \in {"O", "S", "I"}
         /\ RemoteRead(p, s) = "I" <=> s = "I"
         /\ RemoteRead(p, s) = "O" => s \in {"M", "O"}
         /\ RemoteRead(p, s) = "S" => s \in {"M", "E", "S"}
         /\ s = "O" => RemoteRead(p, s) = "O"
  BY DEF Protocols, States, AllStates, RemoteRead

LEMMA InitCoherent == SnoopInit => Coherent
  BY DEF SnoopInit, Coherent, SnoopTypeOK, LineOK, Exclusion, States, Protocols, AllStates, IsValid,
         RequiresWriteback

-----------------------------------------------------------------------------
\* The three actions preserve the invariant on the line they touch; a line they
\* do not touch stays as it was.
LEMMA OtherLines ==
  ASSUME Coherent, NEW l \in Lines, NEW m \in Lines, m # l,
         state'[m] = state[m], newest'[m] = newest[m], m \in saved' <=> m \in saved
  PROVE  LineOK(m)'
<1>1. LineOK(m) BY DEF Coherent
<1> QED BY <1>1 DEF LineOK, Exclusion

LEMMA ReadMissCoherent ==
  ASSUME Coherent, NEW c \in Caches, NEW l \in Lines, ReadMiss(c, l)
  PROVE  Coherent'
<1> DEFINE n == ReadSnooped(c, l, LocalRead(protocol, state[l][c], SharedCopy(c, l)))
<1>1. /\ protocol \in Protocols
      /\ state \in [Lines -> [Caches -> States(protocol)]]
      /\ newest \in [Lines -> SUBSET Caches]
      /\ saved \subseteq Lines
  BY DEF Coherent, SnoopTypeOK
<1>2. LineOK(l) BY DEF Coherent
<1>3. /\ protocol' = protocol
      /\ state' = [state EXCEPT ![l] = n]
      /\ ~IsValid(state[l][c])
      /\ newest' = [newest EXCEPT ![l] = IF Fetches(c, l) THEN @ \cup {c} ELSE @ \ {c}]
      /\ saved' = IF Flushed(l, n) THEN saved \cup {l} ELSE saved
  BY DEF ReadMiss
<1>4. /\ n[c] = IF protocol = "MSI" \/ SharedCopy(c, l) THEN "S" ELSE "E"
      /\ \A d \in Caches \ {c} : n[d] = RemoteRead(protocol, state[l][d])
  BY <1>3 DEF ReadSnooped, LocalRead
<1>5. \A d \in Caches : state[l][d] \in States(protocol)
  BY <1>1
<1>6. n \in [Caches -> States(protocol)]
  <2>1. n[c] \in States(protocol)
    BY <1>1, <1>4, <1>5, TablesClosed DEF States, Protocols, AllStates
  <2>2. \A d \in Caches \ {c} : n[d] \in States(protocol)
    BY <1>1, <1>4, <1>5, TablesClosed
  <2>3. n = [d \in Caches |-> n[d]]
    BY DEF ReadSnooped
  <2> HIDE DEF n
  <2> QED BY <2>1, <2>2, <2>3
<1>7. SnoopTypeOK'
  <2> HIDE DEF n
  <2>1. state' \in [Lines -> [Caches -> States(protocol)]]
    BY <1>1, <1>3, <1>6
  <2>2. newest' \in [Lines -> SUBSET Caches]
    BY <1>1, <1>3
  <2>3. saved' \subseteq Lines
    BY <1>1, <1>3
  <2> QED BY <1>1, <1>3, <2>1, <2>2, <2>3 DEF SnoopTypeOK
<1>8. state'[l] = n /\ \A m \in Lines \ {l} : state'[m] = state[m]
  BY <1>1, <1>3
<1>9. Exclusion(n)
  <2> HIDE DEF n
  <2>1. ASSUME NEW d \in Caches \ {c}, n[c] = "E" PROVE n[d] = "I"
    BY <1>1, <1>4, <1>5, <2>1, RemoteReadDowngrades DEF SharedCopy, IsValid
  <2>2. \A d \in Caches \ {c} : n[d] \in {"O", "S", "I"}
    BY <1>1, <1>4, <1>5, RemoteReadDowngrades
  <2>3. ASSUME NEW d \in Caches \ {c}, NEW e \in Caches \ {c}, d # e, n[d] = "O"
        PROVE  n[e] \in {"S", "I"}
    <3>1. state[l][d] \in {"M", "O"}
      BY <1>1, <1>4, <1>5, <2>3, RemoteReadDowngrades
    <3>2. state[l][e] \in {"S", "I"}
      BY <1>2, <2>3, <3>1 DEF LineOK, Exclusion
    <3> QED BY <1>1, <1>4, <1>5, <2>2, <3>2, RemoteReadDowngrades
  <2>4. ASSUME NEW d \in Caches \ {c}, n[d] = "O" PROVE n[c] \in {"S", "I"}
    BY <1>4, <2>1, <2>4
  <2>5. n[c] \in {"S", "E"}
    BY <1>4
  <2> QED BY <2>1, <2>2, <2>3, <2>4, <2>5 DEF Exclusion
<1>10. \A d \in Caches : IsValid(n[d]) => d \in newest'[l]
  <2> HIDE DEF n
  <2>1. ASSUME NEW d \in Caches \ {c}, IsValid(n[d]) PROVE d \in newest'[l]
    <3>1. IsValid(state[l][d])
      BY <1>1, <1>4, <1>5, <2>1, RemoteReadDowngrades DEF IsValid
    <3>2. d \in newest[l]
      BY <1>2, <3>1 DEF LineOK
    <3> QED BY <1>1, <1>3, <3>2
  <2>2. Fetches(c, l)
    <3>1. CASE Suppliers(c, l) = {}
      <4>1. \A d \in Caches : ~RequiresWriteback(state[l][d])
        <5>1. ~RequiresWriteback(state[l][c])
          BY <1>3 DEF RequiresWriteback, IsValid
        <5>2. ASSUME NEW d \in Caches \ {c} PROVE ~RequiresWriteback(state[l][d])
          BY <3>1, <1>1, <1>5 DEF Suppliers, CanSupplyData, RequiresWriteback, States, Protocols
        <5> QED BY <5>1, <5>2
      <4>2. l \in saved
        BY <1>2, <4>1 DEF LineOK
      <4> QED BY <3>1, <4>2 DEF Fetches
    <3>2. CASE Suppliers(c, l) # {}
      <4>1. PICK d \in Suppliers(c, l) : TRUE
        BY <3>2
      <4>2. d \in Caches /\ IsValid(state[l][d])
        BY <4>1 DEF Suppliers, CanSupplyData, IsValid
      <4>3. d \in newest[l]
        BY <1>2, <4>2 DEF LineOK
      <4> QED BY <4>1, <4>3 DEF Fetches
    <3> QED BY <3>1, <3>2
  <2>3. c \in newest'[l]
    BY <1>1, <1>3, <2>2
  <2> QED BY <2>1, <2>3
<1>11. l \notin saved' => \E d \in Caches : RequiresWriteback(n[d])
  <2> SUFFICES ASSUME l \notin saved' PROVE \E d \in Caches : RequiresWriteback(n[d])
    OBVIOUS
  <2> HIDE DEF n
  <2>1. l \notin saved /\ ~Flushed(l, n)
    BY <1>1, <1>3
  <2>2. PICK d \in Caches : RequiresWriteback(state[l][d])
    BY <1>2, <2>1 DEF LineOK
  <2>3. d \in newest[l]
    BY <1>2, <2>2 DEF LineOK, RequiresWriteback, IsValid
  <2>4. d \notin Flushing(l, n)
    BY <2>1, <2>3 DEF Flushed
  <2> QED BY <2>2, <2>4 DEF Flushing
<1>12. LineOK(l)'
  <2> HIDE DEF n
  <2> QED BY <1>8, <1>9, <1>10, <1>11 DEF LineOK, Exclusion
<1>13. ASSUME NEW m \in Lines, m # l PROVE LineOK(m)'
  <2> HIDE DEF n
  <2>1. newest'[m] = newest[m] /\ (m \in saved' <=> m \in saved)
    BY <1>1, <1>3, <1>13
  <2> QED BY <1>8, <1>13, <2>1, OtherLines
<1> QED BY <1>7, <1>12, <1>13 DEF Coherent

LEMMA WriteCoherent ==
  ASSUME Coherent, NEW c \in Caches, NEW l \in Lines, Write(c, l)
  PROVE  Coherent'
<1> DEFINE n == [d \in Caches |-> IF d = c THEN "M" ELSE "I"]
<1>1. /\ protocol \in Protocols
      /\ state \in [Lines -> [Caches -> States(protocol)]]
      /\ newest \in [Lines -> SUBSET Caches]
      /\ saved \subseteq Lines
      /\ LineOK(l)
  BY DEF Coherent, SnoopTypeOK
<1>2. /\ protocol' = protocol
      /\ state' = [state EXCEPT ![l] = n]
      /\ saved' = saved \ {l}
  BY DEF Write, WriteSnooped, LocalWrite, RemoteWrite
<1>3. IF IsValid(state[l][c]) THEN c \in newest[l] ELSE Fetches(c, l)
  <2>1. CASE IsValid(state[l][c])
    BY <1>1, <2>1 DEF LineOK
  <2>2. CASE ~IsValid(state[l][c]) /\ Suppliers(c, l) = {}
    <3>1. \A d \in Caches : state[l][d] \in States(protocol)
      BY <1>1
    <3>2. \A d \in Caches : ~RequiresWriteback(state[l][d])
      <4>1. ~RequiresWriteback(state[l][c])
        BY <2>2 DEF RequiresWriteback, IsValid
      <4>2. ASSUME NEW d \in Caches \ {c} PROVE ~RequiresWriteback(state[l][d])
        BY <1>1, <2>2, <3>1 DEF Suppliers, CanSupplyData, RequiresWriteback, States, Protocols
      <4> QED BY <4>1, <4>2
    <3>3. l \in saved
      BY <1>1, <3>2 DEF LineOK
    <3> QED BY <2>2, <3>3 DEF Fetches
  <2>3. CASE ~IsValid(state[l][c]) /\ Suppliers(c, l) # {}
    <3>1. PICK d \in Suppliers(c, l) : TRUE
      BY <2>3
    <3>2. d \in newest[l]
      BY <1>1, <3>1 DEF LineOK, Suppliers, CanSupplyData, IsValid
    <3> QED BY <2>3, <3>1, <3>2 DEF Fetches
  <2> QED BY <2>1, <2>2, <2>3
<1>4. newest' = [newest EXCEPT ![l] = {c}]
  BY <1>3 DEF Write
<1>5. n \in [Caches -> States(protocol)]
  BY <1>1 DEF States, Protocols, AllStates
<1>6. SnoopTypeOK'
  <2> HIDE DEF n
  <2>1. state' \in [Lines -> [Caches -> States(protocol)]] BY <1>1, <1>2, <1>5
  <2>2. newest' \in [Lines -> SUBSET Caches] BY <1>1, <1>4
  <2> QED BY <1>1, <1>2, <2>1, <2>2 DEF SnoopTypeOK
<1>7. state'[l] = n /\ newest'[l] = {c}
  BY <1>1, <1>2, <1>4
<1>8. Exclusion(n)
  BY DEF Exclusion
<1>9. LineOK(l)'
  BY <1>7, <1>8 DEF LineOK, Exclusion, IsValid, RequiresWriteback
<1>10. ASSUME NEW m \in Lines, m # l PROVE LineOK(m)'
  <2> HIDE DEF n
  <2>1. state'[m] = state[m] /\ newest'[m] = newest[m] /\ (m \in saved' <=> m \in saved)
    BY <1>1, <1>2, <1>4, <1>10
  <2> QED BY <1>10, <2>1, OtherLines
<1> QED BY <1>6, <1>9, <1>10 DEF Coherent

LEMMA EvictCoherent ==
  ASSUME Coherent, NEW c \in Caches, NEW l \in Lines, Evict(c, l)
  PROVE  Coherent'
<1> DEFINE n == [state[l] EXCEPT ![c] = "I"]
<1>1. /\ protocol \in Protocols
      /\ state \in [Lines -> [Caches -> States(protocol)]]
      /\ newest \in [Lines -> SUBSET Caches]
      /\ saved \subseteq Lines
      /\ LineOK(l)
  BY DEF Coherent, SnoopTypeOK
<1>2. /\ protocol' = protocol
      /\ state' = [state EXCEPT ![l] = n]
      /\ newest' = [newest EXCEPT ![l] = newest[l] \ {c}]
      /\ saved' = IF RequiresWriteback(state[l][c]) /\ c \in newest[l] THEN saved \cup {l} ELSE saved
      /\ IsValid(state[l][c])
  BY <1>1 DEF Evict, Eviction
<1>3. n \in [Caches -> States(protocol)]
  BY <1>1 DEF States, Protocols, AllStates
<1>4. SnoopTypeOK'
  <2> HIDE DEF n
  <2>1. state' \in [Lines -> [Caches -> States(protocol)]] BY <1>1, <1>2, <1>3
  <2>2. newest' \in [Lines -> SUBSET Caches] BY <1>1, <1>2
  <2>3. saved' \subseteq Lines BY <1>1, <1>2
  <2> QED BY <1>1, <1>2, <2>1, <2>2, <2>3 DEF SnoopTypeOK
<1>5. /\ state'[l] = n
      /\ newest'[l] = newest[l] \ {c}
      /\ n[c] = "I"
      /\ \A d \in Caches \ {c} : n[d] = state[l][d]
  BY <1>1, <1>2
<1>6. Exclusion(n)
  <2> HIDE DEF n
  <2> QED BY <1>1, <1>5 DEF LineOK, Exclusion
<1>7. \A d \in Caches : IsValid(n[d]) => d \in newest'[l]
  <2> HIDE DEF n
  <2> QED BY <1>1, <1>5 DEF LineOK, IsValid
<1>8. l \notin saved' => \E d \in Caches : RequiresWriteback(n[d])
  <2> SUFFICES ASSUME l \notin saved' PROVE \E d \in Caches : RequiresWriteback(n[d])
    OBVIOUS
  <2> HIDE DEF n
  <2>1. PICK d \in Caches : RequiresWriteback(state[l][d])
    BY <1>1, <1>2 DEF LineOK
  <2>2. d # c
    BY <1>1, <1>2, <2>1 DEF LineOK
  <2> QED BY <1>5, <2>1, <2>2
<1>9. LineOK(l)'
  <2> HIDE DEF n
  <2> QED BY <1>5, <1>6, <1>7, <1>8 DEF LineOK, Exclusion
<1>10. ASSUME NEW m \in Lines, m # l PROVE LineOK(m)'
  <2> HIDE DEF n
  <2>1. state'[m] = state[m] /\ newest'[m] = newest[m] /\ (m \in saved' <=> m \in saved)
    BY <1>1, <1>2, <1>10
  <2> QED BY <1>10, <2>1, OtherLines
<1> QED BY <1>4, <1>9, <1>10 DEF Coherent

LEMMA StepCoherent == Coherent /\ [SnoopNext]_snoopVars => Coherent'
<1>1. ASSUME Coherent, SnoopNext PROVE Coherent'
  BY <1>1, ReadMissCoherent, WriteCoherent, EvictCoherent DEF SnoopNext
<1>2. ASSUME Coherent, UNCHANGED snoopVars PROVE Coherent'
  BY <1>2 DEF snoopVars, Coherent, SnoopTypeOK, LineOK, Exclusion
<1> QED BY <1>1, <1>2

-----------------------------------------------------------------------------
LEMMA AlwaysCoherent == SnoopSpec => []Coherent
  BY InitCoherent, StepCoherent, PTL DEF SnoopSpec

\* A cache is only ever in a state of its protocol.
THEOREM SnoopTypeCorrect == SnoopSpec => []SnoopTypeOK
<1>1. Coherent => SnoopTypeOK BY DEF Coherent
<1> QED BY <1>1, AlwaysCoherent, PTL

\* Under MSI, MESI and MOESI, with any number of caches, the last write to a line
\* is in memory or exactly one cache is responsible for it.
THEOREM LastWriteIsNeverLost == SnoopSpec => []LastWriteIsOwed
<1>1. Coherent => LastWriteIsOwed
  BY DEF Coherent, LineOK, Exclusion, LastWriteIsOwed, RequiresWriteback
<1> QED BY <1>1, AlwaysCoherent, PTL

\* No cache ever reads an old value from a copy it holds.
THEOREM NoStaleCopies == SnoopSpec => []CopiesAreCurrent
<1>1. Coherent => CopiesAreCurrent
  BY DEF Coherent, LineOK, CopiesAreCurrent
<1> QED BY <1>1, AlwaysCoherent, PTL
-----------------------------------------------------------------------------
\* The refinement: an action on line l is one of the abstract actions on l.
held == [l \in Lines |-> [c \in Caches |-> Right(state[l][c])]]

LEMMA LineChanges ==
  ASSUME NEW l \in Lines, NEW n, state \in [Lines -> [Caches -> States(protocol)]],
         state' = [state EXCEPT ![l] = n]
  PROVE  held' = [held EXCEPT ![l] = [c \in Caches |-> Right(n[c])]]
  BY DEF held

LEMMA ReadMissGrants ==
  ASSUME Coherent, NEW c \in Caches, NEW l \in Lines, ReadMiss(c, l)
  PROVE  BusLine!GrantRead(c, l)
<1> DEFINE n == ReadSnooped(c, l, LocalRead(protocol, state[l][c], SharedCopy(c, l)))
           r == IF protocol = "MSI" \/ SharedCopy(c, l) THEN "S" ELSE "E"
           abstract == [q \in Caches |-> IF q = c THEN r
                                         ELSE IF BusLine!Exclusive(held[l][q]) THEN "S"
                                         ELSE held[l][q]]
<1>1. /\ protocol \in Protocols
      /\ state \in [Lines -> [Caches -> States(protocol)]]
  BY DEF Coherent, SnoopTypeOK
<1>2. state' = [state EXCEPT ![l] = n] /\ ~IsValid(state[l][c])
  BY DEF ReadMiss
<1>3. n[c] = r /\ \A d \in Caches \ {c} : n[d] = RemoteRead(protocol, state[l][d])
  BY <1>2 DEF ReadSnooped, LocalRead
<1>4. \A d \in Caches : held[l][d] = Right(state[l][d]) /\ state[l][d] \in AllStates
  BY <1>1 DEF held, States, AllStates
<1>5. \A d \in Caches \ {c} :
        Right(n[d]) = IF BusLine!Exclusive(held[l][d]) THEN "S" ELSE held[l][d]
  BY <1>3, <1>4 DEF RemoteRead, Right, BusLine!Exclusive, AllStates
<1>6. [d \in Caches |-> Right(n[d])] = abstract
  <2>1. Right(n[c]) = r BY <1>3 DEF Right
  <2> HIDE DEF n, r
  <2> QED BY <1>5, <2>1
<1>7. held' = [held EXCEPT ![l] = abstract]
  <2> HIDE DEF n, abstract
  <2> QED BY <1>1, <1>2, <1>6, LineChanges
<1>8. BusLine!Exclusive(r) => \A q \in Caches \ {c} : held[l][q] = "I"
  BY <1>4 DEF BusLine!Exclusive, SharedCopy, IsValid, Right
<1>9. r \in {"M", "E", "S"} /\ r # "M"
  OBVIOUS
<1> HIDE DEF n, r
<1> QED BY <1>7, <1>8, <1>9 DEF BusLine!GrantRead, BusLine!SetLine, held

LEMMA WriteGrants ==
  ASSUME Coherent, NEW c \in Caches, NEW l \in Lines, Write(c, l)
  PROVE  BusLine!GrantWrite(c, l)
<1> DEFINE n == [d \in Caches |-> IF d = c THEN "M" ELSE "I"]
<1>1. state \in [Lines -> [Caches -> States(protocol)]]
  BY DEF Coherent, SnoopTypeOK
<1>2. state' = [state EXCEPT ![l] = n]
  BY DEF Write, WriteSnooped, LocalWrite, RemoteWrite
<1>3. [d \in Caches |-> Right(n[d])] = n
  BY DEF Right
<1>4. held' = [held EXCEPT ![l] = n]
  <2>1. held' = [held EXCEPT ![l] = [d \in Caches |-> Right(n[d])]]
    <3> HIDE DEF n
    <3> QED BY <1>1, <1>2, LineChanges
  <2> QED BY <1>3, <2>1
<1> QED BY <1>4 DEF BusLine!GrantWrite, BusLine!SetLine, held

LEMMA EvictDrops ==
  ASSUME Coherent, NEW c \in Caches, NEW l \in Lines, Evict(c, l)
  PROVE  BusLine!Drop({c}, l)
<1> DEFINE n == [state[l] EXCEPT ![c] = "I"]
           abstract == [q \in Caches |-> IF q \in {c} THEN "I" ELSE held[l][q]]
<1>1. state \in [Lines -> [Caches -> States(protocol)]]
  BY DEF Coherent, SnoopTypeOK
<1>2. state' = [state EXCEPT ![l] = n]
  BY <1>1 DEF Evict, Eviction
<1>3. [d \in Caches |-> Right(n[d])] = abstract
  BY <1>1 DEF Right, held
<1>4. held' = [held EXCEPT ![l] = abstract]
  <2> HIDE DEF n, abstract
  <2> QED BY <1>1, <1>2, <1>3, LineChanges
<1> QED BY <1>4 DEF BusLine!Drop, BusLine!SetLine, held

\* Snooping caches under MSI, MESI or MOESI and the directory promise the same line.
THEOREM SnoopingImplementsLine == SnoopSpec => SnoopsImplementLine
<1>1. SnoopInit => BusLine!LineInit
  BY DEF SnoopInit, BusLine!LineInit, Right
<1>2. ASSUME Coherent, [SnoopNext]_snoopVars PROVE [BusLine!LineNext]_held
  <2>1. ASSUME NEW c \in Caches, NEW l \in Lines, ReadMiss(c, l) PROVE BusLine!LineNext
    BY <1>2, <2>1, ReadMissGrants DEF BusLine!LineNext
  <2>2. ASSUME NEW c \in Caches, NEW l \in Lines, Write(c, l) PROVE BusLine!LineNext
    BY <1>2, <2>2, WriteGrants DEF BusLine!LineNext
  <2>3. ASSUME NEW c \in Caches, NEW l \in Lines, Evict(c, l) PROVE BusLine!LineNext
    BY <1>2, <2>3, EvictDrops DEF BusLine!LineNext
  <2>4. CASE UNCHANGED snoopVars
    BY <2>4 DEF snoopVars, held
  <2> QED BY <1>2, <2>1, <2>2, <2>3, <2>4 DEF SnoopNext
<1>3. Coherent /\ [SnoopNext]_snoopVars => [BusLine!LineNext]_[l \in Lines |-> [c \in Caches |-> Right(state[l][c])]]
  BY <1>2 DEF held
<1> QED BY <1>1, <1>3, AlwaysCoherent, PTL DEF SnoopSpec, SnoopsImplementLine, BusLine!LineSpec
=============================================================================

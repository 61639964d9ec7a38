------------------------- MODULE CoherenceProtocol --------------------------
(***************************************************************************)
(* The transition tables of CoherenceProtocolBase: MSIProtocol,            *)
(* MESIProtocol behind its adapter, and MOESIProtocol, for one line in one *)
(* cache.  p is the protocol, s the state of the line: Modified, Owned,    *)
(* Exclusive, Shared or Invalid.  The transition counts are only printed,  *)
(* and left out.                                                           *)
(***************************************************************************)

Protocols == {"MSI", "MESI", "MOESI"}

AllStates == {"M", "O", "E", "S", "I"}

States(p) == CASE p = "MSI"  -> {"M", "S", "I"}
               [] p = "MESI" -> {"M", "E", "S", "I"}
               [] OTHER      -> AllStates

IsValid(s) == s # "I"

\* The cache has to save the line before it gives it up.
RequiresWriteback(s) == s \in {"M", "O"}

\* Who answers a miss of another cache instead of memory.
CanSupplyData(p, s) == s = "M" \/ (p = "MOESI" /\ s \in {"O", "E"})

\* handleLocalRead; the mutant does not ask for other copies.
LocalReadAlone(p, s, sharedCopy) ==
  IF IsValid(s) THEN s ELSE IF p = "MSI" THEN "S" ELSE "E"
LocalRead(p, s, sharedCopy) ==
  IF IsValid(s) THEN s ELSE IF p = "MSI" \/ sharedCopy THEN "S" ELSE "E"

\* handleLocalWrite; the mutant leaves an exclusive line as it is.
LocalWriteSilent(p, s) == IF s = "E" THEN "E" ELSE "M"
LocalWrite(p, s) == "M"

\* handleRemoteRead.
RemoteRead(p, s) ==
  CASE s = "M" -> IF p = "MOESI" THEN "O" ELSE "S"
    [] s = "E" -> "S"
    [] OTHER   -> s

\* handleRemoteWrite; the mutant spares the owner.
RemoteWriteSparesOwner(p, s) == IF s = "O" THEN "O" ELSE "I"
RemoteWrite(p, s) == "I"

\* handleEviction of MESI, invalidState of all three.
Eviction(p, s) == "I"
=============================================================================

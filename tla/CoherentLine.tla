---------------------------- MODULE CoherentLine ----------------------------
(***************************************************************************)
(* What a coherence directory promises to its processors, line by line:    *)
(* a line is held by one processor that may write it, or by any number of  *)
(* processors that may only read it.  A granted request gives the          *)
(* requestor a copy, a write takes the line away from everybody else, a    *)
(* read takes it away from nobody.                                         *)
(***************************************************************************)
CONSTANTS Procs, Addresses

VARIABLE held     \* held[a][p]: the right processor p has on address a

MESI == {"M", "E", "S", "I"}

Exclusive(r) == r \in {"M", "E"}

LineInit == held = [a \in Addresses |-> [p \in Procs |-> "I"]]

SetLine(a, line) == held' = [held EXCEPT ![a] = line]

\* p gets a copy; whoever held the line exclusively keeps a shared copy.
GrantRead(p, a) ==
  \E r \in {"M", "E", "S"} :
     /\ Exclusive(r) => \A q \in Procs \ {p} : held[a][q] = "I"
     /\ r = "M" => held[a][p] = "M"
     /\ SetLine(a, [q \in Procs |-> IF q = p THEN r
                                    ELSE IF Exclusive(held[a][q]) THEN "S"
                                    ELSE held[a][q]])

\* p may write, nobody else keeps a copy.
GrantWrite(p, a) == SetLine(a, [q \in Procs |-> IF q = p THEN "M" ELSE "I"])

\* Copies are given up, or taken away on request; nobody gains anything.
Drop(D, a) == SetLine(a, [q \in Procs |-> IF q \in D THEN "I" ELSE held[a][q]])

LineNext ==
  \E a \in Addresses :
     \/ \E p \in Procs : GrantRead(p, a) \/ GrantWrite(p, a)
     \/ \E D \in SUBSET Procs : Drop(D, a)

LineSpec == LineInit /\ [][LineNext]_held

-----------------------------------------------------------------------------
LineTypeOK == held \in [Addresses -> [Procs -> MESI]]

\* Single writer, multiple readers: a processor with the exclusive right
\* excludes every other copy of the line.
SWMR ==
  \A a \in Addresses : \A p, q \in Procs :
     (p # q /\ Exclusive(held[a][p])) => held[a][q] = "I"
=============================================================================

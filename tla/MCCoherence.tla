----------------------------- MODULE MCCoherence ----------------------------
(***************************************************************************)
(* Three ways to keep caches coherent, each on its own: a behaviour is one *)
(* of the part named by part, the others rest in their initial states.     *)
(* "directory" is the directory under any calls of its interface,          *)
(* "snooping" the caches on a bus and "network" the interconnects.         *)
(***************************************************************************)
EXTENDS CoherenceController, SnoopingCaches, Interconnect

VARIABLE part

AllTopologies == {"Bus", "Crossbar", "Mesh", "Ring", "Torus"}
\* Three processors whose routes to a corner of the mesh meet, one of them at the
\* corner; the other destination is nobody.
SomeSenders == {0, 1, 5}
SomeDests == {0, 6}

coherence == <<part, dirVars, snoopVars, networkVars>>

CoherenceInit ==
  /\ part \in {"directory", "snooping", "network"}
  /\ Init
  /\ SnoopInit /\ (part # "snooping" => protocol = "MESI")
  /\ NetworkInit /\ (part # "network" => topology = "Bus")

CoherenceNext ==
  /\ UNCHANGED part
  /\ IF part = "directory" THEN Next ELSE UNCHANGED dirVars
  /\ IF part = "snooping" THEN SnoopNext ELSE UNCHANGED snoopVars
  /\ IF part = "network" THEN NetworkNext ELSE UNCHANGED networkVars

CoherenceSpec ==
  /\ CoherenceInit /\ [][CoherenceNext]_coherence
  /\ \A p \in Senders : WF_networkVars(Continue(p))
=============================================================================

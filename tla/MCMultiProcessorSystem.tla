----------------------- MODULE MCMultiProcessorSystem -----------------------
\* A layout of the L1 caches: which address is in which block, which block in
\* which set.
EXTENDS MultiProcessorSystem

CONSTANTS a1, a2, b1, b2

\* Two addresses in two blocks.
OwnBlock == [a \in Addresses |-> IF a = a1 THEN b1 ELSE b2]
\* Both blocks compete for one set.
OneSet == [b \in Blocks |-> 1]

\* The cores take turns: one operation ends before the next begins, so that what a core
\* is left with is not the work of a race.
Turns == \A p, q \in Procs : p = q \/ Idle(p) \/ Idle(q)
TurnsSpec == SystemInit /\ [][SystemNext /\ Turns']_vars
=============================================================================

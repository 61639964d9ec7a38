----------------------------- MODULE Mailboxes ------------------------------
(***************************************************************************)
(* What an interconnect promises: for every source and destination a box   *)
(* that hands out the letters of the source, each once, in the order in    *)
(* which they were posted.  Nothing is promised between two sources.       *)
(***************************************************************************)
EXTENDS Naturals, Sequences

CONSTANTS From, To

VARIABLES
  box,    \* box[s][d]: the numbers of the letters from s that wait for d
  posted  \* posted[s][d]: how many letters s has posted to d

BoxInit ==
  /\ box = [s \in From |-> [d \in To |-> <<>>]]
  /\ posted = [s \in From |-> [d \in To |-> 0]]

Post(s, d) ==
  /\ posted' = [posted EXCEPT ![s][d] = @ + 1]
  /\ box' = [box EXCEPT ![s][d] = Append(@, posted[s][d] + 1)]

Take(s, d) ==
  /\ box[s][d] # <<>>
  /\ box' = [box EXCEPT ![s][d] = Tail(@)]
  /\ UNCHANGED posted

BoxNext == \E s \in From, d \in To : Post(s, d) \/ Take(s, d)

BoxSpec == BoxInit /\ [][BoxNext]_<<box, posted>>
=============================================================================

------------------------ MODULE WriteCombiningBuffer ------------------------
(***************************************************************************)
(* WriteCombiningBuffer: the addresses in it, the one written longest ago  *)
(* first; the time stamps of the entries only order them, and in which     *)
(* entry an address is matters to nobody.                                  *)
(***************************************************************************)
EXTENDS Naturals, Sequences, SequencesExt, FiniteSetsExt

CONSTANTS
  Writable,    \* the addresses
  Entries,     \* the size of the buffer
  MaxRefusals  \* bound of the model: how many calls return false between flushes

BufferAssumption == Entries \in Nat \ {0} /\ MaxRefusals \in Nat

VARIABLES
  buffer,   \* entries_
  recent,   \* ghost: the addresses written since the last flush, the latest last
  refusals  \* ghost: the calls of tryWrite since then that returned false

vars == <<buffer, recent, refusals>>

Init == buffer = <<>> /\ recent = <<>> /\ refusals = 0

\* a comes last; what was behind it moves up by one.
Written(s, a) ==
  IF a \notin ToSet(s) THEN Append(s, a)
  ELSE [i \in DOMAIN s |->
          IF i = Len(s) THEN a ELSE IF \E j \in 1 .. i : s[j] = a THEN s[i + 1] ELSE s[i]]

\* The address is in the buffer: only its time stamp changes, which the mutant forgets.
NotStamped(a) == buffer
Stamped(a) == Written(buffer, a)
Combine(a) ==
  /\ a \in ToSet(buffer)
  /\ buffer' = Stamped(a)
  /\ recent' = Written(recent, a)
  /\ UNCHANGED refusals

\* A new address takes a free entry or that of the oldest, and then false is returned.
Store(a) ==
  /\ a \notin ToSet(buffer)
  /\ IF Len(buffer) < Entries
       THEN buffer' = Append(buffer, a) /\ UNCHANGED refusals
       ELSE /\ refusals < MaxRefusals
            /\ buffer' = Append(Tail(buffer), a) /\ refusals' = refusals + 1
  /\ recent' = Written(recent, a)

Flush ==
  /\ buffer # <<>>
  /\ buffer' = <<>> /\ recent' = <<>> /\ refusals' = 0

Next == (\E a \in Writable : Combine(a) \/ Store(a)) \/ Flush

Spec == Init /\ [][Next]_vars

-----------------------------------------------------------------------------
TypeOK == buffer \in Seq(Writable) /\ Len(buffer) <= Entries /\ refusals \in 0 .. MaxRefusals

\* The buffer holds the addresses written last, each once, and what it dropped without
\* anybody being told which address it was, some call answered with false.
KeepsTheLatest ==
  /\ buffer = SubSeq(recent, Len(recent) - Len(buffer) + 1, Len(recent))
  /\ Len(recent) - Len(buffer) <= refusals
=============================================================================

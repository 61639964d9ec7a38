---------------------------- MODULE VictimCache -----------------------------
(***************************************************************************)
(* VictimCache: a small fully associative buffer for blocks thrown out of  *)
(* a cache.  Three pieces of state have to agree: the slots, the queue of  *)
(* slot numbers that says which block is oldest, and the counter that says *)
(* whether it is full.  Slots are never given back, only marked invalid,   *)
(* and a block put back where it was is told to neither.                   *)
(* The map from addresses to slots is written and never read; it is left   *)
(* out, with the tags, the dirty bits and the hit counters.                *)
(***************************************************************************)
EXTENDS Integers, Sequences, SequencesExt, FiniteSetsExt

CONSTANTS
  Addresses,    \* the block addresses
  MaxSize,      \* maxSize
  MaxQueue,     \* bound of the model: the length of a queue that has gone wrong
  SizeModulus   \* currentSize is a size_t and wraps: 2^64 in the program

VictimCacheAssumption ==
  /\ Addresses \subseteq Nat
  /\ MaxSize \in Nat \ {0} /\ MaxQueue \in Nat /\ MaxQueue > MaxSize
  /\ SizeModulus \in Nat /\ SizeModulus > MaxSize

VARIABLES
  blocks,    \* the slots: address and validity
  fifo,      \* fifoQueue: slots, the oldest first
  size       \* currentSize

vars == <<blocks, fifo, size>>

Init == blocks = <<>> /\ fifo = <<>> /\ size = 0

Slots == DOMAIN blocks

\* isSameBlock over all slots, the invalid ones too; the mutant only looks at the slots
\* that are queued.
QueuedHolding(a) == {i \in Slots : blocks[i].addr = a /\ i \in ToSet(fifo)}
Holding(a) == {i \in Slots : blocks[i].addr = a}

ValidSlots == {i \in Slots : blocks[i].valid}
Fresh(a, v) == [addr |-> a, valid |-> v]

\* The numbers up to n that are in K, in their order.
Ordered(K, n) ==
  LET upTo[k \in 0 .. n] ==
        IF k = 0 THEN <<>> ELSE IF k \in K THEN Append(upTo[k - 1], k) ELSE upTo[k - 1]
  IN  upTo[n]

\* A queue without the first occurrence of each x in X.
Firsts(queue, X) ==
  {k \in DOMAIN queue : queue[k] \in X /\ \A j \in 1 .. k - 1 : queue[j] # queue[k]}
Without(queue, X) ==
  LET kept == Ordered(DOMAIN queue \ Firsts(queue, X), Len(queue))
  IN  [j \in DOMAIN kept |-> queue[kept[j]]]

Decremented(n) == (n - 1) % SizeModulus

-----------------------------------------------------------------------------
\* searchAndRemove, a hit; a miss changes nothing.
SearchAndRemove(a) ==
  \E i \in Holding(a) \cap ValidSlots :
    /\ blocks' = [blocks EXCEPT ![i].valid = FALSE]
    /\ fifo' = Without(fifo, {i})
    /\ size' = Decremented(size)

\* insertBlock when a slot has the address: it is overwritten, whether or not it
\* is valid, and neither the queue nor the counter is told.
Overwrite(a, v) ==
  \E i \in Holding(a) :
    /\ blocks' = [blocks EXCEPT ![i] = Fresh(a, v)]
    /\ UNCHANGED <<fifo, size>>

\* evictOldestBlock.
Evicts == size >= MaxSize /\ fifo # <<>>
AfterEviction == [blocks EXCEPT ![Head(fifo)].valid = FALSE]

\* insertBlock when no slot has the address: evict if full, then take the first
\* invalid slot or a new one.
QueueLess == IF Evicts THEN Tail(fifo) ELSE fifo
Insert(a, v) ==
  /\ Holding(a) = {} /\ Len(fifo) < MaxQueue
  /\ LET emptied == IF Evicts THEN AfterEviction ELSE blocks
         left    == IF Evicts THEN Decremented(size) ELSE size
         free    == {i \in Slots : ~emptied[i].valid}
         slot    == IF free = {} THEN Len(blocks) + 1 ELSE Min(free)
     IN /\ blocks' = IF free = {} THEN Append(emptied, Fresh(a, v))
                                  ELSE [emptied EXCEPT ![slot] = Fresh(a, v)]
        /\ fifo' = Append(QueueLess, slot)
        /\ size' = (left + 1) % SizeModulus

\* invalidateBlocksInRange: every valid block of the range, one after the other.
InRange(first, last) == {i \in ValidSlots : blocks[i].addr \in first .. last}
Invalidate(first, last) ==
  /\ InRange(first, last) # {}
  /\ LET gone == InRange(first, last) IN
       /\ blocks' = [i \in Slots |-> IF i \in gone THEN [blocks[i] EXCEPT !.valid = FALSE]
                                                 ELSE blocks[i]]
       /\ fifo' = Without(fifo, gone)
       /\ size' = (size - Cardinality(gone)) % SizeModulus

\* sortBlocksByAddress: the valid blocks by address, then the others in any order;
\* the queue still has the numbers the slots had before.
Sorted(s) ==
  \A i, j \in DOMAIN s : i < j /\ s[j].valid => s[i].valid /\ s[i].addr < s[j].addr
Sort ==
  \E order \in Injection(Slots, Slots) : LET s == [i \in Slots |-> blocks[order[i]]] IN
    /\ Sorted(s)
    /\ blocks' = s
    /\ UNCHANGED <<fifo, size>>

Next ==
  \/ \E a \in Addresses : SearchAndRemove(a)
  \/ \E a \in Addresses, v \in BOOLEAN : Overwrite(a, v) \/ Insert(a, v)
  \/ \E first, last \in Addresses : first <= last /\ Invalidate(first, last)
  \/ Sort

Spec == Init /\ [][Next]_vars

-----------------------------------------------------------------------------
TypeOK ==
  /\ blocks \in Seq([addr : Addresses, valid : BOOLEAN])
  /\ fifo \in Seq(Slots)
  /\ size \in 0 .. SizeModulus - 1

\* No address is in two slots, valid or not, also when the queue and the counter are
\* wrong: the first slot a lookup finds is the only one, so a block that was removed is
\* not found again, and one that is put back replaces what was known of it.
NoAddressTwice == \A i, j \in Slots : i # j => blocks[i].addr # blocks[j].addr

\* What testHighVolumeOperations asserts after its calls, "cache.getCurrentSize() <=
\* cache.getMaxSize()" (tests/unit/core/victim_cache_test.cpp:244).  A removed block that
\* is put back in its slot is not counted (victim_cache.h:103), and removed again it
\* takes the counter below zero.
SizeStaysBounded == size <= MaxSize
=============================================================================

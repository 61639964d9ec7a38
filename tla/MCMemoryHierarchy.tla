------------------------- MODULE MCMemoryHierarchy --------------------------
\* Four blocks of two bytes.  L1 holds any two of them, L2 one odd and one even
\* block: L2 evicts what L1 still has, and the other way round.
EXTENDS MemoryHierarchy

TwoWays(policy, writeBack) ==
  [numSets |-> 1, ways |-> 2, policy |-> policy, writeBack |-> writeBack]

\* Both write policies, and a policy that evicts the block installed last.
SomeL1 == {TwoWays("LRU", TRUE), TwoWays("LRU", FALSE), TwoWays("PLRU", TRUE)}
DirectMapped == [numSets |-> 2, ways |-> 1, policy |-> "FIFO", writeBack |-> TRUE]
SmallL3 == TwoWays("NRU", TRUE)
WithAndWithoutL2 == {{"L2", "L3"}, {"L3"}}
BothLevels == {{"L2", "L3"}}
=============================================================================

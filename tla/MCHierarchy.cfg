SPECIFICATION Spec
CONSTANTS
  AddressSpace = 8
  BlockSize = 2
  Addresses = {0, 2, 4, 6}
  L1Configs <- SomeL1
  L2 <- DirectMapped
  L3 <- SmallL3
  Layouts <- WithAndWithoutL2
  Prefetching = {TRUE, FALSE}
  Distance = 2
  TableSize = 2
  MaxAccesses = 5
INVARIANTS WellFormed NoLostWrite AccessedStays StatisticsAgree

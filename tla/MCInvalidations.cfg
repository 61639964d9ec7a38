SPECIFICATION TurnsSpec
CONSTANTS
  NumProcs = 2
  Addresses = {a1, a2}
  InterconnectLatency = 2
  WordModulus = 16
  MaxOps = 99
  Blocks = {b1, b2}
  BlockOf <- OwnBlock
  SetOf <- OneSet
  Associativity = 2
  WriteBack = TRUE
  Zero = a1
  Distance = 0
  Kinds = {"Access"}
  MaxAccesses = 2
  a1 = a1
  a2 = a2
  b1 = b1
  b2 = b2
INVARIANT OthersAreInvalidated

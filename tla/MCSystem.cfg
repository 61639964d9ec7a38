SPECIFICATION SystemSpec
CONSTANTS
  NumProcs = 2
  Addresses = {a1, a2}
  InterconnectLatency = 2
  WordModulus = 16
  MaxOps = 99
  Blocks = {b1, b2}
  BlockOf <- OwnBlock
  SetOf <- OneSet
  Associativity = 1
  WriteBack = TRUE
  Zero = a1
  Distance = 1
  Kinds = {"Access", "Atomic", "Remote"}
  MaxAccesses = 2
  a1 = a1
  a2 = a2
  b1 = b1
  b2 = b2
INVARIANTS AccountsAreSound MaxOfThreads
PROPERTY Terminates

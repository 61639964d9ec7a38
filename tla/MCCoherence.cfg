SPECIFICATION CoherenceSpec
CONSTANTS
  NumProcs = 3
  Addresses = {a1}
  InterconnectLatency = 2
  WordModulus = 16
  MaxOps = 2
  Caches = {c1, c2, c3, c4}
  Lines = {l1, l2}
  NumNodes = 6
  Width = 3
  Topologies <- AllTopologies
  Senders <- SomeSenders
  Dests <- SomeDests
  Threshold = 0
  MaxSends = 3
  MaxConflicts = 2
INVARIANTS
  NoLeftovers
  LastWriteIsOwed
  CopiesAreCurrent
  LinksAreSound
  StatisticsAgree
PROPERTIES
  LineSpec
  VictimsNamed
  GrantIsEffective
  SnoopsImplementLine
  SendsReturn
  ImplementsMailboxes

SPECIFICATION Spec
CONSTANTS
  Ways = 4
  Policies = {"LRU", "FIFO", "Random", "NRU", "PLRU"}
  Addresses = {0, 1, 2, 3}
  MaxSize = 2
  MaxQueue = 3
  SizeModulus = 4
  Lines = {l1, l2}
  Writable = {w1, w2, w3, w4, w5}
  Entries = 3
  MaxRefusals = 4
  MaxDistance = 5
  MaxOutcomes = 6
  Sizes = {0, 6, 8}
  Associativities = {1, 2}
  BlockSizes = {1, 3}
  Distances = {0, 2}
  TraceLength = 2
  MaxCounted = 4
  Workers = {k1, k2}
  Procs = 2
  Threshold = 3
  Lengths = {0, 7, 25}
  Embed = 16
  Heads = 2
  SeqLen = 2
  Pixels = {0, 84, 128, 254, 255}
  MaxCalls = 3
  MaxAge = 5
  Repeats = 3
  Attempts = 3
  Count = 3
  Size = 5
  BlockSize = 4
  Random = {0, 77, 100}
  k1 = k1
  k2 = k2
  l1 = l1
  l2 = l2
  w1 = w1
  w2 = w2
  w3 = w3
  w4 = w4
  w5 = w5
INVARIANT SizeStaysBounded

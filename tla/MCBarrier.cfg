SPECIFICATION FairBarrierSpec
CONSTANTS
  NumThreads = 3
  MaxRounds = 1
PROPERTY WaitersAreReleased
CHECK_DEADLOCK FALSE

SPECIFICATION Spec
CONSTANTS
  Chosen <- AllPrograms
  MaxRuns = 2
CHECK_DEADLOCK FALSE
INVARIANTS
  EveryoneIsAnswered
  
  BindNeverFails
PROPERTIES
  EveryoneEnds

SPECIFICATION Spec
CONSTANTS
  Apps = {"clientst"}
  Hz = 3
  Late = 2
  Rate = 3
  BurstSize = 2
  TscRange = 64
  MaxTime = 6
  MaxBursts = 2
INVARIANT PromptEchoesCount
CHECK_DEADLOCK FALSE

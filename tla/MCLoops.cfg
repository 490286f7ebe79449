SPECIFICATION Spec
CONSTANTS
  Apps = {"send", "recv", "client", "clientst"}
  Hz = 3
  Late = 2
  Rate = 3
  BurstSize = 2
  TscRange = 64
  MaxTime = 5
  MaxBursts = 2
INVARIANTS TypeOK NeverAhead EveryPacketAccounted DelaysNotNegative ClientCountsPromptEchoes
CHECK_DEADLOCK FALSE

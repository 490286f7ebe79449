SPECIFICATION Spec
CONSTANTS
  Modes <- Live
  BurstSize = 2
  Backlog = 2
  InFlight = 2
PROPERTIES KeepsSending EchoesKeepComing

SPECIFICATION Spec
CONSTANTS
  Size = 3
  MaxSaves = 8
INVARIANTS
  TypeOK
  RingShape
  RecordsLatest
  PrintsWindow
  InterruptedPrintIsRecent
  FillingLosesAtMostTheNewest
PROPERTY ImplementsWindow
CHECK_DEADLOCK FALSE

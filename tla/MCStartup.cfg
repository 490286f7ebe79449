SPECIFICATION EitherSpec
CONSTANTS
  CommandLines <- MCCommandLines
  CoreMax = 5
  UintBits = 4
  AllowedSets <- MCAllowedSets
INVARIANTS
  StartupTypeOK
  ConfigAsAsked
  UdpSocketAsAsked
  OwnCores
PROPERTIES
  StartsOrStops
CHECK_DEADLOCK FALSE

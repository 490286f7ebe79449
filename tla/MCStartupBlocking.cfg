SPECIFICATION EitherSpec
CONSTANTS
  CommandLines <- MCCommandLines
  CoreMax = 5
  UintBits = 4
  AllowedSets <- MCAllowedSets
INVARIANT SocketAsHelpSays
CHECK_DEADLOCK FALSE

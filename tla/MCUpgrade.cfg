\* Three commands and three surprises; an uninstalled program, or one that may do no more, stops.
SPECIFICATION LiveSpec
CONSTANTS
  Versions <- ThreeVersions
  FirstVersion = 1
  FirstSchema = 1
  Lowest <- LowestMC
  InputLowest <- InputLowestMC
  Highest <- HighestMC
  MaxCommands = 3
  MaxSurprises = 3
  None = None
INVARIANTS
  ProgramsAreWhole
  CanRead
PROPERTIES
  SwitchAtSafePoint
  ServiceReturns
CHECK_DEADLOCK FALSE

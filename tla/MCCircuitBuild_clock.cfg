SPECIFICATION Spec
CONSTANTS
  Names <- B_Names
  Instances <- B_Instances
  Ports <- B_Ports
  Modules <- B_Modules
  Library <- B_Library
  Designs <- BufferedClock
  None = None
  MaxBuilds = 1
INVARIANT ClockLookupFindsPin
CHECK_DEADLOCK FALSE

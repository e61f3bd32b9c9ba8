SPECIFICATION Spec
CONSTANTS
  None = None
  Names <- S_Names
  Instances <- S_Instances
  Ports <- S_Ports
  Modules <- S_Modules
  Library <- S_Library
  VerilogFiles <- S_VerilogFiles
  LibertyFiles <- S_LibertyFiles
  Arguments <- S_Arguments
  PathSlacks <- S_PathSlacks
  MaxCalls <- S_MaxCalls
  MaxCommands = 7
INVARIANTS UndefinedForCause ResultsShowFiles
\* A program may end, and its commands are bounded.
CHECK_DEADLOCK FALSE

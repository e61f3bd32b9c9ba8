SPECIFICATION Spec
CONSTANTS
  Names <- B_Names
  Instances <- B_Instances
  Ports <- B_Ports
  Modules <- B_Modules
  Library <- B_Library
  Designs <- B_Designs
  None = None
  MaxBuilds = 2
INVARIANTS BuildsNetlist RefusesIllFormed ArcsLeadToLoads RebuildStops IInv
PROPERTIES DriversStay CallsEnd
\* A program stops at an assertion, or rests when nobody calls it.
CHECK_DEADLOCK FALSE

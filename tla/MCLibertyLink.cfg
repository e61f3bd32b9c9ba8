SPECIFICATION Spec
CONSTANTS
  Files <- K_Files
  CellNames <- K_CellNames
  Readable <- K_Readable
  Foreign <- K_Foreign
  Throwing <- K_Throwing
  Faulty <- K_Faulty
  Uncertain <- K_Uncertain
  CellsOf <- K_CellsOf
  Unusable <- K_Unusable
  None = None
  MaxReads = 3
  MaxLinks = 2
INVARIANTS IInv FirstFileWins FailsForCause
PROPERTY CallsEnd
\* The program ends, or stops at an error.
CHECK_DEADLOCK FALSE

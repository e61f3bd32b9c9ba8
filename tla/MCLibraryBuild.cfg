SPECIFICATION Spec
CONSTANTS
  LibFiles <- K_LibFiles
  Expressions <- K_Expressions
  None = None
  Nobody = Nobody
INVARIANTS IInv AttributesReachOwners PartsReachOwners StopsForCause
PROPERTY AttributesGoHome
\* Linking comes to an end.
CHECK_DEADLOCK FALSE

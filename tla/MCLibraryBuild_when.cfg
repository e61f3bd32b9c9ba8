SPECIFICATION Spec
CONSTANTS
  LibFiles <- K_LibFiles
  Expressions <- K_Expressions
  None = None
  Nobody = Nobody
INVARIANT WhenStaysWithItsGroup
\* Linking comes to an end.
CHECK_DEADLOCK FALSE

CONSTANTS
  None = None
  a = a
  b = b
  x = x
  y = y
  Pins <- P_Pins
  Graphs <- P_Graphs
SPECIFICATION FairSpec
INVARIANTS
  IInv
  SortsAcyclic
  VisitsReachedOnce
  OnlyLoopsLeadBack
PROPERTIES
  Returns
CHECK_DEADLOCK FALSE

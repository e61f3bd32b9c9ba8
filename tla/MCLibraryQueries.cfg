SPECIFICATION QSpec
CONSTANTS
  None = None
  Kilo = 10
  LibSets <- MCLibSets
  Tables <- MCTables
  CCSTables <- MCCCSTables
  CellParts <- MCCellParts
  Points = {0, 1, 2, 3, 4}
INVARIANTS LookupsAgree CurrentsAtGrid UnitsCancel ArcSetsAnswer EngineTakesOver ClassesAreAlike
CHECK_DEADLOCK FALSE

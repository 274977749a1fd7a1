SPECIFICATION BothSpec
CONSTANTS
  Phases = {"separation"}
  Count = 4
  Outers = 2
  Width = 2
  MaxDynamic = 4
  Programs <- MCPrograms
  MaxBlocks = 4
  Shapes <- MCShapes
INVARIANT SameBindingTimes
CHECK_DEADLOCK FALSE

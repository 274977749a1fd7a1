SPECIFICATION BothSpec
CONSTANTS
  Phases = {"printing"}
  Count = 1
  Outers = 1
  Width = 1
  MaxDynamic = 0
  Programs <- MCPrograms
  MaxBlocks = 8
  Shapes <- MCNested
INVARIANT AssertionsHold
CHECK_DEADLOCK FALSE

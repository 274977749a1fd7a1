SPECIFICATION BothSpec
CONSTANTS
  Phases = {"separation", "printing"}
  Count = 4
  Outers = 4
  Width = 1
  MaxDynamic = 2
  Programs <- MCPrograms
  MaxBlocks = 4
  Shapes <- MCShapes
INVARIANTS
  SameBindingTimes
  StructureIsRight
  TextIsTheProgram
PROPERTIES
  Ends
CHECK_DEADLOCK FALSE

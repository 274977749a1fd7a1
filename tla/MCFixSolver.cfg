SPECIFICATION FairSpec
CONSTANTS
  a = a
  b = b
  late = late
  Cell <- MCCell
  Elem <- MCElem
  Vertex <- MCVertex
  Bottom <- MCBottom
  Starts <- MCStarts
  Update <- MCUpdate
  Hooks <- MCHooks
  Reads <- MCReads
  Spawn <- MCSpawn
  Reports <- MCReports
INVARIANTS
  AtRestSolved
  LeastSolution
PROPERTIES
  Terminates
CHECK_DEADLOCK FALSE

SPECIFICATION TablesSpec
CONSTANTS
  f = f
  d = d
  g = g
  p = p
  h = h
  a1 = a1
  a2 = a2
  null = null
  n0 = n0
  n1 = n1
  Funs <- MCFuns
  Globals <- MCGlobals
  Heap <- MCHeap
  Par <- MCPar
  ValsOf <- MCValsOf
  ReadSet <- MCReadSet
  WriteSet <- MCWriteSet
  DynFuns <- MCDynFuns
  Dangling = FALSE
  MaxFuns = 2
  Address <- MCAddress
  Blocks <- MCBlocks
  Hash <- MCHash
  MinSize = 2
  MaxCopies = 2
VIEW View
INVARIANTS
  SharingIsExact
  PointersAreSound
  CopiesAreKept
PROPERTIES
  SharingReplaysEffect
  NoRestoreIntoDeadObject
  ImplementsSets
CHECK_DEADLOCK FALSE

SPECIFICATION TablesSpec
CONSTANTS
  f = f
  d = d
  g = g
  p = p
  h = h
  a1 = a1
  a2 = a2
  null = null
  n0 = n0
  n1 = n1
  Funs <- MCFuns
  Globals <- MCGlobals
  Heap <- MCHeap
  Par <- MCPar
  ValsOf <- MCValsOf
  ReadSet <- MCReadSet
  WriteSet <- MCWriteSet
  DynFuns <- MCDynFuns
  Dangling = TRUE
  MaxFuns = 3
  Address <- MCAddress
  Blocks <- MCBlocks
  Hash <- MCHash
  MinSize = 2
  MaxCopies = 2
INVARIANT
  SharedOnlyForSameArgument
CHECK_DEADLOCK FALSE

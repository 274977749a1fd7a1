SPECIFICATION LocalsSpec
CONSTANTS
  f = f
  g = g
  h = h
  gen = gen
  p = p
  x = x
  s = s
  m = m
  q = q
  a = a
  e = e
  u = u
  v = v
  w = w
  hp = hp
  n = n
  heap = heap
  ext = ext
  global = global
  external = external
  MaxPairs = 2
  OnlyStructure = TRUE
  MaxDepth = 4
  Funs <- MCFuns
  Gen = gen
  Objs <- MCObjs
  Owner <- MCOwner
  Global = global
  External = external
  Params <- MCParams
  Members <- MCMembers
  Arrays <- MCArrays
  Programs <- MCPrograms
  Ext <- MCExt
  ExtReads <- MCExtReads
  ExtWrites <- MCExtWrites
  Select <- MCSelect
  Codes <- MCCodes
  NoCode <- MCNoCode
  Rest = rest
  PositionSets <- MCPositionSets
  IdSets <- MCIdSets
INVARIANT CallsAreCovered
CHECK_DEADLOCK FALSE

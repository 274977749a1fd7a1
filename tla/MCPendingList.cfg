SPECIFICATION FairSpec
CONSTANTS
  f = f
  g = g
  a = a
  b = b
  v0 = v0
  v1 = v1
  Funs <- MCFuns
  Points <- MCPoints
  Objs <- MCObjs
  Vals <- MCVals
  InitVal <- v0
  MemoSet <- MCMemoSet
  First <- MCFirst
  Unfold <- MCUnfold
  MaxCalls = 2
INVARIANTS
  TypeOK
  FlagSound
  LabelsAreSound
PROPERTIES
  ResumeFaithful
  Terminates
  ImplementsPolyvariant
CHECK_DEADLOCK FALSE

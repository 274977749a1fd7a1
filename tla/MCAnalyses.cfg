SPECIFICATION AnalysesSpec
CONSTANTS
  va = va
  vh = vh
  vp = vp
  vq = vq
  vpp = vpp
  vs = vs
  vt = vt
  vsm = vsm
  vtm = vtm
  vsp = vsp
  vx = vx
  vfp = vfp
  vf = vf
  Objs <- MCObjs
  Funs <- MCFuns
  Members <- MCMembers
  Param <- MCParam
  Stmts <- MCStmts
  Programs <- MCPaPrograms
  Null = null
  MaxStmts = 4
  MaxRequests = 4
  Types <- MCTypes
  SubTypes <- MCSubTypes
  BtVars <- MCBtVars
  Var <- MCVar
  Dynamic = "dynamic"
  Requests <- MCRequests
  RequestSets <- MCRequestSets
  NoCause <- MCNoCause
INVARIANTS
  AnalysisCovers
  SolutionIsLeast
  CausesAreKept
  ResidualBehaves
  ExitsAgree
PROPERTIES
  ImplementsSolver
  TraceEnds
CHECK_DEADLOCK FALSE

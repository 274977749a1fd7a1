SPECIFICATION FrontEndSpec
CONSTANTS
  Variables <- MCVariables
  Address <- MCAddress
  Memories <- MCMemories
  Parts <- MCParts
  MaxLevel = 2
  KnownLimit = 3
  Limit = 6
INVARIANTS
  NamesMeanTheirEntity
  DeclarationsAreComplete
  OnlyConflictsAreRejected
  ValuesSurvive
  InitializersKeepPlace
  BehavesAsC
CHECK_DEADLOCK FALSE

SPECIFICATION Spec
CONSTANTS
  MaxPwd = 2
  Chunks <- MCChunks
  Alias <- MCAlias
  Paths <- MCPaths
  NewNames <- MCNewNames
  SlotsPerSector = 4
  MaxNodes = 4
INVARIANTS ScansAgree DotDotLeadsBack
PROPERTIES TreeSpec
CHECK_DEADLOCK FALSE

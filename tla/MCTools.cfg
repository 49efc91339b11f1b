CONSTANTS
  a = a
  b = b
  c = c
  Paths <- MCPaths
  Pieces = 2
SPECIFICATION TSpec
INVARIANT SuccessIsDurable
PROPERTIES
  OutputAfterInputs
  ToolEnds
CHECK_DEADLOCK FALSE

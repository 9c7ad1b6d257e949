CONSTANTS
  x = x
  y = y
  Data = {x, y}
  NoData = x
  Tags = {"v1"}
  MaxInputs = 5
  Paths <- MCPaths
  IgnoreFile <- MCIgnoreFile
  Ignores <- MCIgnores
SPECIFICATION GitSpec
INVARIANTS
  ObjectsReachable
  CleanMeansSaved
PROPERTY
  HistoryKept

CONSTANTS
  Keys = {"root", "a", "b"}
  Values = {"v1", "v2"}
  Slashed <- MCSlashed
  Paths <- MCPaths
  Options <- MCOptions
  Cut <- MCCut
  MaxFaults = 0
  MaxCalls = 2
SPECIFICATION Spec
PROPERTIES CreatedIsThere
CHECK_DEADLOCK FALSE

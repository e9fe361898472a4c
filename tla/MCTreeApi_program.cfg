CONSTANTS
  Keys = {"root", "a", "b"}
  Values = {"v1", "v2"}
  Slashed <- MCSlashed
  Paths <- MCPaths
  Options <- MCOptions
  Cut <- MCCut
  MaxFaults = 1
  MaxCalls = 3
SPECIFICATION Spec
INVARIANTS TypeOK ReadsBack DumpShowsTree DeletesEachNodeOnce
PROPERTIES WalkIsComplete
\* The calls are used up, or the tree is deleted.
CHECK_DEADLOCK FALSE

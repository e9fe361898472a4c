CONSTANTS
  Files = {1, 2}
  Kinds <- MCFewKinds
  Configs <- MCFewConfigs
  Enabled = {"JSON", "ENV"}
  Directories <- MCDirectories
  MaxLocations = 1
  MaxFaults = 0
SPECIFICATION Spec
INVARIANT OKMeansNothingFailed
CHECK_DEADLOCK FALSE

CONSTANTS
  Keys = {"root", "config", "a", "b", "a/b"}
  Values = {"v1", "v2"}
  Slashed <- MCSlashed
  Sources <- MCAllSources
  MaxFaults = 0
  MaxBatch = 2
  MaxBatches = 1
SPECIFICATION Spec
PROPERTIES OptionsReadBack
CHECK_DEADLOCK FALSE

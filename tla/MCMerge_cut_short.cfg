CONSTANTS
  Keys = {"root", "config", "a", "b", "a/b"}
  Values = {"v1", "v2"}
  Slashed <- MCSlashed
  Sources <- MCAllSources
  MaxFaults = 1
  MaxBatch = 2
  MaxBatches = 2
SPECIFICATION Spec
PROPERTIES UnsignedNeverOverwritesSigned
CHECK_DEADLOCK FALSE

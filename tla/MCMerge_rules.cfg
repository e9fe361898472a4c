CONSTANTS
  Keys = {"root", "config", "a", "b", "a/b"}
  Values = {"v1", "v2"}
  Slashed <- MCSlashed
  Sources <- MCSources
  MaxFaults = 0
  MaxBatch = 3
  MaxBatches = 1
SPECIFICATION FairSpec
INVARIANTS MergedKeysUnique
PROPERTIES UnsignedNeverOverwritesSigned BatchReturns MergesAsOneStep
CHECK_DEADLOCK FALSE

CONSTANTS
  Keys = {"root", "config", "a", "b", "a/b"}
  Values = {"v1", "v2"}
  Slashed <- MCSlashed
  Sources <- MCAllSources
  MaxFaults = 1
  MaxBatch = 2
  MaxBatches = 2
SPECIFICATION Spec
INVARIANTS TypeOK MergedIsTree SignedIsLocked MarkIsHonest
PROPERTIES SignedOnlyBySigned PathsAreStable
CHECK_DEADLOCK FALSE

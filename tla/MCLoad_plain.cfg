CONSTANTS
  Files = {1, 2, 3}
  Kinds <- MCKinds
  Configs <- MCConfigs
  Enabled = {"JSON", "ENV"}
  Directories <- MCDirectories
  MaxLocations = 2
  MaxFaults = 0
SPECIFICATION Spec
INVARIANTS SignedWasVerifiedOrUnread MergedInOrder StatusIgnoresOrder StatusIsTrue
\* The call returns and the program goes on without samconf.
CHECK_DEADLOCK FALSE

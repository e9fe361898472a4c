CONSTANTS
  Files = {1, 2}
  Kinds <- MCFewKinds
  Configs <- MCFewConfigs
  Enabled = {"JSON", "ENV"}
  Directories <- MCDirectories
  MaxLocations = 2
  MaxFaults = 2
SPECIFICATION FairSpec
INVARIANTS TypeOK LoadOwnsWhatItMade EnforcedIsSigned SignedThenOnlySigned 
 
\* The call returns and the program goes on without samconf.
CHECK_DEADLOCK FALSE

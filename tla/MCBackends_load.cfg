CONSTANTS
  Keys = {"root", "config", "a", "b", "c", "d", "A", "B", "_", "0", "1", "2", "3", "4"}
  Values = {"s", "big", "max"}
  Slashed <- MCSlashed
  IndexKeys <- MCIndexKeys
  Clamp <- MCClamp
  Names <- MCNames
  Containing <- MCContaining
  NoFile = NoFile
  BadFile = BadFile
  JsonFiles <- MCJsonFiles
  EnvLocations <- MCEnvLocations
  MaxValues = 4
  MaxFaults = 2
SPECIFICATION FairSpec
INVARIANTS TypeOK LoadedIsTree JsonOKIsWhole DumpReadsBack FirstVariableWins NodesAreOwned OnlyFailuresSpoil
PROPERTIES ImplementsConfigLoad LoadEnds
\* The location is loaded, or the process has crashed.
CHECK_DEADLOCK FALSE

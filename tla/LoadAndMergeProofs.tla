-------------------------- MODULE LoadAndMergeProofs ---------------------------
(***************************************************************************)
(* Theorems about LoadAndMerge, for every set of files and directories,    *)
(* every list of locations and every number of failures.                   *)
(***************************************************************************)
EXTENDS LoadAndMerge, FiniteSetTheorems, TLAPS

(* The steps of samconfLoad before, at and after the signature's gate. *)
PastGate == {"LOOKUP", "OPEN", "LOAD", "CLOSE", "DELETE"}

(* What a step of samconfLoad leaves alone. *)
LEMMA LoadFrame ==
  ASSUME LoadTypeOK, LoadNext
  PROVE  /\ load.pc \in Steps /\ load'.pc \in Steps \cup {"DONE"}
         /\ load'.file = load.file /\ load'.enforce = load.enforce
         /\ UNCHANGED disk
         /\ Fault \/ UNCHANGED faults
<1> USE DEF LoadTypeOK, Steps, At, Goto, Gate
<1>1. CASE FindSignature \/ FindSignatureFails
  BY <1>1 DEF FindSignature, FindSignatureFails
<1>2. CASE ReadData \/ ReadDataFails
  BY <1>2 DEF ReadData, ReadDataFails
<1>3. CASE Verify \/ VerifyFails
  BY <1>3 DEF Verify, VerifyFails
<1>4. CASE LookupBackend \/ LookupFails
  BY <1>4 DEF LookupBackend, LookupFails
<1>5. CASE Open \/ OpenRefused \/ OpenFails
  BY <1>5 DEF Open, OpenRefused, OpenFails
<1>6. CASE LoadTree \/ LoadFails \/ LoadCutShort
  BY <1>6 DEF LoadTree, LoadFails, LoadCutShort
<1>7. CASE Close \/ CloseFails \/ Delete
  BY <1>7 DEF Close, CloseFails, Delete
<1> QED BY <1>1, <1>2, <1>3, <1>4, <1>5, <1>6, <1>7 DEF LoadNext

(* A fault uses up one of those that may happen. *)
LEMMA FaultType ==
  ASSUME faults \in 0..MaxFaults, Fault \/ UNCHANGED faults
  PROVE  faults' \in 0..MaxFaults
BY LoadAssumption DEF Fault

LEMMA GotoTypes ==
  ASSUME LoadTypeOK, load.pc \in Steps, UNCHANGED disk,
         live' \subseteq {"backend", "handle", "tree"}, faults' \in 0..MaxFaults,
         NEW pc \in Steps \cup {"DONE"}, NEW status \in Statuses, Goto(pc, status)
  PROVE  LoadTypeOK'
BY DEF LoadTypeOK, Steps, Goto

LEMMA GateTypes ==
  ASSUME LoadTypeOK, load.pc \in Steps, UNCHANGED <<disk, live>>, faults' \in 0..MaxFaults,
         NEW status \in Statuses, Gate(status)
  PROVE  LoadTypeOK'
<1>1. CASE status = "OK" \/ (status = "SIGNATURE_NOT_FOUND" /\ ~load.enforce)
  <2>1. (status = "OK") \in BOOLEAN
    OBVIOUS
  <2> QED BY <1>1, <2>1 DEF LoadTypeOK, Steps, Gate
<1>2. CASE ~(status = "OK" \/ (status = "SIGNATURE_NOT_FOUND" /\ ~load.enforce))
  BY <1>2, GotoTypes DEF Gate, LoadTypeOK
<1> QED BY <1>1, <1>2

LEMMA LoadTypes ==
  ASSUME LoadTypeOK, LoadNext
  PROVE  LoadTypeOK'
<1>0. load.status \in Statuses /\ faults \in 0..MaxFaults /\ live \subseteq {"backend", "handle", "tree"}
  BY DEF LoadTypeOK
<1> USE DEF At, Steps, Statuses
<1>1. CASE FindSignature \/ FindSignatureFails \/ ReadDataFails \/ Verify \/ VerifyFails
  <2>1. /\ load.pc \in Steps /\ UNCHANGED <<disk, live>> /\ faults' \in 0..MaxFaults
    BY <1>0, <1>1, FaultType
       DEF FindSignature, FindSignatureFails, ReadDataFails, Verify, VerifyFails
  <2>2. \/ \E status \in Statuses : Gate(status)
        \/ \E pc \in Steps, status \in Statuses : Goto(pc, status)
    BY <1>0, <1>1
       DEF FindSignature, FindSignatureFails, ReadDataFails, Verify, VerifyFails
  <2> QED BY <1>0, <2>1, <2>2, GateTypes, GotoTypes
<1>5. CASE ReadData
  BY <1>5 DEF ReadData, LoadTypeOK
<1>2. CASE LookupBackend \/ LookupFails
  <2>1. \A b : Claims(b) => b \in {"JSON", "ENV"}
    BY LoadAssumption DEF Claims
  <2>2. CASE LookupBackend
    BY <2>1, <2>2 DEF LookupBackend, LoadTypeOK
  <2>3. CASE LookupFails
    BY <1>0, <2>3, FaultType, GotoTypes DEF LookupFails
  <2> QED BY <1>2, <2>2, <2>3
<1>3. CASE Open \/ OpenRefused \/ OpenFails \/ LoadTree \/ LoadFails \/ LoadCutShort
  <2>1. /\ load.pc \in Steps /\ UNCHANGED disk /\ faults' \in 0..MaxFaults
        /\ live' \subseteq {"backend", "handle", "tree"}
    BY <1>0, <1>3, FaultType
       DEF Open, OpenRefused, OpenFails, LoadTree, LoadFails, LoadCutShort
  <2>2. \E pc \in Steps, status \in Statuses : Goto(pc, status)
    BY <1>3 DEF Open, OpenRefused, OpenFails, LoadTree, LoadFails, LoadCutShort
  <2> QED BY <2>1, <2>2, GotoTypes
<1>4. CASE Close \/ CloseFails \/ Delete
  <2>1. /\ load.pc \in Steps /\ UNCHANGED disk /\ faults' \in 0..MaxFaults
        /\ live' \subseteq {"backend", "handle", "tree"}
    BY <1>0, <1>4, FaultType DEF Close, CloseFails, Delete
  <2>2. \E pc \in Steps \cup {"DONE"}, status \in Statuses : Goto(pc, status)
    BY <1>0, <1>4 DEF Close, CloseFails, Delete
  <2> QED BY <2>1, <2>2, GotoTypes
<1> QED BY <1>1, <1>2, <1>3, <1>4, <1>5 DEF LoadNext

-------------------------------------------------------------------------------
(* The types of the variables of the call. *)
CallType == call \in [pc : {"IDLE", "RUN", "DONE", "CRASHED"}, locations : Seq(Locations),
                      at : Nat \ {0}, status : Statuses]
DirType == dir \in [files : Seq(Files), at : Nat, result : Statuses]
HistoryTypes == outcomes \subseteq Statuses /\ entries \subseteq Statuses /\ tried \subseteq Statuses
MergedType == merged \in Seq(Entry)

OwnTypes ==
  /\ CallType /\ DirType /\ HistoryTypes /\ MergedType
  /\ mergedSigned \in BOOLEAN /\ cut \in BOOLEAN /\ damaged \in BOOLEAN

LEMMA TypeParts ==
  /\ TypeOK <=> LoadTypeOK /\ OwnTypes
  /\ TypeOK' <=> LoadTypeOK' /\ OwnTypes'
BY DEF TypeOK, OwnTypes, CallType, DirType, HistoryTypes, MergedType

LEMMA LocationType ==
  ASSUME CallType, Running
  PROVE  /\ Location \in Locations
         /\ Location.enforce \in BOOLEAN
         /\ Location.type = "PATH" => Location.path \in Files \cup DOMAIN Directories \cup {NullPath}
         /\ Location.config \in Configs \cup {NullConfig}
<1>1. Location \in Locations
  BY DEF CallType, Running, Location
<1>2. CASE \E p \in Files \cup DOMAIN Directories \cup {NullPath}, e \in BOOLEAN :
             Location = PathAt(p, e)
  BY <1>1, <1>2 DEF PathAt
<1>3. CASE \E c \in Configs \cup {NullConfig} : Location = ConfigAt(c)
  BY <1>1, <1>3 DEF ConfigAt
<1>4. CASE Location = InvalidLocation
  BY <1>1, <1>4 DEF InvalidLocation
<1> QED BY <1>1, <1>2, <1>3, <1>4 DEF Locations

(* What is merged: a configuration of the caller, or what was loaded. *)
LEMMA EntryTypes ==
  ASSUME CallType, LoadTypeOK
  PROVE  /\ LoadedEntry \in Entry
         /\ ConfigGiven => GivenEntry \in Entry
<1>1. call.at \in Nat
  BY DEF CallType
<1>2. LoadedEntry \in Entry
  BY <1>1 DEF LoadedEntry, Entry, LoadTypeOK
<1>3. ASSUME ConfigGiven PROVE GivenEntry \in Entry
  <2>1. Location.config \in Configs
    BY <1>3, LocationType DEF ConfigGiven, AtLocation
  <2>2. Location.config.signed \in BOOLEAN
    BY <2>1, ConfigsAssumption DEF Config
  <2> QED BY <1>1, <2>2 DEF GivenEntry, Entry
<1> QED BY <1>2, <1>3

LEMMA NoLoadType ==
  ASSUME LoadTypeOK, load' = NoLoad, UNCHANGED disk,
         live' \subseteq live, faults' \in 0..MaxFaults
  PROVE  LoadTypeOK'
BY DEF LoadTypeOK, NoLoad, Statuses

LEMMA LoadCallType ==
  ASSUME LoadTypeOK, NEW file \in Files, NEW enforce \in BOOLEAN,
         LoadCall(file, enforce), UNCHANGED <<disk, live, faults>>
  PROVE  LoadTypeOK'
BY DEF LoadTypeOK, LoadCall, NoLoad, Statuses, Steps

LEMMA FoldType ==
  ASSUME NEW status \in Statuses, NEW res \in Statuses
  PROVE  WorstStatus(status, res) \in Statuses /\ BestStatus(status, res) \in Statuses
BY DEF WorstStatus, BestStatus

LEMMA EndLocationTypes ==
  ASSUME CallType, HistoryTypes, NEW res \in Statuses, EndLocation(res)
  PROVE  CallType' /\ outcomes' \subseteq Statuses
<1>1. call.status \in Statuses /\ call.at + 1 \in Nat \ {0}
  BY DEF CallType
<1>2. WorstStatus(call.status, res) \in Statuses
  BY <1>1, FoldType
<1> QED BY <1>1, <1>2 DEF EndLocation, CallType, HistoryTypes

LEMMA EndConfigTypes ==
  ASSUME CallType, DirType, HistoryTypes, NEW res \in Statuses, EndConfig(res)
  PROVE  CallType' /\ DirType' /\ HistoryTypes'
<1>1. CASE InDirectory
  <2>1. dir.result \in Statuses /\ dir.at + 1 \in Nat
    BY DEF DirType
  <2>2. BestStatus(dir.result, res) \in Statuses
    BY <2>1, FoldType
  <2> QED BY <1>1, <2>1, <2>2 DEF EndConfig, CallType, DirType, HistoryTypes
<1>2. CASE ~InDirectory
  <2>1. CallType' /\ outcomes' \subseteq Statuses
    BY <1>2, EndLocationTypes DEF EndConfig
  <2> QED BY <1>2, <2>1 DEF EndConfig, DirType, HistoryTypes
<1> QED BY <1>1, <1>2

(* All ways in which a configuration is merged. *)
Merges(entry) ==
  \/ MergeIn(entry, "WHOLE")
  \/ StopShort(entry, "OK") /\ UNCHANGED damaged
  \/ Fault /\ MergeInFails(entry)

LEMMA MergeInShape ==
  ASSUME NEW entry, NEW shape, MergeIn(entry, shape)
  PROVE  MergeIn(entry, "WHOLE")
BY DEF MergeIn

LEMMA MergesEffect ==
  ASSUME NEW entry, Merges(entry)
  PROVE  \/ EndConfig("OVERWRITE_NOT_ALLOWED") /\ UNCHANGED <<merged, mergedSigned, cut, damaged>>
         \/ /\ \E res \in {"OK", "ERROR"} : EndConfig(res) /\ (res = "OK" \/ Fault)
            /\ merged' = Append(merged, entry)
            /\ mergedSigned => entry.signed
            /\ \/ mergedSigned' = (mergedSigned \/ entry.signed) /\ UNCHANGED cut
               \/ UNCHANGED mergedSigned /\ cut' = (cut \/ entry.signed)
            /\ damaged' = damaged \/ (Fault /\ damaged' = TRUE)
BY DEF Merges, MergeIn, StopShort, MergeInFails, Admitted

LEMMA MergeInTypes ==
  ASSUME TypeOK, NEW entry \in Entry, Merges(entry)
  PROVE  OwnTypes'
<1> USE TypeParts DEF OwnTypes
<1>1. \E res \in Statuses : EndConfig(res)
  BY MergesEffect DEF Statuses
<1>2. CallType' /\ DirType' /\ HistoryTypes'
  BY <1>1, EndConfigTypes
<1>3. MergedType'
  <2>1. UNCHANGED merged \/ merged' = Append(merged, entry)
    BY MergesEffect
  <2> QED BY <2>1 DEF MergedType
<1>4. mergedSigned' \in BOOLEAN /\ cut' \in BOOLEAN /\ damaged' \in BOOLEAN
  <2>1. entry.signed \in BOOLEAN
    BY DEF Entry
  <2> QED BY <2>1, MergesEffect, Zenon
<1> QED BY <1>2, <1>3, <1>4

(* The ends of the process.  They leave everything where it was. *)
Crashes == MergeGivenCrashes \/ EntryCrashes \/ LoadCrashes \/ MergeLoadedCrashes

LEMMA CrashEffect ==
  ASSUME TypeOK, Crashes
  PROVE  /\ call.pc = "RUN" /\ call'.pc = "CRASHED"
         /\ call'.at = call.at /\ call'.locations = call.locations /\ call'.status = call.status
         /\ UNCHANGED <<disk, load, live, dir, mergedSigned>> /\ UNCHANGED historyVars
         /\ Fault \/ UNCHANGED faults
<1>1. Crash /\ call.pc = "RUN" /\ (Fault \/ UNCHANGED faults)
  BY DEF Crashes, MergeGivenCrashes, EntryCrashes, LoadCrashes, MergeLoadedCrashes, MergeCrashes,
         ConfigGiven, AtLocation, Running, LoadEnded
<1> QED BY <1>1 DEF Crash, TypeOK

(* The names of a directory are some sequence of its files. *)
LEMMA FilesOfDirectory ==
  ASSUME NEW d \in DOMAIN Directories, NEW files \in SetToSeqs(Directories[d])
  PROVE  files \in Seq(Files)
<1>1. Directories[d] \subseteq Files /\ IsFiniteSet(Directories[d])
  BY DirectoriesAssumption
<1>2. Cardinality(Directories[d]) \in Nat
  BY <1>1, FS_CardinalityType
<1>3. files \in [1..Cardinality(Directories[d]) -> Files]
  BY <1>1 DEF SetToSeqs
<1> QED BY <1>2, <1>3

LEMMA InitType == Init => TypeOK
<1> SUFFICES ASSUME Init PROVE TypeOK
  OBVIOUS
<1>1. LoadTypeOK
  BY LoadAssumption DEF Init, LoadInit, LoadTypeOK, NoLoad, Statuses
<1>2. CallType /\ DirType
  BY DEF Init, CallType, DirType, NoDir, Statuses
<1>3. HistoryTypes /\ MergedType
  BY DEF Init, HistoryTypes, MergedType
<1>4. mergedSigned \in BOOLEAN /\ cut \in BOOLEAN /\ damaged \in BOOLEAN
  BY Zenon DEF Init
<1> QED BY <1>1, <1>2, <1>3, <1>4, TypeParts DEF OwnTypes

LEMMA NextType == TypeOK /\ [Next]_vars => TypeOK'
<1> SUFFICES ASSUME TypeOK, [Next]_vars PROVE TypeOK'
  OBVIOUS
<1> USE TypeParts DEF OwnTypes
<1>0. faults \in 0..MaxFaults
  BY DEF LoadTypeOK
<1>1. CASE CallLoadAndMerge
  <2>1. PICK locations \in UNION {[1..k -> Locations] : k \in 0..MaxLocations} :
          call' = [call EXCEPT !.pc = "RUN", !.locations = locations]
    BY <1>1 DEF CallLoadAndMerge
  <2>2. locations \in Seq(Locations)
    BY MaxLocationsAssumption
  <2>3. CallType'
    BY <2>1, <2>2 DEF CallType
  <2> QED
    BY <1>1, <2>3 DEF CallLoadAndMerge, loadVars, historyVars, LoadTypeOK, DirType, HistoryTypes, MergedType
<1>2. CASE CallFails
  <2>1. CallType' /\ faults' \in 0..MaxFaults
    BY <1>0, <1>2, FaultType DEF CallFails, CallType, Statuses
  <2> QED
    BY <1>2, <2>1 DEF CallFails, historyVars, LoadTypeOK, DirType, HistoryTypes, MergedType
<1>3. CASE SkipLocation \/ Return
  <2>1. CallType'
    BY <1>3 DEF SkipLocation, Return, CallType
  <2> QED
    BY <1>3, <2>1 DEF SkipLocation, Return, loadVars, historyVars, LoadTypeOK, DirType, HistoryTypes, MergedType
<1>4. CASE NoPathGiven \/ ListFails
  <2>1. \E res \in Statuses : EndLocation(res)
    BY <1>4 DEF NoPathGiven, ListFails, Statuses
  <2>2. CallType' /\ outcomes' \subseteq Statuses
    BY <2>1, EndLocationTypes
  <2>3. LoadTypeOK'
    BY <1>0, <1>4, FaultType DEF NoPathGiven, ListFails, loadVars, LoadTypeOK
  <2> QED
    BY <1>4, <2>2, <2>3 DEF NoPathGiven, ListFails, DirType, HistoryTypes, MergedType
<1>5. CASE NoConfigGiven \/ OpendirFails \/ NotLoaded
  <2>1. \E res \in Statuses : EndConfig(res)
    BY <1>5 DEF NoConfigGiven, OpendirFails, NotLoaded, Statuses, LoadTypeOK
  <2>2. CallType' /\ DirType' /\ HistoryTypes'
    BY <2>1, EndConfigTypes
  <2>3. CASE NoConfigGiven \/ OpendirFails
    BY <1>0, <2>2, <2>3, FaultType
       DEF NoConfigGiven, OpendirFails, loadVars, LoadTypeOK, MergedType
  <2>4. CASE NotLoaded
    BY <1>0, <2>2, <2>4, NoLoadType DEF NotLoaded, MergedType
  <2> QED BY <1>5, <2>3, <2>4
<1>6. CASE MergeGiven \/ MergeGivenStops \/ MergeGivenFails
  <2>1. GivenEntry \in Entry /\ Merges(GivenEntry)
    BY <1>6, EntryTypes, MergeInShape
       DEF MergeGiven, MergeGivenStops, MergeGivenFails, ConfigGiven, Merges
  <2>2. LoadTypeOK'
    BY <1>0, <1>6, FaultType
       DEF MergeGiven, MergeGivenStops, MergeGivenFails, loadVars, LoadTypeOK
  <2> QED BY <2>1, <2>2, MergeInTypes
<1>7. CASE MergeLoaded \/ MergeLoadedFails
  <2>1. LoadedEntry \in Entry /\ Merges(LoadedEntry)
    BY <1>7, EntryTypes, MergeInShape DEF MergeLoaded, MergeLoadedFails, Merges
  <2>2. LoadTypeOK'
    BY <1>0, <1>7, FaultType, NoLoadType DEF MergeLoaded, MergeLoadedFails
  <2> QED BY <2>1, <2>2, MergeInTypes
<1>8. CASE OpenDirectory
  <2>1. PICK files \in SetToSeqs(Directories[Location.path]) :
          dir' = [files |-> files, at |-> 1, result |-> "NOT_FOUND"]
    BY <1>8 DEF OpenDirectory
  <2>2. files \in Seq(Files)
    BY <1>8, <2>1, FilesOfDirectory DEF OpenDirectory
  <2>3. DirType'
    BY <2>1, <2>2 DEF DirType, Statuses
  <2> QED
    BY <1>8, <2>3 DEF OpenDirectory, loadVars, LoadTypeOK, CallType, HistoryTypes, MergedType
<1>9. CASE LoadFile \/ LoadEntry
  <2>1. Location.enforce \in BOOLEAN
    BY <1>9, LocationType DEF LoadFile, LoadEntry, AtLocation
  <2>2. dir.at \in 1..Len(dir.files) => dir.files[dir.at] \in Files
    BY DEF DirType
  <2>3. \E file \in Files : LoadCall(file, Location.enforce)
    BY <1>9, <2>2 DEF LoadFile, LoadEntry, InDirectory, DirType
  <2>4. LoadTypeOK'
    BY <1>9, <2>1, <2>3, LoadCallType DEF LoadFile, LoadEntry
  <2> QED
    BY <1>9, <2>4 DEF LoadFile, LoadEntry, ownVars, historyVars, CallType, DirType, HistoryTypes, MergedType
<1>10. CASE Loading
  BY <1>10, LoadTypes DEF Loading, ownVars, historyVars, CallType, DirType, HistoryTypes, MergedType
<1>11. CASE CloseDirectory
  <2>1. CallType' /\ outcomes' \subseteq Statuses
    BY <1>11, EndLocationTypes DEF CloseDirectory, DirType
  <2>2. DirType'
    BY <1>11 DEF CloseDirectory, DirType, NoDir, Statuses
  <2> QED
    BY <1>11, <2>1, <2>2 DEF CloseDirectory, loadVars, LoadTypeOK, HistoryTypes, MergedType
<1>13. CASE Crashes
  <2>1. /\ Crash
        /\ Fault \/ UNCHANGED faults
    BY <1>13, CrashEffect
       DEF Crashes, MergeGivenCrashes, EntryCrashes, LoadCrashes, MergeLoadedCrashes, MergeCrashes
  <2>2. CallType' /\ faults' \in 0..MaxFaults
    BY <1>0, <2>1, FaultType DEF Crash, CallType
  <2> QED
    BY <2>1, <2>2 DEF Crash, historyVars, LoadTypeOK, DirType, HistoryTypes, MergedType
<1>12. CASE UNCHANGED vars
  BY <1>12
     DEF vars, loadVars, ownVars, historyVars, LoadTypeOK, CallType, DirType, HistoryTypes, MergedType
<1> QED
  BY <1>1, <1>2, <1>3, <1>4, <1>5, <1>6, <1>7, <1>8, <1>9, <1>10, <1>11, <1>12, <1>13
     DEF Next, Crashes

(* The variables of samconfLoadAndMerge, of the directory and file it is at, *)
(* and of what was merged keep their types.                                  *)
THEOREM TypeCorrect == Spec => []TypeOK
BY InitType, NextType, PTL DEF Spec

-------------------------------------------------------------------------------
(* The names of a directory, each once, as _cmp has them sorted. *)
Ascends(files) == \A i, j \in DOMAIN files : i < j => files[i] < files[j]

LEMMA CmpIsOrder ==
  ASSUME NEW d \in DOMAIN Directories, NEW files \in SetToSeqs(Directories[d]), Sorted(files)
  PROVE  Ascends(files)
<1> SUFFICES ASSUME NEW i \in DOMAIN files, NEW j \in DOMAIN files, i < j
             PROVE  files[i] < files[j]
  BY DEF Ascends
<1>1. files \in Seq(Files)
  BY FilesOfDirectory
<1>2. files[i] \in Nat /\ files[j] \in Nat
  <2>1. files[i] \in Files /\ files[j] \in Files
    BY <1>1
  <2> QED BY <2>1, LoadAssumption
<1>3. files[i] # files[j]
  <2>1. i # j
    BY <1>1
  <2> QED BY <2>1 DEF SetToSeqs
<1>4. -(files[j] - files[i]) <= 0
  BY DEF Sorted, Cmp, Strncmp
<1> QED BY <1>2, <1>3, <1>4

(* Where the call is: a file is loaded for the location, or for the entry of  *)
(* its directory, that the loops are at; and nothing runs outside a call, but *)
(* one that ended the process left its work behind.                           *)
InControl ==
  /\ call.pc \in {"IDLE", "DONE"} => load.pc = "IDLE" /\ ~InDirectory
  /\ call.pc = "IDLE" => merged = <<>> /\ tried = {} /\ call.status = "NOT_FOUND"
  /\ load.pc # "IDLE" /\ call.pc # "CRASHED" =>
       /\ Running /\ Location.type = "PATH" /\ load.enforce = Location.enforce
       /\ InDirectory => dir.at <= Len(dir.files) /\ load.file = dir.files[dir.at]
       /\ ~InDirectory => load.file = Location.path
  /\ InDirectory /\ call.pc # "CRASHED" =>
       Running /\ Location.type = "PATH" /\ Ascends(dir.files)

LEMMA InitControl == Init => InControl
BY DEF Init, LoadInit, NoLoad, NoDir, InControl, InDirectory

(* A location, or the file of a directory, that is done leaves no call behind. *)
LEMMA EndConfigControl ==
  ASSUME TypeOK, InControl, call.pc = "RUN", NEW res, EndConfig(res), load'.pc = "IDLE"
  PROVE  InControl'
<1>1. CASE InDirectory
  <2>1. UNCHANGED call /\ dir'.files = dir.files /\ dir'.at = dir.at + 1 /\ dir.at \in Nat
    BY <1>1 DEF EndConfig, TypeOK
  <2> QED BY <1>1, <2>1 DEF InControl, InDirectory, Running, Location
<1>2. CASE ~InDirectory
  <2>1. UNCHANGED dir /\ call'.pc = "RUN"
    BY <1>2 DEF EndConfig, EndLocation, TypeOK
  <2> QED BY <1>2, <2>1 DEF InControl, InDirectory
<1> QED BY <1>1, <1>2

LEMMA NextControl == TypeOK /\ InControl /\ [Next]_vars => InControl'
<1> SUFFICES ASSUME TypeOK, InControl, [Next]_vars PROVE InControl'
  OBVIOUS
<1>1. CASE CallLoadAndMerge \/ CallFails
  BY <1>1 DEF CallLoadAndMerge, CallFails, loadVars, historyVars, InControl, InDirectory, TypeOK
<1>2. CASE SkipLocation \/ NoPathGiven \/ ListFails
  <2>1. UNCHANGED <<load, dir>> /\ call'.pc = "RUN" /\ load.pc = "IDLE" /\ ~InDirectory
    BY <1>2 DEF SkipLocation, NoPathGiven, ListFails, AtLocation, Running, EndLocation, loadVars, TypeOK
  <2> QED BY <2>1 DEF InControl, InDirectory
<1>3. CASE NoConfigGiven \/ OpendirFails
  <2>1. \E res : EndConfig(res)
    BY <1>3 DEF NoConfigGiven, OpendirFails
  <2>2. UNCHANGED load /\ load.pc = "IDLE" /\ call.pc = "RUN"
    BY <1>3 DEF NoConfigGiven, OpendirFails, AtLocation, Running, loadVars
  <2> QED BY <2>1, <2>2, EndConfigControl
<1>4. CASE MergeGiven \/ MergeGivenStops \/ MergeGivenFails
  <2>1. \E res : EndConfig(res)
    BY <1>4 DEF MergeGiven, MergeGivenStops, MergeGivenFails, MergeIn, StopShort, MergeInFails
  <2>2. UNCHANGED load /\ load.pc = "IDLE" /\ call.pc = "RUN"
    BY <1>4
       DEF MergeGiven, MergeGivenStops, MergeGivenFails, ConfigGiven, AtLocation, Running, loadVars
  <2> QED BY <2>1, <2>2, EndConfigControl
<1>5. CASE NotLoaded \/ MergeLoaded \/ MergeLoadedFails
  <2>1. \E res : EndConfig(res)
    BY <1>5 DEF NotLoaded, MergeLoaded, MergeLoadedFails, MergeIn, StopShort, MergeInFails
  <2>2. load'.pc = "IDLE" /\ call.pc = "RUN"
    BY <1>5 DEF NotLoaded, MergeLoaded, MergeLoadedFails, LoadEnded, NoLoad
  <2> QED BY <2>1, <2>2, EndConfigControl
<1>6. CASE OpenDirectory
  <2>1. Running' /\ Location'.type = "PATH" /\ UNCHANGED <<call, load>> /\ load.pc = "IDLE"
    BY <1>6 DEF OpenDirectory, AtLocation, Running, Location, loadVars
  <2>2. Ascends(dir'.files)
    BY <1>6, CmpIsOrder DEF OpenDirectory
  <2> QED BY <2>1, <2>2 DEF InControl, Running, Ascends
<1>7. CASE LoadFile \/ LoadEntry
  <2>1. /\ UNCHANGED <<call, dir, merged, tried>> /\ Running
        /\ load'.enforce = Location.enforce /\ load'.pc = "SIGNATURE"
    BY <1>7 DEF LoadFile, LoadEntry, AtLocation, LoadCall, NoLoad, ownVars, historyVars
  <2>2. CASE LoadFile
    BY <2>1, <2>2 DEF LoadFile, AtLocation, LoadCall, NoLoad, InControl, InDirectory, Running, Location
  <2>3. CASE LoadEntry
    BY <2>1, <2>3 DEF LoadEntry, LoadCall, NoLoad, InControl, InDirectory, Running, Location
  <2> QED BY <1>7, <2>2, <2>3
<1>8. CASE Loading
  <2>1. LoadTypeOK
    BY DEF TypeOK
  <2>2. load.pc # "IDLE" /\ load'.file = load.file /\ load'.enforce = load.enforce /\ call.pc = "RUN"
    BY <1>8, <2>1, LoadFrame DEF Loading, Steps
  <2> QED
    BY <1>8, <2>2
       DEF Loading, ownVars, historyVars, InControl, InDirectory, Running, Location, Ascends
<1>9. CASE CloseDirectory
  <2>1. /\ UNCHANGED load /\ load.pc = "IDLE" /\ call.pc = "RUN" /\ call'.pc = "RUN"
        /\ dir' = NoDir
    BY <1>9 DEF CloseDirectory, Running, EndLocation, loadVars, TypeOK
  <2> QED BY <2>1 DEF InControl, InDirectory, NoDir
<1>10. CASE Return
  <2>1. UNCHANGED <<load, dir>> /\ call'.pc = "DONE" /\ call.pc = "RUN" /\ ~Running
    BY <1>10 DEF Return, Running, loadVars, TypeOK
  <2> QED BY <2>1 DEF InControl, InDirectory
<1>12. CASE Crashes
  <2>1. call'.pc = "CRASHED"
    BY <1>12, CrashEffect
  <2> QED BY <2>1 DEF InControl
<1>11. CASE UNCHANGED vars
  BY <1>11 DEF vars, loadVars, ownVars, historyVars, InControl, InDirectory, Running, Location, Ascends
<1> QED
  BY <1>1, <1>2, <1>3, <1>4, <1>5, <1>6, <1>7, <1>8, <1>9, <1>10, <1>11, <1>12 DEF Next, Crashes

-------------------------------------------------------------------------------
(* samconfLoad owns what it made: the objects that live at each of its steps. *)
LoadOwns ==
  /\ load.pc \in {"IDLE", "SIGNATURE", "DATA", "CRYPTO", "LOOKUP"} => live \subseteq {"handle"}
  /\ load.pc \in {"OPEN", "LOAD"} => "backend" \in live /\ "tree" \notin live
  /\ load.pc \in {"CLOSE", "DELETE"} =>
       "backend" \in live /\ (load.status = "OK" => "tree" \in live)
  /\ load.pc = "DONE" => ("tree" \in live) = (load.status = "OK") /\ "backend" \notin live

(* The fields of load after a step. *)
LEMMA GotoFields ==
  ASSUME LoadTypeOK, NEW pc, NEW status, Goto(pc, status)
  PROVE  /\ load'.pc = pc /\ load'.status = status
         /\ load'.file = load.file /\ load'.enforce = load.enforce
         /\ load'.isSigned <=> load.isSigned
         /\ load'.dataRead <=> load.dataRead
BY DEF LoadTypeOK, Goto

LEMMA ReadFields ==
  ASSUME LoadTypeOK, ReadData
  PROVE  /\ load.pc = "DATA" /\ load'.pc = "CRYPTO" /\ load'.status = load.status
         /\ UNCHANGED <<disk, live>>
         /\ load'.file = load.file /\ load'.enforce = load.enforce
         /\ load'.isSigned <=> load.isSigned
         /\ load'.dataRead
BY DEF LoadTypeOK, ReadData, At

LEMMA GateFields ==
  ASSUME LoadTypeOK, NEW status, Gate(status)
  PROVE  /\ load'.status = status
         /\ load'.file = load.file /\ load'.enforce = load.enforce
         /\ load'.dataRead <=> load.dataRead
         /\ \/ /\ load'.pc = "LOOKUP" /\ (load'.isSigned <=> status = "OK")
               /\ status = "OK" \/ ~load.enforce
            \/ /\ load'.pc = "DONE" /\ (load'.isSigned <=> load.isSigned)
               /\ status # "OK"
<1>1. CASE status = "OK" \/ (status = "SIGNATURE_NOT_FOUND" /\ ~load.enforce)
  BY <1>1 DEF LoadTypeOK, Gate
<1>2. CASE ~(status = "OK" \/ (status = "SIGNATURE_NOT_FOUND" /\ ~load.enforce))
  BY <1>2, GotoFields DEF Gate
<1> QED BY <1>1, <1>2

LEMMA LookupFields ==
  ASSUME LoadTypeOK, LookupBackend
  PROVE  /\ load'.pc = "OPEN" /\ load'.status = load.status /\ live' = live \cup {"backend"}
         /\ load'.file = load.file /\ load'.enforce = load.enforce
         /\ load'.isSigned <=> load.isSigned
         /\ load'.dataRead <=> load.dataRead
BY DEF LoadTypeOK, LookupBackend

LEMMA OwnsImplies == LoadOwns => LoadOwnsWhatItMade
BY DEF LoadOwns, LoadOwnsWhatItMade, Steps

LEMMA InitOwns == Init => LoadOwns
BY DEF Init, LoadInit, NoLoad, LoadOwns

LEMMA LoadStepOwns ==
  ASSUME LoadTypeOK, LoadOwns, LoadNext
  PROVE  LoadOwns'
<1> USE GotoFields, GateFields, LookupFields DEF LoadOwns, At
<1>1. CASE FindSignature \/ FindSignatureFails
  BY <1>1 DEF FindSignature, FindSignatureFails
<1>2. CASE ReadDataFails
  BY <1>2 DEF ReadDataFails
<1>9. CASE ReadData
  BY <1>9, ReadFields
<1>3. CASE Verify \/ VerifyFails
  BY <1>3 DEF Verify, VerifyFails
<1>4. CASE LookupFails
  BY <1>4 DEF LookupFails
<1>8. CASE LookupBackend
  <2>1. load.pc = "LOOKUP" /\ UNCHANGED disk
    BY <1>8 DEF LookupBackend
  <2> QED BY <1>8, <2>1
<1>5. CASE Open \/ OpenRefused \/ OpenFails
  BY <1>5 DEF Open, OpenRefused, OpenFails
<1>6. CASE LoadTree \/ LoadFails \/ LoadCutShort
  BY <1>6 DEF LoadTree, LoadFails, LoadCutShort
<1>7. CASE Close \/ CloseFails \/ Delete
  BY <1>7 DEF Close, CloseFails, Delete
<1> QED BY <1>1, <1>2, <1>3, <1>4, <1>5, <1>6, <1>7, <1>8, <1>9 DEF LoadNext

(* Past the gate of the signature a location that must be signed is. *)
GateHolds ==
  load.enforce /\ (load.pc \in PastGate \/ (load.pc = "DONE" /\ load.status = "OK")) =>
    load.isSigned

LEMMA LoadStepGate ==
  ASSUME LoadTypeOK, GateHolds, LoadNext
  PROVE  GateHolds'
<1> USE GotoFields, GateFields, LookupFields DEF GateHolds, PastGate, At
<1>1. ASSUME NEW status, Gate(status) PROVE GateHolds'
  BY <1>1
<1>2. CASE FindSignature \/ FindSignatureFails \/ ReadDataFails \/ Verify \/ VerifyFails
  <2>1. (\E status : Gate(status)) \/ Goto("DATA", "OK")
    BY <1>2 DEF FindSignature, FindSignatureFails, ReadDataFails, Verify, VerifyFails
  <2>2. ASSUME Goto("DATA", "OK") PROVE GateHolds'
    <3>1. load'.pc = "DATA"
      BY <2>2
    <3> QED BY <3>1
  <2> QED BY <1>1, <2>1, <2>2, Zenon
<1>9. CASE ReadData
  BY <1>9, ReadFields
<1>4. CASE LookupFails
  BY <1>4 DEF LookupFails
<1>8. CASE LookupBackend
  <2>1. load.pc = "LOOKUP" /\ UNCHANGED disk
    BY <1>8 DEF LookupBackend
  <2> QED BY <1>8, <2>1
<1>5. CASE Open \/ OpenRefused \/ OpenFails
  BY <1>5 DEF Open, OpenRefused, OpenFails
<1>6. CASE LoadTree \/ LoadFails \/ LoadCutShort
  BY <1>6 DEF LoadTree, LoadFails, LoadCutShort
<1>7. CASE Close \/ CloseFails \/ Delete
  BY <1>7 DEF Close, CloseFails, Delete
<1> QED BY <1>2, <1>4, <1>5, <1>6, <1>7, <1>8, <1>9 DEF LoadNext

(* What is taken for signed has a signature: one that was verified, or one    *)
(* whose data were not read, for a location that is no file or by a failure.  *)
MayCountAsSigned(file, dataRead) ==
  /\ disk[file].signature # "NONE"
  /\ dataRead => disk[file].signature = "VALID"
  /\ ~dataRead => ~disk[file].readable \/ SomethingFailed

GateVerified ==
  /\ load.pc # "IDLE" /\ load.isSigned => MayCountAsSigned(load.file, load.dataRead)
  /\ load.pc \in {"SIGNATURE", "DATA", "CRYPTO"} => ~load.isSigned
  /\ load.pc \in {"SIGNATURE", "DATA"} => ~load.dataRead
  /\ load.pc \in {"DATA", "CRYPTO"} => Here.signature # "NONE"
  /\ load.pc = "CRYPTO" => load.dataRead

(* A failure that happened stays one. *)
LEMMA FailedStays ==
  ASSUME faults \in 0..MaxFaults, Fault \/ UNCHANGED faults
  PROVE  /\ SomethingFailed => SomethingFailed'
         /\ Fault => SomethingFailed'
BY LoadAssumption DEF Fault, SomethingFailed

LEMMA LoadStepVerified ==
  ASSUME LoadTypeOK, GateVerified, LoadNext
  PROVE  GateVerified'
<1>0. /\ SomethingFailed => SomethingFailed'
      /\ Fault => SomethingFailed'
  BY LoadFrame, FailedStays DEF LoadTypeOK
<1> USE GotoFields, GateFields, LookupFields DEF GateVerified, MayCountAsSigned, At, Here
<1>1. CASE FindSignature \/ FindSignatureFails
  BY <1>0, <1>1 DEF FindSignature, FindSignatureFails
<1>2. CASE ReadDataFails
  BY <1>0, <1>2 DEF ReadDataFails
<1>9. CASE ReadData
  BY <1>0, <1>9, ReadFields
<1>3. CASE Verify \/ VerifyFails
  BY <1>0, <1>3 DEF Verify, VerifyFails
<1>4. CASE LookupFails
  BY <1>0, <1>4 DEF LookupFails
<1>8. CASE LookupBackend
  <2>1. load.pc = "LOOKUP" /\ UNCHANGED disk
    BY <1>8 DEF LookupBackend
  <2> QED BY <1>0, <1>8, <2>1
<1>5. CASE Open \/ OpenRefused \/ OpenFails
  BY <1>0, <1>5 DEF Open, OpenRefused, OpenFails
<1>6. CASE LoadTree \/ LoadFails \/ LoadCutShort
  BY <1>0, <1>6 DEF LoadTree, LoadFails, LoadCutShort
<1>7. CASE Close \/ CloseFails \/ Delete
  BY <1>0, <1>7 DEF Close, CloseFails, Delete
<1> QED BY <1>1, <1>2, <1>3, <1>4, <1>5, <1>6, <1>7, <1>8, <1>9 DEF LoadNext

-------------------------------------------------------------------------------
(* A configuration is merged: the caller's, or the one that was just loaded. *)
Merging(entry) ==
  /\ Running /\ entry \in Entry /\ entry.at = call.at
  /\ \/ Location.type = "CONFIG" /\ ~InDirectory /\ entry.file = 0
     \/ load.pc = "DONE" /\ load.status = "OK" /\ entry = LoadedEntry
  /\ Merges(entry)

MergeSteps ==
  MergeGiven \/ MergeGivenStops \/ MergeGivenFails \/ MergeLoaded \/ MergeLoadedFails

(* Every other step leaves what was merged alone. *)
MergesNothing ==
  /\ UNCHANGED <<merged, mergedSigned, cut, damaged>>
  /\ call.pc # "IDLE" => call'.locations = call.locations

LEMMA MergeStepsMerge ==
  ASSUME TypeOK, InControl, MergeSteps
  PROVE  /\ call.pc = "RUN" /\ UNCHANGED disk
         /\ \E entry : Merging(entry)
<1>0. LoadTypeOK /\ CallType
  BY TypeParts DEF OwnTypes
<1>1. CASE MergeGiven \/ MergeGivenStops \/ MergeGivenFails
  <2>1. ConfigGiven /\ Merges(GivenEntry) /\ UNCHANGED disk
    BY <1>1, MergeInShape DEF MergeGiven, MergeGivenStops, MergeGivenFails, Merges, loadVars
  <2>2. GivenEntry \in Entry /\ GivenEntry.at = call.at /\ GivenEntry.file = 0
    BY <1>0, <2>1, EntryTypes DEF GivenEntry
  <2>3. Merging(GivenEntry)
    BY <2>1, <2>2 DEF Merging, ConfigGiven, AtLocation
  <2> QED BY <2>1, <2>3 DEF Merging, Running
<1>2. CASE MergeLoaded \/ MergeLoadedFails
  <2>1. LoadEnded /\ load.status = "OK" /\ UNCHANGED disk /\ Merges(LoadedEntry)
    BY <1>2, MergeInShape DEF MergeLoaded, MergeLoadedFails, Merges
  <2>2. LoadedEntry \in Entry /\ LoadedEntry.at = call.at
    BY <1>0, EntryTypes DEF LoadedEntry
  <2>3. Merging(LoadedEntry)
    BY <2>1, <2>2 DEF Merging, InControl, LoadEnded
  <2> QED BY <2>1, <2>3 DEF LoadEnded
<1> QED BY <1>1, <1>2 DEF MergeSteps

LEMMA MergesOrNot ==
  ASSUME TypeOK, InControl, [Next]_vars
  PROVE  /\ UNCHANGED disk
         /\ MergesNothing \/ \E entry : Merging(entry)
<1> USE DEF MergesNothing
<1>1. CASE CallLoadAndMerge \/ CallFails \/ SkipLocation \/ OpenDirectory \/ Return
  BY <1>1
     DEF CallLoadAndMerge, CallFails, SkipLocation, OpenDirectory, Return, loadVars, historyVars, TypeOK
<1>2. CASE NoPathGiven \/ ListFails \/ CloseDirectory
  BY <1>2 DEF NoPathGiven, ListFails, CloseDirectory, EndLocation, loadVars, TypeOK
<1>3. CASE NoConfigGiven \/ OpendirFails \/ NotLoaded
  BY <1>3 DEF NoConfigGiven, OpendirFails, NotLoaded, EndConfig, EndLocation, loadVars, TypeOK
<1>4. CASE LoadFile \/ LoadEntry
  BY <1>4 DEF LoadFile, LoadEntry, ownVars, historyVars
<1>5. CASE Loading
  BY <1>5, LoadFrame DEF Loading, ownVars, historyVars, TypeOK
<1>6. CASE MergeSteps
  BY <1>6, MergeStepsMerge
<1>8. CASE Crashes
  BY <1>8, CrashEffect DEF historyVars
<1>7. CASE UNCHANGED vars
  BY <1>7 DEF vars, loadVars, ownVars, historyVars
<1> QED BY <1>1, <1>2, <1>3, <1>4, <1>5, <1>6, <1>7, <1>8 DEF Next, MergeSteps, Crashes

LEMMA MergingEffect ==
  ASSUME TypeOK, NEW entry, Merging(entry)
  PROVE  /\ call'.locations = call.locations
         /\ \/ UNCHANGED <<merged, mergedSigned, cut>>
            \/ /\ merged' = Append(merged, entry)
               /\ mergedSigned => entry.signed /\ mergedSigned'
               /\ cut => cut'
               /\ entry.signed => mergedSigned' \/ cut'
<1>1. Merges(entry) /\ entry.signed \in BOOLEAN
  BY DEF Merging, Entry
<1>2. \E res : EndConfig(res)
  BY <1>1, MergesEffect
<1>3. call'.locations = call.locations
  BY <1>2 DEF EndConfig, EndLocation, TypeOK
<1>4. mergedSigned \in BOOLEAN /\ cut \in BOOLEAN
  BY Zenon DEF TypeOK
<1> QED BY <1>1, <1>3, <1>4, MergesEffect

(* The entries of the history after one was added. *)
LEMMA AddedEntry ==
  ASSUME MergedType, NEW entry \in Entry, merged' = Append(merged, entry)
  PROVE  /\ DOMAIN merged = 1..Len(merged) /\ DOMAIN merged' = 1..(Len(merged) + 1)
         /\ Len(merged) \in Nat
         /\ \A i \in DOMAIN merged : merged'[i] = merged[i]
         /\ merged'[Len(merged) + 1] = entry
BY DEF MergedType

-------------------------------------------------------------------------------
(* A signed configuration leaves its mark on the tree, or its merge was cut short. *)
SignedMarks == (\E i \in DOMAIN merged : merged[i].signed) => mergedSigned \/ cut

MergedInv == SignedMarks /\ SignedThenOnlySigned /\ EnforcedIsSigned

LEMMA NextMergedInv ==
  ASSUME TypeOK, InControl, GateHolds, MergedInv, [Next]_vars
  PROVE  MergedInv'
<1>1. CASE MergesNothing
  <2>1. SignedMarks' /\ SignedThenOnlySigned'
    BY <1>1 DEF MergesNothing, MergedInv, SignedMarks, SignedThenOnlySigned
  <2>2. EnforcedIsSigned'
    <3>1. CASE call.pc = "IDLE"
      BY <1>1, <3>1 DEF MergesNothing, InControl, EnforcedIsSigned
    <3>2. CASE call.pc # "IDLE"
      BY <1>1, <3>2 DEF MergesNothing, MergedInv, EnforcedIsSigned
    <3> QED BY <3>1, <3>2
  <2> QED BY <2>1, <2>2 DEF MergedInv
<1>2. CASE \E entry : Merging(entry)
  <2>1. PICK entry : Merging(entry)
    BY <1>2
  <2>2. CASE UNCHANGED <<merged, mergedSigned, cut>>
    BY <2>1, <2>2, MergingEffect DEF MergedInv, SignedMarks, SignedThenOnlySigned, EnforcedIsSigned
  <2>3. CASE merged' = Append(merged, entry)
    <3> DEFINE last == Len(merged) + 1
    <3>1. /\ DOMAIN merged = 1..Len(merged) /\ DOMAIN merged' = 1..last
          /\ Len(merged) \in Nat
          /\ \A i \in DOMAIN merged : merged'[i] = merged[i]
          /\ merged'[last] = entry /\ entry.at = call.at
      BY <2>1, <2>3, AddedEntry, TypeParts DEF OwnTypes, Merging
    <3>2. /\ call'.locations = call.locations
          /\ mergedSigned => entry.signed /\ mergedSigned'
          /\ cut => cut'
          /\ entry.signed => mergedSigned' \/ cut'
      <4>1. last \in DOMAIN merged' /\ last \notin DOMAIN merged
        BY <3>1
      <4> QED BY <2>1, <4>1, MergingEffect
    <3> HIDE DEF last
    <3>3. SignedMarks'
      <4>1. \A i \in DOMAIN merged' : i \in DOMAIN merged \/ i = last
        BY <3>1 DEF last
      <4> QED BY <3>1, <3>2, <4>1 DEF MergedInv, SignedMarks
    <3>4. SignedThenOnlySigned'
      <4> SUFFICES ASSUME NEW i \in DOMAIN merged', NEW j \in DOMAIN merged',
                          i < j, merged'[i].signed
                   PROVE  merged'[j].signed \/ cut'
        BY DEF SignedThenOnlySigned
      <4>1. i \in DOMAIN merged /\ (j \in DOMAIN merged \/ j = last)
        BY <3>1 DEF last
      <4>2. CASE j \in DOMAIN merged
        BY <3>1, <3>2, <4>1, <4>2 DEF MergedInv, SignedThenOnlySigned
      <4>3. CASE j = last
        BY <3>1, <3>2, <4>1, <4>3 DEF MergedInv, SignedMarks
      <4> QED BY <4>1, <4>2, <4>3
    <3>5. EnforcedIsSigned'
      <4>1. Location.type = "PATH" /\ Location.enforce => entry.signed
        <5>1. call.pc # "CRASHED" /\ (Location.type = "PATH" => load.pc = "DONE")
          BY <2>1 DEF Merging, Running
        <5>2. Location.type = "PATH" => load.status = "OK" /\ (entry.signed <=> load.isSigned)
          BY <2>1 DEF Merging, LoadedEntry
        <5> QED BY <5>1, <5>2 DEF GateHolds, InControl
      <4>2. \A i \in DOMAIN merged' : i \in DOMAIN merged \/ i = last
        BY <3>1 DEF last
      <4> SUFFICES ASSUME NEW i \in DOMAIN merged',
                          call'.locations[merged'[i].at].type = "PATH",
                          call'.locations[merged'[i].at].enforce
                   PROVE  merged'[i].signed
        BY DEF EnforcedIsSigned
      <4>3. CASE i \in DOMAIN merged
        BY <3>1, <3>2, <4>3 DEF MergedInv, EnforcedIsSigned
      <4>4. CASE i = last
        BY <3>1, <3>2, <4>1, <4>4 DEF Location
      <4> QED BY <4>2, <4>3, <4>4
    <3> QED BY <3>3, <3>4, <3>5 DEF MergedInv
  <2> QED BY <2>1, <2>2, <2>3, MergingEffect
<1> QED BY <1>1, <1>2, MergesOrNot

(* The loading up to a merge: where the code is, what it owns, and whom the *)
(* gate lets past.                                                          *)
LoadInv == TypeOK /\ InControl /\ LoadOwns /\ GateHolds

LEMMA InitLoadInv == Init => LoadInv /\ MergedInv
<1> SUFFICES ASSUME Init PROVE LoadInv /\ MergedInv
  OBVIOUS
<1>1. GateHolds
  BY DEF Init, LoadInit, NoLoad, GateHolds, PastGate
<1>2. merged = <<>>
  BY DEF Init
<1>3. MergedInv
  BY <1>2 DEF MergedInv, SignedMarks, SignedThenOnlySigned, EnforcedIsSigned
<1> QED BY <1>1, <1>3, InitType, InitControl, InitOwns DEF LoadInv

(* Outside samconfLoad its locals are those of no call, or of a new one. *)
LEMMA OtherSteps ==
  ASSUME TypeOK, [Next]_vars, ~Loading
  PROVE  /\ Fault \/ UNCHANGED faults
         /\ \/ UNCHANGED <<load, live>>
            \/ /\ load.pc = "IDLE" /\ load'.pc = "SIGNATURE" /\ ~load'.isSigned /\ ~load'.dataRead
               /\ UNCHANGED live
            \/ load.pc = "DONE" /\ load.status # "OK" /\ load' = NoLoad /\ UNCHANGED live
            \/ load.pc = "DONE" /\ load' = NoLoad /\ live' = live \ {"tree"}
<1>1. CASE CallLoadAndMerge \/ CallFails \/ SkipLocation \/ OpenDirectory \/ Return
  BY <1>1 DEF CallLoadAndMerge, CallFails, SkipLocation, OpenDirectory, Return, loadVars
<1>2. CASE NoPathGiven \/ ListFails \/ CloseDirectory
  BY <1>2 DEF NoPathGiven, ListFails, CloseDirectory, loadVars
<1>3. CASE NoConfigGiven \/ OpendirFails \/ MergeGiven \/ MergeGivenStops \/ MergeGivenFails
  BY <1>3
     DEF NoConfigGiven, OpendirFails, MergeGiven, MergeGivenStops, MergeGivenFails, loadVars
<1>4. CASE LoadFile \/ LoadEntry
  BY <1>4 DEF LoadFile, LoadEntry, AtLocation, LoadCall, NoLoad
<1>5. CASE NotLoaded \/ MergeLoaded \/ MergeLoadedFails
  BY <1>5 DEF NotLoaded, MergeLoaded, MergeLoadedFails, LoadEnded
<1>7. CASE Crashes
  BY <1>7, CrashEffect
<1>6. CASE UNCHANGED vars
  BY <1>6 DEF vars, loadVars
<1> QED BY <1>1, <1>2, <1>3, <1>4, <1>5, <1>6, <1>7 DEF Next, Crashes

LEMMA NextLoadInv == LoadInv /\ [Next]_vars => LoadInv'
<1> SUFFICES ASSUME LoadInv, [Next]_vars PROVE LoadInv'
  OBVIOUS
<1> USE DEF LoadInv
<1>1. TypeOK' /\ InControl'
  BY NextType, NextControl
<1>2. CASE Loading
  <2>1. LoadTypeOK /\ LoadNext
    BY <1>2 DEF TypeOK, Loading
  <2> QED BY <1>1, <2>1, LoadStepOwns, LoadStepGate
<1>3. CASE ~Loading
  <2>1. GateHolds'
    BY <1>3, OtherSteps DEF GateHolds, PastGate, NoLoad
  <2>2. live \subseteq {"backend", "handle", "tree"}
    BY DEF TypeOK, LoadTypeOK
  <2>3. LoadOwns'
    <3>1. CASE UNCHANGED <<load, live>>
      BY <3>1 DEF LoadOwns
    <3>2. CASE load.pc = "IDLE" /\ load'.pc = "SIGNATURE" /\ UNCHANGED live
      BY <3>2 DEF LoadOwns
    <3>3. ASSUME load.pc = "DONE", load' = NoLoad, "tree" \notin live', live' \subseteq live
          PROVE  LoadOwns'
      <4>1. live' \subseteq {"handle"} /\ load'.pc = "IDLE"
        BY <2>2, <3>3 DEF LoadOwns, NoLoad
      <4> QED BY <4>1 DEF LoadOwns
    <3>4. CASE load.pc = "DONE" /\ load.status # "OK" /\ load' = NoLoad /\ UNCHANGED live
      BY <3>3, <3>4 DEF LoadOwns
    <3>5. CASE load.pc = "DONE" /\ load' = NoLoad /\ live' = live \ {"tree"}
      BY <3>3, <3>5
    <3> QED BY <1>3, <3>1, <3>2, <3>4, <3>5, OtherSteps
  <2> QED BY <1>1, <2>1, <2>3
<1> QED BY <1>2, <1>3

(* samconfLoad frees what it made, whatever fails in it (samconf.c:121-145): *)
(* a tree that was not returned, the backend and, unless close failed, the   *)
(* handle.                                                                   *)
THEOREM LoadCleansUp == Spec => []LoadOwnsWhatItMade
<1>1. LoadInv => LoadOwnsWhatItMade
  BY OwnsImplies DEF LoadInv
<1> QED BY <1>1, InitLoadInv, NextLoadInv, PTL DEF Spec

LEMMA MergedInvariant == Spec => []MergedInv
<1>1. LoadInv /\ MergedInv /\ [Next]_vars => MergedInv'
  BY NextMergedInv DEF LoadInv
<1> QED BY <1>1, InitLoadInv, NextLoadInv, PTL DEF Spec

(* Whatever the locations, directories and failures, a location that must be *)
(* signed brings in nothing unsigned (samconf.c:96-104).                     *)
THEOREM EnforcementHolds == Spec => []EnforcedIsSigned
<1>1. MergedInv => EnforcedIsSigned
  BY DEF MergedInv
<1> QED BY <1>1, MergedInvariant, PTL

(* Across files, directories and locations nothing unsigned follows what was *)
(* signed, unless a merge of something signed was cut short.                 *)
THEOREM SignedStaysOnTop == Spec => []SignedThenOnlySigned
<1>1. MergedInv => SignedThenOnlySigned
  BY DEF MergedInv
<1> QED BY <1>1, MergedInvariant, PTL

-------------------------------------------------------------------------------
(* Where the entries of the history stand: before the location the call is   *)
(* at, or, in a directory, before the file it is at.                         *)
MergedEarlier ==
  \A i \in DOMAIN merged :
    /\ merged[i].at <= call.at
    /\ merged[i].at = call.at =>
         InDirectory /\ \E k \in 1..(dir.at - 1) : merged[i].file = dir.files[k]

MergedAts == \A i \in DOMAIN merged : merged[i].at \in Nat

LEMMA AtsAreNumbers == (MergedType => MergedAts) /\ (MergedType' => MergedAts')
<1>1. ASSUME NEW Entries, NEW h \in Seq(Entries), \A e \in Entries : e.at \in Nat
      PROVE  \A i \in DOMAIN h : h[i].at \in Nat
  BY <1>1
<1>2. \A e \in Entry : e.at \in Nat
  BY DEF Entry
<1> QED BY <1>1, <1>2, Zenon DEF MergedType, MergedAts

(* A location is done: everything merged so far stands before the next one. *)
LEMMA NextLocationOrder ==
  ASSUME call.at \in Nat, call'.at = call.at + 1, MergedAts',
         \A i \in DOMAIN merged' : merged'[i].at <= call.at
  PROVE  MergedEarlier'
<1> SUFFICES ASSUME NEW i \in DOMAIN merged'
             PROVE  merged'[i].at <= call'.at /\ merged'[i].at # call'.at
  BY DEF MergedEarlier
<1>1. merged'[i].at \in Nat /\ merged'[i].at <= call.at
  BY DEF MergedAts
<1> QED BY <1>1

(* A configuration is done, and what it was is merged or is not. *)
LEMMA EndConfigOrder ==
  ASSUME TypeOK, MergedType', MergedEarlier, NEW res, EndConfig(res),
         \A i \in DOMAIN merged' :
           \/ i \in DOMAIN merged /\ merged'[i] = merged[i]
           \/ merged'[i].at = call.at /\ (InDirectory => merged'[i].file = dir.files[dir.at])
  PROVE  MergedEarlier'
<1>1. call.at \in Nat /\ dir.at \in Nat
  BY DEF TypeOK
<1>2. \A i \in DOMAIN merged' : merged'[i].at <= call.at
  BY <1>1 DEF MergedEarlier
<1>3. CASE InDirectory
  <2>1. UNCHANGED call /\ dir'.files = dir.files /\ dir'.at = dir.at + 1
    BY <1>3 DEF EndConfig, TypeOK
  <2> SUFFICES ASSUME NEW i \in DOMAIN merged', merged'[i].at = call.at
               PROVE  InDirectory' /\ \E k \in 1..(dir'.at - 1) : merged'[i].file = dir.files[k]
    BY <1>2, <2>1 DEF MergedEarlier
  <2>2. InDirectory'
    BY <1>1, <2>1 DEF InDirectory
  <2>3. CASE i \in DOMAIN merged /\ merged'[i] = merged[i]
    <3>1. PICK k \in 1..(dir.at - 1) : merged[i].file = dir.files[k]
      BY <2>3 DEF MergedEarlier
    <3>2. k \in 1..(dir'.at - 1)
      BY <1>1, <2>1
    <3> QED BY <2>2, <2>3, <3>1, <3>2
  <2>4. CASE merged'[i].file = dir.files[dir.at]
    <3>1. dir.at \in 1..(dir'.at - 1)
      BY <1>1, <1>3, <2>1 DEF InDirectory
    <3> QED BY <2>2, <2>4, <3>1
  <2> QED BY <1>3, <2>3, <2>4
<1>4. CASE ~InDirectory
  <2>1. call'.at = call.at + 1
    BY <1>4 DEF EndConfig, EndLocation, TypeOK
  <2> QED BY <1>1, <1>2, <2>1, AtsAreNumbers, NextLocationOrder
<1> QED BY <1>3, <1>4

LEMMA NextOrder ==
  ASSUME LoadInv, MergedEarlier, MergedInOrder, [Next]_vars
  PROVE  MergedEarlier' /\ MergedInOrder'
<1>0. /\ TypeOK /\ TypeOK' /\ InControl /\ MergedType /\ MergedType' /\ call.at \in Nat
  BY NextType, TypeParts DEF LoadInv, OwnTypes, TypeOK
<1>1. ASSUME NEW entry, Merging(entry)
      PROVE  MergedEarlier' /\ MergedInOrder'
  <2>1. \E res : EndConfig(res)
    BY <1>1, MergesEffect DEF Merging
  <2>2. CASE UNCHANGED merged
    BY <1>0, <2>1, <2>2, EndConfigOrder DEF MergedInOrder
  <2>3. CASE merged' = Append(merged, entry)
    <3> DEFINE last == Len(merged) + 1
    <3>1. /\ DOMAIN merged = 1..Len(merged) /\ DOMAIN merged' = 1..last
          /\ Len(merged) \in Nat
          /\ \A i \in DOMAIN merged : merged'[i] = merged[i]
          /\ merged'[last] = entry /\ entry.at = call.at
      BY <1>0, <1>1, <2>3, AddedEntry DEF Merging
    <3>2. \A i \in DOMAIN merged' : i \in DOMAIN merged \/ i = last
      BY <3>1
    <3>3. InDirectory => /\ entry.file = dir.files[dir.at]
                         /\ dir.at <= Len(dir.files) /\ Ascends(dir.files)
      BY <1>0, <1>1 DEF Merging, Running, InControl, LoadedEntry
    <3>4. MergedEarlier'
      BY <1>0, <2>1, <3>1, <3>2, <3>3, EndConfigOrder
    <3>5. MergedInOrder'
      <4> SUFFICES ASSUME NEW i \in DOMAIN merged', NEW j \in DOMAIN merged', i < j
                   PROVE  \/ merged'[i].at < merged'[j].at
                          \/ merged'[i].at = merged'[j].at /\ merged'[i].file < merged'[j].file
        BY DEF MergedInOrder
      <4>1. i \in DOMAIN merged
        BY <3>1
      <4>2. CASE j \in DOMAIN merged
        BY <3>1, <4>1, <4>2 DEF MergedInOrder
      <4>3. CASE j = last
        <5>1. merged[i].at <= call.at /\ merged[i].at \in Nat
          BY <1>0, <4>1, AtsAreNumbers DEF MergedEarlier, MergedAts
        <5>2. CASE merged[i].at = call.at
          <6>1. PICK k \in 1..(dir.at - 1) : merged[i].file = dir.files[k]
            BY <4>1, <5>2 DEF MergedEarlier
          <6>2. InDirectory
            BY <4>1, <5>2 DEF MergedEarlier
          <6>0. dir.at \in Nat /\ dir.files \in Seq(Files)
            BY <1>0 DEF TypeOK
          <6>3. k \in DOMAIN dir.files /\ dir.at \in DOMAIN dir.files /\ k < dir.at
            BY <3>3, <6>0, <6>2 DEF InDirectory
          <6>4. dir.files[k] < dir.files[dir.at]
            BY <3>3, <6>2, <6>3 DEF Ascends
          <6> QED BY <3>1, <3>3, <4>1, <4>3, <5>2, <6>1, <6>2, <6>4
        <5>3. CASE merged[i].at # call.at
          BY <1>0, <3>1, <4>1, <4>3, <5>1, <5>3
        <5> QED BY <5>2, <5>3
      <4> QED BY <3>2, <4>2, <4>3
    <3> QED BY <3>4, <3>5
  <2> QED BY <1>0, <1>1, <2>2, <2>3, MergingEffect
<1>2. CASE MergesNothing
  <2>1. MergedInOrder'
    BY <1>2 DEF MergesNothing, MergedInOrder
  <2>2. UNCHANGED merged
    BY <1>2 DEF MergesNothing
  <2>3. MergedAts' /\ \A i \in DOMAIN merged : merged[i].at <= call.at
    BY <1>0, AtsAreNumbers DEF MergedEarlier
  <2>4. MergedEarlier'
    <3>1. CASE CallLoadAndMerge \/ CallFails
      <4>1. call.pc = "IDLE"
        BY <3>1 DEF CallLoadAndMerge, CallFails
      <4>2. merged' = <<>>
        BY <1>0, <2>2, <4>1 DEF InControl
      <4> QED BY <4>2 DEF MergedEarlier
    <3>2. CASE SkipLocation \/ NoPathGiven \/ ListFails \/ CloseDirectory
      <4>1. call'.at = call.at + 1
        BY <1>0, <3>2 DEF SkipLocation, NoPathGiven, ListFails, CloseDirectory, EndLocation, TypeOK
      <4> QED BY <1>0, <2>2, <2>3, <4>1, NextLocationOrder
    <3>3. CASE NoConfigGiven \/ OpendirFails \/ NotLoaded
      BY <1>0, <2>2, <3>3, EndConfigOrder DEF NoConfigGiven, OpendirFails, NotLoaded
    <3>4. CASE OpenDirectory
      <4>1. ~InDirectory /\ UNCHANGED call
        BY <3>4 DEF OpenDirectory, AtLocation
      <4> QED BY <2>2, <4>1 DEF MergedEarlier
    <3>5. CASE LoadFile \/ LoadEntry \/ Loading \/ Return \/ UNCHANGED vars
      <4>1. call'.at = call.at /\ UNCHANGED dir
        BY <1>0, <3>5 DEF LoadFile, LoadEntry, Loading, Return, ownVars, vars, TypeOK
      <4> QED BY <2>2, <4>1 DEF MergedEarlier, InDirectory
    <3>6. CASE MergeSteps
      BY <1>0, <1>1, <3>6, MergeStepsMerge
    <3>7. CASE Crashes
      <4>1. call'.at = call.at /\ UNCHANGED dir
        BY <1>0, <3>7, CrashEffect
      <4> QED BY <2>2, <4>1 DEF MergedEarlier, InDirectory
    <3> QED BY <3>1, <3>2, <3>3, <3>4, <3>5, <3>6, <3>7 DEF Next, MergeSteps, Crashes
  <2> QED BY <2>1, <2>4
<1> QED BY <1>0, <1>1, <1>2, MergesOrNot

(* Configurations are merged in the order of the locations and, within a     *)
(* directory, of the names (samconf.c:148, 202, 288), also when some of them *)
(* fail.                                                                     *)
THEOREM MergeOrder == Spec => []MergedInOrder
<1>1. Init => MergedEarlier /\ MergedInOrder
  BY DEF Init, MergedEarlier, MergedInOrder
<1>2. LoadInv /\ MergedEarlier /\ MergedInOrder /\ [Next]_vars => MergedEarlier' /\ MergedInOrder'
  BY NextOrder
<1> QED BY <1>1, <1>2, InitLoadInv, NextLoadInv, PTL DEF Spec

-------------------------------------------------------------------------------
LEMMA NextVerified ==
  ASSUME LoadInv, GateVerified, SignedWasVerifiedOrUnread, [Next]_vars
  PROVE  GateVerified' /\ SignedWasVerifiedOrUnread'
<1>0. /\ TypeOK /\ InControl /\ LoadTypeOK /\ MergedType /\ UNCHANGED disk
  BY MergesOrNot, TypeParts DEF LoadInv, OwnTypes
<1>1. SomethingFailed => SomethingFailed'
  <2>1. Fault \/ UNCHANGED faults
    BY <1>0, LoadFrame, OtherSteps DEF Loading
  <2> QED BY <1>0, <2>1, FailedStays DEF LoadTypeOK
<1>2. GateVerified'
  <2>1. CASE Loading
    BY <1>0, <2>1, LoadStepVerified DEF Loading
  <2>2. CASE ~Loading
    BY <1>0, <1>1, <2>2, OtherSteps DEF GateVerified, MayCountAsSigned, Here, NoLoad
  <2> QED BY <2>1, <2>2
<1>3. SignedWasVerifiedOrUnread'
  <2> SUFFICES ASSUME NEW i \in DOMAIN merged', merged'[i].signed, merged'[i].file # 0
               PROVE  MayCountAsSigned(merged[i].file, merged[i].dataRead)'
    BY DEF SignedWasVerifiedOrUnread, MayCountAsSigned
  <2>1. CASE i \in DOMAIN merged /\ merged'[i] = merged[i]
    <3>1. MayCountAsSigned(merged[i].file, merged[i].dataRead)
      BY <2>1 DEF SignedWasVerifiedOrUnread, MayCountAsSigned
    <3> QED BY <1>0, <1>1, <2>1, <3>1 DEF MayCountAsSigned
  <2>2. ASSUME NEW entry, Merging(entry), merged'[i] = entry
        PROVE  MayCountAsSigned(merged[i].file, merged[i].dataRead)'
    <3>1. MayCountAsSigned(entry.file, entry.dataRead)
      BY <2>2 DEF Merging, GateVerified, LoadedEntry
    <3> QED BY <1>0, <1>1, <2>2, <3>1 DEF MayCountAsSigned
  <2>3. CASE UNCHANGED merged
    BY <2>1, <2>3
  <2>4. ASSUME NEW entry, Merging(entry), merged' = Append(merged, entry)
        PROVE  MayCountAsSigned(merged[i].file, merged[i].dataRead)'
    <3>1. (i \in DOMAIN merged /\ merged'[i] = merged[i]) \/ merged'[i] = entry
      BY <1>0, <2>4, AddedEntry DEF Merging
    <3> QED BY <2>1, <2>2, <2>4, <3>1
  <2> QED BY <1>0, <2>3, <2>4, MergesOrNot, MergingEffect DEF MergesNothing
<1> QED BY <1>2, <1>3

(* With any failures: a configuration counts as signed only if there is a    *)
(* signature, and then it is right, or the data it belongs to were not read  *)
(* (samconf.c:67-81); of a location that is a file, only by a failure.       *)
THEOREM SignedIsVerified == Spec => []SignedWasVerifiedOrUnread
<1>1. Init => GateVerified /\ SignedWasVerifiedOrUnread
  BY DEF Init, LoadInit, NoLoad, GateVerified, SignedWasVerifiedOrUnread
<1>2. LoadInv /\ GateVerified /\ SignedWasVerifiedOrUnread /\ [Next]_vars =>
        GateVerified' /\ SignedWasVerifiedOrUnread'
  BY NextVerified
<1> QED BY <1>1, <1>2, InitLoadInv, NextLoadInv, PTL DEF Spec

(* The rule of the ADR holds where nothing fails and nothing but a file that *)
(* can be read has a signature next to it: both are needed, as the run       *)
(* load_unread_data shows of the second.                                     *)
THEOREM SignedIsVerifiedOfFiles ==
  ASSUME MaxFaults = 0,
         \A kind \in Kinds : kind.signature # "NONE" => kind.readable
  PROVE  Spec => []SignedWasVerified
<1>1. TypeOK /\ SignedWasVerifiedOrUnread => SignedWasVerified
  <2> SUFFICES ASSUME TypeOK, SignedWasVerifiedOrUnread,
                      NEW i \in DOMAIN merged, merged[i].signed, merged[i].file # 0
               PROVE  disk[merged[i].file].signature = "VALID"
    BY DEF SignedWasVerified
  <2>1. merged \in Seq(Entry) /\ faults = 0 /\ disk \in [Files -> Kinds]
    BY DEF TypeOK, LoadTypeOK
  <2>2. merged[i] \in Entry
    BY <2>1
  <2>3. disk[merged[i].file] \in Kinds
    BY <2>1, <2>2 DEF Entry
  <2>4. merged[i].dataRead
    BY <2>1, <2>3 DEF SignedWasVerifiedOrUnread, SomethingFailed
  <2> QED BY <2>4 DEF SignedWasVerifiedOrUnread
<1> QED BY <1>1, TypeCorrect, SignedIsVerified, PTL

-------------------------------------------------------------------------------
(* A tree is damaged by a failure only. *)
CrashInv == (damaged => SomethingFailed) /\ CrashHasCause

LEMMA NextCrash ==
  ASSUME TypeOK, InControl, CrashInv, [Next]_vars
  PROVE  CrashInv'
<1>0. faults \in 0..MaxFaults /\ LoadTypeOK
  BY DEF TypeOK, LoadTypeOK
<1>1. Fault \/ UNCHANGED faults
  BY <1>0, LoadFrame, OtherSteps DEF Loading
<1>2. /\ SomethingFailed => SomethingFailed'
      /\ Fault => SomethingFailed'
  BY <1>0, <1>1, FailedStays
<1>3. damaged' => SomethingFailed'
  <2>1. CASE MergesNothing
    BY <1>2, <2>1 DEF MergesNothing, CrashInv
  <2>2. ASSUME NEW entry, Merging(entry) PROVE damaged' => SomethingFailed'
    BY <1>2, <2>2, MergesEffect DEF Merging, CrashInv
  <2> QED BY <2>1, <2>2, MergesOrNot
<1>4. CrashHasCause'
  <2>1. CASE Crashes
    <3> SUFFICES ASSUME ~SomethingFailed'
                 PROVE  AboutToMerge'.shape = "ROOTLESS" /\ Admitted(AboutToMerge)'
      BY DEF CrashHasCause
    <3>0. ~Fault /\ ~SomethingFailed /\ ~damaged
      BY <1>2 DEF CrashInv
    <3>1. UNCHANGED <<disk, load, mergedSigned>> /\ Location' = Location
      BY <2>1, CrashEffect DEF Location
    <3>2. AboutToMerge' = AboutToMerge /\ (Admitted(AboutToMerge)' <=> Admitted(AboutToMerge))
      BY <3>1 DEF AboutToMerge, Here, Admitted
    <3>3. CASE MergeGivenCrashes
      <4>1. AboutToMerge = Location.config
        BY <3>3 DEF MergeGivenCrashes, ConfigGiven, AtLocation, AboutToMerge
      <4>2. Admitted(GivenEntry) /\ Location.config.shape = "ROOTLESS"
        BY <3>0, <3>3 DEF MergeGivenCrashes, MergeCrashes, FollowsNull
      <4> QED BY <3>2, <4>1, <4>2 DEF Admitted, GivenEntry
    <3>4. CASE MergeLoadedCrashes
      <4>1. AboutToMerge = [signed |-> load.isSigned, shape |-> Here.shape]
        BY <3>4 DEF MergeLoadedCrashes, LoadEnded, AboutToMerge
      <4>2. Admitted(LoadedEntry) /\ Here.shape = "ROOTLESS"
        BY <3>0, <3>4 DEF MergeLoadedCrashes, MergeCrashes, FollowsNull
      <4> QED BY <3>2, <4>1, <4>2 DEF Admitted, LoadedEntry
    <3>5. ~EntryCrashes /\ ~LoadCrashes
      BY <3>0 DEF EntryCrashes, LoadCrashes
    <3> QED BY <2>1, <3>3, <3>4, <3>5 DEF Crashes
  <2>2. CASE ~Crashes /\ call.pc = "CRASHED"
    <3>1. UNCHANGED vars
      BY <2>2
         DEF Next, Crashes, CallLoadAndMerge, CallFails, SkipLocation, NoPathGiven, NoConfigGiven,
             MergeGiven, MergeGivenStops, MergeGivenFails, ConfigGiven, OpenDirectory, ListFails,
             OpendirFails, LoadFile, LoadEntry, Loading, NotLoaded, MergeLoaded, MergeLoadedFails,
             LoadEnded, CloseDirectory, Return, AtLocation, Running
    <3> QED
      BY <3>1
         DEF vars, loadVars, ownVars, historyVars, CrashInv, CrashHasCause, SomethingFailed,
             AboutToMerge, Admitted, Here, Location
  <2>3. CASE ~Crashes /\ call.pc # "CRASHED"
    <3>1. call'.pc # "CRASHED"
      <4>0. ASSUME NEW res, EndConfig(res) \/ EndLocation(res) PROVE call'.pc = call.pc
        BY <4>0 DEF EndConfig, EndLocation, TypeOK
      <4>1. CASE CallLoadAndMerge \/ CallFails \/ SkipLocation \/ Return
        BY <2>3, <4>1 DEF CallLoadAndMerge, CallFails, SkipLocation, Return, TypeOK
      <4>2. CASE \/ NoPathGiven \/ ListFails \/ CloseDirectory
                 \/ NoConfigGiven \/ OpendirFails \/ NotLoaded
        BY <2>3, <4>0, <4>2
           DEF NoPathGiven, ListFails, CloseDirectory, NoConfigGiven, OpendirFails, NotLoaded
      <4>3. CASE MergeSteps
        <5>1. \E entry : Merges(entry)
          BY <4>3, MergeStepsMerge DEF Merging
        <5>2. \E res : EndConfig(res)
          BY <5>1, MergesEffect
        <5> QED BY <2>3, <4>0, <5>2
      <4>4. CASE OpenDirectory \/ LoadFile \/ LoadEntry \/ Loading \/ UNCHANGED vars
        BY <2>3, <4>4 DEF OpenDirectory, LoadFile, LoadEntry, Loading, ownVars, vars
      <4> QED BY <2>3, <4>1, <4>2, <4>3, <4>4 DEF Next, MergeSteps, Crashes
    <3> QED BY <3>1 DEF CrashHasCause
  <2> QED BY <2>1, <2>2, <2>3
<1> QED BY <1>3, <1>4 DEF CrashInv

(* For every list of locations the process ends in the call only after a     *)
(* failure, or for a configuration with a node without a key "root" above    *)
(* it that the merge rule lets in (path_helper.c:151).                       *)
THEOREM CrashesHaveCauses == Spec => []CrashHasCause
<1>1. Init => CrashInv
  BY DEF Init, CrashInv, CrashHasCause
<1>2. LoadInv /\ CrashInv /\ [Next]_vars => CrashInv'
  BY NextCrash DEF LoadInv
<1>3. CrashInv => CrashHasCause
  BY DEF CrashInv
<1> QED BY <1>1, <1>2, <1>3, InitLoadInv, NextLoadInv, PTL DEF Spec

-------------------------------------------------------------------------------
(* The statuses of the two loops, and what they say of the call so far. *)
Said(status) == call.status = status \/ (InDirectory /\ dir.result = status)

InvalidIsSaid == "INVALID_SIGNATURE" \in tried <=> Said("INVALID_SIGNATURE")
OKIsMerged == Said("OK") => merged # <<>>
MergedIsSaid ==
  merged # <<>> =>
    \/ call.status # "NOT_FOUND"
    \/ InDirectory /\ dir.result \in {"OK", "INVALID_SIGNATURE"}

StatusInv == InvalidIsSaid /\ OKIsMerged /\ (MaxFaults = 0 => MergedIsSaid)

(* The fold of the statuses of the locations, and of those of the files. *)
LEMMA WorstStatusFacts ==
  ASSUME NEW status, NEW res
  PROVE  /\ WorstStatus(status, res) = "INVALID_SIGNATURE" <=>
              status = "INVALID_SIGNATURE" \/ res = "INVALID_SIGNATURE"
         /\ WorstStatus(status, res) = "OK" => status = "OK" \/ res = "OK"
         /\ WorstStatus(status, res) = "NOT_FOUND" => status = "NOT_FOUND"
         /\ res \in {"OK", "INVALID_SIGNATURE"} => WorstStatus(status, res) # "NOT_FOUND"
BY DEF WorstStatus

LEMMA BestStatusFacts ==
  ASSUME NEW status, NEW res
  PROVE  /\ BestStatus(status, res) = "INVALID_SIGNATURE" <=>
              status = "INVALID_SIGNATURE" \/ res = "INVALID_SIGNATURE"
         /\ BestStatus(status, res) = "OK" => status = "OK" \/ res = "OK"
         /\ status \in {"OK", "INVALID_SIGNATURE"} \/ res = "OK" =>
              BestStatus(status, res) \in {"OK", "INVALID_SIGNATURE"}
BY DEF BestStatus

LEMMA EndLocationStatus ==
  ASSUME CallType, NEW res, EndLocation(res)
  PROVE  call'.status = WorstStatus(call.status, res)
BY DEF CallType, EndLocation

(* A configuration is done; OK is said of merged ones, and, unless something *)
(* failed, of all of them.                                                   *)
LEMMA EndConfigStatus ==
  ASSUME TypeOK, StatusInv, NEW res, EndConfig(res),
         merged' = merged \/ merged' # <<>>,
         res = "OK" => merged' # <<>>,
         MaxFaults = 0 /\ merged' # merged => res = "OK"
  PROVE  StatusInv'
<1>0. tried' = tried \cup {res} /\ dir.at \in Nat
  BY DEF EndConfig, TypeOK
<1>1. CASE InDirectory
  <2>1. UNCHANGED call /\ dir'.result = BestStatus(dir.result, res) /\ dir'.at = dir.at + 1
    BY <1>1 DEF EndConfig, TypeOK
  <2>2. InDirectory'
    BY <1>0, <1>1, <2>1 DEF InDirectory
  <2>3. InvalidIsSaid' /\ OKIsMerged'
    BY <1>0, <1>1, <2>1, <2>2, BestStatusFacts DEF StatusInv, InvalidIsSaid, OKIsMerged, Said
  <2>4. ASSUME MaxFaults = 0 PROVE MergedIsSaid'
    BY <1>1, <2>1, <2>2, <2>4, BestStatusFacts DEF StatusInv, MergedIsSaid
  <2> QED BY <2>3, <2>4 DEF StatusInv
<1>2. CASE ~InDirectory
  <2>1. EndLocation(res) /\ UNCHANGED dir
    BY <1>2 DEF EndConfig
  <2>2. call'.status = WorstStatus(call.status, res) /\ ~InDirectory'
    BY <1>2, <2>1, EndLocationStatus, TypeParts DEF OwnTypes, InDirectory
  <2>3. InvalidIsSaid' /\ OKIsMerged'
    BY <1>0, <1>2, <2>2, WorstStatusFacts DEF StatusInv, InvalidIsSaid, OKIsMerged, Said
  <2>4. ASSUME MaxFaults = 0 PROVE MergedIsSaid'
    BY <1>2, <2>2, <2>4, WorstStatusFacts DEF StatusInv, MergedIsSaid
  <2> QED BY <2>3, <2>4 DEF StatusInv
<1> QED BY <1>1, <1>2

LEMMA NextStatus ==
  ASSUME LoadInv, StatusInv, [Next]_vars
  PROVE  StatusInv'
<1>0. /\ TypeOK /\ InControl /\ CallType /\ MergedType /\ faults \in 0..MaxFaults
  BY TypeParts DEF LoadInv, OwnTypes, TypeOK, LoadTypeOK
<1>1. CASE CallLoadAndMerge \/ SkipLocation \/ Return
  <2>1. call'.status = call.status /\ UNCHANGED <<dir, merged, tried>>
    BY <1>0, <1>1 DEF CallLoadAndMerge, SkipLocation, Return, CallType, historyVars
  <2> QED BY <2>1 DEF StatusInv, InvalidIsSaid, OKIsMerged, MergedIsSaid, Said, InDirectory
<1>2. CASE CallFails
  <2>1. /\ call'.status = "ERROR" /\ call.status = "NOT_FOUND" /\ UNCHANGED <<dir, merged, tried>>
        /\ merged = <<>> /\ tried = {} /\ ~InDirectory /\ call.pc = "IDLE"
    BY <1>0, <1>2 DEF CallFails, CallType, historyVars, InControl
  <2> QED BY <2>1 DEF StatusInv, InvalidIsSaid, OKIsMerged, MergedIsSaid, Said, InDirectory
<1>3. CASE NoPathGiven \/ ListFails
  <2>1. PICK res \in {"NOT_FOUND", "ERROR"} : EndLocation(res)
    BY <1>3 DEF NoPathGiven, ListFails
  <2>2. ~InDirectory /\ UNCHANGED <<dir, merged, tried>>
    BY <1>3 DEF NoPathGiven, ListFails, AtLocation
  <2>3. call'.status = WorstStatus(call.status, res)
    BY <1>0, <2>1, EndLocationStatus
  <2> QED
    BY <2>2, <2>3, WorstStatusFacts
       DEF StatusInv, InvalidIsSaid, OKIsMerged, MergedIsSaid, Said, InDirectory
<1>4. CASE CloseDirectory
  <2>1. call'.status = WorstStatus(call.status, dir.result)
    BY <1>0, <1>4, EndLocationStatus DEF CloseDirectory
  <2>2. InDirectory /\ ~InDirectory' /\ UNCHANGED <<merged, tried>>
    BY <1>4 DEF CloseDirectory, InDirectory, NoDir
  <2> QED
    BY <2>1, <2>2, WorstStatusFacts DEF StatusInv, InvalidIsSaid, OKIsMerged, MergedIsSaid, Said
<1>5. CASE OpenDirectory
  <2>1. /\ ~InDirectory /\ UNCHANGED <<call, merged, tried>>
        /\ dir'.result = "NOT_FOUND"
    BY <1>5 DEF OpenDirectory, AtLocation
  <2> QED BY <2>1 DEF StatusInv, InvalidIsSaid, OKIsMerged, MergedIsSaid, Said
<1>6. CASE NoConfigGiven \/ OpendirFails \/ NotLoaded
  <2>1. PICK res : EndConfig(res) /\ res # "OK"
    BY <1>6 DEF NoConfigGiven, OpendirFails, NotLoaded
  <2>2. UNCHANGED merged
    BY <1>6 DEF NoConfigGiven, OpendirFails, NotLoaded
  <2> QED BY <1>0, <2>1, <2>2, EndConfigStatus
<1>7. ASSUME NEW entry, Merging(entry)
      PROVE  StatusInv'
  <2>1. Append(merged, entry) # <<>>
    <3>1. /\ entry \in Entry
          /\ Len(Append(merged, entry)) = Len(merged) + 1 /\ Len(merged) \in Nat
      BY <1>0, <1>7 DEF MergedType, Merging
    <3> QED BY <3>1
  <2>2. \/ merged' = merged /\ EndConfig("OVERWRITE_NOT_ALLOWED")
        \/ merged' = Append(merged, entry) /\ \E res : EndConfig(res) /\ (res = "OK" \/ Fault)
    BY <1>7, MergesEffect DEF Merging
  <2>3. Fault => MaxFaults # 0
    BY <1>0 DEF Fault
  <2> QED BY <1>0, <2>1, <2>2, <2>3, EndConfigStatus
<1>8. CASE LoadFile \/ LoadEntry \/ Loading \/ UNCHANGED vars
  <2>1. UNCHANGED <<call, dir, merged, tried>>
    BY <1>8 DEF LoadFile, LoadEntry, Loading, ownVars, historyVars, vars
  <2> QED BY <2>1 DEF StatusInv, InvalidIsSaid, OKIsMerged, MergedIsSaid, Said, InDirectory
<1>9. CASE MergeSteps
  BY <1>0, <1>7, <1>9, MergeStepsMerge
<1>10. CASE Crashes
  <2>1. call'.status = call.status /\ UNCHANGED <<dir, merged, tried>>
    BY <1>0, <1>10, CrashEffect DEF historyVars
  <2> QED BY <2>1 DEF StatusInv, InvalidIsSaid, OKIsMerged, MergedIsSaid, Said, InDirectory
<1> QED
  BY <1>1, <1>2, <1>3, <1>4, <1>5, <1>6, <1>8, <1>9, <1>10 DEF Next, MergeSteps, Crashes

LEMMA StatusInvariant == Spec => [](LoadInv /\ StatusInv)
<1>1. Init => StatusInv
  BY DEF Init, NoDir, StatusInv, InvalidIsSaid, OKIsMerged, MergedIsSaid, Said, InDirectory
<1>2. LoadInv /\ StatusInv /\ [Next]_vars => StatusInv'
  BY NextStatus
<1> QED BY <1>1, <1>2, InitLoadInv, NextLoadInv, PTL DEF Spec

(* With any failures INVALID_SIGNATURE is returned if and only if something  *)
(* tried had an invalid signature, and OK only if something was merged.      *)
InvalidOrOKIsTrue ==
  Returned =>
    /\ call.status = "INVALID_SIGNATURE" <=> "INVALID_SIGNATURE" \in tried
    /\ call.status = "OK" => merged # <<>>

THEOREM StatusIsTrueOfFailures == Spec => []InvalidOrOKIsTrue
<1>1. LoadInv /\ StatusInv => InvalidOrOKIsTrue
  BY DEF LoadInv, InControl, StatusInv, InvalidIsSaid, OKIsMerged, Said, InvalidOrOKIsTrue, Returned
<1> QED BY <1>1, StatusInvariant, PTL

(* Without failures NOT_FOUND is returned only if nothing was merged, too.   *)
(* A merge that fails in a directory leaves a part of a configuration behind *)
(* and no trace in the status (samconf.c:211-224).                           *)
THEOREM StatusIsTrueWithoutFailures ==
  ASSUME MaxFaults = 0
  PROVE  Spec => []StatusIsTrue
<1>1. LoadInv /\ StatusInv => StatusIsTrue
  BY DEF LoadInv, InControl, StatusInv, InvalidIsSaid, OKIsMerged, MergedIsSaid, Said,
         StatusIsTrue, Returned
<1> QED BY <1>1, StatusInvariant, PTL

-------------------------------------------------------------------------------
(* What FirstOf chooses. *)
LEMMA FirstOfFound ==
  ASSUME NEW ranking \in Seq(Statuses), NEW statuses, NEW k \in DOMAIN ranking,
         ranking[k] \in statuses, \A j \in DOMAIN ranking : ranking[j] \in statuses => k <= j
  PROVE  FirstOf(ranking, statuses) = ranking[k]
<1> DEFINE hits == {i \in 1..Len(ranking) : ranking[i] \in statuses}
<1>1. k \in hits /\ \A j \in hits : k <= j
  OBVIOUS
<1>2. hits \subseteq Int
  OBVIOUS
<1>3. Min(hits) = k
  BY <1>1, <1>2 DEF Min
<1>4. SelectInSeq(ranking, LAMBDA s : s \in statuses) = k
  BY <1>1, <1>3 DEF SelectInSeq
<1>5. k # 0
  OBVIOUS
<1> QED BY <1>4, <1>5 DEF FirstOf

LEMMA FirstOfNone ==
  ASSUME NEW ranking \in Seq(Statuses), NEW statuses,
         \A j \in DOMAIN ranking : ranking[j] \notin statuses
  PROVE  FirstOf(ranking, statuses) = ranking[Len(ranking)]
<1>1. {i \in 1..Len(ranking) : ranking[i] \in statuses} = {}
  OBVIOUS
<1>2. SelectInSeq(ranking, LAMBDA s : s \in statuses) = 0
  BY <1>1 DEF SelectInSeq
<1> QED BY <1>2 DEF FirstOf, Last

LocationRanking == <<"INVALID_SIGNATURE", "ERROR", "OK", "NOT_FOUND">>
FileRanking ==
  <<"INVALID_SIGNATURE", "OK", "OVERWRITE_NOT_ALLOWED", "SIGNATURE_NOT_FOUND", "NOT_FOUND">>

LEMMA Rankings ==
  /\ LocationRanking \in Seq(Statuses) /\ DOMAIN LocationRanking = 1..4
  /\ Len(LocationRanking) = 4
  /\ FileRanking \in Seq(Statuses) /\ DOMAIN FileRanking = 1..5
  /\ Len(FileRanking) = 5
BY DEF LocationRanking, FileRanking, Statuses

(* The same without positions. *)
Worst(statuses) ==
  CASE "INVALID_SIGNATURE" \in statuses -> "INVALID_SIGNATURE"
    [] "INVALID_SIGNATURE" \notin statuses /\ "ERROR" \in statuses -> "ERROR"
    [] statuses \cap {"INVALID_SIGNATURE", "ERROR"} = {} /\ "OK" \in statuses -> "OK"
    [] OTHER -> "NOT_FOUND"

Best(statuses) ==
  CASE "INVALID_SIGNATURE" \in statuses -> "INVALID_SIGNATURE"
    [] "INVALID_SIGNATURE" \notin statuses /\ "OK" \in statuses -> "OK"
    [] statuses \cap {"INVALID_SIGNATURE", "OK"} = {}
         /\ "OVERWRITE_NOT_ALLOWED" \in statuses -> "OVERWRITE_NOT_ALLOWED"
    [] statuses \cap {"INVALID_SIGNATURE", "OK", "OVERWRITE_NOT_ALLOWED"} = {}
         /\ "SIGNATURE_NOT_FOUND" \in statuses -> "SIGNATURE_NOT_FOUND"
    [] OTHER -> "NOT_FOUND"

LEMMA WorstIsFirst ==
  ASSUME NEW statuses
  PROVE  FirstOf(LocationRanking, statuses) = Worst(statuses)
<1> DEFINE r == LocationRanking
<1>0. r[1] = "INVALID_SIGNATURE" /\ r[2] = "ERROR" /\ r[3] = "OK" /\ r[4] = "NOT_FOUND"
  BY DEF LocationRanking
<1> HIDE DEF r
<1>1. \A k \in 1..4 : r[k] \in statuses /\ (\A j \in 1..4 : r[j] \in statuses => k <= j)
        => FirstOf(r, statuses) = r[k]
  BY Rankings, FirstOfFound DEF r
<1>2. (\A j \in 1..4 : r[j] \notin statuses) => FirstOf(r, statuses) = r[4]
  BY Rankings, FirstOfNone DEF r
<1>3. FirstOf(r, statuses) = Worst(statuses)
  <2>1. CASE r[1] \in statuses
    BY <1>0, <1>1, <2>1 DEF Worst
  <2>2. CASE r[1] \notin statuses /\ r[2] \in statuses
    BY <1>0, <1>1, <2>2 DEF Worst
  <2>3. CASE r[1] \notin statuses /\ r[2] \notin statuses /\ r[3] \in statuses
    BY <1>0, <1>1, <2>3 DEF Worst
  <2>4. CASE r[1] \notin statuses /\ r[2] \notin statuses /\ r[3] \notin statuses
    BY <1>0, <1>1, <1>2, <2>4 DEF Worst
  <2> QED BY <2>1, <2>2, <2>3, <2>4
<1> QED BY <1>3 DEF r

LEMMA BestIsFirst ==
  ASSUME NEW statuses
  PROVE  FirstOf(FileRanking, statuses) = Best(statuses)
<1> DEFINE r == FileRanking
<1>0. /\ r[1] = "INVALID_SIGNATURE" /\ r[2] = "OK" /\ r[3] = "OVERWRITE_NOT_ALLOWED"
      /\ r[4] = "SIGNATURE_NOT_FOUND" /\ r[5] = "NOT_FOUND"
  BY DEF FileRanking
<1> HIDE DEF r
<1>1. \A k \in 1..5 : r[k] \in statuses /\ (\A j \in 1..5 : r[j] \in statuses => k <= j)
        => FirstOf(r, statuses) = r[k]
  BY Rankings, FirstOfFound DEF r
<1>2. (\A j \in 1..5 : r[j] \notin statuses) => FirstOf(r, statuses) = r[5]
  BY Rankings, FirstOfNone DEF r
<1>3. FirstOf(r, statuses) = Best(statuses)
  <2>1. CASE r[1] \in statuses
    BY <1>0, <1>1, <2>1 DEF Best
  <2>2. CASE r[1] \notin statuses /\ r[2] \in statuses
    BY <1>0, <1>1, <2>2 DEF Best
  <2>3. CASE r[1] \notin statuses /\ r[2] \notin statuses /\ r[3] \in statuses
    BY <1>0, <1>1, <2>3 DEF Best
  <2>4. CASE /\ r[1] \notin statuses /\ r[2] \notin statuses /\ r[3] \notin statuses
             /\ r[4] \in statuses
    BY <1>0, <1>1, <2>4 DEF Best
  <2>5. CASE /\ r[1] \notin statuses /\ r[2] \notin statuses /\ r[3] \notin statuses
             /\ r[4] \notin statuses
    BY <1>0, <1>1, <1>2, <2>5 DEF Best
  <2> QED BY <2>1, <2>2, <2>3, <2>4, <2>5
<1> QED BY <1>3 DEF r

(* One more status, whatever it is, does what the ranking says. *)
LEMMA FoldIsRanking ==
  ASSUME NEW statuses, NEW res
  PROVE  /\ WorstStatus(Worst(statuses), res) = Worst(statuses \cup {res})
         /\ BestStatus(Best(statuses), res) = Best(statuses \cup {res})
<1>1. WorstStatus(Worst(statuses), res) = Worst(statuses \cup {res})
  BY DEF WorstStatus, Worst
<1>2. BestStatus(Best(statuses), res) = Best(statuses \cup {res})
  BY DEF BestStatus, Best
<1> QED BY <1>1, <1>2

RankInv ==
  /\ call.pc = "IDLE" => outcomes = {} /\ call.locations = <<>>
  /\ call.pc # "IDLE" /\ call.locations # <<>> => call.status = Worst(outcomes)
  /\ InDirectory => dir.result = Best(entries)

LEMMA EndLocationRank ==
  ASSUME TypeOK, RankInv, call.pc = "RUN", NEW res, EndLocation(res), ~InDirectory'
  PROVE  RankInv'
<1>1. /\ call'.pc = "RUN" /\ call'.locations = call.locations
      /\ call'.status = WorstStatus(call.status, res) /\ outcomes' = outcomes \cup {res}
  BY EndLocationStatus DEF EndLocation, TypeOK
<1> QED BY <1>1, FoldIsRanking DEF RankInv

LEMMA EndConfigRank ==
  ASSUME TypeOK, RankInv, call.pc = "RUN", NEW res, EndConfig(res)
  PROVE  RankInv'
<1>1. CASE InDirectory
  <2>1. /\ UNCHANGED <<call, outcomes>> /\ entries' = entries \cup {res}
        /\ dir'.result = BestStatus(dir.result, res)
    BY <1>1 DEF EndConfig, TypeOK
  <2> QED BY <1>1, <2>1, FoldIsRanking DEF RankInv
<1>2. CASE ~InDirectory
  BY <1>2, EndLocationRank DEF EndConfig, InDirectory
<1> QED BY <1>1, <1>2

LEMMA NextRank ==
  ASSUME TypeOK, InControl, RankInv, [Next]_vars
  PROVE  RankInv'
<1>0. Worst({}) = "NOT_FOUND" /\ Best({}) = "NOT_FOUND"
  BY DEF Worst, Best
<1>1. CASE CallLoadAndMerge
  <2>1. /\ call.pc = "IDLE" /\ call'.pc = "RUN" /\ call'.status = "NOT_FOUND"
        /\ UNCHANGED <<dir, outcomes>>
    BY <1>1 DEF CallLoadAndMerge, historyVars, InControl, TypeOK
  <2> QED BY <1>0, <2>1 DEF RankInv, InControl, InDirectory
<1>2. CASE CallFails
  <2>1. /\ call'.pc = "DONE" /\ call'.locations = <<>> /\ UNCHANGED <<dir, entries>>
    BY <1>2 DEF CallFails, historyVars, RankInv, TypeOK
  <2> QED BY <2>1 DEF RankInv, InDirectory
<1>3. CASE SkipLocation \/ Return
  <2>1. /\ call.pc = "RUN" /\ call'.pc # "IDLE" /\ call'.locations = call.locations
        /\ call'.status = call.status /\ UNCHANGED <<dir, outcomes, entries>>
    BY <1>3 DEF SkipLocation, Return, AtLocation, Running, historyVars, TypeOK
  <2> QED BY <2>1 DEF RankInv, InDirectory
<1>4. CASE NoPathGiven \/ ListFails
  <2>1. ~InDirectory' /\ call.pc = "RUN" /\ \E res : EndLocation(res)
    BY <1>4 DEF NoPathGiven, ListFails, AtLocation, Running, InDirectory
  <2> QED BY <2>1, EndLocationRank
<1>5. CASE CloseDirectory
  <2>1. ~InDirectory' /\ call.pc = "RUN" /\ \E res : EndLocation(res)
    BY <1>5 DEF CloseDirectory, Running, InDirectory, NoDir
  <2> QED BY <2>1, EndLocationRank
<1>6. CASE OpenDirectory
  <2>1. /\ UNCHANGED <<call, outcomes>>
        /\ dir'.result = "NOT_FOUND" /\ entries' = {}
    BY <1>6 DEF OpenDirectory
  <2> QED BY <1>0, <2>1 DEF RankInv
<1>7. CASE NoConfigGiven \/ OpendirFails \/ NotLoaded
  <2>1. call.pc = "RUN" /\ \E res : EndConfig(res)
    BY <1>7 DEF NoConfigGiven, OpendirFails, NotLoaded, LoadEnded, AtLocation, Running
  <2> QED BY <2>1, EndConfigRank
<1>8. CASE MergeSteps
  <2>1. call.pc = "RUN" /\ \E res : EndConfig(res)
    BY <1>8, MergeStepsMerge, MergesEffect DEF Merging
  <2> QED BY <2>1, EndConfigRank
<1>9. CASE LoadFile \/ LoadEntry \/ Loading \/ UNCHANGED vars
  <2>1. UNCHANGED <<call, dir, outcomes, entries>>
    BY <1>9 DEF LoadFile, LoadEntry, Loading, ownVars, historyVars, vars
  <2> QED BY <2>1 DEF RankInv, InDirectory
<1>10. CASE Crashes
  <2>1. /\ call.pc = "RUN" /\ call'.pc = "CRASHED" /\ call'.locations = call.locations
        /\ call'.status = call.status /\ UNCHANGED <<dir, outcomes, entries>>
    BY <1>10, CrashEffect DEF historyVars
  <2> QED BY <2>1 DEF RankInv, InDirectory
<1> QED
  BY <1>1, <1>2, <1>3, <1>4, <1>5, <1>6, <1>7, <1>8, <1>9, <1>10 DEF Next, MergeSteps, Crashes

(* The two loops (samconf.c:211-224, 299-306) fold statuses into a ranking:  *)
(* for every list of locations and every failure the order plays no part.    *)
THEOREM StatusIsRanked == Spec => []StatusIgnoresOrder
<1>1. Init => RankInv
  BY DEF Init, NoDir, RankInv, InDirectory
<1>2. LoadInv /\ RankInv /\ [Next]_vars => RankInv'
  BY NextRank DEF LoadInv
<1>3. RankInv => StatusIgnoresOrder
  BY WorstIsFirst, BestIsFirst DEF RankInv, StatusIgnoresOrder, LocationRanking, FileRanking
<1> QED BY <1>1, <1>2, <1>3, InitLoadInv, NextLoadInv, PTL DEF Spec
===============================================================================

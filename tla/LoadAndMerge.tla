----------------------------- MODULE LoadAndMerge ------------------------------
(***************************************************************************)
(* samconfLoadAndMerge: the configurations of a list of locations are      *)
(* loaded and merged, one after the other, into the tree of the caller.  A *)
(* location is a configuration the caller has, a file or a directory, all  *)
(* files of which are tried in alphabetical order.  Errors do not end the  *)
(* call; they are folded into the one status it returns.                   *)
(*                                                                         *)
(* The merge of one configuration is a single step here: it answers by the *)
(* merge rule and marks the tree, stops in the middle, or takes the        *)
(* process with it.  Merge is about what happens inside.                   *)
(***************************************************************************)
EXTENDS ConfigLoad, Integers, SequencesExt

CONSTANTS
  Configs,      \* the configurations the caller may have, a subset of Config
  Directories,  \* the directories, numbered as well: the regular files in each
  MaxLocations  \* bound on the list of locations

(* What a merge meets in a configuration of the caller: only nodes it can     *)
(* merge; one without a key, or without a key "root" above it, first; or a    *)
(* string that is missing first, as after an earlier failure.                 *)
Config == [signed : BOOLEAN, shape : {"WHOLE", "ROOTLESS", "STRINGLESS"}]

ASSUME ConfigsAssumption == Configs \subseteq Config
ASSUME DirectoriesAssumption ==
  /\ Directories \in [DOMAIN Directories -> SUBSET Files]
  /\ \A d \in DOMAIN Directories : IsFiniteSet(Directories[d])
  /\ DOMAIN Directories \subseteq Nat \ ({0} \cup Files)
ASSUME MaxLocationsAssumption == MaxLocations \in Nat

VARIABLES
  call,         \* the locals of samconfLoadAndMerge
  dir,          \* the locals of _extendWithDirectory
  mergedSigned, \* (*config)->isSigned
  outcomes,     \* history: the statuses of the locations of this call
  entries,      \* history: the statuses of the files of this directory
  tried,        \* history: the statuses of all files and configurations of this call
  merged,       \* history: what was merged in this call
  cut,          \* history: a merge of a signed configuration ended early
  damaged       \* history: a failed merge may have cost the tree a child list

historyVars == <<outcomes, entries, tried, merged, cut, damaged>>
ownVars == <<call, dir, mergedSigned, historyVars>>
vars == <<loadVars, ownVars>>

NullPath == 0
NullConfig == [signed |-> FALSE, shape |-> "NULL"]

PathAt(path, enforce) == [type |-> "PATH", path |-> path, enforce |-> enforce, config |-> NullConfig]
ConfigAt(config) == [type |-> "CONFIG", path |-> NullPath, enforce |-> FALSE, config |-> config]
InvalidLocation == [type |-> "NONE", path |-> NullPath, enforce |-> FALSE, config |-> NullConfig]

Locations ==
  {PathAt(p, e) : p \in Files \cup DOMAIN Directories \cup {NullPath}, e \in BOOLEAN}
    \cup {ConfigAt(c) : c \in Configs \cup {NullConfig}} \cup {InvalidLocation}

(* The history of a configuration that was merged: for which location, which *)
(* file (0 for the caller's), as a signed one, with data that were read.     *)
Entry == [at : Nat, file : Files \cup {0}, signed : BOOLEAN, dataRead : BOOLEAN]

NoDir == [files |-> <<>>, at |-> 0, result |-> "NOT_FOUND"]

TypeOK ==
  /\ LoadTypeOK
  /\ call \in [pc : {"IDLE", "RUN", "DONE", "CRASHED"}, locations : Seq(Locations), at : Nat \ {0},
               status : Statuses]
  /\ dir \in [files : Seq(Files), at : Nat, result : Statuses]
  /\ mergedSigned \in BOOLEAN
  /\ outcomes \subseteq Statuses /\ entries \subseteq Statuses /\ tried \subseteq Statuses
  /\ merged \in Seq(Entry)
  /\ cut \in BOOLEAN /\ damaged \in BOOLEAN

(* The caller has a tree already, which may be signed, or gets a new one. *)
Init ==
  /\ LoadInit
  /\ \A d \in DOMAIN Directories : \A f \in Directories[d] : disk[f].content # "ABSENT"
  /\ call = [pc |-> "IDLE", locations |-> <<>>, at |-> 1, status |-> "NOT_FOUND"]
  /\ dir = NoDir
  /\ mergedSigned \in BOOLEAN
  /\ outcomes = {} /\ entries = {} /\ tried = {}
  /\ merged = <<>>
  /\ cut = FALSE /\ damaged = FALSE

-------------------------------------------------------------------------------
Running == call.pc = "RUN" /\ call.at <= Len(call.locations)
InDirectory == dir.at > 0
Location == call.locations[call.at]

(* At the start of a round of the loop over the locations. *)
AtLocation(type) == Running /\ ~InDirectory /\ load.pc = "IDLE" /\ Location.type = type

(* Slips: an error hides an invalid signature; the last directory entry wins. *)
WorstStatusErrorFirst(status, res) ==
  CASE res \in {"INVALID_SIGNATURE", "ERROR"} -> res
    [] res = "OK" /\ status = "NOT_FOUND"     -> "OK"
    [] OTHER                                  -> status
BestStatusLastWins(status, res) ==
  IF res \in {"INVALID_SIGNATURE", "OK", "OVERWRITE_NOT_ALLOWED", "SIGNATURE_NOT_FOUND"}
  THEN res ELSE status

(* How samconfLoadAndMerge folds the status of a location into its own. *)
WorstStatus(status, res) ==
  CASE res = "INVALID_SIGNATURE"                          -> res
    [] res = "ERROR" /\ status # "INVALID_SIGNATURE"      -> res
    [] res = "OK" /\ status = "NOT_FOUND"                 -> res
    [] OTHER                                              -> status

(* How _extendWithDirectory folds the status of a file into its own: other *)
(* statuses of a file than these four leave no trace.                      *)
BestStatus(status, res) ==
  CASE res = "INVALID_SIGNATURE"                          -> res
    [] res = "OK" /\ status # "INVALID_SIGNATURE"         -> res
    [] res = "OVERWRITE_NOT_ALLOWED" /\ status \notin {"INVALID_SIGNATURE", "OK"} -> res
    [] res = "SIGNATURE_NOT_FOUND"
         /\ status \notin {"INVALID_SIGNATURE", "OK", "OVERWRITE_NOT_ALLOWED"} -> res
    [] OTHER                                              -> status

EndLocation(res) ==
  /\ call' = [call EXCEPT !.at = @ + 1, !.status = WorstStatus(@, res)]
  /\ outcomes' = outcomes \cup {res}

(* Slip: a file that cannot be loaded is left without a step to the next one. *)
EndConfigOnlyOK(res) ==
  /\ tried' = tried \cup {res}
  /\ IF InDirectory
     THEN /\ dir' = [dir EXCEPT !.at = IF res = "OK" THEN @ + 1 ELSE @]
          /\ entries' = entries \cup {res}
          /\ UNCHANGED <<call, outcomes>>
     ELSE EndLocation(res) /\ UNCHANGED <<dir, entries>>

(* A file or configuration is done with status res. *)
EndConfig(res) ==
  /\ tried' = tried \cup {res}
  /\ IF InDirectory
     THEN /\ dir' = [dir EXCEPT !.at = @ + 1, !.result = BestStatus(@, res)]
          /\ entries' = entries \cup {res}
          /\ UNCHANGED <<call, outcomes>>
     ELSE EndLocation(res) /\ UNCHANGED <<dir, entries>>

-------------------------------------------------------------------------------
(* samconfConfigMergeConfig of one configuration, in the outcomes of Merge. *)
Admitted(entry) == mergedSigned => entry.signed

(* Slip: a signed configuration does not mark the tree. *)
MergeInUnmarked(entry, shape) ==
  IF ~Admitted(entry)
  THEN EndConfig("OVERWRITE_NOT_ALLOWED") /\ UNCHANGED <<mergedSigned, merged, cut, damaged>>
  ELSE /\ shape = "WHOLE"
       /\ EndConfig("OK")
       /\ merged' = Append(merged, entry)
       /\ UNCHANGED <<mergedSigned, cut, damaged>>

MergeIn(entry, shape) ==
  IF ~Admitted(entry)
  THEN EndConfig("OVERWRITE_NOT_ALLOWED") /\ UNCHANGED <<mergedSigned, merged, cut, damaged>>
  ELSE /\ shape = "WHOLE"
       /\ EndConfig("OK")
       /\ mergedSigned' = (mergedSigned \/ entry.signed)
       /\ merged' = Append(merged, entry)
       /\ UNCHANGED <<cut, damaged>>

(* A part is merged, and the tree is not marked. *)
StopShort(entry, res) ==
  /\ Admitted(entry)
  /\ EndConfig(res)
  /\ merged' = Append(merged, entry)
  /\ cut' = (cut \/ entry.signed)
  /\ UNCHANGED mergedSigned

(* An allocation in the merge fails: the status is ERROR or, more often, OK. *)
MergeInFails(entry) ==
  /\ \E res \in {"OK", "ERROR"} : StopShort(entry, res)
  /\ damaged' = TRUE

SomethingFailed == faults < MaxFaults

(* The process is gone, and with it all but what the caller can see. *)
Crash ==
  /\ call' = [call EXCEPT !.pc = "CRASHED"]
  /\ UNCHANGED <<disk, load, live, dir, mergedSigned, historyVars>>

(* Slip: strdup of a string that is missing. *)
FollowsNullString(shape) == shape # "WHOLE"

(* samconfPathGetPath follows the parent of the top node, or strdup a key. *)
FollowsNull(shape) == shape = "ROOTLESS"

(* The merge follows a null pointer: for the shape of the configuration, for  *)
(* what an earlier failure made of the tree, or for a failure of this one or  *)
(* of the load that made the configuration.                                   *)
MergeCrashes(entry, shape) ==
  /\ Admitted(entry)
  /\ Crash
  /\ IF FollowsNull(shape) \/ damaged THEN UNCHANGED faults ELSE Fault

-------------------------------------------------------------------------------
CallLoadAndMerge ==
  /\ call.pc = "IDLE"
  /\ \E k \in 0..MaxLocations : \E locations \in [1..k -> Locations] :
       call' = [call EXCEPT !.pc = "RUN", !.locations = locations]
  /\ UNCHANGED <<loadVars, dir, mergedSigned, historyVars>>

(* samconfConfigNew fails for a caller without a tree. *)
CallFails ==
  /\ call.pc = "IDLE" /\ ~mergedSigned
  /\ Fault
  /\ call' = [call EXCEPT !.pc = "DONE", !.status = "ERROR"]
  /\ UNCHANGED <<disk, load, live, dir, mergedSigned, historyVars>>

SkipLocation ==
  /\ AtLocation("NONE")
  /\ call' = [call EXCEPT !.at = @ + 1]
  /\ UNCHANGED <<loadVars, dir, mergedSigned, historyVars>>

NoPathGiven ==
  /\ AtLocation("PATH") /\ Location.path = NullPath
  /\ EndLocation("NOT_FOUND")
  /\ UNCHANGED <<loadVars, dir, mergedSigned, entries, tried, merged, cut, damaged>>

(* The location is a configuration of the caller. *)
NoConfigGiven ==
  /\ AtLocation("CONFIG") /\ Location.config = NullConfig
  /\ EndConfig("ERROR")
  /\ UNCHANGED <<loadVars, mergedSigned, merged, cut, damaged>>

GivenEntry == [at |-> call.at, file |-> 0, signed |-> Location.config.signed, dataRead |-> FALSE]
ConfigGiven == AtLocation("CONFIG") /\ Location.config # NullConfig

MergeGiven ==
  /\ ConfigGiven
  /\ MergeIn(GivenEntry, Location.config.shape)
  /\ UNCHANGED loadVars

(* samconfConfigSetString refuses the string that is missing. *)
MergeGivenStops ==
  /\ ConfigGiven /\ Location.config.shape = "STRINGLESS"
  /\ StopShort(GivenEntry, "OK")
  /\ UNCHANGED <<loadVars, damaged>>

MergeGivenFails ==
  /\ ConfigGiven
  /\ Fault
  /\ MergeInFails(GivenEntry)
  /\ UNCHANGED <<disk, load, live>>

MergeGivenCrashes == ConfigGiven /\ MergeCrashes(GivenEntry, Location.config.shape)

(* strncmp of two names: the files are numbered in that order. *)
Strncmp(left, right) == left - right

(* Slip: only the order of the arguments is changed. *)
CmpBackwards(left, right) == Strncmp(right, left)

(* _cmp *)
Cmp(left, right) == -Strncmp(right, left)

(* What qsort makes of the names with that comparison. *)
Sorted(files) == \A i, j \in DOMAIN files : i < j => Cmp(files[i], files[j]) <= 0

(* The location is a directory: its files, sorted by _cmp. *)
OpenDirectory ==
  /\ AtLocation("PATH") /\ Location.path \in DOMAIN Directories
  /\ \E files \in SetToSeqs(Directories[Location.path]) :
       /\ Sorted(files)
       /\ dir' = [files |-> files, at |-> 1, result |-> "NOT_FOUND"]
  /\ entries' = {}
  /\ UNCHANGED <<loadVars, call, mergedSigned, outcomes, tried, merged, cut, damaged>>

(* No memory for the list of names. *)
ListFails ==
  /\ AtLocation("PATH") /\ Location.path \in DOMAIN Directories
  /\ Fault
  /\ EndLocation("ERROR")
  /\ UNCHANGED <<disk, load, live, dir, mergedSigned, entries, tried, merged, cut, damaged>>

(* A directory opendir refuses is loaded like a file that no backend claims. *)
OpendirFails ==
  /\ AtLocation("PATH") /\ Location.path \in DOMAIN Directories
  /\ Fault
  /\ EndConfig(IF Location.enforce THEN "SIGNATURE_NOT_FOUND" ELSE "NOT_FOUND")
  /\ UNCHANGED <<disk, load, live, mergedSigned, merged, cut, damaged>>

LoadFile ==
  /\ AtLocation("PATH") /\ Location.path \in Files
  /\ LoadCall(Location.path, Location.enforce)
  /\ UNCHANGED <<disk, live, faults, ownVars>>

LoadEntry ==
  /\ Running /\ InDirectory /\ dir.at <= Len(dir.files) /\ load.pc = "IDLE"
  /\ LoadCall(dir.files[dir.at], Location.enforce)
  /\ UNCHANGED <<disk, live, faults, ownVars>>

Loading == call.pc = "RUN" /\ LoadNext /\ UNCHANGED ownVars

(* _extendWithDirectory prints the path of an entry to where malloc got none. *)
EntryCrashes ==
  /\ Running /\ InDirectory /\ dir.at <= Len(dir.files) /\ load.pc = "IDLE"
  /\ Fault
  /\ Crash

(* A backend follows a null pointer after a failed allocation of its own, at  *)
(* once or when the tree it was left with is deleted.                         *)
LoadCrashes ==
  /\ call.pc = "RUN"
  /\ \/ load.pc = "OPEN" /\ load.backend = "ENV" /\ Fault
     \/ load.pc = "LOAD" /\ Fault
     \/ /\ load.pc = "DELETE" /\ load.status # "OK" /\ "tree" \in live
        /\ SomethingFailed /\ UNCHANGED faults
  /\ Crash

(* _extendWithSinglePath after samconfLoad. *)
LoadEnded == call.pc = "RUN" /\ load.pc = "DONE"

LoadedEntry ==
  [at |-> call.at, file |-> load.file, signed |-> load.isSigned, dataRead |-> load.dataRead]

NotLoaded ==
  /\ LoadEnded /\ load.status # "OK"
  /\ EndConfig(load.status)
  /\ load' = NoLoad
  /\ UNCHANGED <<disk, live, faults, mergedSigned, merged, cut, damaged>>

MergeLoaded ==
  /\ LoadEnded /\ load.status = "OK"
  /\ MergeIn(LoadedEntry, Here.shape)
  /\ load' = NoLoad
  /\ live' = live \ {"tree"}
  /\ UNCHANGED <<disk, faults>>

MergeLoadedFails ==
  /\ LoadEnded /\ load.status = "OK"
  /\ Fault
  /\ MergeInFails(LoadedEntry)
  /\ load' = NoLoad
  /\ live' = live \ {"tree"}
  /\ UNCHANGED disk

MergeLoadedCrashes ==
  LoadEnded /\ load.status = "OK" /\ MergeCrashes(LoadedEntry, Here.shape)

CloseDirectory ==
  /\ Running /\ InDirectory /\ dir.at > Len(dir.files) /\ load.pc = "IDLE"
  /\ EndLocation(dir.result)
  /\ dir' = NoDir
  /\ UNCHANGED <<loadVars, mergedSigned, entries, tried, merged, cut, damaged>>

Return ==
  /\ call.pc = "RUN" /\ call.at > Len(call.locations)
  /\ call' = [call EXCEPT !.pc = "DONE"]
  /\ UNCHANGED <<loadVars, dir, mergedSigned, historyVars>>

Next ==
  \/ CallLoadAndMerge \/ CallFails
  \/ SkipLocation \/ NoPathGiven \/ NoConfigGiven
  \/ MergeGiven \/ MergeGivenStops \/ MergeGivenFails \/ MergeGivenCrashes
  \/ OpenDirectory \/ ListFails \/ OpendirFails \/ LoadFile \/ LoadEntry \/ EntryCrashes
  \/ Loading \/ LoadCrashes \/ NotLoaded
  \/ MergeLoaded \/ MergeLoadedFails \/ MergeLoadedCrashes
  \/ CloseDirectory \/ Return

Spec == Init /\ [][Next]_vars

(* The call runs in the thread of its caller, which goes on running. *)
FairSpec == Spec /\ WF_vars(Next)

-------------------------------------------------------------------------------
(* A call of samconfLoad frees what it made: between two calls no backend    *)
(* and no tree is left, and a handle only if close failed, which the status  *)
(* of samconfLoadAndMerge need not show.  While it runs a tree or handle     *)
(* outlives no step at which the code could lose it.                         *)
LoadOwnsWhatItMade ==
  /\ load.pc = "IDLE" => live \subseteq {"handle"}
  /\ load.pc = "DONE" => ("tree" \in live) = (load.status = "OK") /\ "backend" \notin live
  /\ load.pc \in {"OPEN", "LOAD", "CLOSE", "DELETE"} => "backend" \in live

(* What a location with enforceSignature brings in is signed, also through a *)
(* directory and for every order of failures.                                *)
EnforcedIsSigned ==
  \A i \in DOMAIN merged :
    LET location == call.locations[merged[i].at]
    IN  location.type = "PATH" /\ location.enforce => merged[i].signed

(* The flag stands for "read from a signed and successfully verified source" *)
(* (ADR source_verification).  It does not: a location with a signature that *)
(* cannot be read as a file is taken for a verified one.                     *)
SignedWasVerified ==
  \A i \in DOMAIN merged :
    merged[i].signed /\ merged[i].file # 0 => disk[merged[i].file].signature = "VALID"

(* What the flag does stand for, through all of samconfLoad and both loops:  *)
(* a signature was there, and either it is right or the data it belongs to   *)
(* were never read; and this happens to a readable file only by a failure.   *)
SignedWasVerifiedOrUnread ==
  \A i \in DOMAIN merged :
    merged[i].signed /\ merged[i].file # 0 =>
      LET kind == disk[merged[i].file]
      IN  /\ kind.signature # "NONE"
          /\ merged[i].dataRead => kind.signature = "VALID"
          /\ ~merged[i].dataRead => ~kind.readable \/ SomethingFailed

(* Once a signed configuration is in, only signed ones follow, across files, *)
(* directories and locations (developer.md, merge rules 2 and 4), unless the *)
(* merge of a signed one was cut short.                                      *)
SignedThenOnlySigned ==
  \A i, j \in DOMAIN merged : i < j /\ merged[i].signed => merged[j].signed \/ cut

(* Configurations are merged in the order of the locations and, within a     *)
(* directory, of the file names: later ones have the higher priority         *)
(* (developer.md, "The Files should be sorted alphabetically").              *)
MergedInOrder ==
  \A i, j \in DOMAIN merged :
    i < j => \/ merged[i].at < merged[j].at
             \/ merged[i].at = merged[j].at /\ merged[i].file < merged[j].file

(* The first of a ranking of statuses that occurs, the last if none does. *)
FirstOf(ranking, statuses) ==
  LET i == SelectInSeq(ranking, LAMBDA s : s \in statuses)
  IN  IF i = 0 THEN Last(ranking) ELSE ranking[i]

(* The status does not depend on the order in which the outcomes came:       *)
(* locations by their worst outcome, the files of a directory by their best  *)
(* one, with an invalid signature above all.                                 *)
StatusIgnoresOrder ==
  /\ call.pc # "IDLE" /\ call.locations # <<>> =>
       call.status = FirstOf(<<"INVALID_SIGNATURE", "ERROR", "OK", "NOT_FOUND">>, outcomes)
  /\ InDirectory =>
       dir.result = FirstOf(<<"INVALID_SIGNATURE", "OK", "OVERWRITE_NOT_ALLOWED",
                              "SIGNATURE_NOT_FOUND", "NOT_FOUND">>, entries)

Returned == call.pc = "DONE" /\ call.locations # <<>>

(* The status returned agrees with what happened, through both loops         *)
(* (samconf.h, samconfLoadAndMerge): INVALID_SIGNATURE if and only if a file *)
(* tried had an invalid signature, OK only if something was merged, and      *)
(* NOT_FOUND only if nothing was.                                            *)
StatusIsTrue ==
  Returned =>
    /\ call.status = "INVALID_SIGNATURE" <=> "INVALID_SIGNATURE" \in tried
    /\ call.status = "OK" => merged # <<>>
    /\ call.status = "NOT_FOUND" => merged = <<>>

(* The configuration that is to be merged next, as its location or file has it. *)
AboutToMerge ==
  IF load.pc = "DONE" THEN [signed |-> load.isSigned, shape |-> Here.shape] ELSE Location.config

(* The process ends in a call only after a failure, or for a node without a  *)
(* key "root" above it, in a configuration that the merge rule let in        *)
(* (path_helper.c:151): a document without a top-level "root" is enough, but *)
(* an unsigned one cannot end a call whose tree is signed.                   *)
CrashHasCause ==
  call.pc = "CRASHED" =>
    SomethingFailed \/ (AboutToMerge.shape = "ROOTLESS" /\ Admitted(AboutToMerge))

(* A call returns, unless such a crash ends it: neither the loop over the    *)
(* locations nor that over the names of a directory waits for an entry that  *)
(* never comes, and after every error they go on with the next one.          *)
CallReturns == call.pc = "RUN" ~> call.pc = "DONE" \/ (call.pc = "CRASHED" /\ CrashHasCause)

(* The header says OK means that nothing failed.  It does not: the errors of *)
(* files in a directory and parse errors anywhere leave no trace.            *)
OKMeansNothingFailed ==
  Returned /\ call.status = "OK" => tried \cap {"ERROR", "PARSE_ERROR"} = {}
===============================================================================

------------------------------ MODULE ConfigLoad ------------------------------
(***************************************************************************)
(* samconfLoad: one call turns a location into a configuration tree.  The  *)
(* signature is checked, a backend is looked up, opened, asked for the     *)
(* tree, closed and deleted; each of these is an action.  What the file    *)
(* system answers is in disk, what fails for lack of memory or on an I/O   *)
(* error is an action of its own and uses up one of MaxFaults.             *)
(*                                                                         *)
(* A module with an operation that calls samconfLoad extends this one,     *)
(* starts a call with LoadCall and takes the outcome when load is DONE.    *)
(***************************************************************************)
EXTENDS Naturals, Sequences, FiniteSets

CONSTANTS
  Files,     \* the locations, numbered in the alphabetical order of their names
  Kinds,     \* what can be at a location, a subset of Kind
  Enabled,   \* the backends that are built in
  MaxFaults  \* bound on the failures of a behaviour

Backends == <<"JSON", "ENV">>

(* The file next to the location, the backends that claim it, whether it can  *)
(* be read as a file, what a backend finds there, and what samconfPathGetPath *)
(* makes of the nodes: without a key "root" above one it follows a null       *)
(* parent.  A JSON location is the file that is read; an environment location *)
(* names a file at most by accident.                                          *)
Kind == [signature : {"NONE", "VALID", "INVALID"},
         supports : SUBSET {"JSON", "ENV"},
         readable : BOOLEAN,
         content : {"ABSENT", "BROKEN", "PARTIAL", "GOOD"},
         shape : {"WHOLE", "ROOTLESS"}]

ASSUME LoadAssumption ==
  /\ Files \subseteq Nat \ {0}
  /\ Kinds \subseteq Kind
  /\ Enabled \subseteq {"JSON", "ENV"}
  /\ MaxFaults \in Nat

VARIABLES
  disk,   \* what is at each location
  load,   \* the locals of the running samconfLoad
  live,   \* the heap objects of that call that are not freed
  faults  \* the failures that may still happen

loadVars == <<disk, load, live, faults>>

Statuses == {"OK", "ERROR", "NOT_FOUND", "PARSE_ERROR", "INVALID_SIGNATURE",
             "SIGNATURE_NOT_FOUND", "OVERWRITE_NOT_ALLOWED"}

Steps == {"SIGNATURE", "DATA", "CRYPTO", "LOOKUP", "OPEN", "LOAD", "CLOSE", "DELETE"}

(* dataRead: samconfVerifySignature had the data of the location. *)
NoLoad == [pc |-> "IDLE", file |-> 0, enforce |-> FALSE, isSigned |-> FALSE,
           dataRead |-> FALSE, backend |-> "DUMMY", status |-> "ERROR"]

LoadTypeOK ==
  /\ disk \in [Files -> Kinds]
  /\ load \in [pc : {"IDLE", "DONE"} \cup Steps, file : Files \cup {0}, enforce : BOOLEAN,
               isSigned : BOOLEAN, dataRead : BOOLEAN, backend : {"DUMMY", "JSON", "ENV"},
               status : Statuses]
  /\ load.pc # "IDLE" => load.file \in Files
  /\ live \subseteq {"backend", "handle", "tree"}
  /\ faults \in 0..MaxFaults

LoadInit ==
  /\ disk \in [Files -> Kinds]
  /\ load = NoLoad
  /\ live = {}
  /\ faults = MaxFaults

-------------------------------------------------------------------------------
Here == disk[load.file]

(* Slip: the file name is not joined with its directory: no such location. *)
LoadCallBareName(file, enforce) == load' = [NoLoad EXCEPT !.pc = "SIGNATURE", !.enforce = enforce]

LoadCall(file, enforce) == load' = [NoLoad EXCEPT !.pc = "SIGNATURE", !.file = file,
                                                  !.enforce = enforce]

Fault == faults > 0 /\ faults' = faults - 1

At(pc) == load.pc = pc /\ UNCHANGED disk

Goto(pc, status) == load' = [load EXCEPT !.pc = pc, !.status = status]

(* Slip: the caller's wish for a signature is forgotten. *)
GateIgnoresEnforce(status) ==
  IF status \in {"OK", "SIGNATURE_NOT_FOUND"}
  THEN load' = [load EXCEPT !.pc = "LOOKUP", !.status = status, !.isSigned = (status = "OK")]
  ELSE Goto("DONE", status)

(* Slip: any location with a signature is taken for a verified one. *)
GateLetsInvalidIn(status) ==
  IF status \in {"OK", "SIGNATURE_NOT_FOUND", "INVALID_SIGNATURE"}
  THEN load' = [load EXCEPT !.pc = "LOOKUP", !.status = status,
                               !.isSigned = (status # "SIGNATURE_NOT_FOUND")]
  ELSE Goto("DONE", status)

(* samconfLoad goes on with a verified location, or with one without a *)
(* signature that need not have one.                                   *)
Gate(status) ==
  IF status = "OK" \/ (status = "SIGNATURE_NOT_FOUND" /\ ~load.enforce)
  THEN load' = [load EXCEPT !.pc = "LOOKUP", !.status = status, !.isSigned = (status = "OK")]
  ELSE Goto("DONE", status)

(* samconfSignatureLoaderGetSignatureFor: the file next to the location. *)
FindSignature ==
  /\ At("SIGNATURE")
  /\ IF Here.signature = "NONE" THEN Gate("SIGNATURE_NOT_FOUND") ELSE Goto("DATA", "OK")
  /\ UNCHANGED <<live, faults>>

FindSignatureFails ==
  /\ At("SIGNATURE")
  /\ Fault
  /\ Gate("ERROR")
  /\ UNCHANGED live

(* samconfVerifySignature reads the location itself, as a file, *)
ReadData ==
  /\ At("DATA")
  /\ Here.readable
  /\ load' = [load EXCEPT !.pc = "CRYPTO", !.dataRead = TRUE]
  /\ UNCHANGED <<live, faults>>

(* ... and when it cannot the status is still the one of the signature file: *)
(* always so for an environment location that has one.                       *)
ReadDataFails ==
  /\ At("DATA")
  /\ IF Here.readable THEN Fault ELSE UNCHANGED faults
  /\ Gate(load.status)
  /\ UNCHANGED live

(* samconfCryptoUtilsVerify *)
Verify ==
  /\ At("CRYPTO")
  /\ Gate(IF Here.signature = "VALID" THEN "OK" ELSE "INVALID_SIGNATURE")
  /\ UNCHANGED <<live, faults>>

(* No public key, a digest nobody knows, no memory, a signature that is no uri. *)
VerifyFails ==
  /\ At("CRYPTO")
  /\ Fault
  /\ Gate("ERROR")
  /\ UNCHANGED live

-------------------------------------------------------------------------------
(* supports of a backend; one that is not built in is the dummy backend, which *)
(* claims nothing.                                                             *)
Claims(b) == b \in Enabled /\ b \in Here.supports

Claimed == \E i \in DOMAIN Backends : Claims(Backends[i])

(* samconfLookupBackend: the first one that claims the location gets it. *)
LookupBackend ==
  /\ At("LOOKUP")
  /\ \E i \in DOMAIN Backends :
       /\ Claims(Backends[i]) /\ \A j \in 1..(i - 1) : ~Claims(Backends[j])
       /\ load' = [load EXCEPT !.pc = "OPEN", !.backend = Backends[i]]
  /\ live' = live \cup {"backend"}
  /\ UNCHANGED faults

LookupFails ==
  /\ At("LOOKUP")
  /\ IF Claimed THEN Fault ELSE UNCHANGED faults
  /\ Goto("DONE", "NOT_FOUND")
  /\ UNCHANGED live

(* open of the backend; a location that is not there is told from a bad one. *)
Open ==
  /\ At("OPEN")
  /\ Here.content \in {"PARTIAL", "GOOD"}
  /\ Goto("LOAD", "OK")
  /\ live' = live \cup {"handle"}
  /\ UNCHANGED faults

OpenRefused ==
  /\ At("OPEN")
  /\ Here.content \in {"ABSENT", "BROKEN"}
  /\ Goto("DELETE", IF Here.content = "ABSENT" /\ load.backend = "JSON" THEN "NOT_FOUND"
                    ELSE "ERROR")
  /\ UNCHANGED <<live, faults>>

OpenFails ==
  /\ At("OPEN")
  /\ Fault
  /\ Goto("DELETE", "ERROR")
  /\ UNCHANGED live

(* load of the backend.  On a member it cannot represent the transformation  *)
(* stops with a part of the tree built.                                      *)
LoadTree ==
  /\ At("LOAD")
  /\ Goto("CLOSE", IF Here.content = "GOOD" THEN "OK"
                   ELSE IF load.backend = "JSON" THEN "PARSE_ERROR" ELSE "ERROR")
  /\ live' = live \cup {"tree"}
  /\ UNCHANGED faults

LoadFails ==
  /\ At("LOAD")
  /\ Fault
  /\ Goto("CLOSE", "ERROR")
  /\ live' \in {live, live \cup {"tree"}}

(* An allocation fails in the environment backend, which leaves a variable or *)
(* all of them out and says OK.                                               *)
LoadCutShort ==
  /\ At("LOAD") /\ load.backend = "ENV"
  /\ Fault
  /\ Goto("CLOSE", "OK")
  /\ live' = live \cup {"tree"}

(* close of the backend, whatever load returned. *)
Close ==
  /\ At("CLOSE")
  /\ Goto("DELETE", load.status)
  /\ live' = live \ {"handle"}
  /\ UNCHANGED faults

(* The handle is not released and the status is that of close. *)
CloseFails ==
  /\ At("CLOSE")
  /\ Fault
  /\ Goto("DELETE", "ERROR")
  /\ UNCHANGED live

(* Slip: the tree of a load that failed is kept. *)
DeleteKeepsTree ==
  /\ At("DELETE")
  /\ Goto("DONE", load.status)
  /\ live' = live \ {"backend"}
  /\ UNCHANGED faults

(* The backend is deleted, and the tree with it unless the load succeeded. *)
Delete ==
  /\ At("DELETE")
  /\ Goto("DONE", load.status)
  /\ live' = live \ (IF load.status = "OK" THEN {"backend"} ELSE {"backend", "tree"})
  /\ UNCHANGED faults

LoadNext ==
  \/ FindSignature \/ FindSignatureFails \/ ReadData \/ ReadDataFails \/ Verify \/ VerifyFails
  \/ LookupBackend \/ LookupFails \/ Open \/ OpenRefused \/ OpenFails
  \/ LoadTree \/ LoadFails \/ LoadCutShort
  \/ Close \/ CloseFails \/ Delete
===============================================================================

------------------------------ MODULE TreeInsert ------------------------------
(***************************************************************************)
(* samconfInsertAt: one call links a node at a path of the tree held in    *)
(* heap and makes the intermediate nodes that are missing.  Each action is *)
(* one round of the loop over the segments of the path.  The library       *)
(* function allocates memory in every round; a round in which that fails   *)
(* is an action of its own and uses up one of MaxFaults.                   *)
(*                                                                         *)
(* Modules with an operation that calls samconfInsertAt extend this one:   *)
(* they start a call with InsertCall and take its outcome with             *)
(* InsertReturn.                                                           *)
(***************************************************************************)
EXTENDS Memory

VARIABLE ins  \* the locals of the running samconfInsertAt

insertVars == <<heap, ins, faults>>

NoInsert == [status |-> "IDLE", path |-> <<>>, seg |-> 1, parent |-> Root,
             node |-> ConfigNew, linked |-> NULL]

Insert == [status : {"IDLE", "RUN", "OK", "ERROR", "CRASHED"}, path : Seq(Keys), seg : Nat \ {0},
           parent : Nat, node : Node, linked : Nat]

InsertTypeOK ==
  /\ heap \in Seq(Node) /\ heap # <<>>
  /\ ins \in Insert
  /\ ins.parent \in DOMAIN heap
  /\ ins.linked \in DOMAIN heap \cup {NULL}
  /\ faults \in 0..MaxFaults

-------------------------------------------------------------------------------
(* A call with a path without segments is refused. *)
InsertCall(path, node) ==
  ins' = [NoInsert EXCEPT !.status = IF path = <<>> THEN "ERROR" ELSE "RUN",
                          !.path = path, !.node = node]

LastSegment == ins.seg = Len(ins.path)

(* The locals after a round that goes down to a node, and after the last one. *)
GoDown(node) == [ins EXCEPT !.seg = @ + 1, !.parent = node]
Linked(node) == [ins EXCEPT !.status = "OK", !.linked = node]

(* What samconfConfigGet says of the path up to the current segment. *)
Lookup == ConfigGet(heap, Root, SubSeq(ins.path, 1, ins.seg))

(* The segment exists: go down, or report success when it is the last one. *)
InsertDescend ==
  /\ ins.status = "RUN"
  /\ LET found == Lookup
     IN  /\ found.status = "OK" /\ found.node \in DOMAIN heap
         /\ ins' = IF LastSegment THEN [ins EXCEPT !.status = "OK"]
                   ELSE GoDown(found.node)
  /\ UNCHANGED <<heap, faults>>

(* The segment is missing: link the node of the caller or an intermediate one. *)
InsertLink ==
  /\ ins.status = "RUN"
  /\ Lookup.status = "NOT_FOUND"
  /\ ~heap[ins.parent].lost
  /\ \E key \in Keys :
       /\ key = ins.path[ins.seg]
       /\ heap' = ConfigAdd(heap, ins.parent,
                            IF LastSegment THEN ins.node ELSE Intermediate(key))
  /\ ins' = IF LastSegment THEN Linked(Len(heap) + 1) ELSE GoDown(Len(heap) + 1)
  /\ UNCHANGED faults

(* samconfPathGetPathUntil fails: the loop goes on with the next segment. *)
InsertSkip ==
  /\ ins.status = "RUN"
  /\ Fault
  /\ ins' = IF LastSegment THEN [ins EXCEPT !.status = "ERROR"]
            ELSE [ins EXCEPT !.seg = @ + 1]
  /\ UNCHANGED heap

(* samconfPathCreateArray (in the first round), samconfConfigGet or         *)
(* samconfConfigNew fails: the loop is left, what was linked stays.         *)
InsertFail ==
  /\ ins.status = "RUN"
  /\ Fault
  /\ ins' = [ins EXCEPT !.status = "ERROR"]
  /\ UNCHANGED heap

(* samconfConfigAdd fails and with it the child list of the parent is gone. *)
InsertAddFails ==
  /\ ins.status = "RUN"
  /\ Lookup.status = "NOT_FOUND"
  /\ Fault
  /\ heap' = [heap EXCEPT ![ins.parent] = LoseChildren(@)]
  /\ ins' = [ins EXCEPT !.status = "ERROR"]

(* The key of an intermediate node stays null, and the next samconfConfigGet *)
(* compares it with a segment; or a child is added to a list that was lost,  *)
(* the first entries of which are read uninitialised.                        *)
InsertCrash ==
  /\ ins.status = "RUN"
  /\ Lookup.status = "NOT_FOUND"
  /\ \/ ~LastSegment /\ Fault
     \/ heap[ins.parent].lost /\ UNCHANGED faults
  /\ ins' = [ins EXCEPT !.status = "CRASHED"]
  /\ UNCHANGED heap

InsertNext ==
  InsertDescend \/ InsertLink \/ InsertSkip \/ InsertFail \/ InsertAddFails \/ InsertCrash

(* The caller takes the status. *)
InsertReturn(status) ==
  /\ ins.status = status
  /\ ins' = NoInsert
===============================================================================

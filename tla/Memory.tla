-------------------------------- MODULE Memory --------------------------------
(***************************************************************************)
(* The memory in which a tree is built: the nodes allocated so far and the *)
(* allocations that may still fail.  Every module with steps that allocate *)
(* nodes extends this one.                                                 *)
(***************************************************************************)
EXTENDS ConfigTree

CONSTANT MaxFaults  \* bound on the failed allocations of a behaviour

ASSUME MaxFaultsAssumption == MaxFaults \in Nat

VARIABLES
  heap,    \* the nodes of the tree being built, *root or *config in the code
  faults   \* the allocations that may still fail

(* safuAllocMem or strdup returns null. *)
Fault == faults > 0 /\ faults' = faults - 1
===============================================================================

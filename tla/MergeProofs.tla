------------------------------ MODULE MergeProofs -----------------------------
(***************************************************************************)
(* Proofs about Merge, for every set of sources, keys and values and every *)
(* bound: the type invariant, the shape of the merged tree, that values of *)
(* signed configurations change only by signed ones and marks can be       *)
(* trusted, that paths are stable and lead to one option, and, for sources *)
(* with proper paths, that merging implements OptionStore.                 *)
(***************************************************************************)
EXTENDS MergeStore, WalkProofs

(***************************************************************************)
(* The steps of Merge.  A step changes the tree in one of two ways, and    *)
(* neither unlinks a node or takes the mark of a signed tree away.         *)
(***************************************************************************)

(* Between two actions: a running samconfInsertAt belongs to a running     *)
(* merge, and the node it is to link has no children.                      *)
InsertedNode ==
  /\ InsertsLeaf
  /\ ins.status # "IDLE" => job.status = "RUN"

(* While a configuration is merged the merge rule that let it in holds. *)
RuleHolds == job.status = "RUN" => FollowsMergeRule(heap, job.src)

(* The mark of the merged tree, that is of its root. *)
SameMark == IsSignedConfig(heap') = IsSignedConfig(heap)

(* A step that keeps what the nodes hold keeps the mark of the tree. *)
LEMMA KeepsMark ==
  ASSUME TypeOK, \A n \in DOMAIN heap : KeepsNode(n)
  PROVE  SameMark
<1>1. Root \in DOMAIN heap
  BY RootInHeap DEF TypeOK, InsertTypeOK
<1>2. QED
  BY <1>1 DEF SameMark, IsSignedConfig, KeepsNode

(* A step that leaves the tree alone keeps its mark as well. *)
LEMMA UnchangedKeeps ==
  ASSUME TypeOK, UNCHANGED heap
  PROVE  Grows /\ SameMark
  BY UnchangedGrows, KeepsMark DEF TypeOK

(* The merged tree has a root with a mark. *)
LEMMA MergedRoot ==
  ASSUME TypeOK
  PROVE  Root \in DOMAIN heap /\ heap[Root] \in Node /\ IsSignedConfig(heap) \in BOOLEAN
  BY RootInHeap DEF TypeOK, InsertTypeOK, IsSignedConfig

(* What the merge knows of the node it works on. *)
LEMMA SourceNode ==
  ASSUME TypeOK, job.status = "RUN"
  PROVE  /\ job.src \in Sources /\ job.src \in Seq(Node)
         /\ \A n \in DOMAIN job.src : n \in Nat /\ job.src[n] \in Node
         /\ IsSignedConfig(job.src) \in BOOLEAN
<1>1. job.src \in Sources
  BY DEF TypeOK
<1>2. job.src \in Seq(Node) /\ job.src # <<>>
  BY <1>1, SourcesAssumption
<1>3. \A n \in DOMAIN job.src : n \in Nat /\ job.src[n] \in Node
  BY <1>2
<1>4. Root \in DOMAIN job.src
  BY <1>2 DEF Root
<1>5. QED
  BY <1>1, <1>2, <1>3, <1>4 DEF IsSignedConfig, Node

(* Overwriting a value keeps the links. *)
LEMMA OverwriteGrows ==
  ASSUME TypeOK, MergeOverwrite
  PROVE  /\ Grows /\ SameMark /\ KeepsShape(heap', heap) /\ DOMAIN heap' = DOMAIN heap
         /\ Current \in DOMAIN job.src
         /\ job' = [job EXCEPT !.at = Current]
         /\ \/ signedNodes' = signedNodes
            \/ \E e \in DOMAIN heap : signedNodes' = SetBySource(e)
<1> DEFINE n == Current
           e == ConfigGet(heap, Root, PathGetPath(job.src, n)).node
           node == CopyConfigValue(ConfigCopyConfig(job.src[n]), heap[e])
<1>1. /\ n \in DOMAIN job.src /\ e \in DOMAIN heap
      /\ heap' = [heap EXCEPT ![e] = node]
      /\ job' = [job EXCEPT !.at = n]
  BY DEF MergeOverwrite, Copied
<1>2. signedNodes' = signedNodes \/ signedNodes' = SetBySource(e)
  BY DEF MergeOverwrite
<1>3. heap \in Seq(Node) /\ heap # <<>> /\ job.src[n] \in Node
  BY <1>1, SourceNode DEF TypeOK, InsertTypeOK, MergeOverwrite, Visiting
<1>4. heap[e] \in Node
  BY <1>1, <1>3
<1>5. /\ node \in Node /\ Links(node) = Links(heap[e]) /\ node.key = heap[e].key
      /\ node.isSigned = heap[e].isSigned
  BY <1>3, <1>4, CopyConfigType, CopyValueType
<1> HIDE DEF node, n, e
<1>6. /\ heap' \in Seq(Node) /\ DOMAIN heap' = DOMAIN heap
      /\ heap'[e] = node /\ \A m \in DOMAIN heap \ {e} : heap'[m] = heap[m]
      /\ IsTree(heap) => IsTree(heap')
      /\ IsWhole(heap') => IsWhole(heap)
      /\ Prolongs(heap', heap) /\ KeepsShape(heap', heap)
      /\ Descends(heap) => Descends(heap')
  BY <1>1, <1>3, <1>5, ReplaceEffect, Zenon
<1>7. Grows
  BY <1>3, <1>6 DEF Grows
<1>8. SameMark
  BY <1>5, <1>6, MergedRoot DEF SameMark, IsSignedConfig
<1>9. QED
  BY <1>1, <1>2, <1>6, <1>7, <1>8 DEF n

(* Losing the value of a node keeps the links as well. *)
LEMMA OverwriteFailsGrows ==
  ASSUME TypeOK, MergeOverwriteFails
  PROVE  Grows /\ SameMark
<1> DEFINE e == ConfigGet(heap, Root, PathGetPath(job.src, Current)).node
           node == [heap[e] EXCEPT !.value = NoValue]
<1>1. e \in DOMAIN heap /\ heap' = [heap EXCEPT ![e] = node]
  BY DEF MergeOverwriteFails
<1>2. heap \in Seq(Node) /\ heap # <<>> /\ heap[e] \in Node
  BY <1>1 DEF TypeOK, InsertTypeOK
<1>3. /\ node \in Node /\ Links(node) = Links(heap[e]) /\ node.key = heap[e].key
      /\ node.isSigned = heap[e].isSigned
  BY <1>2 DEF Node, Links
<1> HIDE DEF node, e
<1>4. /\ heap' \in Seq(Node) /\ DOMAIN heap' = DOMAIN heap
      /\ heap'[e] = node /\ \A m \in DOMAIN heap \ {e} : heap'[m] = heap[m]
      /\ IsTree(heap) => IsTree(heap')
      /\ IsWhole(heap') => IsWhole(heap)
      /\ Prolongs(heap', heap) /\ KeepsShape(heap', heap)
      /\ Descends(heap) => Descends(heap')
  BY <1>1, <1>2, <1>3, ReplaceEffect, Zenon
<1>5. SameMark
  BY <1>3, <1>4, MergedRoot DEF SameMark, IsSignedConfig
<1>6. QED
  BY <1>2, <1>4, <1>5 DEF Grows

(* The end of a merge marks the root and keeps the links. *)
LEMMA DoneGrows ==
  ASSUME TypeOK, MergeDone
  PROVE  /\ Grows /\ KeepsShape(heap', heap)
         /\ IsSignedConfig(heap') = (IsSignedConfig(heap) \/ IsSignedConfig(job.src))
<1> DEFINE mark == IsSignedConfig(heap) \/ IsSignedConfig(job.src)
           node == [heap[Root] EXCEPT !.isSigned = mark]
<1>1. heap' = [heap EXCEPT ![Root] = node]
  BY DEF MergeDone
<1>2. heap \in Seq(Node) /\ heap # <<>> /\ Root \in DOMAIN heap /\ heap[Root] \in Node
  BY MergedRoot DEF TypeOK, InsertTypeOK
<1>3. mark \in BOOLEAN
  OBVIOUS
<1> HIDE DEF mark
<1>4. /\ node \in Node /\ Links(node) = Links(heap[Root]) /\ node.key = heap[Root].key
      /\ node.isSigned = mark
  BY <1>2, <1>3 DEF Node, Links
<1> HIDE DEF node
<1>5. /\ heap' \in Seq(Node) /\ DOMAIN heap' = DOMAIN heap
      /\ heap'[Root] = node
      /\ IsTree(heap) => IsTree(heap')
      /\ IsWhole(heap') => IsWhole(heap)
      /\ Prolongs(heap', heap) /\ KeepsShape(heap', heap)
      /\ Descends(heap) => Descends(heap')
  BY <1>1, <1>2, <1>4, ReplaceEffect
<1>6. QED
  BY <1>2, <1>4, <1>5 DEF Grows, IsSignedConfig, mark

-------------------------------------------------------------------------------
(***************************************************************************)
(* The type invariant, together with what samconfInsertAt was called with. *)
(***************************************************************************)
TypeInv == TypeOK /\ InsertedNode

(* The invariant holds when the program starts. *)
LEMMA InitType == Init => TypeInv
<1> SUFFICES ASSUME Init PROVE TypeInv
  OBVIOUS
<1>1. heap \in Seq(Node) /\ heap # <<>> /\ Root \in DOMAIN heap
  <2> DEFINE top == [ConfigNew EXCEPT !.type = "OBJECT"]
  <2>1. top \in Node
    BY NewNodeType DEF Node, ContainerTypes
  <2>2. heap = <<top>>
    BY DEF Init, EmptyTree
  <2> HIDE DEF top
  <2>3. QED
    BY <2>1, <2>2 DEF Root
<1>2. ins \in Insert /\ ins.parent = Root /\ ins.linked = NULL
      /\ ins.node.children = <<>> /\ ins.status = "IDLE"
  BY NewNodeType DEF Init, NoInsert, Insert, ConfigNew, Root, NULL
<1>3. /\ job.status = "IDLE" /\ job \in [status : {"IDLE"}, src : {<<>>}, at : {Root}]
      /\ queue \in Seq(Sources) /\ result = "OK" /\ batches = 0 /\ signedNodes = {}
      /\ cut = FALSE
  BY DEF Init, NoJob
<1>4. faults \in 0..MaxFaults /\ batches \in 0..MaxBatches
  BY <1>3, MaxFaultsAssumption, BoundsAssumption DEF Init
<1>5. QED
  BY <1>1, <1>2, <1>3, <1>4 DEF TypeInv, TypeOK, InsertTypeOK, InsertedNode, InsertsLeaf

(* What job may be. *)
Job == [status : {"IDLE"}, src : {<<>>}, at : {Root}]
       \cup [status : {"RUN", "CRASHED"}, src : Sources, at : Nat]

(* TypeInv again, when a step is known to extend the tree. *)
LEMMA TypeParts ==
  ASSUME TypeInv, Grows,
         ins' \in Insert, ins'.parent \in DOMAIN heap', ins'.linked \in DOMAIN heap' \cup {NULL},
         ins'.node.children = <<>>, ins'.status # "IDLE" => job'.status = "RUN",
         job' \in Job, queue' \in Seq(Sources), faults' \in 0..MaxFaults,
         result' \in {"OK", "ERROR", "OVERWRITE_NOT_ALLOWED"}, batches' \in 0..MaxBatches,
         signedNodes' \subseteq DOMAIN heap', cut' \in BOOLEAN
  PROVE  TypeInv'
  BY DEF TypeInv, TypeOK, InsertTypeOK, InsertedNode, InsertsLeaf, Grows, Job

(* Every step keeps the type invariant: one case for each action. *)
LEMMA StepType ==
  ASSUME TypeInv, [Next]_vars
  PROVE  TypeInv'
<1> USE DEF TypeInv
<1>0. /\ heap \in Seq(Node) /\ heap # <<>>
      /\ ins \in Insert /\ ins.parent \in DOMAIN heap /\ ins.linked \in DOMAIN heap \cup {NULL}
      /\ faults \in 0..MaxFaults
      /\ queue \in Seq(Sources) /\ result \in {"OK", "ERROR", "OVERWRITE_NOT_ALLOWED"}
      /\ batches \in 0..MaxBatches /\ signedNodes \subseteq DOMAIN heap /\ cut \in BOOLEAN
      /\ ins.node.children = <<>>
      /\ ins.status # "IDLE" => job.status = "RUN"
  BY DEF TypeOK, InsertTypeOK, InsertedNode, InsertsLeaf
<1>j. job \in Job /\ NoJob \in Job
  BY DEF TypeOK, Job, NoJob
<1>n. /\ NoInsert \in Insert /\ NoInsert.parent \in DOMAIN heap /\ NoInsert.linked = NULL
      /\ NoInsert.node.children = <<>> /\ NoInsert.status = "IDLE"
  BY NewNodeType, MergedRoot DEF NoInsert, Insert, ConfigNew, Root, NULL
<1>1. CASE UNCHANGED vars
  BY <1>0, <1>j, <1>1, UnchangedKeeps, TypeParts DEF vars
<1>2. CASE CallMergeConfigs
  <2>1. queue' \in Seq(Sources)
    BY <1>2 DEF CallMergeConfigs, BoundsAssumption
  <2>2. batches' \in 0..MaxBatches
    BY <1>0, <1>2, BoundsAssumption DEF CallMergeConfigs
  <2>3. QED
    BY <1>0, <1>j, <1>2, <2>1, <2>2, UnchangedKeeps, TypeParts DEF CallMergeConfigs
<1>3. CASE MergeStart
  <2>1. Head(queue) \in Sources /\ queue' \in Seq(Sources)
    BY <1>0, <1>3 DEF MergeStart
  <2>2. job' \in Job /\ job'.status = "RUN"
    BY <1>3, <2>1 DEF MergeStart, Root, Job
  <2>3. QED
    BY <1>0, <1>3, <2>1, <2>2, UnchangedKeeps, TypeParts DEF MergeStart
<1>4. CASE MergeRefuse
  <2>1. queue' \in Seq(Sources)
    BY <1>0, <1>4 DEF MergeRefuse
  <2>2. QED
    BY <1>0, <1>j, <1>4, <2>1, UnchangedKeeps, TypeParts DEF MergeRefuse
<1>5. CASE MergeOverwrite
  <2>1. /\ Grows /\ DOMAIN heap' = DOMAIN heap
        /\ Current \in DOMAIN job.src
        /\ job' = [job EXCEPT !.at = Current]
        /\ \/ signedNodes' = signedNodes
           \/ \E e \in DOMAIN heap : signedNodes' = SetBySource(e)
    BY <1>5, OverwriteGrows
  <2>2. signedNodes' \subseteq DOMAIN heap'
    BY <1>0, <2>1 DEF SetBySource
  <2>3. job.status = "RUN" /\ Current \in Nat
    BY <1>5, <2>1, SourceNode DEF MergeOverwrite, Visiting
  <2>4. job' \in Job /\ job'.status = "RUN"
    BY <1>j, <2>1, <2>3 DEF Job
  <2>5. QED
    BY <1>0, <1>5, <2>1, <2>2, <2>3, <2>4, TypeParts DEF MergeOverwrite
<1>6. CASE MergeInsert
  <2> DEFINE path == PathGetPath(job.src, Current)
             node == ConfigCopyConfig(job.src[Current])
  <2>1. /\ job.status = "RUN" /\ Current \in DOMAIN job.src /\ path \in Path
        /\ InsertCall(path, node)
    BY <1>6 DEF MergeInsert, Copied, Visiting
  <2>2. node \in Node /\ node.children = <<>>
    BY <2>1, SourceNode, CopyConfigType
  <2>3. path \in Seq(Keys) /\ path # <<>>
    BY <2>1 DEF Path
  <2> HIDE DEF path, node
  <2>4. ins' = [NoInsert EXCEPT !.status = "RUN", !.path = path, !.node = node]
    BY <2>1, <2>3 DEF InsertCall
  <2>5. /\ ins' \in Insert /\ ins'.parent \in DOMAIN heap /\ ins'.linked = NULL
        /\ ins'.node.children = <<>>
    BY <1>n, <2>2, <2>3, <2>4 DEF NoInsert, Insert
  <2>6. QED
    BY <1>0, <1>j, <1>6, <2>1, <2>5, UnchangedKeeps, TypeParts DEF MergeInsert
<1>7. CASE MergeInserting
  <2>1. ins.status = "RUN" /\ job.status = "RUN"
    BY <1>0, <1>7 DEF MergeInserting, InsertNext, InsertDescend, InsertLink, InsertSkip, InsertFail,
                       InsertAddFails, InsertCrash
  <2>2. /\ job' = job /\ queue' = queue /\ result' = result /\ batches' = batches
        /\ signedNodes' = signedNodes /\ cut' = cut
    BY <1>7 DEF MergeInserting
  <2>3. InsertTypeOK' /\ InsertsLeaf' /\ Grows
    BY <1>7, InsertStep DEF MergeInserting, InsertGoesOn, TypeOK, InsertedNode
  <2>4. QED
    BY <1>0, <1>j, <2>1, <2>2, <2>3, TypeParts DEF Grows, InsertTypeOK, InsertsLeaf
<1>8. CASE MergeInserted
  <2>1. ins.status = "OK" /\ job.status = "RUN"
    BY <1>0, <1>8 DEF MergeInserted, InsertReturn
  <2>2. Current \in DOMAIN job.src /\ Current \in Nat
    BY <1>8, <2>1, SourceNode DEF MergeInserted
  <2>3. job' \in Job
    BY <1>j, <1>8, <2>1, <2>2 DEF MergeInserted, Job
  <2>4. signedNodes' \subseteq DOMAIN heap
    BY <1>0, <1>8 DEF MergeInserted, SetBySource
  <2>5. QED
    BY <1>0, <1>n, <1>8, <2>1, <2>2, <2>3, <2>4, UnchangedKeeps, TypeParts
       DEF MergeInserted, InsertReturn
<1>9. CASE MergeDone
  <2>1. Grows
    BY <1>9, DoneGrows
  <2>2. QED
    BY <1>0, <1>j, <1>9, <2>1, TypeParts DEF MergeDone, Grows, Visiting
<1>10. CASE MergeNewFails \/ MergeNodeFails
  <2>1. /\ UNCHANGED <<heap, ins, batches, signedNodes>> /\ job' = NoJob
        /\ result' \in {"OK", "ERROR"} /\ faults > 0 /\ faults' = faults - 1
        /\ queue' \in Seq(Sources)
        /\ cut' \in BOOLEAN /\ ins.status = "IDLE"
    <3>1. CASE MergeNewFails
      BY <1>0, <3>1 DEF MergeNewFails, StopShort, Fault, Visiting
    <3>2. CASE MergeNodeFails
      BY <1>0, <3>2 DEF MergeNodeFails, StopShort, Fault, Visiting
    <3>3. QED
      BY <1>10, <3>1, <3>2
  <2>2. faults' \in 0..MaxFaults
    BY <1>0, <2>1, MaxFaultsAssumption
  <2>3. QED
    BY <1>0, <1>j, <2>1, <2>2, UnchangedKeeps, TypeParts
<1>11. CASE MergeOverwriteFails
  <2>1. /\ UNCHANGED <<ins, batches, signedNodes>> /\ job' = NoJob
        /\ result' = "OK" /\ faults > 0 /\ faults' = faults - 1
        /\ queue' \in Seq(Sources)
        /\ cut' \in BOOLEAN /\ ins.status = "IDLE"
    BY <1>0, <1>11 DEF MergeOverwriteFails, StopShort, Fault, Visiting
  <2>2. faults' \in 0..MaxFaults
    BY <1>0, <2>1, MaxFaultsAssumption
  <2>3. Grows
    BY <1>11, OverwriteFailsGrows
  <2>4. QED
    BY <1>0, <1>j, <2>1, <2>2, <2>3, TypeParts DEF Grows
<1>12. CASE MergeInsertFails
  <2>1. /\ UNCHANGED <<heap, faults, batches, signedNodes>> /\ job' = NoJob
        /\ result' = "OK" /\ ins' = NoInsert
        /\ queue' \in Seq(Sources)
        /\ cut' \in BOOLEAN
    BY <1>0, <1>12 DEF MergeInsertFails, InsertReturn, StopShort
  <2>2. QED
    BY <1>0, <1>n, <1>j, <2>1, UnchangedKeeps, TypeParts
<1>13. CASE MergeCrash
  <2>1. job.status = "RUN" /\ ins.status = "IDLE"
    BY <1>13 DEF MergeCrash, Visiting
  <2>2. job' \in Job
    BY <1>j, <1>13, <2>1 DEF MergeCrash, Job
  <2>3. QED
    BY <1>0, <1>13, <2>1, <2>2, UnchangedKeeps, TypeParts DEF MergeCrash
<1>14. CASE MergeStringless
  <2>1. /\ UNCHANGED <<heap, ins, faults, batches, signedNodes>> /\ job' = NoJob
        /\ result' = "OK" /\ queue' \in Seq(Sources)
        /\ cut' \in BOOLEAN /\ ins.status = "IDLE"
    BY <1>0, <1>14 DEF MergeStringless, StopShort, Visiting
  <2>2. QED
    BY <1>0, <1>j, <2>1, UnchangedKeeps, TypeParts
<1>15. QED
  BY <1>1, <1>2, <1>3, <1>4, <1>5, <1>6, <1>7, <1>8, <1>9, <1>10, <1>11, <1>12, <1>13, <1>14
     DEF Next, MergeNext

(* TypeOK holds in every reachable state: with every link, segment and       *)
(* pointer that a merge or samconfInsertAt keeps between two steps in range. *)
THEOREM TypeCorrect == Spec => []TypeOK
<1>1. Init => TypeInv
  BY InitType
<1>2. TypeInv /\ [Next]_vars => TypeInv'
  BY StepType
<1>3. TypeInv => TypeOK
  BY DEF TypeInv
<1>4. QED
  BY <1>1, <1>2, <1>3, PTL DEF Spec

-------------------------------------------------------------------------------
(***************************************************************************)
(* The shape of the merged tree.                                           *)
(***************************************************************************)

(* Every step that is not the end of a merge keeps the tree and its mark. *)
LEMMA StepGrows ==
  ASSUME TypeInv, [Next]_vars
  PROVE  Grows /\ (SameMark \/ MergeDone)
<1> USE DEF TypeInv
<1>1. CASE UNCHANGED heap
  BY <1>1, UnchangedKeeps
<1>2. CASE MergeOverwrite
  BY <1>2, OverwriteGrows
<1>3. CASE MergeInserting
  <2>1. Grows /\ \A n \in DOMAIN heap : KeepsNode(n)
    BY <1>3, InsertStep DEF MergeInserting, InsertGoesOn, TypeOK, InsertedNode
  <2>2. QED
    BY <2>1, KeepsMark
<1>4. CASE MergeDone
  BY <1>4, DoneGrows
<1>5. CASE MergeOverwriteFails
  BY <1>5, OverwriteFailsGrows
<1>6. [Next]_vars =>
        UNCHANGED heap \/ MergeOverwrite \/ MergeInserting \/ MergeDone \/ MergeOverwriteFails
  BY DEF Next, vars, CallMergeConfigs, MergeNext, MergeStart, MergeRefuse, MergeInsert,
         MergeInserted, MergeNewFails, MergeStringless, MergeNodeFails, MergeInsertFails,
         MergeCrash
<1>7. QED
  BY <1>1, <1>2, <1>3, <1>4, <1>5, <1>6

(* The tree samconfLoadAndMerge starts with is a tree. *)
LEMMA InitTree == Init => MergedIsTree
<1> SUFFICES ASSUME Init PROVE IsTree(heap)
  BY DEF MergedIsTree
<1> DEFINE top == [ConfigNew EXCEPT !.type = "OBJECT"]
<1>1. top.parent = NULL /\ top.children = <<>>
  BY DEF ConfigNew
<1>2. heap = <<top>>
  BY DEF Init, EmptyTree
<1> HIDE DEF top
<1>3. DOMAIN heap = {1} /\ heap[1].parent = NULL /\ heap[1].children = <<>>
  BY <1>1, <1>2
<1>4. QED
  BY <1>3 DEF IsTree, Root

(* The merged tree is a tree in every reachable state, for every set of      *)
(* source trees and wherever allocations fail, until samconfConfigAdd loses  *)
(* a child list: samconfConfigDelete, which follows the children, frees      *)
(* every node once.                                                          *)
THEOREM TreeStaysTree == Spec => []MergedIsTree
<1>1. Init => TypeInv /\ MergedIsTree
  BY InitType, InitTree
<1>2. TypeInv /\ MergedIsTree /\ [Next]_vars => (TypeInv /\ MergedIsTree)'
  BY StepType, StepGrows DEF Grows, MergedIsTree
<1>3. QED
  BY <1>1, <1>2, PTL DEF Spec

-------------------------------------------------------------------------------
(***************************************************************************)
(* Signed values.  The invariant: the tree that holds one is locked, and   *)
(* while a configuration is merged the rule that let it in still holds.    *)
(***************************************************************************)
LockInv == TypeInv /\ SignedIsLocked /\ RuleHolds

(* At the start there is no signed value and no merge. *)
LEMMA InitLock == Init => LockInv
  BY InitType DEF LockInv, Init, SignedIsLocked, RuleHolds, NoJob

(* Every step keeps the lock. *)
LEMMA StepLock ==
  ASSUME LockInv, [Next]_vars
  PROVE  LockInv'
<1>1. TypeInv /\ TypeInv'
  BY StepType DEF LockInv
<1>2. SameMark \/ MergeDone
  BY <1>1, StepGrows
<1> HIDE DEF LockInv
<1>3. CASE MergeDone
  <2>1. IsSignedConfig(heap') = (IsSignedConfig(heap) \/ IsSignedConfig(job.src))
    BY <1>1, <1>3, DoneGrows DEF TypeInv
  <2>2. job' = NoJob /\ signedNodes' = signedNodes /\ cut' = cut
    BY <1>3 DEF MergeDone
  <2>3. SignedIsLocked'
    BY <2>1, <2>2 DEF LockInv, SignedIsLocked
  <2>4. RuleHolds'
    BY <2>2 DEF RuleHolds, NoJob
  <2>5. QED
    BY <1>1, <2>3, <2>4 DEF LockInv
<1>4. CASE SameMark /\ ~MergeDone
  <2>1. CASE UNCHANGED <<job, signedNodes, cut>>
    BY <1>1, <1>4, <2>1 DEF LockInv, SignedIsLocked, RuleHolds, SameMark, FollowsMergeRule
  <2>2. CASE MergeStart
    <3>1. /\ heap' = heap /\ signedNodes' = signedNodes /\ cut' = cut
          /\ job.status = "IDLE" /\ job'.status = "RUN" /\ job'.src = Head(queue)
          /\ FollowsMergeRule(heap, Head(queue))
      BY <2>2 DEF MergeStart
    <3>2. QED
      BY <1>1, <3>1 DEF LockInv, SignedIsLocked, RuleHolds
  <2>3. CASE MergeOverwrite \/ MergeInserted
    <3>1. job.status = "RUN"
      BY <2>3, <1>1 DEF MergeOverwrite, MergeInserted, InsertReturn, Visiting, TypeInv, InsertedNode
    <3>2. cut' = cut /\ job' = [job EXCEPT !.at = Current]
      <4>1. CASE MergeOverwrite
        BY <4>1 DEF MergeOverwrite
      <4>2. CASE MergeInserted
        BY <4>2 DEF MergeInserted
      <4>3. QED
        BY <2>3, <4>1, <4>2
    <3>3. signedNodes' # {} => signedNodes # {} \/ IsSignedConfig(job.src)
      <4>1. CASE MergeOverwrite
        BY <4>1, <1>1, OverwriteGrows DEF SetBySource, TypeInv
      <4>2. CASE MergeInserted
        BY <4>2 DEF MergeInserted, SetBySource
      <4>3. QED
        BY <2>3, <4>1, <4>2
    <3>4. job'.status = "RUN" /\ job'.src = job.src
      BY <1>1, <3>1, <3>2 DEF TypeInv, TypeOK
    <3>5. QED
      BY <1>1, <1>4, <3>1, <3>2, <3>3, <3>4
         DEF LockInv, SignedIsLocked, RuleHolds, SameMark, FollowsMergeRule
  <2>4. CASE \/ MergeNewFails \/ MergeStringless \/ MergeNodeFails
             \/ MergeOverwriteFails \/ MergeInsertFails
    <3>1. /\ job' = NoJob /\ signedNodes' = signedNodes
          /\ cut' = (cut \/ IsSignedConfig(job.src))
      <4>1. \E status \in {"OK", "ERROR"} : StopShort(status)
        BY <2>4
           DEF MergeNewFails, MergeStringless, MergeNodeFails, MergeOverwriteFails, MergeInsertFails
      <4>2. QED
        BY <4>1 DEF StopShort
    <3>2. QED
      BY <1>1, <1>4, <3>1 DEF LockInv, SignedIsLocked, RuleHolds, SameMark, NoJob
  <2>5. CASE MergeCrash
    <3>1. /\ heap' = heap /\ signedNodes' = signedNodes /\ cut' = cut
          /\ job' = [job EXCEPT !.status = "CRASHED"] /\ job.status = "RUN"
      BY <2>5 DEF MergeCrash, Visiting
    <3>2. job'.status = "CRASHED" /\ job'.src = job.src
      BY <1>1, <3>1 DEF TypeInv, TypeOK
    <3>3. QED
      BY <1>1, <3>1, <3>2 DEF LockInv, SignedIsLocked, RuleHolds
  <2>6. QED
    BY <1>4, <2>1, <2>2, <2>3, <2>4, <2>5
       DEF Next, vars, CallMergeConfigs, MergeNext, MergeRefuse, MergeInsert, MergeInserting
<1>5. QED
  BY <1>2, <1>3, <1>4

(* A tree with a signed value is locked, in every reachable state. *)
THEOREM SignedTreeLocked == Spec => []SignedIsLocked
<1>1. Init => LockInv
  BY InitLock
<1>2. LockInv /\ [Next]_vars => LockInv'
  BY StepLock
<1>3. LockInv => SignedIsLocked
  BY DEF LockInv
<1>4. QED
  BY <1>1, <1>2, <1>3, PTL DEF Spec

(* What a step may do to a signed value. *)
LEMMA StepSets ==
  ASSUME LockInv, [Next]_vars, NEW n \in signedNodes, SetsValue(n)
  PROVE  cut \/ IsSignedConfig(job.src)
<1>1. TypeInv /\ n \in DOMAIN heap
  BY DEF LockInv, TypeInv, TypeOK
<1>2. ~UNCHANGED heap
  BY DEF SetsValue
<1>3. ~MergeInserting
  <2>1. SUFFICES ASSUME MergeInserting PROVE FALSE
    OBVIOUS
  <2>2. KeepsNode(n)
    BY <1>1, <2>1, InsertStep DEF MergeInserting, InsertGoesOn, TypeInv, TypeOK, InsertedNode
  <2>3. QED
    BY <2>2 DEF SetsValue, KeepsNode
<1>4. ~MergeDone
  <2>1. SUFFICES ASSUME MergeDone PROVE FALSE
    OBVIOUS
  <2> DEFINE mark == IsSignedConfig(heap) \/ IsSignedConfig(job.src)
  <2>2. heap' = [heap EXCEPT ![Root] = [heap[Root] EXCEPT !.isSigned = mark]]
    BY <2>1 DEF MergeDone
  <2>3. heap[Root] \in Node
    BY <1>1, MergedRoot DEF TypeInv
  <2> HIDE DEF mark
  <2>4. heap'[n].type = heap[n].type /\ heap'[n].value = heap[n].value
    BY <1>1, <2>2, <2>3 DEF Node
  <2>5. QED
    BY <2>4 DEF SetsValue
<1>5. MergeOverwrite \/ MergeOverwriteFails
  BY <1>2, <1>3, <1>4
     DEF Next, vars, CallMergeConfigs, MergeNext, MergeStart, MergeRefuse, MergeInsert,
         MergeInserted, MergeNewFails, MergeStringless, MergeNodeFails, MergeInsertFails,
         MergeCrash
<1>6. job.status = "RUN"
  BY <1>5 DEF MergeOverwrite, MergeOverwriteFails, Visiting
<1>7. QED
  BY <1>6 DEF LockInv, SignedIsLocked, RuleHolds, FollowsMergeRule

(* A value that a signed configuration set is changed only by a merge of a   *)
(* signed configuration, unless a signed merge was cut short before.         *)
THEOREM SignedOnlyChangedBySigned == Spec => SignedOnlyBySigned
<1>1. Init => LockInv
  BY InitLock
<1>2. LockInv /\ [Next]_vars => LockInv'
  BY StepLock
<1>3. LockInv /\ [Next]_vars =>
        [\A n \in signedNodes : SetsValue(n) => cut \/ IsSignedConfig(job.src)]_vars
  BY StepSets
<1>4. QED
  BY <1>1, <1>2, <1>3, PTL DEF Spec, SignedOnlyBySigned

-------------------------------------------------------------------------------
(***************************************************************************)
(* Without failed allocations the exception is gone.                       *)
(***************************************************************************)
NoFault == faults = 0 /\ ins.status # "ERROR"

(* Without faults left no step reports an error. *)
LEMMA StepNoFault ==
  ASSUME TypeInv, NoFault, [Next]_vars
  PROVE  NoFault'
<1>1. ins \in Insert
  BY DEF TypeInv, TypeOK, InsertTypeOK
<1>2. ~Fault
  BY DEF NoFault, Fault
<1>3. CASE UNCHANGED <<faults, ins>>
  BY <1>3 DEF NoFault
<1>4. CASE MergeInsert
  <2>1. ins'.status = "RUN"
    BY <1>4 DEF MergeInsert, InsertCall, Path, NoInsert
  <2>2. QED
    BY <1>4, <2>1 DEF MergeInsert, NoFault
<1>5. CASE MergeInserting
  <2>1. InsertDescend \/ InsertLink \/ InsertCrash
    BY <1>2, <1>5 DEF MergeInserting, InsertNext, InsertSkip, InsertFail, InsertAddFails
  <2>2. faults' = faults
    BY <1>2, <1>5, <2>1 DEF MergeInserting, InsertDescend, InsertLink, InsertCrash
  <2>3. PICK p : \/ ins' = [ins EXCEPT !.status = "OK"] \/ ins' = GoDown(p) \/ ins' = Linked(p)
                 \/ ins' = [ins EXCEPT !.status = "CRASHED"]
    BY <2>1 DEF InsertDescend, InsertLink, InsertCrash
  <2>4. GoDown(p).status = ins.status /\ Linked(p).status = "OK"
    BY <1>1 DEF GoDown, Linked, Insert
  <2>5. ins'.status # "ERROR"
    BY <1>1, <2>3, <2>4 DEF NoFault, Insert
  <2>6. QED
    BY <2>2, <2>5 DEF NoFault
<1>6. CASE MergeInserted
  BY <1>6 DEF MergeInserted, InsertReturn, NoInsert, NoFault
<1>7. ~MergeInsertFails
  BY DEF MergeInsertFails, InsertReturn, NoFault
<1>8. QED
  BY <1>2, <1>3, <1>4, <1>5, <1>6, <1>7
     DEF Next, vars, CallMergeConfigs, MergeNext, MergeStart, MergeRefuse, MergeOverwrite,
         MergeDone, MergeNewFails, MergeStringless, MergeNodeFails, MergeOverwriteFails, MergeCrash

(* ... and only a missing string cuts a merge short. *)
LEMMA StepUncut ==
  ASSUME TypeInv, NoFault, NoMissingStrings, cut = FALSE, [Next]_vars
  PROVE  cut' = FALSE
<1>1. ~Fault /\ ~MergeInsertFails
  BY DEF NoFault, Fault, MergeInsertFails, InsertReturn
<1>2. ~MergeStringless
  <2>1. SUFFICES ASSUME MergeStringless PROVE FALSE
    OBVIOUS
  <2>2. /\ job.status = "RUN" /\ Current # NULL
        /\ job.src[Current].key # NoKey /\ CopyFails(job.src[Current])
    BY <2>1 DEF MergeStringless, Visiting
  <2>3. job.src \in Sources /\ job.src \in Seq(Node) /\ Root \in DOMAIN job.src
        /\ Descends(job.src)
    <3>1. TypeOK
      BY DEF TypeInv
    <3>2. job.src \in Sources /\ job.src \in Seq(Node)
      BY <2>2, <3>1, SourceNode
    <3>3. job.src # <<>> /\ IsTree(job.src)
      BY <3>2, SourcesAssumption
    <3>4. QED
      BY <3>2, <3>3, RootInHeap, TreeDescends
  <2>4. Current \in DOMAIN job.src
    BY <2>2, <2>3, NextType DEF Current
  <2>5. QED
    BY <2>2, <2>3, <2>4 DEF NoMissingStrings
<1>3. QED
  BY <1>1, <1>2
     DEF Next, vars, CallMergeConfigs, MergeNext, MergeStart, MergeRefuse, MergeOverwrite,
         MergeInsert, MergeInserting, MergeInserted, MergeDone, MergeNewFails, MergeNodeFails,
         MergeOverwriteFails, MergeCrash

(* As long as no allocation fails an unsigned configuration never changes a  *)
(* value that a signed one set: merge rules 2 and 4 of developer.md.         *)
THEOREM UnsignedNeverOverwrites ==
  ASSUME MaxFaults = 0, NoMissingStrings
  PROVE  Spec => UnsignedNeverOverwritesSigned
<1> DEFINE Inv == LockInv /\ NoFault /\ cut = FALSE
<1>1. Init => Inv
  BY InitLock DEF Init, NoFault, NoInsert
<1>2. Inv /\ [Next]_vars => Inv'
  BY StepLock, StepNoFault, StepUncut DEF LockInv
<1>3. Inv /\ [Next]_vars =>
        [\A n \in signedNodes : SetsValue(n) => IsSignedConfig(job.src)]_vars
  BY StepSets
<1>4. QED
  BY <1>1, <1>2, <1>3, PTL DEF Spec, UnsignedNeverOverwritesSigned

-------------------------------------------------------------------------------
(***************************************************************************)
(* The marks of the options.  The invariant: besides the lock, the node    *)
(* samconfInsertAt is given, and links, carries a mark only if the         *)
(* configuration that is merged is signed; and only a call that is over    *)
(* has linked its node.                                                    *)
(***************************************************************************)
InsertMarks ==
  /\ ins.status # "OK" => ins.linked = NULL
  /\ ins.status # "IDLE" /\ ins.node.isSigned => IsSignedConfig(job.src)
  /\ ins.linked # NULL /\ heap[ins.linked].isSigned => IsSignedConfig(job.src)

MarkInv == LockInv /\ MarkIsHonest /\ InsertMarks

(* The copy of a source node is marked as the source node is. *)
LEMMA CopyConfigMark ==
  ASSUME NEW from \in Node
  PROVE  ConfigCopyConfig(from).isSigned = from.isSigned
<1> DEFINE blank == [ConfigNew EXCEPT !.key = from.key, !.type = from.type,
                                      !.isSigned = from.isSigned]
<1>1. blank \in Node /\ blank.isSigned = from.isSigned
  BY NewNodeType DEF Node, ConfigNew
<1>2. QED
  BY <1>1, CopyValueType DEF ConfigCopyConfig

(* While an unsigned configuration is merged, and none was cut short, no     *)
(* value of the tree was set by a signed one.                                *)
LEMMA UnsignedMeetsNone ==
  ASSUME LockInv, job.status = "RUN", ~IsSignedConfig(job.src), ~cut
  PROVE  signedNodes = {}
  BY DEF LockInv, SignedIsLocked, RuleHolds, FollowsMergeRule

(* A round of samconfInsertAt marks no other node than the one it links. *)
LEMMA InsertingMarks ==
  ASSUME MarkInv, MergeInserting
  PROVE  MarkIsHonest' /\ InsertMarks'
<1>1. /\ InsertTypeOK /\ InsertsLeaf /\ heap \in Seq(Node) /\ ins \in Insert
      /\ InsertNext /\ UNCHANGED <<job, signedNodes, cut>>
  BY DEF MarkInv, LockInv, TypeInv, TypeOK, InsertTypeOK, InsertedNode, MergeInserting
<1>2. ins.status = "RUN" /\ ins.linked = NULL /\ NULL \notin DOMAIN heap
  BY <1>1, InsertStatus DEF MarkInv, InsertMarks, NULL
<1>3. ins'.node = ins.node /\ \A n \in DOMAIN heap : KeepsNode(n)
  BY <1>1, InsertStep DEF InsertGoesOn
<1>4. CASE ins'.linked = NULL /\ DOMAIN heap' = DOMAIN heap
  BY <1>1, <1>2, <1>3, <1>4 DEF MarkInv, MarkIsHonest, InsertMarks, KeepsNode
<1>5. CASE InsertLink
  <2>1. PICK key \in Keys : Extends(heap', heap, ins.parent, LinkedNode(key))
    BY <1>1, <1>5, LinkExtends
  <2> DEFINE new == Len(heap) + 1
  <2>2. /\ DOMAIN heap' = DOMAIN heap \cup {new} /\ Len(heap) \in Nat /\ new # NULL
        /\ heap'[new].isSigned = LinkedNode(key).isSigned
    BY <1>1, <2>1 DEF Extends, Data, NULL
  <2> HIDE DEF new
  <2>3. CASE LastSegment
    <3>1. /\ ins'.linked = new /\ ins'.status = "OK"
          /\ heap'[new].isSigned = ins.node.isSigned
      BY <1>1, <1>5, <2>2, <2>3, InsertLinks DEF InsertLink, LinkedNode, Linked, Insert, new
    <3>2. QED
      BY <1>1, <1>2, <1>3, <2>2, <3>1 DEF MarkInv, MarkIsHonest, InsertMarks, KeepsNode
  <2>4. CASE ~LastSegment
    <3>1. ins' = GoDown(new) /\ new \in Nat
      BY <1>1, <1>5, <2>4 DEF InsertLink, new
    <3>2. ins'.linked = NULL
      BY <1>1, <1>2, <3>1, InsertGoesDown
    <3>3. ~heap'[new].isSigned
      BY <2>2, <2>4 DEF LinkedNode, Intermediate, ConfigNew
    <3>4. QED
      BY <1>1, <1>2, <1>3, <2>2, <3>2, <3>3 DEF MarkInv, MarkIsHonest, InsertMarks, KeepsNode
  <2>5. QED
    BY <2>3, <2>4
<1>6. CASE InsertAddFails
  <2>1. DOMAIN heap' = DOMAIN heap /\ ins' = [ins EXCEPT !.status = "ERROR"]
    BY <1>1, <1>6, AddFailsGrows DEF InsertAddFails
  <2>2. ins'.linked = NULL
    BY <1>1, <1>2, <2>1, InsertReports
  <2>3. QED
    BY <1>4, <2>1, <2>2
<1>7. CASE InsertDescend \/ InsertSkip \/ InsertFail \/ InsertCrash
  <2>1. heap' = heap
    BY <1>7 DEF InsertDescend, InsertSkip, InsertFail, InsertCrash
  <2>2. \/ \E s \in {"OK", "ERROR", "CRASHED"} : ins' = [ins EXCEPT !.status = s]
        \/ ins' = [ins EXCEPT !.seg = @ + 1]
        \/ \E p \in DOMAIN heap : ins' = GoDown(p)
    BY <1>7 DEF InsertDescend, InsertSkip, InsertFail, InsertCrash
  <2>3. ins'.linked = NULL
    BY <1>1, <1>2, <2>2, InsertReports, InsertSkips, InsertGoesDown
  <2>4. QED
    BY <1>4, <2>1, <2>3
<1>8. QED
  BY <1>1, <1>5, <1>6, <1>7 DEF InsertNext

(* Every step keeps the marks honest. *)
LEMMA StepMark ==
  ASSUME MarkInv, [Next]_vars
  PROVE  MarkInv'
<1>1. LockInv /\ LockInv'
  BY StepLock DEF MarkInv
<1>2. /\ TypeInv /\ TypeOK /\ heap \in Seq(Node) /\ heap # <<>> /\ ins \in Insert
      /\ ins.status # "IDLE" => job.status = "RUN"
      /\ ins.status # "OK" => ins.linked = NULL
  BY <1>1 DEF LockInv, TypeInv, TypeOK, InsertTypeOK, InsertedNode, MarkInv, InsertMarks
<1>3. SUFFICES MarkIsHonest' /\ InsertMarks'
  BY <1>1 DEF MarkInv
<1>4. CASE UNCHANGED <<heap, ins, job, signedNodes, cut>>
  BY <1>4 DEF MarkInv, MarkIsHonest, InsertMarks
<1>5. CASE MergeStart \/ MergeCrash
  <2>1. UNCHANGED <<heap, ins, signedNodes, cut>> /\ ins.status = "IDLE"
    BY <1>2, <1>5 DEF MergeStart, MergeCrash, Visiting
  <2>2. QED
    BY <1>2, <2>1 DEF MarkInv, MarkIsHonest, InsertMarks
<1>6. CASE MergeOverwrite
  <2> DEFINE e == ConfigGet(heap, Root, PathGetPath(job.src, Current)).node
  <2>1. /\ Current \in DOMAIN job.src /\ job.status = "RUN" /\ ins.status = "IDLE"
        /\ e \in DOMAIN heap /\ UNCHANGED <<ins, cut>>
        /\ heap' = [heap EXCEPT ![e] = CopyConfigValue(ConfigCopyConfig(job.src[Current]), heap[e])]
        /\ signedNodes' = signedNodes \/ signedNodes' = SetBySource(e)
    BY <1>6 DEF MergeOverwrite, Copied, Visiting
  <2>2. /\ job.src[Current] \in Node /\ heap[e] \in Node
    BY <1>2, <2>1, SourceNode
  <2>3. CopyConfigValue(ConfigCopyConfig(job.src[Current]), heap[e]).isSigned = heap[e].isSigned
    BY <2>2, CopyConfigType, CopyValueType
  <2> HIDE DEF e
  <2>4. DOMAIN heap' = DOMAIN heap /\ \A n \in DOMAIN heap : heap'[n].isSigned = heap[n].isSigned
    BY <1>2, <2>1, <2>3
  <2>5. ~cut /\ ~IsSignedConfig(job.src) => signedNodes = {}
    BY <1>1, <2>1, UnsignedMeetsNone
  <2>6. QED
    BY <1>2, <2>1, <2>4, <2>5 DEF MarkInv, MarkIsHonest, InsertMarks, SetBySource
<1>7. CASE MergeInsert
  <2> DEFINE path == PathGetPath(job.src, Current)
             node == ConfigCopyConfig(job.src[Current])
  <2>1. /\ job.status = "RUN" /\ ins.status = "IDLE" /\ Current \in DOMAIN job.src
        /\ path \in Seq(Keys) /\ InsertCall(path, node)
        /\ UNCHANGED <<heap, job, signedNodes, cut>>
    BY <1>7 DEF MergeInsert, Copied, Visiting, Path
  <2>2. job.src \in Sources /\ job.src[Current] \in Node
    BY <1>2, <2>1, SourceNode
  <2>3. /\ node \in Node /\ node.children = <<>>
        /\ node.isSigned => IsSignedConfig(job.src)
    BY <2>1, <2>2, CopyConfigType, CopyConfigMark, MarksAssumption DEF IsSignedConfig
  <2> HIDE DEF path, node
  <2>4. ins'.linked = NULL /\ ins'.node = node
    BY <2>1, <2>3, InsertCallType
  <2>5. QED
    BY <1>2, <2>1, <2>3, <2>4 DEF MarkInv, MarkIsHonest, InsertMarks
<1>8. CASE MergeInserting
  BY <1>8, InsertingMarks
<1>9. CASE MergeInserted
  <2>1. /\ ins.status = "OK" /\ job.status = "RUN" /\ ins' = NoInsert
        /\ UNCHANGED <<heap, cut>> /\ job' = [job EXCEPT !.at = Current]
        /\ signedNodes' = IF ins.linked = NULL THEN signedNodes ELSE SetBySource(ins.linked)
    BY <1>2, <1>9 DEF MergeInserted, InsertReturn
  <2>2. ~cut /\ ~IsSignedConfig(job.src) => signedNodes = {}
    BY <1>1, <2>1, UnsignedMeetsNone
  <2>3. ins'.linked = NULL /\ ins'.status = "IDLE" /\ NULL \notin DOMAIN heap
    BY <1>2, <2>1, NoInsertType DEF NULL
  <2>4. InsertMarks'
    BY <2>3 DEF InsertMarks
  <2>5. MarkIsHonest'
    BY <2>1, <2>2, <2>3 DEF MarkInv, MarkIsHonest, InsertMarks, SetBySource
  <2>6. QED
    BY <2>4, <2>5
<1>10. CASE MergeDone
  <2> DEFINE mark == IsSignedConfig(heap) \/ IsSignedConfig(job.src)
  <2>1. /\ heap' = [heap EXCEPT ![Root] = [heap[Root] EXCEPT !.isSigned = mark]]
        /\ UNCHANGED <<ins, signedNodes, cut>> /\ ins.status = "IDLE"
    BY <1>10 DEF MergeDone, Visiting
  <2> HIDE DEF mark
  <2>2. DOMAIN heap' = DOMAIN heap /\ \A n \in DOMAIN heap \ {Root} : heap'[n] = heap[n]
    BY <1>2, <2>1
  <2>3. QED
    BY <1>2, <2>1, <2>2 DEF MarkInv, MarkIsHonest, InsertMarks
<1>11. CASE \/ MergeNewFails \/ MergeStringless \/ MergeNodeFails
            \/ MergeOverwriteFails \/ MergeInsertFails
  <2>1. signedNodes' = signedNodes /\ cut' = (cut \/ IsSignedConfig(job.src))
    BY <1>11
       DEF MergeNewFails, MergeStringless, MergeNodeFails, MergeOverwriteFails, MergeInsertFails,
           StopShort
  <2>2. ins.status # "OK" /\ ins'.linked = NULL /\ ins'.status = "IDLE"
    BY <1>2, <1>11, NoInsertType
       DEF MergeNewFails, MergeStringless, MergeNodeFails, MergeOverwriteFails, MergeInsertFails,
           Visiting, InsertReturn
  <2>3. DOMAIN heap' = DOMAIN heap /\ \A n \in DOMAIN heap : heap'[n].isSigned = heap[n].isSigned
    <3>1. CASE MergeOverwriteFails
      <4>1. PICK e \in DOMAIN heap : heap' = [heap EXCEPT ![e].value = NoValue]
        BY <3>1 DEF MergeOverwriteFails
      <4>2. heap[e] \in Node
        BY <1>2
      <4>3. QED
        BY <4>1, <4>2 DEF Node
    <3>2. CASE heap' = heap
      BY <3>2
    <3>3. QED
      BY <1>11, <3>1, <3>2 DEF MergeNewFails, MergeStringless, MergeNodeFails, MergeInsertFails
  <2>4. QED
    BY <1>2, <2>1, <2>2, <2>3 DEF MarkInv, MarkIsHonest, InsertMarks
<1>12. QED
  BY <1>4, <1>5, <1>6, <1>7, <1>8, <1>9, <1>10, <1>11
     DEF Next, vars, CallMergeConfigs, MergeNext, MergeRefuse

(* A node that is marked signed holds what a signed configuration set, until *)
(* the merge of one is cut short: for every set of sources whose marks are   *)
(* those a backend sets.                                                     *)
THEOREM MarksAreHonest == Spec => []MarkIsHonest
<1>1. Init => MarkInv
  <2>1. SUFFICES ASSUME Init PROVE MarkIsHonest /\ InsertMarks
    BY InitLock DEF MarkInv
  <2>2. DOMAIN heap = {Root} /\ ins.linked = NULL /\ ins.status = "IDLE"
    BY <2>1, NoInsertType DEF Init, EmptyTree, Root
  <2>3. QED
    BY <2>2 DEF MarkIsHonest, InsertMarks
<1>2. MarkInv /\ [Next]_vars => MarkInv'
  BY StepMark
<1>3. MarkInv => MarkIsHonest
  BY DEF MarkInv
<1>4. QED
  BY <1>1, <1>2, <1>3, PTL DEF Spec

-------------------------------------------------------------------------------
(***************************************************************************)
(* Paths.                                                                  *)
(***************************************************************************)

(* No step takes a path away from the node it leads to. *)
LEMMA StepKeepsPath ==
  ASSUME TypeInv, MergedIsTree, [Next]_vars, IsWhole(heap'), NEW S, NEW path \in Seq(S)
  PROVE  KeepsPath(path)
<1>1. /\ heap \in Seq(Node) /\ heap # <<>> /\ Root \in DOMAIN heap
      /\ heap' \in Seq(Node)
  BY StepType, MergedRoot DEF TypeInv, TypeOK, InsertTypeOK
<1>2. IsWhole(heap) /\ Prolongs(heap', heap) /\ (IsTree(heap) => IsTree(heap'))
  BY StepGrows DEF Grows
<1>3. Closed(heap) /\ Closed(heap')
  BY <1>2, TreeIsClosed DEF MergedIsTree
<1>4. QED
  BY <1>1, <1>2, <1>3, ReachProlonged DEF KeepsPath

(* A path that leads to a node of the merged tree leads to that node for     *)
(* good, whatever is merged and wherever allocations fail, until a child     *)
(* list is lost.  This is said of every path; the run looks at the paths of  *)
(* the nodes.                                                                *)
THEOREM EveryPathIsStable ==
  Spec => [][IsWhole(heap') => \A path \in Seq(Keys \cup {NoKey}) : KeepsPath(path)]_vars
<1>1. Init => TypeInv /\ MergedIsTree
  BY InitType, InitTree
<1>2. TypeInv /\ MergedIsTree /\ [Next]_vars => (TypeInv /\ MergedIsTree)'
  BY StepType, StepGrows DEF Grows, MergedIsTree
<1>3. TypeInv /\ MergedIsTree /\ [Next]_vars =>
        [IsWhole(heap') => \A path \in Seq(Keys \cup {NoKey}) : KeepsPath(path)]_vars
  BY StepKeepsPath
<1>4. QED
  BY <1>1, <1>2, <1>3, PTL DEF Spec

(* ... and so the paths of the nodes are stable. *)
THEOREM PathsStayStable == Spec => PathsAreStable
<1>1. Init => TypeInv /\ MergedIsTree
  BY InitType, InitTree
<1>2. TypeInv /\ MergedIsTree /\ [Next]_vars => (TypeInv /\ MergedIsTree)'
  BY StepType, StepGrows DEF Grows, MergedIsTree
<1>3. TypeInv /\ MergedIsTree /\ [Next]_vars =>
        [IsWhole(heap') => \A n \in DOMAIN heap : KeepsPath(FullPath(heap, n))]_vars
  <2>1. SUFFICES ASSUME TypeInv, MergedIsTree, [Next]_vars, IsWhole(heap'), NEW n \in DOMAIN heap
                 PROVE  KeepsPath(FullPath(heap, n))
    OBVIOUS
  <2>2. heap \in Seq(Node) /\ heap # <<>> /\ IsTree(heap)
    BY <2>1, StepGrows DEF TypeInv, TypeOK, InsertTypeOK, Grows, MergedIsTree
  <2>3. FullPath(heap, n) \in Seq(Keys \cup {NoKey})
    BY <2>2, FullPathSteps
  <2>4. QED
    BY <2>1, <2>3, StepKeepsPath
<1>4. QED
  BY <1>1, <1>2, <1>3, PTL DEF Spec, PathsAreStable

-------------------------------------------------------------------------------
(***************************************************************************)
(* The keys of siblings.  The invariant: a running samconfInsertAt is at   *)
(* the node to which the segments before the current one lead, so that the *)
(* NOT_FOUND of samconfConfigGet says that no child has the key.  A failed *)
(* allocation, which skips a segment, ends this, and so does a key with a  *)
(* '/', after which the node is not named after its path.                  *)
(***************************************************************************)
KeysInv ==
  /\ TypeInv /\ NoFault /\ IsTree(heap) /\ HasUniqueKeys(heap) /\ OnPath
  /\ ins.status # "IDLE" => NamedByPath

(* The path of a node ends with its key, unless a '/' in the key divides it. *)
LEMMA PathEndsInKey ==
  ASSUME NEW h \in Seq(Node), h # <<>>, IsTree(h), NEW n \in DOMAIN h,
         h[n].key \notin DOMAIN Slashed, PathGetPath(h, n) # NoPath
  PROVE  Last(PathGetPath(h, n)) = h[n].key
<1>1. CASE h[n].key = RootKey
  <2>1. PathGetPath(h, n) = <<RootKey>>
    BY <1>1, PathGetPathSteps
  <2>2. QED
    BY <1>1, <2>1 DEF Last
<1>2. CASE h[n].key # RootKey
  <2> DEFINE prefix == PathGetPath(h, h[n].parent)
             key == h[n].key
  <2>1. h[n].parent # NULL /\ PathGetPath(h, n) = prefix \o Segments(key)
    BY <1>2, PathGetPathSteps
  <2>2. h[n].parent \in DOMAIN h
    BY <2>1 DEF IsTree
  <2>3. prefix \in Seq(Keys \cup {NoKey}) /\ key \in Keys \cup {NoKey}
    <3>1. h[n] \in Node
      OBVIOUS
    <3>2. QED
      BY <2>2, <3>1, PathGetPathSteps DEF Node
  <2>4. Segments(key) = <<key>>
    BY DEF Segments
  <2> HIDE DEF prefix, key
  <2>5. prefix \o <<key>> = Append(prefix, key)
    BY <2>3
  <2>6. Len(Append(prefix, key)) = Len(prefix) + 1 /\ Append(prefix, key)[Len(prefix) + 1] = key
    BY <2>3
  <2>7. QED
    BY <2>1, <2>4, <2>5, <2>6 DEF Last, key
<1>3. QED
  BY <1>1, <1>2

(* The copy of a source node has its key. *)
LEMMA CopyConfigKey ==
  ASSUME NEW from \in Node
  PROVE  ConfigCopyConfig(from).key = from.key
<1> DEFINE blank == [ConfigNew EXCEPT !.key = from.key, !.type = from.type,
                                      !.isSigned = from.isSigned]
<1>1. blank \in Node /\ blank.key = from.key
  BY NewNodeType DEF Node, ConfigNew
<1>2. QED
  BY <1>1, CopyValueType DEF ConfigCopyConfig

(* Without slashes and failed allocations every step keeps the keys unique. *)
LEMMA StepKeys ==
  ASSUME NoSlashes, KeysInv, [Next]_vars
  PROVE  KeysInv'
<1>1. TypeInv' /\ NoFault'
  BY StepType, StepNoFault DEF KeysInv
<1>2. /\ TypeInv /\ TypeOK /\ InsertTypeOK /\ InsertsLeaf /\ heap \in Seq(Node) /\ heap # <<>>
      /\ ins \in Insert /\ IsTree(heap) /\ HasUniqueKeys(heap) /\ OnPath /\ ~Fault
      /\ ins.status # "ERROR" /\ (ins.status # "IDLE" => NamedByPath)
  BY DEF KeysInv, TypeInv, TypeOK, InsertTypeOK, InsertedNode, NoFault, Fault
<1>3. SUFFICES /\ IsTree(heap') /\ HasUniqueKeys(heap') /\ OnPath'
               /\ (ins.status # "IDLE" => NamedByPath)'
  BY <1>1 DEF KeysInv
<1>4. CASE UNCHANGED <<heap, ins>>
  BY <1>2, <1>4 DEF OnPath, NamedByPath
<1>5. CASE MergeOverwrite \/ MergeDone
  <2>1. KeepsShape(heap', heap) /\ ins.status = "IDLE" /\ ins' = ins /\ heap' \in Seq(Node)
    <3>1. KeepsShape(heap', heap) /\ Grows
      BY <1>2, <1>5, OverwriteGrows, DoneGrows
    <3>2. ins.status = "IDLE" /\ ins' = ins
      BY <1>5 DEF MergeOverwrite, MergeDone, Visiting
    <3>3. QED
      BY <3>1, <3>2 DEF Grows
  <2>2. IsTree(heap') /\ HasUniqueKeys(heap')
    BY <1>2, <2>1, SameShape
  <2>3. QED
    BY <2>1, <2>2 DEF OnPath
<1>6. CASE MergeInsert
  <2> DEFINE path == PathGetPath(job.src, Current)
             node == ConfigCopyConfig(job.src[Current])
  <2>1. /\ job.status = "RUN" /\ Current \in DOMAIN job.src /\ path \in Seq(Keys)
        /\ path # <<>> /\ InsertCall(path, node) /\ heap' = heap
    BY <1>6 DEF MergeInsert, Copied, Visiting, Path
  <2>2. job.src \in Sources /\ job.src \in Seq(Node) /\ job.src[Current] \in Node
    BY <1>2, <2>1, SourceNode
  <2>3. job.src # <<>> /\ IsTree(job.src) /\ job.src[Current].key \notin DOMAIN Slashed
    BY <2>1, <2>2, SourcesAssumption DEF NoSlashes
  <2>4. node \in Node /\ node.children = <<>> /\ node.key = Last(path)
    <3>1. Last(path) = job.src[Current].key
      BY <2>1, <2>2, <2>3, PathEndsInKey DEF NoPath
    <3>2. QED
      BY <2>2, <3>1, CopyConfigType, CopyConfigKey
  <2> HIDE DEF path, node
  <2>5. ins'.node = node /\ ins'.path = path
    BY <2>1, <2>4, InsertCallType
  <2>6. OnPath'
    BY <1>2, <2>1, <2>4, CallIsOnPath
  <2>7. QED
    BY <1>2, <2>1, <2>4, <2>5, <2>6 DEF NamedByPath
<1>7. CASE MergeInserting
  <2>1. InsertDescend \/ InsertLink \/ (InsertCrash /\ heap' = heap)
    BY <1>2, <1>7 DEF MergeInserting, InsertNext, InsertSkip, InsertFail, InsertAddFails, InsertCrash
  <2>2. InsertNext /\ ins.status = "RUN" /\ ins'.node = ins.node /\ ins'.path = ins.path
    BY <1>2, <1>7, InsertStatus, InsertStep DEF MergeInserting, InsertGoesOn
  <2>3. NamedByPath /\ NamedByPath'
    BY <1>2, <2>2 DEF NamedByPath
  <2>4. CASE InsertDescend
    BY <1>2, <2>3, <2>4, RoundStaysOnPath DEF InsertDescend
  <2>5. CASE InsertLink
    <3>1. OnPath' /\ HasUniqueKeys(heap')
      BY <1>2, <2>3, <2>5, RoundStaysOnPath
    <3>2. PICK node \in Node : node.children = <<>> /\ heap' = ConfigAdd(heap, ins.parent, node)
      BY <1>2, <2>5, LinkExtends
    <3>3. IsTree(heap')
      BY <1>2, <3>2, AddKeepsTree DEF InsertTypeOK
    <3>4. QED
      BY <2>3, <3>1, <3>3
  <2>6. CASE InsertCrash /\ heap' = heap
    <3>1. ins'.status = "CRASHED"
      BY <1>2, <2>6 DEF InsertCrash, Insert
    <3>2. QED
      BY <1>2, <2>3, <2>6, <3>1 DEF OnPath
  <2>7. QED
    BY <2>1, <2>4, <2>5, <2>6
<1>8. CASE MergeInserted
  <2>1. heap' = heap /\ ins'.status = "IDLE"
    BY <1>8, NoInsertType DEF MergeInserted, InsertReturn
  <2>2. QED
    BY <1>2, <2>1 DEF OnPath
<1>9. QED
  BY <1>2, <1>4, <1>5, <1>6, <1>7, <1>8
     DEF Next, vars, CallMergeConfigs, MergeNext, MergeStart, MergeRefuse, MergeNewFails,
         MergeStringless, MergeNodeFails, MergeOverwriteFails, MergeInsertFails, InsertReturn,
         MergeCrash

(* The empty tree has no children with the same key. *)
LEMMA InitKeys ==
  ASSUME MaxFaults = 0
  PROVE  Init => KeysInv
<1>1. SUFFICES ASSUME Init PROVE KeysInv
  OBVIOUS
<1> DEFINE top == [ConfigNew EXCEPT !.type = "OBJECT"]
<1>2. heap = <<top>> /\ ins.status = "IDLE" /\ NoFault
  BY <1>1, NoInsertType DEF Init, EmptyTree, NoFault
<1>3. top.children = <<>> /\ top.lost = FALSE
  BY DEF ConfigNew
<1> HIDE DEF top
<1>4. DOMAIN heap = {1} /\ heap[1] = top
  BY <1>2
<1>5. IsWhole(heap) /\ HasUniqueKeys(heap)
  BY <1>3, <1>4 DEF IsWhole, HasUniqueKeys
<1>6. TypeInv /\ IsTree(heap)
  BY <1>1, <1>5, InitType, InitTree DEF MergedIsTree
<1>7. QED
  BY <1>2, <1>5, <1>6 DEF KeysInv, OnPath

(* A path names one option of the merged tree, for every set of sources      *)
(* whose keys hold no '/', as long as no allocation fails.                   *)
THEOREM KeysStayUnique ==
  ASSUME MaxFaults = 0, NoSlashes
  PROVE  Spec => []MergedKeysUnique
<1>1. Init => KeysInv
  BY InitKeys
<1>2. KeysInv /\ [Next]_vars => KeysInv'
  BY StepKeys
<1>3. KeysInv => MergedKeysUnique
  BY DEF KeysInv, MergedKeysUnique
<1>4. QED
  BY <1>1, <1>2, <1>3, PTL DEF Spec

-------------------------------------------------------------------------------
(***************************************************************************)
(* Merging as one step: the options of a tree and what overrides them.     *)
(***************************************************************************)

(* The beginnings of the paths of the options are the places an overlay can  *)
(* add to a store.                                                           *)
LEMMA AboveHas ==
  ASSUME NEW paths, NEW p \in paths, NEW i \in 1..Len(p)
  PROVE  SubSeq(p, 1, i) \in Above(paths)
  BY DEF Above

(* Behind a node that has been merged: the store T instead of S, and the     *)
(* options Q still to come instead of O, which also has the one at p.        *)
Visited(S, T, O, Q, p) ==
  /\ p \in DOMAIN O /\ DOMAIN Q = DOMAIN O \ {p} /\ \A q \in DOMAIN Q : Q[q] = O[q]
  /\ p \in DOMAIN S /\ Beginnings(p, Len(p)) \subseteq DOMAIN S
  /\ DOMAIN T = DOMAIN S /\ \A q \in DOMAIN S \ {p} : T[q] = S[q]
  /\ T[p] = IF IsScalar(O[p]) THEN O[p] ELSE S[p]

(* An option that has been merged need not be brought any more: it is there, *)
(* with the objects above it, and its value was set if it is a scalar.       *)
LEMMA OverlayVisited ==
  ASSUME NEW S, NEW T, NEW O, NEW Q, NEW p, Visited(S, T, O, Q, p)
  PROVE  Overlay(T, Q) = Overlay(S, O)
<1>0. /\ p \in DOMAIN O /\ DOMAIN Q = DOMAIN O \ {p} /\ \A q \in DOMAIN Q : Q[q] = O[q]
      /\ p \in DOMAIN S /\ Beginnings(p, Len(p)) \subseteq DOMAIN S
      /\ DOMAIN T = DOMAIN S /\ \A q \in DOMAIN S \ {p} : T[q] = S[q]
      /\ T[p] = IF IsScalar(O[p]) THEN O[p] ELSE S[p]
  BY DEF Visited
<1> DEFINE places == DOMAIN S \cup Above(DOMAIN O)
           At(U, V, q) == IF q \in DOMAIN V /\ IsScalar(V[q]) THEN V[q]
                          ELSE IF q \in DOMAIN U THEN U[q]
                          ELSE IF q \in DOMAIN V THEN V[q]
                          ELSE ObjectOption
<1>1. DOMAIN T \cup Above(DOMAIN Q) = places
  <2>1. Above(DOMAIN O) = Above(DOMAIN Q) \cup Beginnings(p, Len(p))
    BY <1>0 DEF Above, Beginnings
  <2>2. QED
    BY <1>0, <2>1
<1>2. \A q : At(T, Q, q) = At(S, O, q)
  <2>1. SUFFICES ASSUME NEW q PROVE At(T, Q, q) = At(S, O, q)
    OBVIOUS
  <2>2. CASE q = p
    <3>1. At(T, Q, q) = T[p]
      BY <1>0, <2>2
    <3>2. At(S, O, q) = IF IsScalar(O[p]) THEN O[p] ELSE S[p]
      BY <1>0, <2>2
    <3>3. QED
      BY <1>0, <3>1, <3>2
  <2>3. CASE q # p
    <3>1. /\ q \in DOMAIN Q <=> q \in DOMAIN O
          /\ q \in DOMAIN Q => Q[q] = O[q]
          /\ q \in DOMAIN T <=> q \in DOMAIN S
          /\ q \in DOMAIN S => T[q] = S[q]
      BY <1>0, <2>3
    <3>2. CASE q \in DOMAIN O /\ IsScalar(O[q])
      BY <3>1, <3>2
    <3>3. CASE ~(q \in DOMAIN O /\ IsScalar(O[q]))
      BY <3>1, <3>3
    <3>4. QED
      BY <3>2, <3>3
  <2>4. QED
    BY <2>2, <2>3
<1>3. Overlay(S, O) = [q \in places |-> At(S, O, q)]
  BY DEF Overlay
<1>4. Overlay(T, Q) = [q \in DOMAIN T \cup Above(DOMAIN Q) |-> At(T, Q, q)]
  BY DEF Overlay
<1> HIDE DEF places, At
<1>5. Overlay(T, Q) = [q \in places |-> At(T, Q, q)]
  BY <1>1, <1>4
<1>6. QED
  BY <1>2, <1>3, <1>5

(* A node is linked at p: the store T instead of S holds what is to come at  *)
(* p, or an object on the way to it.                                         *)
FillsGap(S, T, O, p) ==
  /\ p \in Above(DOMAIN O) /\ p \notin DOMAIN S
  /\ DOMAIN T = DOMAIN S \cup {p} /\ \A q \in DOMAIN S : T[q] = S[q]
  /\ T[p] = IF p \in DOMAIN O THEN O[p] ELSE ObjectOption

(* A node that is linked on the way fills the gap an option to come, or the *)
(* object above it, would fill.                                             *)
LEMMA OverlayLinked ==
  ASSUME NEW S, NEW T, NEW O, NEW p, FillsGap(S, T, O, p)
  PROVE  Overlay(T, O) = Overlay(S, O)
<1> DEFINE places == DOMAIN S \cup Above(DOMAIN O)
           At(U, q) == IF q \in DOMAIN O /\ IsScalar(O[q]) THEN O[q]
                       ELSE IF q \in DOMAIN U THEN U[q]
                       ELSE IF q \in DOMAIN O THEN O[q]
                       ELSE ObjectOption
<1>0. /\ p \in Above(DOMAIN O) /\ p \notin DOMAIN S
      /\ DOMAIN T = DOMAIN S \cup {p} /\ \A q \in DOMAIN S : T[q] = S[q]
      /\ T[p] = IF p \in DOMAIN O THEN O[p] ELSE ObjectOption
  BY DEF FillsGap
<1>1. DOMAIN T \cup Above(DOMAIN O) = places
  BY <1>0
<1>2. \A q : At(T, q) = At(S, q)
  <2>1. SUFFICES ASSUME NEW q PROVE At(T, q) = At(S, q)
    OBVIOUS
  <2>2. CASE q \in DOMAIN O /\ IsScalar(O[q])
    BY <2>2
  <2>3. CASE ~(q \in DOMAIN O /\ IsScalar(O[q]))
    <3>1. CASE q = p
      BY <1>0, <2>3, <3>1
    <3>2. CASE q # p
      <4>1. q \in DOMAIN T <=> q \in DOMAIN S
        BY <1>0, <3>2
      <4>2. QED
        BY <1>0, <2>3, <3>2, <4>1
    <3>3. QED
      BY <3>1, <3>2
  <2>4. QED
    BY <2>2, <2>3
<1>3. Overlay(S, O) = [q \in places |-> At(S, q)]
  BY DEF Overlay
<1>4. Overlay(T, O) = [q \in DOMAIN T \cup Above(DOMAIN O) |-> At(T, q)]
  BY DEF Overlay
<1> HIDE DEF places, At
<1>5. Overlay(T, O) = [q \in places |-> At(T, q)]
  BY <1>1, <1>4
<1>6. QED
  BY <1>2, <1>3, <1>5

(* Nothing overrides nothing. *)
LEMMA OverlayNothing ==
  ASSUME NEW S, S = [q \in DOMAIN S |-> S[q]], NEW O, DOMAIN O = {}
  PROVE  Overlay(S, O) = S
<1>1. DOMAIN S \cup Above(DOMAIN O) = DOMAIN S
  BY DEF Above
<1>2. Overlay(S, O) = [q \in DOMAIN S |-> S[q]]
  BY <1>1 DEF Overlay
<1>3. QED
  BY <1>2

-------------------------------------------------------------------------------
(* What nodes of a source set. *)
LEMMA OptionsAre ==
  ASSUME NEW src, ProperPaths(src), NEW U \in SUBSET (DOMAIN src \ {Root})
  PROVE  /\ DOMAIN OptionsOf(src, U) = {PathGetPath(src, n) : n \in U}
         /\ \A n \in U : OptionsOf(src, U)[PathGetPath(src, n)] = OptionOf(src[n])
<1> DEFINE Paths == {PathGetPath(src, n) : n \in U}
           Pick(p) == CHOOSE n \in U : PathGetPath(src, n) = p
<1>1. OptionsOf(src, U) = [p \in Paths |-> OptionOf(src[Pick(p)])]
  BY DEF OptionsOf
<1>2. \A n \in U : Pick(PathGetPath(src, n)) = n
  <2>1. SUFFICES ASSUME NEW n \in U PROVE Pick(PathGetPath(src, n)) = n
    OBVIOUS
  <2>2. Pick(PathGetPath(src, n)) \in U /\ PathGetPath(src, Pick(PathGetPath(src, n))) = PathGetPath(src, n)
    OBVIOUS
  <2> HIDE DEF Pick
  <2>3. QED
    BY <2>2 DEF ProperPaths
<1> HIDE DEF Pick
<1>3. \A n \in U : PathGetPath(src, n) \in Paths
  OBVIOUS
<1> HIDE DEF Paths
<1>4. QED
  BY <1>1, <1>2, <1>3 DEF Paths

(* What a tree holds, path by path. *)
LEMMA StoreIs ==
  ASSUME NEW h \in Seq(Node), h # <<>>, IsTree(h), HasUniqueKeys(h)
  PROVE  /\ DOMAIN StoreOf(h) = PathsIn(h)
         /\ StoreOf(h) = [p \in PathsIn(h) |-> StoreOf(h)[p]]
         /\ \A n \in DOMAIN h \ {Root} : StoreOf(h)[FullPath(h, n)] = OptionOf(h[n])
         /\ \A p \in PathsIn(h) : StoreOf(h)[p] = OptionOf(h[Reach(h, Root, p)])
<1>1. StoreOf(h) = [p \in PathsIn(h) |-> OptionOf(h[Reach(h, Root, p)])]
  BY DEF StoreOf, PathsIn
<1>2. \A n \in DOMAIN h \ {Root} : FullPath(h, n) \in PathsIn(h) /\ Reach(h, Root, FullPath(h, n)) = n
  BY PathLeadsBack DEF PathsIn
<1>3. QED
  BY <1>1, <1>2

(* What is above a path in a tree is in the tree. *)
LEMMA BeginningsAreIn ==
  ASSUME NEW h \in Seq(Node), h # <<>>, IsTree(h), HasUniqueKeys(h), NEW path \in Path,
         path \in PathsIn(h)
  PROVE  Beginnings(path, Len(path)) \subseteq PathsIn(h)
<1> DEFINE H(k) == Reach(h, Root, SubSeq(path, 1, k))
           N == Len(path)
<1>1. /\ path \in Seq(Keys) /\ N \in Nat \ {0}
      /\ Closed(h) /\ Root \in DOMAIN h
  BY TreeIsClosed, RootInHeap DEF Path
<1>2. /\ Reach(h, Root, path) = H(N)
      /\ \A k \in 1..N : H(k - 1) = NULL => H(k) = NULL
  BY <1>1, ReachSteps
<1>3. H(N) # NULL
  BY <1>2, PathIsFound
<1> HIDE DEF H
<1>4. ASSUME NEW j \in 1..N PROVE H(j) # NULL
  <2> DEFINE S == {d \in Nat : j + d <= N /\ H(j) = NULL => H(j + d) = NULL}
  <2>1. 0 \in S
    <3>1. j + 0 = j
      BY <1>1
    <3>2. QED
      BY <3>1
  <2>2. ASSUME NEW d \in Nat, d \in S PROVE d + 1 \in S
    <3>1. SUFFICES ASSUME j + (d + 1) <= N, H(j) = NULL PROVE H(j + (d + 1)) = NULL
      OBVIOUS
    <3>2. j + (d + 1) \in 1..N /\ (j + (d + 1)) - 1 = j + d /\ j + d <= N
      BY <1>1, <3>1
    <3>3. H(j + d) = NULL
      BY <2>2, <3>1, <3>2
    <3>4. QED
      BY <1>2, <3>2, <3>3
  <2>3. N - j \in S
    <3> HIDE DEF S, N
    <3>1. Nat \subseteq S
      BY <2>1, <2>2, NumberInduction
    <3>2. N - j \in Nat
      BY <1>1, <1>4
    <3>3. QED
      BY <3>1, <3>2
  <2>4. j + (N - j) = N
    BY <1>1
  <2>5. QED
    BY <1>3, <2>3, <2>4
<1>5. ASSUME NEW j \in 1..N PROVE SubSeq(path, 1, j) \in PathsIn(h)
  <2>1. SubSeq(path, 1, j) \in Path
    BY <1>5, MorePrefixes
  <2>2. QED
    BY <1>4, <1>5, <2>1, PathIsFound DEF H
<1>6. QED
  BY <1>5 DEF Beginnings

AddsOption(g, h, path, node) ==
  /\ path \notin PathsIn(h) /\ PathsIn(g) = PathsIn(h) \cup {path}
  /\ \A q \in PathsIn(h) : StoreOf(g)[q] = StoreOf(h)[q]
  /\ StoreOf(g)[path] = OptionOf(node)

(* A leaf that is linked adds what it holds at its path. *)
LEMMA StoreLinked ==
  ASSUME NEW h \in Seq(Node), h # <<>>, IsTree(h), HasUniqueKeys(h), NEW p \in DOMAIN h,
         NEW node \in Node, NEW g \in Seq(Node), IsTree(g), HasUniqueKeys(g), Extends(g, h, p, node)
  PROVE  AddsOption(g, h, Append(FullPath(h, p), node.key), node)
<1> DEFINE path == Append(FullPath(h, p), node.key)
           new == Len(h) + 1
<1>1. /\ DOMAIN g = DOMAIN h \cup {new} /\ g # <<>> /\ new \notin DOMAIN h /\ new # Root
      /\ Data(g[new]) = Data(node) /\ \A n \in DOMAIN h : Data(g[n]) = Data(h[n])
  <2>1. /\ DOMAIN g = DOMAIN h \cup {new} /\ Len(g) = new
        /\ Data(g[new]) = Data(node) /\ \A n \in DOMAIN h : Data(g[n]) = Data(h[n])
    BY DEF Extends
  <2>2. new \notin DOMAIN h /\ Len(h) \in Nat /\ Root \in DOMAIN h /\ Len(<<>>) = 0
    BY RootInHeap
  <2>3. g # <<>>
    BY <2>1, <2>2
  <2>4. QED
    BY <2>1, <2>2, <2>3
<1>2. (\A n \in DOMAIN h : FullPath(g, n) = FullPath(h, n)) /\ FullPath(g, new) = path
  BY GrownPaths
<1>3. SeesLeaf(g, h, node, path)
  BY LeafIsSeen
<1>4. OptionOf(g[new]) = OptionOf(node) /\ \A n \in DOMAIN h : OptionOf(g[n]) = OptionOf(h[n])
  BY <1>1 DEF Data, OptionOf
<1>5. /\ \A n \in DOMAIN g : Reach(g, Root, FullPath(g, n)) = n
      /\ \A n \in DOMAIN g \ {Root} : StoreOf(g)[FullPath(g, n)] = OptionOf(g[n])
      /\ \A n \in DOMAIN h \ {Root} : StoreOf(h)[FullPath(h, n)] = OptionOf(h[n])
  BY <1>1, StoreIs, PathLeadsBack
<1> HIDE DEF path, new
<1>6. path \notin PathsIn(h)
  BY <1>1, <1>2, <1>5 DEF PathsIn
<1>7. \A q \in PathsIn(h) : StoreOf(g)[q] = StoreOf(h)[q]
  BY <1>1, <1>2, <1>4, <1>5 DEF PathsIn
<1>8. StoreOf(g)[path] = OptionOf(node)
  BY <1>1, <1>2, <1>4, <1>5
<1>9. QED
  BY <1>3, <1>6, <1>7, <1>8 DEF SeesLeaf, path, AddsOption

ReplacesOption(g, h, e) ==
  /\ PathsIn(g) = PathsIn(h)
  /\ \A q \in PathsIn(h) \ {FullPath(h, e)} : StoreOf(g)[q] = StoreOf(h)[q]
  /\ e # Root => StoreOf(g)[FullPath(h, e)] = OptionOf(g[e])

(* What replaces a node with the same links and key replaces what the tree   *)
(* holds at the path of the node.                                            *)
LEMMA StoreReplaced ==
  ASSUME NEW h \in Seq(Node), h # <<>>, IsTree(h), HasUniqueKeys(h), NEW e \in DOMAIN h,
         NEW g \in Seq(Node), KeepsShape(g, h), \A m \in DOMAIN h \ {e} : OptionOf(g[m]) = OptionOf(h[m])
  PROVE  ReplacesOption(g, h, e)
<1> DEFINE D == DOMAIN h
           T == {n \in D : FullPath(g, n) = FullPath(h, n)}
           rank == [n \in D |-> n]
<1>1. /\ DOMAIN g = D /\ \A n \in D : g[n].parent = h[n].parent /\ g[n].key = h[n].key
  BY DEF KeepsShape, Links
<1>2. IsTree(g) /\ HasUniqueKeys(g) /\ g # <<>> /\ Root \in D
  <2>1. IsTree(g) /\ HasUniqueKeys(g)
    BY SameShape
  <2>2. Root \in D
    BY RootInHeap
  <2>3. DOMAIN <<>> = {}
    OBVIOUS
  <2>4. QED
    BY <1>1, <2>1, <2>2, <2>3
<1>3. /\ \A n \in D : FullPath(g, n) = IF n = Root THEN <<>> ELSE Append(FullPath(g, h[n].parent), h[n].key)
      /\ \A n \in D : FullPath(h, n) = IF n = Root THEN <<>> ELSE Append(FullPath(h, h[n].parent), h[n].key)
  BY <1>1, <1>2, FullPathSteps
<1>4. \A n \in D : n # Root => h[n].parent \in D /\ h[n].parent < n
  <2>1. \A n \in D : n # Root => h[n].parent \in 1..(n - 1)
    BY DEF IsTree
  <2>2. D = 1..Len(h) /\ Len(h) \in Nat
    OBVIOUS
  <2>3. QED
    BY <2>1, <2>2
<1>5. rank \in [D -> Nat]
  OBVIOUS
<1>6. ASSUME NEW n \in D, \A m \in D : rank[m] < rank[n] => m \in T PROVE n \in T
  <2>1. n # Root => FullPath(g, h[n].parent) = FullPath(h, h[n].parent)
    BY <1>4, <1>6
  <2> HIDE DEF D
  <2>2. FullPath(g, n) = FullPath(h, n)
    BY <1>3, <2>1
  <2>3. QED
    BY <2>2
<1>7. \A n \in D : FullPath(g, n) = FullPath(h, n)
  <2> HIDE DEF D, T, rank
  <2>1. D \subseteq T
    BY <1>5, <1>6, RankInduction
  <2>2. QED
    BY <2>1 DEF T
<1>8. PathsIn(g) = PathsIn(h)
  BY <1>1, <1>7 DEF PathsIn
<1>9. /\ \A n \in D \ {Root} : StoreOf(g)[FullPath(g, n)] = OptionOf(g[n])
      /\ \A n \in D \ {Root} : StoreOf(h)[FullPath(h, n)] = OptionOf(h[n])
  BY <1>1, <1>2, StoreIs
<1>10. ASSUME NEW q \in PathsIn(h) \ {FullPath(h, e)} PROVE StoreOf(g)[q] = StoreOf(h)[q]
  <2>1. PICK n \in D \ {Root} : q = FullPath(h, n)
    BY DEF PathsIn
  <2>2. n # e
    BY <2>1
  <2>3. QED
    BY <1>7, <1>9, <2>1, <2>2
<1>11. e # Root => StoreOf(g)[FullPath(h, e)] = OptionOf(g[e])
  BY <1>7, <1>9
<1>12. QED
  BY <1>8, <1>10, <1>11 DEF ReplacesOption

-------------------------------------------------------------------------------
(* A node of a source is in a tree: its path is, and what it holds is there *)
(* if it is a scalar.                                                        *)
Arrived(h, src, m) ==
  LET path == PathGetPath(src, m)
  IN  /\ path \in PathsIn(h)
      /\ IsScalar(OptionOf(src[m])) => StoreOf(h)[path] = OptionOf(src[m])

(* Where a running merge stands: what it has visited is in the merged tree. *)
Halfway ==
  Running => /\ job.at \in DOMAIN job.src /\ Unvisited \subseteq DOMAIN job.src \ {Root}
             /\ \A m \in DOMAIN job.src \ ({Root} \cup Unvisited) : Arrived(heap, job.src, m)

(* A running samconfInsertAt brings the current node to a place that is      *)
(* missing, and has linked it when it is done.                               *)
BringsCurrent ==
  ins.status # "IDLE" =>
    /\ Current \in DOMAIN job.src /\ ins.path = PathGetPath(job.src, Current)
    /\ OptionOf(ins.node) = OptionOf(job.src[Current])
    /\ ins.status = "RUN" => Reach(heap, Root, ins.path) = NULL
    /\ ins.status = "OK" => ins.linked # NULL

StepInv == KeysInv /\ job.status # "CRASHED" /\ Halfway /\ BringsCurrent

(* The options of the store, and its lock. *)
View(h, j) ==
  IF j.status = "RUN" THEN Overlay(StoreOf(h), OptionsOf(j.src, Following(j.src, j.at)))
  ELSE StoreOf(h)

Locked(h, j) == IsSignedConfig(h) \/ (j.status = "RUN" /\ IsSignedConfig(j.src))

(* A step that keeps both is a stutter of the store. *)
LEMMA SameView ==
  ASSUME View(heap', job') = View(heap, job), Locked(heap', job') = Locked(heap, job)
  PROVE  [Store!Next]_Store!vars
  BY DEF Store!vars, View, Locked, Running, Unvisited

(* What a running merge works on. *)
LEMMA WhereItIs ==
  ASSUME StepInv, AllProper, Running
  PROVE  /\ TypeOK /\ job.src \in Sources /\ job.src \in Seq(Node) /\ job.src # <<>> /\ IsTree(job.src)
         /\ ProperPaths(job.src) /\ job.at \in DOMAIN job.src
         /\ heap \in Seq(Node) /\ heap # <<>> /\ IsTree(heap) /\ HasUniqueKeys(heap)
         /\ Unvisited \subseteq DOMAIN job.src \ {Root}
         /\ \/ Current = NULL /\ Unvisited = {}
            \/ /\ Current \in Unvisited /\ Current \in DOMAIN job.src /\ Current # Root
               /\ Following(job.src, Current) = Unvisited \ {Current}
<1>1. /\ TypeOK /\ heap \in Seq(Node) /\ heap # <<>> /\ IsTree(heap) /\ HasUniqueKeys(heap)
      /\ job.status = "RUN"
  BY DEF StepInv, KeysInv, TypeInv, TypeOK, InsertTypeOK, Running
<1>2. job.src \in Sources /\ job.src \in Seq(Node)
  BY <1>1, SourceNode
<1>3. job.src # <<>> /\ IsTree(job.src) /\ ProperPaths(job.src)
  BY <1>2, SourcesAssumption DEF AllProper
<1>4. job.at \in DOMAIN job.src /\ Unvisited \subseteq DOMAIN job.src \ {Root}
  BY DEF StepInv, Halfway
<1>5. \/ Current = NULL /\ Unvisited = {}
      \/ /\ Current \in DOMAIN job.src /\ Current \notin Following(job.src, Current)
         /\ Unvisited = {Current} \cup Following(job.src, Current)
  BY <1>2, <1>3, <1>4, NextIsFirst DEF Current, Unvisited
<1>6. \/ Current = NULL /\ Unvisited = {}
      \/ /\ Current \in Unvisited /\ Current \in DOMAIN job.src /\ Current # Root
         /\ Following(job.src, Current) = Unvisited \ {Current}
  BY <1>4, <1>5
<1>7. QED
  BY <1>1, <1>2, <1>3, <1>4, <1>6

(* A step to the next node n of the source, which is in the merged tree now: *)
(* the tree has the paths it had, and holds at the path of n what it held,   *)
(* or what n holds if that is a scalar.                                      *)
VisitsNode(n) ==
  /\ n = Current /\ n \in DOMAIN job.src /\ job' = [job EXCEPT !.at = n]
  /\ heap' \in Seq(Node) /\ heap' # <<>> /\ IsTree(heap') /\ HasUniqueKeys(heap')
  /\ PathsIn(heap') = PathsIn(heap) /\ IsSignedConfig(heap') = IsSignedConfig(heap)
  /\ LET path == PathGetPath(job.src, n)
     IN  /\ path \in PathsIn(heap)
         /\ \A q \in PathsIn(heap) \ {path} : StoreOf(heap')[q] = StoreOf(heap)[q]
         /\ StoreOf(heap')[path] = IF IsScalar(OptionOf(job.src[n])) THEN OptionOf(job.src[n])
                                   ELSE StoreOf(heap)[path]

(* The walk goes on behind a node that has been merged: to the store nothing *)
(* happens.                                                                  *)
LEMMA VisitedGoesOn ==
  ASSUME StepInv, AllProper, Running, NEW n, VisitsNode(n)
  PROVE  [Store!Next]_Store!vars /\ Halfway' /\ job'.status = "RUN"
<1> DEFINE src == job.src
           path == PathGetPath(src, n)
           U == Unvisited
           W == Following(src, n)
           O == OptionsOf(src, U)
           Q == OptionsOf(src, W)
<1>0. /\ n = Current /\ n \in DOMAIN src /\ job' = [job EXCEPT !.at = n]
      /\ heap' \in Seq(Node) /\ heap' # <<>> /\ IsTree(heap') /\ HasUniqueKeys(heap')
      /\ PathsIn(heap') = PathsIn(heap) /\ IsSignedConfig(heap') = IsSignedConfig(heap)
      /\ path \in PathsIn(heap)
      /\ \A q \in PathsIn(heap) \ {path} : StoreOf(heap')[q] = StoreOf(heap)[q]
      /\ StoreOf(heap')[path] = IF IsScalar(OptionOf(src[n])) THEN OptionOf(src[n])
                                ELSE StoreOf(heap)[path]
  BY DEF VisitsNode
<1>1. /\ TypeOK /\ src \in Seq(Node) /\ src # <<>> /\ IsTree(src) /\ ProperPaths(src)
      /\ heap \in Seq(Node) /\ heap # <<>> /\ IsTree(heap) /\ HasUniqueKeys(heap)
      /\ U \subseteq DOMAIN src \ {Root}
      /\ Current = NULL \/ (n \in U /\ n # Root /\ W = U \ {n})
  BY <1>0, WhereItIs
<1>2. n # NULL
  BY <1>0, <1>1 DEF NULL
<1>3. n \in U /\ n # Root /\ W = U \ {n}
  BY <1>0, <1>1, <1>2
<1>4. /\ job'.status = "RUN" /\ job'.src = src /\ job'.at = n /\ job.status = "RUN"
  BY <1>0, <1>1 DEF TypeOK, Running
<1>5. /\ path \in Path
      /\ \A m \in U : PathGetPath(src, m) = path => m = n
  BY <1>1, <1>3 DEF ProperPaths
<1>6. /\ DOMAIN O = {PathGetPath(src, m) : m \in U}
      /\ \A m \in U : O[PathGetPath(src, m)] = OptionOf(src[m])
      /\ DOMAIN Q = {PathGetPath(src, m) : m \in W}
      /\ \A m \in W : Q[PathGetPath(src, m)] = OptionOf(src[m])
  <2>1. U \in SUBSET (DOMAIN src \ {Root}) /\ W \in SUBSET (DOMAIN src \ {Root})
    BY <1>1, <1>3
  <2> HIDE DEF U, W, src
  <2>2. QED
    BY <1>1, <2>1, OptionsAre
<1>7. /\ DOMAIN StoreOf(heap) = PathsIn(heap) /\ DOMAIN StoreOf(heap') = PathsIn(heap)
      /\ Beginnings(path, Len(path)) \subseteq PathsIn(heap)
  BY <1>0, <1>1, <1>5, StoreIs, BeginningsAreIn
<1> HIDE DEF U, W, O, Q, path
<1>8. /\ path \in DOMAIN O /\ DOMAIN Q = DOMAIN O \ {path} /\ \A q \in DOMAIN Q : Q[q] = O[q]
      /\ O[path] = OptionOf(src[n])
  BY <1>3, <1>5, <1>6 DEF path
<1>9. Overlay(StoreOf(heap'), Q) = Overlay(StoreOf(heap), O)
  <2> DEFINE S == StoreOf(heap)
             T == StoreOf(heap')
  <2>1. /\ path \in DOMAIN S /\ DOMAIN T = DOMAIN S /\ Beginnings(path, Len(path)) \subseteq DOMAIN S
        /\ \A q \in DOMAIN S \ {path} : T[q] = S[q]
        /\ T[path] = IF IsScalar(O[path]) THEN O[path] ELSE S[path]
    BY <1>0, <1>7, <1>8 DEF path
  <2> HIDE DEF S, T
  <2>2. Visited(S, T, O, Q, path)
    BY <1>8, <2>1 DEF Visited
  <2>3. Overlay(T, Q) = Overlay(S, O)
    BY <2>2, OverlayVisited
  <2>4. QED
    BY <2>3 DEF S, T
<1>10. View(heap', job') = View(heap, job) /\ Locked(heap', job') = Locked(heap, job)
  BY <1>0, <1>4, <1>9 DEF View, Locked, O, Q, U, W, Unvisited
<1>11. Halfway'
  <2>1. ASSUME NEW m \in DOMAIN src \ ({Root} \cup W) PROVE Arrived(heap', src, m)
    <3>1. CASE m = n
      BY <1>0, <3>1 DEF Arrived, path
    <3>2. CASE m # n
      <4>1. m \in DOMAIN src \ ({Root} \cup U) /\ Arrived(heap, src, m)
        BY <1>3, <2>1, <3>2 DEF StepInv, Halfway, U
      <4>2. PathGetPath(src, m) # path
        BY <1>0, <1>1, <1>3, <3>2, <4>1 DEF ProperPaths, path
      <4>3. QED
        BY <1>0, <4>1, <4>2 DEF Arrived
    <3>3. QED
      BY <3>1, <3>2
  <2>2. Unvisited' = W
    BY <1>4 DEF Unvisited, W
  <2>3. QED
    BY <1>0, <1>1, <1>3, <1>4, <2>1, <2>2 DEF Halfway
<1>12. QED
  BY <1>4, <1>10, <1>11, SameView

(* The copy of a source node holds what the node holds. *)
LEMMA CopyConfigHolds ==
  ASSUME NEW from \in Node, ~CopyFails(from),
         from.type \in ContainerTypes => from.value = NoValue
  PROVE  OptionOf(ConfigCopyConfig(from)) = OptionOf(from)
<1> DEFINE blank == [ConfigNew EXCEPT !.key = from.key, !.type = from.type,
                                      !.isSigned = from.isSigned]
<1>1. blank \in Node /\ blank.type = from.type /\ blank.value = NoValue
  BY NewNodeType DEF Node, ConfigNew
<1> HIDE DEF blank
<1>2. ConfigCopyConfig(from) = CopyConfigValue(from, blank)
  BY DEF ConfigCopyConfig, blank
<1>3. CASE from.type \in ContainerTypes
  BY <1>1, <1>2, <1>3 DEF CopyConfigValue, OptionOf
<1>4. CASE from.type \notin ContainerTypes
  <2> DEFINE copy == [blank EXCEPT !.type = from.type, !.value = from.value]
  <2>1. copy.type = from.type /\ copy.value = from.value
    BY <1>1 DEF Node
  <2>2. ConfigCopyConfig(from) = copy
    BY <1>2, <1>4 DEF CopyConfigValue
  <2> HIDE DEF copy
  <2>3. QED
    BY <2>1, <2>2 DEF OptionOf
<1>5. QED
  BY <1>3, <1>4

(* A scalar is copied to the node that exists, anything else leaves it. *)
LEMMA CopyValueHolds ==
  ASSUME NEW from \in Node, ~CopyFails(from), NEW to \in Node
  PROVE  OptionOf(CopyConfigValue(from, to)) = IF IsScalar(OptionOf(from)) THEN OptionOf(from)
                                               ELSE OptionOf(to)
<1>1. from.type \in ScalarTypes <=> from.type \notin ContainerTypes
  BY DEF Node, ScalarTypes, ContainerTypes
<1>2. IsScalar(OptionOf(from)) <=> from.type \in ScalarTypes
  BY DEF IsScalar, OptionOf
<1>3. CASE from.type \in ContainerTypes
  BY <1>1, <1>2, <1>3 DEF CopyConfigValue
<1>4. CASE from.type \notin ContainerTypes
  <2> DEFINE copy == [to EXCEPT !.type = from.type, !.value = from.value]
  <2>1. copy.type = from.type /\ copy.value = from.value
    BY DEF Node
  <2>2. CopyConfigValue(from, to) = copy
    BY <1>4 DEF CopyConfigValue
  <2> HIDE DEF copy
  <2>3. QED
    BY <1>1, <1>2, <1>4, <2>1, <2>2 DEF OptionOf
<1>5. QED
  BY <1>3, <1>4
-------------------------------------------------------------------------------
(* A step of the merge that is a step or a stutter of the store. *)
GoesOn == [Store!Next]_Store!vars /\ Halfway' /\ BringsCurrent' /\ job'.status # "CRASHED"

(* A node found at a path of the merged tree has that path. *)
LEMMA FoundAtPath ==
  ASSUME NEW h \in Seq(Node), h # <<>>, IsTree(h), NEW path \in Path,
         Reach(h, Root, path) # NULL
  PROVE  LET e == Reach(h, Root, path)
         IN  e \in DOMAIN h \ {Root} /\ FullPath(h, e) = path /\ path \in PathsIn(h)
<1>1. path \in Seq(Keys) /\ Len(path) \in Nat \ {0} /\ path = SubSeq(path, 1, Len(path))
  BY DEF Path
<1> DEFINE N == Len(path)
           prefix == SubSeq(path, 1, N)
<1>2. N \in 0..Len(path) /\ N # 0
  BY <1>1
<1>3. prefix = path
  BY <1>1
<1>4. Reach(h, Root, prefix) # NULL
  BY <1>3
<1>5. LET n == Reach(h, Root, prefix) IN n \in DOMAIN h /\ FullPath(h, n) = prefix /\ n # Root
  BY <1>1, <1>2, <1>4, ReachedHasPath
<1> HIDE DEF prefix
<1>6. QED
  BY <1>3, <1>5 DEF PathsIn

(* A path that exists: the value of the node there is set if the source node *)
(* is a scalar.                                                              *)
LEMMA OverwriteIsSeen ==
  ASSUME StepInv, AllProper, MergeOverwrite
  PROVE  GoesOn
<1> DEFINE src == job.src
           n == Current
           path == PathGetPath(src, n)
           e == ConfigGet(heap, Root, path).node
           copy == ConfigCopyConfig(src[n])
           node == CopyConfigValue(copy, heap[e])
<1>1. /\ Running /\ ins.status = "IDLE" /\ ins' = ins
      /\ n \in DOMAIN src /\ path \in Path /\ e \in DOMAIN heap
      /\ heap' = [heap EXCEPT ![e] = node]
      /\ job' = [job EXCEPT !.at = n]
      /\ ~CopyFails(src[n])
  BY DEF MergeOverwrite, Copied, Visiting, Running
<1>2. /\ TypeOK /\ src \in Seq(Node) /\ ProperPaths(src)
      /\ heap \in Seq(Node) /\ heap # <<>> /\ IsTree(heap) /\ HasUniqueKeys(heap)
      /\ Current = NULL \/ n # Root
  BY <1>1, WhereItIs
<1>3. n # NULL /\ n # Root
  BY <1>1, <1>2 DEF NULL
<1>4. /\ KeepsShape(heap', heap) /\ IsSignedConfig(heap') = IsSignedConfig(heap)
      /\ heap' \in Seq(Node) /\ DOMAIN heap' = DOMAIN heap
  BY <1>2, OverwriteGrows DEF Grows, SameMark
<1>5. IsTree(heap') /\ HasUniqueKeys(heap') /\ heap' # <<>>
  <2>1. IsTree(heap') /\ HasUniqueKeys(heap')
    BY <1>2, <1>4, SameShape
  <2>2. Root \in DOMAIN heap /\ DOMAIN <<>> = {}
    BY <1>2, RootInHeap
  <2>3. QED
    BY <1>4, <2>1, <2>2
<1>6. e = Reach(heap, Root, path) /\ e # NULL
  BY <1>1, <1>2 DEF ConfigGet, Path, NULL
<1>7. e # Root /\ FullPath(heap, e) = path /\ path \in PathsIn(heap)
  <2> HIDE DEF e, path
  <2>1. LET r == Reach(heap, Root, path)
        IN  r \in DOMAIN heap \ {Root} /\ FullPath(heap, r) = path /\ path \in PathsIn(heap)
    BY <1>1, <1>2, <1>6, FoundAtPath
  <2>2. QED
    BY <1>6, <2>1
<1>8. /\ heap[e] \in Node /\ src[n] \in Node /\ copy \in Node
      /\ OptionOf(copy) = OptionOf(src[n]) /\ ~CopyFails(copy)
  <2>1. heap[e] \in Node /\ src[n] \in Node
    BY <1>1, <1>2
  <2>2. src[n].type \in ContainerTypes => src[n].value = NoValue
    BY <1>1, <1>2, <1>3 DEF ProperPaths
  <2> HIDE DEF n, src, e
  <2>3. copy \in Node /\ OptionOf(copy) = OptionOf(src[n])
    BY <1>1, <2>1, <2>2, CopyConfigType, CopyConfigHolds
  <2> HIDE DEF copy
  <2>4. ~CopyFails(copy)
    BY <1>1, <2>3 DEF CopyFails, OptionOf
  <2>5. QED
    BY <2>1, <2>3, <2>4
<1>9. OptionOf(node) = IF IsScalar(OptionOf(src[n])) THEN OptionOf(src[n]) ELSE OptionOf(heap[e])
  <2> HIDE DEF copy, e, n, src
  <2>1. OptionOf(node) = IF IsScalar(OptionOf(copy)) THEN OptionOf(copy) ELSE OptionOf(heap[e])
    BY <1>8, CopyValueHolds
  <2>2. QED
    BY <1>8, <2>1
<1>10. heap'[e] = node /\ \A m \in DOMAIN heap \ {e} : heap'[m] = heap[m]
  BY <1>1, <1>2
<1> HIDE DEF node, copy, e, path, n
<1>11. /\ PathsIn(heap') = PathsIn(heap)
       /\ \A q \in PathsIn(heap) \ {path} : StoreOf(heap')[q] = StoreOf(heap)[q]
       /\ StoreOf(heap')[path] = OptionOf(node)
       /\ StoreOf(heap)[path] = OptionOf(heap[e])
  <2>1. \A m \in DOMAIN heap \ {e} : OptionOf(heap'[m]) = OptionOf(heap[m])
    BY <1>10
  <2>2. /\ PathsIn(heap') = PathsIn(heap)
        /\ \A q \in PathsIn(heap) \ {FullPath(heap, e)} : StoreOf(heap')[q] = StoreOf(heap)[q]
        /\ e # Root => StoreOf(heap')[FullPath(heap, e)] = OptionOf(heap'[e])
    <3>1. ReplacesOption(heap', heap, e)
      BY <1>1, <1>2, <1>4, <2>1, StoreReplaced
    <3>2. QED
      BY <3>1 DEF ReplacesOption
  <2>3. StoreOf(heap)[FullPath(heap, e)] = OptionOf(heap[e])
    BY <1>1, <1>2, <1>7, StoreIs
  <2>4. QED
    BY <1>7, <1>10, <2>2, <2>3
<1>12. StoreOf(heap')[path] = IF IsScalar(OptionOf(src[n])) THEN OptionOf(src[n])
                              ELSE StoreOf(heap)[path]
  BY <1>9, <1>11
<1>13. [Store!Next]_Store!vars /\ Halfway' /\ job'.status = "RUN"
  <2>1. /\ n = Current /\ n \in DOMAIN job.src /\ job' = [job EXCEPT !.at = n]
        /\ path = PathGetPath(job.src, n)
    BY <1>1 DEF n, path
  <2>2. VisitsNode(n)
    BY <1>4, <1>5, <1>7, <1>11, <1>12, <2>1 DEF VisitsNode
  <2>3. QED
    BY <1>1, <2>2, VisitedGoesOn
<1>14. BringsCurrent'
  BY <1>1 DEF BringsCurrent
<1>15. QED
  BY <1>13, <1>14 DEF GoesOn
(* The same options, when no node changes what it holds. *)
LEMMA SameStore ==
  ASSUME NEW h \in Seq(Node), h # <<>>, IsTree(h), HasUniqueKeys(h),
         NEW g \in Seq(Node), KeepsShape(g, h), \A m \in DOMAIN h : OptionOf(g[m]) = OptionOf(h[m])
  PROVE  StoreOf(g) = StoreOf(h)
<1>1. Root \in DOMAIN h /\ DOMAIN g = DOMAIN h /\ DOMAIN <<>> = {}
  BY RootInHeap DEF KeepsShape
<1>2. IsTree(g) /\ HasUniqueKeys(g) /\ g # <<>>
  <2>1. IsTree(g) /\ HasUniqueKeys(g)
    BY SameShape
  <2>2. QED
    BY <1>1, <2>1
<1>3. ReplacesOption(g, h, Root)
  BY <1>1, StoreReplaced
<1>4. FullPath(h, Root) \notin PathsIn(h)
  <2>1. \A n \in DOMAIN h : Reach(h, Root, FullPath(h, n)) = n
    BY PathLeadsBack
  <2>2. QED
    BY <1>1, <2>1 DEF PathsIn
<1>5. /\ StoreOf(g) = [q \in PathsIn(g) |-> StoreOf(g)[q]]
      /\ StoreOf(h) = [q \in PathsIn(h) |-> StoreOf(h)[q]]
  BY <1>2, StoreIs
<1>6. PathsIn(g) = PathsIn(h) /\ \A q \in PathsIn(h) : StoreOf(g)[q] = StoreOf(h)[q]
  BY <1>3, <1>4 DEF ReplacesOption
<1>7. QED
  BY <1>5, <1>6

(* The end of the walk: nothing is left to be brought, and the tree is marked. *)
LEMMA DoneIsSeen ==
  ASSUME StepInv, AllProper, MergeDone
  PROVE  GoesOn
<1>1. /\ Running /\ ins.status = "IDLE" /\ ins' = ins /\ Current = NULL /\ job' = NoJob
  BY DEF MergeDone, Visiting, Running
<1>2. /\ TypeOK /\ job.src \in Seq(Node) /\ ProperPaths(job.src)
      /\ heap \in Seq(Node) /\ heap # <<>> /\ IsTree(heap) /\ HasUniqueKeys(heap)
      /\ job.src \in Sources
      /\ (Current = NULL /\ Unvisited = {}) \/ Current \in DOMAIN job.src
  BY <1>1, WhereItIs
<1>3. Unvisited = {}
  BY <1>1, <1>2 DEF NULL
<1>4. /\ KeepsShape(heap', heap) /\ heap' \in Seq(Node)
      /\ IsSignedConfig(heap') = (IsSignedConfig(heap) \/ IsSignedConfig(job.src))
  BY <1>2, DoneGrows DEF Grows
<1>5. StoreOf(heap') = StoreOf(heap)
  <2> DEFINE mark == IsSignedConfig(heap) \/ IsSignedConfig(job.src)
  <2>1. /\ Root \in DOMAIN heap /\ heap[Root] \in Node
        /\ heap' = [heap EXCEPT ![Root] = [heap[Root] EXCEPT !.isSigned = mark]]
    BY <1>2, MergedRoot DEF MergeDone
  <2> HIDE DEF mark
  <2>2. \A m \in DOMAIN heap : OptionOf(heap'[m]) = OptionOf(heap[m])
    BY <1>2, <2>1 DEF OptionOf, Node
  <2>3. QED
    BY <1>2, <1>4, <2>2, SameStore
<1>6. View(heap, job) = StoreOf(heap)
  <2> DEFINE S == StoreOf(heap)
             O == OptionsOf(job.src, Unvisited)
  <2>1. DOMAIN O = {}
    BY <1>3 DEF OptionsOf
  <2>2. S = [q \in DOMAIN S |-> S[q]]
    BY <1>2, StoreIs
  <2>3. View(heap, job) = Overlay(S, O)
    BY <1>1 DEF View, Running, Unvisited
  <2> HIDE DEF S, O
  <2>4. QED
    BY <2>1, <2>2, <2>3, OverlayNothing DEF S
<1>7. job'.status = "IDLE" /\ ~Running'
  BY <1>1 DEF NoJob, Running
<1>8. View(heap', job') = View(heap, job)
  BY <1>5, <1>6, <1>7 DEF View
<1>9. Locked(heap', job') = Locked(heap, job)
  BY <1>1, <1>4, <1>7, Zenon DEF Locked, Running
<1>10. Halfway' /\ BringsCurrent'
  BY <1>1, <1>7 DEF Halfway, BringsCurrent
<1>11. QED
  BY <1>7, <1>8, <1>9, <1>10, SameView DEF GoesOn

(* The start of a merge is where the store takes its step. *)
LEMMA StartIsSeen ==
  ASSUME StepInv, AllProper, MergeStart
  PROVE  GoesOn
<1> DEFINE src == Head(queue)
<1>1. /\ job.status = "IDLE" /\ queue # <<>> /\ FollowsMergeRule(heap, src)
      /\ job' = [status |-> "RUN", src |-> src, at |-> Root]
      /\ heap' = heap /\ ins' = ins
  BY DEF MergeStart
<1>2. src \in Sources /\ ins.status = "IDLE"
  <2>1. queue \in Seq(Sources) /\ (ins.status # "IDLE" => job.status = "RUN")
    BY DEF StepInv, KeysInv, TypeInv, TypeOK, InsertedNode
  <2>2. QED
    BY <1>1, <2>1
<1>3. src \in Seq(Node) /\ src # <<>> /\ IsTree(src)
  BY <1>2, SourcesAssumption
<1>4. Following(src, Root) = DOMAIN src \ {Root} /\ Root \in DOMAIN src
  BY <1>3, RootIsFirst, RootInHeap
<1>5. job'.status = "RUN" /\ job'.src = src /\ job'.at = Root
  BY <1>1
<1> HIDE DEF src
<1>6. ~Running /\ Running' /\ Unvisited' = DOMAIN src \ {Root}
  BY <1>1, <1>4, <1>5 DEF Running, Unvisited
<1>7. Store!Merge(src)
  <2>1. Overlay(StoreOf(heap), OptionsOf(src, DOMAIN src \ {Root})) = OverrideBy(StoreOf(heap), src)
    BY DEF OverrideBy
  <2>2. IsSignedConfig(heap) => IsSignedConfig(src)
    BY <1>1 DEF FollowsMergeRule
  <2>3. QED
    BY <1>1, <1>5, <1>6, <2>1, <2>2 DEF Store!Merge
<1>8. [Store!Next]_Store!vars
  BY <1>2, <1>7 DEF Store!Next
<1>9. Halfway'
  BY <1>4, <1>5, <1>6 DEF Halfway
<1>10. BringsCurrent'
  BY <1>1, <1>2 DEF BringsCurrent
<1>11. QED
  BY <1>5, <1>8, <1>9, <1>10 DEF GoesOn
(* What NOT_FOUND says of the merged tree. *)
LEMMA NotFoundIsNull ==
  ASSUME NEW h \in Seq(Node), h # <<>>, IsTree(h), NEW path \in Path,
         ConfigGet(h, Root, path).status = "NOT_FOUND"
  PROVE  Reach(h, Root, path) = NULL
<1> DEFINE e == Reach(h, Root, path)
<1>1. h[Root].children = <<>> \/ e = NULL
  BY DEF ConfigGet, Path
<1>2. ASSUME h[Root].children = <<>>, e # NULL PROVE FALSE
  <2>1. e \in DOMAIN h \ {Root}
    BY <1>2, FoundAtPath
  <2>2. DOMAIN h = {Root}
    BY <1>2, RootAlone
  <2>3. QED
    BY <2>1, <2>2
<1>3. QED
  BY <1>1, <1>2

(* A path that is missing: to the store nothing happens yet. *)
LEMMA InsertIsSeen ==
  ASSUME StepInv, AllProper, MergeInsert
  PROVE  GoesOn
<1> DEFINE src == job.src
           path == PathGetPath(src, Current)
           copy == ConfigCopyConfig(src[Current])
<1>1. /\ Running /\ Current \in DOMAIN src /\ path \in Path
      /\ ConfigGet(heap, Root, path).status = "NOT_FOUND"
      /\ InsertCall(path, copy) /\ heap' = heap /\ job' = job
      /\ ~CopyFails(src[Current])
  BY DEF MergeInsert, Copied, Visiting, Running
<1>2. /\ TypeOK /\ src \in Seq(Node) /\ ProperPaths(src)
      /\ heap \in Seq(Node) /\ heap # <<>> /\ IsTree(heap)
      /\ Current = NULL \/ Current # Root
  BY <1>1, WhereItIs
<1>3. Current # Root
  BY <1>1, <1>2 DEF NULL
<1>4. src[Current] \in Node /\ copy \in Node /\ copy.children = <<>>
  BY <1>1, <1>2, CopyConfigType
<1>5. OptionOf(copy) = OptionOf(src[Current])
  <2>1. src[Current].type \in ContainerTypes => src[Current].value = NoValue
    BY <1>1, <1>2, <1>3 DEF ProperPaths
  <2>2. QED
    BY <1>1, <1>4, <2>1, CopyConfigHolds
<1>6. Reach(heap, Root, path) = NULL
  BY <1>1, <1>2, NotFoundIsNull
<1>7. path \in Seq(Keys) /\ path # <<>>
  BY <1>1 DEF Path
<1> HIDE DEF path, copy
<1>8. ins'.node = copy /\ ins'.path = path /\ ins'.status = "RUN"
  BY <1>1, <1>4, <1>7, InsertCallType
<1>9. View(heap', job') = View(heap, job) /\ Locked(heap', job') = Locked(heap, job)
  BY <1>1
<1>10. Current' = Current /\ Halfway'
  BY <1>1 DEF Current, StepInv, Halfway, Running, Unvisited
<1>11. BringsCurrent'
  BY <1>1, <1>5, <1>6, <1>8, <1>10 DEF BringsCurrent, path
<1>12. job'.status # "CRASHED"
  BY <1>1 DEF StepInv
<1>13. QED
  BY <1>9, <1>10, <1>11, <1>12, SameView DEF GoesOn

(* The node that a round links fills a gap that the rest of the source would *)
(* fill as well.                                                             *)
LEMMA LinkIsSeen ==
  ASSUME StepInv, AllProper, MergeInserting, InsertLink
  PROVE  GoesOn
<1> DEFINE src == job.src
           n == Current
           path == PathGetPath(src, n)
           here == SubSeq(path, 1, ins.seg)
           U == Unvisited
           O == OptionsOf(src, U)
           new == Len(heap) + 1
<1>1. /\ TypeOK /\ InsertTypeOK /\ InsertsLeaf /\ OnPath /\ NamedByPath /\ ins \in Insert
      /\ ins.status = "RUN" /\ Running /\ job' = job /\ job.status = "RUN"
  BY DEF StepInv, KeysInv, TypeInv, TypeOK, InsertedNode, InsertTypeOK, InsertLink, Running,
         MergeInserting
<1>2. /\ src \in Seq(Node) /\ src # <<>> /\ ProperPaths(src)
      /\ heap \in Seq(Node) /\ heap # <<>> /\ IsTree(heap) /\ HasUniqueKeys(heap)
      /\ U \subseteq DOMAIN src \ {Root}
      /\ Current = NULL \/ (n \in U /\ n # Root /\ Following(src, n) = U \ {n})
  BY <1>1, WhereItIs
<1>3. /\ n \in DOMAIN src /\ ins.path = path /\ OptionOf(ins.node) = OptionOf(src[n])
      /\ Reach(heap, Root, path) = NULL
  BY <1>1 DEF StepInv, BringsCurrent
<1>4. n # NULL /\ n \in U /\ n # Root /\ Following(src, n) = U \ {n}
  BY <1>2, <1>3 DEF NULL
<1>5. /\ path \in Path /\ path \in Seq(Keys) /\ Len(path) \in Nat
      /\ ins.seg \in 1..Len(path)
  <2>1. path \in Path
    BY <1>2, <1>3, <1>4 DEF ProperPaths
  <2>2. ins.seg \in 1..Len(path)
    BY <1>1, <1>3 DEF OnPath
  <2>3. QED
    BY <2>1, <2>2 DEF Path
<1>6. /\ DOMAIN O = {PathGetPath(src, m) : m \in U}
      /\ O[path] = OptionOf(src[n]) /\ path \in DOMAIN O
  <2>1. U \in SUBSET (DOMAIN src \ {Root})
    BY <1>2
  <2> HIDE DEF U, src, n
  <2>2. /\ DOMAIN O = {PathGetPath(src, m) : m \in U}
        /\ \A m \in U : O[PathGetPath(src, m)] = OptionOf(src[m])
    BY <1>2, <2>1, OptionsAre
  <2>3. QED
    BY <1>4, <2>2
<1>7. PICK key \in Keys : LinksHere(LinkedNode(key))
  BY <1>1, <1>2, LinkIsHere
<1> DEFINE node == LinkedNode(key)
<1>8. /\ node \in Node /\ Extends(heap', heap, ins.parent, node)
      /\ Append(FullPath(heap, ins.parent), node.key) = here /\ here \notin PathsIn(heap)
      /\ ins.parent \in DOMAIN heap
  BY <1>1, <1>3, <1>7 DEF LinksHere, InsertTypeOK
<1>9. /\ heap' \in Seq(Node) /\ IsTree(heap') /\ HasUniqueKeys(heap') /\ new \in Nat /\ new # NULL
      /\ heap' # <<>> /\ IsSignedConfig(heap') = IsSignedConfig(heap)
  <2>1. heap' \in Seq(Node) /\ IsTree(heap')
    BY <1>1, <1>2, LinkIsHere
  <2>2. HasUniqueKeys(heap')
    BY <1>1, <1>2, RoundStaysOnPath
  <2>3. \A m \in DOMAIN heap : KeepsNode(m)
    BY <1>1, LinkGrows
  <2>4. IsSignedConfig(heap') = IsSignedConfig(heap)
    BY <1>1, <2>3, KeepsMark DEF SameMark
  <2>5. new \in Nat /\ new # NULL
    BY <1>2 DEF NULL
  <2>6. new \in DOMAIN heap' /\ DOMAIN <<>> = {}
    BY <1>8 DEF Extends
  <2>7. QED
    BY <2>1, <2>2, <2>4, <2>5, <2>6
<1> HIDE DEF here, node, path, U, O, n
<1>10. /\ PathsIn(heap') = PathsIn(heap) \cup {here}
       /\ \A q \in PathsIn(heap) : StoreOf(heap')[q] = StoreOf(heap)[q]
       /\ StoreOf(heap')[here] = OptionOf(node)
  <2>1. AddsOption(heap', heap, here, node)
    BY <1>2, <1>8, <1>9, StoreLinked
  <2>2. QED
    BY <2>1 DEF AddsOption
<1>11. DOMAIN StoreOf(heap) = PathsIn(heap) /\ DOMAIN StoreOf(heap') = PathsIn(heap')
  BY <1>2, <1>9, StoreIs
<1>12. here \in Above(DOMAIN O) /\ here \in Path /\ Len(here) = ins.seg
  <2>1. here \in Above(DOMAIN O)
    BY <1>5, <1>6, AboveHas DEF here
  <2>2. here \in Path
    BY <1>5, MorePrefixes DEF here
  <2>3. Len(here) = ins.seg
    BY <1>5 DEF here
  <2>4. QED
    BY <2>1, <2>2, <2>3
<1>13. LastSegment => here = path /\ node = ins.node
  BY <1>3, <1>5 DEF LastSegment, here, node, LinkedNode
<1>14. ~LastSegment => here # path
  BY <1>3, <1>12 DEF LastSegment
<1>15. OptionOf(node) = IF here \in DOMAIN O THEN O[here] ELSE ObjectOption
  <2>1. CASE LastSegment
    BY <1>3, <1>6, <1>13, <2>1
  <2>2. CASE ~LastSegment
    <3>1. OptionOf(node) = ObjectOption
      BY <2>2 DEF node, LinkedNode, Intermediate, ConfigNew, OptionOf, ObjectOption
    <3>2. here \notin DOMAIN O
      <4>1. SUFFICES ASSUME NEW m \in U, PathGetPath(src, m) = here PROVE FALSE
        BY <1>6
      <4>2. here \in Above({path})
        BY <1>5, AboveHas DEF here
      <4>3. m \notin U \ {n}
        <5>1. m \in DOMAIN src \ {Root} /\ n \in DOMAIN src \ {Root}
          BY <1>2, <1>3, <1>4
        <5>2. PathGetPath(src, m) \in Above({PathGetPath(src, n)})
          BY <4>1, <4>2 DEF path
        <5>3. m \notin Following(src, n)
          BY <1>2, <5>1, <5>2 DEF ProperPaths
        <5>4. QED
          BY <1>4, <5>3
      <4>4. m = n
        BY <4>1, <4>3
      <4>5. QED
        BY <1>14, <2>2, <4>1, <4>4 DEF path
    <3>3. QED
      BY <3>1, <3>2
  <2>3. QED
    BY <2>1, <2>2
<1>16. Overlay(StoreOf(heap'), O) = Overlay(StoreOf(heap), O)
  <2> DEFINE S == StoreOf(heap)
             T == StoreOf(heap')
  <2>1. /\ here \notin DOMAIN S /\ DOMAIN T = DOMAIN S \cup {here}
        /\ \A q \in DOMAIN S : T[q] = S[q]
        /\ T[here] = IF here \in DOMAIN O THEN O[here] ELSE ObjectOption
    BY <1>8, <1>10, <1>11, <1>15
  <2> HIDE DEF S, T
  <2>2. FillsGap(S, T, O, here)
    BY <1>12, <2>1 DEF FillsGap
  <2>3. Overlay(T, O) = Overlay(S, O)
    BY <2>2, OverlayLinked
  <2>4. QED
    BY <2>3 DEF S, T
<1>17. View(heap', job') = View(heap, job) /\ Locked(heap', job') = Locked(heap, job)
  BY <1>1, <1>9, <1>16 DEF View, Locked, O, U, Unvisited
<1>18. Current' = Current /\ Halfway'
  <2>1. \A m \in DOMAIN src : Arrived(heap, src, m) => Arrived(heap', src, m)
    BY <1>10 DEF Arrived
  <2>2. QED
    BY <1>1, <2>1 DEF Current, StepInv, Halfway, Running, Unvisited
<1>19. /\ ins'.node = ins.node /\ ins'.path = path
       /\ ins'.status = "OK" => ins'.linked # NULL
       /\ ins'.status = "RUN" => ~LastSegment
  <2>1. InsertNext
    BY DEF InsertNext
  <2>2. ins'.node = ins.node /\ ins'.path = path
    BY <1>1, <1>3, <2>1, InsertStep DEF InsertGoesOn
  <2>3. CASE LastSegment
    <3>1. ins' = Linked(new)
      BY <2>3 DEF InsertLink
    <3>2. ins'.status = "OK" /\ ins'.linked = new
      BY <1>1, <3>1 DEF Linked, Insert
    <3>3. QED
      BY <1>9, <2>2, <3>2
  <2>4. CASE ~LastSegment
    <3>1. ins' = GoDown(new)
      BY <2>4 DEF InsertLink
    <3>2. ins'.status = "RUN"
      BY <1>1, <3>1 DEF GoDown, Insert
    <3>3. QED
      BY <2>2, <2>4, <3>2
  <2>5. QED
    BY <2>3, <2>4
<1>20. ins'.status = "RUN" => Reach(heap', Root, path) = NULL
  <2>1. path \notin PathsIn(heap)
    BY <1>2, <1>3, <1>5, PathIsFound DEF path
  <2>2. ~LastSegment => path \notin PathsIn(heap')
    BY <1>10, <1>14, <2>1
  <2>3. path \notin PathsIn(heap') => Reach(heap', Root, path) = NULL
    BY <1>5, <1>9, PathIsFound
  <2>4. QED
    BY <1>19, <2>2, <2>3
<1>21. BringsCurrent'
  BY <1>1, <1>3, <1>18, <1>19, <1>20 DEF BringsCurrent, path, n
<1>22. QED
  BY <1>1, <1>17, <1>18, <1>21, SameView DEF GoesOn
(* A round that finds its segment, or crashes, changes no option. *)
LEMMA InsertingIsSeen ==
  ASSUME StepInv, AllProper, MergeInserting
  PROVE  GoesOn
<1>1. /\ TypeOK /\ InsertTypeOK /\ InsertsLeaf /\ OnPath /\ ins \in Insert /\ InsertNext /\ ~Fault
      /\ heap \in Seq(Node) /\ heap # <<>> /\ IsTree(heap)
  BY DEF StepInv, KeysInv, TypeInv, TypeOK, InsertedNode, InsertTypeOK, NoFault, Fault, MergeInserting
<1>2. /\ ins.status = "RUN" /\ ins'.node = ins.node /\ ins'.path = ins.path
      /\ job' = job
  BY <1>1, InsertStatus, InsertStep DEF InsertGoesOn, MergeInserting
<1>3. CASE InsertLink
  BY <1>3, LinkIsSeen
<1>4. CASE InsertDescend \/ (InsertCrash /\ heap' = heap)
  <2>1. heap' = heap
    BY <1>4 DEF InsertDescend
  <2>2. ins'.status # "OK"
    <3>1. CASE InsertDescend
      <4>1. Lookup.status = "OK" /\ Lookup.node \in DOMAIN heap
        BY <3>1 DEF InsertDescend
      <4>2. ins.seg \in 1..Len(ins.path) /\ ins.path \in Seq(Keys)
        BY <1>1, <1>2 DEF OnPath, Insert
      <4>3. Lookup.node = Reach(heap, Root, SubSeq(ins.path, 1, ins.seg))
        BY <1>1, <1>2, <4>1, LookupIsChild
      <4>4. ~LastSegment
        <5>1. LastSegment => SubSeq(ins.path, 1, ins.seg) = ins.path
          BY <4>2 DEF LastSegment
        <5>2. Reach(heap, Root, ins.path) = NULL
          BY <1>2 DEF StepInv, BringsCurrent
        <5>3. NULL \notin DOMAIN heap
          BY <1>1 DEF NULL
        <5>4. QED
          BY <4>1, <4>3, <5>1, <5>2, <5>3
      <4>5. ins' = GoDown(Lookup.node)
        BY <3>1, <4>4 DEF InsertDescend
      <4>6. QED
        BY <1>1, <1>2, <4>5 DEF GoDown, Insert
    <3>2. CASE InsertCrash
      <4>1. ins' = [ins EXCEPT !.status = "CRASHED"]
        BY <3>2 DEF InsertCrash
      <4>2. QED
        BY <1>1, <4>1 DEF Insert
    <3>3. QED
      BY <1>4, <3>1, <3>2
  <2>3. View(heap', job') = View(heap, job) /\ Locked(heap', job') = Locked(heap, job)
    BY <1>2, <2>1
  <2>4. Current' = Current /\ Halfway'
    BY <1>2, <2>1 DEF Current, StepInv, Halfway, Running, Unvisited
  <2>5. BringsCurrent'
    BY <1>2, <2>1, <2>2, <2>4 DEF StepInv, BringsCurrent
  <2>6. job'.status # "CRASHED"
    BY <1>2 DEF StepInv
  <2>7. QED
    BY <2>3, <2>4, <2>5, <2>6, SameView DEF GoesOn
<1>5. InsertDescend \/ InsertLink \/ (InsertCrash /\ heap' = heap)
  BY <1>1 DEF InsertNext, InsertSkip, InsertFail, InsertAddFails, InsertCrash
<1>6. QED
  BY <1>3, <1>4, <1>5

(* The node has been linked where its path leads. *)
LEMMA InsertedIsSeen ==
  ASSUME StepInv, AllProper, MergeInserted
  PROVE  GoesOn
<1> DEFINE src == job.src
           n == Current
           path == PathGetPath(src, n)
           e == ins.linked
<1>1. /\ ins.status = "OK" /\ ins' = NoInsert /\ heap' = heap /\ job' = [job EXCEPT !.at = n]
      /\ Running
  BY DEF MergeInserted, InsertReturn, StepInv, KeysInv, TypeInv, InsertedNode, Running
<1>2. /\ TypeOK /\ src \in Seq(Node) /\ ProperPaths(src)
      /\ heap \in Seq(Node) /\ heap # <<>> /\ IsTree(heap) /\ HasUniqueKeys(heap)
      /\ Current = NULL \/ n # Root
  BY <1>1, WhereItIs
<1>3. /\ n \in DOMAIN src /\ ins.path = path /\ OptionOf(ins.node) = OptionOf(src[n])
      /\ e # NULL
  BY <1>1 DEF StepInv, BringsCurrent
<1>4. /\ Reach(heap, Root, path) = e
      /\ heap[e].type = ins.node.type /\ heap[e].value = ins.node.value
  BY <1>1, <1>3 DEF StepInv, KeysInv, OnPath
<1>5. path \in Path
  <2>1. n # Root
    BY <1>2, <1>3 DEF NULL
  <2>2. QED
    BY <1>2, <1>3, <2>1 DEF ProperPaths
<1> HIDE DEF path, e
<1>6. e \in DOMAIN heap \ {Root} /\ FullPath(heap, e) = path /\ path \in PathsIn(heap)
  BY <1>2, <1>3, <1>4, <1>5, FoundAtPath
<1>7. StoreOf(heap)[path] = OptionOf(src[n])
  <2>1. StoreOf(heap)[path] = OptionOf(heap[e])
    BY <1>2, <1>6, StoreIs
  <2>2. OptionOf(heap[e]) = OptionOf(ins.node)
    BY <1>4 DEF OptionOf
  <2>3. QED
    BY <1>3, <2>1, <2>2
<1>8. VisitsNode(n)
  BY <1>1, <1>2, <1>3, <1>6, <1>7 DEF VisitsNode, path
<1>9. [Store!Next]_Store!vars /\ Halfway' /\ job'.status = "RUN"
  BY <1>1, <1>8, VisitedGoesOn
<1>10. BringsCurrent'
  <2>1. ins'.status = "IDLE"
    BY <1>1, NoInsertType
  <2>2. QED
    BY <2>1 DEF BringsCurrent
<1>11. QED
  BY <1>9, <1>10 DEF GoesOn

(* Every step is a step of the store or a stutter. *)
LEMMA StepIsSeen ==
  ASSUME StepInv, AllProper, [Next]_vars
  PROVE  GoesOn
<1>1. /\ ~Fault /\ ins.status # "ERROR"
      /\ ins.status # "IDLE" => job.status = "RUN"
  BY DEF StepInv, KeysInv, TypeInv, InsertedNode, NoFault, Fault
<1>2. CASE UNCHANGED <<heap, ins, job>>
  <2>1. /\ View(heap', job') = View(heap, job) /\ Locked(heap', job') = Locked(heap, job)
        /\ job'.status # "CRASHED"
    BY <1>2 DEF StepInv
  <2>2. Current' = Current /\ Halfway'
    BY <1>2 DEF Current, StepInv, Halfway, Running, Unvisited
  <2>3. BringsCurrent'
    BY <1>2, <2>2 DEF StepInv, BringsCurrent
  <2>4. QED
    BY <2>1, <2>2, <2>3, SameView DEF GoesOn
<1>3. ~MergeCrash /\ ~MergeStringless
  <2>1. SUFFICES ASSUME MergeCrash \/ MergeStringless PROVE FALSE
    OBVIOUS
  <2>2. /\ Running /\ Current # NULL
        /\ \/ job.src[Current].key = NoKey \/ CopyFails(job.src[Current])
           \/ PathGetPath(job.src, Current) = NoPath
    BY <2>1 DEF MergeCrash, MergeStringless, Visiting, Running
  <2>3. ProperPaths(job.src) /\ Current \in DOMAIN job.src \ {Root}
    BY <2>2, WhereItIs
  <2>4. /\ PathGetPath(job.src, Current) \in Path
        /\ job.src[Current].key # NoKey /\ ~CopyFails(job.src[Current])
    BY <2>3 DEF ProperPaths
  <2>5. QED
    BY <2>2, <2>4 DEF Path, NoPath
<1>4. ~MergeNewFails /\ ~MergeNodeFails /\ ~MergeOverwriteFails /\ ~MergeInsertFails
  BY <1>1 DEF MergeNewFails, MergeNodeFails, MergeOverwriteFails, MergeInsertFails, InsertReturn
<1>5. CallMergeConfigs \/ MergeRefuse => UNCHANGED <<heap, ins, job>>
  BY DEF CallMergeConfigs, MergeRefuse
<1>6. CASE MergeStart \/ MergeDone \/ MergeOverwrite
  BY <1>6, StartIsSeen, DoneIsSeen, OverwriteIsSeen
<1>7. CASE MergeInsert \/ MergeInserting \/ MergeInserted
  BY <1>7, InsertIsSeen, InsertingIsSeen, InsertedIsSeen
<1>8. QED
  BY <1>2, <1>3, <1>4, <1>5, <1>6, <1>7 DEF Next, MergeNext, vars

(* The refinement invariant and the store, initially ... *)
LEMMA InitStore ==
  ASSUME MaxFaults = 0
  PROVE  Init => StepInv /\ Store!Init
<1>1. SUFFICES ASSUME Init PROVE StepInv /\ Store!Init
  OBVIOUS
<1>2. KeysInv
  BY <1>1, InitKeys
<1>3. job.status = "IDLE" /\ ins.status = "IDLE" /\ heap = EmptyTree
  BY <1>1, NoInsertType DEF Init, NoJob
<1>4. ~IsSignedConfig(EmptyTree)
  BY DEF IsSignedConfig, EmptyTree, ConfigNew, Root
<1>5. StepInv
  BY <1>2, <1>3 DEF StepInv, Halfway, BringsCurrent, Running
<1>6. Store!Init
  BY <1>3, <1>4 DEF Store!Init, Running
<1>7. QED
  BY <1>5, <1>6

(* ... and from step to step. *)
LEMMA StepStore ==
  ASSUME NoSlashes, AllProper
  PROVE  StepInv /\ [Next]_vars => StepInv' /\ [Store!Next]_Store!vars
  BY StepKeys, StepIsSeen DEF StepInv, GoesOn

(* Merge implements OptionStore: a configuration that the rule admits        *)
(* overrides the options of the merged tree in one step, in which those who  *)
(* have looked at the paths and values of the tree see nothing of the walk,  *)
(* of the objects samconfInsertAt makes on the way and of the order of the   *)
(* nodes.  For every set of sources with proper paths and without slashes in *)
(* keys, as long as no allocation fails.                                     *)
THEOREM MergingIsOneStep ==
  ASSUME MaxFaults = 0, NoSlashes, AllProper
  PROVE  Spec => MergesAsOneStep
<1>1. Init => StepInv /\ Store!Init
  BY InitStore
<1>2. StepInv /\ [Next]_vars => StepInv' /\ [Store!Next]_Store!vars
  BY StepStore
<1>3. QED
  BY <1>1, <1>2, PTL DEF Spec, MergesAsOneStep, Store!Spec

(* Once a configuration is merged each of its options can be read at its     *)
(* path: what OptionsReadBack says, and what a slash in a key breaks, holds  *)
(* for every set of sources with proper paths and without slashes in keys,   *)
(* as long as no allocation fails.                                           *)
THEOREM OptionsStayReadable ==
  ASSUME MaxFaults = 0, NoSlashes, AllProper
  PROVE  Spec => OptionsReadBack
<1> DEFINE Found(n) == ConfigGet(heap, Root, PathGetPath(job.src, n))
           Back(n) == /\ Found(n).status = "OK"
                      /\ heap[Found(n).node].type = job.src[n].type
                      /\ heap[Found(n).node].value = job.src[n].value
<1>1. ASSUME StepInv, MergeDone, NEW n \in DOMAIN job.src \ {Root},
             job.src[n].type \in ScalarTypes
      PROVE  Back(n)
  <2> DEFINE path == PathGetPath(job.src, n)
             e == Reach(heap, Root, path)
  <2>1. Running /\ Current = NULL
    BY <1>1 DEF MergeDone, Visiting, Running
  <2>2. /\ heap \in Seq(Node) /\ heap # <<>> /\ IsTree(heap) /\ HasUniqueKeys(heap)
        /\ job.src \in Seq(Node) /\ ProperPaths(job.src)
        /\ (Current = NULL /\ Unvisited = {}) \/ Current \in DOMAIN job.src
    BY <1>1, <2>1, WhereItIs
  <2>3. Unvisited = {}
    BY <2>1, <2>2 DEF NULL
  <2>4. Arrived(heap, job.src, n) /\ path \in Path
    BY <1>1, <2>1, <2>2, <2>3 DEF StepInv, Halfway, ProperPaths
  <2>5. path \in PathsIn(heap) /\ StoreOf(heap)[path] = OptionOf(job.src[n])
    BY <1>1, <2>4 DEF Arrived, IsScalar, OptionOf
  <2>6. e # NULL /\ StoreOf(heap)[path] = OptionOf(heap[e])
    BY <2>2, <2>4, <2>5, PathIsFound, StoreIs
  <2>7. heap[Root].children # <<>>
    <3> HIDE DEF path
    <3>1. e \in DOMAIN heap \ {Root}
      BY <2>2, <2>4, <2>6, FoundAtPath
    <3>2. QED
      BY <2>2, <3>1, RootAlone
  <2>8. Found(n).status = "OK" /\ Found(n).node = e
    BY <2>4, <2>6, <2>7 DEF ConfigGet, Path
  <2> HIDE DEF e, path
  <2>9. OptionOf(heap[e]) = OptionOf(job.src[n])
    BY <2>5, <2>6
  <2>10. QED
    BY <2>8, <2>9 DEF OptionOf
<1>2. StepInv /\ [Next]_vars =>
        [MergeDone => \A n \in DOMAIN job.src \ {Root} :
                        LET found == ConfigGet(heap, Root, PathGetPath(job.src, n))
                        IN  job.src[n].type \in ScalarTypes =>
                              /\ found.status = "OK"
                              /\ heap[found.node].type = job.src[n].type
                              /\ heap[found.node].value = job.src[n].value]_vars
  BY <1>1
<1>3. Init => StepInv
  BY InitStore
<1>4. StepInv /\ [Next]_vars => StepInv'
  BY StepStore
<1>5. QED
  BY <1>2, <1>3, <1>4, PTL DEF Spec, OptionsReadBack
===============================================================================

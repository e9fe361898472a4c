-------------------------------- MODULE Merge ---------------------------------
(***************************************************************************)
(* samconfConfigMergeConfigs and samconfConfigMergeConfig: configurations  *)
(* are merged, one after the other, into the tree of the caller.  A        *)
(* configuration is walked with samconfConfigNext; a node whose path       *)
(* exists in the merged tree overwrites the value there, any other node is *)
(* copied and linked by samconfInsertAt.  Each action is one round of the  *)
(* loop of samconfConfigMergeConfig.  A round allocates memory in several  *)
(* places; the ways in which that fails are actions of their own.          *)
(***************************************************************************)
EXTENDS TreeInsert

CONSTANTS
  Sources,     \* the configuration trees that can be merged, as heaps
  MaxBatch,    \* bound on the configurations of one samconfConfigMergeConfigs
  MaxBatches   \* bound on the calls of samconfConfigMergeConfigs

ASSUME SourcesAssumption ==
  /\ Sources \subseteq Seq(Node)
  /\ \A src \in Sources : src # <<>> /\ IsTree(src)
(* A backend marks every node it loads, or the root alone, as the location is  *)
(* signed; what it loads from an unsigned location has no marks.               *)
ASSUME MarksAssumption ==
  \A src \in Sources : \A n \in DOMAIN src : src[n].isSigned => src[Root].isSigned
ASSUME BoundsAssumption == MaxBatch \in Nat \ {0} /\ MaxBatches \in Nat

VARIABLES
  job,          \* the locals of the running samconfConfigMergeConfig
  queue,        \* the configurations the running samconfConfigMergeConfigs has left
  result,       \* the status last returned
  batches,      \* the calls of samconfConfigMergeConfigs so far
  signedNodes,  \* history: the nodes of the tree whose value a signed configuration set
  cut           \* history: the merge of a signed configuration ended before its last node

vars == <<heap, ins, faults, job, queue, result, batches, signedNodes, cut>>

NoJob == [status |-> "IDLE", src |-> <<>>, at |-> Root]

TypeOK ==
  /\ InsertTypeOK
  /\ job \in [status : {"IDLE"}, src : {<<>>}, at : {Root}]
              \cup [status : {"RUN", "CRASHED"}, src : Sources, at : Nat]
  /\ queue \in Seq(Sources)
  /\ result \in {"OK", "ERROR", "OVERWRITE_NOT_ALLOWED"}
  /\ batches \in 0..MaxBatches
  /\ signedNodes \subseteq DOMAIN heap
  /\ cut \in BOOLEAN

(* The tree samconfLoadAndMerge starts from: an object without a key. *)
EmptyTree == <<[ConfigNew EXCEPT !.type = "OBJECT"]>>

Init ==
  /\ heap = EmptyTree
  /\ ins = NoInsert
  /\ faults = MaxFaults
  /\ job = NoJob
  /\ queue = <<>>
  /\ result = "OK"
  /\ batches = 0
  /\ signedNodes = {}
  /\ cut = FALSE

-------------------------------------------------------------------------------
Idle == job.status = "IDLE" /\ queue = <<>>

IsSignedConfig(tree) == tree[Root].isSigned

(* Slip: the configuration with the highest priority always wins. *)
FollowsPriorityOnly(merged, config) == TRUE

(* _followsMergeRule *)
FollowsMergeRule(merged, config) == IsSignedConfig(merged) => IsSignedConfig(config)

(* The program calls samconfConfigMergeConfigs. *)
CallMergeConfigs ==
  /\ Idle
  /\ batches < MaxBatches
  /\ \E k \in 1..MaxBatch : \E batch \in [1..k -> Sources] : queue' = batch
  /\ batches' = batches + 1
  /\ UNCHANGED <<heap, ins, faults, job, result, signedNodes, cut>>

MergeStart ==
  /\ job.status = "IDLE" /\ queue # <<>>
  /\ FollowsMergeRule(heap, Head(queue))
  /\ job' = [status |-> "RUN", src |-> Head(queue), at |-> Root]
  /\ queue' = Tail(queue)
  /\ UNCHANGED <<heap, ins, faults, result, batches, signedNodes, cut>>

(* The batch goes on after a configuration the rule excludes. *)
MergeRefuse ==
  /\ job.status = "IDLE" /\ queue # <<>>
  /\ ~FollowsMergeRule(heap, Head(queue))
  /\ result' = "OVERWRITE_NOT_ALLOWED"
  /\ queue' = Tail(queue)
  /\ UNCHANGED <<heap, ins, faults, job, batches, signedNodes, cut>>

-------------------------------------------------------------------------------
(* The node this round of the loop is about, NULL behind the last one. *)
Current == ConfigNext(job.src, Root, job.at).next

(* The loop is at the start of a round. *)
Visiting == job.status = "RUN" /\ ins.status = "IDLE"

(* A round gets to the path of its node once samconfConfigCopyConfig has a *)
(* copy: strdup crashes on a missing key, and a missing string is refused. *)
Copied(n) == n \in DOMAIN job.src /\ job.src[n].key # NoKey /\ ~CopyFails(job.src[n])

(* The history once job.src has set the value of node e. *)
SetBySource(e) ==
  IF IsSignedConfig(job.src) THEN signedNodes \cup {e} ELSE signedNodes \ {e}

(* The path exists: samconfCopyConfigValue to the node there. *)
MergeOverwrite ==
  /\ Visiting
  /\ LET n == Current
         found == ConfigGet(heap, Root, PathGetPath(job.src, n))
         e == found.node
     IN  /\ Copied(n)
         /\ PathGetPath(job.src, n) \in Path
         /\ found.status = "OK" /\ e \in DOMAIN heap
         /\ heap' = [heap EXCEPT ![e] = CopyConfigValue(ConfigCopyConfig(job.src[n]), @)]
         /\ signedNodes' = IF job.src[n].type \in ContainerTypes THEN signedNodes
                           ELSE SetBySource(e)
         /\ job' = [job EXCEPT !.at = n]
  /\ UNCHANGED <<ins, faults, queue, result, batches, cut>>

(* The path does not exist: call samconfInsertAt with a copy of the node. *)
MergeInsert ==
  /\ Visiting
  /\ LET n == Current
         path == PathGetPath(job.src, n)
     IN  /\ Copied(n)
         /\ path \in Path
         /\ ConfigGet(heap, Root, path).status = "NOT_FOUND"
         /\ InsertCall(path, ConfigCopyConfig(job.src[n]))
  /\ UNCHANGED <<heap, faults, job, queue, result, batches, signedNodes, cut>>

MergeInserting ==
  /\ InsertNext
  /\ UNCHANGED <<job, queue, result, batches, signedNodes, cut>>

MergeInserted ==
  /\ InsertReturn("OK")
  /\ signedNodes' = IF ins.linked = NULL THEN signedNodes ELSE SetBySource(ins.linked)
  /\ Current \in DOMAIN job.src
  /\ job' = [job EXCEPT !.at = Current]
  /\ UNCHANGED <<heap, faults, queue, result, batches, cut>>

(* Slip: the merged tree is not marked. *)
MergeDoneUnmarked ==
  /\ Visiting /\ Current = NULL
  /\ result' = "OK"
  /\ job' = NoJob
  /\ UNCHANGED <<heap, ins, faults, queue, batches, signedNodes, cut>>

(* The walk is over: the merged tree is signed from now on if this one is. *)
MergeDone ==
  /\ Visiting /\ Current = NULL
  /\ heap' = [heap EXCEPT ![Root].isSigned = IsSignedConfig(heap) \/ IsSignedConfig(job.src)]
  /\ result' = "OK"
  /\ job' = NoJob
  /\ UNCHANGED <<ins, faults, queue, batches, signedNodes, cut>>

-------------------------------------------------------------------------------
(* The loop is left in the middle.  The batch ends on a status other than OK. *)
StopShort(status) ==
  /\ job' = NoJob
  /\ result' = status
  /\ queue' = IF status = "OK" THEN queue ELSE <<>>
  /\ cut' = (cut \/ IsSignedConfig(job.src))
  /\ UNCHANGED <<batches, signedNodes>>

(* samconfConfigNew fails: the status is still the initial one. *)
MergeNewFails ==
  /\ Visiting /\ Current # NULL
  /\ Fault
  /\ StopShort("ERROR")
  /\ UNCHANGED <<heap, ins>>

(* The string of the node is missing: samconfConfigCopyConfig fails, and the *)
(* status is that of the samconfConfigDelete of the copied node.             *)
MergeStringless ==
  /\ Visiting /\ Current # NULL
  /\ job.src[Current].key # NoKey /\ CopyFails(job.src[Current])
  /\ StopShort("OK")
  /\ UNCHANGED <<heap, ins, faults>>

(* samconfConfigCopyConfig, samconfPathGetPath or samconfConfigGet fails for  *)
(* lack of memory: the same.                                                  *)
MergeNodeFails ==
  /\ Visiting /\ Current # NULL
  /\ job.src[Current].key # NoKey
  /\ Fault
  /\ StopShort("OK")
  /\ UNCHANGED <<heap, ins>>

(* samconfConfigSetString fails on the node to overwrite: its value is lost. *)
MergeOverwriteFails ==
  /\ Visiting
  /\ LET n == Current
         found == ConfigGet(heap, Root, PathGetPath(job.src, n))
     IN  /\ Copied(n) /\ job.src[n].type = "STRING"
         /\ PathGetPath(job.src, n) \in Path
         /\ found.status = "OK" /\ found.node \in DOMAIN heap
         /\ heap' = [heap EXCEPT ![found.node].value = NoValue]
  /\ Fault
  /\ StopShort("OK")
  /\ UNCHANGED ins

(* samconfInsertAt failed: the copied node is deleted, with status OK again. *)
MergeInsertFails ==
  /\ InsertReturn("ERROR")
  /\ StopShort("OK")
  /\ UNCHANGED <<heap, faults>>

(* No ancestor is called "root": samconfPathGetPath follows a null parent.  Or *)
(* the node has no key, which strdup follows.                                  *)
MergeCrash ==
  /\ Visiting /\ Current # NULL
  /\ \/ job.src[Current].key = NoKey
     \/ Copied(Current) /\ PathGetPath(job.src, Current) = NoPath
  /\ job' = [job EXCEPT !.status = "CRASHED"]
  /\ UNCHANGED <<heap, ins, faults, queue, result, batches, signedNodes, cut>>

-------------------------------------------------------------------------------
MergeNext ==
  \/ MergeStart \/ MergeRefuse
  \/ MergeOverwrite \/ MergeInsert \/ MergeInserting \/ MergeInserted \/ MergeDone
  \/ MergeNewFails \/ MergeStringless \/ MergeNodeFails \/ MergeOverwriteFails \/ MergeInsertFails
  \/ MergeCrash

Next == CallMergeConfigs \/ MergeNext

Spec == Init /\ [][Next]_vars

(* The library runs in the thread of its caller, which goes on running. *)
FairSpec == Spec /\ WF_vars(MergeNext)

-------------------------------------------------------------------------------
(* The merged tree stays a tree, whatever the sources look like and wherever *)
(* an allocation fails: samconfInsertAt links every new node once, below a   *)
(* node that was there, with a matching parent pointer.  The one failure     *)
(* that breaks it is that of samconfConfigAdd, which loses a child list.     *)
MergedIsTree == IsWhole(heap) => IsTree(heap)

(* Merging never gives two children of a node the same key, so that a path   *)
(* names one option: samconfInsertAt links only where samconfConfigGet found *)
(* nothing.                                                                  *)
MergedKeysUnique == HasUniqueKeys(heap)

(* While the tree holds a value from a signed configuration it is locked for *)
(* unsigned ones: it is marked signed, or the signed merge is still running, *)
(* or such a merge was cut short, by a failed allocation or a missing string. *)
SignedIsLocked ==
  signedNodes # {} =>
    \/ IsSignedConfig(heap)
    \/ job.status # "IDLE" /\ IsSignedConfig(job.src)
    \/ cut

(* The mark of an option can be trusted: a node that is marked signed holds  *)
(* what a signed configuration set (ADR source_verification), or was just    *)
(* linked by its merge, unless a signed merge was cut short.  The converse   *)
(* does not hold: an option that a signed configuration overwrites keeps the *)
(* mark it had, for samconfCopyConfigValue copies the value alone.           *)
MarkIsHonest ==
  ~cut => \A n \in DOMAIN heap \ {Root} : heap[n].isSigned => n \in signedNodes \cup {ins.linked}

SetsValue(n) == <<heap[n].type, heap[n].value>> # <<heap'[n].type, heap'[n].value>>

(* A step changes a value that a signed configuration set only while it      *)
(* merges a signed configuration (developer.md, merge rules 2 and 4), unless *)
(* a signed merge was cut short earlier.                                     *)
SignedOnlyBySigned ==
  [][\A n \in signedNodes : SetsValue(n) => cut \/ IsSignedConfig(job.src)]_vars

(* The same without the exception: the rule as developer.md words it, which *)
(* holds as long as no allocation fails, here or in the loads before.       *)
UnsignedNeverOverwritesSigned ==
  [][\A n \in signedNodes : SetsValue(n) => IsSignedConfig(job.src)]_vars

(* A path that leads to a node goes on leading to it. *)
KeepsPath(path) ==
  Reach(heap, Root, path) # NULL => Reach(heap', Root, path) = Reach(heap, Root, path)

(* An option keeps its path: no step of a merge makes a path that leads to a *)
(* node lead to another one or to none, because samconfConfigAdd appends and *)
(* samconfConfigGet takes the first match, until a child list is lost.       *)
PathsAreStable == [][IsWhole(heap') => \A n \in DOMAIN heap : KeepsPath(FullPath(heap, n))]_vars

(* Once a configuration is merged each of its scalar options can be read at  *)
(* its own path (developer.md, "Each node can be addressed").  Keys with a   *)
(* '/' break this: the path printed for the node has more segments than      *)
(* there are keys, and split again it names other nodes.                     *)
OptionsReadBack ==
  [][MergeDone =>
       \A n \in DOMAIN job.src \ {Root} :
         LET found == ConfigGet(heap, Root, PathGetPath(job.src, n))
         IN  job.src[n].type \in ScalarTypes =>
               /\ found.status = "OK"
               /\ heap[found.node].type = job.src[n].type
               /\ heap[found.node].value = job.src[n].value]_vars

(* A call of samconfConfigMergeConfigs returns: the walk with                *)
(* samconfConfigNext reaches the end of every configuration.                 *)
BatchReturns == (queue # <<>> \/ job.status = "RUN") ~> Idle
===============================================================================

------------------------------ MODULE MergeStore ------------------------------
(***************************************************************************)
(* Merge implements OptionStore: a configuration the rule admits overrides *)
(* the options in one step, the one that starts its merge, although the    *)
(* code visits the nodes one by one and links missing objects in between.  *)
(* Stated without failed allocations (MaxFaults = 0) and for the sources   *)
(* that are described at the end.                                          *)
(***************************************************************************)
EXTENDS Merge

OptionOf(node) == [type |-> node.type, value |-> node.value]

IsScalar(option) == option.type \in ScalarTypes

ObjectOption == [type |-> "OBJECT", value |-> NoValue]

(* The options of a merged tree, by path. *)
StoreOf(tree) ==
  [p \in {FullPath(tree, n) : n \in DOMAIN tree \ {Root}} |-> OptionOf(tree[Reach(tree, Root, p)])]

(* The options that some nodes of a source set, by the path they are merged at. *)
OptionsOf(src, nodes) ==
  [p \in {PathGetPath(src, n) : n \in nodes} |->
     OptionOf(src[CHOOSE n \in nodes : PathGetPath(src, n) = p])]

(* The beginnings of paths: these paths and those of the objects above them. *)
Above(paths) == UNION {{SubSeq(p, 1, i) : i \in 1..Len(p)} : p \in paths}

(* A scalar replaces what is there, an object or an array only fills a gap, *)
(* as do the objects above an option.                                       *)
Overlay(store, options) ==
  [p \in DOMAIN store \cup Above(DOMAIN options) |->
     IF p \in DOMAIN options /\ IsScalar(options[p]) THEN options[p]
     ELSE IF p \in DOMAIN store THEN store[p]
     ELSE IF p \in DOMAIN options THEN options[p]
     ELSE ObjectOption]

OverrideBy(store, src) == Overlay(store, OptionsOf(src, DOMAIN src \ {Root}))

(* The nodes of job.src that samconfConfigMergeConfig has not merged yet. *)
Unvisited == Following(job.src, job.at)

Running == job.status = "RUN"

(* Every prefix of the batch is merged as OptionStore says: the options are *)
(* those linked so far, overridden by what the running merge still brings.  *)
Store == INSTANCE OptionStore WITH
  Configs <- Sources,
  Override <- OverrideBy,
  Signed <- IsSignedConfig,
  Empty <- StoreOf(EmptyTree),
  opts <- IF Running THEN Overlay(StoreOf(heap), OptionsOf(job.src, Unvisited))
          ELSE StoreOf(heap),
  locked <- IsSignedConfig(heap) \/ (Running /\ IsSignedConfig(job.src))

MergesAsOneStep == Store!Spec

-------------------------------------------------------------------------------
(* The keys of the sources hold no '/'. *)
NoSlashes == \A src \in Sources : \A n \in DOMAIN src : src[n].key \notin DOMAIN Slashed

(* No string of the sources is missing, as is one that strdup failed to copy. *)
NoMissingStrings == \A src \in Sources : \A n \in DOMAIN src : ~CopyFails(src[n])

(* Every node has a key and a path, which is its own; what is above a node   *)
(* by its path is not merged after it; and all options, and only they, hold  *)
(* a value (a string at least).  This is so of what a backend loads without  *)
(* a failed allocation if "root" is the one key at the top of the document,  *)
(* no key inside of it, and no object has a key twice once keys with a '/'   *)
(* are split.                                                                *)
ProperPaths(src) ==
  \A n \in DOMAIN src \ {Root} :
    /\ src[n].key # NoKey /\ PathGetPath(src, n) \in Path
    /\ src[n].type \in ContainerTypes => src[n].value = NoValue
    /\ ~CopyFails(src[n])
    /\ \A m \in DOMAIN src \ {Root} :
         /\ PathGetPath(src, m) = PathGetPath(src, n) => m = n
         /\ PathGetPath(src, m) \in Above({PathGetPath(src, n)}) => m \notin Following(src, n)

AllProper == \A src \in Sources : ProperPaths(src)
===============================================================================

------------------------------ MODULE ConfigTree ------------------------------
(***************************************************************************)
(* The configuration tree of samconf_types.h and the functions of          *)
(* samconf.c and path_helper.c that read it or grow it by one node.        *)
(*                                                                         *)
(* A heap is a sequence of nodes; the index of a node is its address and   *)
(* NULL the null pointer.  Nodes are numbered in the order in which they   *)
(* are linked, so the first node of a heap is the root of its tree.  A     *)
(* path is a sequence of segments, what samconfPathCreateArray makes of    *)
(* the string "a/b/c".                                                     *)
(***************************************************************************)
EXTENDS Naturals, Sequences, SequencesExt

CONSTANTS
  Keys,     \* the strings used as keys and as path segments
  Slashed,  \* the keys that hold a '/' (or nothing) and the segments they split into
  Values    \* the values of scalar options

NULL == 0
Root == 1
RootKey == "root"
NoKey == "<null>"
NoValue == "<none>"

ASSUME KeyAssumption == RootKey \in Keys /\ NoKey \notin Keys /\ RootKey \notin DOMAIN Slashed
ASSUME SlashedAssumption == \A k \in DOMAIN Slashed : Slashed[k] \in Seq(Keys)
ASSUME ValueAssumption == NoValue \notin Values

ScalarTypes == {"STRING", "INT", "REAL", "BOOLEAN"}
ContainerTypes == {"NONE", "ARRAY", "OBJECT"}
Path == Seq(Keys) \ {<<>>}

Node == [key : Keys \cup {NoKey}, parent : Nat, children : Seq(Nat),
         type : ScalarTypes \cup ContainerTypes, value : Values \cup {NoValue},
         isSigned : BOOLEAN,
         lost : BOOLEAN]  \* childCount is not 0, but children is null

-------------------------------------------------------------------------------
(* samconfConfigNew: allocated and zeroed. *)
ConfigNew == [key |-> NoKey, parent |-> NULL, children |-> <<>>,
              type |-> "NONE", value |-> NoValue, isSigned |-> FALSE, lost |-> FALSE]

(* The node samconfInsertAt makes for a missing intermediate segment. *)
Intermediate(key) == [ConfigNew EXCEPT !.key = key, !.type = "OBJECT"]

(* The two sides of a link. *)
WithChild(node, c) == [node EXCEPT !.children = Append(@, c)]
WithParent(node, p) == [node EXCEPT !.parent = p]

(* Slips: the node is counted but not stored, its parent is not set, it *)
(* becomes the first child.                                               *)
ConfigAddCountOnly(heap, p, node) == [heap EXCEPT ![p] = WithChild(@, Len(heap) + 1)]
ConfigAddNoParent(heap, p, node) ==
  Append([heap EXCEPT ![p] = WithChild(@, Len(heap) + 1)], node)
ConfigAddFirst(heap, p, node) ==
  Append([heap EXCEPT ![p].children = Cons(Len(heap) + 1, @)], WithParent(node, p))

(* samconfConfigAdd: node becomes the last child of p. *)
ConfigAdd(heap, p, node) ==
  Append([heap EXCEPT ![p] = WithChild(@, Len(heap) + 1)], WithParent(node, p))

(* Slip: the node does not learn its parent. *)
LinkNodeNoParent(heap, p, n) == [heap EXCEPT ![p] = WithChild(@, n)]

(* ... and the same for a node that is in the heap already. *)
LinkNode(heap, p, n) == [heap EXCEPT ![p] = WithChild(@, n), ![n] = WithParent(@, p)]

(* samconfConfigAdd without memory: the null pointer replaces the child list. *)
LoseChildren(node) ==
  [node EXCEPT !.lost = @ \/ node.children # <<>>, !.children = <<>>]

(* samconfConfigSetString takes no null pointer: a string that is missing, *)
(* since an allocation failed, cannot be copied.                           *)
CopyFails(from) == from.type = "STRING" /\ from.value = NoValue

(* Slip: a container is copied like a scalar. *)
CopyConfigValueAny(from, to) ==
  IF CopyFails(from) THEN to
  ELSE [to EXCEPT !.type = from.type, !.value = from.value]

(* samconfCopyConfigValue: a container leaves the target as it is. *)
CopyConfigValue(from, to) ==
  IF from.type \in ContainerTypes \/ CopyFails(from) THEN to
  ELSE [to EXCEPT !.type = from.type, !.value = from.value]

(* samconfConfigCopyConfig into a new node: not its parent, not its children. *)
ConfigCopyConfig(from) ==
  CopyConfigValue(from, [ConfigNew EXCEPT !.key = from.key, !.type = from.type,
                                          !.isSigned = from.isSigned])

(* What an option holds, *)
Option == [type : ScalarTypes, value : Values]

(* ... and a node that holds it. *)
WithOption(node, option) == [node EXCEPT !.type = option.type, !.value = option.value]

(* Slip: the node is named after the first segment of its path. *)
NewOptionNamedFirst(path, option) ==
  WithOption([ConfigNew EXCEPT !.key = IF path = <<>> THEN NoKey ELSE Head(path)], option)

(* The node for an option: its key is the basename of the path. *)
NewOption(path, option) ==
  WithOption([ConfigNew EXCEPT !.key = IF path = <<>> THEN NoKey ELSE Last(path)], option)

-------------------------------------------------------------------------------
(* Slip: the loop over the children starts at the second one. *)
ChildNamedOffByOne(heap, n, key) ==
  LET kids == heap[n].children
      hits == {i \in 2..Len(kids) : heap[kids[i]].key = key}
  IN  IF hits = {} THEN NULL ELSE kids[CHOOSE i \in hits : TRUE]

(* The first child of n with that key. *)
ChildNamed(heap, n, key) ==
  LET kids == heap[n].children
      hit  == SelectInSeq(kids, LAMBDA c : heap[c].key = key)
  IN  IF hit = 0 THEN NULL ELSE kids[hit]

(* The node samconfConfigGet finds, one level per segment. *)
Reach(heap, root, path) ==
  LET at[i \in 0..Len(path)] ==
        IF i = 0 THEN root
        ELSE LET up == at[i - 1]
             IN  IF up = NULL THEN NULL ELSE ChildNamed(heap, up, path[i])
  IN  at[Len(path)]

(* samconfConfigGet.  A path without segments succeeds and sets no node. *)
ConfigGet(heap, root, path) ==
  LET node == IF path = <<>> THEN NULL ELSE Reach(heap, root, path)
  IN  [status |-> IF heap[root].children # <<>> /\ (path = <<>> \/ node # NULL)
                  THEN "OK" ELSE "NOT_FOUND",
       node |-> node]

(* The segments a key contributes once it has been through a path string. *)
Segments(key) == IF key \in DOMAIN Slashed THEN Slashed[key] ELSE <<key>>

(* samconfPathGetPath, split again by samconfPathCreateArray: the keys from  *)
(* the nearest ancestor called "root" down to the node.  Without one the    *)
(* code follows the null parent of the top node; NoPath stands for that.    *)
NoPath == <<>>

PathGetPath(heap, n) ==
  LET up[m \in DOMAIN heap] ==
        IF heap[m].key = RootKey THEN <<RootKey>>
        ELSE IF heap[m].parent = NULL THEN NoPath
        ELSE LET prefix == up[heap[m].parent]
             IN  IF prefix = NoPath THEN NoPath ELSE prefix \o Segments(heap[m].key)
  IN  up[n]

(* samconfConfigNext: _findNextConfigAtLevel visits the whole tree, raises  *)
(* found at the node it looks for and takes the node it enters next.  The   *)
(* status is what the last call on a child returned.                        *)
Search == [found : BOOLEAN, next : Nat, status : {"OK", "NOT_FOUND", "ERROR"}]

(* Slip: found is raised before the node is compared, so that the node itself *)
(* is taken for the next one.                                                 *)
ConfigNextStays(heap, root, sought) == [found |-> TRUE, next |-> sought, status |-> "OK"]

(* Slip: the children of the node it looks for are not searched. *)
ConfigNextSkipsChildren(heap, root, sought) ==
  LET find[n \in DOMAIN heap] == [s \in Search |->
        IF s.next # NULL THEN [s EXCEPT !.status = "ERROR"]
        ELSE IF s.found THEN [s EXCEPT !.next = n, !.status = "OK"]
        ELSE IF n = sought THEN [s EXCEPT !.found = TRUE, !.status = "NOT_FOUND"]
        ELSE FoldLeft(LAMBDA t, c : find[c][t], [s EXCEPT !.status = "NOT_FOUND"],
                      heap[n].children)]
  IN  find[root][[found |-> FALSE, next |-> NULL, status |-> "ERROR"]]

ConfigNext(heap, root, sought) ==
  LET find[n \in DOMAIN heap] == [s \in Search |->
        IF s.next # NULL THEN [s EXCEPT !.status = "ERROR"]
        ELSE IF s.found THEN [s EXCEPT !.next = n, !.status = "OK"]
        ELSE FoldLeft(LAMBDA t, c : find[c][t],
                      [s EXCEPT !.found = (n = sought), !.status = "NOT_FOUND"],
                      heap[n].children)]
  IN  find[root][[found |-> FALSE, next |-> NULL, status |-> "ERROR"]]

(* Slip: the loop over the children starts at the second one. *)
ConfigDeleteOffByOne(tree, n) ==
  LET order[m \in DOMAIN tree] ==
        IF tree[m].children = <<>> THEN <<m>>
        ELSE Append(FoldLeft(LAMBDA s, c : s \o order[c], <<>>, Tail(tree[m].children)), m)
  IN  order[n]

(* samconfConfigDelete: the nodes in the order in which they are freed. *)
ConfigDelete(tree, n) ==
  LET order[m \in DOMAIN tree] ==
        Append(FoldLeft(LAMBDA s, c : s \o order[c], <<>>, tree[m].children), m)
  IN  order[n]

-------------------------------------------------------------------------------
(* Reference definitions: what a configuration tree is and means. *)

(* Every node but the root sits exactly once among its parent's children, *)
(* and a parent was there before its children.                             *)
IsTree(heap) ==
  /\ heap[Root].parent = NULL
  /\ \A n \in DOMAIN heap \ {Root} :
       /\ heap[n].parent \in 1..(n - 1)
       /\ \E i \in DOMAIN heap[heap[n].parent].children :
            heap[heap[n].parent].children[i] = n
  /\ \A n \in DOMAIN heap : \A i, j \in DOMAIN heap[n].children :
       /\ heap[n].children[i] \in DOMAIN heap
       /\ heap[heap[n].children[i]].parent = n
       /\ heap[n].children[i] = heap[n].children[j] => i = j

(* No node has lost its children. *)
IsWhole(heap) == \A n \in DOMAIN heap : ~heap[n].lost

(* No two children of a node share a key: a path names one node. *)
HasUniqueKeys(heap) ==
  \A n \in DOMAIN heap : \A i, j \in DOMAIN heap[n].children :
    heap[heap[n].children[i]].key = heap[heap[n].children[j]].key => i = j

(* A node with everything below it. *)
Subtree(heap, n) ==
  LET down[m \in DOMAIN heap] ==
        {m} \cup UNION {down[heap[m].children[i]] : i \in DOMAIN heap[m].children}
  IN  down[n]

LaterSiblings(heap, n) ==
  LET kids == heap[heap[n].parent].children
  IN  {kids[i] : i \in {j \in DOMAIN kids : \E k \in 1..(j - 1) : kids[k] = n}}

(* The nodes a depth-first visit enters after n. *)
Following(heap, n) ==
  LET after[m \in DOMAIN heap] ==
        IF m = Root THEN {}
        ELSE after[heap[m].parent] \cup UNION {Subtree(heap, s) : s \in LaterSiblings(heap, m)}
  IN  after[n] \cup (Subtree(heap, n) \ {n})

(* The keys from below the root down to a node. *)
FullPath(heap, n) ==
  LET up[m \in DOMAIN heap] ==
        IF m = Root THEN <<>> ELSE Append(up[heap[m].parent], heap[m].key)
  IN  up[n]
===============================================================================

------------------------------ MODULE TreeProofs -------------------------------
(***************************************************************************)
(* Proofs about the configuration tree and samconfInsertAt, for every heap *)
(* of well-typed nodes: what linking, replacing and losing nodes does to   *)
(* the tree, and what a round of samconfInsertAt does to it.  The proofs   *)
(* of the modules that build a tree rest on these lemmas.                  *)
(***************************************************************************)
EXTENDS TreeInsert, RecursionProofs, TLAPS

(***************************************************************************)
(* What a step does to a heap: it links a node below another one, or it    *)
(* changes nodes without touching the links.                               *)
(***************************************************************************)
Links(node) == <<node.parent, node.children, node.lost>>
Data(node) == <<node.key, node.type, node.value, node.isSigned, node.lost>>

(* A new node is a node. *)
LEMMA NewNodeType == ConfigNew \in Node
  BY DEF ConfigNew, Node, NULL, ContainerTypes, ScalarTypes

(* The node samconfInsertAt makes for a missing segment is a node and a leaf. *)
LEMMA IntermediateType ==
  ASSUME NEW key \in Keys
  PROVE  /\ Intermediate(key) \in Node
         /\ Intermediate(key).children = <<>>
  BY NewNodeType DEF Intermediate, Node, ConfigNew, ContainerTypes, ScalarTypes

(* An option changes the type and the value of a node. *)
LEMMA WithOptionType ==
  ASSUME NEW node \in Node, NEW option \in Option
  PROVE  /\ WithOption(node, option) \in Node
         /\ Links(WithOption(node, option)) = Links(node)
         /\ WithOption(node, option).key = node.key
         /\ WithOption(node, option).children = node.children
         /\ WithOption(node, option).type = option.type
         /\ WithOption(node, option).value = option.value
  BY DEF WithOption, Option, Node, Links

(* A new node with a key is a node and a leaf. *)
LEMMA NewKeyType ==
  ASSUME NEW key \in Keys \cup {NoKey}
  PROVE  /\ [ConfigNew EXCEPT !.key = key] \in Node
         /\ [ConfigNew EXCEPT !.key = key].children = <<>>
         /\ [ConfigNew EXCEPT !.key = key].key = key
         /\ ~[ConfigNew EXCEPT !.key = key].lost
  BY NewNodeType DEF Node, ConfigNew

(* The node for an option is a leaf that holds it under the name of its path. *)
LEMMA NewOptionType ==
  ASSUME NEW path \in Seq(Keys), NEW option \in Option
  PROVE  /\ NewOption(path, option) \in Node
         /\ NewOption(path, option).children = <<>>
         /\ NewOption(path, option).type = option.type
         /\ NewOption(path, option).value = option.value
         /\ ~NewOption(path, option).lost
         /\ path # <<>> => NewOption(path, option).key = Last(path)
<1> DEFINE key == IF path = <<>> THEN NoKey ELSE Last(path)
           blank == [ConfigNew EXCEPT !.key = key]
<1>1. key \in Keys \cup {NoKey}
  <2>1. path # <<>> => Len(path) \in 1..Len(path)
    OBVIOUS
  <2>2. QED
    BY <2>1 DEF Last
<1>2. path # <<>> => key = Last(path)
  OBVIOUS
<1>3. NewOption(path, option) = WithOption(blank, option)
  BY DEF NewOption
<1> HIDE DEF key
<1>4. blank \in Node /\ blank.children = <<>> /\ blank.key = key /\ ~blank.lost
  BY <1>1, NewKeyType
<1> HIDE DEF blank
<1>5. QED
  BY <1>2, <1>3, <1>4, WithOptionType DEF Links

(* samconfCopyConfigValue keeps the links and the mark of its target. *)
LEMMA CopyValueType ==
  ASSUME NEW from \in Node, NEW to \in Node
  PROVE  /\ CopyConfigValue(from, to) \in Node
         /\ Links(CopyConfigValue(from, to)) = Links(to)
         /\ CopyConfigValue(from, to).key = to.key
         /\ CopyConfigValue(from, to).isSigned = to.isSigned
  BY DEF CopyConfigValue, Links, Node

(* The copy of a source node, which is merged or linked, is a leaf. *)
LEMMA CopyConfigType ==
  ASSUME NEW from \in Node
  PROVE  /\ ConfigCopyConfig(from) \in Node
         /\ ConfigCopyConfig(from).children = <<>>
<1> DEFINE blank == [ConfigNew EXCEPT !.key = from.key, !.type = from.type,
                                      !.isSigned = from.isSigned]
<1>1. blank \in Node /\ blank.children = <<>>
  BY NewNodeType DEF Node, ConfigNew
<1>2. QED
  BY <1>1, CopyValueType DEF ConfigCopyConfig, Links

(* The parent's side of a link changes its child list and nothing else. *)
LEMMA WithChildType ==
  ASSUME NEW node \in Node, NEW c \in Nat
  PROVE  /\ WithChild(node, c) \in Node
         /\ WithChild(node, c).parent = node.parent
         /\ WithChild(node, c).children = Append(node.children, c)
         /\ WithChild(node, c).key = node.key
         /\ WithChild(node, c).type = node.type
         /\ WithChild(node, c).value = node.value
         /\ WithChild(node, c).isSigned = node.isSigned
         /\ WithChild(node, c).lost = node.lost
<1> DEFINE kids == Append(node.children, c)
           with == [node EXCEPT !.children = kids]
<1>1. node.children \in Seq(Nat)
  BY DEF Node
<1>2. kids \in Seq(Nat)
  BY <1>1
<1> HIDE DEF kids
<1>3. /\ with \in Node /\ with.parent = node.parent /\ with.children = kids
      /\ with.key = node.key
      /\ with.type = node.type /\ with.value = node.value /\ with.isSigned = node.isSigned
      /\ with.lost = node.lost
  BY <1>2 DEF Node
<1>4. QED
  BY <1>3 DEF kids, WithChild

(* The child's side of a link changes its parent and nothing else. *)
LEMMA WithParentType ==
  ASSUME NEW node \in Node, NEW p \in Nat
  PROVE  /\ WithParent(node, p) \in Node
         /\ WithParent(node, p).parent = p
         /\ WithParent(node, p).children = node.children
         /\ Data(WithParent(node, p)) = Data(node)
  BY DEF Node, WithParent, Data

(* The heap g is h with the node linked below p, and nothing else changed. *)
Extends(g, h, p, node) ==
  LET new == Len(h) + 1
  IN  /\ g \in Seq(Node) /\ Len(g) = new /\ DOMAIN g = DOMAIN h \cup {new}
      /\ g[new].parent = p /\ g[new].children = node.children /\ Data(g[new]) = Data(node)
      /\ g[p].parent = h[p].parent /\ g[p].children = Append(h[p].children, new)
      /\ \A n \in DOMAIN h : Data(g[n]) = Data(h[n])
      /\ \A n \in DOMAIN h \ {p} : g[n] = h[n]

(* The nodes of h are in g with their keys, and their children are still the *)
(* first ones.                                                               *)
Prolongs(g, h) ==
  /\ DOMAIN h \subseteq DOMAIN g
  /\ \A n \in DOMAIN h :
       /\ g[n].key = h[n].key
       /\ DOMAIN h[n].children \subseteq DOMAIN g[n].children
       /\ \A i \in DOMAIN h[n].children : g[n].children[i] = h[n].children[i]

(* samconfConfigAdd keeps the nodes well typed, adds exactly one, sets the *)
(* link between it and its parent and changes nothing else.                *)
LEMMA AddEffect ==
  ASSUME NEW h \in Seq(Node), NEW p \in DOMAIN h, NEW node \in Node
  PROVE  Extends(ConfigAdd(h, p, node), h, p, node)
<1> DEFINE new    == Len(h) + 1
           parent == WithChild(h[p], new)
           leaf   == WithParent(node, p)
           below  == [h EXCEPT ![p] = parent]
           more   == Append(below, leaf)
<1>1. h[p] \in Node /\ p \in Nat /\ Len(h) \in Nat /\ new \in Nat /\ DOMAIN h = 1..Len(h)
  OBVIOUS
<1>2. leaf \in Node /\ leaf.parent = p /\ leaf.children = node.children /\ Data(leaf) = Data(node)
  BY <1>1, WithParentType
<1>3. /\ parent \in Node
      /\ parent.parent = h[p].parent /\ parent.children = Append(h[p].children, new)
      /\ Data(parent) = Data(h[p])
  BY <1>1, WithChildType DEF Data
<1>4. ConfigAdd(h, p, node) = more
  BY DEF ConfigAdd
<1> HIDE DEF parent, leaf
<1>5. below \in Seq(Node) /\ Len(below) = Len(h)
  BY <1>1, <1>3
<1>6. below[p] = parent /\ \A n \in DOMAIN h \ {p} : below[n] = h[n]
  OBVIOUS
<1> HIDE DEF below
<1>7. /\ more \in Seq(Node) /\ Len(more) = new /\ DOMAIN more = DOMAIN h \cup {new}
      /\ more[new] = leaf /\ \A n \in DOMAIN h : more[n] = below[n]
  BY <1>1, <1>2, <1>5
<1> HIDE DEF more
<1>8. QED
  BY <1>2, <1>3, <1>4, <1>6, <1>7 DEF Extends

(* A heap that is extended is prolonged. *)
LEMMA ExtendsProlongs ==
  ASSUME NEW h \in Seq(Node), NEW p \in DOMAIN h, NEW node \in Node, NEW g, Extends(g, h, p, node)
  PROVE  Prolongs(g, h)
<1>1. /\ DOMAIN h \subseteq DOMAIN g
      /\ g[p].children = Append(h[p].children, Len(h) + 1)
      /\ \A n \in DOMAIN h : Data(g[n]) = Data(h[n])
      /\ \A n \in DOMAIN h \ {p} : g[n] = h[n]
  BY DEF Extends
<1>2. h[p] \in Node /\ Len(h) + 1 \in Nat
  OBVIOUS
<1>3. h[p].children \in Seq(Nat)
  BY <1>2 DEF Node
<1>4. /\ DOMAIN h[p].children \subseteq DOMAIN g[p].children
      /\ \A i \in DOMAIN h[p].children : g[p].children[i] = h[p].children[i]
  BY <1>1, <1>2, <1>3
<1>5. \A n \in DOMAIN h : g[n].key = h[n].key
  BY <1>1 DEF Data
<1>6. QED
  BY <1>1, <1>4, <1>5 DEF Prolongs

(* samconfConfigAdd keeps every key, value, type and mark. *)
LEMMA AddKeepsData ==
  ASSUME NEW h \in Seq(Node), NEW p \in DOMAIN h, NEW node \in Node, NEW n \in DOMAIN h
  PROVE  /\ ConfigAdd(h, p, node)[n].key = h[n].key
         /\ ConfigAdd(h, p, node)[n].type = h[n].type
         /\ ConfigAdd(h, p, node)[n].value = h[n].value
         /\ ConfigAdd(h, p, node)[n].isSigned = h[n].isSigned
         /\ ConfigAdd(h, p, node)[n].lost = h[n].lost
<1> DEFINE g == ConfigAdd(h, p, node)
<1>1. Extends(g, h, p, node)
  BY AddEffect
<1> HIDE DEF g
<1>2. Data(g[n]) = Data(h[n])
  BY <1>1 DEF Extends
<1>3. /\ g[n].key = h[n].key /\ g[n].type = h[n].type /\ g[n].value = h[n].value
      /\ g[n].isSigned = h[n].isSigned /\ g[n].lost = h[n].lost
  BY <1>2 DEF Data
<1>4. QED
  BY <1>3 DEF g

(* samconfConfigAdd of a node without children keeps a tree a tree. *)
LEMMA AddKeepsTree ==
  ASSUME NEW h \in Seq(Node), NEW p \in DOMAIN h, NEW node \in Node,
         node.children = <<>>, h # <<>>, IsTree(h)
  PROVE  IsTree(ConfigAdd(h, p, node))
<1> DEFINE new == Len(h) + 1
           g   == ConfigAdd(h, p, node)
<1>1. /\ Len(h) \in Nat /\ DOMAIN h = 1..Len(h) /\ p \in 1..Len(h) /\ Root \in DOMAIN h
      /\ new \notin DOMAIN h
  BY DEF Root
<1>2. /\ DOMAIN g = DOMAIN h \cup {new}
      /\ g[new].parent = p /\ g[new].children = <<>>
      /\ g[p].parent = h[p].parent /\ g[p].children = Append(h[p].children, new)
      /\ \A n \in DOMAIN h \ {p} : g[n] = h[n]
  <2>1. Extends(g, h, p, node)
    BY AddEffect
  <2> HIDE DEF g
  <2>2. QED
    BY <2>1 DEF Extends
<1> HIDE DEF g
<1>3. \A n \in DOMAIN h : h[n].children \in Seq(Nat)
  <2>1. \A n \in DOMAIN h : h[n] \in Node
    OBVIOUS
  <2>2. QED
    BY <2>1 DEF Node
<1>4. g[new].parent = p /\ g[new].children = <<>>
  BY <1>2
<1>5. \A n \in DOMAIN h : g[n].parent = h[n].parent
  BY <1>2
<1>6. /\ g[p].children = Append(h[p].children, new)
      /\ \A n \in DOMAIN h \ {p} : g[n].children = h[n].children
  BY <1>2
<1>7. /\ DOMAIN g[p].children = DOMAIN h[p].children \cup {Len(h[p].children) + 1}
      /\ Len(h[p].children) + 1 \notin DOMAIN h[p].children
      /\ g[p].children[Len(h[p].children) + 1] = new
      /\ \A i \in DOMAIN h[p].children : g[p].children[i] = h[p].children[i]
  <2> DEFINE s == h[p].children
  <2>1. s \in Seq(Nat) /\ g[p].children = Append(s, new) /\ new \in Nat
    BY <1>1, <1>3, <1>6
  <2> HIDE DEF s, new
  <2>2. Len(s) \in Nat /\ DOMAIN s = 1..Len(s) /\ DOMAIN Append(s, new) = 1..(Len(s) + 1)
    BY <2>1
  <2>3. Append(s, new)[Len(s) + 1] = new /\ \A i \in 1..Len(s) : Append(s, new)[i] = s[i]
    BY <2>1
  <2>4. 1..(Len(s) + 1) = 1..Len(s) \cup {Len(s) + 1} /\ Len(s) + 1 \notin 1..Len(s)
    BY <2>2
  <2>5. /\ DOMAIN Append(s, new) = DOMAIN s \cup {Len(s) + 1} /\ Len(s) + 1 \notin DOMAIN s
        /\ \A i \in DOMAIN s : Append(s, new)[i] = s[i]
    BY <2>2, <2>3, <2>4
  <2>6. QED
    BY <2>1, <2>3, <2>5 DEF s
<1> HIDE DEF new
<1>8. g[Root].parent = NULL
  BY <1>1, <1>5 DEF IsTree
<1>9. ASSUME NEW n \in DOMAIN g \ {Root}
      PROVE  /\ g[n].parent \in 1..(n - 1)
             /\ \E i \in DOMAIN g[g[n].parent].children : g[g[n].parent].children[i] = n
  <2>1. CASE n = new
    BY <2>1, <1>1, <1>4, <1>7 DEF new
  <2>2. CASE n \in DOMAIN h
    <3>1. /\ h[n].parent \in 1..(n - 1)
          /\ \E i \in DOMAIN h[h[n].parent].children : h[h[n].parent].children[i] = n
      BY <2>2 DEF IsTree
    <3>2. h[n].parent \in DOMAIN h
      BY <3>1, <2>2, <1>1
    <3>3. CASE h[n].parent = p
      BY <3>1, <3>3, <2>2, <1>5, <1>7
    <3>4. CASE h[n].parent # p
      BY <3>1, <3>2, <3>4, <2>2, <1>5, <1>6
    <3>5. QED BY <3>3, <3>4
  <2>3. QED BY <2>1, <2>2, <1>2
<1>10. ASSUME NEW n \in DOMAIN g, NEW i \in DOMAIN g[n].children, NEW j \in DOMAIN g[n].children
       PROVE  /\ g[n].children[i] \in DOMAIN g
              /\ g[g[n].children[i]].parent = n
              /\ g[n].children[i] = g[n].children[j] => i = j
  <2>0. \A m \in DOMAIN h : \A k, l \in DOMAIN h[m].children :
          /\ h[m].children[k] \in DOMAIN h
          /\ h[h[m].children[k]].parent = m
          /\ h[m].children[k] = h[m].children[l] => k = l
    BY DEF IsTree
  <2>1. CASE n = new
    BY <2>1, <1>4
  <2>2. CASE n \in DOMAIN h /\ n # p
    BY <2>0, <2>2, <1>2, <1>5, <1>6
  <2>3. CASE n = p
    <3>1. ASSUME NEW k \in DOMAIN h[p].children
          PROVE  /\ g[p].children[k] \in DOMAIN h
                 /\ g[p].children[k] # new
                 /\ g[g[p].children[k]].parent = p
      BY <2>0, <1>1, <1>5, <1>7
    <3>2. CASE i \in DOMAIN h[p].children /\ j \in DOMAIN h[p].children
      BY <2>3, <3>1, <3>2, <2>0, <1>2, <1>7
    <3>3. CASE i = Len(h[p].children) + 1
      BY <2>3, <3>1, <3>3, <1>1, <1>2, <1>4, <1>7
    <3>4. CASE j = Len(h[p].children) + 1
      BY <2>3, <3>1, <3>4, <1>1, <1>2, <1>4, <1>7
    <3>5. QED BY <2>3, <3>2, <3>3, <3>4, <1>7
  <2>4. QED BY <2>1, <2>2, <2>3, <1>2
<1>11. QED
  BY <1>8, <1>9, <1>10 DEF IsTree, g

(* A heap with the same links is a tree as well. *)
LEMMA SameLinksKeepTree ==
  ASSUME NEW h \in Seq(Node), NEW g \in Seq(Node), DOMAIN g = DOMAIN h, h # <<>>,
         \A n \in DOMAIN h : Links(g[n]) = Links(h[n]),
         IsTree(h)
  PROVE  IsTree(g)
<1>1. \A n \in DOMAIN h : g[n].parent = h[n].parent /\ g[n].children = h[n].children
  BY DEF Links
<1>2. \A n \in DOMAIN h \ {Root} : h[n].parent \in DOMAIN h
  BY DEF IsTree
<1>3. Root \in DOMAIN h
  BY DEF Root
<1>4. g[Root].parent = NULL
  BY <1>1, <1>3 DEF IsTree
<1>5. ASSUME NEW n \in DOMAIN g \ {Root}
      PROVE  /\ g[n].parent \in 1..(n - 1)
             /\ \E i \in DOMAIN g[g[n].parent].children : g[g[n].parent].children[i] = n
  <2>1. /\ h[n].parent \in 1..(n - 1)
        /\ h[n].parent \in DOMAIN h
        /\ \E i \in DOMAIN h[h[n].parent].children : h[h[n].parent].children[i] = n
    BY <1>2 DEF IsTree
  <2>2. QED
    BY <2>1, <1>1
<1>6. ASSUME NEW n \in DOMAIN g, NEW i \in DOMAIN g[n].children, NEW j \in DOMAIN g[n].children
      PROVE  /\ g[n].children[i] \in DOMAIN g
             /\ g[g[n].children[i]].parent = n
             /\ g[n].children[i] = g[n].children[j] => i = j
  <2>1. i \in DOMAIN h[n].children /\ j \in DOMAIN h[n].children
    BY <1>1
  <2>2. /\ h[n].children[i] \in DOMAIN h
        /\ h[h[n].children[i]].parent = n
        /\ h[n].children[i] = h[n].children[j] => i = j
    BY <2>1 DEF IsTree
  <2>3. QED
    BY <1>1, <2>2
<1>7. QED
  BY <1>4, <1>5, <1>6 DEF IsTree

(* The heaps g and h have the same nodes with the same links and keys. *)
KeepsShape(g, h) ==
  /\ DOMAIN g = DOMAIN h
  /\ \A n \in DOMAIN h : Links(g[n]) = Links(h[n]) /\ g[n].key = h[n].key

(* The children of a node are nodes that were linked after it.  This holds   *)
(* of what is left of a tree, too, when a child list is lost.                *)
Descends(h) ==
  \A n \in DOMAIN h : \A i \in DOMAIN h[n].children :
    h[n].children[i] \in DOMAIN h /\ n < h[n].children[i]

(* A tree descends. *)
LEMMA TreeDescends ==
  ASSUME NEW h \in Seq(Node), h # <<>>, IsTree(h)
  PROVE  Descends(h)
<1>1. SUFFICES ASSUME NEW n \in DOMAIN h, NEW i \in DOMAIN h[n].children
               PROVE  h[n].children[i] \in DOMAIN h /\ n < h[n].children[i]
  BY DEF Descends
<1> DEFINE c == h[n].children[i]
<1>2. c \in DOMAIN h /\ h[c].parent = n /\ h[Root].parent = NULL
  BY DEF IsTree
<1>3. n \in Nat \ {0}
  OBVIOUS
<1>4. c # Root
  BY <1>2, <1>3 DEF NULL
<1>5. n \in 1..(c - 1)
  BY <1>2, <1>4 DEF IsTree
<1>6. c \in Nat
  BY <1>2
<1> HIDE DEF c
<1>7. n < c
  BY <1>5, <1>6
<1>8. QED
  BY <1>2, <1>7 DEF c

(* Linking a leaf keeps a heap descending, *)
LEMMA ExtendsDescends ==
  ASSUME NEW h \in Seq(Node), NEW p \in DOMAIN h, NEW node \in Node, node.children = <<>>,
         NEW g, Extends(g, h, p, node), Descends(h)
  PROVE  Descends(g)
<1> DEFINE new == Len(h) + 1
<1>1. /\ DOMAIN g = DOMAIN h \cup {new} /\ g[new].children = <<>>
      /\ g[p].children = Append(h[p].children, new)
      /\ \A n \in DOMAIN h \ {p} : g[n] = h[n]
  BY DEF Extends
<1>2. h[p] \in Node /\ p < new /\ new \in Nat
  OBVIOUS
<1>3. h[p].children \in Seq(Nat)
  BY <1>2 DEF Node
<1> HIDE DEF new
<1>4. \A i \in DOMAIN g[p].children :
        g[p].children[i] = new \/ (i \in DOMAIN h[p].children /\ g[p].children[i] = h[p].children[i])
  BY <1>1, <1>2, <1>3
<1>5. ASSUME NEW n \in DOMAIN g, NEW i \in DOMAIN g[n].children
      PROVE  g[n].children[i] \in DOMAIN g /\ n < g[n].children[i]
  <2>1. CASE n = new
    BY <1>1, <2>1
  <2>2. CASE n = p
    <3>1. CASE g[p].children[i] = new
      BY <1>1, <1>2, <2>2, <3>1
    <3>2. CASE i \in DOMAIN h[p].children /\ g[p].children[i] = h[p].children[i]
      BY <1>1, <2>2, <3>2 DEF Descends
    <3>3. QED
      BY <1>4, <1>5, <2>2, <3>1, <3>2
  <2>3. CASE n \in DOMAIN h \ {p}
    BY <1>1, <1>5, <2>3 DEF Descends
  <2>4. QED
    BY <1>1, <2>1, <2>2, <2>3
<1>6. QED
  BY <1>5 DEF Descends

(* Then the keys of siblings differ in one as in the other. *)
LEMMA SameShape ==
  ASSUME NEW h \in Seq(Node), NEW g \in Seq(Node), h # <<>>, KeepsShape(g, h), IsTree(h)
  PROVE  /\ IsTree(g) /\ Prolongs(g, h) /\ (IsWhole(g) <=> IsWhole(h))
         /\ HasUniqueKeys(h) => HasUniqueKeys(g)
<1>1. IsTree(g)
  BY SameLinksKeepTree DEF KeepsShape
<1>2. /\ DOMAIN g = DOMAIN h
      /\ \A n \in DOMAIN h : /\ g[n].children = h[n].children /\ g[n].lost = h[n].lost
                             /\ g[n].key = h[n].key
  BY DEF KeepsShape, Links
<1>3. \A n \in DOMAIN h : \A i \in DOMAIN h[n].children : h[n].children[i] \in DOMAIN h
  BY DEF IsTree
<1>4. Prolongs(g, h) /\ (IsWhole(g) <=> IsWhole(h))
  BY <1>2 DEF Prolongs, IsWhole
<1>5. ASSUME HasUniqueKeys(h), NEW n \in DOMAIN g, NEW i \in DOMAIN g[n].children,
             NEW j \in DOMAIN g[n].children,
             g[g[n].children[i]].key = g[g[n].children[j]].key
      PROVE  i = j
  <2>1. i \in DOMAIN h[n].children /\ j \in DOMAIN h[n].children
    BY <1>2
  <2>2. h[h[n].children[i]].key = h[h[n].children[j]].key
    BY <1>2, <1>3, <1>5, <2>1
  <2>3. QED
    BY <1>2, <1>5, <2>1, <2>2 DEF HasUniqueKeys
<1>6. QED
  BY <1>1, <1>4, <1>5 DEF HasUniqueKeys

(* Replacing a node by one with the same links. *)
LEMMA ReplaceEffect ==
  ASSUME NEW h \in Seq(Node), h # <<>>, NEW e \in DOMAIN h, NEW node \in Node,
         Links(node) = Links(h[e]), node.key = h[e].key
  PROVE  LET g == [h EXCEPT ![e] = node]
         IN  /\ g \in Seq(Node) /\ DOMAIN g = DOMAIN h
             /\ g[e] = node /\ \A m \in DOMAIN h \ {e} : g[m] = h[m]
             /\ IsTree(h) => IsTree(g)
             /\ IsWhole(g) => IsWhole(h)
             /\ Prolongs(g, h) /\ KeepsShape(g, h)
             /\ Descends(h) => Descends(g)
<1> DEFINE g == [h EXCEPT ![e] = node]
<1>1. g \in Seq(Node) /\ DOMAIN g = DOMAIN h
  OBVIOUS
<1>2. g[e] = node /\ \A m \in DOMAIN h \ {e} : g[m] = h[m]
  OBVIOUS
<1> HIDE DEF g
<1>3. \A m \in DOMAIN h : Links(g[m]) = Links(h[m])
  BY <1>2
<1>4. IsTree(h) => IsTree(g)
  BY <1>1, <1>3, SameLinksKeepTree
<1>5. IsWhole(g) => IsWhole(h)
  BY <1>1, <1>3 DEF IsWhole, Links
<1>6. KeepsShape(g, h)
  BY <1>1, <1>2, <1>3 DEF KeepsShape
<1>7. Prolongs(g, h)
  BY <1>6 DEF KeepsShape, Prolongs, Links
<1>8. Descends(h) => Descends(g)
  BY <1>1, <1>3 DEF Descends, Links
<1>9. QED
  BY <1>1, <1>2, <1>4, <1>5, <1>6, <1>7, <1>8 DEF g

(* Losing the child list keeps value, type and mark; where no list is lost    *)
(* nothing changes.                                                          *)
LEMMA LoseChildrenType ==
  ASSUME NEW node \in Node
  PROVE  /\ LoseChildren(node) \in Node
         /\ LoseChildren(node).key = node.key
         /\ LoseChildren(node).type = node.type /\ LoseChildren(node).value = node.value
         /\ LoseChildren(node).isSigned = node.isSigned
         /\ ~LoseChildren(node).lost => LoseChildren(node) = node
         /\ LoseChildren(node).children \in {<<>>, node.children}
<1> DEFINE none == <<>>
           without == [node EXCEPT !.lost = TRUE, !.children = none]
<1>1. node.children \in Seq(Nat) /\ node.lost \in BOOLEAN /\ none \in Seq(Nat)
  BY DEF Node
<1>2. CASE node.children # <<>> \/ node.lost
  <2>1. LoseChildren(node) = without
    BY <1>1, <1>2 DEF LoseChildren
  <2> HIDE DEF none
  <2>2. /\ without \in Node /\ without.lost /\ without.children = none
        /\ without.key = node.key /\ without.type = node.type /\ without.value = node.value
        /\ without.isSigned = node.isSigned
    BY <1>1 DEF Node
  <2>3. LoseChildren(node).children = <<>>
    BY <2>1, <2>2 DEF none
  <2>4. QED
    BY <2>1, <2>2, <2>3
<1>3. CASE node.children = <<>> /\ ~node.lost
  <2>1. LoseChildren(node) = node
    BY <1>1, <1>3 DEF LoseChildren, Node
  <2>2. QED
    BY <2>1
<1>4. QED
  BY <1>2, <1>3

-------------------------------------------------------------------------------
(***************************************************************************)
(* Paths: what samconfConfigGet finds.                                     *)
(***************************************************************************)

(* The children of the nodes are nodes. *)
Closed(h) == \A n \in DOMAIN h : \A i \in DOMAIN h[n].children : h[n].children[i] \in DOMAIN h

(* A number that is the least of a set is its minimum. *)
LEMMA MinIsLeast ==
  ASSUME NEW S \in SUBSET Nat, S # {}
  PROVE  Min(S) \in S /\ \A k \in S : Min(S) <= k
<1>1. \E m \in S : \A k \in S : m <= k
  BY LeastNumber
<1>2. QED
  BY <1>1 DEF Min

(* Child i of n has the key and none before it has. *)
FirstNamed(h, n, key, i) ==
  /\ i \in DOMAIN h[n].children /\ h[h[n].children[i]].key = key
  /\ \A j \in DOMAIN h[n].children : h[h[n].children[j]].key = key => i <= j

(* ChildNamed is the first child with the key, or null if there is none. *)
LEMMA ChildNamedIsFirst ==
  ASSUME NEW h \in Seq(Node), Closed(h), NEW n \in DOMAIN h, NEW key
  PROVE  \/ /\ ChildNamed(h, n, key) = NULL
            /\ \A i \in DOMAIN h[n].children : h[h[n].children[i]].key # key
         \/ /\ ChildNamed(h, n, key) \in DOMAIN h
            /\ \E i : FirstNamed(h, n, key, i) /\ ChildNamed(h, n, key) = h[n].children[i]
<1> DEFINE kids == h[n].children
           I == {i \in 1..Len(kids) : h[kids[i]].key = key}
<1>1. kids \in Seq(Nat) /\ DOMAIN kids = 1..Len(kids)
  <2>1. h[n] \in Node
    OBVIOUS
  <2>2. QED
    BY <2>1 DEF Node
<1>2. ChildNamed(h, n, key) = LET hit == IF I # {} THEN Min(I) ELSE 0
                              IN  IF hit = 0 THEN NULL ELSE kids[hit]
  BY DEF ChildNamed, SelectInSeq
<1>3. CASE I = {}
  BY <1>1, <1>2, <1>3
<1>4. CASE I # {}
  <2>1. I \in SUBSET Nat
    BY <1>1
  <2> DEFINE i == Min(I)
  <2>2. i \in I /\ \A j \in I : i <= j
    BY <1>4, <2>1, MinIsLeast
  <2> HIDE DEF i
  <2>3. i \in DOMAIN kids /\ i # 0 /\ kids[i] \in DOMAIN h
    BY <1>1, <2>2 DEF Closed
  <2>4. ChildNamed(h, n, key) = kids[i]
    BY <1>2, <1>4, <2>3 DEF i
  <2>5. FirstNamed(h, n, key, i)
    BY <1>1, <2>2 DEF FirstNamed
  <2>6. QED
    BY <2>3, <2>4, <2>5
<1>5. QED
  BY <1>3, <1>4

(* The nodes samconfConfigGet passes on its way along a path. *)
IsTrace(at, h, root, path) ==
  /\ at[0] = root
  /\ \A i \in 1..Len(path) :
       at[i] = IF at[i - 1] = NULL THEN NULL ELSE ChildNamed(h, at[i - 1], path[i])

(* Reach is the end of the trace of a path. *)
LEMMA ReachHasTrace ==
  ASSUME NEW h \in Seq(Node), Closed(h), NEW root \in DOMAIN h, NEW S, NEW path \in Seq(S)
  PROVE  \E at \in [0..Len(path) -> DOMAIN h \cup {NULL}] :
           IsTrace(at, h, root, path) /\ Reach(h, root, path) = at[Len(path)]
<1> DEFINE N == Len(path)
           D == 0..N
           V == DOMAIN h \cup {NULL}
           B(n, f) == IF n = 0 THEN root
                      ELSE IF f[n - 1] = NULL THEN NULL ELSE ChildNamed(h, f[n - 1], path[n])
           G == [n \in D |-> [f \in [D -> V] |-> B(n, f)]]
           rank == [n \in D |-> n]
           at == CHOOSE f : f = [n \in D |-> B(n, f)]
<1>1. N \in Nat /\ rank \in [D -> 0..N] /\ V # {} /\ \A n \in D : n # 0 => n - 1 \in D
  OBVIOUS
<1>2. \A n \in D : \A f \in [D -> V] : B(n, f) \in V
  <2>1. \A n \in DOMAIN h : \A key : ChildNamed(h, n, key) \in V
    BY ChildNamedIsFirst
  <2>2. QED
    BY <1>1, <2>1
<1>3. \A n \in D : \A f, g \in [D -> V] :
        (\A i \in D : rank[i] < rank[n] => f[i] = g[i]) => B(n, f) = B(n, g)
  <2>1. SUFFICES ASSUME NEW n \in D, NEW f \in [D -> V], NEW g \in [D -> V],
                        \A i \in D : i < n => f[i] = g[i]
                 PROVE  B(n, f) = B(n, g)
    OBVIOUS
  <2>2. n # 0 => f[n - 1] = g[n - 1]
    BY <1>1, <2>1
  <2>3. QED
    BY <2>2
<1>4. \A n \in D : \A f \in [D -> V] : G[n][f] = B(n, f)
  OBVIOUS
<1> HIDE DEF G, B, V, rank
<1>5. \E f \in [D -> V] : \A n \in D : f[n] = B(n, f)
  <2> HIDE DEF D, N
  <2>1. IsRecursion(N, D, rank, V, G)
    <3>1. \A n \in D : \A f \in [D -> V] : G[n][f] \in V
      BY <1>2, <1>4
    <3>2. \A n \in D : \A f, g \in [D -> V] :
            (\A i \in D : rank[i] < rank[n] => f[i] = g[i]) => G[n][f] = G[n][g]
      BY <1>3, <1>4
    <3>3. N \in Nat /\ rank \in [D -> 0..N] /\ V # {}
      BY <1>1
    <3>4. QED
      BY <3>1, <3>2, <3>3 DEF IsRecursion
  <2>2. \E f \in [D -> V] : \A n \in D : f[n] = G[n][f]
    BY <2>1, RecursionHasValue
  <2>3. QED
    BY <1>4, <2>2
<1>6. PICK f \in [D -> V] : f = [n \in D |-> B(n, f)]
  BY <1>5
<1>7. at = [n \in D |-> B(n, at)]
  BY <1>6
<1>8. Reach(h, root, path) = at[N]
  BY DEF Reach, B
<1> HIDE DEF at
<1>9. DOMAIN at = D /\ \A n \in D : at[n] = B(n, at)
  BY <1>7
<1>10. IsTrace(at, h, root, path)
  BY <1>1, <1>9 DEF IsTrace, B
<1>11. \A n \in D : at[n] \in V
  <2> DEFINE T == {n \in D : at[n] \in V}
  <2>1. \A n \in D : (\A m \in D : rank[m] < rank[n] => m \in T) => n \in T
    <3>1. SUFFICES ASSUME NEW n \in D, n # 0 => n - 1 \in T PROVE at[n] \in V
      BY <1>1 DEF rank
    <3>2. \A m \in DOMAIN h : \A key : ChildNamed(h, m, key) \in V
      BY ChildNamedIsFirst DEF V
    <3>3. QED
      BY <1>1, <1>9, <3>1, <3>2 DEF B, V
  <2>2. rank \in [D -> Nat]
    BY DEF rank
  <2>3. D \subseteq T
    <3> HIDE DEF D, T
    <3>1. QED
      BY <2>1, <2>2, RankInduction
  <2>4. QED
    BY <2>3
<1>12. QED
  BY <1>7, <1>8, <1>9, <1>10, <1>11 DEF V

(* A path has one trace. *)
LEMMA TraceIsUnique ==
  ASSUME NEW h, NEW root, NEW S, NEW path \in Seq(S), NEW k \in 0..Len(path),
         NEW f, IsTrace(f, h, root, path), NEW g, IsTrace(g, h, root, SubSeq(path, 1, k))
  PROVE  g[k] = f[k]
<1> DEFINE T == {n \in Nat : n <= k => g[n] = f[n]}
<1>1. Len(path) \in Nat /\ k \in Nat /\ k <= Len(path)
  OBVIOUS
<1>2. Len(SubSeq(path, 1, k)) = k /\ \A i \in 1..k : SubSeq(path, 1, k)[i] = path[i]
  BY <1>1
<1>3. 0 \in T
  BY DEF IsTrace
<1>4. ASSUME NEW n \in Nat, n \in T PROVE n + 1 \in T
  <2>1. SUFFICES ASSUME n + 1 <= k PROVE g[n + 1] = f[n + 1]
    OBVIOUS
  <2>2. n + 1 \in 1..k /\ n + 1 \in 1..Len(path) /\ (n + 1) - 1 = n
    BY <1>1, <2>1
  <2>3. g[n] = f[n]
    BY <1>4, <2>1, <1>1
  <2>4. g[n + 1] = IF g[n] = NULL THEN NULL ELSE ChildNamed(h, g[n], path[n + 1])
    BY <1>2, <2>2 DEF IsTrace
  <2>5. f[n + 1] = IF f[n] = NULL THEN NULL ELSE ChildNamed(h, f[n], path[n + 1])
    BY <2>2 DEF IsTrace
  <2>6. QED
    BY <2>3, <2>4, <2>5
<1>5. Nat \subseteq T
  <2> HIDE DEF T
  <2>1. QED
    BY <1>3, <1>4, NumberInduction
<1>6. QED
  BY <1>1, <1>5

(* Reach goes along a path segment by segment. *)
LEMMA ReachSteps ==
  ASSUME NEW h \in Seq(Node), Closed(h), NEW root \in DOMAIN h, NEW S, NEW path \in Seq(S)
  PROVE  /\ Reach(h, root, SubSeq(path, 1, 0)) = root
         /\ Reach(h, root, path) = Reach(h, root, SubSeq(path, 1, Len(path)))
         /\ \A k \in 0..Len(path) : Reach(h, root, SubSeq(path, 1, k)) \in DOMAIN h \cup {NULL}
         /\ \A k \in 1..Len(path) :
              LET up == Reach(h, root, SubSeq(path, 1, k - 1))
              IN  Reach(h, root, SubSeq(path, 1, k))
                    = IF up = NULL THEN NULL ELSE ChildNamed(h, up, path[k])
<1>1. Len(path) \in Nat
  OBVIOUS
<1>2. PICK at \in [0..Len(path) -> DOMAIN h \cup {NULL}] :
        IsTrace(at, h, root, path) /\ Reach(h, root, path) = at[Len(path)]
  BY ReachHasTrace
<1>3. ASSUME NEW k \in 0..Len(path)
      PROVE  Reach(h, root, SubSeq(path, 1, k)) = at[k]
  <2> DEFINE prefix == SubSeq(path, 1, k)
  <2>1. prefix \in Seq(S) /\ Len(prefix) = k
    BY <1>1
  <2> HIDE DEF prefix
  <2>2. PICK f \in [0..Len(prefix) -> DOMAIN h \cup {NULL}] :
          IsTrace(f, h, root, prefix) /\ Reach(h, root, prefix) = f[Len(prefix)]
    BY <2>1, ReachHasTrace
  <2>3. f[k] = at[k]
    BY <1>2, <2>2, TraceIsUnique DEF prefix
  <2>4. QED
    BY <2>1, <2>2, <2>3 DEF prefix
<1>4. 0 \in 0..Len(path) /\ Len(path) \in 0..Len(path)
      /\ \A k \in 1..Len(path) : k \in 0..Len(path) /\ k - 1 \in 0..Len(path)
  BY <1>1
<1>5. QED
  BY <1>2, <1>3, <1>4 DEF IsTrace

(* A tree is closed. *)
LEMMA TreeIsClosed ==
  ASSUME NEW h, IsTree(h)
  PROVE  Closed(h)
  BY DEF IsTree, Closed

(* What was the first child with a key still is. *)
LEMMA ChildNamedProlonged ==
  ASSUME NEW h \in Seq(Node), NEW g \in Seq(Node), Closed(h), Closed(g), Prolongs(g, h),
         NEW n \in DOMAIN h, NEW key, ChildNamed(h, n, key) # NULL
  PROVE  ChildNamed(g, n, key) = ChildNamed(h, n, key)
<1>1. n \in DOMAIN g /\ h[n] \in Node /\ g[n] \in Node
  BY DEF Prolongs
<1>2. h[n].children \in Seq(Nat) /\ g[n].children \in Seq(Nat)
  BY <1>1 DEF Node
<1>3. PICK i : FirstNamed(h, n, key, i) /\ ChildNamed(h, n, key) = h[n].children[i]
  BY ChildNamedIsFirst
<1>4. /\ i \in DOMAIN g[n].children /\ g[n].children[i] = h[n].children[i]
      /\ g[g[n].children[i]].key = key
  <2>1. i \in DOMAIN h[n].children /\ h[h[n].children[i]].key = key
    BY <1>3 DEF FirstNamed
  <2>2. h[n].children[i] \in DOMAIN h
    BY <2>1 DEF Closed
  <2>3. QED
    BY <1>1, <2>1, <2>2 DEF Prolongs
<1>5. PICK j : FirstNamed(g, n, key, j) /\ ChildNamed(g, n, key) = g[n].children[j]
  BY <1>1, <1>4, ChildNamedIsFirst
<1>6. j <= i /\ j \in DOMAIN g[n].children
  BY <1>4, <1>5 DEF FirstNamed
<1>7. i \in DOMAIN h[n].children
  BY <1>3 DEF FirstNamed
<1>8. j \in DOMAIN h[n].children /\ i \in Nat /\ j \in Nat
  <2>1. /\ DOMAIN h[n].children = 1..Len(h[n].children) /\ Len(h[n].children) \in Nat
        /\ DOMAIN g[n].children = 1..Len(g[n].children)
    BY <1>2
  <2>2. QED
    BY <2>1, <1>6, <1>7
<1>9. h[h[n].children[j]].key = key
  BY <1>1, <1>5, <1>8 DEF FirstNamed, Prolongs, Closed
<1>10. i <= j
  BY <1>3, <1>8, <1>9 DEF FirstNamed
<1>11. QED
  BY <1>3, <1>4, <1>5, <1>6, <1>8, <1>10

(* A path that leads to a node leads to it in every heap that prolongs this  *)
(* one: a node that is linked later never gets in front of it.               *)
LEMMA ReachProlonged ==
  ASSUME NEW h \in Seq(Node), NEW g \in Seq(Node), Closed(h), Closed(g), Prolongs(g, h),
         NEW root \in DOMAIN h, NEW S, NEW path \in Seq(S), Reach(h, root, path) # NULL
  PROVE  Reach(g, root, path) = Reach(h, root, path)
<1> DEFINE H(k) == Reach(h, root, SubSeq(path, 1, k))
           R(k) == Reach(g, root, SubSeq(path, 1, k))
           T == {k \in Nat : k <= Len(path) /\ H(k) # NULL => R(k) = H(k)}
<1>1. root \in DOMAIN g /\ Len(path) \in Nat
  BY DEF Prolongs
<1>2. /\ H(0) = root /\ Reach(h, root, path) = H(Len(path))
      /\ \A k \in 0..Len(path) : H(k) \in DOMAIN h \cup {NULL}
      /\ \A k \in 1..Len(path) : H(k) = IF H(k - 1) = NULL THEN NULL ELSE ChildNamed(h, H(k - 1), path[k])
  BY ReachSteps
<1>3. /\ R(0) = root /\ Reach(g, root, path) = R(Len(path))
      /\ \A k \in 1..Len(path) : R(k) = IF R(k - 1) = NULL THEN NULL ELSE ChildNamed(g, R(k - 1), path[k])
  BY <1>1, ReachSteps
<1> HIDE DEF H, R
<1>4. 0 \in T
  BY <1>2, <1>3
<1>5. ASSUME NEW k \in Nat, k \in T PROVE k + 1 \in T
  <2>1. SUFFICES ASSUME k + 1 <= Len(path), H(k + 1) # NULL PROVE R(k + 1) = H(k + 1)
    OBVIOUS
  <2>2. k \in 0..Len(path) /\ k + 1 \in 1..Len(path) /\ (k + 1) - 1 = k
    BY <1>1, <2>1
  <2>3. H(k) # NULL /\ H(k) \in DOMAIN h /\ H(k + 1) = ChildNamed(h, H(k), path[k + 1])
    BY <1>2, <2>1, <2>2
  <2>4. R(k) = H(k)
    BY <1>5, <2>2, <2>3
  <2>5. R(k + 1) = ChildNamed(g, H(k), path[k + 1])
    BY <1>3, <2>2, <2>3, <2>4
  <2>6. QED
    BY <2>1, <2>3, <2>5, ChildNamedProlonged
<1>6. Nat \subseteq T
  <2> HIDE DEF T
  <2>1. QED
    BY <1>4, <1>5, NumberInduction
<1>7. QED
  BY <1>1, <1>2, <1>3, <1>6

(* The full path of a node is that of its parent with its key behind it. *)
LEMMA FullPathSteps ==
  ASSUME NEW h \in Seq(Node), h # <<>>, IsTree(h)
  PROVE  \A n \in DOMAIN h :
           /\ FullPath(h, n) \in Seq(Keys \cup {NoKey})
           /\ FullPath(h, n) = IF n = Root THEN <<>> ELSE Append(FullPath(h, h[n].parent), h[n].key)
<1> DEFINE D == DOMAIN h
           V == Seq(Keys \cup {NoKey})
           B(n, f) == IF n = Root THEN <<>> ELSE Append(f[h[n].parent], h[n].key)
           G == [n \in D |-> [f \in [D -> V] |-> B(n, f)]]
           rank == [n \in D |-> n]
           up == CHOOSE f : f = [n \in D |-> B(n, f)]
<1>1. Len(h) \in Nat /\ D = 1..Len(h) /\ rank \in [D -> 0..Len(h)]
  OBVIOUS
<1>2. \A n \in D : n # Root => /\ h[n].parent \in D /\ h[n].parent < n
                              /\ h[n].key \in Keys \cup {NoKey}
  <2>1. \A n \in D : h[n] \in Node
    OBVIOUS
  <2>2. \A n \in D : n # Root => h[n].parent \in 1..(n - 1)
    BY DEF IsTree
  <2>3. QED
    BY <1>1, <2>1, <2>2 DEF Node
<1>3. <<>> \in V /\ \A s \in V : \A key \in Keys \cup {NoKey} : Append(s, key) \in V
  OBVIOUS
<1> HIDE DEF V
<1>4. \A n \in D : \A f : (\A i \in D : i < n => f[i] \in V) => B(n, f) \in V
  BY <1>2, <1>3
<1>5. \A n \in D : \A f, g : (\A i \in D : i < n => f[i] = g[i]) => B(n, f) = B(n, g)
  BY <1>2
<1>6. \A n \in D : \A f \in [D -> V] : G[n][f] = B(n, f)
  OBVIOUS
<1>7. \A i, n \in D : rank[i] < rank[n] <=> i < n
  OBVIOUS
<1> HIDE DEF G, B, rank
<1>8. \E f : f = [n \in D |-> B(n, f)]
  <2> HIDE DEF D
  <2>1. \A n \in D : \A f \in [D -> V] : B(n, f) \in V
    BY <1>4
  <2>2. IsRecursion(Len(h), D, rank, V, G)
    <3>1. \A n \in D : \A f \in [D -> V] : G[n][f] \in V
      BY <1>6, <2>1
    <3>2. \A n \in D : \A f, g \in [D -> V] :
            (\A i \in D : rank[i] < rank[n] => f[i] = g[i]) => G[n][f] = G[n][g]
      BY <1>5, <1>6, <1>7
    <3>3. Len(h) \in Nat /\ rank \in [D -> 0..Len(h)] /\ V # {}
      BY <1>1, <1>3
    <3>4. QED
      BY <3>1, <3>2, <3>3 DEF IsRecursion
  <2>3. PICK f \in [D -> V] : \A n \in D : f[n] = G[n][f]
    BY <2>2, RecursionHasValue
  <2>4. f = [n \in D |-> B(n, f)]
    BY <1>6, <2>3
  <2>5. QED
    BY <2>4
<1>9. up = [n \in D |-> B(n, up)]
  BY <1>8
<1>10. \A n : FullPath(h, n) = up[n]
  BY DEF FullPath, B
<1> HIDE DEF up
<1>11. \A n \in D : up[n] = B(n, up)
  BY <1>9
<1>12. \A n \in D : up[n] \in V
  <2> DEFINE T == {n \in D : up[n] \in V}
  <2>1. \A n \in D : (\A m \in D : rank[m] < rank[n] => m \in T) => n \in T
    BY <1>4, <1>7, <1>11
  <2>2. rank \in [D -> Nat]
    BY <1>1 DEF rank
  <2> HIDE DEF T, D
  <2>3. D \subseteq T
    BY <2>1, <2>2, RankInduction
  <2>4. QED
    BY <2>3 DEF T
<1>13. QED
  BY <1>10, <1>11, <1>12 DEF B, V

(* samconfPathGetPath goes up to the nearest node called "root". *)
LEMMA PathGetPathSteps ==
  ASSUME NEW h \in Seq(Node), h # <<>>, IsTree(h)
  PROVE  \A n \in DOMAIN h :
           /\ PathGetPath(h, n) \in Seq(Keys \cup {NoKey})
           /\ PathGetPath(h, n) =
                IF h[n].key = RootKey THEN <<RootKey>>
                ELSE IF h[n].parent = NULL THEN NoPath
                ELSE LET prefix == PathGetPath(h, h[n].parent)
                     IN  IF prefix = NoPath THEN NoPath ELSE prefix \o Segments(h[n].key)
<1> DEFINE D == DOMAIN h
           V == Seq(Keys \cup {NoKey})
           B(n, f) == IF h[n].key = RootKey THEN <<RootKey>>
                      ELSE IF h[n].parent = NULL THEN NoPath
                      ELSE LET prefix == f[h[n].parent]
                           IN  IF prefix = NoPath THEN NoPath ELSE prefix \o Segments(h[n].key)
           G == [n \in D |-> [f \in [D -> V] |-> B(n, f)]]
           rank == [n \in D |-> n]
           up == CHOOSE f : f = [n \in D |-> B(n, f)]
<1>1. Len(h) \in Nat /\ D = 1..Len(h) /\ rank \in [D -> 0..Len(h)]
  OBVIOUS
<1>2. \A n \in D : /\ h[n].key \in Keys \cup {NoKey}
                   /\ h[n].parent # NULL => h[n].parent \in D /\ h[n].parent < n
  <2>1. \A n \in D : h[n] \in Node
    OBVIOUS
  <2>2. \A n \in D : n # Root => h[n].parent \in 1..(n - 1)
    BY DEF IsTree
  <2>3. h[Root].parent = NULL
    BY DEF IsTree
  <2>4. \A n \in D : h[n].key \in Keys \cup {NoKey}
    BY <2>1 DEF Node
  <2>5. QED
    BY <1>1, <2>2, <2>3, <2>4 DEF Root
<1>3. /\ NoPath \in V /\ <<RootKey>> \in V
      /\ \A s, t \in V : s \o t \in V
  BY KeyAssumption DEF NoPath
<1>4. \A key \in Keys \cup {NoKey} : Segments(key) \in V
  <2>1. \A s \in Seq(Keys) : s \in V
    OBVIOUS
  <2>2. \A key \in Keys \cup {NoKey} : <<key>> \in V
    OBVIOUS
  <2> HIDE DEF V
  <2>3. QED
    BY <2>1, <2>2, SlashedAssumption DEF Segments
<1> HIDE DEF V
<1>5. \A n \in D : \A f : (\A i \in D : i < n => f[i] \in V) => B(n, f) \in V
  BY <1>2, <1>3, <1>4
<1>6. \A n \in D : \A f, g : (\A i \in D : i < n => f[i] = g[i]) => B(n, f) = B(n, g)
  BY <1>2
<1>7. \A n \in D : \A f \in [D -> V] : G[n][f] = B(n, f)
  OBVIOUS
<1>8. \A i, n \in D : rank[i] < rank[n] <=> i < n
  OBVIOUS
<1>9. \A n : PathGetPath(h, n) = up[n]
  BY DEF PathGetPath, B
<1> HIDE DEF up, G, rank
<1>10. \A n \in D : \A f : B(n, f) =
                IF h[n].key = RootKey THEN <<RootKey>>
                ELSE IF h[n].parent = NULL THEN NoPath
                ELSE IF f[h[n].parent] = NoPath THEN NoPath
                     ELSE f[h[n].parent] \o Segments(h[n].key)
  BY DEF B
<1> HIDE DEF B
<1>11. \E f : f = [n \in D |-> B(n, f)]
  <2> HIDE DEF D
  <2>1. \A n \in D : \A f \in [D -> V] : B(n, f) \in V
    BY <1>5
  <2>0. V # {}
    BY <1>3
  <2>2. IsRecursion(Len(h), D, rank, V, G)
    <3>1. ASSUME NEW n \in D, NEW f \in [D -> V], NEW g \in [D -> V],
                 \A i \in D : rank[i] < rank[n] => f[i] = g[i]
          PROVE  G[n][f] = G[n][g]
      <4>1. \A i \in D : i < n => f[i] = g[i]
        BY <1>8, <3>1
      <4>2. B(n, f) = B(n, g)
        BY <1>6, <4>1
      <4>3. QED
        BY <1>7, <4>2
    <3>2. \A n \in D : \A f \in [D -> V] : G[n][f] \in V
      BY <1>7, <2>1
    <3>3. QED
      BY <1>1, <2>0, <3>1, <3>2 DEF IsRecursion
  <2>3. PICK f \in [D -> V] : \A n \in D : f[n] = G[n][f]
    BY <2>2, RecursionHasValue
  <2>4. f = [n \in D |-> B(n, f)]
    BY <1>7, <2>3
  <2>5. QED
    BY <2>4
<1>12. up = [n \in D |-> B(n, up)]
  BY <1>11 DEF up
<1>13. \A n \in D : up[n] = B(n, up)
  BY <1>12
<1>14. \A n \in D : up[n] \in V
  <2> DEFINE T == {n \in D : up[n] \in V}
  <2>1. \A n \in D : (\A m \in D : rank[m] < rank[n] => m \in T) => n \in T
    BY <1>5, <1>8, <1>13
  <2>2. rank \in [D -> Nat]
    BY <1>1 DEF rank
  <2> HIDE DEF T, D
  <2>3. D \subseteq T
    BY <2>1, <2>2, RankInduction
  <2>4. QED
    BY <2>3 DEF T
<1>15. \A n \in D : PathGetPath(h, n) = B(n, up) /\ PathGetPath(h, n) \in V
  BY <1>9, <1>13, <1>14
<1>16. SUFFICES ASSUME NEW n \in D
                PROVE  /\ PathGetPath(h, n) \in V
                       /\ PathGetPath(h, n) =
                            IF h[n].key = RootKey THEN <<RootKey>>
                            ELSE IF h[n].parent = NULL THEN NoPath
                            ELSE IF PathGetPath(h, h[n].parent) = NoPath THEN NoPath
                                 ELSE PathGetPath(h, h[n].parent) \o Segments(h[n].key)
  BY DEF V
<1>17. PathGetPath(h, h[n].parent) = up[h[n].parent]
  BY <1>9
<1>18. QED
  BY <1>10, <1>15, <1>17

(* A node that is linked where no child has its key is found there by its    *)
(* key, and the keys of siblings stay different.                             *)
LEMMA AddedIsNamed ==
  ASSUME NEW h \in Seq(Node), h # <<>>, Closed(h), NEW p \in DOMAIN h, NEW node \in Node,
         NEW g \in Seq(Node), Closed(g), Extends(g, h, p, node), node.children = <<>>,
         ChildNamed(h, p, node.key) = NULL
  PROVE  /\ ChildNamed(g, p, node.key) = Len(h) + 1
         /\ HasUniqueKeys(h) => HasUniqueKeys(g)
<1> DEFINE new == Len(h) + 1
           kids == h[p].children
<1>1. h[p] \in Node /\ p \in DOMAIN g /\ Len(h) \in Nat /\ DOMAIN h = 1..Len(h) /\ Prolongs(g, h)
  BY ExtendsProlongs DEF Prolongs
<1>2. kids \in Seq(Nat) /\ Len(kids) \in Nat /\ DOMAIN kids = 1..Len(kids)
  BY <1>1 DEF Node
<1>3. /\ DOMAIN g = DOMAIN h \cup {new} /\ g[new].children = <<>> /\ g[new].key = node.key
      /\ g[p].children = Append(kids, new)
      /\ \A n \in DOMAIN h : g[n].key = h[n].key
      /\ \A n \in DOMAIN h \ {p} : g[n] = h[n]
  BY DEF Extends, Data
<1>4. \A i \in DOMAIN kids : kids[i] \in DOMAIN h /\ h[kids[i]].key # node.key
  <2>1. NULL \notin DOMAIN h
    BY <1>1 DEF NULL
  <2>2. QED
    BY <2>1, ChildNamedIsFirst DEF Closed
<1>5. /\ DOMAIN g[p].children = 1..(Len(kids) + 1) /\ g[p].children[Len(kids) + 1] = new
      /\ \A i \in DOMAIN kids : g[p].children[i] = kids[i]
  BY <1>1, <1>2, <1>3
<1>6. \A i \in DOMAIN g[p].children : i = Len(kids) + 1 \/ i \in DOMAIN kids
  BY <1>2, <1>5
<1>7. \A i \in DOMAIN kids : g[g[p].children[i]].key = h[kids[i]].key
  BY <1>3, <1>4, <1>5
<1>8. \A i \in DOMAIN g[p].children : g[g[p].children[i]].key = node.key <=> i = Len(kids) + 1
  BY <1>2, <1>3, <1>4, <1>5, <1>6, <1>7
<1>9. ChildNamed(g, p, node.key) = new
  <2>1. Len(kids) + 1 \in DOMAIN g[p].children
    BY <1>2, <1>5
  <2>2. PICK i : FirstNamed(g, p, node.key, i) /\ ChildNamed(g, p, node.key) = g[p].children[i]
    BY <1>1, <1>8, <2>1, ChildNamedIsFirst
  <2>3. i = Len(kids) + 1
    BY <1>8, <2>2 DEF FirstNamed
  <2>4. QED
    BY <1>5, <2>2, <2>3
<1>10. ASSUME HasUniqueKeys(h), NEW n \in DOMAIN g, NEW i \in DOMAIN g[n].children,
              NEW j \in DOMAIN g[n].children,
              g[g[n].children[i]].key = g[g[n].children[j]].key
       PROVE  i = j
  <2>1. CASE n = new
    BY <1>3, <2>1
  <2>2. CASE n = p
    <3>1. i \in DOMAIN g[p].children /\ j \in DOMAIN g[p].children
          /\ g[g[p].children[i]].key = g[g[p].children[j]].key
      BY <1>10, <2>2
    <3>2. CASE g[g[p].children[i]].key = node.key
      BY <1>8, <3>1, <3>2
    <3>3. CASE g[g[p].children[i]].key # node.key
      <4>1. i \in DOMAIN kids /\ j \in DOMAIN kids
        BY <1>6, <1>8, <3>1, <3>3
      <4>2. h[kids[i]].key = h[kids[j]].key
        BY <1>7, <3>1, <4>1
      <4>3. QED
        BY <1>10, <4>1, <4>2 DEF HasUniqueKeys
    <3>4. QED
      BY <3>2, <3>3
  <2>3. CASE n \in DOMAIN h \ {p}
    <3>1. g[n] = h[n] /\ \A k \in DOMAIN h[n].children : h[n].children[k] \in DOMAIN h
      BY <1>3, <2>3 DEF Closed
    <3>2. h[h[n].children[i]].key = h[h[n].children[j]].key
      BY <1>3, <1>10, <3>1
    <3>3. QED
      BY <1>10, <2>3, <3>1, <3>2 DEF HasUniqueKeys
  <2>4. QED
    BY <1>3, <2>1, <2>2, <2>3
<1>11. QED
  BY <1>9, <1>10 DEF HasUniqueKeys

-------------------------------------------------------------------------------
(***************************************************************************)
(* The rounds of samconfInsertAt.                                          *)
(***************************************************************************)

(* The effect of a step on the tree that the invariants need. *)
Grows ==
  /\ heap' \in Seq(Node) /\ heap' # <<>> /\ DOMAIN heap \subseteq DOMAIN heap'
  /\ Descends(heap) => Descends(heap')
  /\ IsWhole(heap') => IsWhole(heap) /\ (IsTree(heap) => IsTree(heap')) /\ Prolongs(heap', heap)

(* ... and on what the nodes hold. *)
KeepsNode(n) ==
  /\ heap'[n].key = heap[n].key /\ heap'[n].type = heap[n].type
  /\ heap'[n].value = heap[n].value /\ heap'[n].isSigned = heap[n].isSigned

(* samconfInsertAt is called with a node that has no children. *)
InsertsLeaf == ins.node.children = <<>>

(* A step that leaves the tree alone is one of those that grow it. *)
LEMMA UnchangedGrows ==
  ASSUME InsertTypeOK, UNCHANGED heap
  PROVE  Grows /\ \A n \in DOMAIN heap : KeepsNode(n)
  BY DEF InsertTypeOK, Grows, KeepsNode, Prolongs

(* The tree has a root. *)
LEMMA RootInHeap ==
  ASSUME NEW h \in Seq(Node), h # <<>>
  PROVE  Root \in DOMAIN h /\ h[Root] \in Node /\ h[Root].isSigned \in BOOLEAN
<1>1. Root \in DOMAIN h /\ h[Root] \in Node
  BY DEF Root
<1>2. QED
  BY <1>1 DEF Node

(* The node a round links. *)
LinkedNode(key) == IF LastSegment THEN ins.node ELSE Intermediate(key)

(* A round that links a node extends the tree. *)
LEMMA LinkExtends ==
  ASSUME InsertTypeOK, InsertsLeaf, InsertLink
  PROVE  \E key \in Keys :
           LET node == LinkedNode(key)
           IN  /\ key = ins.path[ins.seg] /\ node \in Node /\ node.children = <<>>
               /\ heap' = ConfigAdd(heap, ins.parent, node)
               /\ Extends(heap', heap, ins.parent, node)
<1>1. /\ heap \in Seq(Node) /\ ins.parent \in DOMAIN heap /\ ins.node \in Node
  BY DEF InsertTypeOK, Insert
<1>2. PICK key \in Keys : key = ins.path[ins.seg] /\ heap' = ConfigAdd(heap, ins.parent, LinkedNode(key))
  BY DEF InsertLink, LinkedNode
<1>3. LinkedNode(key) \in Node /\ LinkedNode(key).children = <<>>
  BY <1>1, IntermediateType DEF InsertsLeaf, LinkedNode
<1>4. Extends(heap', heap, ins.parent, LinkedNode(key))
  BY <1>1, <1>2, <1>3, AddEffect
<1>5. QED
  BY <1>2, <1>3, <1>4

(* Linking a leaf keeps a tree a tree. *)
LEMMA AddGrows ==
  ASSUME heap \in Seq(Node), heap # <<>>, NEW p \in DOMAIN heap, NEW node \in Node,
         node.children = <<>>, heap' = ConfigAdd(heap, p, node)
  PROVE  /\ Grows /\ \A n \in DOMAIN heap : KeepsNode(n)
         /\ DOMAIN heap' = DOMAIN heap \cup {Len(heap) + 1}
<1>1. Extends(heap', heap, p, node)
  BY AddEffect
<1>2. /\ heap' \in Seq(Node) /\ Len(heap') = Len(heap) + 1
      /\ DOMAIN heap' = DOMAIN heap \cup {Len(heap) + 1}
  BY <1>1 DEF Extends
<1>3. \A n \in DOMAIN heap : KeepsNode(n) /\ heap'[n].lost = heap[n].lost
  BY AddKeepsData DEF KeepsNode
<1>4. IsTree(heap) => IsTree(heap')
  BY AddKeepsTree
<1>5. IsWhole(heap') => IsWhole(heap)
  BY <1>2, <1>3 DEF IsWhole
<1>6. Prolongs(heap', heap)
  BY <1>1, ExtendsProlongs
<1>7. Descends(heap) => Descends(heap')
  BY <1>1, ExtendsDescends
<1>8. QED
  BY <1>2, <1>3, <1>4, <1>5, <1>6, <1>7 DEF Grows

(* ... as a round of samconfInsertAt. *)
LEMMA LinkGrows ==
  ASSUME InsertTypeOK, InsertsLeaf, InsertLink
  PROVE  /\ Grows /\ \A n \in DOMAIN heap : KeepsNode(n)
         /\ DOMAIN heap' = DOMAIN heap \cup {Len(heap) + 1}
<1>1. PICK node \in Node : node.children = <<>> /\ heap' = ConfigAdd(heap, ins.parent, node)
  BY LinkExtends
<1>2. QED
  BY <1>1, AddGrows DEF InsertTypeOK

(* samconfConfigAdd without memory.  The lists that are left make a tree     *)
(* only if the node had no children.                                         *)
LEMMA LoseGrows ==
  ASSUME heap \in Seq(Node), heap # <<>>, NEW p \in DOMAIN heap,
         heap' = [heap EXCEPT ![p] = LoseChildren(@)]
  PROVE  /\ Grows /\ DOMAIN heap' = DOMAIN heap /\ \A n \in DOMAIN heap : KeepsNode(n)
         /\ IsWhole(heap') => heap' = heap
<1> DEFINE node == LoseChildren(heap[p])
<1>1. heap[p] \in Node /\ heap' = [heap EXCEPT ![p] = node]
  OBVIOUS
<1>2. /\ node \in Node /\ node.key = heap[p].key
      /\ node.children = <<>> \/ node.children = heap[p].children
      /\ node.type = heap[p].type /\ node.value = heap[p].value
      /\ node.isSigned = heap[p].isSigned
      /\ ~node.lost => node = heap[p]
  BY <1>1, LoseChildrenType
<1> HIDE DEF node
<1>3. /\ heap' \in Seq(Node) /\ DOMAIN heap' = DOMAIN heap /\ heap'[p] = node
      /\ \A n \in DOMAIN heap \ {p} : heap'[n] = heap[n]
  BY <1>1, <1>2
<1>4. \A n \in DOMAIN heap : KeepsNode(n)
  BY <1>2, <1>3 DEF KeepsNode
<1>5. ASSUME IsWhole(heap') PROVE heap' = heap
  <2>1. ~node.lost
    BY <1>3, <1>5 DEF IsWhole
  <2>2. QED
    BY <1>1, <1>2, <2>1
<1>6. heap' # <<>>
  BY <1>3
<1>7. heap' = heap => Prolongs(heap', heap)
  BY DEF Prolongs
<1>8. Descends(heap) => Descends(heap')
  BY <1>2, <1>3 DEF Descends
<1>9. QED
  BY <1>3, <1>4, <1>5, <1>6, <1>7, <1>8 DEF Grows

(* ... as a round of samconfInsertAt. *)
LEMMA AddFailsGrows ==
  ASSUME InsertTypeOK, InsertAddFails
  PROVE  /\ Grows /\ DOMAIN heap' = DOMAIN heap /\ \A n \in DOMAIN heap : KeepsNode(n)
         /\ IsWhole(heap') => heap' = heap
  BY LoseGrows DEF InsertTypeOK, InsertAddFails

(* The ways in which a round of samconfInsertAt changes its locals. *)
LEMMA InsertReports ==
  ASSUME NEW i \in Insert, NEW s \in {"OK", "ERROR", "CRASHED"}, NEW j, j = [i EXCEPT !.status = s]
  PROVE  /\ j \in Insert /\ j.parent = i.parent /\ j.linked = i.linked /\ j.node = i.node
         /\ j.path = i.path
  BY DEF Insert

(* ... goes on with the next segment, *)
LEMMA InsertSkips ==
  ASSUME NEW i \in Insert, NEW j, j = [i EXCEPT !.seg = @ + 1]
  PROVE  /\ j \in Insert /\ j.parent = i.parent /\ j.linked = i.linked /\ j.node = i.node
         /\ j.path = i.path
  BY DEF Insert

(* ... goes down to a node that was found or made, *)
LEMMA InsertGoesDown ==
  ASSUME ins \in Insert, NEW p \in Nat
  PROVE  /\ GoDown(p) \in Insert
         /\ GoDown(p).parent = p /\ GoDown(p).linked = ins.linked /\ GoDown(p).node = ins.node
         /\ GoDown(p).path = ins.path
<1> DEFINE k == [ins EXCEPT !.seg = @ + 1]
<1>1. k \in Insert /\ k.linked = ins.linked /\ k.node = ins.node /\ k.path = ins.path
  BY InsertSkips
<1>2. GoDown(p) = [k EXCEPT !.parent = p]
  BY DEF GoDown
<1> HIDE DEF k
<1>3. QED
  BY <1>1, <1>2 DEF Insert

(* ... or has linked the node of the caller. *)
LEMMA InsertLinks ==
  ASSUME ins \in Insert, NEW p \in Nat
  PROVE  /\ Linked(p) \in Insert
         /\ Linked(p).parent = ins.parent /\ Linked(p).linked = p /\ Linked(p).node = ins.node
         /\ Linked(p).path = ins.path
  BY DEF Insert, Linked

(* Fault uses up a failure and nothing else. *)
LEMMA FaultType ==
  ASSUME faults \in 0..MaxFaults, Fault
  PROVE  faults' \in 0..MaxFaults /\ faults' = faults - 1 /\ faults > 0
  BY MaxFaultsAssumption DEF Fault

(* What a round of samconfInsertAt leaves alone and what it may report. *)
InsertGoesOn ==
  /\ InsertTypeOK' /\ InsertsLeaf' /\ Grows
  /\ \A n \in DOMAIN heap : KeepsNode(n)
  /\ ins'.node = ins.node /\ ins'.path = ins.path

(* Each round keeps the locals in range, the tree a tree, and what its nodes *)
(* hold.                                                                     *)
LEMMA InsertStep ==
  ASSUME InsertTypeOK, InsertsLeaf, InsertNext
  PROVE  InsertGoesOn
<1>0. /\ heap \in Seq(Node) /\ heap # <<>> /\ ins \in Insert
      /\ ins.parent \in DOMAIN heap /\ ins.linked \in DOMAIN heap \cup {NULL}
      /\ faults \in 0..MaxFaults /\ ins.node.children = <<>>
  BY DEF InsertTypeOK, InsertsLeaf
<1>1. SUFFICES /\ Grows /\ \A n \in DOMAIN heap : KeepsNode(n)
               /\ ins' \in Insert /\ ins'.parent \in DOMAIN heap'
               /\ ins'.linked \in DOMAIN heap' \cup {NULL}
               /\ ins'.node = ins.node /\ ins'.path = ins.path /\ faults' \in 0..MaxFaults
  BY <1>0 DEF Grows, InsertTypeOK, InsertsLeaf, InsertGoesOn
<1>2. CASE InsertDescend
  <2> DEFINE e == Lookup.node
  <2>1. heap' = heap /\ faults' = faults /\ e \in DOMAIN heap
    BY <1>2 DEF InsertDescend
  <2>2. ins' = [ins EXCEPT !.status = "OK"] \/ ins' = GoDown(e)
    BY <1>2 DEF InsertDescend
  <2> HIDE DEF e
  <2>3. e \in Nat
    BY <1>0, <2>1
  <2>4. /\ ins' \in Insert /\ ins'.parent \in {ins.parent, e}
        /\ ins'.linked = ins.linked /\ ins'.node = ins.node /\ ins'.path = ins.path
    <3>1. CASE ins' = [ins EXCEPT !.status = "OK"]
      BY <1>0, <3>1, InsertReports
    <3>2. CASE ins' = GoDown(e)
      BY <1>0, <2>3, <3>2, InsertGoesDown
    <3>3. QED
      BY <2>2, <3>1, <3>2
  <2>5. QED
    BY <1>0, <2>1, <2>4, UnchangedGrows
<1>3. CASE InsertLink
  <2>1. /\ Grows /\ DOMAIN heap' = DOMAIN heap \cup {Len(heap) + 1}
        /\ \A n \in DOMAIN heap : KeepsNode(n)
    BY <1>3, LinkGrows
  <2>2. ins' = Linked(Len(heap) + 1) \/ ins' = GoDown(Len(heap) + 1)
    BY <1>3 DEF InsertLink
  <2>3. faults' = faults /\ Len(heap) + 1 \in Nat
    BY <1>0, <1>3 DEF InsertLink
  <2>4. /\ ins' \in Insert /\ ins'.parent \in {ins.parent, Len(heap) + 1}
        /\ ins'.linked \in {ins.linked, Len(heap) + 1} /\ ins'.node = ins.node
        /\ ins'.path = ins.path
    <3>1. CASE ins' = Linked(Len(heap) + 1)
      BY <1>0, <2>3, <3>1, InsertLinks
    <3>2. CASE ins' = GoDown(Len(heap) + 1)
      BY <1>0, <2>3, <3>2, InsertGoesDown
    <3>3. QED
      BY <2>2, <3>1, <3>2
  <2>5. QED
    BY <1>0, <2>1, <2>3, <2>4
<1>4. CASE InsertSkip \/ InsertFail
  <2>1. /\ heap' = heap /\ Fault
        /\ ins' = [ins EXCEPT !.status = "ERROR"] \/ ins' = [ins EXCEPT !.seg = @ + 1]
    BY <1>4 DEF InsertSkip, InsertFail
  <2>2. faults' \in 0..MaxFaults
    BY <1>0, <2>1, FaultType
  <2>3. /\ ins' \in Insert /\ ins'.parent = ins.parent /\ ins'.linked = ins.linked
        /\ ins'.node = ins.node /\ ins'.path = ins.path
    BY <1>0, <2>1, InsertReports, InsertSkips
  <2>4. QED
    BY <1>0, <2>1, <2>2, <2>3, UnchangedGrows
<1>5. CASE InsertAddFails
  <2>1. /\ Grows /\ DOMAIN heap' = DOMAIN heap /\ \A n \in DOMAIN heap : KeepsNode(n)
    BY <1>5, AddFailsGrows
  <2>2. Fault /\ ins' = [ins EXCEPT !.status = "ERROR"]
    BY <1>5 DEF InsertAddFails
  <2>3. faults' \in 0..MaxFaults
    BY <1>0, <2>2, FaultType
  <2>4. /\ ins' \in Insert /\ ins'.parent = ins.parent /\ ins'.linked = ins.linked
        /\ ins'.node = ins.node /\ ins'.path = ins.path
    BY <1>0, <2>2, InsertReports
  <2>5. QED
    BY <1>0, <2>1, <2>3, <2>4
<1>6. CASE InsertCrash
  <2>1. /\ heap' = heap /\ ins' = [ins EXCEPT !.status = "CRASHED"]
        /\ faults' = faults \/ Fault
    BY <1>6 DEF InsertCrash
  <2>2. faults' \in 0..MaxFaults
    BY <1>0, <2>1, FaultType
  <2>3. /\ ins' \in Insert /\ ins'.parent = ins.parent /\ ins'.linked = ins.linked
        /\ ins'.node = ins.node /\ ins'.path = ins.path
    BY <1>0, <2>1, InsertReports
  <2>4. QED
    BY <1>0, <2>1, <2>2, <2>3, UnchangedGrows
<1>7. QED
  BY <1>2, <1>3, <1>4, <1>5, <1>6 DEF InsertNext

(* Only a running call goes through rounds, and it never becomes idle by one. *)
LEMMA InsertStatus ==
  ASSUME ins \in Insert, InsertNext
  PROVE  ins.status = "RUN" /\ ins'.status # "IDLE"
<1>1. ins.status = "RUN"
  BY DEF InsertNext, InsertDescend, InsertLink, InsertSkip, InsertFail, InsertAddFails, InsertCrash
<1>2. \/ \E s \in {"OK", "ERROR", "CRASHED"} : ins' = [ins EXCEPT !.status = s]
      \/ ins' = [ins EXCEPT !.seg = @ + 1]
      \/ \E p : ins' = GoDown(p) \/ ins' = Linked(p)
  BY DEF InsertNext, InsertDescend, InsertLink, InsertSkip, InsertFail, InsertAddFails, InsertCrash
<1>3. QED
  BY <1>1, <1>2 DEF GoDown, Linked, Insert

(* samconfInsertAt starts with the node it was given and ends with nothing. *)
LEMMA InsertCallType ==
  ASSUME NEW path \in Seq(Keys), NEW node \in Node, node.children = <<>>, InsertCall(path, node)
  PROVE  /\ ins' \in Insert /\ ins'.parent = Root /\ ins'.linked = NULL
         /\ ins'.node = node /\ ins'.path = path /\ ins'.seg = 1
         /\ ins'.status = IF path = <<>> THEN "ERROR" ELSE "RUN"
<1>1. ins' = [status |-> IF path = <<>> THEN "ERROR" ELSE "RUN", path |-> path, seg |-> 1,
              parent |-> Root, node |-> node, linked |-> NULL]
  BY DEF InsertCall, NoInsert
<1>2. QED
  BY <1>1 DEF Insert, Root, NULL

(* The locals of no call. *)
LEMMA NoInsertType ==
  /\ NoInsert \in Insert /\ NoInsert.parent = Root /\ NoInsert.linked = NULL
  /\ NoInsert.node.children = <<>> /\ NoInsert.status = "IDLE"
  BY NewNodeType DEF NoInsert, Insert, ConfigNew, Root, NULL

-------------------------------------------------------------------------------
(***************************************************************************)
(* samconfInsertAt on its path, as long as no allocation fails.            *)
(***************************************************************************)

(* The node for the last segment has the segment for a key, as the callers   *)
(* that name a node after its path see to.                                   *)
NamedByPath == ins.node.key = Last(ins.path)

(* A running call is at the node to which the segments before this one lead; *)
(* a call that has linked its node has linked it at the path.                *)
OnPath ==
  /\ ins.status = "RUN" =>
       /\ ins.seg \in 1..Len(ins.path) /\ ins.linked = NULL
       /\ ins.parent = Reach(heap, Root, SubSeq(ins.path, 1, ins.seg - 1))
  /\ ins.status = "OK" /\ ins.linked # NULL =>
       /\ Reach(heap, Root, ins.path) = ins.linked
       /\ heap[ins.linked].type = ins.node.type /\ heap[ins.linked].value = ins.node.value

(* A call is on its path when it starts. *)
LEMMA CallIsOnPath ==
  ASSUME InsertTypeOK, IsTree(heap), UNCHANGED heap, NEW path \in Seq(Keys), NEW node \in Node,
         node.children = <<>>, InsertCall(path, node)
  PROVE  OnPath'
<1>1. /\ ins'.linked = NULL /\ ins'.path = path /\ ins'.seg = 1 /\ ins'.parent = Root
      /\ ins'.status = "RUN" => path # <<>>
  BY InsertCallType
<1>2. heap \in Seq(Node) /\ Closed(heap) /\ Root \in DOMAIN heap
  BY TreeIsClosed, RootInHeap DEF InsertTypeOK
<1>3. Reach(heap, Root, SubSeq(path, 1, 0)) = Root
  BY <1>2, ReachSteps
<1>4. path # <<>> => 1 \in 1..Len(path)
  OBVIOUS
<1>5. heap' = heap /\ 1 - 1 = 0
  OBVIOUS
<1>6. ins'.status = "RUN" =>
        /\ ins'.seg \in 1..Len(ins'.path)
        /\ ins'.parent = Reach(heap', Root, SubSeq(ins'.path, 1, ins'.seg - 1))
  BY <1>1, <1>3, <1>4, <1>5
<1>7. QED
  BY <1>1, <1>6 DEF OnPath

(* A tree whose root has no children is its root. *)
LEMMA RootAlone ==
  ASSUME NEW h \in Seq(Node), h # <<>>, IsTree(h), h[Root].children = <<>>
  PROVE  DOMAIN h = {Root}
<1>1. Len(h) \in Nat \ {0} /\ DOMAIN h = 1..Len(h)
  OBVIOUS
<1>2. 2 \notin DOMAIN h
  <2>1. SUFFICES ASSUME 2 \in DOMAIN h PROVE FALSE
    OBVIOUS
  <2>2. h[2].parent \in 1..(2 - 1) /\ DOMAIN h[h[2].parent].children # {}
    BY <2>1 DEF IsTree, Root
  <2>3. h[2].parent = Root
    BY <2>2 DEF Root
  <2>4. QED
    BY <2>2, <2>3
<1>3. QED
  BY <1>1, <1>2 DEF Root

(* What samconfConfigGet says of the path up to this segment is what the     *)
(* children of the parent say of the segment.                                *)
LEMMA LookupIsChild ==
  ASSUME InsertTypeOK, IsTree(heap), OnPath, ins.status = "RUN"
  PROVE  /\ ins.path[ins.seg] \in Keys
         /\ Lookup.status = "OK" =>
              Lookup.node = Reach(heap, Root, SubSeq(ins.path, 1, ins.seg))
         /\ Lookup.status = "NOT_FOUND" => ChildNamed(heap, ins.parent, ins.path[ins.seg]) = NULL
<1> DEFINE path == ins.path
           prefix == SubSeq(path, 1, ins.seg)
<1>1. /\ heap \in Seq(Node) /\ heap # <<>> /\ Closed(heap) /\ Root \in DOMAIN heap
      /\ ins.parent \in DOMAIN heap /\ path \in Seq(Keys)
      /\ ins.seg \in 1..Len(path) /\ ins.parent = Reach(heap, Root, SubSeq(path, 1, ins.seg - 1))
  BY TreeIsClosed, RootInHeap DEF InsertTypeOK, OnPath, Insert
<1>2. ins.parent # NULL
  BY <1>1 DEF NULL
<1> DEFINE up == Reach(heap, Root, SubSeq(path, 1, ins.seg - 1))
<1>3. Reach(heap, Root, prefix) = IF up = NULL THEN NULL ELSE ChildNamed(heap, up, path[ins.seg])
  BY <1>1, ReachSteps
<1>4. Reach(heap, Root, prefix) = ChildNamed(heap, ins.parent, path[ins.seg])
  BY <1>1, <1>2, <1>3
<1>5. prefix # <<>> /\ path[ins.seg] \in Keys
  BY <1>1
<1> HIDE DEF prefix, path
<1>6. /\ Lookup.node = Reach(heap, Root, prefix)
      /\ Lookup.status = IF heap[Root].children # <<>> /\ Lookup.node # NULL
                         THEN "OK" ELSE "NOT_FOUND"
  BY <1>5 DEF Lookup, ConfigGet, prefix, path
<1>7. ASSUME Lookup.status = "NOT_FOUND"
      PROVE  ChildNamed(heap, ins.parent, path[ins.seg]) = NULL
  <2>1. CASE heap[Root].children # <<>>
    BY <1>4, <1>6, <1>7, <2>1
  <2>2. CASE heap[Root].children = <<>>
    <3>1. ins.parent = Root
      BY <1>1, <2>2, RootAlone
    <3>2. DOMAIN heap[ins.parent].children = {}
      BY <2>2, <3>1
    <3>3. QED
      BY <1>1, <3>2, ChildNamedIsFirst DEF FirstNamed
  <2>3. QED
    BY <2>1, <2>2
<1>8. QED
  BY <1>5, <1>6, <1>7 DEF prefix, path

(* A round in which no allocation fails stays on the path, links the node    *)
(* where the path leads, and gives no two siblings the same key.             *)
LEMMA RoundStaysOnPath ==
  ASSUME InsertTypeOK, InsertsLeaf, IsTree(heap), OnPath, NamedByPath,
         InsertDescend \/ InsertLink
  PROVE  OnPath' /\ (HasUniqueKeys(heap) => HasUniqueKeys(heap'))
<1> DEFINE path == ins.path
           seg == ins.seg
           p == ins.parent
           H(k) == Reach(heap, Root, SubSeq(path, 1, k))
           R(k) == Reach(heap', Root, SubSeq(path, 1, k))
<1>1. ins.status = "RUN"
  BY DEF InsertDescend, InsertLink
<1>2. /\ heap \in Seq(Node) /\ heap # <<>> /\ Closed(heap) /\ Root \in DOMAIN heap
      /\ ins \in Insert /\ p \in DOMAIN heap /\ path \in Seq(Keys) /\ ins.linked = NULL
      /\ seg \in 1..Len(path) /\ p = H(seg - 1)
  BY <1>1, TreeIsClosed, RootInHeap DEF InsertTypeOK, OnPath, Insert
<1>3. p # NULL /\ seg - 1 \in 0..Len(path) /\ Len(path) \in Nat /\ seg \in Nat
  BY <1>2 DEF NULL
<1>4. /\ path[seg] \in Keys
      /\ Lookup.status = "OK" => Lookup.node = H(seg)
      /\ Lookup.status = "NOT_FOUND" => ChildNamed(heap, p, path[seg]) = NULL
  BY <1>1, LookupIsChild
<1>5. ~LastSegment => (seg + 1 \in 1..Len(path) /\ (seg + 1) - 1 = seg)
  BY <1>2, <1>3 DEF LastSegment
<1>6. \A q \in Nat :
        /\ GoDown(q).seg = seg + 1 /\ GoDown(q).parent = q /\ GoDown(q).path = path
        /\ GoDown(q).linked = NULL /\ GoDown(q).status = "RUN"
        /\ Linked(q).linked = q /\ Linked(q).path = path /\ Linked(q).node = ins.node
        /\ Linked(q).status = "OK"
  BY <1>1, <1>2 DEF GoDown, Linked, Insert
<1>7. CASE InsertDescend
  <2>1. Lookup.status = "OK" /\ Lookup.node \in Nat /\ heap' = heap
    BY <1>2, <1>7 DEF InsertDescend
  <2>2. CASE LastSegment
    <3>1. ins' = [ins EXCEPT !.status = "OK"]
      BY <1>7, <2>2 DEF InsertDescend
    <3>2. ins'.status = "OK" /\ ins'.linked = NULL
      BY <1>2, <3>1 DEF Insert
    <3>3. QED
      BY <2>1, <3>2 DEF OnPath
  <2>3. CASE ~LastSegment
    <3>1. ins' = GoDown(Lookup.node)
      BY <1>7, <2>3 DEF InsertDescend
    <3>2. /\ ins'.seg = seg + 1 /\ ins'.parent = H(seg) /\ ins'.path = path
          /\ ins'.linked = NULL /\ ins'.status = "RUN"
      BY <1>4, <1>6, <2>1, <3>1
    <3>3. QED
      BY <1>5, <2>1, <2>3, <3>2 DEF OnPath
  <2>4. QED
    BY <2>2, <2>3
<1>8. CASE InsertLink
  <2>1. PICK key \in Keys :
          /\ key = path[seg]
          /\ LinkedNode(key) \in Node /\ LinkedNode(key).children = <<>>
          /\ heap' = ConfigAdd(heap, p, LinkedNode(key))
          /\ Extends(heap', heap, p, LinkedNode(key))
    BY <1>8, LinkExtends
  <2> DEFINE node == LinkedNode(key)
             new == Len(heap) + 1
  <2>2. node.key = path[seg]
    <3>1. CASE LastSegment
      <4>1. node = ins.node /\ Last(path) = path[seg]
        BY <3>1 DEF LinkedNode, LastSegment, Last
      <4>2. QED
        BY <4>1 DEF NamedByPath
    <3>2. CASE ~LastSegment
      BY <2>1, <3>2 DEF LinkedNode, Intermediate, ConfigNew
    <3>3. QED
      BY <3>1, <3>2
  <2>3. ChildNamed(heap, p, path[seg]) = NULL
    BY <1>4, <1>8 DEF InsertLink
  <2>4. /\ heap' \in Seq(Node) /\ new \in DOMAIN heap' /\ Data(heap'[new]) = Data(node)
        /\ Prolongs(heap', heap) /\ IsTree(heap') /\ Root \in DOMAIN heap' /\ new \in Nat
    <3>1. IsTree(heap')
      BY <1>2, <2>1, AddKeepsTree
    <3>2. Prolongs(heap', heap)
      BY <1>2, <2>1, ExtendsProlongs
    <3>3. new \in Nat
      BY <1>2
    <3>4. QED
      BY <1>2, <2>1, <3>1, <3>2, <3>3, Zenon DEF Extends
  <2>5. Closed(heap')
    BY <2>4, TreeIsClosed
  <2> HIDE DEF node
  <2>6. ChildNamed(heap', p, path[seg]) = new /\ (HasUniqueKeys(heap) => HasUniqueKeys(heap'))
    BY <1>2, <2>1, <2>2, <2>3, <2>4, <2>5, AddedIsNamed DEF node
  <2>7. R(seg) = IF R(seg - 1) = NULL THEN NULL ELSE ChildNamed(heap', R(seg - 1), path[seg])
    BY <1>2, <2>4, <2>5, ReachSteps
  <2>8. R(seg - 1) = p
    <3>1. SubSeq(path, 1, seg - 1) \in Seq(Keys)
      BY <1>2, <1>3
    <3>2. QED
      BY <1>2, <1>3, <2>4, <2>5, <3>1, ReachProlonged
  <2>9. R(seg) = new
    BY <1>3, <2>6, <2>7, <2>8
  <2>10. CASE LastSegment
    <3>1. ins' = Linked(new)
      BY <1>8, <2>10 DEF InsertLink
    <3>2. /\ ins'.linked = new /\ ins'.path = path /\ ins'.node = ins.node /\ ins'.status = "OK"
      BY <1>6, <2>4, <3>1
    <3>3. Reach(heap', Root, path) = new
      <4>1. Reach(heap', Root, path) = R(Len(path))
        BY <1>2, <2>4, <2>5, ReachSteps
      <4>2. QED
        BY <2>9, <2>10, <4>1 DEF LastSegment
    <3>4. heap'[new].type = ins.node.type /\ heap'[new].value = ins.node.value
      BY <2>4, <2>10 DEF Data, node, LinkedNode
    <3>5. OnPath'
      BY <3>2, <3>3, <3>4 DEF OnPath
    <3>6. QED
      BY <2>6, <3>5
  <2>11. CASE ~LastSegment
    <3>1. ins' = GoDown(new)
      BY <1>8, <2>11 DEF InsertLink
    <3>2. /\ ins'.seg = seg + 1 /\ ins'.parent = new /\ ins'.path = path
          /\ ins'.linked = NULL /\ ins'.status = "RUN"
      BY <1>6, <2>4, <3>1
    <3>3. OnPath'
      BY <1>5, <2>9, <2>11, <3>2 DEF OnPath
    <3>4. QED
      BY <2>6, <3>3
  <2>12. QED
    BY <2>10, <2>11
<1>9. QED
  BY <1>7, <1>8
===============================================================================

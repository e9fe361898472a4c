------------------------------ MODULE WalkProofs ------------------------------
(***************************************************************************)
(* Proofs about the functions that visit a whole configuration tree, for   *)
(* every tree: what is below a node and what a depth-first visit enters    *)
(* after it, that samconfConfigNext finds exactly the node that is next,   *)
(* that samconfConfigDelete frees every node once, and which paths and     *)
(* options a tree has.                                                     *)
(***************************************************************************)
EXTENDS TreeProofs

(* The child list of a node. *)
LEMMA ChildListType ==
  ASSUME NEW h \in Seq(Node), NEW n \in DOMAIN h
  PROVE  /\ h[n].children \in Seq(Nat)
         /\ Len(h[n].children) \in Nat
         /\ DOMAIN h[n].children = 1..Len(h[n].children)
<1>1. h[n] \in Node
  OBVIOUS
<1>2. h[n].children \in Seq(Nat)
  BY <1>1 DEF Node
<1>3. QED
  BY <1>2

(* A set that holds a node whenever it holds its children holds all nodes. *)
LEMMA DownInduction ==
  ASSUME NEW h \in Seq(Node), Descends(h), NEW S,
         \A n \in DOMAIN h : (\A i \in DOMAIN h[n].children : h[n].children[i] \in S) => n \in S
  PROVE  DOMAIN h \subseteq S
<1> DEFINE D == DOMAIN h
           rank == [n \in D |-> Len(h) - n]
<1>1. Len(h) \in Nat /\ D = 1..Len(h)
  OBVIOUS
<1>2. rank \in [D -> Nat] /\ \A n, c \in D : n < c => rank[c] < rank[n]
  BY <1>1
<1>3. ASSUME NEW n \in D, \A m \in D : rank[m] < rank[n] => m \in S PROVE n \in S
  <2>1. \A i \in DOMAIN h[n].children : h[n].children[i] \in D /\ n < h[n].children[i]
    BY DEF Descends
  <2>2. QED
    BY <1>2, <1>3, <2>1
<1> HIDE DEF D, rank
<1>4. D \subseteq S
  BY <1>2, <1>3, RankInduction
<1>5. QED
  BY <1>4 DEF D

(* Trees in the making: nodes that are linked have matching links, others    *)
(* have neither a parent yet nor a place in a child list.                    *)
Forest(h) ==
  /\ Descends(h)
  /\ \A n \in DOMAIN h : h[n].parent # NULL =>
       /\ h[n].parent \in DOMAIN h
       /\ \E i \in DOMAIN h[h[n].parent].children : h[h[n].parent].children[i] = n
  /\ \A n \in DOMAIN h : \A i, j \in DOMAIN h[n].children :
       /\ h[h[n].children[i]].parent = n
       /\ h[n].children[i] = h[n].children[j] => i = j

(* The nodes that are not linked. *)
Tops(h) == {n \in DOMAIN h : h[n].parent = NULL}

(* A tree is a forest in which only the root is not linked. *)
LEMMA TreeIsForest ==
  ASSUME NEW h \in Seq(Node), h # <<>>
  PROVE  IsTree(h) <=> Forest(h) /\ Tops(h) = {Root}
<1>1. Root \in DOMAIN h /\ DOMAIN h \subseteq Nat \ {0}
  BY RootInHeap
<1>2. ASSUME IsTree(h) PROVE Forest(h) /\ Tops(h) = {Root}
  <2>1. \A n \in DOMAIN h \ {Root} : h[n].parent \in 1..(n - 1) /\ n \in 1..Len(h)
    BY <1>2 DEF IsTree
  <2>2. \A n \in DOMAIN h \ {Root} : h[n].parent # NULL /\ h[n].parent \in DOMAIN h
    BY <2>1 DEF NULL
  <2>3. h[Root].parent = NULL
    BY <1>2 DEF IsTree
  <2>4. Tops(h) = {Root}
    BY <1>1, <2>2, <2>3 DEF Tops
  <2>5. Descends(h)
    BY <1>2, TreeDescends
  <2>6. \A n \in DOMAIN h : h[n].parent # NULL =>
          /\ h[n].parent \in DOMAIN h
          /\ \E i \in DOMAIN h[h[n].parent].children : h[h[n].parent].children[i] = n
    BY <1>2, <2>2, <2>3 DEF IsTree
  <2>7. \A n \in DOMAIN h : \A i, j \in DOMAIN h[n].children :
          /\ h[h[n].children[i]].parent = n
          /\ h[n].children[i] = h[n].children[j] => i = j
    BY <1>2 DEF IsTree
  <2>8. QED
    BY <2>4, <2>5, <2>6, <2>7 DEF Forest
<1>3. ASSUME Forest(h), Tops(h) = {Root} PROVE IsTree(h)
  <2>1. h[Root].parent = NULL /\ \A n \in DOMAIN h \ {Root} : h[n].parent # NULL
    BY <1>1, <1>3 DEF Tops
  <2>2. ASSUME NEW n \in DOMAIN h \ {Root}
        PROVE  /\ h[n].parent \in 1..(n - 1)
               /\ \E i \in DOMAIN h[h[n].parent].children : h[h[n].parent].children[i] = n
    <3>1. /\ h[n].parent \in DOMAIN h
          /\ \E i \in DOMAIN h[h[n].parent].children : h[h[n].parent].children[i] = n
      BY <1>3, <2>1 DEF Forest
    <3>2. h[n].parent < n
      BY <1>3, <3>1 DEF Forest, Descends
    <3>3. h[n].parent \in Nat \ {0} /\ n \in Nat
      BY <1>1, <3>1
    <3>4. QED
      BY <3>1, <3>2, <3>3
  <2>3. QED
    BY <1>3, <2>1, <2>2 DEF Forest, Descends, IsTree
<1>4. QED
  BY <1>2, <1>3

(* A set that holds the nodes that are not linked, and a node whenever it    *)
(* holds its parent, holds all nodes.                                        *)
LEMMA UpInduction ==
  ASSUME NEW h \in Seq(Node), Forest(h), NEW S,
         \A n \in DOMAIN h : (n \notin Tops(h) => h[n].parent \in S) => n \in S
  PROVE  DOMAIN h \subseteq S
<1> DEFINE D == DOMAIN h
           rank == [n \in D |-> n]
<1>0. rank \in [D -> Nat]
  OBVIOUS
<1>1. ASSUME NEW n \in D, \A m \in D : rank[m] < rank[n] => m \in S PROVE n \in S
  <2>1. n \notin Tops(h) => h[n].parent \in D /\ h[n].parent < n
    BY DEF Forest, Descends, Tops
  <2>2. QED
    BY <1>1, <2>1
<1> HIDE DEF D, rank
<1>2. D \subseteq S
  BY <1>0, <1>1, RankInduction
<1>3. QED
  BY <1>2 DEF D

(* G[n] takes a function on the nodes to its value at n and looks at its     *)
(* values for the children of n only.                                        *)
IsDownRecursion(h, V, G) ==
  /\ V # {}
  /\ \A n \in DOMAIN h : \A f \in [DOMAIN h -> V] : G[n][f] \in V
  /\ \A n \in DOMAIN h : \A f, g \in [DOMAIN h -> V] :
       (\A i \in DOMAIN h[n].children : f[h[n].children[i]] = g[h[n].children[i]])
         => G[n][f] = G[n][g]

(* A function that is defined down the tree has a value. *)
LEMMA DownRecursionHasValue ==
  ASSUME NEW h \in Seq(Node), Descends(h), NEW V, NEW G, IsDownRecursion(h, V, G)
  PROVE  \E f \in [DOMAIN h -> V] : \A n \in DOMAIN h : f[n] = G[n][f]
<1> DEFINE D == DOMAIN h
           rank == [n \in D |-> Len(h) - n]
<1>1. Len(h) \in Nat /\ D = 1..Len(h)
  OBVIOUS
<1>2. rank \in [D -> 0..Len(h)] /\ \A n, c \in D : n < c => rank[c] < rank[n]
  BY <1>1
<1>3. \A n \in D : \A i \in DOMAIN h[n].children :
        h[n].children[i] \in D /\ rank[h[n].children[i]] < rank[n]
  BY <1>2 DEF Descends
<1> HIDE DEF rank
<1>4. IsRecursion(Len(h), D, rank, V, G)
  <2>1. /\ V # {}
        /\ \A n \in D : \A f \in [D -> V] : G[n][f] \in V
        /\ \A n \in D : \A f, g \in [D -> V] :
             (\A i \in DOMAIN h[n].children : f[h[n].children[i]] = g[h[n].children[i]])
               => G[n][f] = G[n][g]
    BY DEF IsDownRecursion
  <2> HIDE DEF D
  <2>2. \A n \in D : \A f, g \in [D -> V] :
          (\A c \in D : rank[c] < rank[n] => f[c] = g[c]) => G[n][f] = G[n][g]
    <3>1. SUFFICES ASSUME NEW n \in D, NEW f \in [D -> V], NEW g \in [D -> V],
                          \A c \in D : rank[c] < rank[n] => f[c] = g[c]
                   PROVE  G[n][f] = G[n][g]
      OBVIOUS
    <3>2. \A i \in DOMAIN h[n].children : f[h[n].children[i]] = g[h[n].children[i]]
      BY <1>3, <3>1
    <3>3. QED
      BY <2>1, <3>2
  <2>3. QED
    BY <1>1, <1>2, <2>1, <2>2 DEF IsRecursion
<1>5. QED
  <2> HIDE DEF D
  <2>1. \E f \in [D -> V] : \A n \in D : f[n] = G[n][f]
    BY <1>4, RecursionHasValue
  <2>2. QED
    BY <2>1 DEF D

-------------------------------------------------------------------------------
(***************************************************************************)
(* What is below a node.                                                   *)
(***************************************************************************)

(* Below a node are the node and what is below its children. *)
LEMMA SubtreeSteps ==
  ASSUME NEW h \in Seq(Node), Descends(h)
  PROVE  \A n \in DOMAIN h :
           /\ Subtree(h, n) \subseteq DOMAIN h
           /\ Subtree(h, n) = {n} \cup UNION {Subtree(h, h[n].children[i]) :
                                               i \in DOMAIN h[n].children}
<1> DEFINE D == DOMAIN h
           V == SUBSET D
           B(n, f) == {n} \cup UNION {f[h[n].children[i]] : i \in DOMAIN h[n].children}
           G == [n \in D |-> [f \in [D -> V] |-> B(n, f)]]
           down == CHOOSE f : f = [n \in D |-> B(n, f)]
<1>1. \A n \in D : \A i \in DOMAIN h[n].children : h[n].children[i] \in D
  BY DEF Descends
<1>2. \A n \in D : \A f \in [D -> V] : B(n, f) \in V
  BY <1>1
<1>3. \A n \in D : \A f, g :
        (\A i \in DOMAIN h[n].children : f[h[n].children[i]] = g[h[n].children[i]])
          => B(n, f) = B(n, g)
  OBVIOUS
<1>4. \A n \in D : \A f \in [D -> V] : G[n][f] = B(n, f)
  OBVIOUS
<1>5. \A n : Subtree(h, n) = down[n]
  BY DEF Subtree
<1> HIDE DEF B, G, down
<1>6. ASSUME NEW n \in D, NEW f \in [D -> V], NEW g \in [D -> V],
             \A i \in DOMAIN h[n].children : f[h[n].children[i]] = g[h[n].children[i]]
      PROVE  G[n][f] = G[n][g]
  <2>1. B(n, f) = B(n, g)
    BY <1>3, <1>6
  <2>2. QED
    BY <1>4, <2>1
<1>7. IsDownRecursion(h, V, G)
  BY <1>2, <1>4, <1>6 DEF IsDownRecursion
<1>8. PICK f \in [D -> V] : \A n \in D : f[n] = G[n][f]
  BY <1>7, DownRecursionHasValue
<1>9. f = [n \in D |-> B(n, f)]
  BY <1>4, <1>8
<1>10. down = [n \in D |-> B(n, down)]
  BY <1>9 DEF down
<1>11. \A n \in D : down[n] = B(n, down)
  BY <1>10
<1>12. D \subseteq {n \in D : down[n] \in V}
  <2> DEFINE S == {n \in D : down[n] \in V}
  <2>1. ASSUME NEW n \in D, \A i \in DOMAIN h[n].children : h[n].children[i] \in S
        PROVE  n \in S
    BY <1>11, <2>1 DEF B
  <2> HIDE DEF S
  <2>2. D \subseteq S
    BY <2>1, DownInduction
  <2>3. QED
    BY <2>2 DEF S
<1>13. QED
  BY <1>5, <1>11, <1>12 DEF B

(* What is below a node was linked after it, or is the node itself. *)
LEMMA SubtreeIsLater ==
  ASSUME NEW h \in Seq(Node), Descends(h)
  PROVE  \A n \in DOMAIN h : n \in Subtree(h, n) /\ \A x \in Subtree(h, n) : x \in DOMAIN h /\ n <= x
<1> DEFINE S == {n \in DOMAIN h : \A x \in Subtree(h, n) : n <= x}
<1>1. ASSUME NEW n \in DOMAIN h, \A i \in DOMAIN h[n].children : h[n].children[i] \in S
      PROVE  n \in S
  <2>1. SUFFICES ASSUME NEW x \in Subtree(h, n) PROVE n <= x
    OBVIOUS
  <2>2. n \in Nat /\ x \in Nat
    BY SubtreeSteps
  <2>3. CASE x = n
    BY <2>2, <2>3
  <2>4. CASE x # n
    <3>1. PICK i \in DOMAIN h[n].children : x \in Subtree(h, h[n].children[i])
      BY <2>4, SubtreeSteps
    <3>2. h[n].children[i] <= x /\ n < h[n].children[i] /\ h[n].children[i] \in Nat
      BY <1>1, <3>1 DEF Descends
    <3>3. QED
      BY <2>2, <3>2
  <2>5. QED
    BY <2>3, <2>4
<1>2. DOMAIN h \subseteq S
  <2> HIDE DEF S
  <2>1. QED
    BY <1>1, DownInduction
<1>3. \A n \in DOMAIN h : n \in Subtree(h, n) /\ Subtree(h, n) \subseteq DOMAIN h
  BY SubtreeSteps
<1>4. QED
  BY <1>2, <1>3

(* With a node its parent is below a node, unless it is that node. *)
LEMMA ParentIsBelow ==
  ASSUME NEW h \in Seq(Node), Forest(h)
  PROVE  \A n \in DOMAIN h : \A x \in Subtree(h, n) :
           x # n => x \notin Tops(h) /\ h[x].parent \in Subtree(h, n)
<1> DEFINE S == {n \in DOMAIN h : \A x \in Subtree(h, n) :
                    x # n => x \notin Tops(h) /\ h[x].parent \in Subtree(h, n)}
<1>0. Descends(h)
  BY DEF Forest
<1>1. ASSUME NEW n \in DOMAIN h, \A i \in DOMAIN h[n].children : h[n].children[i] \in S
      PROVE  n \in S
  <2>1. SUFFICES ASSUME NEW x \in Subtree(h, n), x # n
                 PROVE  x \notin Tops(h) /\ h[x].parent \in Subtree(h, n)
    OBVIOUS
  <2>2. PICK i \in DOMAIN h[n].children : x \in Subtree(h, h[n].children[i])
    BY <1>0, <2>1, SubtreeSteps
  <2> DEFINE c == h[n].children[i]
  <2>3. c \in DOMAIN h /\ h[c].parent = n /\ c \notin Tops(h) /\ Subtree(h, c) \subseteq Subtree(h, n)
    <3>1. c \in DOMAIN h /\ h[c].parent = n
      BY DEF Forest, Descends
    <3>2. n # NULL
      BY DEF NULL
    <3>3. QED
      BY <1>0, <3>1, <3>2, SubtreeSteps DEF Tops
  <2>4. CASE x = c
    BY <1>0, <2>3, <2>4, SubtreeSteps
  <2>5. CASE x # c
    BY <1>1, <2>2, <2>3, <2>5
  <2>6. QED
    BY <2>4, <2>5
<1>2. DOMAIN h \subseteq S
  <2> HIDE DEF S
  <2>1. QED
    BY <1>0, <1>1, DownInduction
<1>3. QED
  BY <1>2

(* With a node its children are below a node. *)
LEMMA ChildrenAreBelow ==
  ASSUME NEW h \in Seq(Node), Descends(h)
  PROVE  \A n \in DOMAIN h : \A x \in Subtree(h, n) :
           \A i \in DOMAIN h[x].children : h[x].children[i] \in Subtree(h, n)
<1> DEFINE S == {n \in DOMAIN h : \A x \in Subtree(h, n) :
                    \A i \in DOMAIN h[x].children : h[x].children[i] \in Subtree(h, n)}
<1>1. ASSUME NEW n \in DOMAIN h, \A i \in DOMAIN h[n].children : h[n].children[i] \in S
      PROVE  n \in S
  <2>1. SUFFICES ASSUME NEW x \in Subtree(h, n), NEW j \in DOMAIN h[x].children
                 PROVE  h[x].children[j] \in Subtree(h, n)
    OBVIOUS
  <2>2. CASE x = n
    <3>1. h[n].children[j] \in Subtree(h, h[n].children[j])
      BY <2>2, SubtreeIsLater DEF Descends
    <3>2. QED
      BY <2>2, <3>1, SubtreeSteps
  <2>3. CASE x # n
    <3>1. PICK i \in DOMAIN h[n].children : x \in Subtree(h, h[n].children[i])
      BY <2>3, SubtreeSteps
    <3>2. h[x].children[j] \in Subtree(h, h[n].children[i])
      BY <1>1, <3>1
    <3>3. QED
      BY <3>2, SubtreeSteps
  <2>4. QED
    BY <2>2, <2>3
<1>2. DOMAIN h \subseteq S
  <2> HIDE DEF S
  <2>1. QED
    BY <1>1, DownInduction
<1>3. QED
  BY <1>2

(* Everything is below a node that is not linked. *)
LEMMA AllBelowTops ==
  ASSUME NEW h \in Seq(Node), Forest(h)
  PROVE  \A n \in DOMAIN h : \E top \in Tops(h) : n \in Subtree(h, top)
<1> DEFINE S == {n \in DOMAIN h : \E top \in Tops(h) : n \in Subtree(h, top)}
<1>1. Descends(h)
  BY DEF Forest
<1>2. ASSUME NEW n \in DOMAIN h, n \notin Tops(h) => h[n].parent \in S
      PROVE  n \in S
  <2>1. CASE n \in Tops(h)
    BY <1>1, <2>1, SubtreeIsLater
  <2>2. CASE n \notin Tops(h)
    <3>1. /\ h[n].parent \in DOMAIN h
          /\ \E i \in DOMAIN h[h[n].parent].children : h[h[n].parent].children[i] = n
      BY <2>2 DEF Forest, Tops
    <3>2. PICK i \in DOMAIN h[h[n].parent].children : h[h[n].parent].children[i] = n
      BY <3>1
    <3>3. PICK top \in Tops(h) : h[n].parent \in Subtree(h, top)
      BY <1>2, <2>2
    <3>4. top \in DOMAIN h
      BY DEF Tops
    <3>5. n \in Subtree(h, top)
      BY <1>1, <3>1, <3>2, <3>3, <3>4, ChildrenAreBelow
    <3>6. QED
      BY <3>5
  <2>3. QED
    BY <2>1, <2>2
<1>3. DOMAIN h \subseteq S
  <2> HIDE DEF S
  <2>1. QED
    BY <1>2, UpInduction
<1>4. QED
  BY <1>3

(* Everything is below the root. *)
LEMMA AllBelowRoot ==
  ASSUME NEW h \in Seq(Node), h # <<>>, IsTree(h)
  PROVE  Subtree(h, Root) = DOMAIN h
<1>1. Forest(h) /\ Tops(h) = {Root} /\ Root \in DOMAIN h
  BY TreeIsForest, RootInHeap
<1>2. DOMAIN h \subseteq Subtree(h, Root)
  BY <1>1, AllBelowTops
<1>3. QED
  BY <1>1, <1>2, SubtreeSteps DEF Forest

(* Nothing is below two nodes that are not linked, or are linked to the same *)
(* parent.                                                                   *)
LEMMA SiblingsAreApart ==
  ASSUME NEW h \in Seq(Node), Forest(h), NEW c \in DOMAIN h, NEW d \in DOMAIN h,
         c # d, h[c].parent = h[d].parent
  PROVE  Subtree(h, c) \cap Subtree(h, d) = {}
<1> DEFINE p == h[c].parent
           S == {x \in DOMAIN h : ~(x \in Subtree(h, c) /\ x \in Subtree(h, d))}
<1>1. Descends(h)
  BY DEF Forest
<1>2. p # NULL => p \in DOMAIN h /\ p < c /\ p < d
  BY DEF Forest, Descends
<1>3. p = h[c].parent /\ p = h[d].parent
  OBVIOUS
<1> HIDE DEF p
<1>4. p \notin Subtree(h, c) /\ p \notin Subtree(h, d)
  <2>1. \A x \in Subtree(h, c) : x \in DOMAIN h /\ c <= x
    BY <1>1, SubtreeIsLater
  <2>2. \A x \in Subtree(h, d) : x \in DOMAIN h /\ d <= x
    BY <1>1, SubtreeIsLater
  <2>3. c \in Nat /\ d \in Nat /\ NULL \notin DOMAIN h /\ \A x \in DOMAIN h : x \in Nat
    BY DEF NULL
  <2>4. QED
    BY <1>2, <2>1, <2>2, <2>3
<1>5. ASSUME NEW x \in DOMAIN h, x \notin Tops(h) => h[x].parent \in S PROVE x \in S
  <2>1. SUFFICES ASSUME x \in Subtree(h, c), x \in Subtree(h, d) PROVE FALSE
    OBVIOUS
  <2>2. x # c
    BY <1>3, <1>4, <2>1, ParentIsBelow
  <2>3. x # d
    BY <1>3, <1>4, <2>1, ParentIsBelow
  <2>4. x \notin Tops(h) /\ h[x].parent \in Subtree(h, c) /\ h[x].parent \in Subtree(h, d)
    BY <2>1, <2>2, <2>3, ParentIsBelow
  <2>5. QED
    BY <1>5, <2>4
<1>6. DOMAIN h \subseteq S
  <2> HIDE DEF S
  <2>1. QED
    BY <1>5, UpInduction
<1>7. \A x \in Subtree(h, c) : x \in DOMAIN h
  BY <1>1, SubtreeIsLater
<1>8. QED
  BY <1>6, <1>7

-------------------------------------------------------------------------------
(***************************************************************************)
(* samconfConfigDelete.                                                    *)
(***************************************************************************)

(* What is freed for a node: what is freed for its children, and the node. *)
LEMMA DeleteSteps ==
  ASSUME NEW h \in Seq(Node), Descends(h)
  PROVE  \A n \in DOMAIN h :
           /\ ConfigDelete(h, n) \in Seq(DOMAIN h)
           /\ \E F \in [0..Len(h[n].children) -> Seq(DOMAIN h)] :
                /\ F[0] = <<>>
                /\ \A i \in 1..Len(h[n].children) :
                     F[i] = F[i - 1] \o ConfigDelete(h, h[n].children[i])
                /\ ConfigDelete(h, n) = Append(F[Len(h[n].children)], n)
<1> DEFINE D == DOMAIN h
           V == Seq(D)
           C(n, f) == ConcatAll(f, h[n].children)
           B(n, f) == Append(C(n, f), n)
           G == [n \in D |-> [f \in [D -> V] |-> B(n, f)]]
           order == CHOOSE f : f = [n \in D |-> B(n, f)]
<1>1. \A n \in D : /\ h[n].children \in Seq(Nat)
                   /\ \A i \in DOMAIN h[n].children : h[n].children[i] \in D
  <2>1. \A n \in D : h[n] \in Node
    OBVIOUS
  <2>2. QED
    BY <2>1 DEF Descends, Node
<1>2. ASSUME NEW n \in D, NEW f, \A i \in DOMAIN h[n].children : f[h[n].children[i]] \in V
      PROVE  \E F \in [0..Len(h[n].children) -> V] :
               Concatenates(F, f, h[n].children) /\ C(n, f) = F[Len(h[n].children)]
  BY <1>1, <1>2, FoldConcatenates
<1>3. ASSUME NEW n \in D, NEW f, \A i \in DOMAIN h[n].children : f[h[n].children[i]] \in V
      PROVE  C(n, f) \in V
  <2>1. PICK F \in [0..Len(h[n].children) -> V] : C(n, f) = F[Len(h[n].children)]
    BY <1>2, <1>3
  <2>2. Len(h[n].children) \in 0..Len(h[n].children)
    BY <1>1
  <2>3. QED
    BY <2>1, <2>2
<1>4. ASSUME NEW n \in D, NEW f, NEW g,
             \A i \in DOMAIN h[n].children : /\ f[h[n].children[i]] \in V
                                             /\ f[h[n].children[i]] = g[h[n].children[i]]
      PROVE  C(n, f) = C(n, g)
  <2>1. PICK F : Concatenates(F, f, h[n].children) /\ C(n, f) = F[Len(h[n].children)]
    BY <1>2, <1>4
  <2>2. PICK E : Concatenates(E, g, h[n].children) /\ C(n, g) = E[Len(h[n].children)]
    BY <1>2, <1>4
  <2> HIDE DEF C
  <2> DEFINE kids == h[n].children
  <2>3. kids \in Seq(Nat)
    BY <1>1
  <2>4. Agree(f, g, kids)
    BY <1>4 DEF Agree
  <2>5. Concatenates(F, f, kids) /\ Concatenates(E, g, kids)
    BY <2>1, <2>2
  <2> HIDE DEF kids
  <2>6. F[Len(kids)] = E[Len(kids)]
    BY <2>3, <2>4, <2>5, ConcatenatesOnce
  <2>7. QED
    BY <2>1, <2>2, <2>6 DEF kids
<1>5. \A n : ConfigDelete(h, n) = order[n]
  BY DEF ConfigDelete, ConcatAll
<1> HIDE DEF C
<1>6. /\ \A n \in D : \A f \in [D -> V] : G[n][f] = B(n, f)
      /\ \A n \in D : \A s \in V : Append(s, n) \in V
      /\ <<>> \in V
  OBVIOUS
<1> HIDE DEF G, V, order
<1>7. ASSUME NEW n \in D, NEW f \in [D -> V], NEW g \in [D -> V],
             \A i \in DOMAIN h[n].children : f[h[n].children[i]] = g[h[n].children[i]]
      PROVE  G[n][f] = G[n][g]
  <2>1. \A i \in DOMAIN h[n].children : f[h[n].children[i]] \in V
    BY <1>1
  <2>2. C(n, f) = C(n, g)
    BY <1>4, <1>7, <2>1
  <2>3. QED
    BY <1>6, <2>2
<1>8. \A n \in D : \A f \in [D -> V] : G[n][f] \in V
  BY <1>1, <1>3, <1>6
<1>9. IsDownRecursion(h, V, G)
  BY <1>6, <1>7, <1>8 DEF IsDownRecursion
<1>10. PICK f \in [D -> V] : \A n \in D : f[n] = G[n][f]
  BY <1>9, DownRecursionHasValue
<1>11. f = [n \in D |-> B(n, f)]
  BY <1>6, <1>10
<1>12. order = [n \in D |-> B(n, order)]
  BY <1>11 DEF order
<1>13. \A n \in D : order[n] = Append(C(n, order), n)
  BY <1>12
<1>14. D \subseteq {n \in D : order[n] \in V}
  <2> DEFINE S == {n \in D : order[n] \in V}
  <2>1. ASSUME NEW n \in D, \A i \in DOMAIN h[n].children : h[n].children[i] \in S
        PROVE  n \in S
    <3>1. C(n, order) \in V
      BY <1>3, <2>1
    <3>2. QED
      BY <1>6, <1>13, <3>1
  <2> HIDE DEF S
  <2>2. D \subseteq S
    BY <2>1, DownInduction
  <2>3. QED
    BY <2>2 DEF S
<1>15. ASSUME NEW n \in D
       PROVE  \E F \in [0..Len(h[n].children) -> V] :
                /\ F[0] = <<>>
                /\ \A i \in 1..Len(h[n].children) : F[i] = F[i - 1] \o ConfigDelete(h, h[n].children[i])
                /\ ConfigDelete(h, n) = Append(F[Len(h[n].children)], n)
  <2>1. \A i \in DOMAIN h[n].children : order[h[n].children[i]] \in V
    BY <1>1, <1>14
  <2>2. PICK F \in [0..Len(h[n].children) -> V] :
          Concatenates(F, order, h[n].children) /\ C(n, order) = F[Len(h[n].children)]
    BY <1>2, <2>1
  <2>3. QED
    BY <1>5, <1>13, <2>2 DEF Concatenates
<1>16. QED
  BY <1>5, <1>14, <1>15 DEF V

(* Two sequences without an element in common and without an element twice,  *)
(* put together.                                                             *)
LEMMA TogetherInjective ==
  ASSUME NEW T, NEW s \in Seq(T), NEW t \in Seq(T)
  PROVE  /\ ToSet(s \o t) = ToSet(s) \cup ToSet(t)
         /\ IsInjective(s) /\ IsInjective(t) /\ ToSet(s) \cap ToSet(t) = {} => IsInjective(s \o t)
<1> DEFINE st == s \o t
<1>1. /\ Len(s) \in Nat /\ Len(t) \in Nat /\ DOMAIN s = 1..Len(s) /\ DOMAIN t = 1..Len(t)
      /\ DOMAIN st = 1..(Len(s) + Len(t))
      /\ \A i \in 1..(Len(s) + Len(t)) : st[i] = IF i <= Len(s) THEN s[i] ELSE t[i - Len(s)]
  OBVIOUS
<1> HIDE DEF st
<1>2. ASSUME NEW i \in DOMAIN st
      PROVE  \/ i \in DOMAIN s /\ st[i] = s[i]
             \/ i - Len(s) \in DOMAIN t /\ st[i] = t[i - Len(s)]
  BY <1>1
<1>3. \A i \in DOMAIN s : i \in DOMAIN st /\ st[i] = s[i]
  BY <1>1
<1>4. \A i \in DOMAIN t : i + Len(s) \in DOMAIN st /\ st[i + Len(s)] = t[i]
  BY <1>1
<1>5. ToSet(st) = ToSet(s) \cup ToSet(t)
  BY <1>2, <1>3, <1>4 DEF ToSet
<1>6. ASSUME IsInjective(s), IsInjective(t), ToSet(s) \cap ToSet(t) = {},
             NEW i \in DOMAIN st, NEW j \in DOMAIN st, st[i] = st[j]
      PROVE  i = j
  <2>1. \A k \in DOMAIN s, l \in DOMAIN t : s[k] # t[l]
    BY <1>6 DEF ToSet
  <2>2. CASE i \in DOMAIN s /\ st[i] = s[i]
    <3>1. j \in DOMAIN s /\ st[j] = s[j]
      BY <1>2, <1>6, <2>1, <2>2
    <3>2. QED
      BY <1>6, <2>2, <3>1 DEF IsInjective
  <2>3. CASE i - Len(s) \in DOMAIN t /\ st[i] = t[i - Len(s)]
    <3>1. j - Len(s) \in DOMAIN t /\ st[j] = t[j - Len(s)]
      BY <1>2, <1>6, <2>1, <2>3
    <3>2. i - Len(s) = j - Len(s)
      BY <1>6, <2>3, <3>1 DEF IsInjective
    <3>3. QED
      BY <1>1, <3>2
  <2>4. QED
    BY <1>2, <2>2, <2>3
<1>7. QED
  BY <1>5, <1>6 DEF IsInjective, st

(* samconfConfigDelete frees each node that is below a node once. *)
LEMMA DeleteFreesOnce ==
  ASSUME NEW h \in Seq(Node), Forest(h)
  PROVE  \A n \in DOMAIN h :
           IsInjective(ConfigDelete(h, n)) /\ ToSet(ConfigDelete(h, n)) = Subtree(h, n)
<1> DEFINE Once(n) == /\ IsInjective(ConfigDelete(h, n))
                      /\ ToSet(ConfigDelete(h, n)) = Subtree(h, n)
           S == {n \in DOMAIN h : Once(n)}
<1>0. Descends(h)
  BY DEF Forest
<1>1. ASSUME NEW n \in DOMAIN h, \A i \in DOMAIN h[n].children : h[n].children[i] \in S
      PROVE  n \in S
  <2> DEFINE kids == h[n].children
             N == Len(kids)
             Below(i) == UNION {Subtree(h, kids[j]) : j \in 1..i}
  <2>1. N \in Nat /\ DOMAIN kids = 1..N
    <3>1. h[n] \in Node
      OBVIOUS
    <3>2. kids \in Seq(Nat)
      BY <3>1 DEF Node
    <3>3. QED
      BY <3>2
  <2>2. PICK F \in [0..N -> Seq(DOMAIN h)] :
          /\ F[0] = <<>>
          /\ \A i \in 1..N : F[i] = F[i - 1] \o ConfigDelete(h, kids[i])
          /\ ConfigDelete(h, n) = Append(F[N], n)
    BY <1>0, DeleteSteps
  <2>3. \A i \in 1..N : /\ kids[i] \in DOMAIN h /\ Once(kids[i])
                        /\ ConfigDelete(h, kids[i]) \in Seq(DOMAIN h)
    BY <1>0, <1>1, <2>1, DeleteSteps
  <2>4. \A i, j \in 1..N : i # j => Subtree(h, kids[i]) \cap Subtree(h, kids[j]) = {}
    <3>1. SUFFICES ASSUME NEW i \in 1..N, NEW j \in 1..N, i # j
                   PROVE  Subtree(h, kids[i]) \cap Subtree(h, kids[j]) = {}
      OBVIOUS
    <3>2. /\ kids[i] \in DOMAIN h /\ kids[j] \in DOMAIN h /\ kids[i] # kids[j]
          /\ h[kids[i]].parent = h[kids[j]].parent
      BY <2>1, <2>3, <3>1 DEF Forest
    <3>3. QED
      BY <3>2, SiblingsAreApart
  <2> DEFINE I == {i \in Nat : i <= N => IsInjective(F[i]) /\ ToSet(F[i]) = Below(i)}
  <2>5. 0 \in I
    <3>1. DOMAIN F[0] = {} /\ 1..0 = {}
      BY <2>2
    <3>2. QED
      BY <3>1 DEF IsInjective, ToSet
  <2>6. ASSUME NEW i \in Nat, i \in I PROVE i + 1 \in I
    <3> DEFINE k == i + 1
    <3>1. SUFFICES ASSUME k <= N PROVE IsInjective(F[k]) /\ ToSet(F[k]) = Below(k)
      <4> HIDE DEF Below, N
      <4>1. k \in Nat
        OBVIOUS
      <4>2. QED
        BY <4>1
    <3>2. k \in 1..N /\ k - 1 = i /\ i <= N /\ i \in 0..N /\ 1..k = 1..i \cup {k}
      BY <2>1, <3>1
    <3> HIDE DEF k
    <3>3. F[k] = F[i] \o ConfigDelete(h, kids[k]) /\ F[i] \in Seq(DOMAIN h)
      BY <2>2, <3>2
    <3>4. /\ IsInjective(F[i]) /\ ToSet(F[i]) = Below(i)
          /\ Once(kids[k]) /\ ConfigDelete(h, kids[k]) \in Seq(DOMAIN h)
      BY <2>3, <2>6, <3>2
    <3>5. Below(i) \cap Subtree(h, kids[k]) = {}
      <4>1. \A j \in 1..i : j \in 1..N /\ j # k
        BY <2>1, <3>2
      <4>2. \A j \in 1..i : Subtree(h, kids[j]) \cap Subtree(h, kids[k]) = {}
        BY <2>4, <3>2, <4>1
      <4>3. QED
        BY <4>2
    <3>6. Below(k) = Below(i) \cup Subtree(h, kids[k])
      BY <3>2
    <3> HIDE DEF Below
    <3>7. QED
      BY <3>3, <3>4, <3>5, <3>6, TogetherInjective
  <2>7. IsInjective(F[N]) /\ ToSet(F[N]) = Below(N) /\ F[N] \in Seq(DOMAIN h)
    <3> HIDE DEF I
    <3>1. Nat \subseteq I
      BY <2>5, <2>6, NumberInduction
    <3>2. N \in I /\ N \in 0..N /\ N <= N
      BY <2>1, <3>1
    <3>3. QED
      BY <2>2, <3>2 DEF I
  <2>8. Subtree(h, n) = {n} \cup Below(N)
    BY <1>0, <2>1, SubtreeSteps
  <2>9. n \notin Below(N)
    <3>1. \A i \in 1..N : n < kids[i] /\ kids[i] \in DOMAIN h
      BY <1>0, <2>1 DEF Descends
    <3>2. \A i \in 1..N : \A x \in Subtree(h, kids[i]) : kids[i] <= x /\ x \in DOMAIN h
      BY <1>0, <3>1, SubtreeIsLater
    <3>3. \A x \in DOMAIN h : x \in Nat
      OBVIOUS
    <3>4. \A i \in 1..N : n \notin Subtree(h, kids[i])
      BY <3>1, <3>2, <3>3
    <3>5. QED
      BY <3>4
  <2> DEFINE fs == F[N]
  <2>10. ConfigDelete(h, n) = fs \o <<n>> /\ <<n>> \in Seq(DOMAIN h)
    <3>1. ConfigDelete(h, n) = Append(fs, n)
      BY <2>2
    <3>2. fs \in Seq(DOMAIN h)
      BY <2>7
    <3> HIDE DEF fs
    <3>3. QED
      BY <3>1, <3>2
  <2>11. IsInjective(<<n>>) /\ ToSet(<<n>>) = {n}
    BY DEF IsInjective, ToSet
  <2>12. Once(n)
    <3>1. IsInjective(fs) /\ ToSet(fs) = Below(N) /\ fs \in Seq(DOMAIN h)
      BY <2>7
    <3> DEFINE one == <<n>>
    <3>2. /\ ConfigDelete(h, n) = fs \o one /\ one \in Seq(DOMAIN h)
          /\ IsInjective(one) /\ ToSet(one) = {n}
      BY <2>10, <2>11
    <3> HIDE DEF Below, N, fs, one
    <3>3. ToSet(fs) \cap ToSet(one) = {}
      BY <2>9, <3>1, <3>2
    <3>4. IsInjective(fs \o one) /\ ToSet(fs \o one) = ToSet(fs) \cup ToSet(one)
      BY <3>1, <3>2, <3>3, TogetherInjective
    <3>5. ToSet(fs \o one) = Subtree(h, n)
      BY <2>8, <3>1, <3>2, <3>4
    <3>6. QED
      BY <3>2, <3>4, <3>5
  <2>13. QED
    BY <2>12
<1>2. DOMAIN h \subseteq S
  <2> HIDE DEF S
  <2>1. QED
    BY <1>0, <1>1, DownInduction
<1>3. QED
  BY <1>2
-------------------------------------------------------------------------------
(***************************************************************************)
(* What a depth-first visit enters after a node.                           *)
(***************************************************************************)

(* What comes after a node and everything below it, as in Following. *)
After(h, n) ==
  LET after[m \in DOMAIN h] ==
        IF m = Root THEN {}
        ELSE after[h[m].parent] \cup UNION {Subtree(h, s) : s \in LaterSiblings(h, m)}
  IN  after[n]

(* What is below the children of n behind the i-th. *)
Behind(h, n, i) ==
  UNION {Subtree(h, h[n].children[j]) : j \in {k \in DOMAIN h[n].children : i < k}}

(* What follows a node: what is below it, and what comes after that. *)
LEMMA FollowingParts ==
  ASSUME NEW h, NEW n
  PROVE  Following(h, n) = After(h, n) \cup (Subtree(h, n) \ {n})
  BY DEF Following, After

(* After a node comes what is below its later siblings, and what comes after *)
(* its parent.                                                               *)
LEMMA AfterSteps ==
  ASSUME NEW h \in Seq(Node), h # <<>>, IsTree(h)
  PROVE  \A n \in DOMAIN h :
           /\ After(h, n) \subseteq DOMAIN h
           /\ After(h, n) = IF n = Root THEN {}
                            ELSE After(h, h[n].parent)
                                   \cup UNION {Subtree(h, s) : s \in LaterSiblings(h, n)}
<1> DEFINE D == DOMAIN h
           V == SUBSET D
           U == [n \in D |-> UNION {Subtree(h, s) : s \in LaterSiblings(h, n)}]
           B(n, f) == IF n = Root THEN {}
                      ELSE f[h[n].parent] \cup UNION {Subtree(h, s) : s \in LaterSiblings(h, n)}
           G == [n \in D |-> [f \in [D -> V] |-> B(n, f)]]
           rank == [n \in D |-> n]
           up == CHOOSE f : f = [n \in D |-> B(n, f)]
<1>0. Descends(h)
  BY TreeDescends
<1>1. Len(h) \in Nat /\ D = 1..Len(h) /\ rank \in [D -> 0..Len(h)]
  OBVIOUS
<1>2. \A n \in D : n # Root => h[n].parent \in D /\ h[n].parent < n
  <2>1. \A n \in D : n # Root => h[n].parent \in 1..(n - 1)
    BY DEF IsTree
  <2>2. QED
    BY <1>1, <2>1
<1>3. \A n \in D : n # Root => U[n] \in V
  <2>1. SUFFICES ASSUME NEW n \in D, n # Root PROVE U[n] \in V
    OBVIOUS
  <2>2. LaterSiblings(h, n) \subseteq D
    BY <1>2, <2>1 DEF LaterSiblings, IsTree
  <2>3. \A s \in LaterSiblings(h, n) : Subtree(h, s) \subseteq D
    BY <1>0, <2>2, SubtreeSteps
  <2>4. QED
    BY <2>3
<1>4. \A n \in D : \A f : B(n, f) = IF n = Root THEN {} ELSE f[h[n].parent] \cup U[n]
  OBVIOUS
<1>5. \A n \in D : \A f \in [D -> V] : G[n][f] = B(n, f)
  OBVIOUS
<1>6. \A n : After(h, n) = up[n]
  BY DEF After
<1>7. \A i, n \in D : rank[i] < rank[n] <=> i < n
  OBVIOUS
<1> HIDE DEF G, B, U, rank
<1>8. \A n \in D : \A f : (\A i \in D : i < n => f[i] \in V) => B(n, f) \in V
  BY <1>2, <1>3, <1>4
<1>9. \A n \in D : \A f, g : (\A i \in D : i < n => f[i] = g[i]) => B(n, f) = B(n, g)
  BY <1>2, <1>4
<1>10. \E f : f = [n \in D |-> B(n, f)]
  <2> HIDE DEF D, V
  <2>1. \A n \in D : \A f \in [D -> V] : B(n, f) \in V
    BY <1>8
  <2>2. V # {}
    BY DEF V
  <2>3. ASSUME NEW n \in D, NEW f \in [D -> V], NEW g \in [D -> V],
               \A i \in D : rank[i] < rank[n] => f[i] = g[i]
        PROVE  G[n][f] = G[n][g]
    <3>1. B(n, f) = B(n, g)
      BY <1>7, <1>9, <2>3
    <3>2. QED
      BY <1>5, <3>1
  <2>4. IsRecursion(Len(h), D, rank, V, G)
    BY <1>1, <1>5, <2>1, <2>2, <2>3 DEF IsRecursion
  <2>5. PICK f \in [D -> V] : \A n \in D : f[n] = G[n][f]
    BY <2>4, RecursionHasValue
  <2>6. f = [n \in D |-> B(n, f)]
    BY <1>5, <2>5
  <2>7. QED
    BY <2>6
<1>11. up = [n \in D |-> B(n, up)]
  BY <1>10
<1> HIDE DEF up
<1>12. \A n \in D : up[n] = B(n, up)
  BY <1>11
<1>13. \A n \in D : up[n] \in V
  <2> DEFINE T == {n \in D : up[n] \in V}
  <2>1. \A n \in D : (\A m \in D : rank[m] < rank[n] => m \in T) => n \in T
    BY <1>7, <1>8, <1>12
  <2>2. rank \in [D -> Nat]
    BY <1>1 DEF rank
  <2> HIDE DEF T, D
  <2>3. D \subseteq T
    BY <2>1, <2>2, RankInduction
  <2>4. QED
    BY <2>3 DEF T
<1>14. QED
  BY <1>6, <1>12, <1>13 DEF B

(* After a child come what is below its later siblings and what comes after  *)
(* its parent.                                                               *)
LEMMA AfterChild ==
  ASSUME NEW h \in Seq(Node), h # <<>>, IsTree(h), NEW n \in DOMAIN h,
         NEW i \in DOMAIN h[n].children
  PROVE  After(h, h[n].children[i]) = After(h, n) \cup Behind(h, n, i)
<1> DEFINE kids == h[n].children
           c == kids[i]
           later == {k \in DOMAIN kids : i < k}
<1>1. c \in DOMAIN h /\ h[c].parent = n /\ c # Root
  <2>1. n # NULL /\ h[Root].parent = NULL
    BY DEF IsTree, NULL
  <2>2. QED
    BY <2>1 DEF IsTree
<1>2. kids \in Seq(Nat) /\ DOMAIN kids \subseteq Nat
  <2>1. h[n] \in Node
    OBVIOUS
  <2>2. kids \in Seq(Nat)
    BY <2>1 DEF Node
  <2>3. QED
    BY <2>2
<1>3. \A k, j \in DOMAIN kids : kids[k] = kids[j] => k = j
  BY DEF IsTree
<1>4. LaterSiblings(h, c) = {kids[j] : j \in {j \in DOMAIN kids : \E k \in 1..(j - 1) : kids[k] = c}}
  BY <1>1 DEF LaterSiblings
<1>5. \A j \in DOMAIN kids : (\E k \in 1..(j - 1) : kids[k] = c) <=> i < j
  <2>1. SUFFICES ASSUME NEW j \in DOMAIN kids
                 PROVE  (\E k \in 1..(j - 1) : kids[k] = c) <=> i < j
    OBVIOUS
  <2>2. DOMAIN kids = 1..Len(kids) /\ Len(kids) \in Nat /\ i \in Nat \ {0} /\ j \in Nat
    BY <1>2
  <2>3. \A k \in 1..(j - 1) : k \in DOMAIN kids /\ k < j
    BY <2>2
  <2>4. i < j => i \in 1..(j - 1)
    BY <2>2
  <2>5. QED
    BY <1>3, <2>3, <2>4
<1>6. LaterSiblings(h, c) = {kids[j] : j \in later}
  BY <1>4, <1>5
<1>7. UNION {Subtree(h, s) : s \in LaterSiblings(h, c)} = Behind(h, n, i)
  BY <1>6 DEF Behind
<1>8. QED
  BY <1>1, <1>7, AfterSteps

(* What is below a node does not come after it. *)
LEMMA AfterIsApart ==
  ASSUME NEW h \in Seq(Node), h # <<>>, IsTree(h)
  PROVE  \A n \in DOMAIN h : Subtree(h, n) \cap After(h, n) = {}
<1> DEFINE S == {n \in DOMAIN h : Subtree(h, n) \cap After(h, n) = {}}
<1>0. Descends(h) /\ Forest(h) /\ Tops(h) = {Root}
  BY TreeDescends, TreeIsForest
<1>1. ASSUME NEW n \in DOMAIN h, n # Root => h[n].parent \in S PROVE n \in S
  <2>1. CASE n = Root
    BY <2>1, AfterSteps
  <2>2. CASE n # Root
    <3>1. h[n].parent \in S
      BY <1>1, <2>2
    <3>2. PICK p \in DOMAIN h : p = h[n].parent /\ Subtree(h, p) \cap After(h, p) = {}
      BY <3>1
    <3>3. PICK i \in DOMAIN h[p].children : h[p].children[i] = n
      BY <2>2, <3>2 DEF IsTree
    <3>4. Subtree(h, n) \subseteq Subtree(h, p)
      BY <1>0, <3>2, <3>3, SubtreeSteps
    <3>5. Subtree(h, n) \cap Behind(h, p, i) = {}
      <4>1. \A j \in DOMAIN h[p].children : i < j => i # j
        BY <3>2, <3>3, ChildListType
      <4>2. \A j \in DOMAIN h[p].children : i < j => Subtree(h, n) \cap Subtree(h, h[p].children[j]) = {}
        <5>1. SUFFICES ASSUME NEW j \in DOMAIN h[p].children, i < j
                       PROVE  Subtree(h, n) \cap Subtree(h, h[p].children[j]) = {}
          OBVIOUS
        <5>2. i # j
          BY <4>1, <5>1
        <5>3. /\ h[p].children[j] \in DOMAIN h /\ n # h[p].children[j]
              /\ h[n].parent = h[h[p].children[j]].parent
          BY <3>2, <3>3, <5>2 DEF IsTree
        <5>4. QED
          BY <1>0, <5>3, SiblingsAreApart
      <4>3. QED
        BY <4>2 DEF Behind
    <3>6. After(h, n) = After(h, p) \cup Behind(h, p, i)
      BY <3>2, <3>3, AfterChild
    <3>7. QED
      BY <3>2, <3>4, <3>5, <3>6
  <2>3. QED
    BY <2>1, <2>2
<1>2. DOMAIN h \subseteq S
  <2> HIDE DEF S
  <2>1. QED
    BY <1>0, <1>1, UpInduction
<1>3. QED
  BY <1>2

(* In a tree that grew out of another one the old nodes have their old       *)
(* children, and new ones behind them.                                       *)
LEMMA GrownChildren ==
  ASSUME NEW h \in Seq(Node), h # <<>>, IsTree(h), NEW g \in Seq(Node), g # <<>>, IsTree(g),
         Prolongs(g, h), NEW n \in DOMAIN h
  PROVE  /\ n # Root => g[n].parent = h[n].parent
         /\ \A i \in DOMAIN h[n].children :
              i \in DOMAIN g[n].children /\ g[n].children[i] = h[n].children[i]
         /\ \A i \in DOMAIN g[n].children \ DOMAIN h[n].children : g[n].children[i] \notin DOMAIN h
<1>1. \A m \in DOMAIN h : m \in DOMAIN g /\ \A i \in DOMAIN h[m].children :
        i \in DOMAIN g[m].children /\ g[m].children[i] = h[m].children[i]
  BY DEF Prolongs
<1>2. ASSUME NEW m \in DOMAIN h, m # Root
      PROVE  /\ h[m].parent \in DOMAIN h /\ g[m].parent = h[m].parent
             /\ \E j \in DOMAIN h[h[m].parent].children : h[h[m].parent].children[j] = m
  <2>1. /\ h[m].parent \in 1..(m - 1)
        /\ \E j \in DOMAIN h[h[m].parent].children : h[h[m].parent].children[j] = m
    BY <1>2 DEF IsTree
  <2>2. h[m].parent \in DOMAIN h
    BY <2>1
  <2>3. PICK j \in DOMAIN h[h[m].parent].children : h[h[m].parent].children[j] = m
    BY <2>1
  <2>4. h[m].parent \in DOMAIN g /\ j \in DOMAIN g[h[m].parent].children
        /\ g[h[m].parent].children[j] = m
    BY <1>1, <2>2, <2>3
  <2>5. g[m].parent = h[m].parent
    BY <2>4 DEF IsTree
  <2>6. QED
    BY <2>1, <2>2, <2>5
<1>3. ASSUME NEW i \in DOMAIN g[n].children, i \notin DOMAIN h[n].children,
             g[n].children[i] \in DOMAIN h
      PROVE  FALSE
  <2> DEFINE m == g[n].children[i]
  <2>1. n \in DOMAIN g /\ g[m].parent = n /\ m # Root
    <3>1. n \in DOMAIN g /\ n # NULL /\ g[Root].parent = NULL
      BY <1>1 DEF IsTree, NULL
    <3>2. QED
      BY <1>3, <3>1 DEF IsTree
  <2>2. PICK j \in DOMAIN h[h[m].parent].children : h[h[m].parent].children[j] = m
    BY <1>2, <1>3, <2>1
  <2>3. h[m].parent = n
    BY <1>2, <1>3, <2>1
  <2>4. j \in DOMAIN h[n].children /\ j \in DOMAIN g[n].children
        /\ g[n].children[j] = g[n].children[i]
    BY <1>1, <2>2, <2>3
  <2>5. i = j
    BY <2>1, <2>4 DEF IsTree
  <2>6. QED
    BY <1>3, <2>4, <2>5
<1>4. QED
  BY <1>1, <1>2, <1>3

(* What is below a node that is new is new. *)
LEMMA NewSubtree ==
  ASSUME NEW h \in Seq(Node), NEW g \in Seq(Node), Descends(g), DOMAIN h \subseteq DOMAIN g,
         NEW m \in DOMAIN g \ DOMAIN h
  PROVE  Subtree(g, m) \cap DOMAIN h = {}
<1>1. DOMAIN h = 1..Len(h) /\ Len(h) \in Nat /\ DOMAIN g = 1..Len(g) /\ Len(g) \in Nat
  OBVIOUS
<1>2. \A x \in Subtree(g, m) : x \in DOMAIN g /\ m <= x
  BY SubtreeIsLater
<1>3. \A x \in DOMAIN g : m <= x => x \notin DOMAIN h
  BY <1>1
<1>4. QED
  BY <1>2, <1>3

(* Below an old node are the same old nodes as before. *)
LEMMA GrownSubtree ==
  ASSUME NEW h \in Seq(Node), h # <<>>, IsTree(h), NEW g \in Seq(Node), g # <<>>, IsTree(g),
         Prolongs(g, h)
  PROVE  \A n \in DOMAIN h : Subtree(g, n) \cap DOMAIN h = Subtree(h, n)
<1> DEFINE S == {n \in DOMAIN h : Subtree(g, n) \cap DOMAIN h = Subtree(h, n)}
<1>0. Descends(h) /\ Descends(g) /\ DOMAIN h \subseteq DOMAIN g
  BY TreeDescends DEF Prolongs
<1>1. ASSUME NEW n \in DOMAIN h, \A i \in DOMAIN h[n].children : h[n].children[i] \in S
      PROVE  n \in S
  <2>1. /\ \A i \in DOMAIN h[n].children :
             i \in DOMAIN g[n].children /\ g[n].children[i] = h[n].children[i]
        /\ \A i \in DOMAIN g[n].children \ DOMAIN h[n].children : g[n].children[i] \notin DOMAIN h
    BY GrownChildren
  <2>2. Subtree(g, n) = {n} \cup UNION {Subtree(g, g[n].children[i]) : i \in DOMAIN g[n].children}
    BY <1>0, SubtreeSteps
  <2>3. Subtree(h, n) = {n} \cup UNION {Subtree(h, h[n].children[i]) : i \in DOMAIN h[n].children}
    BY <1>0, SubtreeSteps
  <2>4. \A i \in DOMAIN h[n].children :
          Subtree(g, g[n].children[i]) \cap DOMAIN h = Subtree(h, h[n].children[i])
    BY <1>1, <2>1
  <2>5. \A i \in DOMAIN g[n].children \ DOMAIN h[n].children :
          Subtree(g, g[n].children[i]) \cap DOMAIN h = {}
    <3>1. SUFFICES ASSUME NEW i \in DOMAIN g[n].children \ DOMAIN h[n].children
                   PROVE  Subtree(g, g[n].children[i]) \cap DOMAIN h = {}
      OBVIOUS
    <3>2. g[n].children[i] \in DOMAIN g
      BY <1>0 DEF Descends
    <3>3. QED
      BY <1>0, <2>1, <3>2, NewSubtree
  <2>6. \A x \in DOMAIN h : x \in Subtree(g, n) <=> x \in Subtree(h, n)
    BY <2>1, <2>2, <2>3, <2>4, <2>5
  <2>7. Subtree(h, n) \subseteq DOMAIN h
    BY <1>0, SubtreeSteps
  <2>8. QED
    BY <2>6, <2>7
<1>2. DOMAIN h \subseteq S
  <2> HIDE DEF S
  <2>1. QED
    BY <1>0, <1>1, DownInduction
<1>3. QED
  BY <1>2

(* The same old nodes as before come after an old node, *)
LEMMA GrownAfter ==
  ASSUME NEW h \in Seq(Node), h # <<>>, IsTree(h), NEW g \in Seq(Node), g # <<>>, IsTree(g),
         Prolongs(g, h)
  PROVE  \A n \in DOMAIN h : After(g, n) \cap DOMAIN h = After(h, n)
<1> DEFINE S == {n \in DOMAIN h : After(g, n) \cap DOMAIN h = After(h, n)}
<1>0. Descends(h) /\ Descends(g) /\ DOMAIN h \subseteq DOMAIN g
  BY TreeDescends DEF Prolongs
<1>1. ASSUME NEW n \in DOMAIN h, n # Root => h[n].parent \in S PROVE n \in S
  <2>1. CASE n = Root
    BY <1>0, <2>1, AfterSteps
  <2>2. CASE n # Root
    <3>1. PICK p \in DOMAIN h : p = h[n].parent /\ After(g, p) \cap DOMAIN h = After(h, p)
      BY <1>1, <2>2
    <3>2. PICK i \in DOMAIN h[p].children : h[p].children[i] = n
      BY <2>2, <3>1 DEF IsTree
    <3>3. /\ \A j \in DOMAIN h[p].children :
               j \in DOMAIN g[p].children /\ g[p].children[j] = h[p].children[j]
          /\ \A j \in DOMAIN g[p].children \ DOMAIN h[p].children :
               g[p].children[j] \notin DOMAIN h
      BY GrownChildren
    <3>4. After(h, n) = After(h, p) \cup Behind(h, p, i)
      BY <3>2, AfterChild
    <3>5. After(g, n) = After(g, p) \cup Behind(g, p, i)
      <4>1. p \in DOMAIN g /\ i \in DOMAIN g[p].children /\ g[p].children[i] = n
        BY <1>0, <3>2, <3>3
      <4>2. QED
        BY <4>1, AfterChild
    <3>6. \A j \in DOMAIN h[p].children :
            Subtree(g, g[p].children[j]) \cap DOMAIN h = Subtree(h, h[p].children[j])
      BY <1>0, <3>3, GrownSubtree DEF Descends
    <3>7. \A j \in DOMAIN g[p].children \ DOMAIN h[p].children :
            Subtree(g, g[p].children[j]) \cap DOMAIN h = {}
      <4>1. SUFFICES ASSUME NEW j \in DOMAIN g[p].children \ DOMAIN h[p].children
                     PROVE  Subtree(g, g[p].children[j]) \cap DOMAIN h = {}
        OBVIOUS
      <4>2. g[p].children[j] \in DOMAIN g
        BY <1>0 DEF Descends
      <4>3. QED
        BY <1>0, <3>3, <4>2, NewSubtree
    <3>8. Behind(g, p, i) \cap DOMAIN h = Behind(h, p, i)
      <4>1. \A x \in DOMAIN h : x \in Behind(g, p, i) <=> x \in Behind(h, p, i)
        BY <3>3, <3>6, <3>7 DEF Behind
      <4>2. Behind(h, p, i) \subseteq DOMAIN h
        BY <3>6 DEF Behind
      <4>3. QED
        BY <4>1, <4>2
    <3>9. QED
      BY <3>1, <3>4, <3>5, <3>8
  <2>3. QED
    BY <2>1, <2>2
<1>2. DOMAIN h \subseteq S
  <2> HIDE DEF S
  <2>1. QED
    BY <1>1, TreeIsForest, UpInduction
<1>3. QED
  BY <1>2

(* ... so that the same old nodes follow it. *)
LEMMA GrownFollowing ==
  ASSUME NEW h \in Seq(Node), h # <<>>, IsTree(h), NEW g \in Seq(Node), g # <<>>, IsTree(g),
         Prolongs(g, h), NEW n \in DOMAIN h
  PROVE  Following(g, n) \cap DOMAIN h = Following(h, n)
<1>1. /\ Subtree(g, n) \cap DOMAIN h = Subtree(h, n)
      /\ After(g, n) \cap DOMAIN h = After(h, n)
  BY GrownSubtree, GrownAfter
<1>2. QED
  BY <1>1, FollowingParts

-------------------------------------------------------------------------------
(***************************************************************************)
(* samconfConfigNext.                                                      *)
(***************************************************************************)

(* The search begins with nothing found, *)
NothingFound == [found |-> FALSE, next |-> NULL, status |-> "ERROR"]

(* ... and looks at a node before it goes on to the children. *)
Compared(s, n, sought) == [s EXCEPT !.found = (n = sought), !.status = "NOT_FOUND"]

(* What _findNextConfigAtLevel makes of the search s at the node n. *)
Visits(find, h, n, s, sought) ==
  /\ s.next # NULL => find[n][s] = [s EXCEPT !.status = "ERROR"]
  /\ s.next = NULL /\ s.found => find[n][s] = [s EXCEPT !.next = n, !.status = "OK"]
  /\ s.next = NULL /\ ~s.found =>
       \E F \in [0..Len(h[n].children) -> Search] :
         /\ F[0] = Compared(s, n, sought)
         /\ \A i \in 1..Len(h[n].children) : F[i] = find[h[n].children[i]][F[i - 1]]
         /\ find[n][s] = F[Len(h[n].children)]

(* What is done to a search leaves it a search. *)
LEMMA SearchType ==
  ASSUME NEW s \in Search, NEW n \in Nat, NEW sought
  PROVE  /\ [s EXCEPT !.status = "ERROR"] \in Search
         /\ [s EXCEPT !.next = n, !.status = "OK"] \in Search
         /\ Compared(s, n, sought) \in Search
  BY DEF Search, Compared

(* The search of samconfConfigNext, node by node. *)
LEMMA NextSteps ==
  ASSUME NEW h \in Seq(Node), Descends(h), NEW sought
  PROVE  \E find \in [DOMAIN h -> [Search -> Search]] :
           /\ \A root : ConfigNext(h, root, sought) = find[root][NothingFound]
           /\ \A n \in DOMAIN h : \A s \in Search : Visits(find, h, n, s, sought)
<1> DEFINE D == DOMAIN h
           V == [Search -> Search]
           C(n, f, s) == ApplyAll(f, Compared(s, n, sought), h[n].children)
           B(n, f) == [s \in Search |->
                         IF s.next # NULL THEN [s EXCEPT !.status = "ERROR"]
                         ELSE IF s.found THEN [s EXCEPT !.next = n, !.status = "OK"]
                         ELSE C(n, f, s)]
           G == [n \in D |-> [f \in [D -> V] |-> B(n, f)]]
           find == CHOOSE f : f = [n \in D |-> B(n, f)]
<1>1. \A root : ConfigNext(h, root, sought) = find[root][NothingFound]
  BY DEF ConfigNext, NothingFound, ApplyAll, Compared
<1>2. \A n \in D : /\ n \in Nat /\ h[n].children \in Seq(Nat) /\ Len(h[n].children) \in Nat
                   /\ DOMAIN h[n].children = 1..Len(h[n].children)
                   /\ \A i \in DOMAIN h[n].children : h[n].children[i] \in D
  BY ChildListType DEF Descends
<1>3. ASSUME NEW n \in D, NEW f, \A i \in DOMAIN h[n].children : f[h[n].children[i]] \in V,
             NEW s \in Search
      PROVE  \E F \in [0..Len(h[n].children) -> Search] :
               /\ Applies(F, f, Compared(s, n, sought), h[n].children)
               /\ C(n, f, s) = F[Len(h[n].children)]
  <2> DEFINE kids == h[n].children
             base == Compared(s, n, sought)
  <2>1. kids \in Seq(Nat) /\ base \in Search
    BY <1>2, SearchType
  <2>2. \A i \in DOMAIN kids : f[kids[i]] \in [Search -> Search]
    BY <1>3
  <2> HIDE DEF kids, base
  <2>3. \E F \in [0..Len(kids) -> Search] :
          Applies(F, f, base, kids) /\ ApplyAll(f, base, kids) = F[Len(kids)]
    BY <2>1, <2>2, FoldApplies
  <2>4. QED
    BY <2>3 DEF kids, base
<1>4. ASSUME NEW n \in D, NEW f, \A i \in DOMAIN h[n].children : f[h[n].children[i]] \in V
      PROVE  \A s \in Search : C(n, f, s) \in Search
  <2>1. SUFFICES ASSUME NEW s \in Search PROVE C(n, f, s) \in Search
    OBVIOUS
  <2>2. PICK F \in [0..Len(h[n].children) -> Search] : C(n, f, s) = F[Len(h[n].children)]
    BY <1>3, <1>4
  <2>3. Len(h[n].children) \in 0..Len(h[n].children)
    BY <1>2
  <2> HIDE DEF C
  <2>4. QED
    BY <2>2, <2>3
<1>5. ASSUME NEW n \in D, NEW f, NEW g,
             \A i \in DOMAIN h[n].children : /\ f[h[n].children[i]] \in V
                                             /\ f[h[n].children[i]] = g[h[n].children[i]]
      PROVE  \A s \in Search : C(n, f, s) = C(n, g, s)
  <2>1. SUFFICES ASSUME NEW s \in Search PROVE C(n, f, s) = C(n, g, s)
    OBVIOUS
  <2> DEFINE kids == h[n].children
             base == Compared(s, n, sought)
  <2>2. PICK F : Applies(F, f, base, kids) /\ C(n, f, s) = F[Len(kids)]
    BY <1>3, <1>5
  <2> HIDE DEF V
  <2>3. PICK E : Applies(E, g, base, kids) /\ C(n, g, s) = E[Len(kids)]
    <3>1. \A i \in DOMAIN h[n].children : g[h[n].children[i]] \in V
      BY <1>5
    <3>2. QED
      BY <1>3, <3>1
  <2>4. kids \in Seq(Nat) /\ Agree(f, g, kids)
    BY <1>2, <1>5 DEF Agree
  <2> HIDE DEF kids, base, C
  <2>5. F[Len(kids)] = E[Len(kids)]
    BY <2>2, <2>3, <2>4, AppliesOnce
  <2>6. QED
    BY <2>2, <2>3, <2>5
<1> HIDE DEF C
<1>6. ASSUME NEW n \in D, NEW f, \A i \in DOMAIN h[n].children : f[h[n].children[i]] \in V
      PROVE  B(n, f) \in V
  <2>1. \A s \in Search : /\ C(n, f, s) \in Search
                          /\ [s EXCEPT !.status = "ERROR"] \in Search
                          /\ [s EXCEPT !.next = n, !.status = "OK"] \in Search
    BY <1>2, <1>4, <1>6, SearchType
  <2> HIDE DEF D
  <2>2. QED
    BY <2>1
<1>7. ASSUME NEW n \in D, NEW f, NEW g,
             \A i \in DOMAIN h[n].children : /\ f[h[n].children[i]] \in V
                                             /\ f[h[n].children[i]] = g[h[n].children[i]]
      PROVE  B(n, f) = B(n, g)
  <2>1. \A s \in Search : C(n, f, s) = C(n, g, s)
    BY <1>5, <1>7
  <2>2. QED
    BY <2>1
<1>8. \A n \in D : \A f \in [D -> V] : G[n][f] = B(n, f)
  OBVIOUS
<1>9. V # {}
  <2>1. [s \in Search |-> s] \in V
    OBVIOUS
  <2>2. QED
    BY <2>1
<1> HIDE DEF G, V, B, find
<1>10. ASSUME NEW n \in D, NEW f \in [D -> V], NEW g \in [D -> V],
              \A i \in DOMAIN h[n].children : f[h[n].children[i]] = g[h[n].children[i]]
       PROVE  G[n][f] = G[n][g]
  <2>1. \A i \in DOMAIN h[n].children : f[h[n].children[i]] \in V
    BY <1>2
  <2>2. B(n, f) = B(n, g)
    BY <1>7, <1>10, <2>1
  <2>3. QED
    BY <1>8, <2>2
<1>11. \A n \in D : \A f \in [D -> V] : G[n][f] \in V
  BY <1>2, <1>6, <1>8
<1>12. IsDownRecursion(h, V, G)
  BY <1>9, <1>10, <1>11 DEF IsDownRecursion
<1>13. PICK f \in [D -> V] : \A n \in D : f[n] = G[n][f]
  BY <1>12, DownRecursionHasValue
<1>14. f = [n \in D |-> B(n, f)]
  BY <1>8, <1>13
<1>15. find = [n \in D |-> B(n, find)]
  BY <1>14 DEF find
<1>16. \A n \in D : find[n] = B(n, find)
  BY <1>15
<1>17. D \subseteq {n \in D : find[n] \in V}
  <2> DEFINE S == {n \in D : find[n] \in V}
  <2>1. ASSUME NEW n \in D, \A i \in DOMAIN h[n].children : h[n].children[i] \in S
        PROVE  n \in S
    <3>1. B(n, find) \in V
      BY <1>6, <2>1
    <3>2. QED
      BY <1>16, <3>1
  <2> HIDE DEF S
  <2>2. D \subseteq S
    BY <2>1, DownInduction
  <2>3. QED
    BY <2>2 DEF S
<1>18. find \in [D -> V]
  BY <1>15, <1>17
<1>19. ASSUME NEW n \in D, NEW s \in Search PROVE Visits(find, h, n, s, sought)
  <2>1. find[n][s] = IF s.next # NULL THEN [s EXCEPT !.status = "ERROR"]
                     ELSE IF s.found THEN [s EXCEPT !.next = n, !.status = "OK"]
                     ELSE C(n, find, s)
    BY <1>16 DEF B
  <2>2. \A i \in DOMAIN h[n].children : find[h[n].children[i]] \in V
    BY <1>2, <1>17
  <2>3. PICK F \in [0..Len(h[n].children) -> Search] :
          /\ Applies(F, find, Compared(s, n, sought), h[n].children)
          /\ C(n, find, s) = F[Len(h[n].children)]
    BY <1>3, <2>2
  <2>4. /\ F[0] = Compared(s, n, sought)
        /\ \A i \in 1..Len(h[n].children) : F[i] = find[h[n].children[i]][F[i - 1]]
    BY <2>3 DEF Applies
  <2>5. QED
    BY <2>1, <2>3, <2>4 DEF Visits
<1>20. QED
  BY <1>1, <1>18, <1>19 DEF V

(* The search finds nodes of the heap only, whatever is lost of the tree. *)
LEMMA NextType ==
  ASSUME NEW h \in Seq(Node), Descends(h), NEW root \in DOMAIN h, NEW sought
  PROVE  ConfigNext(h, root, sought).next \in DOMAIN h \cup {NULL}
<1> DEFINE D == DOMAIN h
           Known(s) == s.next \in D \cup {NULL}
<1>1. PICK find \in [D -> [Search -> Search]] :
        /\ \A r : ConfigNext(h, r, sought) = find[r][NothingFound]
        /\ \A n \in D : \A s \in Search : Visits(find, h, n, s, sought)
  BY NextSteps
<1> DEFINE S == {n \in D : \A s \in Search : Known(s) => Known(find[n][s])}
<1>2. ASSUME NEW n \in D, \A i \in DOMAIN h[n].children : h[n].children[i] \in S PROVE n \in S
  <2>1. SUFFICES ASSUME NEW s \in Search, Known(s) PROVE Known(find[n][s])
    OBVIOUS
  <2>2. Visits(find, h, n, s, sought)
    BY <1>1
  <2>3. CASE s.next # NULL
    <3>1. find[n][s] = [s EXCEPT !.status = "ERROR"]
      BY <2>2, <2>3 DEF Visits
    <3>2. QED
      BY <2>1, <3>1 DEF Search
  <2>4. CASE s.next = NULL /\ s.found
    <3>1. find[n][s] = [s EXCEPT !.next = n, !.status = "OK"]
      BY <2>2, <2>4 DEF Visits
    <3>2. QED
      BY <3>1 DEF Search
  <2>5. CASE s.next = NULL /\ ~s.found
    <3> DEFINE kids == h[n].children
               N == Len(kids)
    <3>1. PICK F \in [0..N -> Search] :
            /\ F[0] = Compared(s, n, sought)
            /\ \A i \in 1..N : F[i] = find[kids[i]][F[i - 1]]
            /\ find[n][s] = F[N]
      BY <2>2, <2>5 DEF Visits
    <3>2. N \in Nat /\ DOMAIN kids = 1..N
      BY ChildListType
    <3> DEFINE I == {i \in Nat : i <= N => Known(F[i])}
    <3> HIDE DEF N, kids
    <3>3. 0 \in I
      <4>1. F[0].next = s.next
        BY <3>1 DEF Compared, Search
      <4>2. QED
        BY <2>1, <4>1
    <3>4. ASSUME NEW i \in Nat, i \in I PROVE i + 1 \in I
      <4>1. SUFFICES ASSUME i + 1 <= N PROVE Known(F[i + 1])
        OBVIOUS
      <4>2. i <= N /\ i + 1 \in 1..N /\ (i + 1) - 1 = i /\ i \in 0..N
        BY <3>2, <4>1
      <4>3. F[i + 1] = find[kids[i + 1]][F[i]] /\ Known(F[i]) /\ F[i] \in Search
        BY <3>1, <3>4, <4>2
      <4>4. kids[i + 1] \in S
        BY <1>2, <3>2, <4>2 DEF kids
      <4>5. QED
        BY <4>3, <4>4
    <3> HIDE DEF I
    <3>5. Nat \subseteq I
      BY <3>3, <3>4, NumberInduction
    <3>6. Known(F[N])
      BY <3>2, <3>5 DEF I
    <3>7. QED
      BY <3>1, <3>6
  <2>6. QED
    BY <2>3, <2>4, <2>5
<1>3. D \subseteq S
  <2> HIDE DEF S
  <2>1. QED
    BY <1>2, DownInduction
<1>4. NothingFound \in Search /\ Known(NothingFound)
  BY DEF NothingFound, Search, NULL
<1>5. QED
  BY <1>1, <1>3, <1>4

(* The children of a node one by one: below the node is what is below them,  *)
(* and what comes after one is the next one, and what follows that.          *)
LEMMA BehindSteps ==
  ASSUME NEW h \in Seq(Node), h # <<>>, IsTree(h), NEW n \in DOMAIN h
  PROVE  LET kids == h[n].children
             Rest(i) == After(h, n) \cup Behind(h, n, i)
         IN  /\ Following(h, n) = Rest(0)
             /\ Rest(Len(kids)) = After(h, n)
             /\ \A i \in 1..Len(kids) :
                  After(h, kids[i]) = Rest(i) /\ Rest(i - 1) = {kids[i]} \cup Following(h, kids[i])
<1> DEFINE kids == h[n].children
           N == Len(kids)
           Rest(i) == After(h, n) \cup Behind(h, n, i)
<1>0. Descends(h)
  BY TreeDescends
<1>1. N \in Nat /\ DOMAIN kids = 1..N /\ \A i \in 1..N : kids[i] \in DOMAIN h /\ n < kids[i]
  BY <1>0, ChildListType DEF Descends
<1>2. Following(h, n) = Rest(0)
  <2>1. Subtree(h, n) = {n} \cup Behind(h, n, 0)
    <3>1. {k \in DOMAIN kids : 0 < k} = DOMAIN kids
      BY <1>1
    <3>2. QED
      BY <1>0, <3>1, SubtreeSteps DEF Behind
  <2>2. \A i \in 1..N : n \notin Subtree(h, kids[i])
    <3>1. \A i \in 1..N : \A x \in Subtree(h, kids[i]) : x \in DOMAIN h /\ kids[i] <= x
      BY <1>0, <1>1, SubtreeIsLater
    <3>2. DOMAIN h \subseteq Nat
      OBVIOUS
    <3>3. QED
      BY <1>1, <3>1, <3>2
  <2>3. n \notin Behind(h, n, 0)
    BY <1>1, <2>2 DEF Behind
  <2>4. QED
    BY <2>1, <2>3, FollowingParts
<1>3. Rest(N) = After(h, n)
  <2>1. {k \in DOMAIN kids : N < k} = {}
    BY <1>1
  <2>2. Behind(h, n, N) = {}
    BY <2>1 DEF Behind
  <2>3. QED
    BY <2>2
<1>4. ASSUME NEW i \in 1..N
      PROVE  After(h, kids[i]) = Rest(i) /\ Rest(i - 1) = {kids[i]} \cup Following(h, kids[i])
  <2>1. After(h, kids[i]) = Rest(i)
    BY <1>1, AfterChild
  <2>2. {k \in DOMAIN kids : i - 1 < k} = {i} \cup {k \in DOMAIN kids : i < k}
    BY <1>1
  <2>3. Behind(h, n, i - 1) = Subtree(h, kids[i]) \cup Behind(h, n, i)
    BY <2>2 DEF Behind
  <2>4. kids[i] \in Subtree(h, kids[i])
    BY <1>0, <1>1, SubtreeIsLater
  <2>5. QED
    BY <2>1, <2>3, <2>4, FollowingParts
<1>5. QED
  BY <1>2, <1>3, <1>4

(* samconfConfigNext finds the first of the nodes that follow, and none when *)
(* none does.                                                                *)
LEMMA NextIsFirst ==
  ASSUME NEW h \in Seq(Node), h # <<>>, IsTree(h), NEW sought \in DOMAIN h
  PROVE  LET next == ConfigNext(h, Root, sought).next
         IN  \/ next = NULL /\ Following(h, sought) = {}
             \/ /\ next \in DOMAIN h /\ next \notin Following(h, next)
                /\ Following(h, sought) = {next} \cup Following(h, next)
<1> DEFINE D == DOMAIN h
           Fresh(s) == ~s.found /\ s.next = NULL
           Done(s, rest) ==
             /\ s.found
             /\ \/ s.next = NULL /\ Following(h, sought) = rest
                \/ s.next \in D /\ Following(h, sought) = {s.next} \cup Following(h, s.next)
<1>0. Descends(h) /\ NULL \notin D /\ Root \in D
  BY TreeDescends, RootInHeap DEF NULL
<1>1. PICK find \in [D -> [Search -> Search]] :
        /\ \A r : ConfigNext(h, r, sought) = find[r][NothingFound]
        /\ \A n \in D : \A s \in Search : Visits(find, h, n, s, sought)
  BY <1>0, NextSteps
<1> DEFINE Right(n) == \A s \in Search : Fresh(s) =>
                         IF sought \in Subtree(h, n) THEN Done(find[n][s], After(h, n))
                         ELSE Fresh(find[n][s])
           S == {n \in D : Right(n)}
<1>2. ASSUME NEW n \in D, \A i \in DOMAIN h[n].children : h[n].children[i] \in S PROVE n \in S
  <2> DEFINE kids == h[n].children
             N == Len(kids)
             Rest(i) == After(h, n) \cup Behind(h, n, i)
             Before(i) == n = sought \/ \E j \in 1..i : sought \in Subtree(h, kids[j])
  <2>1. SUFFICES ASSUME NEW s \in Search, Fresh(s)
                 PROVE  IF sought \in Subtree(h, n) THEN Done(find[n][s], After(h, n))
                        ELSE Fresh(find[n][s])
    OBVIOUS
  <2>2. PICK F \in [0..N -> Search] :
          /\ F[0] = Compared(s, n, sought)
          /\ \A i \in 1..N : F[i] = find[kids[i]][F[i - 1]]
          /\ find[n][s] = F[N]
    BY <1>1, <2>1 DEF Visits
  <2>3. /\ N \in Nat /\ DOMAIN kids = 1..N
        /\ \A i \in 1..N : kids[i] \in D /\ Right(kids[i])
    BY <1>0, <1>2, ChildListType DEF Descends
  <2>4. /\ Following(h, n) = Rest(0)
        /\ Rest(N) = After(h, n)
        /\ \A i \in 1..N :
             After(h, kids[i]) = Rest(i) /\ Rest(i - 1) = {kids[i]} \cup Following(h, kids[i])
    BY BehindSteps
  <2> DEFINE Inv(i) == IF Before(i) THEN Done(F[i], Rest(i)) ELSE Fresh(F[i])
             I == {i \in Nat : i <= N => Inv(i)}
  <2>5. sought \in Subtree(h, n) <=> Before(N)
    BY <1>0, <2>3, SubtreeSteps
  <2> HIDE DEF N, kids, Rest, Right, Done
  <2>6. 0 \in I
    <3>1. F[0].found = (n = sought) /\ F[0].next = NULL
      BY <2>1, <2>2 DEF Compared, Search
    <3>2. Before(0) <=> n = sought
      OBVIOUS
    <3>3. n = sought => Done(F[0], Rest(0))
      BY <2>4, <3>1 DEF Done
    <3>4. QED
      BY <3>1, <3>2, <3>3
  <2>7. ASSUME NEW i \in Nat, i \in I PROVE i + 1 \in I
    <3> DEFINE k == i + 1
               c == kids[k]
               t == F[i]
    <3>1. SUFFICES ASSUME k <= N PROVE Inv(k)
      OBVIOUS
    <3>2. k \in 1..N /\ k - 1 = i /\ i <= N /\ i \in 0..N /\ 1..k = 1..i \cup {k}
      BY <2>3, <3>1
    <3> HIDE DEF k, Inv
    <3>3. F[k] = find[c][t] /\ t \in Search /\ c \in D /\ Right(c) /\ Inv(i)
      BY <2>2, <2>3, <2>7, <3>2
    <3>4. After(h, c) = Rest(k) /\ Rest(i) = {c} \cup Following(h, c)
      BY <2>4, <3>2
    <3>5. Before(k) <=> Before(i) \/ sought \in Subtree(h, c)
      BY <3>2
    <3> HIDE DEF Before, c, t
    <3>6. Visits(find, h, c, t, sought)
      BY <1>1, <3>3
    <3>7. CASE Before(i)
      <4>1. Done(t, Rest(i)) /\ Before(k)
        BY <3>3, <3>5, <3>7 DEF Inv, t
      <4>2. CASE t.next = NULL
        <5>1. F[k] = [t EXCEPT !.next = c, !.status = "OK"]
          BY <3>3, <3>6, <4>1, <4>2 DEF Visits, Done
        <5>2. F[k].found = t.found /\ F[k].next = c
          BY <3>3, <5>1 DEF Search
        <5>3. t.found /\ Following(h, sought) = Rest(i)
          BY <1>0, <4>1, <4>2 DEF Done
        <5>4. Done(F[k], Rest(k))
          BY <3>3, <3>4, <5>2, <5>3 DEF Done
        <5>5. QED
          BY <4>1, <5>4 DEF Inv
      <4>3. CASE t.next # NULL
        <5>1. F[k] = [t EXCEPT !.status = "ERROR"]
          BY <3>3, <3>6, <4>3 DEF Visits
        <5>2. F[k].found = t.found /\ F[k].next = t.next
          BY <3>3, <5>1 DEF Search
        <5>3. Done(F[k], Rest(k))
          BY <4>1, <4>3, <5>2 DEF Done
        <5>4. QED
          BY <4>1, <5>3 DEF Inv
      <4>4. QED
        BY <4>2, <4>3
    <3>8. CASE ~Before(i)
      <4>1. Fresh(t)
        BY <3>3, <3>8 DEF Inv, t
      <4>2. IF sought \in Subtree(h, c) THEN Done(F[k], Rest(k)) ELSE Fresh(F[k])
        BY <3>3, <3>4, <4>1 DEF Right
      <4>3. QED
        BY <3>5, <3>8, <4>2 DEF Inv
    <3>9. QED
      BY <3>7, <3>8
  <2>8. Inv(N)
    <3> HIDE DEF I
    <3>1. Nat \subseteq I
      BY <2>6, <2>7, NumberInduction
    <3>2. QED
      BY <2>3, <3>1 DEF I
  <2>9. QED
    BY <2>2, <2>4, <2>5, <2>8
<1>3. D \subseteq S
  <2> HIDE DEF S
  <2>1. QED
    BY <1>0, <1>2, DownInduction
<1> DEFINE r == find[Root][NothingFound]
<1>4. Done(r, {})
  <2>1. sought \in Subtree(h, Root) /\ After(h, Root) = {}
    BY <1>0, AllBelowRoot, AfterSteps
  <2>2. NothingFound \in Search /\ Fresh(NothingFound)
    BY DEF NothingFound, Search, NULL
  <2>3. Right(Root)
    BY <1>0, <1>3
  <2> HIDE DEF Fresh, Done
  <2>4. QED
    BY <2>1, <2>2, <2>3
<1>5. \A n \in D : n \notin Following(h, n)
  <2>1. \A n \in D : n \in Subtree(h, n) /\ Subtree(h, n) \cap After(h, n) = {}
    BY <1>0, SubtreeIsLater, AfterIsApart
  <2>2. QED
    BY <2>1, FollowingParts
<1>6. ConfigNext(h, Root, sought) = r
  BY <1>1
<1> HIDE DEF r
<1>7. QED
  BY <1>4, <1>5, <1>6

(* Everything but the root follows the root. *)
LEMMA RootIsFirst ==
  ASSUME NEW h \in Seq(Node), h # <<>>, IsTree(h)
  PROVE  Following(h, Root) = DOMAIN h \ {Root}
<1>1. After(h, Root) = {} /\ Subtree(h, Root) = DOMAIN h
  BY RootInHeap, AfterSteps, AllBelowRoot
<1>2. QED
  BY <1>1, FollowingParts

(* What follows a node is in the tree. *)
LEMMA FollowingType ==
  ASSUME NEW h \in Seq(Node), h # <<>>, IsTree(h), NEW n \in DOMAIN h
  PROVE  Following(h, n) \subseteq DOMAIN h
<1>1. Subtree(h, n) \subseteq DOMAIN h /\ After(h, n) \subseteq DOMAIN h
  BY TreeDescends, SubtreeSteps, AfterSteps
<1>2. QED
  BY <1>1, FollowingParts

-------------------------------------------------------------------------------
(***************************************************************************)
(* The paths of a tree and what they hold, and how samconfInsertAt adds to *)
(* them.                                                                   *)
(***************************************************************************)

(* A child found by its key is a child, with that key. *)
LEMMA ChildIsBelow ==
  ASSUME NEW h \in Seq(Node), h # <<>>, IsTree(h), NEW n \in DOMAIN h, NEW key,
         ChildNamed(h, n, key) # NULL
  PROVE  LET c == ChildNamed(h, n, key)
         IN  c \in DOMAIN h /\ c # Root /\ h[c].parent = n /\ h[c].key = key
<1>1. Closed(h) /\ n # NULL
  BY TreeIsClosed DEF NULL
<1>2. PICK i : FirstNamed(h, n, key, i) /\ ChildNamed(h, n, key) = h[n].children[i]
  BY <1>1, ChildNamedIsFirst
<1>3. i \in DOMAIN h[n].children /\ h[h[n].children[i]].key = key
  BY <1>2 DEF FirstNamed
<1>4. h[n].children[i] \in DOMAIN h /\ h[h[n].children[i]].parent = n /\ h[Root].parent = NULL
  BY <1>3 DEF IsTree
<1>5. QED
  BY <1>1, <1>2, <1>3, <1>4

(* The beginning of a path, one segment longer. *)
LEMMA NextPrefix ==
  ASSUME NEW S, NEW path \in Seq(S), NEW k \in Nat, k + 1 <= Len(path)
  PROVE  /\ SubSeq(path, 1, k) \in Seq(S) /\ Len(SubSeq(path, 1, k)) = k
         /\ SubSeq(path, 1, k + 1) = Append(SubSeq(path, 1, k), path[k + 1])
  OBVIOUS

(* A node that a path leads to has that path. *)
LEMMA ReachedHasPath ==
  ASSUME NEW h \in Seq(Node), h # <<>>, IsTree(h), NEW S, NEW path \in Seq(S), NEW k \in 0..Len(path),
         Reach(h, Root, SubSeq(path, 1, k)) # NULL
  PROVE  LET n == Reach(h, Root, SubSeq(path, 1, k))
         IN  n \in DOMAIN h /\ FullPath(h, n) = SubSeq(path, 1, k) /\ (k # 0 => n # Root)
<1> DEFINE H(j) == Reach(h, Root, SubSeq(path, 1, j))
           P(j) == SubSeq(path, 1, j)
           T == {j \in Nat : j <= Len(path) /\ H(j) # NULL =>
                   H(j) \in DOMAIN h /\ FullPath(h, H(j)) = P(j) /\ (j # 0 => H(j) # Root)}
<1>1. Len(path) \in Nat /\ Root \in DOMAIN h /\ Closed(h) /\ k \in Nat /\ k <= Len(path)
  BY RootInHeap, TreeIsClosed
<1>2. /\ H(0) = Root
      /\ \A j \in 0..Len(path) : H(j) \in DOMAIN h \cup {NULL}
      /\ \A j \in 1..Len(path) : H(j) = IF H(j - 1) = NULL THEN NULL ELSE ChildNamed(h, H(j - 1), path[j])
  BY <1>1, ReachSteps
<1>3. P(0) = <<>> /\ \A j \in Nat : j + 1 <= Len(path) => P(j + 1) = Append(P(j), path[j + 1])
  BY <1>1, NextPrefix
<1> HIDE DEF H, P
<1>4. 0 \in T
  <2>1. FullPath(h, Root) = <<>>
    BY <1>1, FullPathSteps
  <2>2. QED
    BY <1>1, <1>2, <1>3, <2>1
<1>5. ASSUME NEW j \in Nat, j \in T PROVE j + 1 \in T
  <2>1. SUFFICES ASSUME j + 1 <= Len(path), H(j + 1) # NULL
                 PROVE  /\ H(j + 1) \in DOMAIN h /\ FullPath(h, H(j + 1)) = P(j + 1)
                        /\ H(j + 1) # Root
    OBVIOUS
  <2>2. j \in 0..Len(path) /\ j + 1 \in 1..Len(path) /\ (j + 1) - 1 = j
    BY <1>1, <2>1
  <2>3. H(j) # NULL /\ H(j) \in DOMAIN h /\ H(j + 1) = ChildNamed(h, H(j), path[j + 1])
    BY <1>2, <2>1, <2>2
  <2>4. FullPath(h, H(j)) = P(j)
    BY <1>5, <2>2, <2>3
  <2> DEFINE c == ChildNamed(h, H(j), path[j + 1])
  <2>5. c \in DOMAIN h /\ c # Root /\ h[c].parent = H(j) /\ h[c].key = path[j + 1]
    BY <2>1, <2>3, ChildIsBelow
  <2> HIDE DEF c
  <2>6. FullPath(h, c) = Append(FullPath(h, h[c].parent), h[c].key)
    BY <2>5, FullPathSteps
  <2>7. QED
    BY <1>3, <2>1, <2>3, <2>4, <2>5, <2>6 DEF c
<1>6. Nat \subseteq T
  <2> HIDE DEF T
  <2>1. QED
    BY <1>4, <1>5, NumberInduction
<1>7. QED
  BY <1>1, <1>6 DEF H, P

(* Where no two siblings share a key the path of a node leads to it. *)
LEMMA PathLeadsBack ==
  ASSUME NEW h \in Seq(Node), h # <<>>, IsTree(h), HasUniqueKeys(h)
  PROVE  \A n \in DOMAIN h : Reach(h, Root, FullPath(h, n)) = n
<1> DEFINE D == DOMAIN h
           T == {n \in D : Reach(h, Root, FullPath(h, n)) = n}
           rank == [n \in D |-> n]
<1>1. Root \in D /\ Closed(h) /\ rank \in [D -> Nat]
  BY RootInHeap, TreeIsClosed
<1>2. ASSUME NEW n \in D, \A m \in D : rank[m] < rank[n] => m \in T PROVE n \in T
  <2>1. /\ FullPath(h, n) \in Seq(Keys \cup {NoKey})
        /\ FullPath(h, n) = IF n = Root THEN <<>> ELSE Append(FullPath(h, h[n].parent), h[n].key)
    BY FullPathSteps
  <2> DEFINE path == FullPath(h, n)
             N == Len(path)
             H(k) == Reach(h, Root, SubSeq(path, 1, k))
  <2>2. /\ H(0) = Root /\ Reach(h, Root, path) = H(N) /\ N \in Nat
        /\ \A k \in 1..N : H(k) = IF H(k - 1) = NULL THEN NULL ELSE ChildNamed(h, H(k - 1), path[k])
    <3>1. path \in Seq(Keys \cup {NoKey})
      BY <2>1
    <3> HIDE DEF path
    <3>2. QED
      BY <1>1, <3>1, ReachSteps
  <2>3. CASE n = Root
    <3>1. path = <<>>
      BY <2>1, <2>3
    <3> HIDE DEF H, path
    <3>2. N = 0
      BY <3>1
    <3>3. Reach(h, Root, path) = n
      BY <2>2, <2>3, <3>2
    <3>4. QED
      BY <3>3 DEF path
  <2>4. CASE n # Root
    <3> DEFINE p == h[n].parent
               up == FullPath(h, p)
               key == h[n].key
    <3>1. p \in D /\ p < n /\ \E i \in DOMAIN h[p].children : h[p].children[i] = n
      <4>1. p \in 1..(n - 1) /\ \E i \in DOMAIN h[p].children : h[p].children[i] = n
        BY <2>4 DEF IsTree
      <4>2. D = 1..Len(h) /\ Len(h) \in Nat
        OBVIOUS
      <4> HIDE DEF p
      <4>3. QED
        BY <4>1, <4>2
    <3>2. p \in T
      BY <1>2, <3>1
    <3>3. Reach(h, Root, up) = p /\ up \in Seq(Keys \cup {NoKey})
      BY <3>1, <3>2, FullPathSteps
    <3>4. path = Append(up, key)
      BY <2>1, <2>4
    <3>5. N = Len(up) + 1 /\ path[N] = key /\ SubSeq(path, 1, N - 1) = up /\ N \in 1..N
      <4> HIDE DEF up, path
      <4>1. QED
        BY <3>3, <3>4
    <3>6. H(N - 1) = p
      BY <3>3, <3>5
    <3>7. ChildNamed(h, p, key) = n
      <4>1. PICK i \in DOMAIN h[p].children : h[p].children[i] = n
        BY <3>1
      <4>2. h[h[p].children[i]].key = key
        BY <4>1
      <4> HIDE DEF p, key
      <4>3. PICK j : FirstNamed(h, p, key, j) /\ ChildNamed(h, p, key) = h[p].children[j]
        BY <1>1, <3>1, <4>2, ChildNamedIsFirst
      <4>4. j \in DOMAIN h[p].children /\ h[h[p].children[j]].key = key
        BY <4>3 DEF FirstNamed
      <4>5. i = j
        BY <3>1, <4>2, <4>4 DEF HasUniqueKeys
      <4>6. QED
        BY <4>1, <4>3, <4>5
    <3>8. p # NULL
      BY <3>1 DEF NULL
    <3> HIDE DEF H, p, key, up, N
    <3>9. H(N) = n
      BY <2>2, <3>5, <3>6, <3>7, <3>8
    <3>10. QED
      BY <2>2, <3>9
  <2>5. QED
    BY <2>3, <2>4
<1>3. D \subseteq T
  <2> HIDE DEF D, T, rank
  <2>1. QED
    BY <1>1, <1>2, RankInduction
<1>4. QED
  BY <1>3

(* Every node a tree had keeps its path when a leaf is linked, and the leaf   *)
(* has that of its parent with its key behind it.                            *)
LEMMA GrownPaths ==
  ASSUME NEW h \in Seq(Node), h # <<>>, IsTree(h), NEW p \in DOMAIN h, NEW node \in Node,
         NEW g \in Seq(Node), IsTree(g), Extends(g, h, p, node)
  PROVE  /\ \A n \in DOMAIN h : FullPath(g, n) = FullPath(h, n)
         /\ FullPath(g, Len(h) + 1) = Append(FullPath(h, p), node.key)
<1> DEFINE D == DOMAIN h
           T == {n \in D : FullPath(g, n) = FullPath(h, n)}
           rank == [n \in D |-> n]
           new == Len(h) + 1
<1>1. /\ DOMAIN g = D \cup {new} /\ g # <<>> /\ new # Root /\ D = 1..Len(h) /\ Len(h) \in Nat
      /\ g[new].parent = p /\ g[new].key = node.key
      /\ \A n \in D : g[n].parent = h[n].parent /\ g[n].key = h[n].key
  <2>1. /\ DOMAIN g = D \cup {new} /\ g[new].parent = p /\ g[p].parent = h[p].parent
        /\ \A n \in D \ {p} : g[n] = h[n]
        /\ Data(g[new]) = Data(node) /\ \A n \in D : Data(g[n]) = Data(h[n])
    BY DEF Extends
  <2>2. Root \in D /\ Len(h) \in Nat /\ D = 1..Len(h)
    BY RootInHeap
  <2> HIDE DEF new
  <2>3. g # <<>>
    BY <2>1, <2>2
  <2>4. new # Root
    BY <2>2 DEF new
  <2>5. g[new].key = node.key /\ \A n \in D : g[n].key = h[n].key
    BY <2>1 DEF Data
  <2>6. QED
    BY <2>1, <2>2, <2>3, <2>4, <2>5
<1>2. rank \in [D -> Nat]
  BY <1>1
<1>3. \A n \in DOMAIN g : FullPath(g, n) = IF n = Root THEN <<>> ELSE Append(FullPath(g, g[n].parent), g[n].key)
  BY <1>1, FullPathSteps
<1>4. \A n \in D : FullPath(h, n) = IF n = Root THEN <<>> ELSE Append(FullPath(h, h[n].parent), h[n].key)
  BY FullPathSteps
<1>5. \A n \in D : n # Root => h[n].parent \in D /\ h[n].parent < n
  <2>1. \A n \in D : n # Root => h[n].parent \in 1..(n - 1)
    BY DEF IsTree
  <2>2. QED
    BY <1>1, <2>1
<1>6. ASSUME NEW n \in D, \A m \in D : rank[m] < rank[n] => m \in T PROVE n \in T
  <2>1. n # Root => FullPath(g, h[n].parent) = FullPath(h, h[n].parent)
    BY <1>5, <1>6
  <2>2. n \in D /\ n \in DOMAIN g /\ g[n].parent = h[n].parent /\ g[n].key = h[n].key
    BY <1>1
  <2> HIDE DEF D, rank
  <2>3. FullPath(g, n) = FullPath(h, n)
    BY <1>3, <1>4, <2>1, <2>2
  <2>4. QED
    BY <2>2, <2>3
<1>7. D \subseteq T
  <2> HIDE DEF D, T, rank
  <2>1. QED
    BY <1>2, <1>6, RankInduction
<1>8. QED
  BY <1>1, <1>3, <1>7

-------------------------------------------------------------------------------
(* What a tree says: the paths there are, and the options with their paths. *)
PathsIn(h) == {FullPath(h, n) : n \in DOMAIN h \ {Root}}
Holding(node) == [type |-> node.type, value |-> node.value]
OptionsIn(h) ==
  {<<FullPath(h, n), Holding(h[n])>> : n \in {m \in DOMAIN h : h[m].type \in ScalarTypes}}

(* A path is in the tree if samconfConfigGet finds it. *)
LEMMA PathIsFound ==
  ASSUME NEW h \in Seq(Node), h # <<>>, IsTree(h), HasUniqueKeys(h), NEW path \in Path
  PROVE  path \in PathsIn(h) <=> Reach(h, Root, path) # NULL
<1>1. path \in Seq(Keys) /\ Len(path) \in Nat \ {0} /\ path = SubSeq(path, 1, Len(path))
  BY DEF Path
<1>2. ASSUME path \in PathsIn(h) PROVE Reach(h, Root, path) # NULL
  <2>1. PICK n \in DOMAIN h : path = FullPath(h, n)
    BY <1>2 DEF PathsIn
  <2>2. Reach(h, Root, path) = n /\ n # NULL
    BY <2>1, PathLeadsBack DEF NULL
  <2>3. QED
    BY <2>2
<1>3. ASSUME Reach(h, Root, path) # NULL PROVE path \in PathsIn(h)
  <2> DEFINE k == Len(path)
             prefix == SubSeq(path, 1, k)
             n == Reach(h, Root, prefix)
  <2>1. k \in 0..Len(path) /\ k # 0 /\ n # NULL
    <3>1. k \in 0..Len(path) /\ k # 0 /\ path = prefix
      BY <1>1
    <3> HIDE DEF prefix
    <3>2. QED
      BY <1>3, <3>1
  <2>2. n \in DOMAIN h /\ FullPath(h, n) = SubSeq(path, 1, k) /\ n # Root
    BY <1>1, <2>1, ReachedHasPath
  <2> HIDE DEF n
  <2>3. QED
    BY <1>1, <2>2 DEF PathsIn
<1>4. QED
  BY <1>2, <1>3

SeesLeaf(g, h, node, path) ==
  /\ PathsIn(g) = PathsIn(h) \cup {path}
  /\ OptionsIn(g) = OptionsIn(h) \cup
       (IF node.type \in ScalarTypes THEN {<<path, Holding(node)>>} ELSE {})

(* A leaf adds its path and, if it is an option, what it holds. *)
LEMMA LeafIsSeen ==
  ASSUME NEW h \in Seq(Node), h # <<>>, IsTree(h), NEW p \in DOMAIN h, NEW node \in Node,
         NEW g \in Seq(Node), IsTree(g), Extends(g, h, p, node)
  PROVE  SeesLeaf(g, h, node, Append(FullPath(h, p), node.key))
<1> DEFINE path == Append(FullPath(h, p), node.key)
           new == Len(h) + 1
<1>1. /\ DOMAIN g = DOMAIN h \cup {new}
      /\ Data(g[new]) = Data(node) /\ \A n \in DOMAIN h : Data(g[n]) = Data(h[n])
  BY DEF Extends
<1>2. (\A n \in DOMAIN h : FullPath(g, n) = FullPath(h, n)) /\ FullPath(g, new) = path
  BY GrownPaths
<1>3. Root \in DOMAIN h /\ new \notin DOMAIN h
  BY RootInHeap
<1>4. /\ g[new].type = node.type /\ Holding(g[new]) = Holding(node)
      /\ \A n \in DOMAIN h : g[n].type = h[n].type /\ Holding(g[n]) = Holding(h[n])
  BY <1>1 DEF Data, Holding
<1> HIDE DEF path, new
<1>5. PathsIn(g) = PathsIn(h) \cup {path}
  BY <1>1, <1>2, <1>3 DEF PathsIn
<1>6. OptionsIn(g) = OptionsIn(h) \cup (IF node.type \in ScalarTypes THEN {<<path, Holding(node)>>} ELSE {})
  BY <1>1, <1>2, <1>4 DEF OptionsIn
<1>7. QED
  BY <1>5, <1>6 DEF path, SeesLeaf

(* The first k beginnings of a path that are not empty. *)
Beginnings(path, k) == {SubSeq(path, 1, j) : j \in 1..k}

TreeSays(h, paths, options) == PathsIn(h) = paths /\ OptionsIn(h) = options

(* The beginnings of a path, one more of them. *)
LEMMA MorePrefixes ==
  ASSUME NEW path \in Path, NEW k \in 1..Len(path)
  PROVE  /\ Beginnings(path, k) = Beginnings(path, k - 1) \cup {SubSeq(path, 1, k)}
         /\ SubSeq(path, 1, k) \in Path /\ SubSeq(path, 1, k) \notin Beginnings(path, k - 1)
         /\ Beginnings(path, 0) = {}
<1>1. path \in Seq(Keys) /\ Len(path) \in Nat /\ k \in Nat \ {0} /\ k <= Len(path)
  BY DEF Path
<1>2. 1..k = (1..(k - 1)) \cup {k} /\ 1..0 = {}
  BY <1>1
<1>3. \A j \in 1..k : SubSeq(path, 1, j) \in Seq(Keys) /\ Len(SubSeq(path, 1, j)) = j
  <2>1. SUFFICES ASSUME NEW j \in 1..k
                 PROVE  SubSeq(path, 1, j) \in Seq(Keys) /\ Len(SubSeq(path, 1, j)) = j
    OBVIOUS
  <2>2. j \in Nat /\ j <= Len(path) /\ j >= 1
    BY <1>1
  <2>3. QED
    BY <1>1, <2>2
<1>4. \A j \in 1..(k - 1) : SubSeq(path, 1, j) # SubSeq(path, 1, k)
  <2>1. \A j \in 1..(k - 1) : j \in 1..k /\ j # k
    BY <1>1
  <2>2. k \in 1..k
    BY <1>1
  <2>3. QED
    BY <1>3, <2>1, <2>2
<1>5. SubSeq(path, 1, k) \in Path
  <2>1. k \in 1..k
    BY <1>1
  <2> DEFINE s == SubSeq(path, 1, k)
  <2>2. s \in Seq(Keys) /\ Len(s) = k
    BY <1>3, <2>1
  <2> HIDE DEF s
  <2>3. Len(<<>>) = 0
    OBVIOUS
  <2>4. s # <<>>
    BY <1>1, <2>2, <2>3
  <2>5. QED
    BY <2>2, <2>4 DEF Path, s
<1>6. QED
  BY <1>2, <1>4, <1>5 DEF Beginnings

(* The node is linked below the parent, named after the segment, and the     *)
(* path up to the segment, which was not there, leads to it.                 *)
LinksHere(node) ==
  LET here == SubSeq(ins.path, 1, ins.seg)
  IN  /\ node \in Node /\ node.key = ins.path[ins.seg]
      /\ Extends(heap', heap, ins.parent, node)
      /\ Append(FullPath(heap, ins.parent), node.key) = here /\ here \notin PathsIn(heap)

(* A round of samconfInsertAt that links a node links it there. *)
LEMMA LinkIsHere ==
  ASSUME InsertTypeOK, InsertsLeaf, IsTree(heap), HasUniqueKeys(heap), OnPath, NamedByPath,
         InsertLink
  PROVE  /\ \E key \in Keys : LinksHere(LinkedNode(key))
         /\ heap' \in Seq(Node) /\ IsTree(heap')
<1> DEFINE path == ins.path
           seg == ins.seg
           p == ins.parent
           here == SubSeq(path, 1, seg)
<1>1. ins.status = "RUN"
  BY DEF InsertLink
<1>2. /\ heap \in Seq(Node) /\ heap # <<>> /\ Closed(heap) /\ Root \in DOMAIN heap
      /\ ins \in Insert /\ p \in DOMAIN heap /\ path \in Seq(Keys)
      /\ seg \in 1..Len(path) /\ p = Reach(heap, Root, SubSeq(path, 1, seg - 1))
  BY <1>1, TreeIsClosed, RootInHeap DEF InsertTypeOK, OnPath, Insert
<1>3. /\ p # NULL /\ seg - 1 \in 0..Len(path) /\ Len(path) \in Nat /\ seg \in Nat
      /\ path \in Path
  BY <1>2 DEF NULL, Path
<1>4. here \in Path
  BY <1>2, <1>3, MorePrefixes
<1>5. PICK key \in Keys :
        /\ key = path[seg]
        /\ LinkedNode(key) \in Node /\ LinkedNode(key).children = <<>>
        /\ heap' = ConfigAdd(heap, p, LinkedNode(key))
        /\ Extends(heap', heap, p, LinkedNode(key))
  BY LinkExtends
<1> DEFINE node == LinkedNode(key)
<1>6. node.key = path[seg]
  <2>1. CASE LastSegment
    <3>1. node = ins.node /\ Last(path) = path[seg]
      BY <2>1 DEF LinkedNode, LastSegment, Last
    <3>2. QED
      BY <3>1 DEF NamedByPath
  <2>2. CASE ~LastSegment
    BY <1>5, <2>2 DEF LinkedNode, Intermediate, ConfigNew
  <2>3. QED
    BY <2>1, <2>2
<1>7. IsTree(heap') /\ heap' \in Seq(Node)
  <2>1. IsTree(heap')
    BY <1>2, <1>5, AddKeepsTree
  <2>2. QED
    BY <1>5, <2>1 DEF Extends
<1>8. FullPath(heap, p) = SubSeq(path, 1, seg - 1)
  BY <1>2, <1>3, ReachedHasPath
<1>9. Append(FullPath(heap, p), node.key) = here
  <2>1. seg - 1 \in Nat /\ (seg - 1) + 1 = seg /\ (seg - 1) + 1 <= Len(path)
    BY <1>2, <1>3
  <2>2. SubSeq(path, 1, (seg - 1) + 1) = Append(SubSeq(path, 1, seg - 1), path[(seg - 1) + 1])
    BY <1>2, <2>1, NextPrefix
  <2>3. QED
    BY <1>6, <1>8, <2>1, <2>2
<1>10. here \notin PathsIn(heap)
  <2>1. ChildNamed(heap, p, path[seg]) = NULL
    BY <1>1, LookupIsChild DEF InsertLink
  <2>2. Reach(heap, Root, here) = ChildNamed(heap, p, path[seg])
    <3> DEFINE up == Reach(heap, Root, SubSeq(path, 1, seg - 1))
    <3>1. Reach(heap, Root, here) = IF up = NULL THEN NULL ELSE ChildNamed(heap, up, path[seg])
      BY <1>2, ReachSteps
    <3>2. QED
      BY <1>2, <1>3, <3>1
  <2> HIDE DEF here
  <2>3. QED
    BY <1>2, <1>4, <2>1, <2>2, PathIsFound
<1> HIDE DEF node
<1>11. LinksHere(node)
  BY <1>5, <1>6, <1>9, <1>10 DEF LinksHere, node
<1>12. QED
  BY <1>7, <1>11 DEF node

(* A round of samconfInsertAt adds the path up to its segment, if it was not  *)
(* there, and the last one the option, if its path was not there.            *)
LEMMA RoundIsSeen ==
  ASSUME InsertTypeOK, InsertsLeaf, IsTree(heap), HasUniqueKeys(heap), OnPath, NamedByPath,
         ins.node.type \in ScalarTypes, InsertDescend \/ InsertLink, NEW paths, NEW options,
         TreeSays(heap, paths \cup Beginnings(ins.path, ins.seg - 1), options)
  PROVE  /\ ins'.status = "RUN" =>
              TreeSays(heap', paths \cup Beginnings(ins.path, ins'.seg - 1), options)
         /\ ins'.status = "OK" =>
              TreeSays(heap', paths \cup Beginnings(ins.path, Len(ins.path)),
                       options \cup (IF ins.path \in paths THEN {}
                                     ELSE {<<ins.path, Holding(ins.node)>>}))
<1> DEFINE path == ins.path
           seg == ins.seg
           p == ins.parent
           here == SubSeq(path, 1, seg)
           all == paths \cup Beginnings(path, seg)
<1>1. ins.status = "RUN"
  BY DEF InsertDescend, InsertLink
<1>2. /\ heap \in Seq(Node) /\ heap # <<>> /\ Closed(heap) /\ Root \in DOMAIN heap
      /\ ins \in Insert /\ p \in DOMAIN heap /\ path \in Seq(Keys)
      /\ seg \in 1..Len(path) /\ p = Reach(heap, Root, SubSeq(path, 1, seg - 1))
  BY <1>1, TreeIsClosed, RootInHeap DEF InsertTypeOK, OnPath, Insert
<1>3. /\ p # NULL /\ seg - 1 \in 0..Len(path) /\ Len(path) \in Nat /\ seg \in Nat
      /\ path \in Path /\ (seg + 1) - 1 = seg
  BY <1>2 DEF NULL, Path
<1>4. /\ Beginnings(path, seg) = Beginnings(path, seg - 1) \cup {here}
      /\ here \in Path /\ here \notin Beginnings(path, seg - 1)
  BY <1>2, <1>3, MorePrefixes
<1>5. LastSegment => seg = Len(path) /\ here = path
  BY <1>2, <1>3 DEF LastSegment
<1>6. PathsIn(heap) \cup {here} = all /\ OptionsIn(heap) = options
  BY <1>4 DEF TreeSays
<1>7. here \in PathsIn(heap) <=> Reach(heap, Root, here) # NULL
  BY <1>2, <1>4, PathIsFound
<1>8. here \in PathsIn(heap) <=> here \in paths
  BY <1>4 DEF TreeSays
<1>9. \A q \in Nat :
        /\ GoDown(q).seg = seg + 1 /\ GoDown(q).status = "RUN" /\ Linked(q).status = "OK"
  BY <1>1, <1>2 DEF GoDown, Linked, Insert
<1>10. CASE InsertDescend
  <2>1. Lookup.status = "OK" /\ Lookup.node \in DOMAIN heap /\ Lookup.node \in Nat \ {0} /\ heap' = heap
    BY <1>2, <1>10 DEF InsertDescend
  <2>2. Lookup.node = Reach(heap, Root, here)
    BY <1>1, <2>1, LookupIsChild
  <2>3. here \in PathsIn(heap)
    BY <1>7, <2>1, <2>2 DEF NULL
  <2>4. PathsIn(heap') = all /\ OptionsIn(heap') = options
    BY <1>6, <2>1, <2>3
  <2>5. CASE LastSegment
    <3>1. ins' = [ins EXCEPT !.status = "OK"]
      BY <1>10, <2>5 DEF InsertDescend
    <3>2. ins'.status = "OK"
      BY <1>2, <3>1 DEF Insert
    <3>3. QED
      BY <1>5, <1>8, <2>3, <2>4, <2>5, <3>2 DEF TreeSays
  <2>6. CASE ~LastSegment
    <3>1. ins' = GoDown(Lookup.node)
      BY <1>10, <2>6 DEF InsertDescend
    <3>2. ins'.seg = seg + 1 /\ ins'.status = "RUN"
      BY <1>9, <2>1, <3>1
    <3>3. QED
      BY <1>3, <2>4, <3>2 DEF TreeSays
  <2>7. QED
    BY <2>5, <2>6
<1>11. CASE InsertLink
  <2>1. PICK key \in Keys : LinksHere(LinkedNode(key))
    BY <1>2, <1>11, LinkIsHere
  <2> DEFINE node == LinkedNode(key)
             new == Len(heap) + 1
  <2>2. /\ node \in Node /\ Extends(heap', heap, p, node)
        /\ Append(FullPath(heap, p), node.key) = here /\ here \notin PathsIn(heap)
    BY <2>1 DEF LinksHere
  <2>3. IsTree(heap') /\ heap' \in Seq(Node) /\ new \in Nat
    <3>1. new \in Nat
      BY <1>2
    <3>2. QED
      BY <1>2, <1>11, <3>1, LinkIsHere
  <2>4. here \notin paths
    BY <1>8, <2>2
  <2>5. /\ PathsIn(heap') = all
        /\ OptionsIn(heap') = options \cup
             (IF node.type \in ScalarTypes THEN {<<here, Holding(node)>>} ELSE {})
    <3> HIDE DEF node, here, all, p
    <3>1. SeesLeaf(heap', heap, node, here)
      BY <1>2, <2>2, <2>3, LeafIsSeen
    <3>2. QED
      BY <1>6, <3>1 DEF SeesLeaf
  <2>6. CASE LastSegment
    <3>1. ins' = Linked(new) /\ node = ins.node
      BY <1>11, <2>6 DEF InsertLink, LinkedNode
    <3>2. ins'.status = "OK"
      BY <1>9, <2>3, <3>1
    <3>3. QED
      BY <1>5, <2>4, <2>5, <2>6, <3>1, <3>2 DEF TreeSays
  <2>7. CASE ~LastSegment
    <3>1. ins' = GoDown(new) /\ node = Intermediate(key)
      BY <1>11, <2>7 DEF InsertLink, LinkedNode
    <3>2. ins'.seg = seg + 1 /\ ins'.status = "RUN"
      BY <1>9, <2>3, <3>1
    <3>3. node.type \notin ScalarTypes
      BY <3>1 DEF Intermediate, ConfigNew, ScalarTypes
    <3>4. QED
      BY <1>3, <2>5, <3>2, <3>3 DEF TreeSays
  <2>8. QED
    BY <2>6, <2>7
<1>12. QED
  BY <1>10, <1>11
===============================================================================

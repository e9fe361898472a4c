---------------------------- MODULE BackendsProofs -----------------------------
(***************************************************************************)
(* Proofs about the JSON and the environment backend, for all documents,   *)
(* environments, keys and values and any number of failures: what a        *)
(* backend returns with OK is a tree, and the whole document; no node is   *)
(* lost or freed twice; only failures spoil a load; each step is one of    *)
(* samconfLoad; and the order of environ decides which variable wins.      *)
(***************************************************************************)
EXTENDS Backends, WalkProofs, FiniteSetTheorems

(***************************************************************************)
(* Trees in the making.                                                    *)
(***************************************************************************)

(* A leaf that is not linked joins a forest at the end. *)
LEMMA LeafJoins ==
  ASSUME NEW h \in Seq(Node), NEW node \in Node, node.children = <<>>
  PROVE  LET g == Append(h, node)
         IN  /\ g \in Seq(Node) /\ Len(g) = Len(h) + 1 /\ DOMAIN g = DOMAIN h \cup {Len(h) + 1}
             /\ g[Len(h) + 1] = node /\ \A n \in DOMAIN h : g[n] = h[n]
             /\ Descends(h) => Descends(g)
             /\ Forest(h) /\ node.parent = NULL =>
                  Forest(g) /\ Tops(g) = Tops(h) \cup {Len(h) + 1}
<1> DEFINE g == Append(h, node)
           new == Len(h) + 1
<1>1. /\ g \in Seq(Node) /\ Len(g) = new /\ DOMAIN g = DOMAIN h \cup {new}
      /\ g[new] = node /\ \A n \in DOMAIN h : g[n] = h[n] /\ n # new
  OBVIOUS
<1> HIDE DEF g, new
<1>2. DOMAIN node.children = {}
  OBVIOUS
<1>3. ASSUME Descends(h) PROVE Descends(g)
  BY <1>1, <1>2, <1>3 DEF Descends
<1>4. ASSUME Forest(h), node.parent = NULL
      PROVE  Forest(g) /\ Tops(g) = Tops(h) \cup {new}
  <2>1. Tops(g) = Tops(h) \cup {new}
    BY <1>1, <1>4 DEF Tops
  <2>2. \A n \in DOMAIN g : g[n].parent # NULL =>
          /\ g[n].parent \in DOMAIN g
          /\ \E i \in DOMAIN g[g[n].parent].children : g[g[n].parent].children[i] = n
    <3>1. SUFFICES ASSUME NEW n \in DOMAIN g, g[n].parent # NULL
                   PROVE  /\ g[n].parent \in DOMAIN g
                          /\ \E i \in DOMAIN g[g[n].parent].children : g[g[n].parent].children[i] = n
      OBVIOUS
    <3>2. n \in DOMAIN h /\ g[n] = h[n]
      BY <1>1, <1>4, <3>1
    <3>3. /\ h[n].parent \in DOMAIN h
          /\ \E i \in DOMAIN h[h[n].parent].children : h[h[n].parent].children[i] = n
      BY <1>4, <3>1, <3>2 DEF Forest
    <3>4. QED
      BY <1>1, <3>2, <3>3
  <2>3. \A n \in DOMAIN g : \A i, j \in DOMAIN g[n].children :
          /\ g[g[n].children[i]].parent = n
          /\ g[n].children[i] = g[n].children[j] => i = j
    <3>1. SUFFICES ASSUME NEW n \in DOMAIN g, NEW i \in DOMAIN g[n].children,
                          NEW j \in DOMAIN g[n].children
                   PROVE  /\ g[g[n].children[i]].parent = n
                          /\ g[n].children[i] = g[n].children[j] => i = j
      OBVIOUS
    <3>2. n \in DOMAIN h /\ g[n] = h[n]
      BY <1>1, <1>2, <3>1
    <3>3. h[n].children[i] \in DOMAIN h
      BY <1>4, <3>2 DEF Forest, Descends
    <3>4. QED
      BY <1>1, <1>4, <3>2, <3>3 DEF Forest
  <2>4. QED
    BY <1>3, <1>4, <2>1, <2>2, <2>3 DEF Forest
<1>5. QED
  BY <1>1, <1>3, <1>4 DEF g, new

(* The heap g is h with n linked below p as its last child. *)
Joins(g, h, p, n) ==
  /\ g \in Seq(Node) /\ DOMAIN g = DOMAIN h
  /\ g[p].parent = h[p].parent /\ g[p].children = Append(h[p].children, n)
  /\ g[n].parent = p /\ g[n].children = h[n].children
  /\ \A m \in DOMAIN h \ {p, n} : Links(g[m]) = Links(h[m])

(* A node that is linked below an earlier one leaves the heap a forest. *)
LEMMA NodeJoins ==
  ASSUME NEW h \in Seq(Node), NEW p \in DOMAIN h, NEW n \in DOMAIN h, p < n,
         NEW g, Joins(g, h, p, n)
  PROVE  /\ Descends(h) => Descends(g)
         /\ Forest(h) /\ n \in Tops(h) => Forest(g) /\ Tops(g) = Tops(h) \ {n}
<1> DEFINE K == Len(h[p].children)
<1>1. /\ h[p].children \in Seq(Nat) /\ K \in Nat /\ DOMAIN h[p].children = 1..K
      /\ p \in Nat /\ n \in Nat /\ p # n /\ p # NULL
  BY ChildListType DEF NULL
<1>2. /\ DOMAIN g[p].children = DOMAIN h[p].children \cup {K + 1} /\ K + 1 \notin DOMAIN h[p].children
      /\ g[p].children[K + 1] = n
      /\ \A i \in DOMAIN h[p].children : g[p].children[i] = h[p].children[i]
  BY <1>1 DEF Joins
<1> HIDE DEF K
<1>3. /\ DOMAIN g = DOMAIN h /\ g[n].children = h[n].children /\ g[n].parent = p
      /\ \A m \in DOMAIN h \ {p} : g[m].children = h[m].children
      /\ \A m \in DOMAIN h \ {n} : g[m].parent = h[m].parent
  BY <1>1 DEF Joins, Links
<1>4. ASSUME Descends(h) PROVE Descends(g)
  BY <1>1, <1>2, <1>3, <1>4 DEF Descends
<1>5. ASSUME Forest(h), n \in Tops(h) PROVE Forest(g) /\ Tops(g) = Tops(h) \ {n}
  <2>1. h[n].parent = NULL /\ \A m \in DOMAIN h : \A i \in DOMAIN h[m].children : h[m].children[i] # n
    <3>1. h[n].parent = NULL /\ NULL \notin DOMAIN h
      BY <1>5 DEF Tops, NULL
    <3>2. QED
      BY <1>5, <3>1 DEF Forest
  <2>2. Tops(g) = Tops(h) \ {n}
    BY <1>1, <1>3 DEF Tops
  <2>3. \A m \in DOMAIN g : g[m].parent # NULL =>
          /\ g[m].parent \in DOMAIN g
          /\ \E i \in DOMAIN g[g[m].parent].children : g[g[m].parent].children[i] = m
    <3>1. SUFFICES ASSUME NEW m \in DOMAIN g, g[m].parent # NULL
                   PROVE  /\ g[m].parent \in DOMAIN g
                          /\ \E i \in DOMAIN g[g[m].parent].children : g[g[m].parent].children[i] = m
      OBVIOUS
    <3>2. CASE m = n
      BY <1>2, <1>3, <3>2
    <3>3. CASE m # n
      <4>1. /\ g[m].parent = h[m].parent /\ h[m].parent \in DOMAIN h
            /\ \E i \in DOMAIN h[h[m].parent].children : h[h[m].parent].children[i] = m
        BY <1>3, <1>5, <3>1, <3>3 DEF Forest
      <4>2. QED
        BY <1>2, <1>3, <4>1
    <3>4. QED
      BY <3>2, <3>3
  <2>4. ASSUME NEW m \in DOMAIN g, NEW i \in DOMAIN g[m].children, NEW j \in DOMAIN g[m].children
        PROVE  /\ g[g[m].children[i]].parent = m
               /\ g[m].children[i] = g[m].children[j] => i = j
    <3>1. \A k \in DOMAIN h[m].children :
            /\ h[m].children[k] \in DOMAIN h /\ h[m].children[k] # n
            /\ h[h[m].children[k]].parent = m
            /\ \A l \in DOMAIN h[m].children : h[m].children[k] = h[m].children[l] => k = l
      BY <1>3, <1>5, <2>1 DEF Forest, Descends
    <3>2. CASE m = p
      BY <1>2, <1>3, <3>1, <3>2
    <3>3. CASE m # p
      BY <1>3, <3>1, <3>3
    <3>4. QED
      BY <3>2, <3>3
  <2>5. QED
    BY <1>4, <1>5, <2>2, <2>3, <2>4 DEF Forest
<1>6. QED
  BY <1>4, <1>5

-------------------------------------------------------------------------------
(***************************************************************************)
(* The transformation of a document keeps its types.                       *)
(***************************************************************************)

(* A place of json_object_get_int's range holds what it can give. *)
NodeFits(node) == node.type = "INT" => node.value \in Range(Clamp)

(* The frames of the recursion, from the outermost call inwards. *)
StackFits ==
  /\ json.pc \in {"RUN", "UNWIND"} => stack # <<>>
  /\ json.pc \in {"IDLE", "DONE"} => stack = <<>>
  /\ stack # <<>> => stack[1].node = Root
  /\ \A i, j \in DOMAIN stack : i < j => stack[i].node < stack[j].node
  /\ \A i \in 1..(Len(stack) - 1) :
       /\ stack[i].at \in DOMAIN document[stack[i].doc].members
       /\ document[stack[i].doc].members[stack[i].at] = stack[i + 1].doc

(* What is left of the trees in the making, and the recursion over them. *)
JsonFits == heap \in Seq(Node) /\ Descends(heap) /\ JsonTypeOK /\ StackFits

(* The document a location holds is one. *)
DocumentFits == IsDocument(document) /\ document[1].type # "NULL"

(* A value of a document. *)
LEMMA ValueType ==
  ASSUME IsDocument(document), NEW i \in DOMAIN document
  PROVE  /\ document[i] \in JsonValue /\ document[i].members \in Seq(Nat)
         /\ DOMAIN document[i].members = 1..Len(document[i].members)
         /\ document[i].type = "INT" => document[i].value \in Values
         /\ \A k \in DOMAIN document[i].members :
              /\ document[i].members[k] \in DOMAIN document
              /\ document[document[i].members[k]].key \in Keys \cup {NoKey}
<1>1. document \in Seq(JsonValue)
  BY DEF IsDocument
<1>2. document[i] \in JsonValue
  BY <1>1
<1>3. document[i].members \in Seq(Nat)
  BY <1>2 DEF JsonValue
<1>4. \A k \in DOMAIN document[i].members : document[i].members[k] \in DOMAIN document
  BY DEF IsDocument, InTextOrder
<1>5. \A j \in DOMAIN document : document[j].key \in Keys \cup {NoKey}
  <2>1. \A j \in DOMAIN document : document[j] \in JsonValue
    BY <1>1
  <2>2. QED
    BY <2>1 DEF JsonValue
<1>6. document[i].type = "INT" => document[i].value \in Values
  BY DEF IsDocument
<1>7. QED
  BY <1>2, <1>3, <1>4, <1>5, <1>6

(* The node a value becomes. *)
LEMMA TransformType ==
  ASSUME IsDocument(document), signed \in BOOLEAN, NEW i \in DOMAIN document,
         document[i].type # "NULL", NEW key \in Keys \cup {NoKey}
  PROVE  LET node == Transform([ConfigNew EXCEPT !.key = key], document[i])
         IN  /\ node \in Node /\ NodeFits(node)
             /\ node.children = <<>> /\ node.parent = NULL /\ ~node.lost
             /\ node.key = key /\ node.isSigned = signed /\ node.type = document[i].type
             /\ node.value = IF document[i].type = "INT" THEN Clamp[document[i].value]
                             ELSE document[i].value
<1> DEFINE v == document[i]
           value == IF v.type = "INT" THEN Clamp[v.value] ELSE v.value
           node == Transform([ConfigNew EXCEPT !.key = key], v)
<1>1. v \in JsonValue /\ v.type # "NULL" /\ (v.type = "INT" => v.value \in Values)
  BY ValueType
<1>2. /\ v.type \in ScalarTypes \cup ContainerTypes
      /\ v.value \in Values \cup {NoValue}
  BY <1>1 DEF JsonValue, ScalarTypes, ContainerTypes
<1>3. v.type = "INT" => Clamp[v.value] \in Values /\ Clamp[v.value] \in Range(Clamp)
  BY <1>1, JsonAssumption DEF Range
<1>4. value \in Values \cup {NoValue}
  BY <1>2, <1>3
<1>5. v.type = "INT" => value \in Range(Clamp)
  BY <1>3
<1> DEFINE blank == [ConfigNew EXCEPT !.key = key]
<1>6. /\ blank \in Node /\ blank.key = key /\ blank.children = <<>> /\ blank.parent = NULL
      /\ ~blank.lost
  BY NewNodeType DEF Node, ConfigNew
<1>7. node = [blank EXCEPT !.isSigned = signed, !.type = v.type, !.value = value]
  BY DEF Transform
<1> HIDE DEF blank, node, value, v
<1>8. /\ node \in Node /\ node.key = key /\ node.children = <<>> /\ node.parent = NULL
      /\ ~node.lost /\ node.isSigned = signed /\ node.type = v.type /\ node.value = value
  BY <1>2, <1>4, <1>6, <1>7 DEF Node
<1>9. QED
  BY <1>5, <1>8 DEF NodeFits, node, value, v, blank

(* The innermost frame and its caller. *)
LEMMA FrameType ==
  ASSUME JsonTypeOK, stack # <<>>
  PROVE  /\ Len(stack) \in Nat \ {0} /\ DOMAIN stack = 1..Len(stack) /\ Len(stack) \in DOMAIN stack
         /\ Top = stack[Len(stack)]
         /\ Top \in Frame /\ Top.doc \in DOMAIN document /\ Top.node \in DOMAIN heap
         /\ Top.at \in Nat \ {0}
         /\ Len(stack) > 1 => /\ Len(stack) - 1 \in DOMAIN stack
                              /\ Caller \in Frame /\ Caller.at \in Nat \ {0}
                              /\ Caller.doc \in DOMAIN document /\ Caller.node \in DOMAIN heap
<1>1. /\ stack \in Seq(Frame)
      /\ \A i \in DOMAIN stack : stack[i].doc \in DOMAIN document /\ stack[i].node \in DOMAIN heap
  BY DEF JsonTypeOK
<1>2. /\ Len(stack) \in Nat \ {0} /\ DOMAIN stack = 1..Len(stack) /\ Len(stack) \in DOMAIN stack
      /\ Len(stack) > 1 => Len(stack) - 1 \in DOMAIN stack
  BY <1>1
<1>3. \A i \in DOMAIN stack : stack[i] \in Frame /\ stack[i].at \in Nat \ {0}
  <2>1. \A i \in DOMAIN stack : stack[i] \in Frame
    BY <1>1
  <2>2. QED
    BY <2>1 DEF Frame
<1>4. Top = stack[Len(stack)] /\ Caller = stack[Len(stack) - 1]
  BY DEF Top, Caller, Last
<1>5. QED
  BY <1>1, <1>2, <1>3, <1>4

(* What a step of the transformation does to the frames. *)
LEMMA PushType ==
  ASSUME NEW s \in Seq(Frame), NEW f \in Frame
  PROVE  LET t == Append(s, f)
         IN  /\ t \in Seq(Frame) /\ t # <<>> /\ Len(t) = Len(s) + 1
             /\ DOMAIN t = DOMAIN s \cup {Len(s) + 1}
             /\ t[Len(s) + 1] = f /\ \A i \in DOMAIN s : t[i] = s[i]
  OBVIOUS

(* The innermost frame is taken away. *)
LEMMA PopType ==
  ASSUME NEW s \in Seq(Frame), s # <<>>
  PROVE  /\ Front(s) \in Seq(Frame) /\ Len(Front(s)) = Len(s) - 1
         /\ DOMAIN Front(s) = 1..(Len(s) - 1) /\ DOMAIN Front(s) = DOMAIN s \ {Len(s)}
         /\ \A i \in DOMAIN Front(s) : Front(s)[i] = s[i]
         /\ Len(s) > 1 => Front(s) # <<>>
<1> DEFINE t == Front(s)
           K == Len(s) - 1
<1>1. K \in Nat /\ Len(s) = K + 1 /\ DOMAIN s = 1..(K + 1)
  OBVIOUS
<1>2. t = SubSeq(s, 1, K)
  BY DEF Front
<1> HIDE DEF t, K
<1>3. /\ t \in Seq(Frame) /\ Len(t) = K /\ DOMAIN t = 1..K
      /\ \A i \in 1..K : t[i] = s[i]
  BY <1>1, <1>2
<1>4. /\ 1..K = DOMAIN s \ {Len(s)}
      /\ Len(s) > 1 => K # 0
  BY <1>1
<1>5. K # 0 => t # <<>>
  BY <1>3
<1>6. QED
  BY <1>3, <1>4, <1>5 DEF t, K

(* The innermost call returns. *)
LEMMA ReturnType ==
  ASSUME JsonTypeOK, Len(stack) > 1
  PROVE  LET s == Return(Caller)
             up == Len(stack) - 1
         IN  /\ s \in Seq(Frame) /\ s # <<>> /\ Len(s) = up /\ DOMAIN s = 1..up
             /\ up \in 1..up /\ s[up] = [Caller EXCEPT !.at = @ + 1]
             /\ s[up].node = Caller.node /\ s[up].doc = Caller.doc /\ s[up].at = Caller.at + 1
             /\ \A i \in 1..(up - 1) : s[i] = stack[i]
<1>1. stack # <<>> /\ stack \in Seq(Frame) /\ Len(stack) \in Nat
  BY DEF JsonTypeOK
<1>2. Caller \in Frame /\ Caller.at \in Nat \ {0} /\ DOMAIN stack = 1..Len(stack)
  BY <1>1, FrameType
<1> DEFINE up == Len(stack) - 1
           s == Return(Caller)
           next == [Caller EXCEPT !.at = @ + 1]
<1>3. next \in Frame /\ next.node = Caller.node /\ next.doc = Caller.doc /\ next.at = Caller.at + 1
  BY <1>2 DEF Frame
<1>4. s = [i \in 1..up |-> IF i = up THEN next ELSE stack[i]]
  BY DEF Return
<1>5. up \in Nat \ {0} /\ \A i \in 1..up : stack[i] \in Frame
  BY <1>1, <1>2
<1> HIDE DEF next, s, up
<1>6. s \in [1..up -> Frame]
  BY <1>3, <1>4, <1>5
<1>6a. s \in Seq(Frame) /\ Len(s) = up
  BY <1>5, <1>6
<1>7. s # <<>> /\ DOMAIN s = 1..up /\ s[up] = next /\ \A i \in 1..(up - 1) : s[i] = stack[i]
  BY <1>4, <1>5, <1>6a
<1>8. QED
  BY <1>3, <1>5, <1>6a, <1>7 DEF s, up, next

(* The sequence of the nodes freed, when the heap grows or more are freed. *)
LEMMA FreedType ==
  ASSUME NEW D, NEW E, D \subseteq E, NEW s \in Seq(D)
  PROVE  s \in Seq(E) /\ \A t \in Seq(D) : s \o t \in Seq(E)
<1>1. ASSUME NEW t \in Seq(D) PROVE t \in Seq(E)
  <2>1. t \in [1..Len(t) -> D] /\ Len(t) \in Nat
    OBVIOUS
  <2>2. t \in [1..Len(t) -> E]
    BY <2>1
  <2>3. QED
    BY <2>1, <2>2
<1>2. \A t \in Seq(D) : s \o t \in Seq(D)
  OBVIOUS
<1>3. QED
  BY <1>1, <1>2

(* The next member of the value that is transformed. *)
LEMMA NextMemberType ==
  ASSUME IsDocument(document), JsonTypeOK, stack # <<>>, MoreMembers
  PROVE  /\ NextMember \in DOMAIN document /\ Top.at \in DOMAIN document[Top.doc].members
         /\ document[NextMember].key \in Keys \cup {NoKey}
<1>1. Top.doc \in DOMAIN document /\ Top.at \in Nat \ {0}
  BY FrameType
<1> DEFINE members == document[Top.doc].members
<1>2. Len(members) \in Nat /\ DOMAIN members = 1..Len(members)
  BY <1>1, ValueType
<1>3. Top.at <= Len(members)
  BY DEF MoreMembers
<1>4. Top.at \in DOMAIN members
  <2> HIDE DEF members
  <2>1. QED
    BY <1>1, <1>2, <1>3
<1>5. QED
  BY <1>1, <1>4, ValueType DEF NextMember

(* A call for a new node. *)
LEMMA PushFits ==
  ASSUME JsonFits, IsDocument(document), MoreMembers, NEW node \in Node, node.children = <<>>,
         NodeFits(node), heap' = Append(heap, node), stack' = Call(NextMember, Len(heap) + 1),
         UNCHANGED <<document, signed, freed>>, json'.pc \in {"RUN", "UNWIND"},
         json'.status \in {"OK", "ERROR", "PARSE_ERROR"}, json' = [pc |-> json'.pc, status |-> json'.status]
  PROVE  JsonFits'
<1>1. stack # <<>> /\ json.pc = "RUN" /\ heap \in Seq(Node) /\ stack \in Seq(Frame)
  BY DEF JsonFits, StackFits, MoreMembers, Running, JsonTypeOK
<1> DEFINE new == Len(heap) + 1
           frame == [doc |-> NextMember, node |-> new, at |-> 1]
<1>2. /\ heap' \in Seq(Node) /\ Descends(heap') /\ DOMAIN heap' = DOMAIN heap \cup {new}
      /\ heap'[new] = node /\ \A n \in DOMAIN heap : heap'[n] = heap[n]
  BY <1>1, LeafJoins DEF JsonFits
<1>3. NextMember \in DOMAIN document /\ NextMember \in Nat /\ new \in Nat
  <2>1. NextMember \in DOMAIN document
    BY <1>1, NextMemberType DEF JsonFits
  <2>2. document \in Seq(JsonValue)
    BY DEF IsDocument
  <2>3. QED
    BY <1>1, <2>1, <2>2
<1>4. frame \in Frame /\ frame.node = new /\ frame.doc = NextMember
  BY <1>3 DEF Frame
<1>5. stack' = Append(stack, frame)
  BY DEF Call
<1>6. /\ Top = stack[Len(stack)] /\ Top.node \in DOMAIN heap
      /\ Len(stack) \in Nat \ {0} /\ DOMAIN stack = 1..Len(stack)
  BY <1>1, FrameType DEF JsonFits
<1>7. Top.node < new
  BY <1>1, <1>6
<1> HIDE DEF frame, new
<1>8. /\ stack' \in Seq(Frame) /\ stack' # <<>> /\ Len(stack') = Len(stack) + 1
      /\ DOMAIN stack' = DOMAIN stack \cup {Len(stack) + 1}
      /\ stack'[Len(stack) + 1] = frame /\ \A i \in DOMAIN stack : stack'[i] = stack[i]
  <2> DEFINE t == Append(stack, frame)
  <2>1. /\ t \in Seq(Frame) /\ t # <<>> /\ Len(t) = Len(stack) + 1
        /\ DOMAIN t = DOMAIN stack \cup {Len(stack) + 1}
        /\ t[Len(stack) + 1] = frame /\ \A i \in DOMAIN stack : t[i] = stack[i]
    BY <1>1, <1>4, PushType
  <2>2. stack' = t
    BY <1>5
  <2> HIDE DEF t
  <2>3. QED
    BY <2>1, <2>2
<1>9. JsonTypeOK'
  <2>1. \A i \in DOMAIN stack' : stack'[i].doc \in DOMAIN document /\ stack'[i].node \in DOMAIN heap'
    BY <1>2, <1>3, <1>4, <1>8 DEF JsonFits, JsonTypeOK
  <2>2. freed' \in Seq(DOMAIN heap')
    <3>1. freed \in Seq(DOMAIN heap) /\ freed' = freed /\ DOMAIN heap \subseteq DOMAIN heap'
      BY <1>2 DEF JsonFits, JsonTypeOK
    <3>2. QED
      BY <3>1, FreedType
  <2>3. \A n \in DOMAIN heap' : heap'[n].type = "INT" => heap'[n].value \in Range(Clamp)
    BY <1>1, <1>2 DEF JsonFits, JsonTypeOK, NodeFits
  <2>4. json' \in [pc : {"IDLE", "RUN", "UNWIND", "DONE", "CRASHED"},
                   status : {"OK", "ERROR", "PARSE_ERROR"}]
    OBVIOUS
  <2>5. document' \in Seq(JsonValue) /\ signed' \in BOOLEAN
    BY DEF JsonFits, JsonTypeOK
  <2>6. QED
    BY <1>8, <2>1, <2>2, <2>3, <2>4, <2>5 DEF JsonTypeOK
<1>10. StackFits'
  <2>1. stack'[1].node = Root
    BY <1>1, <1>6, <1>8 DEF JsonFits, StackFits
  <2>2. ASSUME NEW i \in 1..(Len(stack') - 1)
        PROVE  /\ stack'[i].at \in DOMAIN document'[stack'[i].doc].members
               /\ document'[stack'[i].doc].members[stack'[i].at] = stack'[i + 1].doc
    <3>1. CASE i = Len(stack)
      <4>1. stack'[i] = Top /\ stack'[i + 1] = frame
        BY <1>6, <1>8, <3>1
      <4>2. Top.at \in DOMAIN document[Top.doc].members /\ document[Top.doc].members[Top.at] = NextMember
        BY <1>1, NextMemberType DEF NextMember, JsonFits
      <4>3. QED
        BY <1>4, <4>1, <4>2
    <3>2. CASE i # Len(stack)
      <4>1. i \in 1..(Len(stack) - 1) /\ i \in DOMAIN stack /\ i + 1 \in DOMAIN stack
        BY <1>6, <1>8, <3>2
      <4>2. stack'[i] = stack[i] /\ stack'[i + 1] = stack[i + 1] /\ document' = document
        BY <1>8, <4>1
      <4>3. QED
        BY <4>1, <4>2 DEF JsonFits, StackFits
    <3>3. QED
      BY <3>1, <3>2
  <2>3. ASSUME NEW i \in DOMAIN stack', NEW j \in DOMAIN stack', i < j
        PROVE  stack'[i].node < stack'[j].node
    <3>1. i \in DOMAIN stack /\ stack'[i] = stack[i]
      BY <1>6, <1>8, <2>3
    <3>2. CASE j \in DOMAIN stack
      <4>1. stack'[j] = stack[j]
        BY <1>8, <3>2
      <4>2. QED
        BY <2>3, <3>1, <3>2, <4>1 DEF JsonFits, StackFits
    <3>3. CASE j \notin DOMAIN stack
      <4>1. stack'[j].node = Len(heap) + 1
        BY <1>4, <1>8, <3>3 DEF new
      <4>2. stack[i].node \in DOMAIN heap
        BY <3>1 DEF JsonFits, JsonTypeOK
      <4>3. QED
        BY <1>1, <3>1, <4>1, <4>2
    <3>4. QED
      BY <3>2, <3>3
  <2>4. QED
    BY <1>8, <2>1, <2>2, <2>3 DEF StackFits
<1>11. QED
  BY <1>2, <1>9, <1>10 DEF JsonFits

(* A change of nodes of the heap, with frames that are there already. *)
LEMMA ChangeFits ==
  ASSUME JsonFits, heap' \in Seq(Node), DOMAIN heap' = DOMAIN heap, Descends(heap'),
         json.pc # "IDLE",
         \A n \in DOMAIN heap : NodeFits(heap[n]) => NodeFits(heap'[n]),
         UNCHANGED <<document, signed>>, freed' \in Seq(DOMAIN heap),
         stack' \in Seq(Frame), Len(stack') <= Len(stack),
         \A i \in DOMAIN stack' : /\ stack'[i].doc = stack[i].doc
                                  /\ stack'[i].node = stack[i].node,
         \A i \in 1..(Len(stack') - 1) : stack'[i].at = stack[i].at,
         json'.pc \in {"RUN", "UNWIND"} => stack' # <<>>,
         json'.pc \in {"IDLE", "DONE"} => stack' = <<>>,
         json'.pc \in {"RUN", "UNWIND", "DONE", "CRASHED"},
         json'.status \in {"OK", "ERROR", "PARSE_ERROR"}, json' = [pc |-> json'.pc, status |-> json'.status]
  PROVE  JsonFits'
<1>1. /\ stack \in Seq(Frame) /\ DOMAIN stack = 1..Len(stack) /\ DOMAIN stack' = 1..Len(stack')
      /\ Len(stack) \in Nat /\ Len(stack') \in Nat
  BY DEF JsonFits, JsonTypeOK
<1>2. DOMAIN stack' \subseteq DOMAIN stack
  BY <1>1
<1>3. JsonTypeOK'
  <2>1. \A i \in DOMAIN stack' : stack'[i].doc \in DOMAIN document /\ stack'[i].node \in DOMAIN heap'
    BY <1>2 DEF JsonFits, JsonTypeOK
  <2>2. \A n \in DOMAIN heap' : heap'[n].type = "INT" => heap'[n].value \in Range(Clamp)
    BY DEF JsonFits, JsonTypeOK, NodeFits
  <2>3. json' \in [pc : {"IDLE", "RUN", "UNWIND", "DONE", "CRASHED"},
                   status : {"OK", "ERROR", "PARSE_ERROR"}]
    OBVIOUS
  <2>4. document' \in Seq(JsonValue) /\ signed' \in BOOLEAN
    BY DEF JsonFits, JsonTypeOK
  <2>5. QED
    BY <2>1, <2>2, <2>3, <2>4 DEF JsonTypeOK
<1>4. StackFits'
  <2>1. ASSUME NEW i \in 1..(Len(stack') - 1)
        PROVE  /\ stack'[i].at \in DOMAIN document'[stack'[i].doc].members
               /\ document'[stack'[i].doc].members[stack'[i].at] = stack'[i + 1].doc
    <3>1. i \in 1..(Len(stack) - 1) /\ i \in DOMAIN stack' /\ i + 1 \in DOMAIN stack'
      BY <1>1
    <3>2. /\ stack'[i].node = stack[i].node /\ stack'[i].doc = stack[i].doc /\ stack'[i].at = stack[i].at
          /\ stack'[i + 1].node = stack[i + 1].node /\ stack'[i + 1].doc = stack[i + 1].doc
          /\ document' = document
      BY <3>1
    <3>3. QED
      BY <3>1, <3>2 DEF JsonFits, StackFits
  <2>2. stack' # <<>> => 1 \in DOMAIN stack' /\ stack # <<>>
    BY <1>1, <1>2
  <2>3. stack' # <<>> => stack'[1].node = Root
    BY <2>2 DEF JsonFits, StackFits
  <2>4. \A i, j \in DOMAIN stack' : i < j => stack'[i].node < stack'[j].node
    BY <1>2 DEF JsonFits, StackFits
  <2>5. QED
    BY <2>1, <2>3, <2>4 DEF StackFits
<1>5. QED
  BY <1>3, <1>4 DEF JsonFits

-------------------------------------------------------------------------------
(* One node of a heap is replaced. *)
LEMMA ReplaceOne ==
  ASSUME NEW h \in Seq(Node), NEW e \in DOMAIN h, NEW node \in Node
  PROVE  LET g == [h EXCEPT ![e] = node]
         IN  /\ g \in Seq(Node) /\ DOMAIN g = DOMAIN h /\ g[e] = node
             /\ \A m \in DOMAIN h \ {e} : g[m] = h[m]
  OBVIOUS

(* Linking two nodes of the heap changes the two sides of the link only. *)
LEMMA LinkEffect ==
  ASSUME NEW h \in Seq(Node), NEW p \in DOMAIN h, NEW n \in DOMAIN h, p < n
  PROVE  LET g == LinkNode(h, p, n)
         IN  /\ Joins(g, h, p, n)
             /\ \A m \in DOMAIN h : Data(g[m]) = Data(h[m])
             /\ \A m \in DOMAIN h \ {p, n} : g[m] = h[m]
<1> DEFINE up == WithChild(h[p], n)
           down == WithParent(h[n], p)
           mid == [h EXCEPT ![p] = up]
           g == LinkNode(h, p, n)
<1>1. h[p] \in Node /\ h[n] \in Node /\ n \in Nat /\ p \in Nat /\ p # n
  OBVIOUS
<1>2. /\ up \in Node /\ up.parent = h[p].parent /\ up.children = Append(h[p].children, n)
      /\ Data(up) = Data(h[p])
  BY <1>1, WithChildType DEF Data
<1>3. down \in Node /\ down.parent = p /\ down.children = h[n].children /\ Data(down) = Data(h[n])
  BY <1>1, WithParentType
<1>4. g = [mid EXCEPT ![n] = down]
  BY <1>1 DEF LinkNode
<1> HIDE DEF up, down
<1>5. /\ mid \in Seq(Node) /\ DOMAIN mid = DOMAIN h /\ mid[p] = up
      /\ \A m \in DOMAIN h \ {p} : mid[m] = h[m]
  BY <1>2, ReplaceOne
<1> HIDE DEF mid, g
<1>6. /\ g \in Seq(Node) /\ DOMAIN g = DOMAIN mid /\ g[n] = down
      /\ \A m \in DOMAIN mid \ {n} : g[m] = mid[m]
  BY <1>3, <1>4, <1>5, ReplaceOne
<1>7. /\ g \in Seq(Node) /\ DOMAIN g = DOMAIN h /\ g[p] = up /\ g[n] = down
      /\ \A m \in DOMAIN h \ {p, n} : g[m] = h[m]
  BY <1>1, <1>5, <1>6
<1>8. Joins(g, h, p, n)
  BY <1>2, <1>3, <1>7 DEF Joins
<1>9. \A m \in DOMAIN h : Data(g[m]) = Data(h[m])
  BY <1>2, <1>3, <1>7
<1>10. QED
  BY <1>7, <1>8, <1>9 DEF g

(* A node that is joined gets another key. *)
LEMMA KeyEffect ==
  ASSUME NEW h \in Seq(Node), NEW p \in DOMAIN h, NEW n \in DOMAIN h, p < n,
         NEW g, Joins(g, h, p, n), NEW key \in Keys \cup {NoKey}
  PROVE  LET f == [g EXCEPT ![n] = [@ EXCEPT !.key = key]]
         IN  /\ Joins(f, h, p, n) /\ f[n].key = key
             /\ f[n].type = g[n].type /\ f[n].value = g[n].value
             /\ f[n].isSigned = g[n].isSigned /\ f[n].lost = g[n].lost
             /\ \A m \in DOMAIN h \ {n} : f[m] = g[m]
<1> DEFINE node == [g[n] EXCEPT !.key = key]
           f == [g EXCEPT ![n] = node]
<1>1. g \in Seq(Node) /\ DOMAIN g = DOMAIN h /\ n \in DOMAIN g /\ g[n] \in Node /\ p # n
  BY DEF Joins
<1>2. /\ node \in Node /\ node.key = key /\ node.parent = g[n].parent
      /\ node.children = g[n].children /\ node.type = g[n].type /\ node.value = g[n].value
      /\ node.isSigned = g[n].isSigned /\ node.lost = g[n].lost
  BY <1>1 DEF Node
<1> HIDE DEF node
<1>3. /\ f \in Seq(Node) /\ DOMAIN f = DOMAIN g /\ f[n] = node
      /\ \A m \in DOMAIN g \ {n} : f[m] = g[m]
  BY <1>1, <1>2, ReplaceOne
<1>4. f = [g EXCEPT ![n] = [@ EXCEPT !.key = key]]
  BY DEF node
<1> HIDE DEF f
<1>5. f[p] = g[p] /\ \A m \in DOMAIN h \ {p, n} : f[m] = g[m]
  BY <1>1, <1>3
<1>6. Joins(f, h, p, n)
  BY <1>1, <1>2, <1>3, <1>5 DEF Joins, Links
<1>7. QED
  BY <1>1, <1>2, <1>3, <1>4, <1>6

(* The node of the innermost call and that of its caller. *)
LEMMA ReturningType ==
  ASSUME JsonFits, Len(stack) > 1
  PROVE  /\ heap \in Seq(Node) /\ Caller.node \in DOMAIN heap /\ Top.node \in DOMAIN heap
         /\ Caller.node < Top.node /\ Caller.node # Top.node
         /\ Caller.node \in Nat /\ Top.node \in Nat
         /\ Caller = stack[Len(stack) - 1] /\ Top = stack[Len(stack)]
<1>1. stack # <<>> /\ stack \in Seq(Frame) /\ Len(stack) \in Nat /\ heap \in Seq(Node)
  BY DEF JsonFits, JsonTypeOK
<1>2. /\ Caller.node \in DOMAIN heap /\ Top.node \in DOMAIN heap
      /\ Caller = stack[Len(stack) - 1] /\ Top = stack[Len(stack)]
  BY <1>1, FrameType DEF JsonFits, Caller
<1>3. Len(stack) - 1 \in DOMAIN stack /\ Len(stack) \in DOMAIN stack /\ Len(stack) - 1 < Len(stack)
  BY <1>1
<1>4. Caller.node < Top.node
  BY <1>2, <1>3 DEF JsonFits, StackFits
<1>5. QED
  BY <1>1, <1>2, <1>4

(* A caller is at the value of the call that it made. *)
LEMMA CallerIsAtTop ==
  ASSUME JsonFits, IsDocument(document), Len(stack) > 1
  PROVE  /\ Caller.doc \in DOMAIN document /\ Caller.at \in DOMAIN document[Caller.doc].members
         /\ document[Caller.doc].members[Caller.at] = Top.doc
         /\ document[Caller.doc].type = "ARRAY" => IndexKeys[Caller.at] \in Keys
<1>1. /\ stack # <<>> /\ stack \in Seq(Frame) /\ Len(stack) \in Nat
      /\ Caller = stack[Len(stack) - 1] /\ Top = stack[Len(stack)] /\ Caller.doc \in DOMAIN document
  BY FrameType, ReturningType DEF JsonFits, JsonTypeOK
<1>2. Len(stack) - 1 \in 1..(Len(stack) - 1) /\ Len(stack) - 1 + 1 = Len(stack)
  BY <1>1
<1>3. /\ Caller.at \in DOMAIN document[Caller.doc].members
      /\ document[Caller.doc].members[Caller.at] = Top.doc
  BY <1>1, <1>2 DEF JsonFits, StackFits
<1>4. document[Caller.doc].type = "ARRAY" => Caller.at \in DOMAIN IndexKeys
  BY <1>1, <1>3 DEF IsDocument
<1>5. IndexKeys \in Seq(Keys)
  BY JsonAssumption
<1>6. QED
  BY <1>1, <1>3, <1>4, <1>5

(* samconfConfigAdd links the node of a call that returns to that of its     *)
(* caller, and it gets a key if it is an element of an array.                *)
LEMMA LinkStep ==
  ASSUME JsonFits, IsDocument(document), JsonLink
  PROVE  LET p == Caller.node
             n == Top.node
         IN  /\ Joins(heap', heap, p, n)
             /\ \A m \in DOMAIN heap : /\ heap'[m].type = heap[m].type /\ heap'[m].value = heap[m].value
                                       /\ heap'[m].isSigned = heap[m].isSigned
                                       /\ heap'[m].lost = heap[m].lost
             /\ \A m \in DOMAIN heap \ {n} : heap'[m].key = heap[m].key
             /\ heap'[n].key = IF document[Caller.doc].type = "ARRAY" THEN IndexKeys[Caller.at]
                               ELSE heap[n].key
             /\ \A m \in DOMAIN heap \ {p, n} : heap'[m] = heap[m]
<1> DEFINE p == Caller.node
           n == Top.node
           g == LinkNode(heap, p, n)
           key == IndexKeys[Caller.at]
<1>1. Len(stack) > 1
  BY DEF JsonLink, Returning
<1>2. heap \in Seq(Node) /\ p \in DOMAIN heap /\ n \in DOMAIN heap /\ p < n /\ p # n
  BY <1>1, ReturningType
<1>3. heap' = IF document[Caller.doc].type = "ARRAY" THEN [g EXCEPT ![n] = [@ EXCEPT !.key = key]]
              ELSE [g EXCEPT ![n] = @]
  BY DEF JsonLink, WithKey
<1> DEFINE linked == IF document[Caller.doc].type = "ARRAY" THEN key ELSE heap[n].key
<1>3a. SUFFICES /\ Joins(heap', heap, p, n)
                /\ \A m \in DOMAIN heap : /\ heap'[m].type = heap[m].type /\ heap'[m].value = heap[m].value
                                          /\ heap'[m].isSigned = heap[m].isSigned
                                          /\ heap'[m].lost = heap[m].lost
                /\ \A m \in DOMAIN heap \ {n} : heap'[m].key = heap[m].key
                /\ heap'[n].key = linked
                /\ \A m \in DOMAIN heap \ {p, n} : heap'[m] = heap[m]
  OBVIOUS
<1> HIDE DEF p, n, key
<1>4. /\ Joins(g, heap, p, n)
      /\ \A m \in DOMAIN heap : Data(g[m]) = Data(heap[m])
      /\ \A m \in DOMAIN heap \ {p, n} : g[m] = heap[m]
  BY <1>2, LinkEffect
<1> HIDE DEF g
<1>5. \A m \in DOMAIN heap : /\ g[m].type = heap[m].type /\ g[m].value = heap[m].value
                             /\ g[m].isSigned = heap[m].isSigned
                             /\ g[m].lost = heap[m].lost /\ g[m].key = heap[m].key
  BY <1>4 DEF Data
<1>6. CASE document[Caller.doc].type = "ARRAY"
  <2>1. key \in Keys \cup {NoKey}
    BY <1>1, <1>6, CallerIsAtTop DEF key
  <2> DEFINE f == [g EXCEPT ![n] = [@ EXCEPT !.key = key]]
  <2>2. heap' = f
    BY <1>3, <1>6
  <2>3a. /\ Joins(f, heap, p, n) /\ f[n].key = key
         /\ f[n].type = g[n].type /\ f[n].value = g[n].value
         /\ f[n].isSigned = g[n].isSigned /\ f[n].lost = g[n].lost
         /\ \A m \in DOMAIN heap \ {n} : f[m] = g[m]
    BY <1>2, <1>4, <2>1, KeyEffect
  <2> HIDE DEF f
  <2>3. /\ Joins(heap', heap, p, n) /\ heap'[n].key = key
        /\ heap'[n].type = g[n].type /\ heap'[n].value = g[n].value
        /\ heap'[n].isSigned = g[n].isSigned /\ heap'[n].lost = g[n].lost
        /\ \A m \in DOMAIN heap \ {n} : heap'[m] = g[m]
    BY <2>2, <2>3a
  <2>4. QED
    BY <1>2, <1>4, <1>5, <1>6, <2>3
<1>7. CASE document[Caller.doc].type # "ARRAY"
  <2>1. heap' = [g EXCEPT ![n] = @]
    BY <1>3, <1>7
  <2>2. g \in Seq(Node) /\ n \in DOMAIN g
    BY <1>2, <1>4 DEF Joins
  <2>3. heap' = g
    BY <2>1, <2>2
  <2>4. QED
    BY <1>2, <1>4, <1>5, <1>7, <2>3
<1>8. QED
  BY <1>6, <1>7

(* Steps that leave the heap, or change only one node of it by losing its     *)
(* children, keep what ChangeFits wants.                                     *)
LEMMA SameHeapFits ==
  ASSUME JsonFits, UNCHANGED heap
  PROVE  /\ heap' \in Seq(Node) /\ DOMAIN heap' = DOMAIN heap /\ Descends(heap')
         /\ \A n \in DOMAIN heap : NodeFits(heap[n]) => NodeFits(heap'[n])
  BY DEF JsonFits

(* A child list is lost. *)
LEMMA LostFits ==
  ASSUME JsonFits, Len(stack) > 1, heap' = [heap EXCEPT ![Caller.node] = LoseChildren(@)]
  PROVE  /\ heap' \in Seq(Node) /\ DOMAIN heap' = DOMAIN heap /\ Descends(heap')
         /\ \A n \in DOMAIN heap : NodeFits(heap[n]) => NodeFits(heap'[n])
         /\ IsWhole(heap') => heap' = heap
<1>1. heap \in Seq(Node) /\ Caller.node \in DOMAIN heap /\ heap # <<>>
  BY ReturningType
<1>2. /\ Grows /\ DOMAIN heap' = DOMAIN heap /\ \A n \in DOMAIN heap : KeepsNode(n)
      /\ IsWhole(heap') => heap' = heap
  BY <1>1, LoseGrows
<1>3. heap' \in Seq(Node) /\ Descends(heap')
  BY <1>2 DEF JsonFits, Grows
<1>4. \A n \in DOMAIN heap : NodeFits(heap[n]) => NodeFits(heap'[n])
  BY <1>2 DEF KeepsNode, NodeFits
<1>5. QED
  BY <1>2, <1>3, <1>4

(* The innermost call ends: its frame is taken away. *)
LEMMA FrontFits ==
  ASSUME JsonFits, Len(stack) > 1, stack' = Front(stack)
  PROVE  /\ stack' \in Seq(Frame) /\ Len(stack') <= Len(stack) /\ stack' # <<>>
         /\ \A i \in DOMAIN stack' : stack'[i].doc = stack[i].doc /\ stack'[i].node = stack[i].node
         /\ \A i \in 1..(Len(stack') - 1) : stack'[i].at = stack[i].at
<1>1. stack \in Seq(Frame) /\ stack # <<>> /\ Len(stack) \in Nat
  BY DEF JsonFits, JsonTypeOK
<1>2. /\ stack' \in Seq(Frame) /\ Len(stack') = Len(stack) - 1 /\ stack' # <<>>
      /\ DOMAIN stack' = 1..(Len(stack) - 1) /\ \A i \in DOMAIN stack' : stack'[i] = stack[i]
  BY <1>1, PopType
<1>3. QED
  BY <1>1, <1>2

(* The innermost call returns to its caller, which goes on with the next     *)
(* member.                                                                   *)
LEMMA ReturnFits ==
  ASSUME JsonFits, Len(stack) > 1, stack' = Return(Caller)
  PROVE  /\ stack' \in Seq(Frame) /\ Len(stack') <= Len(stack) /\ stack' # <<>>
         /\ \A i \in DOMAIN stack' : stack'[i].doc = stack[i].doc /\ stack'[i].node = stack[i].node
         /\ \A i \in 1..(Len(stack') - 1) : stack'[i].at = stack[i].at
<1> DEFINE up == Len(stack) - 1
<1>1. up \in Nat \ {0} /\ Len(stack) = up + 1 /\ Caller = stack[up]
  BY FrameType DEF JsonFits, JsonTypeOK, Caller
<1>2. /\ stack' \in Seq(Frame) /\ stack' # <<>> /\ Len(stack') = up /\ DOMAIN stack' = 1..up
      /\ stack'[up].node = Caller.node /\ stack'[up].doc = Caller.doc
      /\ \A i \in 1..(up - 1) : stack'[i] = stack[i]
  BY ReturnType DEF JsonFits
<1> HIDE DEF up
<1>3. QED
  BY <1>1, <1>2

(* A call for the next member: what samconfConfigNew and the call make. *)
CallsFor(node) ==
  /\ node \in Node /\ node.children = <<>> /\ node.parent = NULL /\ ~node.lost /\ NodeFits(node)
  /\ heap' = Append(heap, node) /\ stack' = Call(NextMember, Len(heap) + 1)
  /\ UNCHANGED <<document, signed, freed>>

(* The node for a member has a key, unless a copy of it failed, and holds    *)
(* what the member holds.                                                    *)
LEMMA MemberNodeType ==
  ASSUME JsonFits, IsDocument(document), MoreMembers, document[NextMember].type # "NULL",
         NEW key \in Keys \cup {NoKey}
  PROVE  LET node == MemberNode(key)
         IN  /\ node \in Node /\ NodeFits(node)
             /\ node.children = <<>> /\ node.parent = NULL /\ ~node.lost
             /\ node.key = key /\ node.isSigned = signed
             /\ node.type = document[NextMember].type
             /\ node.value = IF document[NextMember].type = "INT"
                             THEN Clamp[document[NextMember].value]
                             ELSE document[NextMember].value
<1>1. stack # <<>>
  BY DEF JsonFits, StackFits, MoreMembers, Running
<1>2. NextMember \in DOMAIN document /\ signed \in BOOLEAN
  BY <1>1, NextMemberType DEF JsonFits, JsonTypeOK
<1>3. QED
  BY <1>2, TransformType DEF MemberNode

(* The node of a call that has no copy of its string. *)
LEMMA BlankNodeType ==
  ASSUME NEW key \in Keys \cup {NoKey}, NEW mark \in BOOLEAN
  PROVE  LET node == [ConfigNew EXCEPT !.key = key, !.isSigned = mark]
         IN  /\ node \in Node /\ NodeFits(node)
             /\ node.children = <<>> /\ node.parent = NULL /\ ~node.lost
  BY NewNodeType DEF Node, ConfigNew, NodeFits

(* The steps that call. *)
LEMMA CallSteps ==
  ASSUME JsonFits, IsDocument(document), JsonMember \/ JsonKeyFails \/ JsonStringFails
  PROVE  MoreMembers /\ \E node : CallsFor(node)
<1>1. MoreMembers /\ document[NextMember].type # "NULL"
  BY DEF JsonMember, JsonKeyFails, JsonStringFails
<1>2. stack # <<>> /\ JsonTypeOK /\ signed \in BOOLEAN
  BY <1>1 DEF JsonFits, StackFits, MoreMembers, Running, JsonTypeOK
<1>3. document[NextMember].key \in Keys \cup {NoKey}
  BY <1>1, <1>2, NextMemberType
<1>4. CASE JsonMember
  BY <1>1, <1>3, <1>4, MemberNodeType DEF JsonMember, CallsFor
<1>5. CASE JsonKeyFails
  BY <1>1, <1>5, MemberNodeType DEF JsonKeyFails, CallsFor
<1>6. CASE JsonStringFails
  BY <1>1, <1>2, <1>3, <1>6, BlankNodeType DEF JsonStringFails, CallsFor
<1>7. QED
  BY <1>4, <1>5, <1>6, <1>1

(* Each step of the transformation keeps its types. *)
LEMMA JsonStepFits ==
  ASSUME JsonFits, IsDocument(document), JsonNext
  PROVE  JsonFits'
<1>1. /\ json \in [pc : {"IDLE", "RUN", "UNWIND", "DONE", "CRASHED"},
                   status : {"OK", "ERROR", "PARSE_ERROR"}]
      /\ stack \in Seq(Frame) /\ freed \in Seq(DOMAIN heap) /\ heap \in Seq(Node) /\ Descends(heap)
  BY DEF JsonFits, JsonTypeOK
<1>2. json.status \in {"OK", "ERROR", "PARSE_ERROR"} /\ json = [pc |-> json.pc, status |-> json.status]
  BY <1>1
<1>3. CASE JsonMember \/ JsonKeyFails \/ JsonStringFails
  <2>1. MoreMembers
    BY <1>3, CallSteps
  <2>2. PICK node : CallsFor(node)
    BY <1>3, CallSteps
  <2>3. json' = json \/ json' = [pc |-> "UNWIND", status |-> "ERROR"]
    BY <1>3 DEF JsonMember, JsonKeyFails, JsonStringFails, JsonGoto
  <2>4. json.pc = "RUN"
    BY <2>1 DEF MoreMembers, Running
  <2>5. /\ json'.pc \in {"RUN", "UNWIND"} /\ json'.status \in {"OK", "ERROR", "PARSE_ERROR"}
        /\ json' = [pc |-> json'.pc, status |-> json'.status]
    BY <1>2, <2>3, <2>4
  <2>6. QED
    BY <2>1, <2>2, <2>5, PushFits DEF CallsFor
<1>4. CASE JsonMemberFails \/ JsonNull \/ JsonUnwindCrash
  <2>1. /\ UNCHANGED heap /\ UNCHANGED <<document, signed>> /\ stack' = stack /\ freed' = freed
        /\ json'.pc \in {"UNWIND", "CRASHED"} /\ json'.status \in {"OK", "ERROR", "PARSE_ERROR"}
        /\ json' = [pc |-> json'.pc, status |-> json'.status] /\ json.pc \in {"RUN", "UNWIND"}
    BY <1>2, <1>4 DEF JsonMemberFails, JsonNull, JsonUnwindCrash, JsonGoto, MoreMembers, Running
  <2>2. stack # <<>>
    BY <2>1 DEF JsonFits, StackFits
  <2>3. QED
    BY <1>1, <2>1, <2>2, SameHeapFits, ChangeFits
<1>5. CASE JsonLink
  <2>1. /\ Len(stack) > 1 /\ stack' = Return(Caller) /\ json.pc = "RUN"
        /\ UNCHANGED <<document, signed>> /\ freed' = freed /\ json' = json
    BY <1>5 DEF JsonLink, Returning, Running
  <2>2. /\ Joins(heap', heap, Caller.node, Top.node)
        /\ \A m \in DOMAIN heap : heap'[m].type = heap[m].type /\ heap'[m].value = heap[m].value
    BY <1>5, LinkStep
  <2>3. heap' \in Seq(Node) /\ DOMAIN heap' = DOMAIN heap
    BY <2>2 DEF Joins
  <2>4. Descends(heap')
    BY <1>1, <2>1, <2>2, ReturningType, NodeJoins
  <2>5. \A n \in DOMAIN heap : NodeFits(heap[n]) => NodeFits(heap'[n])
    BY <2>2 DEF NodeFits
  <2>6. /\ stack' \in Seq(Frame) /\ stack' # <<>> /\ Len(stack') <= Len(stack)
        /\ \A i \in DOMAIN stack' : stack'[i].doc = stack[i].doc /\ stack'[i].node = stack[i].node
        /\ \A i \in 1..(Len(stack') - 1) : stack'[i].at = stack[i].at
    BY <1>1, <2>1, ReturnFits
  <2>7. QED
    BY <1>1, <1>2, <2>1, <2>3, <2>4, <2>5, <2>6, ChangeFits
<1>6. CASE JsonIndexCrash
  <2>1. /\ Len(stack) > 1 /\ heap' = LinkNode(heap, Caller.node, Top.node) /\ json.pc = "RUN"
        /\ UNCHANGED <<document, signed>> /\ stack' = stack /\ freed' = freed
        /\ json' = [pc |-> "CRASHED", status |-> json.status]
    BY <1>6 DEF JsonIndexCrash, Returning, Running, JsonGoto
  <2>2. /\ Joins(heap', heap, Caller.node, Top.node)
        /\ \A m \in DOMAIN heap : Data(heap'[m]) = Data(heap[m])
    BY <2>1, ReturningType, LinkEffect
  <2>3. heap' \in Seq(Node) /\ DOMAIN heap' = DOMAIN heap
    BY <2>2 DEF Joins
  <2>4. Descends(heap')
    BY <1>1, <2>1, <2>2, ReturningType, NodeJoins
  <2>5. \A n \in DOMAIN heap : NodeFits(heap[n]) => NodeFits(heap'[n])
    BY <2>2 DEF NodeFits, Data
  <2>6. QED
    BY <1>1, <1>2, <2>1, <2>3, <2>4, <2>5, ChangeFits
<1>7. CASE JsonLinkFails \/ JsonUnwind
  <2>1. /\ Len(stack) > 1 /\ stack' = Front(stack) /\ UNCHANGED <<document, signed>>
        /\ freed' = freed \o ConfigDelete(heap, Top.node)
        /\ heap' = heap \/ heap' = [heap EXCEPT ![Caller.node] = LoseChildren(@)]
        /\ json.pc \in {"RUN", "UNWIND"}
        /\ json' = json \/ json' = [pc |-> "UNWIND", status |-> "ERROR"]
    BY <1>7 DEF JsonLinkFails, JsonUnwind, Returning, Running, JsonGoto
  <2>2. /\ heap' \in Seq(Node) /\ DOMAIN heap' = DOMAIN heap /\ Descends(heap')
        /\ \A n \in DOMAIN heap : NodeFits(heap[n]) => NodeFits(heap'[n])
    BY <2>1, SameHeapFits, LostFits
  <2>3. /\ json'.pc \in {"RUN", "UNWIND"} /\ json'.status \in {"OK", "ERROR", "PARSE_ERROR"}
        /\ json' = [pc |-> json'.pc, status |-> json'.status]
    BY <1>2, <2>1
  <2>4. freed' \in Seq(DOMAIN heap)
    <3>1. ConfigDelete(heap, Top.node) \in Seq(DOMAIN heap)
      BY <1>1, <2>1, ReturningType, DeleteSteps
    <3>2. QED
      BY <1>1, <2>1, <3>1
  <2>5. QED
    BY <2>1, <2>2, <2>3, <2>4, FrontFits, ChangeFits
<1>8. CASE JsonEnd
  <2>1. /\ UNCHANGED <<document, signed, heap>> /\ stack' = <<>> /\ freed' = freed
        /\ json.pc \in {"RUN", "UNWIND"} /\ json' = [pc |-> "DONE", status |-> json.status]
    BY <1>8 DEF JsonEnd, Running, JsonGoto
  <2>2. stack' \in Seq(Frame) /\ Len(stack') = 0 /\ DOMAIN stack' = {} /\ Len(stack) \in Nat
    BY <1>1, <2>1
  <2>3. QED
    BY <1>1, <1>2, <2>1, <2>2, SameHeapFits, ChangeFits
<1>9. QED
  BY <1>3, <1>4, <1>5, <1>6, <1>7, <1>8 DEF JsonNext

-------------------------------------------------------------------------------
(***************************************************************************)
(* The types of the environment backend.                                   *)
(***************************************************************************)

(* The path a variable's name becomes has keys for segments. *)
LEMMA EnvPathType ==
  ASSUME NEW name \in Names
  PROVE  EnvPath(name) \in Seq(Keys)
<1>1. name \in Seq(Keys \cup {Empty}) /\ Underscore \in Keys
  BY EnvAssumption
<1>2. \A s \in Keys \cup {Empty} : Segment[s] \in Seq(Keys)
  <2>1. \A s \in Keys : <<s>> \in Seq(Keys)
    OBVIOUS
  <2>2. QED
    BY <2>1 DEF Segment
<1>3. \A i \in DOMAIN name : Segment[name[i]] \in Seq(Keys)
  BY <1>1, <1>2
<1>4. ConcatAll(Segment, name) \in Seq(Keys)
  <2>1. PICK F \in [0..Len(name) -> Seq(Keys)] : ConcatAll(Segment, name) = F[Len(name)]
    BY <1>1, <1>3, FoldConcatenates
  <2>2. Len(name) \in 0..Len(name)
    BY <1>1
  <2>3. QED
    BY <2>1, <2>2
<1>5. <<Underscore>> \in Seq(Keys)
  BY <1>1
<1>6. EnvPath(name) = IF name = <<Empty, Empty>> THEN <<Underscore>> ELSE ConcatAll(Segment, name)
  BY DEF EnvPath, ConcatAll
<1>7. QED
  BY <1>4, <1>5, <1>6

(* A parameter that is found is one of the query. *)
LEMMA ParameterType ==
  ASSUME query \in Seq(Parameter), NEW name
  PROVE  UriGetParameter(name) \in DOMAIN Containing \cup {NoText, NotGiven}
<1> DEFINE I == {i \in 1..Len(query) : query[i].name = name}
           i == IF I # {} THEN Min(I) ELSE 0
<1>1. UriGetParameter(name) = IF Len(query) < 2 \/ i = 0 THEN NotGiven ELSE query[i].value
  BY DEF UriGetParameter, SelectInSeq
<1>2. Len(query) \in Nat /\ DOMAIN query = 1..Len(query)
  OBVIOUS
<1>3. i # 0 => i \in DOMAIN query
  <2>1. I \in SUBSET Nat /\ I \subseteq DOMAIN query
    BY <1>2
  <2>2. I # {} => Min(I) \in I
    BY <2>1, MinIsLeast
  <2>3. QED
    BY <2>1, <2>2
<1>4. \A k \in DOMAIN query : query[k].value \in DOMAIN Containing \cup {NoText}
  <2>1. \A k \in DOMAIN query : query[k] \in Parameter
    OBVIOUS
  <2>2. QED
    BY <2>1 DEF Parameter
<1> HIDE DEF i
<1>5. QED
  BY <1>1, <1>3, <1>4

(* The tree of the environment backend loses a child list only when          *)
(* samconfInsertAt fails, and then the load ends with an error.              *)
EnvWhole ==
  \/ env.pc \in {"FILTER", "LOOP"}
  \/ env.pc = "CREATE" /\ ins.status \in {"RUN", "OK"}
  \/ env.pc = "DONE" /\ env.status = "OK"

EnvFits ==
  /\ heap \in Seq(Node) /\ faults \in 0..MaxFaults /\ ins \in Insert /\ EnvTypeOK
  /\ heap # <<>> /\ IsWhole(heap) => IsTree(heap)
  /\ env.pc = "IDLE" => heap = <<>>
  /\ env.pc \in {"FILTER", "LOOP", "CREATE"} => heap # <<>>
  /\ env.pc \in {"LOOP", "CREATE"} => env.filter \in DOMAIN Containing
  /\ env.pc = "CREATE" => InsertTypeOK /\ InsertsLeaf /\ ~ins.node.lost
  /\ env.pc # "CREATE" => ins = NoInsert
  /\ EnvWhole => heap # <<>> /\ IsWhole(heap)

(* A heap of one node. *)
LEMMA OneNode ==
  ASSUME NEW node \in Node, node.children = <<>>, node.parent = NULL, ~node.lost
  PROVE  LET h == <<node>>
         IN  /\ h \in Seq(Node) /\ h # <<>> /\ DOMAIN h = {Root} /\ h[Root] = node
             /\ IsTree(h) /\ IsWhole(h) /\ Descends(h) /\ Forest(h) /\ Tops(h) = {Root}
<1> DEFINE h == <<node>>
<1>1. h \in Seq(Node) /\ h # <<>> /\ DOMAIN h = {Root} /\ h[Root] = node
  BY DEF Root
<1> HIDE DEF h
<1>2. IsTree(h) /\ IsWhole(h) /\ Descends(h)
  BY <1>1 DEF IsTree, IsWhole, Descends
<1>3. Forest(h) /\ Tops(h) = {Root}
  BY <1>1, <1>2, TreeIsForest
<1>4. QED
  BY <1>1, <1>2, <1>3 DEF h

(* No node. *)
LEMMA NoNode ==
  /\ <<>> \in Seq(Node) /\ DOMAIN <<>> = {} /\ Forest(<<>>) /\ Tops(<<>>) = {}
  /\ IsWhole(<<>>) /\ Descends(<<>>)
  BY DEF Forest, Tops, IsWhole, Descends

(* The step of the locals. *)
LEMMA EnvGotoType ==
  ASSUME EnvTypeOK, NEW said \in {"OK", "ERROR"}, NEW pc \in {"FILTER", "CREATE", "DONE"},
         EnvGoto(pc, said)
  PROVE  /\ env' \in [pc : {"IDLE", "FILTER", "LOOP", "CREATE", "DONE", "CRASHED"},
                      filter : DOMAIN Containing \cup {NotGiven}, at : Nat \ {0},
                      status : {"OK", "ERROR"}]
         /\ env'.pc = pc /\ env'.status = said /\ env'.filter = env.filter /\ env'.at = env.at
  BY DEF EnvTypeOK, EnvGoto

(* ... to the next variable. *)
LEMMA NextVariableType ==
  ASSUME EnvTypeOK, NEW said \in {"OK", "ERROR"}, NextVariable(said)
  PROVE  /\ env' \in [pc : {"IDLE", "FILTER", "LOOP", "CREATE", "DONE", "CRASHED"},
                      filter : DOMAIN Containing \cup {NotGiven}, at : Nat \ {0},
                      status : {"OK", "ERROR"}]
         /\ env'.pc = "LOOP" /\ env'.status = said /\ env'.filter = env.filter
         /\ env'.at = env.at + 1
<1> DEFINE next == env.at + 1
<1>1. env.at \in Nat \ {0} /\ next \in Nat \ {0}
  BY DEF EnvTypeOK
<1>2. env' = [env EXCEPT !.pc = "LOOP", !.at = next, !.status = said]
  BY DEF NextVariable
<1> HIDE DEF next
<1>3. /\ env' \in [pc : {"IDLE", "FILTER", "LOOP", "CREATE", "DONE", "CRASHED"},
                    filter : DOMAIN Containing \cup {NotGiven}, at : Nat \ {0},
                    status : {"OK", "ERROR"}]
      /\ env'.pc = "LOOP" /\ env'.status = said /\ env'.filter = env.filter
      /\ env'.at = next
  BY <1>1, <1>2 DEF EnvTypeOK
<1>4. QED
  BY <1>3 DEF next

(* Loading starts with a root, or with nothing and an error. *)
LEMMA EnvStartFits ==
  ASSUME EnvFits, signed \in BOOLEAN, EnvLoad(signed) \/ EnvLoadFails, UNCHANGED <<environ, query>>
  PROVE  EnvFits' /\ IsWhole(heap') /\ Descends(heap')
<1>1. env.pc = "IDLE" /\ ins' = ins /\ ins = NoInsert /\ EnvTypeOK /\ faults \in 0..MaxFaults
  BY DEF EnvLoad, EnvLoadFails, EnvFits
<1>2. RootKey \in Keys
  BY KeyAssumption
<1>3. \A mark \in BOOLEAN, key \in Keys \cup {NoKey} :
        LET node == [ConfigNew EXCEPT !.key = key, !.type = "OBJECT", !.isSigned = mark]
        IN  node \in Node /\ node.children = <<>> /\ node.parent = NULL /\ ~node.lost
  BY NewNodeType DEF Node, ConfigNew, ContainerTypes, ScalarTypes
<1>4. CASE EnvLoad(signed)
  <2> DEFINE node == [ConfigNew EXCEPT !.key = RootKey, !.type = "OBJECT", !.isSigned = signed]
  <2>1. node \in Node /\ node.children = <<>> /\ node.parent = NULL /\ ~node.lost
    BY <1>2, <1>3
  <2>2. heap' = <<node>> /\ faults' = faults /\ EnvGoto("FILTER", "OK")
    BY <1>4 DEF EnvLoad
  <2> HIDE DEF node
  <2>3. heap' \in Seq(Node) /\ heap' # <<>> /\ IsTree(heap') /\ IsWhole(heap') /\ Descends(heap')
    BY <2>1, <2>2, OneNode
  <2>4. EnvTypeOK' /\ env'.pc = "FILTER"
    BY <1>1, <2>2, EnvGotoType DEF EnvTypeOK
  <2>5. QED
    BY <1>1, <2>2, <2>3, <2>4, NoInsertType DEF EnvFits
<1>5. CASE EnvLoadFails
  <2> DEFINE node == [ConfigNew EXCEPT !.type = "OBJECT"]
  <2>1. node \in Node /\ node.children = <<>> /\ node.parent = NULL /\ ~node.lost
    BY NewNodeType DEF Node, ConfigNew, ContainerTypes, ScalarTypes
  <2>2. heap' \in {<<>>, <<node>>} /\ Fault /\ EnvGoto("DONE", "ERROR")
    BY <1>5 DEF EnvLoadFails
  <2> HIDE DEF node
  <2>3. heap' \in Seq(Node) /\ (heap' # <<>> => IsTree(heap')) /\ IsWhole(heap') /\ Descends(heap')
    BY <2>1, <2>2, OneNode, NoNode
  <2>4. EnvTypeOK' /\ env'.pc = "DONE" /\ env'.status = "ERROR"
    BY <1>1, <2>2, EnvGotoType DEF EnvTypeOK
  <2>5. faults' \in 0..MaxFaults
    BY <1>1, <2>2, FaultType
  <2>6. QED
    BY <1>1, <2>3, <2>4, <2>5, NoInsertType DEF EnvFits, EnvWhole
<1>6. QED
  BY <1>4, <1>5

(* A round of samconfInsertAt that loses no child list keeps the tree whole. *)
LEMMA InsertKeepsWhole ==
  ASSUME InsertTypeOK, InsertsLeaf, ~ins.node.lost, IsWhole(heap), InsertNext
  PROVE  IsWhole(heap') \/ ins'.status = "ERROR"
<1>1. CASE InsertDescend \/ InsertSkip \/ InsertFail \/ InsertCrash
  <2>1. heap' = heap
    BY <1>1 DEF InsertDescend, InsertSkip, InsertFail, InsertCrash
  <2>2. QED
    BY <2>1
<1>2. CASE InsertLink
  <2>1. PICK key \in Keys :
          /\ LinkedNode(key) \in Node /\ heap' = ConfigAdd(heap, ins.parent, LinkedNode(key))
          /\ Extends(heap', heap, ins.parent, LinkedNode(key))
    BY <1>2, LinkExtends
  <2>2. ~LinkedNode(key).lost
    BY DEF LinkedNode, Intermediate, ConfigNew
  <2>3. /\ DOMAIN heap' = DOMAIN heap \cup {Len(heap) + 1}
        /\ Data(heap'[Len(heap) + 1]) = Data(LinkedNode(key))
        /\ \A n \in DOMAIN heap : Data(heap'[n]) = Data(heap[n])
    BY <2>1 DEF Extends
  <2>4. QED
    BY <2>2, <2>3 DEF IsWhole, Data
<1>3. CASE InsertAddFails
  <2>1. ins \in Insert /\ ins' = [ins EXCEPT !.status = "ERROR"]
    BY <1>3 DEF InsertAddFails, InsertTypeOK
  <2>2. QED
    BY <2>1 DEF Insert
<1>4. QED
  BY <1>1, <1>2, <1>3 DEF InsertNext

(* The steps of the loop that leave the tree and the locals of               *)
(* samconfInsertAt alone.                                                    *)
LEMMA EnvLoopFits ==
  ASSUME EnvFits, UNCHANGED <<heap, ins>>, EnvTypeOK', faults' \in 0..MaxFaults, env.pc \in {"FILTER", "LOOP"},
         env'.pc \in {"LOOP", "DONE", "CRASHED"}, env'.pc = "LOOP" => env'.filter \in DOMAIN Containing
  PROVE  EnvFits'
<1>1. /\ heap # <<>> /\ IsWhole(heap) /\ IsTree(heap) /\ ins = NoInsert
      /\ heap \in Seq(Node) /\ ins \in Insert
  BY DEF EnvFits, EnvWhole
<1>2. QED
  BY <1>1 DEF EnvFits

(* A variable is about to become an option. *)
LEMMA EnvCreateFits ==
  ASSUME EnvFits, environ \in Seq(Variable), query \in Seq(Parameter),
         EnvCreate \/ EnvCreateWithoutString, UNCHANGED <<environ, query>>
  PROVE  EnvFits'
<1> DEFINE path == EnvPath(environ[env.at].name)
           option == environ[env.at].option
<1>1. /\ env.pc = "LOOP" /\ ~EnvAtEnd /\ UNCHANGED heap /\ EnvGoto("CREATE", env.status)
      /\ faults' = faults \/ Fault
  BY DEF EnvCreate, EnvCreateWithoutString, EnvAt
<1>2. /\ heap # <<>> /\ IsWhole(heap) /\ IsTree(heap) /\ ins = NoInsert /\ heap \in Seq(Node)
      /\ env.filter \in DOMAIN Containing /\ EnvTypeOK /\ faults \in 0..MaxFaults
      /\ env.status \in {"OK", "ERROR"} /\ env.at \in Nat \ {0}
  BY <1>1 DEF EnvFits, EnvWhole, EnvTypeOK
<1>3. env.at \in DOMAIN environ
  BY <1>1, <1>2 DEF EnvAtEnd
<1>4. environ[env.at] \in Variable
  BY <1>3
<1>5. environ[env.at].name \in Names /\ option \in Option
  BY <1>4 DEF Variable
<1>6. path \in Seq(Keys)
  BY <1>5, EnvPathType
<1> HIDE DEF path, option
<1> DEFINE full == NewOption(path, option)
           bare == [full EXCEPT !.value = NoValue]
<1>7. full \in Node /\ full.children = <<>> /\ ~full.lost
  BY <1>5, <1>6, NewOptionType
<1>8. InsertCall(path, full) \/ InsertCall(path, bare)
  BY DEF EnvCreate, EnvCreateWithoutString, path, option
<1> HIDE DEF full
<1>9. bare \in Node /\ bare.children = <<>> /\ ~bare.lost
  BY <1>7 DEF Node
<1> HIDE DEF bare
<1>10. PICK node \in Node : node.children = <<>> /\ ~node.lost /\ InsertCall(path, node)
  BY <1>7, <1>8, <1>9
<1>11. /\ ins' \in Insert /\ ins'.parent = Root /\ ins'.linked = NULL /\ ins'.node = node
  BY <1>6, <1>10, InsertCallType
<1>12. faults' \in 0..MaxFaults
  BY <1>1, <1>2, FaultType
<1>13. InsertTypeOK' /\ InsertsLeaf' /\ ~ins'.node.lost
  BY <1>1, <1>2, <1>10, <1>11, <1>12, RootInHeap DEF InsertTypeOK, InsertsLeaf
<1>14. EnvTypeOK' /\ env'.pc = "CREATE" /\ env'.filter = env.filter
  BY <1>1, <1>2, EnvGotoType DEF EnvTypeOK
<1>15. QED
  BY <1>1, <1>2, <1>11, <1>12, <1>13, <1>14 DEF EnvFits, EnvWhole

(* Each step of the environment backend keeps its types, and keeps the tree  *)
(* a tree as long as no child list is lost.                                  *)
LEMMA EnvStepFits ==
  ASSUME EnvFits, EnvNext, UNCHANGED <<environ, query>>
  PROVE  EnvFits'
<1>1. /\ EnvTypeOK /\ environ \in Seq(Variable) /\ query \in Seq(Parameter)
      /\ faults \in 0..MaxFaults /\ env.status \in {"OK", "ERROR"}
      /\ env.filter \in DOMAIN Containing \cup {NotGiven}
  BY DEF EnvFits, EnvTypeOK
<1>2. CASE EnvFilter
  <2> DEFINE filter == UriGetParameter("envPrefix")
  <2>1. env.pc = "FILTER" /\ UNCHANGED <<heap, ins>> /\ faults' = faults
    BY <1>2 DEF EnvFilter, insertVars
  <2>2. filter \in DOMAIN Containing \cup {NoText, NotGiven}
    BY <1>1, ParameterType
  <2>3. \/ env' = [env EXCEPT !.pc = "DONE", !.status = "ERROR"]
        \/ env' = [env EXCEPT !.pc = "CRASHED"]
        \/ filter \in DOMAIN Containing /\ env' = [env EXCEPT !.pc = "LOOP", !.filter = filter]
    <3>1. env' = CASE filter = NotGiven -> [env EXCEPT !.pc = "DONE", !.status = "ERROR"]
                   [] filter = NoText   -> [env EXCEPT !.pc = "CRASHED"]
                   [] OTHER             -> [env EXCEPT !.pc = "LOOP", !.filter = filter]
      BY <1>2 DEF EnvFilter
    <3>2. NotGiven # NoText
      BY DEF NotGiven, NoText
    <3> HIDE DEF filter
    <3>3. QED
      BY <2>2, <3>1, <3>2
  <2> HIDE DEF filter
  <2>4. EnvTypeOK' /\ env'.pc \in {"LOOP", "DONE", "CRASHED"}
        /\ (env'.pc = "LOOP" => env'.filter \in DOMAIN Containing)
    BY <1>1, <2>3 DEF EnvTypeOK
  <2>5. QED
    BY <1>1, <2>1, <2>4, EnvLoopFits
<1>3. CASE EnvFilterFails
  <2>1. /\ env.pc = "FILTER" /\ UNCHANGED <<heap, ins>> /\ Fault
        /\ EnvGoto("DONE", "ERROR") \/ EnvGoto("DONE", "OK")
    BY <1>3 DEF EnvFilterFails
  <2>2. EnvTypeOK' /\ env'.pc = "DONE"
    BY <1>1, <2>1, EnvGotoType DEF EnvTypeOK
  <2>3. QED
    BY <1>1, <2>1, <2>2, FaultType, EnvLoopFits
<1>4. CASE EnvPass \/ EnvCopyFails \/ EnvCreateFails \/ EnvEnd
  <2>1. /\ env.pc = "LOOP" /\ UNCHANGED <<heap, ins>> /\ (faults' = faults \/ Fault)
        /\ \E said \in {"OK", "ERROR"} : NextVariable(said) \/ EnvGoto("DONE", said)
    BY <1>1, <1>4 DEF EnvPass, EnvCopyFails, EnvCreateFails, EnvEnd, EnvAt, insertVars
  <2>2. /\ EnvTypeOK' /\ env'.pc \in {"LOOP", "DONE"} /\ env'.filter = env.filter
    BY <1>1, <2>1, EnvGotoType, NextVariableType DEF EnvTypeOK
  <2>3. env.filter \in DOMAIN Containing
    BY <2>1 DEF EnvFits
  <2>4. QED
    BY <1>1, <2>1, <2>2, <2>3, FaultType, EnvLoopFits
<1>5. CASE EnvCreate \/ EnvCreateWithoutString
  BY <1>1, <1>5, EnvCreateFits
<1>6. CASE EnvInserting
  <2>1. env.pc = "CREATE" /\ InsertNext /\ env' = env
    BY <1>6 DEF EnvInserting
  <2>2. /\ InsertTypeOK /\ InsertsLeaf /\ ~ins.node.lost /\ ins \in Insert
        /\ env.filter \in DOMAIN Containing
    BY <2>1 DEF EnvFits
  <2>3. /\ InsertTypeOK' /\ InsertsLeaf' /\ Grows /\ ins'.node = ins.node
    BY <2>1, <2>2, InsertStep DEF InsertGoesOn
  <2>4. ins.status = "RUN"
    BY <2>1, <2>2, InsertStatus
  <2>5. heap # <<>> /\ IsWhole(heap) /\ IsTree(heap)
    BY <2>1, <2>4 DEF EnvFits, EnvWhole
  <2>6. IsWhole(heap') \/ ins'.status = "ERROR"
    BY <2>1, <2>2, <2>5, InsertKeepsWhole
  <2>7. heap' # <<>> /\ heap' \in Seq(Node) /\ (IsWhole(heap') => IsTree(heap'))
    BY <2>3, <2>5 DEF Grows
  <2>8. EnvTypeOK' /\ faults' \in 0..MaxFaults /\ ins' \in Insert
    BY <1>1, <2>1, <2>3 DEF EnvTypeOK, InsertTypeOK
  <2>9. QED
    BY <2>1, <2>2, <2>3, <2>6, <2>7, <2>8 DEF EnvFits, EnvWhole
<1>7. CASE EnvCreated \/ EnvNotCreated
  <2>1. /\ env.pc = "CREATE" /\ UNCHANGED <<heap, faults>> /\ ins' = NoInsert
        /\ \/ NextVariable("OK") /\ ins.status = "OK"
           \/ EnvGoto("DONE", "ERROR")
    BY <1>7 DEF EnvCreated, EnvNotCreated, InsertReturn
  <2>2. /\ heap \in Seq(Node) /\ heap # <<>> /\ (IsWhole(heap) => IsTree(heap))
        /\ (ins.status = "OK" => IsWhole(heap)) /\ env.filter \in DOMAIN Containing
    BY <2>1 DEF EnvFits, EnvWhole
  <2>3. /\ EnvTypeOK' /\ env'.filter = env.filter
        /\ \/ env'.pc = "LOOP" /\ ins.status = "OK"
           \/ env'.pc = "DONE" /\ env'.status = "ERROR"
    BY <1>1, <2>1, EnvGotoType, NextVariableType DEF EnvTypeOK
  <2>4. QED
    BY <1>1, <2>1, <2>2, <2>3, NoInsertType DEF EnvFits, EnvWhole
<1>8. QED
  BY <1>2, <1>3, <1>4, <1>5, <1>6, <1>7 DEF EnvNext

-------------------------------------------------------------------------------
(***************************************************************************)
(* Types, for both backends and all stages of samconfLoad.                 *)
(***************************************************************************)

StageTypeOK ==
  /\ at \in Locations
  /\ stage \in {"OPEN", "LOAD", "CLOSE", "DELETE", "DONE"}
  /\ status \in {"OK", "ERROR", "NOT_FOUND", "PARSE_ERROR"}
  /\ live \subseteq {"backend", "handle", "tree"}
  /\ crashed \in BOOLEAN
  /\ spoilt \subseteq {"OPEN", "LOAD", "CLOSE"}

(* A location of the JSON backend is loaded while it is in stage LOAD, from   *)
(* the document it holds.                                                    *)
JsonInv ==
  /\ JsonFits /\ faults \in 0..MaxFaults
  /\ env = NoEnv /\ query = <<>> /\ environ = <<>> /\ ins = NoInsert
  /\ stage = "LOAD" => document = at.file /\ at.file \in JsonFiles \ {NoFile, BadFile}
  /\ stage = "OPEN" => json.pc = "IDLE"
  /\ stage \in {"CLOSE", "DELETE", "DONE"} => json.pc \in {"IDLE", "DONE"}
  /\ json.pc = "IDLE" => heap = <<>>

(* ... and one of the environment backend from the variables and the query.  *)
EnvInv ==
  /\ EnvFits /\ Descends(heap) /\ freed \in Seq(DOMAIN heap) /\ (stage # "DONE" => freed = <<>>)
  /\ json = [pc |-> "IDLE", status |-> "OK"] /\ document = <<>> /\ stack = <<>> /\ signed \in BOOLEAN
  /\ stage = "OPEN" => env.pc = "IDLE"
  /\ stage = "LOAD" => at.location.scheme = "env"
  /\ stage \in {"CLOSE", "DELETE", "DONE"} => env.pc \in {"IDLE", "DONE"}

TypeInv ==
  /\ StageTypeOK
  /\ at.backend = "JSON" => JsonInv
  /\ at.backend = "ENV" => EnvInv

(* What there may be to load. *)
LEMMA LocationType ==
  ASSUME at \in Locations
  PROVE  /\ at.backend \in {"JSON", "ENV"}
         /\ at.backend = "JSON" => at.file \in JsonFiles
         /\ at.backend = "ENV" => /\ at.location \in EnvLocations
                                  /\ at.location.query \in Seq(Parameter)
                                  /\ at.location.environ \in Seq(Variable)
  BY LocationAssumption DEF Locations

(* The document of a location is one. *)
LEMMA DocumentIsOne ==
  ASSUME NEW doc \in JsonFiles \ {NoFile, BadFile}
  PROVE  IsDocument(doc) /\ doc[1].type # "NULL" /\ 1 \in DOMAIN doc /\ doc \in Seq(JsonValue)
<1>1. IsDocument(doc) /\ doc[1].type # "NULL"
  BY LocationAssumption
<1>2. doc \in Seq(JsonValue) /\ doc # <<>>
  BY <1>1 DEF IsDocument
<1>3. QED
  BY <1>1, <1>2

(* The initial states are well typed. *)
LEMMA InitInv == ASSUME Init PROVE TypeInv
<1>1. /\ at \in Locations /\ signed \in BOOLEAN /\ heap = <<>> /\ ins = NoInsert /\ faults = MaxFaults
      /\ env = NoEnv /\ query = <<>> /\ json = [pc |-> "IDLE", status |-> "OK"]
      /\ environ = IF at.backend = "ENV" THEN at.location.environ ELSE <<>>
      /\ document = <<>> /\ stack = <<>> /\ freed = <<>>
      /\ stage = "OPEN" /\ status = "OK" /\ live = {"backend"} /\ crashed = FALSE /\ spoilt = {}
  BY DEF Init
<1>2. StageTypeOK
  BY <1>1 DEF StageTypeOK
<1>3. heap \in Seq(Node) /\ Descends(heap) /\ IsWhole(heap) /\ DOMAIN heap = {}
  BY <1>1, NoNode
<1>4. faults \in 0..MaxFaults
  BY <1>1, MaxFaultsAssumption
<1>5. freed \in Seq(DOMAIN heap)
  BY <1>1
<1>6. JsonTypeOK
  BY <1>1, <1>3, <1>5 DEF JsonTypeOK
<1>7. StackFits
  BY <1>1 DEF StackFits
<1>8. at.backend = "JSON" => JsonInv
  BY <1>1, <1>3, <1>4, <1>6, <1>7 DEF JsonInv, JsonFits
<1>9. EnvTypeOK
  <2>1. environ \in Seq(Variable)
    BY <1>1, LocationType
  <2>2. query \in Seq(Parameter)
    BY <1>1
  <2>3. env \in [pc : {"IDLE", "FILTER", "LOOP", "CREATE", "DONE", "CRASHED"},
                 filter : DOMAIN Containing \cup {NotGiven}, at : Nat \ {0},
                 status : {"OK", "ERROR"}]
    BY <1>1 DEF NoEnv
  <2>4. QED
    BY <2>1, <2>2, <2>3 DEF EnvTypeOK
<1>10. EnvFits
  BY <1>1, <1>3, <1>4, <1>9, NoInsertType DEF EnvFits, EnvWhole, NoEnv
<1>11. EnvInv
  BY <1>1, <1>3, <1>5, <1>10 DEF EnvInv, NoEnv
<1>12. QED
  BY <1>2, <1>8, <1>11 DEF TypeInv

(* The transformation of a document starts with a node for all of it, or     *)
(* fails at once.                                                            *)
LEMMA JsonStartFits ==
  ASSUME JsonFits, heap = <<>>, DocumentFits, faults \in 0..MaxFaults,
         JsonLoad \/ JsonLoadWithoutKey \/ JsonLoadFails
  PROVE  JsonFits' /\ json'.pc \in {"RUN", "DONE"} /\ faults' \in 0..MaxFaults
<1>1. /\ json.pc = "IDLE" /\ stack = <<>> /\ freed \in Seq(DOMAIN heap) /\ UNCHANGED <<document, signed, freed>>
      /\ document \in Seq(JsonValue) /\ signed \in BOOLEAN
  BY DEF JsonFits, JsonTypeOK, StackFits, JsonLoad, JsonLoadWithoutKey, JsonLoadFails, JsonLoadAs
<1>2. 1 \in DOMAIN document /\ document[1].type # "NULL"
  BY <1>1 DEF DocumentFits, IsDocument
<1>3. CASE JsonLoad \/ JsonLoadWithoutKey
  <2>1. PICK key \in Keys \cup {NoKey} : JsonLoadAs(key) /\ (faults' = faults \/ Fault)
    BY <1>3, JsonAssumption DEF JsonLoad, JsonLoadWithoutKey
  <2> DEFINE node == Transform([ConfigNew EXCEPT !.key = key], document[1])
             frame == [doc |-> 1, node |-> Root, at |-> 1]
             t == Append(stack, frame)
  <2>2. heap' = <<node>> /\ stack' = t /\ json' = [pc |-> "RUN", status |-> "OK"]
    BY <2>1 DEF JsonLoadAs, Call, JsonGoto
  <2>3. node \in Node /\ NodeFits(node) /\ node.children = <<>> /\ node.parent = NULL /\ ~node.lost
    BY <1>1, <1>2, TransformType DEF DocumentFits
  <2>4. frame \in Frame /\ frame.doc = 1 /\ frame.node = Root
    BY DEF Frame, Root
  <2> HIDE DEF node, frame
  <2>5. /\ heap' \in Seq(Node) /\ DOMAIN heap' = {Root} /\ heap'[Root] = node /\ Descends(heap')
    BY <2>2, <2>3, OneNode
  <2>6. Len(stack) = 0 /\ DOMAIN stack = {} /\ stack \in Seq(Frame)
    BY <1>1
  <2>7. t \in Seq(Frame) /\ t # <<>> /\ Len(t) = Len(stack) + 1 /\ t[Len(stack) + 1] = frame
    BY <2>4, <2>6, PushType
  <2> HIDE DEF t
  <2>8. stack' \in Seq(Frame) /\ stack' # <<>> /\ Len(stack') = 1 /\ DOMAIN stack' = {1} /\ stack'[1] = frame
    BY <2>2, <2>6, <2>7
  <2>9. JsonTypeOK'
    <3>1. freed' \in Seq(DOMAIN heap')
      BY <1>1, FreedType
    <3>2. \A n \in DOMAIN heap' : heap'[n].type = "INT" => heap'[n].value \in Range(Clamp)
      BY <2>3, <2>5 DEF NodeFits
    <3>3. QED
      BY <1>1, <1>2, <2>2, <2>4, <2>5, <2>8, <3>1, <3>2 DEF JsonTypeOK
  <2>10. StackFits'
    BY <2>2, <2>4, <2>8 DEF StackFits
  <2>11. faults' \in 0..MaxFaults
    BY <2>1, FaultType
  <2>12. QED
    BY <2>2, <2>5, <2>9, <2>10, <2>11 DEF JsonFits
<1>4. CASE JsonLoadFails
  <2> DEFINE node == [ConfigNew EXCEPT !.key = "config", !.type = "OBJECT", !.isSigned = signed]
  <2>1. /\ Fault /\ json' = [pc |-> "DONE", status |-> "ERROR"] /\ stack' = stack
        /\ heap' = <<>> \/ heap' = <<node>>
    BY <1>4 DEF JsonLoadFails, JsonGoto
  <2>2. /\ node \in Node /\ node.children = <<>> /\ node.parent = NULL /\ ~node.lost /\ NodeFits(node)
    BY <1>1, NewNodeType, JsonAssumption DEF Node, ConfigNew, ContainerTypes, ScalarTypes, NodeFits
  <2> HIDE DEF node
  <2>3. /\ heap' \in Seq(Node) /\ Descends(heap') /\ \A n \in DOMAIN heap' : NodeFits(heap'[n])
    BY <2>1, <2>2, OneNode, NoNode
  <2>4. freed' \in Seq(DOMAIN heap')
    BY <1>1, FreedType
  <2>5. JsonTypeOK'
    BY <1>1, <2>1, <2>3, <2>4 DEF JsonTypeOK, NodeFits
  <2>6. StackFits'
    BY <1>1, <2>1 DEF StackFits
  <2>7. QED
    BY <2>1, <2>3, <2>5, <2>6, FaultType DEF JsonFits
<1>5. QED
  BY <1>3, <1>4

(* The steps of the transformation leave the document alone. *)
LEMMA JsonNextLeaves ==
  ASSUME JsonNext
  PROVE  UNCHANGED <<document, signed>> /\ (faults' = faults \/ Fault) /\ json'.pc # "IDLE"
<1>1. CASE JsonMember \/ JsonKeyFails \/ JsonMemberFails \/ JsonStringFails \/ JsonNull
  BY <1>1 DEF JsonMember, JsonKeyFails, JsonMemberFails, JsonStringFails, JsonNull, JsonGoto,
              MoreMembers, Running
<1>2. CASE JsonLink \/ JsonLinkFails \/ JsonIndexCrash
  BY <1>2 DEF JsonLink, JsonLinkFails, JsonIndexCrash, JsonGoto, Returning, Running
<1>3. CASE JsonUnwind \/ JsonUnwindCrash \/ JsonEnd
  BY <1>3 DEF JsonUnwind, JsonUnwindCrash, JsonEnd, JsonGoto
<1>4. QED
  BY <1>1, <1>2, <1>3 DEF JsonNext

(* What a backend may return. *)
LEMMA StatusType ==
  ASSUME TypeInv
  PROVE  env.status \in {"OK", "ERROR"} /\ json.status \in {"OK", "ERROR", "PARSE_ERROR"}
<1>1. CASE at.backend = "JSON"
  BY <1>1 DEF TypeInv, JsonInv, JsonFits, JsonTypeOK, NoEnv
<1>2. CASE at.backend = "ENV"
  BY <1>2 DEF TypeInv, EnvInv, EnvFits, EnvTypeOK
<1>3. QED
  BY <1>1, <1>2, LocationType DEF TypeInv, StageTypeOK

(* A step of samconfLoad itself keeps its types. *)
LEMMA StageStep ==
  ASSUME TypeInv, [Next]_vars
  PROVE  StageTypeOK'
<1>1. /\ at \in Locations /\ stage \in {"OPEN", "LOAD", "CLOSE", "DELETE", "DONE"}
      /\ status \in {"OK", "ERROR", "NOT_FOUND", "PARSE_ERROR"}
      /\ live \subseteq {"backend", "handle", "tree"}
      /\ crashed \in BOOLEAN /\ spoilt \subseteq {"OPEN", "LOAD", "CLOSE"}
  BY DEF StageTypeOK, TypeInv
<1>2. CASE OpenJson \/ OpenEnv \/ OpenEnvWithoutQuery \/ OpenEnvCrash \/ OpenFails
  BY <1>1, <1>2
     DEF OpenJson, OpenEnv, OpenEnvWithoutQuery, OpenEnvCrash, OpenFails, OpenWith, StageTypeOK
<1>3. CASE LoadEnv \/ LoadJson
  BY <1>1, <1>3 DEF LoadEnv, LoadJson, StageTypeOK
<1>4. CASE Loaded
  <2>1. status' \in {env.status, json.status} /\ at' = at /\ stage' = "CLOSE" /\ crashed' = crashed
        /\ live' \in {live, live \cup {"tree"}} /\ spoilt' \in {spoilt, spoilt \cup {"LOAD"}}
    BY <1>4 DEF Loaded, Unchanged
  <2>2. env.status \in {"OK", "ERROR"} /\ json.status \in {"OK", "ERROR", "PARSE_ERROR"}
    BY StatusType
  <2>3. QED
    BY <1>1, <2>1, <2>2 DEF StageTypeOK
<1>5. CASE Close \/ CloseFails \/ Delete \/ DeleteCrash
  BY <1>1, <1>5 DEF Close, CloseFails, Delete, DeleteCrash, Unchanged, StageTypeOK
<1>6. CASE UNCHANGED vars
  BY <1>1, <1>6 DEF vars, backendVars, StageTypeOK
<1>7. QED
  BY <1>2, <1>3, <1>4, <1>5, <1>6 DEF Next

(* Each step of a load from a document keeps its types. *)
LEMMA JsonInvStep ==
  ASSUME StageTypeOK, at.backend = "JSON", JsonInv, [Next]_vars
  PROVE  JsonInv' /\ at' = at
<1>1. /\ JsonFits /\ faults \in 0..MaxFaults /\ heap \in Seq(Node) /\ at.file \in JsonFiles
      /\ stage \in {"OPEN", "LOAD", "CLOSE", "DELETE", "DONE"}
  BY LocationType DEF JsonInv, JsonFits, StageTypeOK
<1>2. CASE OpenJson
  <2>1. /\ stage = "OPEN" /\ json.pc = "IDLE" /\ heap = <<>> /\ stack = <<>>
    BY <1>2 DEF OpenJson, Stage, JsonInv, JsonFits, StackFits
  <2>2. /\ UNCHANGED <<heap, ins, faults, environ, query, env, signed, stack, freed, json, at>>
        /\ \/ stage' = "DELETE" /\ document' = document
           \/ /\ stage' = "LOAD" /\ document' = at.file
              /\ at.file \notin {NoFile, BadFile}
    BY <1>2 DEF OpenJson, OpenWith, insertVars, envVars
  <2>3. document' \in Seq(JsonValue)
    BY <1>1, <2>2, DocumentIsOne DEF JsonFits, JsonTypeOK
  <2>4. JsonTypeOK'
    BY <1>1, <2>1, <2>2, <2>3 DEF JsonTypeOK, JsonFits
  <2>5. StackFits'
    BY <2>1, <2>2 DEF StackFits
  <2>6. QED
    BY <1>1, <2>1, <2>2, <2>4, <2>5 DEF JsonInv, JsonFits
<1>3. CASE OpenFails
  <2>1. /\ stage = "OPEN" /\ json.pc = "IDLE" /\ stage' = "DELETE" /\ Fault
        /\ UNCHANGED <<heap, ins, environ, query, env, document, signed, stack, freed, json, at>>
    BY <1>3 DEF OpenFails, Stage, OpenWith, envVars, jsonVars, JsonInv
  <2>2. JsonFits'
    BY <1>1, <2>1 DEF JsonFits, JsonTypeOK, StackFits
  <2>3. faults' \in 0..MaxFaults
    BY <1>1, <2>1, FaultType
  <2>4. QED
    BY <2>1, <2>2, <2>3 DEF JsonInv
<1>4. CASE LoadJson
  <2>1. /\ stage = "LOAD" /\ stage' = "LOAD" /\ document = at.file /\ at.file \in JsonFiles \ {NoFile, BadFile}
        /\ UNCHANGED <<ins, environ, query, env, at>>
    BY <1>4 DEF LoadJson, Stage, envVars, JsonInv
  <2>2. DocumentFits /\ IsDocument(document)
    BY <2>1, DocumentIsOne DEF DocumentFits
  <2>3. CASE JsonLoad \/ JsonLoadWithoutKey \/ JsonLoadFails
    <3>1. heap = <<>> /\ document' = document
      BY <2>3 DEF JsonInv, JsonLoad, JsonLoadWithoutKey, JsonLoadFails, JsonLoadAs
    <3>2. JsonFits' /\ json'.pc \in {"RUN", "DONE"} /\ faults' \in 0..MaxFaults
      BY <1>1, <2>2, <2>3, <3>1, JsonStartFits
    <3>3. QED
      BY <2>1, <3>1, <3>2 DEF JsonInv
  <2>4. CASE JsonNext
    <3>1. JsonFits'
      BY <1>1, <2>2, <2>4, JsonStepFits
    <3>2. document' = document /\ (faults' = faults \/ Fault) /\ json'.pc # "IDLE"
      BY <2>4, JsonNextLeaves
    <3>3. faults' \in 0..MaxFaults
      BY <1>1, <3>2, FaultType
    <3>4. QED
      BY <2>1, <3>1, <3>2, <3>3 DEF JsonInv
  <2>5. QED
    BY <1>4, <2>3, <2>4 DEF LoadJson
<1>5. CASE Loaded
  <2>1. /\ stage' = "CLOSE" /\ json.pc = "DONE"
        /\ UNCHANGED <<heap, ins, faults, environ, query, env, document, signed, stack, freed, json, at>>
    BY <1>5 DEF Loaded, Unchanged, insertVars, envVars, jsonVars, JsonInv, NoEnv
  <2>2. JsonFits'
    BY <1>1, <2>1 DEF JsonFits, JsonTypeOK, StackFits
  <2>3. QED
    BY <1>1, <2>1, <2>2 DEF JsonInv
<1>6. CASE Close \/ CloseFails \/ DeleteCrash
  <2>1. /\ stage \in {"CLOSE", "DELETE"} /\ stage' \in {"CLOSE", "DELETE"} /\ (faults' = faults \/ Fault)
        /\ UNCHANGED <<heap, ins, environ, query, env, document, signed, stack, freed, json, at>>
    BY <1>6 DEF Close, CloseFails, DeleteCrash, Stage, Unchanged, insertVars, envVars, jsonVars
  <2>2. JsonFits'
    BY <1>1, <2>1 DEF JsonFits, JsonTypeOK, StackFits
  <2>3. faults' \in 0..MaxFaults
    BY <1>1, <2>1, FaultType
  <2>4. QED
    BY <2>1, <2>2, <2>3 DEF JsonInv
<1>7. CASE Delete
  <2>1. /\ stage = "DELETE" /\ stage' = "DONE" /\ UNCHANGED faults
        /\ UNCHANGED <<heap, ins, environ, query, env, document, signed, stack, json, at>>
        /\ (freed' = freed \/ (heap # <<>> /\ freed' = freed \o ConfigDelete(heap, Root)))
    BY <1>7 DEF Delete, Stage, insertVars, envVars
  <2>2. freed' \in Seq(DOMAIN heap')
    <3>1. freed \in Seq(DOMAIN heap)
      BY <1>1 DEF JsonFits, JsonTypeOK
    <3>2. heap # <<>> => ConfigDelete(heap, Root) \in Seq(DOMAIN heap)
      BY <1>1, RootInHeap, DeleteSteps DEF JsonFits
    <3>3. heap # <<>> => freed \o ConfigDelete(heap, Root) \in Seq(DOMAIN heap)
      BY <3>1, <3>2
    <3>4. QED
      BY <2>1, <3>1, <3>3
  <2>3. JsonFits'
    BY <1>1, <2>1, <2>2 DEF JsonFits, JsonTypeOK, StackFits
  <2>4. QED
    BY <1>1, <2>1, <2>3 DEF JsonInv
<1>8. CASE UNCHANGED vars
  BY <1>1, <1>8 DEF vars, insertVars, envVars, jsonVars, backendVars, JsonInv, JsonFits, JsonTypeOK, StackFits
<1>9. ~(OpenEnv \/ OpenEnvWithoutQuery \/ OpenEnvCrash \/ LoadEnv)
  BY DEF OpenEnv, OpenEnvWithoutQuery, OpenEnvCrash, LoadEnv
<1>10. QED
  BY <1>2, <1>3, <1>4, <1>5, <1>6, <1>7, <1>8, <1>9 DEF Next, JsonInv, vars, backendVars

(* The tree of the environment backend only grows, and no child comes before *)
(* its parent.                                                               *)
LEMMA EnvTreeGrows ==
  ASSUME EnvFits, Descends(heap), EnvNext
  PROVE  Descends(heap') /\ DOMAIN heap \subseteq DOMAIN heap' /\ (faults' = faults \/ Fault)
<1>1. CASE EnvInserting
  <2>1. InsertTypeOK /\ InsertsLeaf /\ InsertNext
    BY <1>1 DEF EnvInserting, EnvFits
  <2>2. Grows
    BY <2>1, InsertStep DEF InsertGoesOn
  <2>3. faults' = faults \/ Fault
    BY <2>1 DEF InsertNext, InsertDescend, InsertLink, InsertSkip, InsertFail, InsertAddFails, InsertCrash
  <2>4. QED
    BY <2>2, <2>3 DEF Grows
<1>2. CASE ~EnvInserting
  <2>1. heap' = heap /\ (faults' = faults \/ Fault)
    BY <1>2 DEF EnvNext, EnvFilter, EnvFilterFails, EnvPass, EnvCopyFails, EnvCreate, EnvCreateWithoutString,
                EnvCreateFails, EnvCreated, EnvNotCreated, EnvEnd, insertVars
  <2>2. QED
    BY <2>1
<1>3. QED
  BY <1>1, <1>2

(* Each step of a load from the environment keeps its types. *)
LEMMA EnvInvStep ==
  ASSUME StageTypeOK, at.backend = "ENV", EnvInv, [Next]_vars
  PROVE  EnvInv' /\ at' = at
<1>1. /\ EnvFits /\ faults \in 0..MaxFaults /\ heap \in Seq(Node) /\ Descends(heap) /\ freed \in Seq(DOMAIN heap)
      /\ json = [pc |-> "IDLE", status |-> "OK"] /\ document = <<>> /\ stack = <<>> /\ signed \in BOOLEAN
      /\ stage \in {"OPEN", "LOAD", "CLOSE", "DELETE", "DONE"} /\ query \in Seq(Parameter)
      /\ at.location.query \in Seq(Parameter) /\ (stage # "DONE" => freed = <<>>)
  BY LocationType DEF EnvInv, EnvFits, EnvTypeOK, StageTypeOK
<1>2. ASSUME UNCHANGED <<heap, ins, environ, env>>, query' \in Seq(Parameter), faults' \in 0..MaxFaults
      PROVE  EnvFits'
  BY <1>1, <1>2 DEF EnvFits, EnvTypeOK, InsertTypeOK, InsertsLeaf, EnvWhole
<1>3. CASE OpenEnv \/ OpenEnvWithoutQuery \/ OpenEnvCrash \/ OpenFails
  <2>1. /\ stage = "OPEN" /\ stage' \in {"OPEN", "LOAD", "DELETE"} /\ (faults' = faults \/ Fault)
        /\ UNCHANGED <<heap, ins, environ, env, document, signed, stack, freed, json, at>>
        /\ query' \in {query, at.location.query, <<>>} /\ (stage' = "LOAD" => at.location.scheme = "env")
    BY <1>3 DEF OpenEnv, OpenEnvWithoutQuery, OpenEnvCrash, OpenFails, OpenWith, Stage, insertVars, envVars, jsonVars
  <2>2. query' \in Seq(Parameter) /\ faults' \in 0..MaxFaults
    <3>1. faults' \in 0..MaxFaults
      BY <1>1, <2>1, FaultType
    <3>2. <<>> \in Seq(Parameter)
      OBVIOUS
    <3>3. query' \in Seq(Parameter)
      BY <1>1, <2>1, <3>2
    <3>4. QED
      BY <3>1, <3>3
  <2>3. EnvFits'
    BY <1>2, <2>1, <2>2
  <2>4. QED
    BY <1>1, <2>1, <2>3 DEF EnvInv
<1>4. CASE LoadEnv
  <2>1. /\ stage = "LOAD" /\ stage' = "LOAD" /\ (EnvLoad(signed) \/ EnvLoadFails \/ EnvNext)
        /\ UNCHANGED <<environ, query, document, signed, stack, freed, json, at>>
    BY <1>4 DEF LoadEnv, Stage, jsonVars
  <2>2. /\ EnvFits' /\ Descends(heap') /\ freed' \in Seq(DOMAIN heap')
    <3>1. CASE EnvLoad(signed) \/ EnvLoadFails
      <4>1. EnvFits'
        BY <1>1, <2>1, <3>1, EnvStartFits
      <4>2. Descends(heap')
        BY <1>1, <2>1, <3>1, EnvStartFits
      <4>3. freed = <<>> /\ freed' = freed
        BY <1>1, <2>1
      <4>4. freed' \in Seq(DOMAIN heap')
        BY <4>3
      <4>5. QED
        BY <4>1, <4>2, <4>4
    <3>2. CASE EnvNext
      <4>1. EnvFits' /\ Descends(heap') /\ DOMAIN heap \subseteq DOMAIN heap'
        BY <1>1, <2>1, <3>2, EnvStepFits, EnvTreeGrows
      <4>2. QED
        BY <1>1, <2>1, <4>1, FreedType
    <3>3. QED
      BY <2>1, <3>1, <3>2
  <2>3. QED
    BY <1>1, <2>1, <2>2 DEF EnvInv
<1>5. CASE Loaded
  <2>1. /\ stage' = "CLOSE" /\ env.pc = "DONE"
        /\ UNCHANGED <<heap, ins, faults, environ, query, env, document, signed, stack, freed, json, at>>
    BY <1>1, <1>5 DEF Loaded, Unchanged, insertVars, envVars, jsonVars
  <2>2. EnvFits'
    BY <1>1, <1>2, <2>1
  <2>3. QED
    BY <1>1, <1>5, <2>1, <2>2 DEF EnvInv, Loaded, Stage
<1>6. CASE Close \/ DeleteCrash
  <2>1. /\ stage \in {"CLOSE", "DELETE"} /\ stage' \in {"CLOSE", "DELETE"}
        /\ UNCHANGED <<heap, ins, faults, environ, query, env, document, signed, stack, freed, json, at>>
    BY <1>6 DEF Close, DeleteCrash, Stage, Unchanged, insertVars, envVars, jsonVars
  <2>2. EnvFits'
    BY <1>1, <1>2, <2>1
  <2>3. QED
    BY <1>1, <2>1, <2>2 DEF EnvInv
<1>7. CASE Delete
  <2>1. /\ stage = "DELETE" /\ stage' = "DONE" /\ UNCHANGED faults
        /\ UNCHANGED <<heap, ins, environ, query, env, document, signed, stack, json, at>>
        /\ (freed' = freed \/ (heap # <<>> /\ freed' = freed \o ConfigDelete(heap, Root)))
    BY <1>7 DEF Delete, Stage, insertVars, envVars
  <2>2. freed' \in Seq(DOMAIN heap')
    <3>1. heap # <<>> => ConfigDelete(heap, Root) \in Seq(DOMAIN heap)
      BY <1>1, RootInHeap, DeleteSteps
    <3>2. heap # <<>> => freed \o ConfigDelete(heap, Root) \in Seq(DOMAIN heap)
      BY <1>1, <3>1
    <3>3. QED
      BY <1>1, <2>1, <3>2
  <2>3. EnvFits'
    BY <1>1, <1>2, <2>1
  <2>4. QED
    BY <1>1, <2>1, <2>2, <2>3 DEF EnvInv
<1>8. CASE UNCHANGED vars
  <2>1. UNCHANGED <<heap, ins, faults, environ, query, env, document, signed, stack, freed, json, at, stage>>
    BY <1>8 DEF vars, insertVars, envVars, jsonVars, backendVars
  <2>2. EnvFits'
    BY <1>1, <1>2, <2>1
  <2>3. QED
    BY <1>1, <2>1, <2>2 DEF EnvInv
<1>9. ~(OpenJson \/ LoadJson \/ CloseFails)
  BY DEF OpenJson, LoadJson, CloseFails
<1>10. QED
  BY <1>3, <1>4, <1>5, <1>6, <1>7, <1>8, <1>9 DEF Next

(* Each step keeps the types. *)
LEMMA TypeStep == ASSUME TypeInv, [Next]_vars PROVE TypeInv'
<1>1. StageTypeOK /\ StageTypeOK' /\ at.backend \in {"JSON", "ENV"}
  BY StageStep, LocationType DEF TypeInv, StageTypeOK
<1>2. CASE at.backend = "JSON"
  BY <1>1, <1>2, JsonInvStep DEF TypeInv
<1>3. CASE at.backend = "ENV"
  BY <1>1, <1>3, EnvInvStep DEF TypeInv
<1>4. QED
  BY <1>1, <1>2, <1>3

(* All variables of the backends keep their types: the tree in the making,   *)
(* the frames of the recursion over a document, which stay within document   *)
(* and tree, the loop over environ, and what samconfLoad holds; in           *)
(* particular every integer of a tree made from a document is one of 32 bits *)
(* (samconfLoad, samconfJsonBackendLoad, samconfEnvBackendLoad).             *)
THEOREM TypeCorrect == Spec => []TypeOK
<1>1. Init => TypeInv
  BY InitInv
<1>2. TypeInv /\ [Next]_vars => TypeInv'
  BY TypeStep
<1>3. TypeInv => TypeOK
  <2>1. SUFFICES ASSUME TypeInv PROVE TypeOK
    OBVIOUS
  <2>2. StageTypeOK /\ at.backend \in {"JSON", "ENV"}
    BY <2>1, LocationType DEF TypeInv, StageTypeOK
  <2>3. CASE at.backend = "JSON"
    <3>1. JsonInv
      BY <2>1, <2>3 DEF TypeInv
    <3>2. EnvTypeOK
      BY <3>1 DEF JsonInv, EnvTypeOK, NoEnv
    <3>3. QED
      BY <2>2, <3>1, <3>2, NoInsertType DEF JsonInv, JsonFits, TypeOK, StageTypeOK
  <2>4. CASE at.backend = "ENV"
    <3>1. EnvInv
      BY <2>1, <2>4 DEF TypeInv
    <3>2. JsonTypeOK
      BY <3>1 DEF EnvInv, JsonTypeOK
    <3>3. QED
      BY <2>2, <3>1, <3>2 DEF EnvInv, EnvFits, TypeOK, StageTypeOK
  <2>5. QED
    BY <2>2, <2>3, <2>4
<1>4. QED
  BY <1>1, <1>2, <1>3, PTL DEF Spec

-------------------------------------------------------------------------------
(***************************************************************************)
(* Who owns the nodes.                                                     *)
(***************************************************************************)

(* What is below a node stays below it as long as the child lists there stay *)
(* as they are.                                                              *)
LEMMA SameBelow ==
  ASSUME NEW h \in Seq(Node), Descends(h), NEW g \in Seq(Node), Descends(g),
         DOMAIN h \subseteq DOMAIN g
  PROVE  \A n \in DOMAIN h :
           (\A x \in Subtree(h, n) : g[x].children = h[x].children) => Subtree(g, n) = Subtree(h, n)
<1> DEFINE Same(n) == (\A x \in Subtree(h, n) : g[x].children = h[x].children)
                        => Subtree(g, n) = Subtree(h, n)
           S == {n \in DOMAIN h : Same(n)}
<1>1. ASSUME NEW n \in DOMAIN h, \A i \in DOMAIN h[n].children : h[n].children[i] \in S
      PROVE  n \in S
  <2>1. SUFFICES ASSUME \A x \in Subtree(h, n) : g[x].children = h[x].children
                 PROVE  Subtree(g, n) = Subtree(h, n)
    OBVIOUS
  <2>2. n \in Subtree(h, n) /\ g[n].children = h[n].children
    BY <2>1, SubtreeIsLater
  <2>3. \A i \in DOMAIN h[n].children : Subtree(h, h[n].children[i]) \subseteq Subtree(h, n)
    BY SubtreeSteps
  <2>4. \A i \in DOMAIN h[n].children : Subtree(g, h[n].children[i]) = Subtree(h, h[n].children[i])
    BY <1>1, <2>1, <2>3
  <2>5. /\ Subtree(h, n) = {n} \cup UNION {Subtree(h, h[n].children[i]) : i \in DOMAIN h[n].children}
        /\ Subtree(g, n) = {n} \cup UNION {Subtree(g, g[n].children[i]) : i \in DOMAIN g[n].children}
    BY SubtreeSteps
  <2> DEFINE kids == h[n].children
  <2>6. Subtree(g, n) = {n} \cup UNION {Subtree(g, kids[i]) : i \in DOMAIN kids}
    BY <2>2, <2>5
  <2>7. {Subtree(g, kids[i]) : i \in DOMAIN kids} = {Subtree(h, kids[i]) : i \in DOMAIN kids}
    BY <2>4
  <2>8. QED
    BY <2>5, <2>6, <2>7
<1>2. DOMAIN h \subseteq S
  <2> HIDE DEF S
  <2>1. QED
    BY <1>1, DownInduction
<1>3. QED
  BY <1>2

(* The nodes that are not to be freed: the top of the tree, unless it was     *)
(* deleted, and those the running calls hold.                                *)
Kept ==
  (IF heap = <<>> \/ Deleted THEN {} ELSE {Root}) \cup {stack[i].node : i \in DOMAIN stack}

(* Everything below some nodes. *)
Below(h, T) == UNION {Subtree(h, t) : t \in T}

(* What is kept is not linked yet, and all that is below other nodes that are *)
(* not linked was freed, once.                                               *)
Owned(h, K, f) ==
  /\ Forest(h) /\ K \subseteq Tops(h)
  /\ IsInjective(f) /\ ToSet(f) = Below(h, Tops(h) \ K)

OwnInv == IsWhole(heap) /\ ~crashed => Owned(heap, Kept, freed)

(* Nodes below different nodes that are not linked are different. *)
LEMMA BelowIsApart ==
  ASSUME NEW h \in Seq(Node), Forest(h), NEW T \in SUBSET Tops(h), NEW U \in SUBSET Tops(h), T \cap U = {}
  PROVE  Below(h, T) \cap Below(h, U) = {}
<1>1. SUFFICES ASSUME NEW t \in T, NEW u \in U PROVE Subtree(h, t) \cap Subtree(h, u) = {}
  BY DEF Below
<1>2. t \in DOMAIN h /\ u \in DOMAIN h /\ t # u /\ h[t].parent = h[u].parent
  BY DEF Tops
<1>3. QED
  BY <1>2, SiblingsAreApart

(* The invariant says who owns each node. *)
LEMMA OwnedNodes == ASSUME heap \in Seq(Node), OwnInv PROVE NodesAreOwned
<1>1. SUFFICES ASSUME IsWhole(heap), ~crashed
               PROVE  /\ IsInjective(freed) /\ Held \cap ToSet(freed) = {}
                      /\ Held \cup ToSet(freed) = DOMAIN heap
  BY DEF NodesAreOwned
<1>2. /\ Forest(heap) /\ Kept \subseteq Tops(heap)
      /\ IsInjective(freed) /\ ToSet(freed) = Below(heap, Tops(heap) \ Kept)
  BY <1>1 DEF OwnInv, Owned
<1> DEFINE A == Below(heap, Kept)
           B == Below(heap, Tops(heap) \ Kept)
<1>3. Held = A
  BY DEF Held, Below, Kept
<1>4. A \cap B = {}
  BY <1>2, BelowIsApart
<1>5. \A n \in DOMAIN heap : n \in A \cup B
  BY <1>2, AllBelowTops DEF Below
<1>6. A \subseteq DOMAIN heap /\ B \subseteq DOMAIN heap
  BY <1>2, SubtreeSteps DEF Below, Tops, Forest
<1> HIDE DEF A, B
<1>7. ToSet(freed) = B
  BY <1>2 DEF B
<1>8. QED
  BY <1>2, <1>3, <1>4, <1>5, <1>6, <1>7

(* The nodes the frames hold are different. *)
LEMMA FramesApart ==
  ASSUME JsonFits, stack # <<>>
  PROVE  /\ \A i \in DOMAIN stack : i # Len(stack) => stack[i].node # Top.node
         /\ Len(stack) > 1 => Top.node # Root
         /\ {stack[i].node : i \in DOMAIN stack}
              = {Top.node} \cup {stack[i].node : i \in 1..(Len(stack) - 1)}
<1>1. /\ Len(stack) \in Nat \ {0} /\ DOMAIN stack = 1..Len(stack) /\ Len(stack) \in DOMAIN stack
      /\ Top = stack[Len(stack)]
  BY FrameType DEF JsonFits
<1>2. \A i \in DOMAIN stack : stack[i].node \in Nat
  BY DEF JsonFits, JsonTypeOK
<1>3. \A i \in DOMAIN stack : i # Len(stack) => stack[i].node # Top.node
  <2>1. SUFFICES ASSUME NEW i \in DOMAIN stack, i # Len(stack) PROVE stack[i].node # Top.node
    OBVIOUS
  <2>2. i < Len(stack)
    BY <1>1, <2>1
  <2>3. stack[i].node < stack[Len(stack)].node
    BY <1>1, <2>2 DEF JsonFits, StackFits
  <2>4. QED
    BY <1>1, <1>2, <2>3
<1>4. Len(stack) > 1 => Top.node # Root
  BY <1>1, <1>3 DEF JsonFits, StackFits
<1>5. \A i \in DOMAIN stack : i = Len(stack) \/ i \in 1..(Len(stack) - 1)
  BY <1>1
<1>6. 1..(Len(stack) - 1) \subseteq DOMAIN stack
  BY <1>1
<1>7. QED
  BY <1>1, <1>3, <1>4, <1>5, <1>6


(* A new node is owned by who keeps it. *)
LEMMA OwnNew ==
  ASSUME NEW h \in Seq(Node), NEW K, NEW f, Owned(h, K, f),
         NEW node \in Node, node.children = <<>>, node.parent = NULL
  PROVE  Owned(Append(h, node), K \cup {Len(h) + 1}, f)
<1> DEFINE g == Append(h, node)
           new == Len(h) + 1
<1>1. /\ g \in Seq(Node) /\ DOMAIN g = DOMAIN h \cup {new} /\ \A n \in DOMAIN h : g[n] = h[n]
      /\ Forest(g) /\ Tops(g) = Tops(h) \cup {new}
  BY LeafJoins DEF Owned
<1>2. Forest(h) /\ K \subseteq Tops(h) /\ Descends(h) /\ Descends(g) /\ Tops(h) \subseteq DOMAIN h
  BY <1>1 DEF Owned, Forest, Tops
<1>3. new \notin DOMAIN h
  <2>1. DOMAIN h = 1..Len(h) /\ Len(h) \in Nat
    OBVIOUS
  <2>2. QED
    BY <2>1
<1> HIDE DEF g, new
<1>4. Tops(g) \ (K \cup {new}) = Tops(h) \ K
  BY <1>1, <1>2, <1>3
<1>5. \A t \in DOMAIN h : Subtree(g, t) = Subtree(h, t)
  <2>1. SUFFICES ASSUME NEW t \in DOMAIN h PROVE Subtree(g, t) = Subtree(h, t)
    OBVIOUS
  <2>2. \A x \in Subtree(h, t) : g[x].children = h[x].children
    BY <1>1, <1>2, SubtreeIsLater
  <2>3. QED
    BY <1>1, <1>2, <2>2, SameBelow
<1>6. Below(g, Tops(h) \ K) = Below(h, Tops(h) \ K)
  BY <1>2, <1>5 DEF Below
<1>7. Owned(g, K \cup {new}, f)
  BY <1>1, <1>2, <1>4, <1>6 DEF Owned
<1>8. QED
  BY <1>7 DEF g, new

(* A node that is linked to one that is kept is kept with it. *)
LEMMA OwnJoin ==
  ASSUME NEW h \in Seq(Node), NEW K, NEW f, Owned(h, K, f), NEW p \in K, NEW n \in K, p < n,
         NEW g, Joins(g, h, p, n)
  PROVE  Owned(g, K \ {n}, f)
<1>1. Forest(h) /\ K \subseteq Tops(h) /\ Descends(h) /\ Tops(h) \subseteq DOMAIN h
  BY DEF Owned, Forest, Tops
<1>2. /\ g \in Seq(Node) /\ DOMAIN g = DOMAIN h /\ \A m \in DOMAIN h \ {p} : g[m].children = h[m].children
  BY DEF Joins, Links
<1>3. Forest(g) /\ Tops(g) = Tops(h) \ {n} /\ Descends(g)
  <2>1. p \in DOMAIN h /\ n \in DOMAIN h /\ n \in Tops(h)
    BY <1>1
  <2>2. Forest(g) /\ Tops(g) = Tops(h) \ {n}
    BY <1>1, <2>1, NodeJoins
  <2>3. QED
    BY <2>2 DEF Forest
<1>4. Tops(g) \ (K \ {n}) = Tops(h) \ K
  BY <1>3
<1>5. \A t \in Tops(h) \ K : Subtree(g, t) = Subtree(h, t)
  <2>1. SUFFICES ASSUME NEW t \in Tops(h) \ K PROVE Subtree(g, t) = Subtree(h, t)
    OBVIOUS
  <2>2. t # p /\ t \in DOMAIN h /\ p \in DOMAIN h /\ h[t].parent = h[p].parent
    BY <1>1 DEF Tops
  <2>3. Subtree(h, t) \cap Subtree(h, p) = {} /\ p \in Subtree(h, p)
    BY <1>1, <2>2, SiblingsAreApart, SubtreeIsLater
  <2>4. \A x \in Subtree(h, t) : g[x].children = h[x].children
    BY <1>1, <1>2, <2>2, <2>3, SubtreeIsLater
  <2>5. QED
    BY <1>1, <1>2, <1>3, <2>2, <2>4, SameBelow
<1>6. Below(g, Tops(h) \ K) = Below(h, Tops(h) \ K)
  BY <1>5 DEF Below
<1>7. QED
  BY <1>1, <1>3, <1>4, <1>6 DEF Owned

(* A node that is deleted with all below it was not freed before. *)
LEMMA OwnFree ==
  ASSUME NEW h \in Seq(Node), NEW K, NEW f \in Seq(DOMAIN h), Owned(h, K, f), NEW n \in K
  PROVE  Owned(h, K \ {n}, f \o ConfigDelete(h, n))
<1>1. /\ Forest(h) /\ K \subseteq Tops(h) /\ Descends(h) /\ Tops(h) \subseteq DOMAIN h
      /\ IsInjective(f) /\ ToSet(f) = Below(h, Tops(h) \ K)
  BY DEF Owned, Forest, Tops
<1> DEFINE d == ConfigDelete(h, n)
<1>2. d \in Seq(DOMAIN h) /\ IsInjective(d) /\ ToSet(d) = Subtree(h, n)
  BY <1>1, DeleteSteps, DeleteFreesOnce
<1>3. Below(h, {n}) = Subtree(h, n)
  BY DEF Below
<1>4. Below(h, Tops(h) \ K) \cap Below(h, {n}) = {}
  BY <1>1, BelowIsApart
<1> HIDE DEF d
<1>5. IsInjective(f \o d) /\ ToSet(f \o d) = ToSet(f) \cup ToSet(d)
  <2>1. IsInjective(f) /\ IsInjective(d) /\ ToSet(f) \cap ToSet(d) = {}
    BY <1>1, <1>2, <1>3, <1>4
  <2>2. QED
    BY <1>2, <2>1, TogetherInjective
<1>6. Tops(h) \ (K \ {n}) = (Tops(h) \ K) \cup {n}
  BY <1>1
<1>7. Below(h, (Tops(h) \ K) \cup {n}) = Below(h, Tops(h) \ K) \cup Subtree(h, n)
  BY DEF Below
<1>8. Owned(h, K \ {n}, f \o d)
  BY <1>1, <1>2, <1>5, <1>6, <1>7 DEF Owned
<1>9. QED
  BY <1>8 DEF d

(* The nodes that running calls hold. *)
FrameNodes(s) == {s[i].node : i \in DOMAIN s}

LEMMA KeptFrames ==
  ASSUME JsonFits, stage # "DONE", stack # <<>>
  PROVE  /\ Kept = FrameNodes(stack) /\ Top.node \in Kept /\ heap # <<>>
         /\ Len(stack) > 1 => Caller.node \in Kept
<1>1. /\ Len(stack) \in Nat \ {0} /\ DOMAIN stack = 1..Len(stack) /\ Len(stack) \in DOMAIN stack
      /\ Top = stack[Len(stack)] /\ Top.node \in DOMAIN heap
      /\ Len(stack) > 1 => Len(stack) - 1 \in DOMAIN stack
  BY FrameType DEF JsonFits
<1>2. heap # <<>>
  BY <1>1
<1>3. 1 \in DOMAIN stack /\ stack[1].node = Root
  BY <1>1 DEF JsonFits, StackFits
<1>4. Root \in FrameNodes(stack)
  BY <1>3 DEF FrameNodes
<1>5. Kept = FrameNodes(stack)
  BY <1>4 DEF Kept, Deleted, FrameNodes
<1>6. QED
  BY <1>1, <1>2, <1>5 DEF FrameNodes, Caller

LEMMA KeptFramesNext ==
  ASSUME JsonFits', stage' # "DONE", stack' # <<>>
  PROVE  Kept' = FrameNodes(stack')
<1>1. stack' \in Seq(Frame) /\ \A i \in DOMAIN stack' : stack'[i].node \in DOMAIN heap'
  BY DEF JsonFits, JsonTypeOK
<1>2. 1 \in DOMAIN stack'
  BY <1>1
<1>3. stack'[1].node = Root /\ heap' # <<>>
  BY <1>1, <1>2 DEF JsonFits, StackFits
<1>4. Root \in FrameNodes(stack')
  BY <1>2, <1>3 DEF FrameNodes
<1>5. QED
  BY <1>3, <1>4 DEF Kept, Deleted, FrameNodes

(* What the running calls hold after one of them has ended. *)
LEMMA FrameLeaves ==
  ASSUME JsonFits, Len(stack) > 1,
         stack' = Front(stack) \/ stack' = Return(Caller)
  PROVE  stack' # <<>> /\ FrameNodes(stack') = FrameNodes(stack) \ {Top.node}
<1>0. JsonTypeOK /\ stack # <<>> /\ stack \in Seq(Frame)
  BY DEF JsonFits, JsonTypeOK
<1>1. /\ stack' # <<>> /\ DOMAIN stack' = 1..(Len(stack) - 1)
      /\ \A i \in DOMAIN stack' : stack'[i].node = stack[i].node
  <2>1. CASE stack' = Front(stack)
    BY <1>0, <2>1, PopType
  <2>2. CASE stack' = Return(Caller)
    <3> DEFINE s == Return(Caller)
               up == Len(stack) - 1
    <3>1. /\ s # <<>> /\ DOMAIN s = 1..up /\ s[up].node = Caller.node
          /\ \A i \in 1..(up - 1) : s[i] = stack[i]
      BY <1>0, ReturnType
    <3>2. Caller = stack[up]
      BY DEF Caller
    <3>3. up \in Nat /\ \A i \in 1..up : i = up \/ i \in 1..(up - 1)
      BY <1>0
    <3> HIDE DEF s, up
    <3>4. \A i \in DOMAIN s : s[i].node = stack[i].node
      BY <3>1, <3>2, <3>3
    <3>5. s = stack'
      BY <2>2 DEF s
    <3>6. QED
      BY <3>1, <3>4, <3>5 DEF up
  <2>3. QED
    BY <2>1, <2>2
<1>2. /\ \A i \in DOMAIN stack : i # Len(stack) => stack[i].node # Top.node
      /\ {stack[i].node : i \in DOMAIN stack}
              = {Top.node} \cup {stack[i].node : i \in 1..(Len(stack) - 1)}
  BY <1>0, FramesApart
<1>3. \A i \in 1..(Len(stack) - 1) : stack[i].node # Top.node
  BY <1>0, <1>2
<1>4. FrameNodes(stack') = {stack[i].node : i \in 1..(Len(stack) - 1)}
  BY <1>1 DEF FrameNodes
<1>5. QED
  BY <1>1, <1>2, <1>3, <1>4 DEF FrameNodes

(* Every step of the recursion over a document keeps the nodes owned. *)
LEMMA JsonOwnStep ==
  ASSUME JsonFits, IsDocument(document), JsonNext, JsonFits', OwnInv, ~crashed,
         stage # "DONE", stage' # "DONE", crashed' = (json'.pc = "CRASHED")
  PROVE  OwnInv'
<1>0. /\ JsonTypeOK /\ heap \in Seq(Node) /\ heap' \in Seq(Node) /\ freed \in Seq(DOMAIN heap)
      /\ stack \in Seq(Frame)
      /\ json.pc \in {"RUN", "UNWIND"} => stack # <<>>
  BY DEF JsonFits, JsonTypeOK, StackFits
<1>1. SUFFICES ASSUME IsWhole(heap)', ~(crashed') PROVE Owned(heap', Kept', freed')
  BY DEF OwnInv
<1>2. CASE JsonMember \/ JsonKeyFails \/ JsonStringFails
  <2>1. MoreMembers /\ \E node : CallsFor(node)
    BY <1>2, CallSteps
  <2>2. stack # <<>>
    BY <1>0, <2>1 DEF MoreMembers, Running
  <2>3. PICK node : CallsFor(node)
    BY <2>1
  <2> DEFINE new == Len(heap) + 1
             f == [doc |-> NextMember, node |-> new, at |-> 1]
  <2>4. /\ node \in Node /\ node.children = <<>> /\ node.parent = NULL
        /\ heap' = Append(heap, node) /\ stack' = Append(stack, f) /\ freed' = freed
    BY <2>3 DEF CallsFor, Call
  <2>5. /\ DOMAIN heap' = DOMAIN heap \cup {new} /\ \A n \in DOMAIN heap : heap'[n] = heap[n]
    BY <1>0, <2>4, LeafJoins
  <2>6. IsWhole(heap)
    BY <1>1, <2>5 DEF IsWhole
  <2>7. Owned(heap, Kept, freed)
    BY <2>6 DEF OwnInv
  <2>8. Owned(heap', Kept \cup {new}, freed')
    BY <1>0, <2>4, <2>7, OwnNew
  <2>9. /\ stack' # <<>> /\ FrameNodes(stack') = FrameNodes(stack) \cup {f.node}
    <3>1. NextMember \in DOMAIN document /\ IsDocument(document)
      BY <1>0, <2>1, <2>2, NextMemberType
    <3>2. f \in Frame
      <4>1. NextMember \in Nat /\ new \in Nat
        BY <1>0, <3>1 DEF JsonTypeOK
      <4>2. QED
        BY <4>1 DEF Frame
    <3> HIDE DEF f
    <3>3. /\ stack' # <<>> /\ DOMAIN stack' = DOMAIN stack \cup {Len(stack) + 1}
          /\ stack'[Len(stack) + 1] = f /\ \A i \in DOMAIN stack : stack'[i] = stack[i]
      BY <1>0, <2>4, <3>2, PushType
    <3>4. QED
      BY <3>3 DEF FrameNodes
  <2>10. FrameNodes(stack') = FrameNodes(stack) \cup {new}
    BY <2>9
  <2>11. Kept = FrameNodes(stack) /\ Kept' = FrameNodes(stack')
    <3>1. Kept = FrameNodes(stack)
      BY <2>2, KeptFrames
    <3>2. Kept' = FrameNodes(stack')
      BY <2>9, KeptFramesNext
    <3>3. QED
      BY <3>1, <3>2
  <2> HIDE DEF new
  <2>12. QED
    BY <2>8, <2>10, <2>11
<1>3. CASE JsonMemberFails \/ JsonNull
  BY <1>1, <1>3 DEF JsonMemberFails, JsonNull, OwnInv, Owned, Kept, Deleted
<1>4. CASE JsonLink
  <2>1. Len(stack) > 1 /\ stack # <<>> /\ stack' = Return(Caller) /\ freed' = freed
    BY <1>0, <1>4 DEF JsonLink, Returning
  <2> DEFINE p == Caller.node
             n == Top.node
  <2>2. /\ Joins(heap', heap, p, n)
        /\ \A m \in DOMAIN heap : heap'[m].lost = heap[m].lost
    BY <1>4, LinkStep
  <2>3. DOMAIN heap' = DOMAIN heap
    BY <2>2 DEF Joins
  <2>4. IsWhole(heap)
    BY <1>1, <2>2, <2>3 DEF IsWhole
  <2>5. Owned(heap, Kept, freed)
    BY <2>4 DEF OwnInv
  <2>6. p \in Kept /\ n \in Kept /\ p < n /\ Kept = FrameNodes(stack)
    BY <2>1, KeptFrames, ReturningType
  <2>7. Owned(heap', Kept \ {n}, freed')
    BY <1>0, <2>1, <2>2, <2>5, <2>6, OwnJoin
  <2>8. stack' # <<>> /\ FrameNodes(stack') = FrameNodes(stack) \ {n}
    BY <2>1, FrameLeaves
  <2>9. Kept' = FrameNodes(stack')
    BY <2>8, KeptFramesNext
  <2>10. QED
    BY <2>6, <2>7, <2>8, <2>9
<1>5. CASE JsonLinkFails \/ JsonUnwind
  <2>1. /\ Len(stack) > 1 /\ stack # <<>> /\ stack' = Front(stack)
        /\ freed' = freed \o ConfigDelete(heap, Top.node)
    BY <1>0, <1>5 DEF JsonLinkFails, JsonUnwind, Returning
  <2>2. heap' = heap
    <3>1. CASE JsonLinkFails
      <4>1. heap' = [heap EXCEPT ![Caller.node] = LoseChildren(@)]
        BY <3>1 DEF JsonLinkFails
      <4>2. QED
        BY <1>1, <2>1, <4>1, LostFits
    <3>2. CASE JsonUnwind
      BY <3>2 DEF JsonUnwind
    <3>3. QED
      BY <1>5, <3>1, <3>2
  <2>3. Owned(heap, Kept, freed)
    BY <1>1, <2>2 DEF OwnInv
  <2>4. Top.node \in Kept /\ Kept = FrameNodes(stack)
    BY <2>1, KeptFrames
  <2>5. Owned(heap', Kept \ {Top.node}, freed')
    BY <1>0, <2>1, <2>2, <2>3, <2>4, OwnFree
  <2>6. stack' # <<>> /\ FrameNodes(stack') = FrameNodes(stack) \ {Top.node}
    BY <2>1, FrameLeaves
  <2>7. Kept' = FrameNodes(stack')
    BY <2>6, KeptFramesNext
  <2>8. QED
    BY <2>4, <2>5, <2>6, <2>7
<1>6. CASE JsonEnd
  <2>0. /\ Len(stack) = 1 /\ stack' = <<>> /\ UNCHANGED <<heap, freed>>
    BY <1>6 DEF JsonEnd
  <2>1. stack # <<>>
    <3>1. Len(<<>>) = 0
      OBVIOUS
    <3>2. Len(stack) = 1
      BY <2>0
    <3>3. QED
      BY <3>1, <3>2
  <2>2. Owned(heap, Kept, freed)
    BY <1>1, <2>0 DEF OwnInv
  <2>3. Kept = {Root} /\ heap # <<>>
    <3>1. DOMAIN stack = {1} /\ stack[1].node = Root
      BY <1>0, <2>0, <2>1 DEF JsonFits, StackFits
    <3>2. FrameNodes(stack) = {Root}
      BY <3>1 DEF FrameNodes
    <3>3. QED
      BY <2>1, <3>2, KeptFrames
  <2>4. Kept' = {Root}
    BY <2>0, <2>3 DEF Kept, Deleted
  <2>5. QED
    BY <2>0, <2>2, <2>3, <2>4
<1>7. CASE JsonIndexCrash \/ JsonUnwindCrash
  <2>1. json'.pc = "CRASHED"
    BY <1>7 DEF JsonIndexCrash, JsonUnwindCrash, JsonGoto
  <2>2. QED
    BY <1>1, <2>1, Zenon
<1>8. QED
  BY <1>2, <1>3, <1>4, <1>5, <1>6, <1>7 DEF JsonNext

(* When nothing was freed all that is not linked is kept. *)
LEMMA OwnAll ==
  ASSUME NEW h, Forest(h)
  PROVE  Owned(h, Tops(h), <<>>)
<1>1. Tops(h) \ Tops(h) = {} /\ Below(h, {}) = {}
  BY DEF Below
<1>2. ToSet(<<>>) = {} /\ IsInjective(<<>>)
  BY DEF ToSet, IsInjective
<1>3. QED
  BY <1>1, <1>2 DEF Owned

(* The first step of a load: the top node, if there is one, is kept. *)
LEMMA JsonOwnStart ==
  ASSUME JsonFits, heap = <<>>, DocumentFits, stage' # "DONE",
         JsonLoad \/ JsonLoadWithoutKey \/ JsonLoadFails
  PROVE  OwnInv'
<1>1. SUFFICES Owned(heap', Kept', freed')
  BY DEF OwnInv
<1>2. json.pc = "IDLE" /\ stack = <<>> /\ freed \in Seq({}) /\ freed' = freed
  <2>1. json.pc = "IDLE" /\ freed' = freed
    BY DEF JsonLoad, JsonLoadWithoutKey, JsonLoadAs, JsonLoadFails
  <2>2. QED
    BY <2>1 DEF JsonFits, JsonTypeOK, StackFits
<1>3. freed' = <<>>
  BY <1>2
<1>4. Forest(heap') /\ Kept' = Tops(heap')
  <2>1. CASE heap' = <<>>
    <3>1. stack' = <<>>
      BY <1>2, <2>1 DEF JsonLoad, JsonLoadWithoutKey, JsonLoadAs, JsonLoadFails
    <3>2. Kept' = {}
      BY <2>1, <3>1 DEF Kept
    <3>3. QED
      BY <2>1, <3>2, NoNode
  <2>2. CASE heap' # <<>>
    <3>1. \E node \in Node : /\ node.children = <<>> /\ node.parent = NULL /\ ~node.lost
                             /\ heap' = <<node>>
      <4>1. CASE JsonLoad \/ JsonLoadWithoutKey
        <5>1. \E key \in Keys \cup {NoKey} :
                heap' = <<Transform([ConfigNew EXCEPT !.key = key], document[1])>>
          BY <4>1, JsonAssumption DEF JsonLoad, JsonLoadWithoutKey, JsonLoadAs
        <5>2. IsDocument(document) /\ document[1].type # "NULL" /\ 1 \in DOMAIN document
          BY DEF DocumentFits, IsDocument
        <5>3. signed \in BOOLEAN
          BY DEF JsonFits, JsonTypeOK
        <5>4. QED
          BY <5>1, <5>2, <5>3, TransformType
      <4>2. CASE JsonLoadFails
        <5> DEFINE node == [ConfigNew EXCEPT !.key = "config", !.type = "OBJECT", !.isSigned = signed]
        <5>1. heap' = <<node>>
          BY <2>2, <4>2 DEF JsonLoadFails
        <5>2. signed \in BOOLEAN /\ "config" \in Keys
          BY JsonAssumption DEF JsonFits, JsonTypeOK
        <5>3. node \in Node /\ node.children = <<>> /\ node.parent = NULL /\ ~node.lost
          BY <5>2, NewNodeType DEF ConfigNew, Node, ContainerTypes
        <5> HIDE DEF node
        <5>4. QED
          BY <5>1, <5>3
      <4>3. QED
        BY <4>1, <4>2
    <3>2. Forest(heap') /\ Tops(heap') = {Root} /\ heap' # <<>>
      BY <3>1, OneNode
    <3>3. {stack'[i].node : i \in DOMAIN stack'} \subseteq {Root}
      <4>1. CASE stack' = stack
        BY <1>2, <4>1
      <4>2. CASE stack' = Call(1, Root)
        <5>1. DOMAIN stack' = {1} /\ stack'[1].node = Root
          BY <1>2, <4>2 DEF Call
        <5>2. QED
          BY <5>1
      <4>3. QED
        BY <4>1, <4>2 DEF JsonLoad, JsonLoadWithoutKey, JsonLoadAs, JsonLoadFails
    <3>4. Kept' = {Root}
      BY <3>2, <3>3 DEF Kept, Deleted
    <3>5. QED
      BY <3>2, <3>4
  <2>3. QED
    BY <2>1, <2>2
<1>5. QED
  BY <1>3, <1>4, OwnAll

(* The steps of samconfLoad around the load. *)
LEMMA QuietOwnStep ==
  ASSUME heap \in Seq(Node), freed \in Seq(DOMAIN heap), stage = "DELETE" => stack = <<>>,
         OwnInv, [Next]_vars, ~LoadEnv, ~LoadJson
  PROVE  OwnInv'
<1>1. CASE Delete
  <2>1. SUFFICES ASSUME IsWhole(heap)', ~(crashed') PROVE Owned(heap', Kept', freed')
    BY DEF OwnInv
  <2>2. /\ stage = "DELETE" /\ stage' = "DONE" /\ status' = status /\ ~crashed
        /\ UNCHANGED <<heap, stack>>
        /\ freed' = IF status = "OK" \/ heap = <<>> THEN freed
                    ELSE freed \o ConfigDelete(heap, Root)
    BY <1>1 DEF Delete, Stage, insertVars
  <2>3. Owned(heap, Kept, freed)
    BY <2>1, <2>2 DEF OwnInv
  <2>4. CASE status = "OK" \/ heap = <<>>
    <3>1. Kept' = Kept /\ freed' = freed
      BY <2>2, <2>4 DEF Kept, Deleted
    <3>2. QED
      BY <2>2, <2>3, <3>1
  <2>5. CASE status # "OK" /\ heap # <<>>
    <3>1. stack = <<>>
      BY <2>2
    <3>2. Kept = {Root} /\ Kept' = {}
      BY <2>2, <2>5, <3>1 DEF Kept, Deleted
    <3>3. Owned(heap, Kept \ {Root}, freed \o ConfigDelete(heap, Root))
      BY <2>3, <3>2, OwnFree
    <3>4. Kept \ {Root} = Kept'
      BY <3>2
    <3>5. QED
      BY <2>2, <2>5, <3>3, <3>4
  <2>6. QED
    BY <2>4, <2>5
<1>2. CASE OpenEnvCrash \/ DeleteCrash
  BY <1>2 DEF OpenEnvCrash, DeleteCrash, OwnInv
<1>3. ASSUME UNCHANGED <<heap, stack, freed>>, crashed' = crashed, Deleted' = Deleted
      PROVE  OwnInv'
  <2>1. Kept' = Kept
    BY <1>3 DEF Kept
  <2>2. SUFFICES ASSUME IsWhole(heap)', ~(crashed') PROVE Owned(heap', Kept', freed')
    BY DEF OwnInv
  <2>3. Owned(heap, Kept, freed)
    BY <1>3, <2>2 DEF OwnInv
  <2>4. QED
    BY <1>3, <2>1, <2>3
<1>4. CASE OpenJson \/ OpenEnv \/ OpenEnvWithoutQuery \/ OpenFails
  <2>1. /\ UNCHANGED <<heap, stack, freed>> /\ crashed' = crashed /\ stage = "OPEN"
        /\ stage' \in {"LOAD", "DELETE"}
    BY <1>4 DEF OpenJson, OpenEnv, OpenEnvWithoutQuery, OpenFails, OpenWith, Stage, insertVars,
       jsonVars
  <2>2. QED
    BY <1>3, <2>1 DEF Deleted
<1>5. CASE Loaded \/ Close \/ CloseFails
  <2>1. /\ UNCHANGED <<heap, stack, freed>> /\ crashed' = crashed /\ stage # "DONE"
        /\ stage' # "DONE"
    BY <1>5 DEF Loaded, Close, CloseFails, Stage, Unchanged, insertVars, jsonVars
  <2>2. QED
    BY <1>3, <2>1 DEF Deleted
<1>6. CASE UNCHANGED vars
  BY <1>3, <1>6 DEF vars, insertVars, jsonVars, backendVars, Deleted
<1>7. QED
  BY <1>1, <1>2, <1>4, <1>5, <1>6 DEF Next

LEMMA OwnStep == ASSUME TypeInv, TypeInv', OwnInv, [Next]_vars PROVE OwnInv'
<1>1. at.backend \in {"JSON", "ENV"} /\ StageTypeOK
  BY LocationType DEF TypeInv, StageTypeOK
<1>2. CASE at.backend = "JSON"
  <2>1. JsonInv /\ JsonFits /\ at' = at
    BY <1>1, <1>2, JsonInvStep DEF TypeInv, JsonInv
  <2>2. JsonFits'
    BY <1>2, <2>1 DEF TypeInv, JsonInv
  <2>3. CASE LoadJson
    <3>1. /\ stage = "LOAD" /\ stage' = "LOAD" /\ ~crashed /\ crashed' = (json'.pc = "CRASHED")
          /\ document = at.file /\ at.file \in JsonFiles \ {NoFile, BadFile}
      BY <2>1, <2>3 DEF LoadJson, Stage, JsonInv
    <3>2. IsDocument(document) /\ DocumentFits
      BY <3>1, DocumentIsOne DEF DocumentFits
    <3>3. CASE JsonNext
      BY <2>1, <2>2, <3>1, <3>2, <3>3, JsonOwnStep
    <3>4. CASE JsonLoad \/ JsonLoadWithoutKey \/ JsonLoadFails
      <4>1. heap = <<>>
        BY <2>1, <3>4 DEF JsonInv, JsonLoad, JsonLoadWithoutKey, JsonLoadAs, JsonLoadFails
      <4>2. QED
        BY <2>1, <3>1, <3>2, <3>4, <4>1, JsonOwnStart
    <3>5. QED
      BY <2>3, <3>3, <3>4 DEF LoadJson
  <2>4. CASE ~LoadJson
    <3>1. heap \in Seq(Node) /\ freed \in Seq(DOMAIN heap)
      BY <2>1 DEF JsonFits, JsonTypeOK
    <3>2. stage = "DELETE" => stack = <<>>
      BY <2>1 DEF JsonInv, JsonFits, StackFits
    <3>3. ~LoadEnv
      BY <1>2 DEF LoadEnv
    <3>4. QED
      BY <2>4, <3>1, <3>2, <3>3, QuietOwnStep
  <2>5. QED
    BY <2>3, <2>4
<1>3. CASE at.backend = "ENV"
  <2>1. EnvInv /\ at' = at
    BY <1>1, <1>3, EnvInvStep DEF TypeInv
  <2>2. EnvInv'
    BY <1>3, <2>1 DEF TypeInv
  <2>3. CASE LoadEnv
    <3>1. SUFFICES ASSUME IsWhole(heap)' PROVE Owned(heap', Kept', freed')
      BY DEF OwnInv
    <3>2. stage' = "LOAD"
      BY <2>3 DEF LoadEnv, Stage
    <3>3. /\ heap' \in Seq(Node) /\ freed' = <<>> /\ stack' = <<>>
          /\ heap' # <<>> => IsTree(heap')
      BY <2>2, <3>1, <3>2 DEF EnvInv, EnvFits
    <3>4. Forest(heap') /\ Kept' = Tops(heap')
      <4>1. CASE heap' = <<>>
        BY <3>3, <4>1, NoNode DEF Kept
      <4>2. CASE heap' # <<>>
        <5>1. Kept' = {Root}
          BY <3>2, <3>3, <4>2 DEF Kept, Deleted
        <5>2. QED
          BY <3>3, <4>2, <5>1, TreeIsForest
      <4>3. QED
        BY <4>1, <4>2
    <3>5. QED
      BY <3>3, <3>4, OwnAll
  <2>4. CASE ~LoadEnv
    <3>1. heap \in Seq(Node) /\ freed \in Seq(DOMAIN heap) /\ stack = <<>>
      BY <2>1 DEF EnvInv, EnvFits
    <3>2. ~LoadJson
      BY <1>3 DEF LoadJson
    <3>3. QED
      BY <2>4, <3>1, <3>2, QuietOwnStep
  <2>5. QED
    BY <2>3, <2>4
<1>4. QED
  BY <1>1, <1>2, <1>3

(* Every node a backend has made is in the tree, held by a running call, or  *)
(* was freed, once: the cleanups of _transform_json_to_config and of         *)
(* samconfLoad free neither too little nor a node twice, whatever is loaded  *)
(* and wherever it fails, until a child list is lost.                        *)
THEOREM EveryNodeIsOwned == Spec => []NodesAreOwned
<1>1. Init => TypeInv /\ OwnInv
  <2>1. SUFFICES ASSUME Init PROVE TypeInv /\ Owned(heap, Kept, freed)
    BY DEF OwnInv
  <2>2. heap = <<>> /\ stack = <<>> /\ freed = <<>>
    BY <2>1 DEF Init
  <2>3. Forest(heap) /\ Kept = Tops(heap)
    BY <2>2, NoNode DEF Kept
  <2>4. QED
    BY <2>1, <2>2, <2>3, InitInv, OwnAll
<1>2. TypeInv /\ OwnInv /\ [Next]_vars => (TypeInv /\ OwnInv)'
  BY TypeStep, OwnStep
<1>3. TypeInv /\ OwnInv => NodesAreOwned
  <2>1. SUFFICES ASSUME TypeInv, OwnInv PROVE NodesAreOwned
    OBVIOUS
  <2>2. heap \in Seq(Node)
    BY <2>1, LocationType DEF TypeInv, StageTypeOK, JsonInv, JsonFits, EnvInv, EnvFits
  <2>3. QED
    BY <2>1, <2>2, OwnedNodes
<1>4. QED
  BY <1>1, <1>2, <1>3, PTL DEF Spec

-------------------------------------------------------------------------------
(***************************************************************************)
(* What the JSON backend loads with OK is the document.                    *)
(***************************************************************************)

(* The last value in the text of each value. *)
IsEnd(doc, end) ==
  /\ end \in [DOMAIN doc -> DOMAIN doc]
  /\ end[1] = Len(doc)
  /\ \A i \in DOMAIN doc :
       /\ end[i] = IF doc[i].members = <<>> THEN i ELSE end[Last(doc[i].members)]
       /\ \A k \in DOMAIN doc[i].members :
            doc[i].members[k] = 1 + IF k = 1 THEN i ELSE end[doc[i].members[k - 1]]

End(doc) == CHOOSE end : IsEnd(doc, end)

LEMMA EndIsEnd == ASSUME NEW doc, IsDocument(doc) PROVE IsEnd(doc, End(doc))
<1>1. \E end : IsEnd(doc, end)
  BY DEF IsDocument, InTextOrder, IsEnd
<1>2. QED
  BY <1>1 DEF End

(* The value a call has reached: the node for it is the last one there is. *)
Reached(doc, f) == IF f.at = 1 THEN f.doc ELSE End(doc)[doc[f.doc].members[f.at - 1]]

(* Nodes are made in the order of the values: node n is a copy of value n, *)
(* with its key or, after a failure, without.                              *)
Copies(node, value, mark) ==
  /\ node.type = value.type
  /\ node.value = IF value.type = "INT" THEN Clamp[value.value] ELSE value.value
  /\ node.isSigned = mark /\ ~node.lost

HasKey(node, key, left) == node.key = key \/ (node.key = NoKey /\ left # MaxFaults)

KeyAt(doc, p, k, n) == IF doc[p].type = "ARRAY" THEN IndexKeys[k] ELSE doc[n].key

KeysCopied(h, doc, left) ==
  \A p \in DOMAIN h : \A k \in DOMAIN h[p].children :
    HasKey(h[h[p].children[k]], KeyAt(doc, p, k, h[p].children[k]), left)

FrameCopies(h, doc, left, f) ==
  /\ f.node = f.doc /\ f.at <= Len(doc[f.doc].members) + 1
  /\ h[f.node].children = SubSeq(doc[f.doc].members, 1, f.at - 1)
  /\ HasKey(h[f.node], IF f.node = Root THEN "config" ELSE doc[f.node].key, left)

(* While nothing has stopped the recursion the nodes are the first values of *)
(* the document; only those of running calls do not have all their children. *)
Copying ==
  /\ freed = <<>> /\ Len(heap) = Reached(document, Top)
  /\ \A n \in DOMAIN heap : n \in DOMAIN document /\ Copies(heap[n], document[n], signed)
  /\ \A n \in DOMAIN heap \ FrameNodes(stack) : heap[n].children = document[n].members
  /\ \A i \in DOMAIN stack : FrameCopies(heap, document, faults, stack[i])
  /\ KeysCopied(heap, document, faults)

Copied ==
  /\ heap # <<>> /\ IsTree(heap) /\ DOMAIN heap = DOMAIN document
  /\ \A n \in DOMAIN heap : /\ Copies(heap[n], document[n], signed)
                            /\ heap[n].children = document[n].members
  /\ KeysCopied(heap, document, faults) /\ HasKey(heap[Root], "config", faults)

CopyInv ==
  /\ json.pc = "RUN" => json.status = "OK" /\ Copying
  /\ json.pc = "UNWIND" => json.status # "OK"
  /\ json.pc = "DONE" /\ json.status = "OK" => Copied

(* The next member of the innermost call is the next value of the document. *)
LEMMA NextIsNext ==
  ASSUME JsonFits, IsDocument(document), Copying, stack # <<>>, MoreMembers
  PROVE  NextMember = Len(heap) + 1
<1>1. JsonTypeOK /\ Top.at \in DOMAIN document[Top.doc].members /\ Top.doc \in DOMAIN document
  BY NextMemberType, FrameType DEF JsonFits
<1>2. NextMember = 1 + Reached(document, Top)
  <2>1. IsEnd(document, End(document))
    BY EndIsEnd
  <2>2. document[Top.doc].members[Top.at]
          = 1 + IF Top.at = 1 THEN Top.doc
                ELSE End(document)[document[Top.doc].members[Top.at - 1]]
    BY <1>1, <2>1 DEF IsEnd
  <2>3. QED
    BY <2>2 DEF NextMember, Reached
<1>3. Len(heap) \in Nat /\ Len(heap) = Reached(document, Top)
  BY DEF Copying, JsonFits
<1>4. QED
  BY <1>2, <1>3

LEMMA CopyCall ==
  ASSUME JsonFits, IsDocument(document), faults \in 0..MaxFaults, Copying, json.pc = "RUN",
         JsonMember \/ JsonKeyFails
  PROVE  Copying'
<1>0. /\ JsonTypeOK /\ heap \in Seq(Node) /\ stack \in Seq(Frame) /\ stack # <<>> /\ MoreMembers
      /\ document[NextMember].type # "NULL"
  BY DEF JsonFits, JsonTypeOK, StackFits, JsonMember, JsonKeyFails
<1> DEFINE new == Len(heap) + 1
           f == [doc |-> NextMember, node |-> new, at |-> 1]
<1>1. NextMember \in DOMAIN document /\ document[NextMember].key \in Keys \cup {NoKey}
      /\ NextMember = new /\ new \in Nat
  BY <1>0, NextMemberType, NextIsNext
<1>2. PICK key \in Keys \cup {NoKey} :
        /\ heap' = Append(heap, MemberNode(key))
        /\ \/ key = document[NextMember].key /\ faults' = faults
           \/ key = NoKey /\ Fault
  <2>1. NoKey \in Keys \cup {NoKey}
    OBVIOUS
  <2>2. QED
    BY <1>1, <2>1, Zenon DEF JsonMember, JsonKeyFails
<1> DEFINE node == MemberNode(key)
<1>3. /\ node \in Node /\ node.children = <<>> /\ node.parent = NULL /\ ~node.lost
      /\ node.key = key /\ node.isSigned = signed /\ node.type = document[NextMember].type
      /\ node.value = IF document[NextMember].type = "INT" THEN Clamp[document[NextMember].value]
                      ELSE document[NextMember].value
  BY <1>0, MemberNodeType
<1>4. /\ stack' = Append(stack, f) /\ UNCHANGED <<document, signed, freed>>
  BY DEF JsonMember, JsonKeyFails, Call
<1>5. f \in Frame /\ f.node = new /\ f.doc = new /\ f.at = 1
  BY <1>1 DEF Frame, JsonTypeOK
<1>6. faults' = MaxFaults => faults = MaxFaults /\ key = document[NextMember].key
  BY <1>2 DEF Fault
<1> HIDE DEF f, node
<1>7. /\ heap' \in Seq(Node) /\ DOMAIN heap' = DOMAIN heap \cup {new} /\ Len(heap') = new
      /\ heap'[new] = node /\ \A n \in DOMAIN heap : heap'[n] = heap[n]
  BY <1>0, <1>2, <1>3, LeafJoins DEF node
<1>8. /\ stack' \in Seq(Frame) /\ Len(stack') = Len(stack) + 1
      /\ DOMAIN stack' = DOMAIN stack \cup {Len(stack) + 1}
      /\ stack'[Len(stack) + 1] = f /\ \A i \in DOMAIN stack : stack'[i] = stack[i]
  BY <1>0, <1>4, <1>5, PushType
<1>9. Top' = f
  BY <1>8 DEF Top, Last
<1> HIDE DEF new
<1>10. Len(heap') = Reached(document', Top')
  BY <1>5, <1>7, <1>9 DEF Reached
<1>11. \A n \in DOMAIN heap' : n \in DOMAIN document' /\ Copies(heap'[n], document'[n], signed')
  BY <1>1, <1>3, <1>4, <1>7 DEF Copies, Copying
<1>12. \A n \in DOMAIN heap' \ FrameNodes(stack') : heap'[n].children = document'[n].members
  <2>1. FrameNodes(stack') = FrameNodes(stack) \cup {new}
    BY <1>5, <1>8 DEF FrameNodes
  <2>2. QED
    BY <1>4, <1>7, <2>1 DEF Copying
<1>13. \A x, k : HasKey(x, k, faults) => HasKey(x, k, faults')
  BY <1>6 DEF HasKey
<1>14. \A i \in DOMAIN stack' : FrameCopies(heap', document', faults', stack'[i])
  <2>1. SUFFICES ASSUME NEW i \in DOMAIN stack' PROVE FrameCopies(heap', document', faults', stack'[i])
    OBVIOUS
  <2>2. CASE i \in DOMAIN stack
    <3>1. stack'[i] = stack[i] /\ stack[i].node \in DOMAIN heap /\ FrameCopies(heap, document, faults, stack[i])
      BY <1>0, <1>8, <2>2 DEF JsonTypeOK, Copying
    <3>2. QED
      BY <1>4, <1>7, <1>13, <3>1 DEF FrameCopies
  <2>3. CASE i = Len(stack) + 1
    <3>1. stack'[i] = f
      BY <1>8, <2>3
    <3>2. new # Root
      BY <1>0, <1>1, FrameType DEF Root, new
    <3>3. HasKey(heap'[new], document[new].key, faults')
      BY <1>1, <1>2, <1>3, <1>4, <1>6, <1>7 DEF HasKey
    <3>4. document[new].members \in Seq(Nat)
      BY <1>1, ValueType
    <3>5. SubSeq(document[new].members, 1, 0) = <<>> /\ 1 <= Len(document[new].members) + 1
      BY <3>4
    <3>6. heap'[new].children = SubSeq(document[new].members, 1, f.at - 1)
      <4>1. f.at - 1 = 0 /\ heap'[new].children = <<>>
        BY <1>3, <1>5, <1>7
      <4>2. QED
        BY <3>5, <4>1
    <3>7. FrameCopies(heap', document, faults', f)
      BY <1>5, <3>2, <3>3, <3>5, <3>6 DEF FrameCopies
    <3>8. QED
      BY <1>4, <3>1, <3>7
  <2>4. QED
    BY <1>8, <2>2, <2>3
<1>15. KeysCopied(heap', document', faults')
  <2>1. SUFFICES ASSUME NEW p \in DOMAIN heap', NEW k \in DOMAIN heap'[p].children
                 PROVE  HasKey(heap'[heap'[p].children[k]],
                               KeyAt(document, p, k, heap'[p].children[k]), faults')
    BY <1>4 DEF KeysCopied
  <2>2. p \in DOMAIN heap /\ heap'[p] = heap[p]
    BY <1>3, <1>7
  <2>3. heap[p].children[k] \in DOMAIN heap
    BY <2>2 DEF JsonFits, Descends
  <2>4. QED
    BY <1>7, <1>13, <2>2, <2>3 DEF KeysCopied, Copying
<1>16. QED
  BY <1>4, <1>10, <1>11, <1>12, <1>14, <1>15 DEF Copying

(* A call that returns has reached the end of its value. *)
LEMMA ReturningIsDone ==
  ASSUME JsonFits, IsDocument(document), Copying, stack # <<>>, ~MoreMembers, json.pc = "RUN"
  PROVE  /\ Len(heap) = End(document)[Top.doc]
         /\ heap[Top.node].children = document[Top.doc].members /\ Top.node = Top.doc
<1>1. /\ JsonTypeOK /\ Len(stack) \in DOMAIN stack /\ Top = stack[Len(stack)]
      /\ Top.doc \in DOMAIN document /\ Top.at \in Nat \ {0}
  BY FrameType DEF JsonFits
<1> DEFINE members == document[Top.doc].members
<1>2. members \in Seq(Nat) /\ DOMAIN members = 1..Len(members) /\ Len(members) \in Nat
  BY <1>1, ValueType
<1>3. FrameCopies(heap, document, faults, Top)
  BY <1>1 DEF Copying
<1>4. ~(Top.at <= Len(members)) /\ Top.at <= Len(members) + 1
  BY <1>3 DEF FrameCopies, MoreMembers, Running
<1>5. Top.at = Len(members) + 1
  BY <1>1, <1>2, <1>4
<1>6. IsEnd(document, End(document))
  BY EndIsEnd
<1>7. End(document)[Top.doc] = IF members = <<>> THEN Top.doc ELSE End(document)[Last(members)]
  BY <1>1, <1>6 DEF IsEnd
<1>8. heap[Top.node].children = SubSeq(members, 1, Top.at - 1) /\ Top.node = Top.doc
  BY <1>3 DEF FrameCopies
<1>9. Len(heap) = IF Top.at = 1 THEN Top.doc ELSE End(document)[members[Top.at - 1]]
  BY DEF Copying, Reached
<1> HIDE DEF members
<1>10. SubSeq(members, 1, Len(members)) = members /\ Top.at - 1 = Len(members)
  BY <1>2, <1>5
<1>11. Last(members) = members[Len(members)] /\ (members = <<>> <=> Len(members) = 0)
  BY <1>2 DEF Last
<1>12. heap[Top.node].children = members
  BY <1>8, <1>10
<1>13. Len(heap) = End(document)[Top.doc]
  <2>1. CASE members = <<>>
    BY <1>5, <1>7, <1>9, <1>11, <2>1
  <2>2. CASE members # <<>>
    <3>1. Top.at # 1
      BY <1>2, <1>5, <1>11, <2>2
    <3>2. QED
      BY <1>7, <1>9, <1>10, <1>11, <2>2, <3>1
  <2>3. QED
    BY <2>1, <2>2
<1>14. QED
  BY <1>8, <1>12, <1>13 DEF members

LEMMA CopyLink ==
  ASSUME JsonFits, IsDocument(document), Copying, json.pc = "RUN",
         Forest(heap), Top.node \in Tops(heap), JsonLink
  PROVE  Copying'
<1>0. /\ JsonTypeOK /\ heap \in Seq(Node) /\ stack \in Seq(Frame) /\ stack # <<>>
      /\ Len(stack) > 1 /\ ~MoreMembers
      /\ stack' = Return(Caller) /\ UNCHANGED <<document, signed, freed, faults>>
  BY DEF JsonFits, JsonTypeOK, StackFits, JsonLink, Returning
<1> DEFINE p == Caller.node
           n == Top.node
           up == Len(stack) - 1
           members == document[p].members
           k == Caller.at
<1>1. /\ Joins(heap', heap, p, n)
      /\ \A m \in DOMAIN heap : /\ heap'[m].type = heap[m].type /\ heap'[m].value = heap[m].value
                                /\ heap'[m].isSigned = heap[m].isSigned
                                /\ heap'[m].lost = heap[m].lost
      /\ \A m \in DOMAIN heap \ {n} : heap'[m].key = heap[m].key
      /\ heap'[n].key = IF document[Caller.doc].type = "ARRAY" THEN IndexKeys[Caller.at]
                        ELSE heap[n].key
      /\ \A m \in DOMAIN heap \ {p, n} : heap'[m] = heap[m]
  BY LinkStep
<1>2. /\ up \in DOMAIN stack /\ Caller = stack[up] /\ Len(stack) \in DOMAIN stack
      /\ Top = stack[Len(stack)] /\ p \in DOMAIN heap /\ n \in DOMAIN heap /\ p < n /\ p # n
      /\ n \in Nat /\ p \in Nat /\ up \in Nat \ {0}
  BY <1>0, FrameType, ReturningType
<1>3. /\ FrameCopies(heap, document, faults, Caller) /\ FrameCopies(heap, document, faults, Top)
      /\ Caller.doc = p /\ Top.doc = n
  BY <1>2 DEF Copying, FrameCopies
<1>4. k \in DOMAIN members /\ members[k] = n /\ members \in Seq(Nat) /\ p \in DOMAIN document
      /\ k \in 1..Len(members) /\ Len(members) \in Nat /\ k \in Nat \ {0}
  BY <1>0, <1>3, CallerIsAtTop, ValueType
<1>5. /\ stack' \in Seq(Frame) /\ Len(stack') = up /\ DOMAIN stack' = 1..up
      /\ stack'[up].node = p /\ stack'[up].doc = p /\ stack'[up].at = k + 1
      /\ \A i \in 1..(up - 1) : stack'[i] = stack[i]
  BY <1>0, <1>3, ReturnType
<1>6. Top' = stack'[up]
  BY <1>5 DEF Top, Last
<1>7. Len(heap) = End(document)[n] /\ heap[n].children = document[n].members
  BY <1>0, <1>3, ReturningIsDone
<1>8. /\ heap' \in Seq(Node) /\ DOMAIN heap' = DOMAIN heap /\ heap'[n].children = heap[n].children
      /\ heap'[p].children = Append(heap[p].children, n)
      /\ \A m \in DOMAIN heap \ {p} : heap'[m].children = heap[m].children
  BY <1>1 DEF Joins, Links
<1>9. heap[p].children = SubSeq(members, 1, k - 1)
  BY <1>3 DEF FrameCopies
<1> HIDE DEF p, n, up, members, k
<1>10. Len(heap') = Reached(document', Top')
  <2>1. Len(heap') = Len(heap)
    BY <1>0, <1>8
  <2>2. Reached(document, Top') = End(document)[document[p].members[k]]
    BY <1>4, <1>5, <1>6 DEF Reached
  <2>3. QED
    BY <1>0, <1>4, <1>7, <2>1, <2>2 DEF members
<1>11. \A m \in DOMAIN heap' : m \in DOMAIN document' /\ Copies(heap'[m], document'[m], signed')
  BY <1>0, <1>1, <1>8 DEF Copies, Copying, n
<1>12. FrameNodes(stack') = FrameNodes(stack) \ {n} /\ p \in FrameNodes(stack)
  BY <1>0, <1>2, FrameLeaves DEF n, p, FrameNodes
<1>13. \A m \in DOMAIN heap' \ FrameNodes(stack') : heap'[m].children = document'[m].members
  <2>1. SUFFICES ASSUME NEW m \in DOMAIN heap' \ FrameNodes(stack')
                 PROVE  heap'[m].children = document[m].members
    BY <1>0
  <2>2. CASE m = n
    BY <1>7, <1>8, <2>2
  <2>3. CASE m # n
    <3>1. m \in DOMAIN heap \ FrameNodes(stack) /\ m # p
      BY <1>2, <1>8, <1>12, <2>3
    <3>2. QED
      BY <1>8, <3>1 DEF Copying
  <2>4. QED
    BY <2>2, <2>3
<1>14. heap'[p].children = SubSeq(members, 1, k) /\ Len(heap[p].children) + 1 = k
  <2> DEFINE before == SubSeq(members, 1, k - 1)
  <2>1. Append(before, members[k]) = SubSeq(members, 1, k)
    BY <1>4
  <2>2. Len(before) = k - 1 /\ k \in Nat
    BY <1>4
  <2>3. heap'[p].children = Append(before, n) /\ heap[p].children = before /\ n = members[k]
    BY <1>4, <1>8, <1>9
  <2> HIDE DEF before
  <2>4. QED
    BY <2>1, <2>2, <2>3
<1>15. \A i \in DOMAIN stack' : FrameCopies(heap', document', faults', stack'[i])
  <2>1. SUFFICES ASSUME NEW i \in DOMAIN stack'
                 PROVE  FrameCopies(heap', document, faults, stack'[i])
    BY <1>0
  <2>2. CASE i = up
    <3>1. HasKey(heap[p], IF p = Root THEN "config" ELSE document[p].key, faults)
      BY <1>3 DEF FrameCopies, p
    <3>2. HasKey(heap'[p], IF p = Root THEN "config" ELSE document[p].key, faults)
      BY <1>1, <1>2, <3>1 DEF HasKey, p, n
    <3>3. k + 1 <= Len(members) + 1 /\ (k + 1) - 1 = k
      BY <1>4
    <3>4. QED
      BY <1>5, <1>14, <2>2, <3>2, <3>3 DEF FrameCopies, members
  <2>3. CASE i \in 1..(up - 1)
    <3>1. stack'[i] = stack[i] /\ i \in DOMAIN stack /\ i < up /\ i # Len(stack)
      <4>1. stack'[i] = stack[i]
        BY <1>5, <2>3
      <4>2. DOMAIN stack = 1..Len(stack) /\ Len(stack) \in Nat /\ up = Len(stack) - 1
        BY <1>0 DEF up
      <4>3. QED
        BY <2>3, <4>1, <4>2
    <3>2. stack[i].node \in DOMAIN heap
      BY <1>0, <3>1 DEF JsonTypeOK
    <3>3. stack[i].node < p /\ stack[i].node \in Nat
      BY <1>0, <1>2, <3>1, <3>2 DEF JsonFits, StackFits, p
    <3>4. heap'[stack[i].node] = heap[stack[i].node]
      BY <1>1, <1>2, <3>2, <3>3 DEF p, n
    <3>5. QED
      BY <3>1, <3>4 DEF FrameCopies, Copying
  <2>4. QED
    BY <1>2, <1>5, <2>2, <2>3
<1>16. /\ heap'[p].children[k] = n
       /\ \A j \in DOMAIN heap'[p].children :
            j = k \/ (j \in DOMAIN heap[p].children /\ heap'[p].children[j] = heap[p].children[j])
  <2> DEFINE kids == heap[p].children
  <2>1. kids \in Seq(Nat) /\ n \in Nat
    BY <1>0, <1>2, ChildListType
  <2>2. heap'[p].children = Append(kids, n) /\ Len(kids) + 1 = k
    BY <1>8, <1>14
  <2> HIDE DEF kids
  <2>3. /\ Append(kids, n)[Len(kids) + 1] = n
        /\ \A j \in DOMAIN Append(kids, n) :
             j = Len(kids) + 1 \/ (j \in DOMAIN kids /\ Append(kids, n)[j] = kids[j])
    BY <2>1
  <2>4. QED
    BY <2>2, <2>3 DEF kids
<1>17. KeysCopied(heap', document', faults')
  <2>1. SUFFICES ASSUME NEW q \in DOMAIN heap, NEW j \in DOMAIN heap'[q].children
                 PROVE  HasKey(heap'[heap'[q].children[j]],
                               KeyAt(document, q, j, heap'[q].children[j]), faults)
    BY <1>0, <1>8 DEF KeysCopied
  <2>2. CASE j \in DOMAIN heap[q].children /\ heap'[q].children[j] = heap[q].children[j]
    <3>0. q # NULL
      BY <1>0 DEF NULL
    <3>1. heap[q].children[j] \in DOMAIN heap /\ heap[heap[q].children[j]].parent = q /\ q # NULL
      BY <2>2, <3>0 DEF Forest, Descends
    <3>2. heap[q].children[j] # n
      BY <3>1 DEF Tops, n
    <3>3. HasKey(heap[heap[q].children[j]], KeyAt(document, q, j, heap[q].children[j]), faults)
      BY <2>2 DEF Copying, KeysCopied
    <3>4. heap'[heap[q].children[j]].key = heap[heap[q].children[j]].key
      BY <1>1, <3>1, <3>2 DEF n
    <3>5. QED
      BY <2>2, <3>3, <3>4 DEF HasKey
  <2>3. CASE q = p /\ j = k
    <3>1. heap'[q].children[j] = n
      BY <1>16, <2>3
    <3>2. n # Root
      BY <1>0, <1>2 DEF Root, JsonFits
    <3>3. HasKey(heap[n], document[n].key, faults)
      BY <1>3, <3>2 DEF FrameCopies, n
    <3>4. heap'[n].key = IF document[p].type = "ARRAY" THEN IndexKeys[k] ELSE heap[n].key
      BY <1>1, <1>3 DEF n, k
    <3>5. QED
      BY <2>3, <3>1, <3>3, <3>4 DEF HasKey, KeyAt
  <2>4. \/ j \in DOMAIN heap[q].children /\ heap'[q].children[j] = heap[q].children[j]
        \/ q = p /\ j = k
    <3>1. CASE q # p
      BY <1>8, <3>1
    <3>2. CASE q = p
      BY <1>16, <3>2
    <3>3. QED
      BY <3>1, <3>2
  <2>5. QED
    BY <2>2, <2>3, <2>4
<1>18. freed' = <<>>
  BY <1>0 DEF Copying
<1>19. QED
  BY <1>10, <1>11, <1>13, <1>15, <1>17, <1>18 DEF Copying

(* The outermost call returns OK: all of the document is there, in one tree. *)
LEMMA CopyEnd ==
  ASSUME JsonFits, IsDocument(document), Copying, json.pc = "RUN", OwnInv, ~crashed, stage # "DONE",
         JsonEnd
  PROVE  Copied'
<1>0. /\ JsonTypeOK /\ heap \in Seq(Node) /\ stack \in Seq(Frame) /\ stack # <<>>
      /\ Len(stack) = 1 /\ ~MoreMembers /\ UNCHANGED <<heap, document, signed, faults>>
  BY DEF JsonFits, JsonTypeOK, StackFits, JsonEnd
<1>1. /\ DOMAIN stack = {1} /\ stack[1].node = Root /\ Top = stack[1]
  BY <1>0, FrameType DEF JsonFits, StackFits
<1>2. FrameNodes(stack) = {Root} /\ Kept = {Root} /\ heap # <<>>
  BY <1>0, <1>1, KeptFrames DEF FrameNodes
<1>3. /\ Len(heap) = End(document)[Root] /\ heap[Root].children = document[Root].members
  BY <1>0, <1>1, ReturningIsDone
<1>4. IsEnd(document, End(document)) /\ document \in Seq(JsonValue)
  BY EndIsEnd DEF IsDocument
<1>5. Len(heap) = Len(document) /\ DOMAIN heap = DOMAIN document
  <2>1. Len(heap) = Len(document)
    BY <1>3, <1>4 DEF IsEnd, Root
  <2>2. DOMAIN heap = 1..Len(heap) /\ DOMAIN document = 1..Len(document)
    BY <1>0, <1>4
  <2>3. QED
    BY <2>1, <2>2
<1>6. \A n \in DOMAIN heap : /\ Copies(heap[n], document[n], signed)
                             /\ heap[n].children = document[n].members
  BY <1>2, <1>3 DEF Copying
<1>7. HasKey(heap[Root], "config", faults)
  BY <1>1 DEF Copying, FrameCopies
<1>8. IsTree(heap)
  <2>1. IsWhole(heap)
    BY <1>6 DEF IsWhole, Copies
  <2>2. /\ Forest(heap) /\ {Root} \subseteq Tops(heap)
        /\ ToSet(<<>>) = Below(heap, Tops(heap) \ {Root})
    BY <1>2, <2>1 DEF OwnInv, Owned, Copying
  <2>3. ToSet(<<>>) = {}
    BY DEF ToSet
  <2>4. \A t \in Tops(heap) \ {Root} : t \in Below(heap, Tops(heap) \ {Root})
    BY <1>0, <2>2, SubtreeIsLater DEF Forest, Tops, Below
  <2>5. Tops(heap) = {Root}
    BY <2>2, <2>3, <2>4
  <2>6. QED
    BY <1>0, <1>2, <2>2, <2>5, TreeIsForest
<1>9. KeysCopied(heap, document, faults)
  BY DEF Copying
<1>10. QED
  BY <1>0, <1>2, <1>5, <1>6, <1>7, <1>8, <1>9 DEF Copied

(* The top node is a copy of the first value. *)
LEMMA CopyStart ==
  ASSUME JsonFits, DocumentFits, heap = <<>>, faults \in 0..MaxFaults,
         JsonLoad \/ JsonLoadWithoutKey
  PROVE  Copying' /\ json'.pc = "RUN" /\ json'.status = "OK"
<1>0. /\ json.pc = "IDLE" /\ stack = <<>> /\ freed \in Seq({}) /\ signed \in BOOLEAN
      /\ UNCHANGED <<document, signed, freed>>
  BY DEF JsonLoad, JsonLoadWithoutKey, JsonLoadAs, JsonFits, JsonTypeOK, StackFits
<1>1. /\ IsDocument(document) /\ document[1].type # "NULL" /\ 1 \in DOMAIN document
      /\ document[1].members \in Seq(Nat)
  BY ValueType DEF DocumentFits, IsDocument
<1>2. PICK key \in Keys \cup {NoKey} :
        /\ heap' = <<Transform([ConfigNew EXCEPT !.key = key], document[1])>>
        /\ \/ key = "config" /\ faults' = faults
           \/ key = NoKey /\ Fault
  BY JsonAssumption DEF JsonLoad, JsonLoadWithoutKey, JsonLoadAs
<1> DEFINE node == Transform([ConfigNew EXCEPT !.key = key], document[1])
           f == [doc |-> 1, node |-> 1, at |-> 1]
<1>3. /\ node.children = <<>> /\ ~node.lost
      /\ node.key = key /\ node.isSigned = signed /\ node.type = document[1].type
      /\ node.value = IF document[1].type = "INT" THEN Clamp[document[1].value]
                      ELSE document[1].value
  BY <1>0, <1>1, TransformType
<1>4. stack' = Append(<<>>, f) /\ json' = [pc |-> "RUN", status |-> "OK"]
  BY <1>0 DEF JsonLoad, JsonLoadWithoutKey, JsonLoadAs, JsonGoto, Call, Root
<1>5. f.doc = 1 /\ f.node = 1 /\ f.at = 1
  OBVIOUS
<1> HIDE DEF node, f
<1>6. DOMAIN heap' = {1} /\ heap'[1] = node /\ Len(heap') = 1
  BY <1>2 DEF node
<1>7. Len(stack') = 1 /\ DOMAIN stack' = {1} /\ stack'[1] = f
  BY <1>4
<1>8. Top' = f
  BY <1>7 DEF Top, Last
<1>9. freed' = <<>>
  BY <1>0
<1>10. Len(heap') = Reached(document', Top')
  BY <1>5, <1>6, <1>8 DEF Reached
<1>11. \A n \in DOMAIN heap' : n \in DOMAIN document' /\ Copies(heap'[n], document'[n], signed')
  BY <1>0, <1>1, <1>3, <1>6 DEF Copies
<1>12. DOMAIN heap' \ FrameNodes(stack') = {}
  BY <1>5, <1>6, <1>7 DEF FrameNodes
<1>13. FrameCopies(heap', document', faults', f)
  <2>1. SubSeq(document[1].members, 1, 0) = <<>> /\ 1 <= Len(document[1].members) + 1
    BY <1>1
  <2>2. f.at - 1 = 0 /\ heap'[f.node].children = <<>> /\ heap'[f.node].key = key
    BY <1>3, <1>5, <1>6
  <2>3. heap'[f.node].children = SubSeq(document[1].members, 1, f.at - 1)
    BY <2>1, <2>2
  <2>4. HasKey(heap'[f.node], "config", faults')
    BY <1>2, <2>2 DEF HasKey, Fault
  <2>5. QED
    BY <1>0, <1>5, <2>1, <2>3, <2>4 DEF FrameCopies, Root
<1>14. KeysCopied(heap', document', faults')
  BY <1>3, <1>6 DEF KeysCopied
<1>15. \A i \in DOMAIN stack' : FrameCopies(heap', document', faults', stack'[i])
  BY <1>7, <1>13
<1>16. json'.pc = "RUN" /\ json'.status = "OK"
  BY <1>4
<1>17. QED
  BY <1>9, <1>10, <1>11, <1>12, <1>14, <1>15, <1>16 DEF Copying

(* The steps of samconfLoad around the load. *)
LEMMA QuietCopyStep ==
  ASSUME JsonInv, StageTypeOK, at.backend = "JSON", CopyInv, [Next]_vars, ~LoadJson
  PROVE  CopyInv'
<1>0. ~(OpenEnv \/ OpenEnvWithoutQuery \/ OpenEnvCrash \/ LoadEnv)
  BY DEF OpenEnv, OpenEnvWithoutQuery, OpenEnvCrash, LoadEnv
<1>1. CASE UNCHANGED vars
  BY <1>1 DEF vars, insertVars, jsonVars, CopyInv, Copying, Copied, Top
<1>2. CASE OpenJson \/ OpenFails
  <2>1. json.pc = "IDLE" /\ json' = json
    BY <1>2 DEF OpenJson, OpenFails, Stage, JsonInv, jsonVars
  <2>2. QED
    BY <2>1 DEF CopyInv
<1>3. CASE Loaded \/ Close \/ CloseFails \/ Delete \/ DeleteCrash
  <2>1. json.pc \in {"IDLE", "DONE"} /\ UNCHANGED <<heap, json, document, signed>>
        /\ (faults' = faults \/ Fault)
    <3>1. CASE Loaded
      BY <3>1 DEF Loaded, Stage, Unchanged, insertVars, jsonVars, JsonInv, NoEnv
    <3>2. CASE Close \/ CloseFails
      BY <3>2 DEF Close, CloseFails, Stage, Unchanged, insertVars, jsonVars, JsonInv
    <3>3. CASE Delete \/ DeleteCrash
      BY <3>3 DEF Delete, DeleteCrash, Stage, Unchanged, insertVars, jsonVars, JsonInv
    <3>4. QED
      BY <1>3, <3>1, <3>2, <3>3
  <2>2. \A x, k : HasKey(x, k, faults) => HasKey(x, k, faults')
    <3>1. faults' = MaxFaults => faults = MaxFaults
      BY <2>1, MaxFaultsAssumption DEF Fault, JsonInv
    <3>2. QED
      BY <3>1 DEF HasKey
  <2>3. SUFFICES ASSUME json.pc = "DONE", json.status = "OK" PROVE Copied'
    BY <2>1 DEF CopyInv
  <2>4. Copied
    BY <2>3 DEF CopyInv
  <2>5. KeysCopied(heap, document, faults')
    BY <2>2, <2>4 DEF KeysCopied, Copied
  <2>6. HasKey(heap[Root], "config", faults')
    BY <2>2, <2>4 DEF Copied
  <2>7. QED
    BY <2>1, <2>4, <2>5, <2>6 DEF Copied
<1>4. QED
  BY <1>0, <1>1, <1>2, <1>3 DEF Next

LEMMA CopyStep ==
  ASSUME TypeInv, OwnInv, at.backend = "JSON", CopyInv, [Next]_vars
  PROVE  CopyInv'
<1>1. JsonInv /\ StageTypeOK /\ JsonFits /\ faults \in 0..MaxFaults
  BY DEF TypeInv, JsonInv
<1>2. CASE ~LoadJson
  BY <1>1, <1>2, QuietCopyStep
<1>3. CASE LoadJson
  <2>1. /\ stage = "LOAD" /\ ~crashed
        /\ document = at.file /\ at.file \in JsonFiles \ {NoFile, BadFile}
    BY <1>1, <1>3 DEF LoadJson, Stage, JsonInv
  <2>2. IsDocument(document) /\ DocumentFits
    BY <2>1, DocumentIsOne DEF DocumentFits
  <2>3. CASE JsonLoad \/ JsonLoadWithoutKey
    <3>1. heap = <<>>
      BY <1>1, <2>3 DEF JsonInv, JsonLoad, JsonLoadWithoutKey, JsonLoadAs
    <3>2. QED
      BY <1>1, <2>2, <2>3, <3>1, CopyStart DEF CopyInv
  <2>4. CASE JsonLoadFails
    <3>1. json' = [pc |-> "DONE", status |-> "ERROR"]
      BY <2>4 DEF JsonLoadFails, JsonGoto
    <3>2. json'.pc = "DONE" /\ json'.status = "ERROR"
      BY <3>1
    <3>3. QED
      BY <3>2 DEF CopyInv
  <2>5. CASE JsonMember \/ JsonKeyFails
    <3>1. json.pc = "RUN" /\ json' = json
      BY <2>5 DEF JsonMember, JsonKeyFails, MoreMembers, Running
    <3>2. Copying'
      BY <1>1, <2>2, <2>5, <3>1, CopyCall DEF CopyInv
    <3>3. QED
      BY <3>1, <3>2 DEF CopyInv
  <2>6. CASE JsonLink
    <3>1. json.pc = "RUN" /\ json' = json /\ Copying /\ Len(stack) > 1
      BY <2>6 DEF JsonLink, Returning, Running, CopyInv
    <3>2. stack # <<>>
      BY <1>1, <3>1 DEF JsonFits, StackFits
    <3>3. IsWhole(heap)
      BY <3>1 DEF Copying, Copies, IsWhole
    <3>4. Forest(heap) /\ Top.node \in Tops(heap)
      BY <1>1, <2>1, <3>2, <3>3, KeptFrames DEF OwnInv, Owned
    <3>5. Copying'
      BY <1>1, <2>2, <2>6, <3>1, <3>4, CopyLink
    <3>6. QED
      BY <3>1, <3>5 DEF CopyInv
  <2>7. CASE JsonMemberFails \/ JsonStringFails \/ JsonNull \/ JsonLinkFails
    <3>1. json' \in {[pc |-> "UNWIND", status |-> "ERROR"], [pc |-> "UNWIND", status |-> "PARSE_ERROR"]}
      BY <2>7 DEF JsonMemberFails, JsonStringFails, JsonNull, JsonLinkFails, JsonGoto
    <3>2. json'.pc = "UNWIND" /\ json'.status # "OK"
      BY <3>1
    <3>3. QED
      BY <3>2 DEF CopyInv
  <2>8. CASE JsonIndexCrash \/ JsonUnwindCrash
    <3>1. json'.pc = "CRASHED"
      BY <2>8 DEF JsonIndexCrash, JsonUnwindCrash, JsonGoto
    <3>2. QED
      BY <3>1 DEF CopyInv
  <2>9. CASE JsonUnwind
    <3>1. json.pc = "UNWIND" /\ json' = json
      BY <2>9 DEF JsonUnwind
    <3>2. QED
      BY <3>1 DEF CopyInv
  <2>10. CASE JsonEnd
    <3>1. json' = [pc |-> "DONE", status |-> json.status]
      BY <2>10 DEF JsonEnd, JsonGoto
    <3>2. json'.pc = "DONE" /\ json'.status = json.status
      BY <3>1
    <3>3. CASE json.pc = "RUN"
      <4>1. Copying
        BY <3>3 DEF CopyInv
      <4>2. Copied'
        BY <1>1, <2>1, <2>2, <2>10, <3>3, <4>1, CopyEnd
      <4>3. QED
        BY <3>2, <4>2 DEF CopyInv
    <3>4. CASE json.pc = "UNWIND"
      BY <3>2, <3>4 DEF CopyInv
    <3>5. QED
      BY <2>10, <3>3, <3>4 DEF JsonEnd, Running
  <2>11. QED
    BY <1>3, <2>3, <2>4, <2>5, <2>6, <2>7, <2>8, <2>9, <2>10 DEF LoadJson, JsonNext
<1>4. QED
  BY <1>2, <1>3

(* What holds of both backends. *)
BackendInv == TypeInv /\ OwnInv /\ (at.backend = "JSON" => CopyInv)

LEMMA InitBackend == Init => BackendInv
<1>1. SUFFICES ASSUME Init PROVE BackendInv
  OBVIOUS
<1>2. heap = <<>> /\ stack = <<>> /\ freed = <<>> /\ json = [pc |-> "IDLE", status |-> "OK"]
  BY <1>1 DEF Init
<1>3. Owned(heap, Kept, freed)
  <2>1. Forest(heap) /\ Kept = Tops(heap)
    BY <1>2, NoNode DEF Kept
  <2>2. QED
    BY <1>2, <2>1, OwnAll
<1>4. CopyInv
  <2>1. json.pc = "IDLE"
    BY <1>2
  <2>2. QED
    BY <2>1 DEF CopyInv
<1>5. QED
  BY <1>1, <1>3, <1>4, InitInv DEF BackendInv, OwnInv

LEMMA BackendStep == ASSUME BackendInv, [Next]_vars PROVE BackendInv'
<1>1. TypeInv' /\ OwnInv'
  BY TypeStep, OwnStep DEF BackendInv
<1>2. at' = at
  BY LocationType, JsonInvStep, EnvInvStep DEF BackendInv, TypeInv, StageTypeOK
<1>3. QED
  BY <1>1, <1>2, CopyStep DEF BackendInv

LEMMA BackendAlways == Spec => []BackendInv
<1>1. BackendInv /\ [Next]_vars => BackendInv'
  BY BackendStep
<1>2. QED
  BY <1>1, InitBackend, PTL DEF Spec

(* What a backend returns with OK is a tree with all its links, whatever     *)
(* failed on the way: the assumption under which trees are merged.           *)
THEOREM TreesAreLoaded == Spec => []LoadedIsTree
<1>1. BackendInv => LoadedIsTree
  <2>1. SUFFICES ASSUME BackendInv, NEW b \in {"JSON", "ENV"}, LoadedWell(b)
                 PROVE  heap # <<>> /\ IsWhole(heap) /\ IsTree(heap)
    BY DEF LoadedIsTree
  <2>2. CASE b = "JSON"
    <3>1. Copied
      BY <2>1, <2>2 DEF LoadedWell, Ended, BackendInv, CopyInv
    <3>2. QED
      BY <3>1 DEF Copied, Copies, IsWhole
  <2>3. CASE b = "ENV"
    <3>1. at.backend = "ENV" /\ env.pc = "DONE" /\ env.status = "OK"
      BY <2>1, <2>3 DEF LoadedWell, Ended
    <3>2. EnvFits
      BY <2>1, <3>1 DEF BackendInv, TypeInv, EnvInv
    <3>3. QED
      BY <3>1, <3>2 DEF EnvFits, EnvWhole
  <2>4. QED
    BY <2>2, <2>3
<1>2. QED
  BY <1>1, BackendAlways, PTL

(* The key KeyOf finds is the one that was copied. *)
LEMMA KeyIsCopied ==
  ASSUME heap \in Seq(Node), Copied, NEW i \in DOMAIN heap
  PROVE  HasKey(heap[i], KeyOf(i), faults)
<1>1. CASE i = 1
  BY <1>1 DEF KeyOf, Copied, Root
<1>2. CASE i # 1
  <2> DEFINE Holds(u) == \E k \in DOMAIN document[u].members : document[u].members[k] = i
             up == CHOOSE u \in DOMAIN document : Holds(u)
             k == CHOOSE j \in DOMAIN document[up].members : document[up].members[j] = i
  <2>1. \E u \in DOMAIN document : Holds(u)
    <3>1. heap[i].parent \in DOMAIN heap
          /\ \E j \in DOMAIN heap[heap[i].parent].children : heap[heap[i].parent].children[j] = i
      <4>1. Forest(heap) /\ Tops(heap) = {Root}
        BY TreeIsForest DEF Copied
      <4>2. heap[i].parent # NULL
        BY <1>2, <4>1 DEF Tops, Root
      <4>3. QED
        BY <4>1, <4>2 DEF Forest
    <3>2. QED
      BY <3>1 DEF Copied
  <2>2. up \in DOMAIN document /\ Holds(up)
    <3> HIDE DEF Holds
    <3>1. QED
      BY <2>1
  <2>3. k \in DOMAIN document[up].members /\ document[up].members[k] = i
    BY <2>2
  <2>4. KeyOf(i) = KeyAt(document, up, k, i)
    BY <1>2 DEF KeyOf, KeyAt
  <2> HIDE DEF Holds, up, k
  <2>5. up \in DOMAIN heap /\ k \in DOMAIN heap[up].children /\ heap[up].children[k] = i
    BY <2>2, <2>3 DEF Copied
  <2>6. HasKey(heap[i], KeyAt(document, up, k, i), faults)
    BY <2>5 DEF Copied, KeysCopied
  <2>7. QED
    BY <2>4, <2>6
<1>3. QED
  BY <1>1, <1>2

(* When samconfJsonBackendLoad says OK the tree is the document, member by   *)
(* member and for every document: a failed allocation can cost a key, but    *)
(* never a node, a value or a mark.                                          *)
THEOREM DocumentIsCopied == Spec => []JsonOKIsWhole
<1>1. BackendInv => JsonOKIsWhole
  <2>1. SUFFICES ASSUME BackendInv, LoadedWell("JSON"), Copied PROVE JsonOKIsWhole
    BY DEF JsonOKIsWhole, LoadedWell, Ended, BackendInv, CopyInv
  <2>2. DOMAIN heap = DOMAIN document /\ heap \in Seq(Node)
    BY <2>1 DEF Copied, LoadedWell, Ended, BackendInv, TypeInv, JsonInv, JsonFits
  <2>3. ASSUME NEW i \in DOMAIN heap
        PROVE  /\ <<heap[i].type, heap[i].children>> = <<document[i].type, document[i].members>>
               /\ heap[i].value = IF heap[i].type = "INT" THEN Clamp[document[i].value]
                                  ELSE document[i].value
               /\ heap[i].isSigned = signed
               /\ heap[i].key = KeyOf(i) \/ (heap[i].key = NoKey /\ ~NothingFailed)
    <3>1. Copies(heap[i], document[i], signed) /\ heap[i].children = document[i].members
      BY <2>1, <2>3 DEF Copied
    <3>2. HasKey(heap[i], KeyOf(i), faults)
      BY <2>1, <2>2, <2>3, KeyIsCopied
    <3>3. QED
      BY <3>1, <3>2 DEF Copies, HasKey, NothingFailed
  <2>4. QED
    BY <2>2, <2>3 DEF JsonOKIsWhole
<1>2. QED
  BY <1>1, BackendAlways, PTL

-------------------------------------------------------------------------------
(***************************************************************************)
(* What a backend says of a location.                                      *)
(***************************************************************************)

(* The filter that the location gives. *)
Given ==
  LET params == at.location.query
      i == SelectInSeq(params, LAMBDA p : p.name = "envPrefix")
  IN  IF Len(params) < 2 \/ i = 0 THEN NotGiven ELSE params[i].value

AllNamed(filter) == \A c \in Chosen(filter) : PathOf(c) # <<>>

LEMMA ContentOfEnv ==
  ASSUME at \in Locations, at.backend = "ENV", at.location.scheme = "env"
  PROVE  /\ Content = IF Given \in DOMAIN Containing /\ AllNamed(Given) THEN "GOOD" ELSE "PARTIAL"
         /\ Expected = IF Given \in DOMAIN Containing /\ AllNamed(Given) THEN "OK" ELSE "ERROR"
<1> DEFINE params == at.location.query
           i == SelectInSeq(params, LAMBDA p : p.name = "envPrefix")
           usable == Len(params) > 1 /\ i # 0 /\ params[i].value \in DOMAIN Containing
           named == \A c \in Chosen(params[i].value) : PathOf(c) # <<>>
<1>1. Len(params) \in Nat
  BY LocationType
<1>2. Content = IF usable /\ named THEN "GOOD" ELSE "PARTIAL"
  BY DEF Content
<1>3. Given = IF Len(params) < 2 \/ i = 0 THEN NotGiven ELSE params[i].value
  BY DEF Given
<1>4. named <=> AllNamed(params[i].value)
  BY DEF AllNamed
<1> HIDE DEF params, i, named
<1>5. usable /\ named <=> Given \in DOMAIN Containing /\ AllNamed(Given)
  <2>1. NotGiven \notin DOMAIN Containing
    BY EnvAssumption
  <2>2. CASE Len(params) < 2 \/ i = 0
    BY <1>1, <1>3, <2>1, <2>2
  <2>3. CASE ~(Len(params) < 2 \/ i = 0)
    <3>1. Len(params) > 1 /\ i # 0 /\ Given = params[i].value
      BY <1>1, <1>3, <2>3
    <3>2. QED
      BY <1>4, <3>1
  <2>4. QED
    BY <2>2, <2>3
<1>6. Content = IF Given \in DOMAIN Containing /\ AllNamed(Given) THEN "GOOD" ELSE "PARTIAL"
  BY <1>2, <1>5
<1>7. QED
  BY <1>6 DEF Expected

LEMMA GivenIsFound ==
  ASSUME query = at.location.query
  PROVE  UriGetParameter("envPrefix") = Given
  BY DEF UriGetParameter, Given

(* What a location should give does not change. *)
LEMMA SameContent ==
  ASSUME at' = at, environ' = environ
  PROVE  /\ Given' = Given /\ Content' = Content /\ Expected' = Expected
         /\ \A f : Chosen(f)' = Chosen(f)
         /\ \A c : PathOf(c)' = PathOf(c)
<1>1. /\ \A f : Chosen(f)' = Chosen(f)
      /\ \A c : PathOf(c)' = PathOf(c)
  BY DEF Chosen, PathOf
<1>2. Given' = Given
  BY DEF Given, SelectInSeq
<1>3. Content' = Content
  BY DEF Content, SelectInSeq, Chosen, PathOf
<1>4. QED
  BY <1>1, <1>2, <1>3 DEF Expected

(* As long as nothing has failed the environment backend has looked at the   *)
(* variables before the current one, and all of those it chose have paths.   *)
SaysSo(left, loading, q, e, i, h) ==
  left = MaxFaults =>
    /\ e.pc # "IDLE" \/ loading => q = at.location.query /\ at.location.scheme = "env"
    /\ e.pc \in {"IDLE", "FILTER"} => e.at = 1 /\ e.status = "OK"
    /\ e.pc \in {"LOOP", "CREATE"} =>
         /\ e.status = "OK" /\ e.filter = Given
         /\ \A c \in Chosen(Given) : c < e.at => PathOf(c) # <<>>
    /\ e.pc = "CREATE" =>
         /\ e.at \in Chosen(Given) /\ i.path = PathOf(e.at)
         /\ i.status = "ERROR" => i.path = <<>>
         /\ i.status \in {"RUN", "OK"} => i.path # <<>>
    /\ e.pc = "DONE" => e.status = Expected /\ h # <<>>

EnvSays == SaysSo(faults, stage = "LOAD", query, env, ins, heap)

LEMMA SaysNext ==
  ASSUME at' = at, environ' = environ,
         SaysSo(faults', stage' = "LOAD", query', env', ins', heap')
  PROVE  EnvSays'
<1>1. /\ Given' = Given /\ Expected' = Expected
  BY SameContent
<1>2. QED
  BY <1>1 DEF EnvSays, SaysSo, Chosen, PathOf

(* The JSON backend fails because of a failure or because of a null.         *)
JsonSays ==
  /\ json.pc = "IDLE" => json.status = "OK"
  /\ json.pc # "IDLE" => IsDocument(document)
  /\ json.status = "ERROR" => faults # MaxFaults
  /\ json.status = "PARSE_ERROR" => heap # <<>> /\ HasNull(document)

(* The step that takes the filter from the location. *)
LEMMA FilterStep ==
  ASSUME EnvTypeOK, at \in Locations, at.backend = "ENV", query = at.location.query, EnvFilter
  PROVE  \/ Given = NotGiven /\ env'.pc = "DONE" /\ env'.status = "ERROR"
         \/ env'.pc = "CRASHED"
         \/ /\ env'.pc = "LOOP" /\ env'.filter = Given
            /\ env'.at = env.at /\ env'.status = env.status
<1>1. query \in Seq(Parameter)
  BY DEF EnvTypeOK
<1>2. Given \in DOMAIN Containing \cup {NoText, NotGiven}
  BY <1>1, ParameterType, GivenIsFound
<1>3. env' = CASE Given = NotGiven -> [env EXCEPT !.pc = "DONE", !.status = "ERROR"]
               [] Given = NoText   -> [env EXCEPT !.pc = "CRASHED"]
               [] OTHER            -> [env EXCEPT !.pc = "LOOP", !.filter = Given]
  BY GivenIsFound DEF EnvFilter
<1>4. NotGiven # NoText
  BY DEF NotGiven, NoText
<1>5. QED
  BY <1>2, <1>3, <1>4 DEF EnvTypeOK

(* The environment backend says what the location gives: filter and loop. *)
LEMMA LoopSays ==
  ASSUME EnvFits, EnvSays, at \in Locations, at.backend = "ENV", faults = MaxFaults, faults' = faults,
         query' = query,
         EnvFilter \/ EnvPass \/ EnvCreate \/ EnvEnd
  PROVE  SaysSo(faults', TRUE, query', env', ins', heap')
<1>0. /\ EnvTypeOK /\ env.status \in {"OK", "ERROR"} /\ env.at \in Nat \ {0}
      /\ env.pc # "IDLE" /\ query = at.location.query /\ at.location.scheme = "env"
      /\ environ \in Seq(Variable) /\ query \in Seq(Parameter)
  BY DEF EnvFits, EnvTypeOK, EnvSays, SaysSo, EnvFilter, EnvPass, EnvCreate, EnvEnd, EnvAt
<1>1. Expected = IF Given \in DOMAIN Containing /\ AllNamed(Given) THEN "OK" ELSE "ERROR"
  BY <1>0, ContentOfEnv
<1>2. CASE EnvFilter
  <2>1. env.pc = "FILTER" /\ heap' = heap /\ heap # <<>> /\ env.at = 1 /\ env.status = "OK"
    BY <1>2 DEF EnvFilter, insertVars, EnvFits, EnvSays, SaysSo
  <2>4. NotGiven \notin DOMAIN Containing
    BY EnvAssumption DEF NotGiven, NoText
  <2>5. \/ Given = NotGiven /\ env'.pc = "DONE" /\ env'.status = "ERROR"
        \/ env'.pc = "CRASHED"
        \/ env'.pc = "LOOP" /\ env'.filter = Given /\ env'.at = 1 /\ env'.status = "OK"
    BY <1>0, <1>2, <2>1, FilterStep
  <2>6. \A c \in Chosen(Given) : ~(c < 1)
    BY <1>0 DEF Chosen
  <2>7. QED
    BY <1>0, <1>1, <2>1, <2>4, <2>5, <2>6 DEF SaysSo
<1>3. CASE EnvPass
  <2>1. /\ env.pc = "LOOP" /\ ~EnvAtEnd /\ ~(environ[env.at].name \in Containing[env.filter])
        /\ NextVariable(env.status)
    BY <1>3 DEF EnvPass, EnvAt
  <2>2. env'.pc = "LOOP" /\ env'.status = env.status /\ env'.filter = env.filter /\ env'.at = env.at + 1
    BY <1>0, <2>1, NextVariableType
  <2>3. /\ env.status = "OK" /\ env.filter = Given
        /\ \A c \in Chosen(Given) : c < env.at => PathOf(c) # <<>>
    BY <2>1 DEF EnvSays, SaysSo
  <2>4. \A c \in Chosen(Given) : c < env.at + 1 => PathOf(c) # <<>>
    <3>1. SUFFICES ASSUME NEW c \in Chosen(Given), c < env.at + 1 PROVE PathOf(c) # <<>>
      OBVIOUS
    <3>2. c # env.at /\ c \in Nat
      BY <1>0, <2>1, <2>3 DEF Chosen
    <3>3. c < env.at
      BY <1>0, <3>1, <3>2
    <3>4. QED
      BY <2>3, <3>3
  <2>5. QED
    BY <1>0, <2>2, <2>3, <2>4 DEF SaysSo
<1>4. CASE EnvCreate
  <2> DEFINE path == PathOf(env.at)
             node == NewOption(path, environ[env.at].option)
  <2>1. /\ env.pc = "LOOP" /\ ~EnvAtEnd /\ environ[env.at].name \in Containing[env.filter]
        /\ InsertCall(path, node) /\ EnvGoto("CREATE", env.status)
    BY <1>4 DEF EnvCreate, EnvAt, PathOf
  <2>2. env'.pc = "CREATE" /\ env'.status = env.status /\ env'.filter = env.filter /\ env'.at = env.at
    BY <1>0, <2>1, EnvGotoType
  <2>3. /\ env.status = "OK" /\ env.filter = Given
        /\ \A c \in Chosen(Given) : c < env.at => PathOf(c) # <<>>
    BY <2>1 DEF EnvSays, SaysSo
  <2>4. env.at \in DOMAIN environ /\ env.at \in Chosen(Given)
    BY <1>0, <2>1, <2>3 DEF Chosen, EnvAtEnd
  <2>5. environ[env.at].name \in Names /\ environ[env.at].option \in Option
    <3>1. environ[env.at] \in Variable
      BY <1>0, <2>4
    <3>2. QED
      BY <3>1 DEF Variable
  <2>6. path \in Seq(Keys)
    BY <2>5, EnvPathType DEF PathOf
  <2> HIDE DEF path
  <2>7. node \in Node /\ node.children = <<>>
    BY <2>5, <2>6, NewOptionType
  <2> HIDE DEF node
  <2>8. ins'.path = path /\ ins'.status = IF path = <<>> THEN "ERROR" ELSE "RUN"
    BY <2>1, <2>6, <2>7, InsertCallType
  <2>9. QED
    BY <1>0, <2>2, <2>3, <2>4, <2>8 DEF SaysSo, path
<1>5. CASE EnvEnd
  <2>1. env.pc = "LOOP" /\ EnvAtEnd /\ EnvGoto("DONE", env.status) /\ heap' = heap /\ heap # <<>>
    BY <1>5 DEF EnvEnd, insertVars, EnvFits
  <2>2. env'.pc = "DONE" /\ env'.status = env.status
    BY <1>0, <2>1, EnvGotoType
  <2>3. /\ env.status = "OK" /\ Given \in DOMAIN Containing
        /\ \A c \in Chosen(Given) : c < env.at => PathOf(c) # <<>>
    BY <2>1 DEF EnvSays, SaysSo, EnvFits
  <2>4. \A c \in Chosen(Given) : c < env.at
    BY <1>0, <2>1 DEF Chosen, EnvAtEnd
  <2>5. Expected = "OK"
    BY <1>1, <2>3, <2>4 DEF AllNamed
  <2>6. QED
    BY <1>0, <2>1, <2>2, <2>3, <2>5 DEF SaysSo
<1>6. QED
  BY <1>2, <1>3, <1>4, <1>5

(* ... and the creation of an option. *)
LEMMA CreateSays ==
  ASSUME EnvFits, EnvSays, at \in Locations, at.backend = "ENV", faults = MaxFaults, faults' = faults,
         query' = query,
         EnvInserting \/ EnvCreated \/ EnvNotCreated
  PROVE  SaysSo(faults', TRUE, query', env', ins', heap')
<1>0. /\ EnvTypeOK /\ env.at \in Nat \ {0} /\ env.pc = "CREATE" /\ ins \in Insert
      /\ query = at.location.query /\ at.location.scheme = "env"
      /\ environ \in Seq(Variable) /\ heap # <<>>
      /\ env.status = "OK" /\ env.filter = Given /\ Given \in DOMAIN Containing
      /\ \A c \in Chosen(Given) : c < env.at => PathOf(c) # <<>>
      /\ env.at \in Chosen(Given) /\ ins.path = PathOf(env.at)
      /\ ins.status = "ERROR" => ins.path = <<>>
      /\ ins.status \in {"RUN", "OK"} => ins.path # <<>>
  BY DEF EnvFits, EnvTypeOK, EnvSays, SaysSo, EnvInserting, EnvCreated, EnvNotCreated
<1>1. Expected = IF Given \in DOMAIN Containing /\ AllNamed(Given) THEN "OK" ELSE "ERROR"
  BY <1>0, ContentOfEnv
<1>2. CASE EnvInserting
  <2>1. InsertNext /\ env' = env /\ InsertTypeOK /\ InsertsLeaf
    BY <1>0, <1>2 DEF EnvInserting, EnvFits
  <2>2. ~Fault
    BY MaxFaultsAssumption DEF Fault
  <2>3. ins.status = "RUN" /\ ins'.path = ins.path
    BY <1>0, <2>1, InsertStatus, InsertStep DEF InsertGoesOn
  <2>4. ins'.status # "ERROR"
    <3>1. InsertDescend \/ InsertLink \/ InsertCrash
      BY <2>1, <2>2 DEF InsertNext, InsertSkip, InsertFail, InsertAddFails
    <3>2. \/ ins' = [ins EXCEPT !.status = "OK"] \/ ins' = [ins EXCEPT !.status = "CRASHED"]
          \/ \E n : ins' = GoDown(n) \/ ins' = Linked(n)
      BY <3>1 DEF InsertDescend, InsertLink, InsertCrash
    <3>3. QED
      BY <1>0, <2>3, <3>2 DEF Insert, GoDown, Linked
  <2>5. QED
    BY <1>0, <2>1, <2>3, <2>4 DEF SaysSo
<1>3. CASE EnvCreated
  <2>1. ins.status = "OK" /\ NextVariable("OK")
    BY <1>3 DEF EnvCreated, InsertReturn
  <2>2. env'.pc = "LOOP" /\ env'.status = "OK" /\ env'.filter = env.filter /\ env'.at = env.at + 1
    BY <1>0, <2>1, NextVariableType
  <2>3. \A c \in Chosen(Given) : c < env.at + 1 => PathOf(c) # <<>>
    <3>1. SUFFICES ASSUME NEW c \in Chosen(Given), c < env.at + 1 PROVE PathOf(c) # <<>>
      OBVIOUS
    <3>2. c = env.at \/ c < env.at
      BY <1>0, <3>1 DEF Chosen
    <3>3. QED
      BY <1>0, <2>1, <3>2
  <2>4. QED
    BY <1>0, <2>2, <2>3 DEF SaysSo
<1>4. CASE EnvNotCreated
  <2>1. ins.status = "ERROR" /\ EnvGoto("DONE", "ERROR") /\ heap' = heap
    BY <1>4 DEF EnvNotCreated, InsertReturn
  <2>2. env'.pc = "DONE" /\ env'.status = "ERROR"
    BY <1>0, <2>1, EnvGotoType
  <2>3. Expected = "ERROR"
    BY <1>0, <1>1, <2>1 DEF AllNamed
  <2>4. QED
    BY <1>0, <2>1, <2>2, <2>3 DEF SaysSo
<1>5. QED
  BY <1>2, <1>3, <1>4

(* What the JSON backend says follows from the document, step by step. *)
LEMMA JsonLoadSays ==
  ASSUME JsonInv, faults \in 0..MaxFaults, CopyInv, JsonSays, LoadJson
  PROVE  JsonSays'
<1>1. /\ JsonFits /\ (faults' = MaxFaults => faults = MaxFaults /\ ~Fault)
      /\ document' = document /\ IsDocument(document)
  <2>1. faults' = faults \/ Fault
    BY JsonNextLeaves DEF LoadJson, JsonLoad, JsonLoadWithoutKey, JsonLoadFails
  <2>2. Fault => faults' # MaxFaults
    BY MaxFaultsAssumption DEF Fault
  <2>3. document' = document
    BY JsonNextLeaves DEF LoadJson, JsonLoad, JsonLoadWithoutKey, JsonLoadFails, JsonLoadAs
  <2>4. IsDocument(document)
    BY DocumentIsOne DEF JsonInv, LoadJson, Stage
  <2>5. QED
    BY <2>1, <2>2, <2>3, <2>4 DEF JsonInv
<1>2. CASE JsonLoad \/ JsonLoadWithoutKey
  <2>1. json' = [pc |-> "RUN", status |-> "OK"]
    BY <1>2 DEF JsonLoad, JsonLoadWithoutKey, JsonLoadAs, JsonGoto
  <2>2. json'.pc = "RUN" /\ json'.status = "OK"
    BY <2>1
  <2>3. QED
    BY <1>1, <2>2 DEF JsonSays
<1>3. CASE JsonLoadFails \/ JsonMemberFails \/ JsonStringFails \/ JsonLinkFails
  <2>1. Fault /\ json' \in {[pc |-> "DONE", status |-> "ERROR"], [pc |-> "UNWIND", status |-> "ERROR"]}
    BY <1>3 DEF JsonLoadFails, JsonMemberFails, JsonStringFails, JsonLinkFails, JsonGoto
  <2>2. json'.pc # "IDLE" /\ json'.status = "ERROR" /\ faults' # MaxFaults
    BY <1>1, <2>1
  <2>3. QED
    BY <1>1, <2>2 DEF JsonSays
<1>4. CASE JsonMember \/ JsonKeyFails \/ JsonLink \/ JsonIndexCrash
  <2>1. json.pc = "RUN" /\ (json' = json \/ json' = [pc |-> "CRASHED", status |-> json.status])
    BY <1>4 DEF JsonMember, JsonKeyFails, JsonLink, JsonIndexCrash, JsonGoto, MoreMembers, Returning, Running
  <2>2. json'.pc # "IDLE" /\ json'.status = "OK"
    BY <2>1 DEF CopyInv
  <2>3. QED
    BY <1>1, <2>2 DEF JsonSays
<1>5. CASE JsonNull
  <2>1. /\ json' = [pc |-> "UNWIND", status |-> "PARSE_ERROR"] /\ heap' = heap /\ document' = document
        /\ MoreMembers /\ document[NextMember].type = "NULL"
    BY <1>5 DEF JsonNull, JsonGoto
  <2>2. json'.pc = "UNWIND" /\ json'.status = "PARSE_ERROR"
    BY <2>1
  <2>3. json.pc = "RUN"
    BY <2>1 DEF MoreMembers, Running
  <2>4. heap # <<>>
    <3>1. stack \in Seq(Frame) /\ stack # <<>>
      BY <1>1, <2>3 DEF JsonFits, JsonTypeOK, StackFits
    <3>2. 1 \in DOMAIN stack
      BY <3>1
    <3>3. stack[1].node \in DOMAIN heap
      BY <1>1, <3>2 DEF JsonFits, JsonTypeOK
    <3>4. QED
      BY <3>3
  <2>5. NextMember \in DOMAIN document
    <3>1. JsonTypeOK /\ stack # <<>>
      BY <1>1, <2>3 DEF JsonFits, StackFits
    <3>2. QED
      BY <1>1, <2>1, <3>1, NextMemberType
  <2>6. QED
    BY <1>1, <2>1, <2>2, <2>4, <2>5 DEF JsonSays, HasNull
<1>6. CASE JsonUnwind \/ JsonUnwindCrash \/ JsonEnd
  <2>1. /\ json' = json \/ \E pc \in {"CRASHED", "DONE"} : json' = [pc |-> pc, status |-> json.status]
        /\ json.pc \in {"RUN", "UNWIND"} /\ heap' = heap /\ document' = document
    BY <1>6 DEF JsonUnwind, JsonUnwindCrash, JsonEnd, JsonGoto, Running
  <2>2. json'.pc # "IDLE" /\ json'.status = json.status
    BY <2>1
  <2>3. QED
    BY <1>1, <2>1, <2>2 DEF JsonSays, HasNull
<1>7. QED
  BY <1>2, <1>3, <1>4, <1>5, <1>6 DEF LoadJson, JsonNext

LEMMA JsonSaysStep ==
  ASSUME TypeInv, at.backend = "JSON", CopyInv, JsonSays, [Next]_vars
  PROVE  JsonSays'
<1>1. JsonInv /\ faults \in 0..MaxFaults
  BY DEF TypeInv, JsonInv
<1>2. CASE LoadJson
  BY <1>1, <1>2, JsonLoadSays
<1>3. CASE OpenJson
  <2>1. json' = json /\ json.pc = "IDLE" /\ faults' = faults
    BY <1>1, <1>3 DEF OpenJson, Stage, JsonInv, insertVars
  <2>2. QED
    BY <2>1 DEF JsonSays
<1>4. CASE OpenFails \/ Loaded \/ Close \/ CloseFails \/ Delete \/ DeleteCrash
  <2>1. UNCHANGED <<heap, json, document>> /\ (faults' = faults \/ Fault)
    <3>1. CASE OpenFails \/ Loaded
      BY <3>1 DEF OpenFails, Loaded, Unchanged, insertVars, jsonVars
    <3>2. CASE Close \/ CloseFails \/ DeleteCrash
      BY <3>2 DEF Close, CloseFails, DeleteCrash, Unchanged, insertVars, jsonVars
    <3>3. CASE Delete
      BY <3>3 DEF Delete, insertVars
    <3>4. QED
      BY <1>4, <3>1, <3>2, <3>3
  <2>2. faults' = MaxFaults => faults = MaxFaults
    BY <1>1, <2>1, MaxFaultsAssumption DEF Fault
  <2>3. QED
    BY <2>1, <2>2 DEF JsonSays, HasNull
<1>5. CASE UNCHANGED vars
  BY <1>5 DEF vars, insertVars, jsonVars, JsonSays, HasNull
<1>6. ~(OpenEnv \/ OpenEnvWithoutQuery \/ OpenEnvCrash \/ LoadEnv)
  BY DEF OpenEnv, OpenEnvWithoutQuery, OpenEnvCrash, LoadEnv
<1>7. QED
  BY <1>2, <1>3, <1>4, <1>5, <1>6 DEF Next

(* The environment does not change. *)
LEMMA EnvironStays ==
  ASSUME [Next]_vars
  PROVE  environ' = environ
<1>1. CASE OpenJson \/ OpenEnv \/ OpenEnvWithoutQuery \/ OpenEnvCrash \/ OpenFails
  BY <1>1 DEF OpenJson, OpenEnv, OpenEnvWithoutQuery, OpenEnvCrash, OpenFails, envVars
<1>2. CASE LoadEnv \/ LoadJson
  BY <1>2 DEF LoadEnv, LoadJson, envVars
<1>3. CASE Loaded \/ Close \/ CloseFails \/ Delete \/ DeleteCrash
  BY <1>3 DEF Loaded, Close, CloseFails, Delete, DeleteCrash, Unchanged, envVars
<1>4. CASE UNCHANGED vars
  BY <1>4 DEF vars, envVars
<1>5. QED
  BY <1>1, <1>2, <1>3, <1>4 DEF Next

(* What the environment backend says follows from the location. *)
LEMMA EnvSaysStep ==
  ASSUME TypeInv, at.backend = "ENV", EnvSays, [Next]_vars
  PROVE  EnvSays'
<1>0. /\ EnvInv /\ EnvFits /\ StageTypeOK /\ faults \in 0..MaxFaults /\ at \in Locations
  BY DEF TypeInv, EnvInv, EnvFits, StageTypeOK
<1>1. at' = at /\ environ' = environ
  BY <1>0, EnvInvStep, EnvironStays
<1>2. SUFFICES ASSUME faults' = MaxFaults
               PROVE  SaysSo(faults', stage' = "LOAD", query', env', ins', heap')
  <2>1. SaysSo(faults', stage' = "LOAD", query', env', ins', heap') => EnvSays'
    BY <1>1, SaysNext
  <2>2. faults' # MaxFaults => SaysSo(faults', stage' = "LOAD", query', env', ins', heap')
    BY DEF SaysSo
  <2>3. QED
    BY <2>1, <2>2
<1>3. ~Fault
  BY <1>0, <1>2, MaxFaultsAssumption DEF Fault
<1>4. CASE OpenEnv
  <2>1. /\ stage = "OPEN" /\ UNCHANGED <<heap, ins, faults, env>> /\ env.pc = "IDLE"
        /\ stage' = "LOAD" => query' = at.location.query /\ at.location.scheme = "env"
    BY <1>0, <1>4 DEF OpenEnv, OpenWith, Stage, insertVars, EnvInv
  <2>2. QED
    BY <1>2, <2>1 DEF EnvSays, SaysSo
<1>5. CASE LoadEnv
  <2>1. stage' = "LOAD" /\ stage = "LOAD" /\ query' = query /\ (EnvLoad(signed) \/ EnvLoadFails \/ EnvNext)
    BY <1>5 DEF LoadEnv, Stage
  <2>2. CASE EnvLoad(signed)
    <3>1. env.pc = "IDLE" /\ EnvGoto("FILTER", "OK") /\ UNCHANGED <<ins, faults>> /\ EnvTypeOK
      BY <1>0, <2>2 DEF EnvLoad, EnvFits
    <3>2. env'.pc = "FILTER" /\ env'.status = "OK" /\ env'.at = env.at
      BY <3>1, EnvGotoType
    <3>3. env.at = 1 /\ query = at.location.query /\ at.location.scheme = "env"
      BY <1>2, <2>1, <3>1 DEF EnvSays, SaysSo
    <3>4. QED
      BY <2>1, <3>2, <3>3 DEF SaysSo
  <2>3. CASE EnvFilter \/ EnvPass \/ EnvCreate \/ EnvEnd
    <3>1. faults' = faults
      BY <2>3 DEF EnvFilter, EnvPass, EnvCreate, EnvEnd, insertVars
    <3>2. SaysSo(faults', TRUE, query', env', ins', heap')
      BY <1>0, <1>2, <2>1, <2>3, <3>1, LoopSays
    <3>3. (stage' = "LOAD") = TRUE
      BY <2>1
    <3>4. QED
      BY <3>2, <3>3
  <2>4. CASE EnvInserting \/ EnvCreated \/ EnvNotCreated
    <3>1. faults' = faults
      <4>1. CASE EnvInserting
        BY <1>3, <4>1 DEF EnvInserting, InsertNext, InsertDescend, InsertLink, InsertSkip, InsertFail,
                          InsertAddFails, InsertCrash
      <4>2. CASE EnvCreated \/ EnvNotCreated
        BY <4>2 DEF EnvCreated, EnvNotCreated
      <4>3. QED
        BY <2>4, <4>1, <4>2
    <3>2. SaysSo(faults', TRUE, query', env', ins', heap')
      BY <1>0, <1>2, <2>1, <2>4, <3>1, CreateSays
    <3>3. (stage' = "LOAD") = TRUE
      BY <2>1
    <3>4. QED
      BY <3>2, <3>3
  <2>5. ~(EnvLoadFails \/ EnvFilterFails \/ EnvCopyFails \/ EnvCreateWithoutString \/ EnvCreateFails)
    BY <1>3 DEF EnvLoadFails, EnvFilterFails, EnvCopyFails, EnvCreateWithoutString, EnvCreateFails
  <2>6. QED
    BY <2>1, <2>2, <2>3, <2>4, <2>5 DEF EnvNext
<1>6. CASE Loaded \/ Close \/ Delete \/ DeleteCrash
  <2>1. UNCHANGED <<heap, ins, faults, env, query>> /\ stage' # "LOAD" /\ stage # "OPEN"
    <3>1. CASE Loaded \/ Close
      BY <3>1 DEF Loaded, Close, Stage, Unchanged, insertVars, envVars
    <3>2. CASE Delete \/ DeleteCrash
      BY <3>2 DEF Delete, DeleteCrash, Stage, Unchanged, insertVars, envVars
    <3>3. QED
      BY <1>6, <3>1, <3>2
  <2>2. QED
    BY <2>1 DEF EnvSays, SaysSo
<1>7. CASE UNCHANGED vars
  <2>1. UNCHANGED <<heap, ins, faults, env, query, stage>>
    BY <1>7 DEF vars, insertVars, envVars, backendVars
  <2>2. QED
    BY <2>1 DEF EnvSays, SaysSo
<1>8. ~(OpenJson \/ LoadJson \/ OpenEnvWithoutQuery \/ OpenEnvCrash \/ OpenFails \/ CloseFails)
  BY <1>3 DEF OpenJson, LoadJson, OpenEnvWithoutQuery, OpenEnvCrash, OpenFails, CloseFails
<1>9. QED
  BY <1>4, <1>5, <1>6, <1>7, <1>8 DEF Next

(* ... of a document that is there, ... *)
LEMMA ContentOfJson ==
  ASSUME at.backend = "JSON", at.file \notin {NoFile, BadFile}
  PROVE  /\ Content = IF HasNull(at.file) THEN "PARTIAL" ELSE "GOOD"
         /\ Expected = IF HasNull(at.file) THEN "PARSE_ERROR" ELSE "OK"
<1>1. Content = IF HasNull(at.file) THEN "PARTIAL" ELSE "GOOD"
  BY DEF Content
<1>2. QED
  BY <1>1 DEF Expected

(* The stages that can have been spoilt; each failure spoils at most one. *)
SpoiltInv ==
  /\ spoilt \subseteq {"OPEN", "LOAD", "CLOSE"}
  /\ stage \in {"OPEN", "LOAD"} => spoilt = {}
  /\ stage = "CLOSE" => spoilt \subseteq {"LOAD"}
  /\ IsFiniteSet(spoilt) /\ Cardinality(spoilt) \in Nat
  /\ Cardinality(spoilt) <= MaxFaults - faults

LoadInv ==
  /\ BackendInv /\ SpoiltInv
  /\ at.backend = "JSON" => JsonSays
  /\ at.backend = "ENV" => EnvSays

(* What a backend returns is what the location holds, or something failed:   *)
(* an error, or the OK of the environment backend that has left variables    *)
(* out.                                                                      *)
LEMMA LoadedSays ==
  ASSUME LoadInv, Loaded
  PROVE  \/ status' = Expected /\ heap # <<>> /\ spoilt' = spoilt
         \/ status' = "ERROR" /\ faults # MaxFaults /\ spoilt' = spoilt \cup {"LOAD"}
         \/ /\ status' = "OK" /\ at.backend = "ENV" /\ heap # <<>>
            /\ faults # MaxFaults /\ spoilt' = spoilt \cup {"LOAD"}
<1>1. CASE at.backend = "JSON"
  <2>1. JsonInv /\ JsonSays /\ CopyInv
    BY <1>1 DEF LoadInv, BackendInv, TypeInv
  <2>2. env.pc = "IDLE"
    BY <2>1 DEF JsonInv, NoEnv
  <2>3. /\ stage = "LOAD" /\ json.pc = "DONE" /\ status' = json.status
        /\ spoilt' = IF json.status = Expected /\ heap # <<>> THEN spoilt ELSE spoilt \cup {"LOAD"}
    BY <2>2 DEF Loaded, Stage
  <2>4. document = at.file /\ at.file \notin {NoFile, BadFile}
    BY <2>1, <2>3 DEF JsonInv
  <2>5. json.status \in {"OK", "ERROR", "PARSE_ERROR"}
    BY StatusType DEF LoadInv, BackendInv
  <2>6. Expected = IF HasNull(document) THEN "PARSE_ERROR" ELSE "OK"
    BY <1>1, <2>4, ContentOfJson
  <2>7. CASE json.status = "OK"
    <3>1. Copied /\ heap \in Seq(Node)
      BY <2>1, <2>3, <2>7 DEF CopyInv, JsonInv, JsonFits
    <3>2. ~HasNull(document)
      <4>1. SUFFICES ASSUME NEW n \in DOMAIN document, document[n].type = "NULL" PROVE FALSE
        BY DEF HasNull
      <4>2. n \in DOMAIN heap /\ heap[n].type = "NULL"
        BY <3>1, <4>1 DEF Copied, Copies
      <4>3. heap[n] \in Node
        BY <3>1, <4>2
      <4>4. QED
        BY <4>2, <4>3 DEF Node, ScalarTypes, ContainerTypes
    <3>3. QED
      BY <2>3, <2>6, <2>7, <3>1, <3>2 DEF Copied
  <2>8. CASE json.status = "PARSE_ERROR"
    BY <2>1, <2>3, <2>6, <2>8 DEF JsonSays
  <2>9. CASE json.status = "ERROR"
    BY <2>1, <2>3, <2>6, <2>9 DEF JsonSays
  <2>10. QED
    BY <2>5, <2>7, <2>8, <2>9
<1>2. CASE at.backend = "ENV"
  <2>1. EnvInv /\ EnvFits /\ EnvSays
    BY <1>2 DEF LoadInv, BackendInv, TypeInv, EnvInv
  <2>2. json.pc = "IDLE"
    BY <2>1 DEF EnvInv
  <2>3. /\ stage = "LOAD" /\ env.pc = "DONE" /\ status' = env.status
        /\ spoilt' = IF env.status = Expected /\ heap # <<>> THEN spoilt ELSE spoilt \cup {"LOAD"}
    BY <2>2 DEF Loaded, Stage
  <2>4. env.status \in {"OK", "ERROR"}
    BY StatusType DEF LoadInv, BackendInv
  <2>5. env.status = "OK" => heap # <<>>
    BY <2>1, <2>3 DEF EnvFits, EnvWhole
  <2>6. faults = MaxFaults => env.status = Expected /\ heap # <<>>
    BY <2>1, <2>3 DEF EnvSays, SaysSo
  <2>7. QED
    BY <1>2, <2>3, <2>4, <2>5, <2>6
<1>3. QED
  BY <1>1, <1>2, LocationType DEF LoadInv, BackendInv, TypeInv, StageTypeOK

(* A stage that is spoilt is one more. *)
LEMMA OneMore ==
  ASSUME SpoiltInv, NEW s, s \notin spoilt
  PROVE  /\ IsFiniteSet(spoilt \cup {s}) /\ Cardinality(spoilt \cup {s}) = Cardinality(spoilt) + 1
         /\ Cardinality(spoilt \cup {s}) \in Nat
  BY FS_AddElement DEF SpoiltInv

LEMMA SpoiltStep ==
  ASSUME LoadInv, [Next]_vars
  PROVE  SpoiltInv'
<1>1. /\ SpoiltInv /\ faults \in 0..MaxFaults /\ MaxFaults \in Nat
      /\ stage \in {"OPEN", "LOAD", "CLOSE", "DELETE", "DONE"}
  <2>1. faults \in 0..MaxFaults
    BY LocationType DEF LoadInv, BackendInv, TypeInv, StageTypeOK, JsonInv, EnvInv, EnvFits
  <2>2. QED
    BY <2>1, MaxFaultsAssumption DEF LoadInv, BackendInv, TypeInv, StageTypeOK
<1>2. Cardinality({}) = 0
  BY FS_EmptySet
<1>3. ASSUME spoilt' = spoilt, faults' = faults \/ Fault, stage' = stage \/ stage' \in {"DELETE", "DONE"}
                                                        \/ (stage = "OPEN" /\ stage' = "LOAD")
      PROVE  SpoiltInv'
  BY <1>1, <1>3 DEF SpoiltInv, Fault
<1>4. ASSUME NEW s \in {"OPEN", "LOAD", "CLOSE"}, spoilt' = spoilt \cup {s}, s \notin spoilt,
             Cardinality(spoilt) + 1 <= MaxFaults - faults', faults' \in 0..MaxFaults,
             stage' = "DELETE" \/ (stage' = "CLOSE" /\ spoilt' = {"LOAD"})
      PROVE  SpoiltInv'
  <2>1. /\ IsFiniteSet(spoilt') /\ Cardinality(spoilt') = Cardinality(spoilt) + 1
        /\ Cardinality(spoilt') \in Nat
    BY <1>1, <1>4, OneMore
  <2>2. QED
    BY <1>1, <1>4, <2>1 DEF SpoiltInv
<1>5. CASE OpenJson \/ OpenEnv \/ OpenEnvWithoutQuery \/ OpenEnvCrash
  <2>1. /\ spoilt' = spoilt /\ (faults' = faults \/ Fault) /\ stage = "OPEN"
        /\ stage' \in {"OPEN", "LOAD", "DELETE"}
    BY <1>5 DEF OpenJson, OpenEnv, OpenEnvWithoutQuery, OpenEnvCrash, OpenWith, Stage, insertVars
  <2>2. QED
    BY <1>3, <2>1
<1>6. CASE OpenFails
  <2>1. spoilt' = spoilt \cup {"OPEN"} /\ stage = "OPEN" /\ stage' = "DELETE" /\ Fault
    BY <1>6 DEF OpenFails, OpenWith, Stage
  <2>2. spoilt = {} /\ faults' = faults - 1 /\ faults > 0
    BY <1>1, <2>1 DEF SpoiltInv, Fault
  <2>3. QED
    BY <1>1, <1>2, <1>4, <2>1, <2>2
<1>7. CASE LoadEnv \/ LoadJson
  <2>1. spoilt' = spoilt /\ stage' = stage
    BY <1>7 DEF LoadEnv, LoadJson
  <2>2. faults' = faults \/ Fault
    <3>1. CASE LoadJson
      BY <3>1, JsonNextLeaves DEF LoadJson, JsonLoad, JsonLoadWithoutKey, JsonLoadFails
    <3>2. CASE LoadEnv
      <4>1. at.backend = "ENV"
        BY <3>2 DEF LoadEnv
      <4>2. EnvFits /\ Descends(heap)
        BY <4>1 DEF LoadInv, BackendInv, TypeInv, EnvInv
      <4>3. QED
        BY <3>2, <4>2, EnvTreeGrows DEF LoadEnv, EnvLoad, EnvLoadFails
    <3>3. QED
      BY <1>7, <3>1, <3>2
  <2>3. QED
    BY <1>3, <2>1, <2>2
<1>8. CASE Loaded
  <2>1. stage = "LOAD" /\ stage' = "CLOSE" /\ faults' = faults
    BY <1>8 DEF Loaded, Stage, Unchanged, insertVars
  <2>2. spoilt = {}
    BY <1>1, <2>1 DEF SpoiltInv
  <2>3. CASE spoilt' = spoilt
    BY <1>1, <2>1, <2>2, <2>3 DEF SpoiltInv
  <2>4. CASE spoilt' = spoilt \cup {"LOAD"} /\ faults # MaxFaults
    BY <1>1, <1>2, <1>4, <2>1, <2>2, <2>4
  <2>5. QED
    BY <1>8, <2>3, <2>4, LoadedSays
<1>9. CASE Close \/ Delete \/ DeleteCrash
  <2>1. spoilt' = spoilt /\ faults' = faults /\ (stage' = stage \/ stage' \in {"DELETE", "DONE"})
    BY <1>9 DEF Close, Delete, DeleteCrash, Unchanged, insertVars
  <2>2. QED
    BY <1>3, <2>1
<1>10. CASE CloseFails
  <2>1. spoilt' = spoilt \cup {"CLOSE"} /\ stage = "CLOSE" /\ stage' = "DELETE" /\ Fault
    BY <1>10 DEF CloseFails, Stage
  <2>2. /\ "CLOSE" \notin spoilt /\ faults' = faults - 1 /\ faults > 0
        /\ Cardinality(spoilt) \in Nat /\ Cardinality(spoilt) <= MaxFaults - faults
    BY <1>1, <2>1 DEF SpoiltInv, Fault
  <2>3. QED
    BY <1>1, <1>4, <2>1, <2>2
<1>11. CASE UNCHANGED vars
  BY <1>3, <1>11 DEF vars, insertVars, backendVars
<1>12. QED
  BY <1>5, <1>6, <1>7, <1>8, <1>9, <1>10, <1>11 DEF Next

LEMMA InitLoad == Init => LoadInv
<1>1. SUFFICES ASSUME Init PROVE LoadInv
  OBVIOUS
<1>2. /\ stage = "OPEN" /\ spoilt = {} /\ faults = MaxFaults /\ env = NoEnv /\ ins = NoInsert
      /\ json = [pc |-> "IDLE", status |-> "OK"]
  BY <1>1 DEF Init
<1>3. IsFiniteSet({}) /\ Cardinality({}) = 0
  BY FS_EmptySet
<1>4. SpoiltInv
  BY <1>2, <1>3, MaxFaultsAssumption DEF SpoiltInv
<1>5. JsonSays
  BY <1>2 DEF JsonSays
<1>6. EnvSays
  BY <1>2 DEF EnvSays, SaysSo, NoEnv
<1>7. QED
  BY <1>1, <1>4, <1>5, <1>6, InitBackend DEF LoadInv

LEMMA LoadInvStep == ASSUME LoadInv, [Next]_vars PROVE LoadInv'
<1>1. BackendInv' /\ SpoiltInv'
  BY BackendStep, SpoiltStep DEF LoadInv
<1>2. at' = at /\ at.backend \in {"JSON", "ENV"}
  BY LocationType, JsonInvStep, EnvInvStep DEF LoadInv, BackendInv, TypeInv, StageTypeOK
<1>3. CASE at.backend = "JSON"
  <2>1. JsonSays'
    BY <1>3, JsonSaysStep DEF LoadInv, BackendInv
  <2>2. QED
    BY <1>1, <1>2, <1>3, <2>1 DEF LoadInv
<1>4. CASE at.backend = "ENV"
  <2>1. EnvSays'
    BY <1>4, EnvSaysStep DEF LoadInv, BackendInv
  <2>2. QED
    BY <1>1, <1>2, <1>4, <2>1 DEF LoadInv
<1>5. QED
  BY <1>2, <1>3, <1>4

LEMMA LoadAlways == Spec => []LoadInv
<1>1. LoadInv /\ [Next]_vars => LoadInv'
  BY LoadInvStep
<1>2. QED
  BY <1>1, InitLoad, PTL DEF Spec

(* Every stage of samconfLoad that did not end as the location would have it *)
(* cost a failed allocation or call of its own: neither backend refuses or   *)
(* accepts a document or an environment by chance.                           *)
THEOREM NothingSpoiltByChance == Spec => []OnlyFailuresSpoil
<1>1. LoadInv => OnlyFailuresSpoil
  BY DEF LoadInv, SpoiltInv, OnlyFailuresSpoil
<1>2. QED
  BY <1>1, LoadAlways, PTL

-------------------------------------------------------------------------------
(***************************************************************************)
(* The refinement of samconfLoad, step by step.                            *)
(***************************************************************************)

(* What the steps of a backend leave alone. *)
LEMMA StepLeaves ==
  ASSUME LoadInv, [Next]_vars
  PROVE  /\ at' = at /\ signed' = signed /\ environ' = environ
         /\ Content' = Content /\ Expected' = Expected
<1>1. at' = at
  BY LocationType, JsonInvStep, EnvInvStep DEF LoadInv, BackendInv, TypeInv, StageTypeOK
<1>2. signed' = signed /\ environ' = environ
  <2>1. CASE OpenJson \/ OpenEnv \/ OpenEnvWithoutQuery \/ OpenEnvCrash \/ OpenFails
    BY <2>1 DEF OpenJson, OpenEnv, OpenEnvWithoutQuery, OpenEnvCrash, OpenFails, envVars, jsonVars
  <2>2. CASE LoadEnv
    BY <2>2 DEF LoadEnv, jsonVars
  <2>3. CASE LoadJson
    BY <2>3, JsonNextLeaves DEF LoadJson, JsonLoad, JsonLoadWithoutKey, JsonLoadFails, JsonLoadAs, envVars
  <2>4. CASE Loaded \/ Close \/ CloseFails \/ Delete \/ DeleteCrash
    BY <2>4 DEF Loaded, Close, CloseFails, Delete, DeleteCrash, Unchanged, envVars, jsonVars
  <2>5. CASE UNCHANGED vars
    BY <2>5 DEF vars, envVars, jsonVars
  <2>6. QED
    BY <2>1, <2>2, <2>3, <2>4, <2>5 DEF Next
<1>3. Content' = Content /\ Expected' = Expected
  BY <1>1, <1>2, SameContent
<1>4. QED
  BY <1>1, <1>2, <1>3

(* The locals and the location of samconfLoad, as ConfigLoad sees them. *)
LEMMA LoadSees ==
  /\ Load!Here.content = Content
  /\ LoadLocals.pc = stage /\ LoadLocals.status = status /\ LoadLocals.backend = at.backend
<1>1. LoadLocals.file = 1
  BY DEF LoadLocals
<1>2. [f \in {1} |-> Kind][1].content = Content
  BY DEF Kind
<1>3. QED
  BY <1>1, <1>2 DEF Load!Here, LoadLocals

(* A stage of samconfLoad is left for another. *)
LEMMA StageMaps ==
  ASSUME at' = at, signed' = signed, Content' = Content,
         NEW said, NEW next, status' = said, stage' = next
  PROVE  /\ Load!At(stage) /\ Load!Goto(next, said)
<1>0. Kind' = Kind
  BY DEF Kind, IsRootless
<1>1. [f \in {1} |-> Kind]' = [f \in {1} |-> Kind]
  BY <1>0
<1>2. Load!At(stage)
  BY <1>1, LoadSees DEF Load!At
<1>3. LoadLocals' = [LoadLocals EXCEPT !.pc = next, !.status = said]
  <2> DEFINE one == 1
             no == FALSE
             read == signed /\ Kind.readable
             backend == at.backend
             before  == [pc |-> stage, file |-> one, enforce |-> no, isSigned |-> signed,
                         dataRead |-> read, backend |-> backend, status |-> status]
             between == [pc |-> next, file |-> one, enforce |-> no, isSigned |-> signed,
                         dataRead |-> read, backend |-> backend, status |-> status]
             after   == [pc |-> next, file |-> one, enforce |-> no, isSigned |-> signed,
                         dataRead |-> read, backend |-> backend, status |-> said]
  <2>0. read' = read
    BY <1>0
  <2>1. LoadLocals = before /\ LoadLocals' = after
    BY <2>0 DEF LoadLocals
  <2> HIDE DEF one, no, backend, read
  <2>2. [before EXCEPT !.pc = next] = between
    OBVIOUS
  <2>3. [between EXCEPT !.status = said] = after
    OBVIOUS
  <2> HIDE DEF before, between, after
  <2>4. QED
    BY <2>1, <2>2, <2>3
<1>4. QED
  BY <1>2, <1>3 DEF Load!Goto

(* A failure that spoils a stage is one of ConfigLoad. *)
LEMMA FaultMaps ==
  ASSUME SpoiltInv, faults \in 0..MaxFaults, MaxFaults \in Nat,
         NEW s, s \notin spoilt, spoilt' = spoilt \cup {s},
         Cardinality(spoilt) < MaxFaults
  PROVE  Load!Fault
<1>1. Cardinality(spoilt') = Cardinality(spoilt) + 1 /\ Cardinality(spoilt) \in Nat
  BY OneMore DEF SpoiltInv
<1>2. QED
  BY <1>1 DEF Load!Fault

LEMMA StepRefines ==
  ASSUME LoadInv, [Next]_vars
  PROVE  [Load!LoadNext]_(Load!loadVars)
<1>0. /\ SpoiltInv /\ faults \in 0..MaxFaults /\ MaxFaults \in Nat /\ at \in Locations
      /\ at.backend \in {"JSON", "ENV"}
      /\ Cardinality(spoilt) \in Nat /\ Cardinality(spoilt) <= MaxFaults - faults
  <2>1. faults \in 0..MaxFaults
    BY LocationType DEF LoadInv, BackendInv, TypeInv, StageTypeOK, JsonInv, EnvInv, EnvFits
  <2>2. QED
    BY <2>1, MaxFaultsAssumption, LocationType DEF LoadInv, SpoiltInv, BackendInv, TypeInv, StageTypeOK
<1>1. /\ at' = at /\ signed' = signed /\ environ' = environ /\ Content' = Content
  BY StepLeaves
<1>2. ASSUME UNCHANGED <<stage, status, live, spoilt>> PROVE UNCHANGED Load!loadVars
  <2>0. Kind' = Kind
    BY <1>1 DEF Kind, IsRootless
  <2>1. [f \in {1} |-> Kind]' = [f \in {1} |-> Kind]
    BY <2>0
  <2>2. LoadLocals' = LoadLocals
    BY <1>1, <1>2, <2>0 DEF LoadLocals
  <2>3. QED
    BY <1>2, <2>1, <2>2 DEF Load!loadVars
<1>3. ASSUME spoilt' = spoilt PROVE (MaxFaults - Cardinality(spoilt))' = MaxFaults - Cardinality(spoilt)
  BY <1>3
<1>4. Load!At(stage) /\ Load!Goto(stage', status')
  BY <1>1, StageMaps
<1>5. CASE OpenJson
  <2>1. /\ stage = "OPEN" /\ at.backend = "JSON" /\ spoilt' = spoilt
        /\ \/ /\ at.file \in {NoFile, BadFile} /\ stage' = "DELETE" /\ live' = live
              /\ status' = IF at.file = NoFile THEN "NOT_FOUND" ELSE "ERROR"
           \/ /\ at.file \notin {NoFile, BadFile} /\ stage' = "LOAD" /\ status' = "OK"
              /\ live' = live \cup {"handle"}
    BY <1>5 DEF OpenJson, OpenWith, Stage
  <2>2. CASE at.file \in {NoFile, BadFile}
    <3>1. Content = IF at.file = NoFile THEN "ABSENT" ELSE "BROKEN"
      BY <2>1, <2>2, LocationAssumption DEF Content
    <3>2. Load!OpenRefused
      BY <1>3, <1>4, <2>1, <2>2, <3>1, LoadSees DEF Load!OpenRefused
    <3>3. QED
      BY <3>2 DEF Load!LoadNext
  <2>3. CASE at.file \notin {NoFile, BadFile}
    <3>1. Content \in {"PARTIAL", "GOOD"}
      BY <2>1, <2>3, ContentOfJson
    <3>2. Load!Open
      BY <1>3, <1>4, <2>1, <2>3, <3>1, LoadSees DEF Load!Open
    <3>3. QED
      BY <3>2 DEF Load!LoadNext
  <2>4. QED
    BY <2>2, <2>3
<1>6. CASE OpenEnv \/ OpenEnvWithoutQuery
  <2>1. /\ stage = "OPEN" /\ at.backend = "ENV" /\ spoilt' = spoilt
        /\ \/ /\ at.location.scheme # "env" /\ stage' = "DELETE" /\ live' = live /\ status' = "ERROR"
           \/ /\ at.location.scheme = "env" /\ stage' = "LOAD" /\ status' = "OK"
              /\ live' = live \cup {"handle"}
    BY <1>6 DEF OpenEnv, OpenEnvWithoutQuery, OpenWith, Stage
  <2>2. CASE at.location.scheme # "env"
    <3>1. Content = "BROKEN"
      BY <2>1, <2>2 DEF Content
    <3>2. Load!OpenRefused
      BY <1>3, <1>4, <2>1, <2>2, <3>1, LoadSees DEF Load!OpenRefused
    <3>3. QED
      BY <3>2 DEF Load!LoadNext
  <2>3. CASE at.location.scheme = "env"
    <3>1. Content \in {"PARTIAL", "GOOD"}
      BY <1>0, <2>1, <2>3, ContentOfEnv
    <3>2. Load!Open
      BY <1>3, <1>4, <2>1, <2>3, <3>1, LoadSees DEF Load!Open
    <3>3. QED
      BY <3>2 DEF Load!LoadNext
  <2>4. QED
    BY <2>2, <2>3
<1>7. CASE OpenFails
  <2>1. /\ stage = "OPEN" /\ Fault /\ stage' = "DELETE" /\ status' = "ERROR" /\ live' = live
        /\ spoilt' = spoilt \cup {"OPEN"}
    BY <1>7 DEF OpenFails, OpenWith, Stage
  <2>2. "OPEN" \notin spoilt /\ Cardinality(spoilt) < MaxFaults
    BY <1>0, <2>1 DEF SpoiltInv, Fault
  <2>3. Load!Fault
    BY <1>0, <2>1, <2>2, FaultMaps
  <2>4. Load!OpenFails
    BY <1>4, <2>1, <2>3 DEF Load!OpenFails
  <2>5. QED
    BY <2>4 DEF Load!LoadNext
<1>8. CASE OpenEnvCrash \/ LoadEnv \/ LoadJson \/ DeleteCrash
  BY <1>2, <1>8 DEF OpenEnvCrash, LoadEnv, LoadJson, DeleteCrash
<1>9. CASE Loaded
  <2>1. /\ stage = "LOAD" /\ stage' = "CLOSE"
        /\ live' = IF heap = <<>> THEN live ELSE live \cup {"tree"}
    BY <1>9 DEF Loaded, Stage
  <2>2. "LOAD" \notin spoilt /\ Cardinality(spoilt) = 0
    BY <1>0, <2>1, FS_EmptySet DEF SpoiltInv
  <2>3. CASE status' = Expected /\ heap # <<>> /\ spoilt' = spoilt
    <3>1. Expected = IF Content = "GOOD" THEN "OK" ELSE IF at.backend = "JSON" THEN "PARSE_ERROR" ELSE "ERROR"
      BY DEF Expected
    <3>2. Load!LoadTree
      BY <1>3, <1>4, <2>1, <2>3, <3>1, LoadSees DEF Load!LoadTree
    <3>3. QED
      BY <3>2 DEF Load!LoadNext
  <2>4. CASE status' = "ERROR" /\ faults # MaxFaults /\ spoilt' = spoilt \cup {"LOAD"}
    <3>1. Load!Fault
      BY <1>0, <2>2, <2>4, FaultMaps
    <3>2. Load!LoadFails
      BY <1>4, <2>1, <2>4, <3>1 DEF Load!LoadFails
    <3>3. QED
      BY <3>2 DEF Load!LoadNext
  <2>5. CASE /\ status' = "OK" /\ at.backend = "ENV" /\ heap # <<>>
             /\ faults # MaxFaults /\ spoilt' = spoilt \cup {"LOAD"}
    <3>1. Load!Fault
      BY <1>0, <2>2, <2>5, FaultMaps
    <3>2. Load!LoadCutShort
      BY <1>4, <2>1, <2>5, <3>1, LoadSees DEF Load!LoadCutShort
    <3>3. QED
      BY <3>2 DEF Load!LoadNext
  <2>6. QED
    BY <1>9, <2>3, <2>4, <2>5, LoadedSays
<1>10. CASE Close
  <2>1. /\ stage = "CLOSE" /\ stage' = "DELETE" /\ status' = status /\ live' = live \ {"handle"}
        /\ spoilt' = spoilt
    BY <1>10 DEF Close, Stage
  <2>2. Load!Close
    BY <1>3, <1>4, <2>1, LoadSees DEF Load!Close
  <2>3. QED
    BY <2>2 DEF Load!LoadNext
<1>11. CASE CloseFails
  <2>1. /\ stage = "CLOSE" /\ stage' = "DELETE" /\ status' = "ERROR" /\ live' = live /\ Fault
        /\ spoilt' = spoilt \cup {"CLOSE"}
    BY <1>11 DEF CloseFails, Stage
  <2>2. "CLOSE" \notin spoilt /\ Cardinality(spoilt) < MaxFaults
    BY <1>0, <2>1 DEF SpoiltInv, Fault
  <2>3. Load!Fault
    BY <1>0, <2>1, <2>2, FaultMaps
  <2>4. Load!CloseFails
    BY <1>4, <2>1, <2>3 DEF Load!CloseFails
  <2>5. QED
    BY <2>4 DEF Load!LoadNext
<1>12. CASE Delete
  <2>1. /\ stage = "DELETE" /\ stage' = "DONE" /\ status' = status /\ spoilt' = spoilt
        /\ live' = IF status = "OK" THEN live \ {"backend"} ELSE live \ {"backend", "tree"}
    BY <1>12 DEF Delete, Stage
  <2>2. Load!Delete
    BY <1>3, <1>4, <2>1, LoadSees DEF Load!Delete
  <2>3. QED
    BY <2>2 DEF Load!LoadNext
<1>13. CASE UNCHANGED vars
  BY <1>2, <1>13 DEF vars, backendVars
<1>14. QED
  BY <1>5, <1>6, <1>7, <1>8, <1>9, <1>10, <1>11, <1>12, <1>13 DEF Next

(* Seen from samconfLoad the backends do what ConfigLoad says, each step one *)
(* of its actions or none: what opening and loading give follows from what   *)
(* the location holds, or else a failure of ConfigLoad is used up.           *)
THEOREM BackendsLoad == Spec => ImplementsConfigLoad
<1>1. LoadInv /\ [Next]_vars => [Load!LoadNext]_(Load!loadVars)
  BY StepRefines
<1>2. QED
  BY <1>1, LoadAlways, PTL DEF Spec, ImplementsConfigLoad

(* What the dump of a node says of it, given the dumps f of its children. *)
Said(tree, f, m) ==
  [type |-> IF tree[m].type = "NONE" THEN "NULL" ELSE tree[m].type, value |-> tree[m].value,
   members |-> [i \in DOMAIN tree[m].children |->
                  LET c == tree[m].children[i]
                  IN  <<IF tree[m].type = "OBJECT" THEN tree[c].key ELSE NoKey, f[c]>>]]

(* ... and what the document says of a value. *)
Meant(doc, f, i) ==
  [type |-> doc[i].type,
   value |-> IF doc[i].type = "INT" THEN Clamp[doc[i].value] ELSE doc[i].value,
   members |-> [k \in DOMAIN doc[i].members |-> <<doc[doc[i].members[k]].key, f[doc[i].members[k]]>>]]

LEMMA SaidIsMeant ==
  ASSUME heap \in Seq(Node), Copied, IsDocument(document), NothingFailed,
         NEW f, NEW m \in DOMAIN heap
  PROVE  Said(heap, f, m) = Meant(document, f, m)
<1>1. /\ m \in DOMAIN document /\ Copies(heap[m], document[m], signed)
      /\ heap[m].children = document[m].members
  BY DEF Copied
<1>2. heap[m].type = document[m].type /\ heap[m].type # "NONE"
      /\ heap[m].value = IF document[m].type = "INT" THEN Clamp[document[m].value] ELSE document[m].value
  <2>1. document[m].type # "NONE"
    <3>1. document[m] \in JsonValue
      BY <1>1, ValueType
    <3>2. QED
      BY <3>1 DEF JsonValue, ScalarTypes
  <2>2. QED
    BY <1>1, <2>1 DEF Copies
<1> DEFINE kids == document[m].members
<1>3. \A k \in DOMAIN kids :
        (IF document[m].type = "OBJECT" THEN heap[kids[k]].key ELSE NoKey) = document[kids[k]].key
  <2>1. SUFFICES ASSUME NEW k \in DOMAIN kids
                 PROVE  (IF document[m].type = "OBJECT" THEN heap[kids[k]].key ELSE NoKey)
                          = document[kids[k]].key
    OBVIOUS
  <2>2. HasKey(heap[kids[k]], KeyAt(document, m, k, kids[k]), faults)
    <3>1. k \in DOMAIN heap[m].children /\ heap[m].children[k] = kids[k]
      BY <1>1
    <3>2. HasKey(heap[heap[m].children[k]], KeyAt(document, m, k, heap[m].children[k]), faults)
      BY <3>1 DEF Copied, KeysCopied
    <3>3. QED
      BY <3>1, <3>2
  <2>3. heap[kids[k]].key = KeyAt(document, m, k, kids[k])
    BY <2>2 DEF HasKey, NothingFailed
  <2>4. \/ document[m].type = "OBJECT"
        \/ document[m].type = "ARRAY" /\ document[kids[k]].key = NoKey
    BY <1>1 DEF IsDocument
  <2>5. QED
    BY <2>3, <2>4 DEF KeyAt
<1>4. [i \in DOMAIN heap[m].children |->
         LET c == heap[m].children[i]
         IN  <<IF heap[m].type = "OBJECT" THEN heap[c].key ELSE NoKey, f[c]>>]
        = [k \in DOMAIN kids |-> <<document[kids[k]].key, f[kids[k]]>>]
  BY <1>1, <1>2, <1>3
<1>5. QED
  BY <1>2, <1>4 DEF Said, Meant

(* A document that was loaded is dumped as it was, member by member, but for *)
(* the integers that do not fit into 32 bits (samconfDumpJsonConfig after    *)
(* samconfJsonBackendLoad).                                                  *)
THEOREM DumpsReadBack == Spec => []DumpReadsBack
<1>1. LoadInv => DumpReadsBack
  <2>1. SUFFICES ASSUME LoadInv, LoadedWell("JSON"), NothingFailed
                 PROVE  DumpJson(heap, Root) = Nested(document)
    BY DEF DumpReadsBack
  <2>2. /\ heap \in Seq(Node) /\ Copied /\ IsDocument(document)
    <3>1. JsonInv /\ JsonSays /\ Copied /\ json.pc = "DONE"
      BY <2>1 DEF LoadedWell, Ended, LoadInv, BackendInv, TypeInv, CopyInv
    <3>2. heap \in Seq(Node)
      BY <3>1 DEF JsonInv, JsonFits
    <3>3. IsDocument(document)
      BY <3>1 DEF JsonSays
    <3>4. QED
      BY <3>1, <3>2, <3>3
  <2>3. DOMAIN heap = DOMAIN document
    BY <2>2 DEF Copied
  <2> DEFINE P(f) == f = [m \in DOMAIN heap |-> Said(heap, f, m)]
             Q(f) == f = [i \in DOMAIN document |-> Meant(document, f, i)]
  <2>4. \A f : P(f) <=> Q(f)
    <3>1. SUFFICES ASSUME NEW f PROVE P(f) <=> Q(f)
      OBVIOUS
    <3>2. \A m \in DOMAIN heap : Said(heap, f, m) = Meant(document, f, m)
      BY <2>1, <2>2, SaidIsMeant
    <3>3. QED
      BY <2>3, <3>2
  <2>5. (CHOOSE f : P(f)) = (CHOOSE f : Q(f))
    <3> HIDE DEF P, Q
    <3>1. QED
      BY <2>4, Zenon
  <2>6. DumpJson(heap, Root) = (CHOOSE f : P(f))[Root]
    BY DEF DumpJson, Said
  <2>7. Nested(document) = (CHOOSE f : Q(f))[1]
    BY DEF Nested, Meant
  <2>8. QED
    BY <2>5, <2>6, <2>7 DEF Root
<1>2. QED
  BY <1>1, LoadAlways, PTL

-------------------------------------------------------------------------------
(***************************************************************************)
(* The order of environ decides: FirstVariableWins.                        *)
(***************************************************************************)

(* The variables before the k-th one that contain the filter; the paths they *)
(* make and the options among them.                                          *)
Before(filter, k) == {c \in Chosen(filter) : c < k}
PathsBefore(filter, k) == UNION {Beginnings(PathOf(c), Len(PathOf(c))) : c \in Before(filter, k)}
OptionsBefore(filter, k) ==
  {<<PathOf(c), environ[c].option>> : c \in {b \in Before(filter, k) : Wins(filter, b)}}

(* A variable has a path and an option. *)
LEMMA ChosenType ==
  ASSUME environ \in Seq(Variable), NEW c \in DOMAIN environ
  PROVE  c \in Nat \ {0} /\ PathOf(c) \in Seq(Keys) /\ environ[c].option \in Option
<1>1. environ[c] \in Variable /\ c \in Nat \ {0}
  OBVIOUS
<1>2. environ[c].name \in Names /\ environ[c].option \in Option
  BY <1>1 DEF Variable
<1>3. PathOf(c) \in Seq(Keys)
  BY <1>2, EnvPathType DEF PathOf
<1>4. QED
  BY <1>1, <1>2, <1>3

(* A path is the beginning of another one if it is among its prefixes. *)
LEMMA PrefixOf ==
  ASSUME NEW s \in Path, NEW t \in Seq(Keys)
  PROVE  IsPrefix(s, t) <=> s \in Beginnings(t, Len(t))
<1>1. s \in Seq(Keys) /\ Len(s) \in Nat /\ Len(t) \in Nat /\ s = SubSeq(s, 1, Len(s)) /\ s # <<>>
  BY DEF Path
<1>2. Len(s) # 0
  BY <1>1
<1>3. ASSUME IsPrefix(s, t) PROVE s \in Beginnings(t, Len(t))
  <2>1. Len(s) \in 1..Len(t) /\ s = SubSeq(t, 1, Len(s))
    BY <1>1, <1>2, <1>3 DEF IsPrefix
  <2>2. QED
    BY <2>1 DEF Beginnings
<1>4. ASSUME s \in Beginnings(t, Len(t)) PROVE IsPrefix(s, t)
  <2>1. PICK j \in 1..Len(t) : s = SubSeq(t, 1, j)
    BY <1>4 DEF Beginnings
  <2>2. Len(s) = j
    <3>1. j \in Nat /\ j >= 1 /\ j <= Len(t)
      BY <1>1
    <3>2. Len(SubSeq(t, 1, j)) = j
      BY <3>1
    <3>3. QED
      BY <2>1, <3>2
  <2>3. QED
    BY <1>1, <2>1, <2>2 DEF IsPrefix
<1>5. QED
  BY <1>3, <1>4

(* A variable becomes an option if its path is none of those before it. *)
LEMMA WinsIfNew ==
  ASSUME environ \in Seq(Variable), NEW filter, NEW c \in Chosen(filter), PathOf(c) # <<>>
  PROVE  Wins(filter, c) <=> PathOf(c) \notin PathsBefore(filter, c)
<1>1. \A b \in Chosen(filter) : b \in DOMAIN environ /\ PathOf(b) \in Seq(Keys)
  BY ChosenType DEF Chosen
<1>2. PathOf(c) \in Path
  BY <1>1 DEF Path
<1>3. \A b \in Chosen(filter) :
        IsPrefix(PathOf(c), PathOf(b)) <=> PathOf(c) \in Beginnings(PathOf(b), Len(PathOf(b)))
  BY <1>1, <1>2, PrefixOf
<1>4. QED
  BY <1>3 DEF Wins, PathsBefore, Before

(* Nothing is before the first variable. *)
LEMMA NothingBefore ==
  ASSUME environ \in Seq(Variable), NEW filter
  PROVE  PathsBefore(filter, 1) = {} /\ OptionsBefore(filter, 1) = {}
<1>1. \A c \in Chosen(filter) : ~(c < 1)
  BY ChosenType DEF Chosen
<1>2. Before(filter, 1) = {}
  BY <1>1 DEF Before
<1>3. QED
  BY <1>2 DEF PathsBefore, OptionsBefore

(* Going on by one variable adds the one that is passed, if it is chosen. *)
LEMMA OneMoreBefore ==
  ASSUME environ \in Seq(Variable), NEW filter, NEW k \in Nat \ {0}
  PROVE  /\ k \notin Chosen(filter) =>
              /\ PathsBefore(filter, k + 1) = PathsBefore(filter, k)
              /\ OptionsBefore(filter, k + 1) = OptionsBefore(filter, k)
         /\ k \in Chosen(filter) /\ PathOf(k) # <<>> =>
              /\ PathsBefore(filter, k + 1) =
                   PathsBefore(filter, k) \cup Beginnings(PathOf(k), Len(PathOf(k)))
              /\ OptionsBefore(filter, k + 1) = OptionsBefore(filter, k) \cup
                   (IF PathOf(k) \in PathsBefore(filter, k) THEN {}
                    ELSE {<<PathOf(k), environ[k].option>>})
<1>1. \A c \in Chosen(filter) : c \in Nat
  BY ChosenType DEF Chosen
<1>2. \A c \in Chosen(filter) : c < k + 1 <=> c < k \/ c = k
  BY <1>1
<1>3. CASE k \notin Chosen(filter)
  <2>1. Before(filter, k + 1) = Before(filter, k)
    BY <1>2, <1>3 DEF Before
  <2>2. QED
    BY <1>3, <2>1 DEF PathsBefore, OptionsBefore
<1>4. CASE k \in Chosen(filter) /\ PathOf(k) # <<>>
  <2>1. Before(filter, k + 1) = Before(filter, k) \cup {k}
    BY <1>2, <1>4 DEF Before
  <2>2. PathsBefore(filter, k + 1) = PathsBefore(filter, k) \cup Beginnings(PathOf(k), Len(PathOf(k)))
    BY <2>1 DEF PathsBefore
  <2>3. Wins(filter, k) <=> PathOf(k) \notin PathsBefore(filter, k)
    BY <1>4, WinsIfNew
  <2>4. OptionsBefore(filter, k + 1) = OptionsBefore(filter, k) \cup
          (IF Wins(filter, k) THEN {<<PathOf(k), environ[k].option>>} ELSE {})
    BY <2>1 DEF OptionsBefore
  <2>5. QED
    BY <1>4, <2>2, <2>3, <2>4
<1>5. QED
  BY <1>3, <1>4

(* At the end all variables are before. *)
LEMMA AllBefore ==
  ASSUME environ \in Seq(Variable), NEW filter, NEW k \in Nat, k > Len(environ)
  PROVE  PathsBefore(filter, k) = EnvPaths(filter) /\ OptionsBefore(filter, k) = EnvOptions(filter)
<1>1. \A c \in Chosen(filter) : c < k
  BY DEF Chosen
<1>2. Before(filter, k) = Chosen(filter)
  BY <1>1 DEF Before
<1>3. \A c \in Chosen(filter) : 1..Len(PathOf(c)) = DOMAIN PathOf(c)
  BY ChosenType DEF Chosen
<1>4. PathsBefore(filter, k) = EnvPaths(filter)
  BY <1>2, <1>3 DEF PathsBefore, EnvPaths, Beginnings
<1>5. QED
  BY <1>2, <1>4 DEF OptionsBefore, EnvOptions

(* What the tree says while the backend is in its loop, as long as nothing   *)
(* has failed: what the variables before the current one say and, within the *)
(* creation of an option, the part of its path that is done.                 *)
FirstSo(left, e, i, h) ==
  left = MaxFaults =>
    /\ e.pc \in {"FILTER", "LOOP", "CREATE"} => HasUniqueKeys(h)
    /\ e.pc = "FILTER" => TreeSays(h, {}, {})
    /\ e.pc = "LOOP" => TreeSays(h, PathsBefore(e.filter, e.at), OptionsBefore(e.filter, e.at))
    /\ e.pc = "CREATE" /\ i.status = "RUN" =>
         /\ i.node.key = Last(i.path) /\ Holding(i.node) = environ[e.at].option
         /\ TreeSays(h, PathsBefore(e.filter, e.at) \cup Beginnings(i.path, i.seg - 1),
                     OptionsBefore(e.filter, e.at))
    /\ e.pc = "CREATE" /\ i.status = "OK" =>
         TreeSays(h, PathsBefore(e.filter, e.at + 1), OptionsBefore(e.filter, e.at + 1))
    /\ e.pc = "DONE" /\ e.status = "OK" => TreeSays(h, EnvPaths(e.filter), EnvOptions(e.filter))

EnvFirst ==
  /\ FirstSo(faults, env, ins, heap)
  /\ faults = MaxFaults /\ env.pc = "CREATE" => OnPath

(* The environment does not change what it says. *)
LEMMA FirstNext ==
  ASSUME at' = at, environ' = environ, FirstSo(faults', env', ins', heap'),
         faults' = MaxFaults /\ env'.pc = "CREATE" => OnPath'
  PROVE  EnvFirst'
<1>1. /\ \A f : Chosen(f)' = Chosen(f)
      /\ \A c : PathOf(c)' = PathOf(c)
  BY SameContent
<1>2. \A f, k : Before(f, k)' = Before(f, k)
  BY <1>1 DEF Before
<1>3. \A f, k : PathsBefore(f, k)' = PathsBefore(f, k)
  BY <1>1, <1>2 DEF PathsBefore
<1>4. \A f, c : Wins(f, c)' = Wins(f, c)
  BY <1>1 DEF Wins
<1>5. \A f, k : OptionsBefore(f, k)' = OptionsBefore(f, k)
  BY <1>1, <1>2, <1>4 DEF OptionsBefore
<1>6. \A f : EnvPaths(f)' = EnvPaths(f) /\ EnvOptions(f)' = EnvOptions(f)
  BY <1>1, <1>4 DEF EnvPaths, EnvOptions
<1>7. QED
  BY <1>3, <1>5, <1>6 DEF EnvFirst, FirstSo

(* The loop over the variables goes through the environment in its order ... *)
LEMMA LoopFirst ==
  ASSUME EnvFits, EnvSays, EnvFirst, at \in Locations, at.backend = "ENV",
         faults = MaxFaults, faults' = faults,
         EnvFilter \/ EnvPass \/ EnvCreate \/ EnvEnd
  PROVE  /\ FirstSo(faults', env', ins', heap')
         /\ env'.pc = "CREATE" => OnPath'
<1>0. /\ EnvTypeOK /\ env.status \in {"OK", "ERROR"} /\ env.at \in Nat \ {0}
      /\ env.pc # "IDLE" /\ query = at.location.query
      /\ environ \in Seq(Variable) /\ heap' = heap
      /\ env.pc \in {"FILTER", "LOOP"} /\ HasUniqueKeys(heap)
  BY DEF EnvFits, EnvTypeOK, EnvSays, SaysSo, EnvFirst, FirstSo, EnvFilter, EnvPass, EnvCreate, EnvEnd,
         EnvAt, insertVars
<1> DEFINE paths == PathsBefore(env.filter, env.at)
           options == OptionsBefore(env.filter, env.at)
<1>1. CASE EnvFilter
  <2>1. env.at = 1 /\ env.status = "OK" /\ TreeSays(heap, {}, {})
    BY <1>1 DEF EnvFilter, EnvSays, SaysSo, EnvFirst, FirstSo
  <2>2. \/ env'.pc = "DONE" /\ env'.status = "ERROR"
        \/ env'.pc = "CRASHED"
        \/ env'.pc = "LOOP" /\ env'.at = 1
    BY <1>0, <1>1, <2>1, FilterStep
  <2>3. PathsBefore(env'.filter, 1) = {} /\ OptionsBefore(env'.filter, 1) = {}
    BY <1>0, NothingBefore
  <2>4. QED
    BY <1>0, <2>1, <2>2, <2>3 DEF FirstSo
<1>2. env.pc = "LOOP" => TreeSays(heap, paths, options)
  BY DEF EnvFirst, FirstSo
<1>3. CASE EnvPass
  <2>1. /\ env.pc = "LOOP" /\ ~EnvAtEnd /\ ~(environ[env.at].name \in Containing[env.filter])
        /\ NextVariable(env.status)
    BY <1>3 DEF EnvPass, EnvAt
  <2>2. env'.pc = "LOOP" /\ env'.filter = env.filter /\ env'.at = env.at + 1
    BY <1>0, <2>1, NextVariableType
  <2>3. env.at \notin Chosen(env.filter)
    BY <2>1 DEF Chosen
  <2>4. PathsBefore(env.filter, env.at + 1) = paths /\ OptionsBefore(env.filter, env.at + 1) = options
    BY <1>0, <2>3, OneMoreBefore
  <2> HIDE DEF paths, options
  <2>5. QED
    BY <1>0, <1>2, <2>1, <2>2, <2>4 DEF FirstSo
<1>4. CASE EnvCreate
  <2> DEFINE path == PathOf(env.at)
             option == environ[env.at].option
             node == NewOption(path, option)
  <2>1. env.pc = "LOOP" /\ ~EnvAtEnd /\ InsertCall(path, node) /\ EnvGoto("CREATE", env.status)
    BY <1>4 DEF EnvCreate, EnvAt, PathOf
  <2>2. env'.pc = "CREATE" /\ env'.filter = env.filter /\ env'.at = env.at
    BY <1>0, <2>1, EnvGotoType
  <2>3. env.at \in DOMAIN environ
    BY <1>0, <2>1 DEF EnvAtEnd
  <2>4. path \in Seq(Keys) /\ option \in Option
    BY <1>0, <2>3, ChosenType
  <2> HIDE DEF path, option
  <2>5. /\ node \in Node /\ node.children = <<>>
        /\ node.type = option.type /\ node.value = option.value
        /\ path # <<>> => node.key = Last(path)
    BY <2>4, NewOptionType
  <2> HIDE DEF node
  <2>6. Holding(node) = option
    BY <2>4, <2>5 DEF Holding, Option
  <2>7. /\ ins'.node = node /\ ins'.path = path /\ ins'.seg = 1
        /\ ins'.status = IF path = <<>> THEN "ERROR" ELSE "RUN"
    BY <2>1, <2>4, <2>5, InsertCallType
  <2>8. OnPath'
    <3>1. heap # <<>> /\ IsTree(heap) /\ heap \in Seq(Node) /\ ins = NoInsert /\ faults \in 0..MaxFaults
      BY <2>1 DEF EnvFits, EnvWhole
    <3>2. InsertTypeOK
      BY <3>1, NoInsertType, RootInHeap DEF InsertTypeOK
    <3>3. QED
      BY <1>0, <2>1, <2>4, <2>5, <3>1, <3>2, CallIsOnPath
  <2>9. Beginnings(path, ins'.seg - 1) = {}
    <3>1. 1..0 = {} /\ ins'.seg - 1 = 0
      BY <2>7
    <3>2. QED
      BY <3>1 DEF Beginnings
  <2>10. TreeSays(heap, paths \cup Beginnings(path, ins'.seg - 1), options)
    BY <1>2, <2>1, <2>9
  <2> HIDE DEF paths, options
  <2>11. ins'.status = "RUN" => path # <<>>
    BY <2>7
  <2>12. ins'.status # "OK"
    BY <2>7
  <2>13. QED
    BY <1>0, <2>2, <2>5, <2>6, <2>7, <2>8, <2>10, <2>11, <2>12 DEF FirstSo, paths, options, option
<1>5. CASE EnvEnd
  <2>1. env.pc = "LOOP" /\ EnvAtEnd /\ EnvGoto("DONE", env.status)
    BY <1>5 DEF EnvEnd
  <2>2. env'.pc = "DONE" /\ env'.status = env.status /\ env'.filter = env.filter
    BY <1>0, <2>1, EnvGotoType
  <2>3. env.at \in Nat /\ env.at > Len(environ)
    BY <1>0, <2>1 DEF EnvAtEnd
  <2>4. paths = EnvPaths(env.filter) /\ options = EnvOptions(env.filter)
    BY <1>0, <2>3, AllBefore
  <2> HIDE DEF paths, options
  <2>5. QED
    BY <1>0, <1>2, <2>1, <2>2, <2>4 DEF FirstSo
<1>6. QED
  BY <1>1, <1>3, <1>4, <1>5

(* ... and the creation of an option adds what its variable says. *)
LEMMA CreateFirst ==
  ASSUME EnvFits, EnvSays, EnvFirst, faults = MaxFaults, faults' = faults,
         EnvInserting \/ EnvCreated \/ EnvNotCreated
  PROVE  /\ FirstSo(faults', env', ins', heap')
         /\ env'.pc = "CREATE" => OnPath'
<1> DEFINE paths == PathsBefore(env.filter, env.at)
           options == OptionsBefore(env.filter, env.at)
           now == PathsBefore(env.filter, env.at + 1)
           more == OptionsBefore(env.filter, env.at + 1)
           path == ins.path
<1>0. /\ EnvTypeOK /\ env.at \in Nat \ {0} /\ env.pc = "CREATE" /\ ins \in Insert
      /\ environ \in Seq(Variable) /\ heap # <<>> /\ HasUniqueKeys(heap) /\ OnPath
      /\ env.at \in Chosen(env.filter) /\ path = PathOf(env.at)
      /\ ins.status \in {"RUN", "OK"} => path # <<>>
      /\ InsertTypeOK /\ InsertsLeaf
  BY DEF EnvFits, EnvTypeOK, EnvSays, SaysSo, EnvFirst, FirstSo, EnvInserting, EnvCreated, EnvNotCreated
<1>1. ins.status = "OK" => TreeSays(heap, now, more)
  BY <1>0 DEF EnvFirst, FirstSo
<1>2. CASE EnvInserting
  <2>1. InsertNext /\ env' = env
    BY <1>2 DEF EnvInserting
  <2>2. ~Fault
    BY MaxFaultsAssumption DEF Fault
  <2>3. ins.status = "RUN" /\ ins'.path = path /\ ins'.node = ins.node
    BY <1>0, <2>1, InsertStatus, InsertStep DEF InsertGoesOn
  <2>4. /\ ins.node.key = Last(path) /\ Holding(ins.node) = environ[env.at].option
        /\ TreeSays(heap, paths \cup Beginnings(path, ins.seg - 1), options)
    BY <1>0, <2>3 DEF EnvFirst, FirstSo
  <2>5. InsertDescend \/ InsertLink \/ InsertCrash
    BY <2>1, <2>2 DEF InsertNext, InsertSkip, InsertFail, InsertAddFails
  <2>6. CASE InsertCrash
    <3>1. heap' = heap /\ ins'.status = "CRASHED"
      BY <1>0, <2>6 DEF InsertCrash, Insert
    <3>2. QED
      BY <1>0, <2>1, <3>1 DEF FirstSo, OnPath
  <2>7. CASE InsertDescend \/ InsertLink
    <3>1. IsTree(heap)
      BY <1>0, <2>3 DEF EnvFits, EnvWhole
    <3>2. OnPath' /\ HasUniqueKeys(heap')
      BY <1>0, <2>4, <2>7, <3>1, RoundStaysOnPath DEF NamedByPath
    <3>3. ins.node.type \in ScalarTypes
      <4>1. env.at \in DOMAIN environ
        BY <1>0 DEF Chosen
      <4>2. environ[env.at].option \in Option
        BY <1>0, <4>1, ChosenType
      <4>3. Holding(ins.node).type = ins.node.type
        BY DEF Holding
      <4>4. QED
        BY <2>4, <4>2, <4>3 DEF Option
    <3> HIDE DEF paths, options
    <3>4. /\ ins'.status = "RUN" => TreeSays(heap', paths \cup Beginnings(path, ins'.seg - 1), options)
          /\ ins'.status = "OK" =>
               TreeSays(heap', paths \cup Beginnings(path, Len(path)),
                        options \cup (IF path \in paths THEN {} ELSE {<<path, Holding(ins.node)>>}))
      BY <1>0, <2>4, <2>7, <3>1, <3>3, RoundIsSeen DEF NamedByPath
    <3>5. /\ now = paths \cup Beginnings(path, Len(path))
          /\ more = options \cup (IF path \in paths THEN {} ELSE {<<path, Holding(ins.node)>>})
      BY <1>0, <2>3, <2>4, OneMoreBefore DEF paths, options
    <3> HIDE DEF now, more, path
    <3>6. ins'.status = "OK" => TreeSays(heap', now, more)
      BY <3>4, <3>5
    <3>7. QED
      BY <1>0, <2>1, <2>3, <2>4, <3>2, <3>4, <3>6 DEF FirstSo, paths, options, now, more
  <2>8. QED
    BY <2>5, <2>6, <2>7
<1>3. CASE EnvCreated
  <2>1. ins.status = "OK" /\ NextVariable("OK") /\ heap' = heap
    BY <1>3 DEF EnvCreated, InsertReturn
  <2>2. env'.pc = "LOOP" /\ env'.filter = env.filter /\ env'.at = env.at + 1
    BY <1>0, <2>1, NextVariableType
  <2>3. QED
    BY <1>0, <1>1, <2>1, <2>2 DEF FirstSo
<1>4. CASE EnvNotCreated
  <2>1. EnvGoto("DONE", "ERROR")
    BY <1>4 DEF EnvNotCreated
  <2>2. env'.pc = "DONE" /\ env'.status = "ERROR"
    BY <1>0, <2>1, EnvGotoType
  <2>3. QED
    BY <2>2 DEF FirstSo
<1>5. QED
  BY <1>2, <1>3, <1>4

(* A tree that is its root says nothing. *)
LEMMA RootSaysNothing ==
  ASSUME NEW node \in Node, node.children = <<>>, node.parent = NULL, node.type \notin ScalarTypes,
         ~node.lost
  PROVE  HasUniqueKeys(<<node>>) /\ TreeSays(<<node>>, {}, {})
<1> DEFINE h == <<node>>
<1>1. DOMAIN h = {Root} /\ h[Root] = node
  BY OneNode
<1> HIDE DEF h
<1>2. HasUniqueKeys(h)
  BY <1>1 DEF HasUniqueKeys
<1>3. PathsIn(h) = {}
  BY <1>1 DEF PathsIn
<1>4. OptionsIn(h) = {}
  BY <1>1 DEF OptionsIn
<1>5. QED
  BY <1>2, <1>3, <1>4 DEF TreeSays, h

(* ... and what is said stays true to the order of environ in every step. *)
LEMMA EnvFirstStep ==
  ASSUME TypeInv, at.backend = "ENV", EnvSays, EnvFirst, [Next]_vars
  PROVE  EnvFirst'
<1>0. /\ EnvInv /\ EnvFits /\ StageTypeOK /\ faults \in 0..MaxFaults /\ at \in Locations
      /\ signed \in BOOLEAN
  BY DEF TypeInv, EnvInv, EnvFits, StageTypeOK
<1>1. at' = at /\ environ' = environ
  BY <1>0, EnvInvStep, EnvironStays
<1>2. SUFFICES ASSUME faults' = MaxFaults
               PROVE  /\ FirstSo(faults', env', ins', heap')
                      /\ env'.pc = "CREATE" => OnPath'
  <2>1. faults' # MaxFaults => FirstSo(faults', env', ins', heap')
    BY DEF FirstSo
  <2>2. QED
    BY <1>1, <2>1, FirstNext
<1>3. ~Fault
  BY <1>0, <1>2, MaxFaultsAssumption DEF Fault
<1>4. CASE LoadEnv
  <2>1. EnvLoad(signed) \/ EnvLoadFails \/ EnvNext
    BY <1>4 DEF LoadEnv
  <2>2. CASE EnvLoad(signed)
    <3> DEFINE node == [ConfigNew EXCEPT !.key = RootKey, !.type = "OBJECT", !.isSigned = signed]
    <3>1. /\ node \in Node /\ node.children = <<>> /\ node.parent = NULL
          /\ node.type \notin ScalarTypes /\ ~node.lost
      <4>1. \A mark \in BOOLEAN, key \in Keys :
              LET new == [ConfigNew EXCEPT !.key = key, !.type = "OBJECT", !.isSigned = mark]
              IN  /\ new \in Node /\ new.children = <<>> /\ new.parent = NULL /\ new.type = "OBJECT"
                  /\ ~new.lost
        BY NewNodeType DEF Node, ConfigNew, ContainerTypes
      <4>2. RootKey \in Keys /\ "OBJECT" \notin ScalarTypes
        BY KeyAssumption DEF ScalarTypes
      <4>3. QED
        BY <1>0, <4>1, <4>2
    <3>2. heap' = <<node>> /\ EnvGoto("FILTER", "OK") /\ EnvTypeOK
      BY <1>0, <2>2 DEF EnvLoad, EnvFits
    <3> HIDE DEF node
    <3>3. HasUniqueKeys(heap') /\ TreeSays(heap', {}, {})
      BY <3>1, <3>2, RootSaysNothing
    <3>4. env'.pc = "FILTER"
      BY <3>2, EnvGotoType
    <3>5. QED
      BY <3>3, <3>4 DEF FirstSo
  <2>3. CASE EnvFilter \/ EnvPass \/ EnvCreate \/ EnvEnd
    <3>1. faults' = faults
      BY <2>3 DEF EnvFilter, EnvPass, EnvCreate, EnvEnd, insertVars
    <3>2. QED
      BY <1>0, <1>2, <2>3, <3>1, LoopFirst
  <2>4. CASE EnvInserting \/ EnvCreated \/ EnvNotCreated
    <3>1. faults' = faults
      <4>1. CASE EnvInserting
        BY <1>3, <4>1 DEF EnvInserting, InsertNext, InsertDescend, InsertLink, InsertSkip, InsertFail,
                          InsertAddFails, InsertCrash
      <4>2. CASE EnvCreated \/ EnvNotCreated
        BY <4>2 DEF EnvCreated, EnvNotCreated
      <4>3. QED
        BY <2>4, <4>1, <4>2
    <3>2. QED
      BY <1>0, <1>2, <2>4, <3>1, CreateFirst
  <2>5. ~(EnvLoadFails \/ EnvFilterFails \/ EnvCopyFails \/ EnvCreateWithoutString \/ EnvCreateFails)
    BY <1>3 DEF EnvLoadFails, EnvFilterFails, EnvCopyFails, EnvCreateWithoutString, EnvCreateFails
  <2>6. QED
    BY <2>1, <2>2, <2>3, <2>4, <2>5 DEF EnvNext
<1>5. ASSUME UNCHANGED <<heap, ins, faults, env>>
      PROVE  /\ FirstSo(faults', env', ins', heap')
             /\ env'.pc = "CREATE" => OnPath'
  BY <1>2, <1>5 DEF EnvFirst, OnPath
<1>6. CASE OpenEnv \/ Loaded \/ Close \/ Delete \/ DeleteCrash \/ UNCHANGED vars
  <2>1. UNCHANGED <<heap, ins, faults, env>>
    <3>1. OpenEnv => UNCHANGED <<heap, ins, faults, env>>
      BY DEF OpenEnv, insertVars
    <3>2. Loaded \/ Close => UNCHANGED <<heap, ins, faults, env>>
      BY DEF Loaded, Close, Unchanged, insertVars, envVars
    <3>3. Delete \/ DeleteCrash => UNCHANGED <<heap, ins, faults, env>>
      BY DEF Delete, DeleteCrash, Unchanged, insertVars, envVars
    <3>4. UNCHANGED vars => UNCHANGED <<heap, ins, faults, env>>
      BY DEF vars, insertVars, envVars
    <3>5. QED
      BY <1>6, <3>1, <3>2, <3>3, <3>4
  <2>2. QED
    BY <1>5, <2>1
<1>7. ~(OpenJson \/ LoadJson \/ OpenEnvWithoutQuery \/ OpenEnvCrash \/ OpenFails \/ CloseFails)
  BY <1>3 DEF OpenJson, LoadJson, OpenEnvWithoutQuery, OpenEnvCrash, OpenFails, CloseFails
<1>8. QED
  BY <1>4, <1>6, <1>7 DEF Next

FirstInv == LoadInv /\ (at.backend = "ENV" => EnvFirst)

(* The order of environ decides: when the environment backend returns OK and *)
(* nothing has failed, the options of the tree are those of the variables    *)
(* that are the first to name their path, and its paths are those that any   *)
(* of them names.                                                            *)
THEOREM VariablesInOrder == Spec => []FirstVariableWins
<1>1. Init => FirstInv
  BY InitLoad DEF Init, FirstInv, EnvFirst, FirstSo, NoEnv
<1>2. FirstInv /\ [Next]_vars => FirstInv'
  <2>1. SUFFICES ASSUME FirstInv, [Next]_vars PROVE FirstInv'
    OBVIOUS
  <2>2. LoadInv /\ LoadInv' /\ TypeInv /\ (at.backend = "ENV" => EnvSays)
    BY <2>1, LoadInvStep DEF FirstInv, LoadInv, BackendInv
  <2>3. at' = at /\ at.backend \in {"JSON", "ENV"}
    BY <2>1, <2>2, LocationType, JsonInvStep, EnvInvStep DEF TypeInv, StageTypeOK
  <2>4. at.backend = "ENV" => EnvFirst'
    BY <2>1, <2>2, EnvFirstStep DEF FirstInv
  <2>5. QED
    BY <2>2, <2>3, <2>4 DEF FirstInv
<1>3. FirstInv => FirstVariableWins
  <2>1. SUFFICES ASSUME FirstInv, LoadedWell("ENV"), NothingFailed
                 PROVE  TreeSays(heap, EnvPaths(env.filter), EnvOptions(env.filter))
    BY DEF FirstVariableWins, TreeSays, PathsIn, OptionsIn, Holding
  <2>2. at.backend = "ENV" /\ env.pc = "DONE" /\ env.status = "OK" /\ faults = MaxFaults
    BY <2>1 DEF LoadedWell, Ended, NothingFailed
  <2>3. QED
    BY <2>1, <2>2 DEF FirstInv, EnvFirst, FirstSo
<1>4. QED
  BY <1>1, <1>2, <1>3, PTL DEF Spec

===============================================================================

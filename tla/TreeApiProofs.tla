----------------------------- MODULE TreeApiProofs -----------------------------
(***************************************************************************)
(* Proofs about a program and its configuration tree, for all keys,        *)
(* values, paths and options and any number of calls and of failures: the  *)
(* tree stays a tree, an option is read back as it was written, a walk is  *)
(* complete, samconfDumpConfigTree draws the tree and samconfConfigDelete  *)
(* frees every node once.                                                  *)
(***************************************************************************)
EXTENDS TreeApi, WalkProofs

(***************************************************************************)
(* What a step does to the tree: every one grows it or leaves its links    *)
(* alone.                                                                  *)
(***************************************************************************)

(* Replacing a node by one with the same links grows the tree by nothing. *)
LEMMA ReplaceGrows ==
  ASSUME heap \in Seq(Node), heap # <<>>, NEW e \in DOMAIN heap, NEW node \in Node,
         Links(node) = Links(heap[e]), node.key = heap[e].key,
         heap' = [heap EXCEPT ![e] = node]
  PROVE  /\ Grows /\ DOMAIN heap' = DOMAIN heap
         /\ heap'[e] = node /\ \A m \in DOMAIN heap \ {e} : heap'[m] = heap[m]
<1>1. /\ heap' \in Seq(Node) /\ DOMAIN heap' = DOMAIN heap
      /\ heap'[e] = node /\ \A m \in DOMAIN heap \ {e} : heap'[m] = heap[m]
      /\ IsTree(heap) => IsTree(heap')
      /\ IsWhole(heap') => IsWhole(heap)
      /\ Prolongs(heap', heap)
      /\ Descends(heap) => Descends(heap')
  BY ReplaceEffect
<1>2. heap' # <<>>
  BY <1>1
<1>3. QED
  BY <1>1, <1>2 DEF Grows

(* samconfConfigSetInt and the like put an option into a node. *)
LEMMA SetGrows ==
  ASSUME heap \in Seq(Node), heap # <<>>, NEW e \in DOMAIN heap, NEW option \in Option,
         heap' = [heap EXCEPT ![e] = WithOption(@, option)]
  PROVE  /\ Grows /\ DOMAIN heap' = DOMAIN heap
         /\ heap'[e].type = option.type /\ heap'[e].value = option.value
         /\ \A m \in DOMAIN heap \ {e} : heap'[m] = heap[m]
<1> DEFINE node == WithOption(heap[e], option)
<1>1. heap[e] \in Node /\ heap' = [heap EXCEPT ![e] = node]
  OBVIOUS
<1>2. /\ node \in Node /\ Links(node) = Links(heap[e]) /\ node.key = heap[e].key
      /\ node.type = option.type /\ node.value = option.value
  BY <1>1, WithOptionType
<1> HIDE DEF node
<1>3. QED
  BY <1>1, <1>2, ReplaceGrows

(* ... or fail to. *)
LEMMA SetFailsGrows ==
  ASSUME heap \in Seq(Node), heap # <<>>, NEW e \in DOMAIN heap,
         \/ heap' = [heap EXCEPT ![e].value = NoValue]
         \/ heap' = [heap EXCEPT ![e].value = NoValue, ![e].type = "STRING"]
  PROVE  /\ Grows /\ DOMAIN heap' = DOMAIN heap
         /\ \A m \in DOMAIN heap \ {e} : heap'[m] = heap[m]
<1>1. heap[e] \in Node
  OBVIOUS
<1>2. CASE heap' = [heap EXCEPT ![e].value = NoValue]
  <2> DEFINE node == [heap[e] EXCEPT !.value = NoValue]
  <2>1. node \in Node /\ Links(node) = Links(heap[e]) /\ node.key = heap[e].key
    BY <1>1 DEF Node, Links
  <2>2. heap' = [heap EXCEPT ![e] = node]
    BY <1>2
  <2> HIDE DEF node
  <2>3. QED
    BY <2>1, <2>2, ReplaceGrows
<1>3. CASE heap' = [heap EXCEPT ![e].value = NoValue, ![e].type = "STRING"]
  <2> DEFINE node == [heap[e] EXCEPT !.value = NoValue, !.type = "STRING"]
  <2>1. node \in Node /\ Links(node) = Links(heap[e]) /\ node.key = heap[e].key
    BY <1>1 DEF Node, Links, ScalarTypes
  <2>2. heap' = [heap EXCEPT ![e] = node]
    BY <1>3
  <2> HIDE DEF node
  <2>3. QED
    BY <2>1, <2>2, ReplaceGrows
<1>4. QED
  BY <1>2, <1>3

(* samconfCopyConfigValue copies the option of a scalar and nothing else. *)
LEMMA CopyGrows ==
  ASSUME heap \in Seq(Node), heap # <<>>, NEW e \in DOMAIN heap, NEW source \in Node,
         heap' = [heap EXCEPT ![e] = CopyConfigValue(source, @)]
  PROVE  /\ Grows /\ DOMAIN heap' = DOMAIN heap
         /\ source.type \in ScalarTypes /\ ~CopyFails(source) =>
              heap'[e].type = source.type /\ heap'[e].value = source.value
         /\ source.type \notin ScalarTypes \/ CopyFails(source) => heap'[e] = heap[e]
         /\ \A m \in DOMAIN heap \ {e} : heap'[m] = heap[m]
<1> DEFINE node == CopyConfigValue(source, heap[e])
<1>1. heap[e] \in Node /\ heap' = [heap EXCEPT ![e] = node]
  OBVIOUS
<1>2. node \in Node /\ Links(node) = Links(heap[e]) /\ node.key = heap[e].key
  BY <1>1, CopyValueType
<1>3. /\ source.type \in ScalarTypes /\ ~CopyFails(source) =>
           node.type = source.type /\ node.value = source.value
      /\ source.type \notin ScalarTypes \/ CopyFails(source) => node = heap[e]
  <2>1. source.type \in ScalarTypes => source.type \notin ContainerTypes
    BY DEF ScalarTypes, ContainerTypes
  <2>2. source.type \notin ScalarTypes => source.type \in ContainerTypes
    BY DEF Node
  <2>3. QED
    BY <1>1, <2>1, <2>2 DEF CopyConfigValue, Node
<1> HIDE DEF node
<1>4. QED
  BY <1>1, <1>2, <1>3, ReplaceGrows

-------------------------------------------------------------------------------
(***************************************************************************)
(* The state of the program.                                               *)
(***************************************************************************)

(* What samconfInsertAt is called with, as long as it runs. *)
CallFits ==
  /\ ins.status # "IDLE" => ins.path \in Paths /\ freed = <<>>
  /\ ins.status \in {"RUN", "OK"} => ins.path # <<>>
  /\ creating /\ ins.status # "IDLE" =>
       /\ [type |-> ins.node.type, value |-> ins.node.value] \in Option
       /\ ins.path # <<>> => NamedByPath

(* The node of an option that was created is at the path it was created at,  *)
(* and holds what was last set.                                              *)
IsAtItsPath(n) ==
  /\ written[n].path # <<>>
  /\ Reach(heap, Root, written[n].path) = n
  /\ heap[n].type = written[n].option.type
  /\ heap[n].value = written[n].option.value

(* A walk has met nothing of what follows its position and all the rest. *)
WalkFits ==
  walk.on =>
    /\ walk.at \in walk.met
    /\ walk.met \cap Following(heap, walk.at) = {}
    /\ walk.known \subseteq walk.met \cup Following(heap, walk.at)

(* The inductive invariant. *)
TreeInv ==
  /\ TypeOK
  /\ InsertsLeaf
  /\ Descends(heap)
  /\ IsWhole(heap) => IsTree(heap)
  /\ CallFits

ApiInv ==
  /\ TreeInv
  /\ DeletesEachNodeOnce
  /\ IsWhole(heap) => /\ creating => OnPath
                      /\ \A n \in DOMAIN written : IsAtItsPath(n)
                      /\ WalkFits

(* The tree keeps its nodes in every step, and samconfInsertAt its locals. *)
TreeStep == InsertTypeOK' /\ InsertsLeaf' /\ Grows

(* A step that leaves samconfInsertAt alone. *)
LEMMA NoRound ==
  ASSUME TypeOK, InsertsLeaf, Grows, UNCHANGED ins, faults' \in 0..MaxFaults
  PROVE  TreeStep
<1>1. /\ ins \in Insert /\ ins.parent \in DOMAIN heap /\ ins.linked \in DOMAIN heap \cup {NULL}
      /\ ins' = ins /\ ins.node.children = <<>>
  BY DEF TypeOK, InsertTypeOK, InsertsLeaf
<1>2. heap' \in Seq(Node) /\ heap' # <<>> /\ DOMAIN heap \subseteq DOMAIN heap'
  BY DEF Grows
<1>3. ins' \in Insert /\ ins'.parent \in DOMAIN heap' /\ ins'.linked \in DOMAIN heap' \cup {NULL}
      /\ ins'.node.children = <<>>
  BY <1>1, <1>2
<1>4. QED
  BY <1>2, <1>3 DEF TreeStep, InsertTypeOK, InsertsLeaf

(* A step that starts or ends it. *)
LEMMA CallOrReturn ==
  ASSUME TypeOK, InsertsLeaf, UNCHANGED heap, faults' \in 0..MaxFaults,
         \/ ins' = NoInsert
         \/ \E path \in Seq(Keys), node \in Node : node.children = <<>> /\ InsertCall(path, node)
  PROVE  TreeStep
<1>1. /\ heap \in Seq(Node) /\ heap # <<>> /\ Root \in DOMAIN heap /\ heap' = heap
  BY RootInHeap DEF TypeOK, InsertTypeOK
<1>2. Grows
  BY UnchangedGrows DEF TypeOK
<1>3. /\ ins' \in Insert /\ ins'.parent = Root /\ ins'.linked = NULL
      /\ ins'.node.children = <<>>
  <2>1. CASE ins' = NoInsert
    BY <2>1, NoInsertType
  <2>2. CASE \E path \in Seq(Keys), node \in Node : node.children = <<>> /\ InsertCall(path, node)
    BY <2>2, InsertCallType
  <2>3. QED
    BY <2>1, <2>2
<1>4. InsertTypeOK' /\ InsertsLeaf'
  BY <1>1, <1>3 DEF InsertTypeOK, InsertsLeaf
<1>5. QED
  BY <1>2, <1>4 DEF TreeStep

(* Each step of the program keeps the tree and the locals of samconfInsertAt *)
(* in order.                                                                 *)
LEMMA StepKeepsTree ==
  ASSUME TypeOK, InsertsLeaf, [Next]_vars
  PROVE  TreeStep
<1>1. /\ heap \in Seq(Node) /\ heap # <<>> /\ faults \in 0..MaxFaults /\ InsertTypeOK
      /\ Paths \subseteq Seq(Keys) /\ Options \subseteq Option
  BY ApiAssumption DEF TypeOK, InsertTypeOK
<1>2. /\ faults' = faults => faults' \in 0..MaxFaults
      /\ Fault => faults' \in 0..MaxFaults
  BY <1>1, FaultType
<1>3. UNCHANGED heap => Grows
  BY <1>1, UnchangedGrows
<1>4. CASE CallCreate
  <2>1. PICK path \in Paths, option \in Options : InsertCall(path, NewOption(path, option))
    BY <1>4 DEF CallCreate
  <2>2. NewOption(path, option) \in Node /\ NewOption(path, option).children = <<>>
    BY <1>1, NewOptionType
  <2>3. UNCHANGED heap /\ faults' \in 0..MaxFaults
    BY <1>2, <1>4 DEF CallCreate
  <2>4. path \in Seq(Keys)
    BY <1>1
  <2>5. QED
    BY <2>1, <2>2, <2>3, <2>4, CallOrReturn
<1>5. CASE CallCreateWithoutString
  <2>1. PICK path \in Paths, option \in Options :
          InsertCall(path, [NewOption(path, option) EXCEPT !.value = NoValue])
    BY <1>5 DEF CallCreateWithoutString
  <2>2. NewOption(path, option) \in Node /\ NewOption(path, option).children = <<>>
    BY <1>1, NewOptionType
  <2>3. /\ [NewOption(path, option) EXCEPT !.value = NoValue] \in Node
        /\ [NewOption(path, option) EXCEPT !.value = NoValue].children = <<>>
    BY <2>2 DEF Node
  <2>4. UNCHANGED heap /\ faults' \in 0..MaxFaults
    BY <1>2, <1>5 DEF CallCreateWithoutString
  <2>5. path \in Seq(Keys)
    BY <1>1
  <2>6. QED
    BY <2>1, <2>3, <2>4, <2>5, CallOrReturn
<1>6. CASE CallInsert
  <2>1. PICK path \in Paths, key \in Keys : InsertCall(path, [ConfigNew EXCEPT !.key = key])
    BY <1>6 DEF CallInsert
  <2>2. /\ [ConfigNew EXCEPT !.key = key] \in Node
        /\ [ConfigNew EXCEPT !.key = key].children = <<>>
    BY NewKeyType
  <2>3. UNCHANGED heap /\ faults' \in 0..MaxFaults
    BY <1>2, <1>6 DEF CallInsert
  <2>4. path \in Seq(Keys)
    BY <1>1
  <2>5. QED
    BY <2>1, <2>2, <2>3, <2>4, CallOrReturn
<1>7. CASE Inserting
  BY <1>1, <1>7, InsertStep DEF Inserting, InsertGoesOn, TreeStep
<1>8. CASE Inserted \/ NotInserted
  <2>1. UNCHANGED heap /\ faults' = faults /\ ins' = NoInsert
    BY <1>8 DEF Inserted, NotInserted, InsertReturn
  <2>2. QED
    BY <1>2, <2>1, CallOrReturn
<1>9. CASE SetValue
  <2>1. PICK e \in DOMAIN heap, option \in Options : heap' = [heap EXCEPT ![e] = WithOption(@, option)]
    BY <1>9 DEF SetValue
  <2>2. Grows
    BY <1>1, <2>1, SetGrows
  <2>3. UNCHANGED <<ins, faults>>
    BY <1>9 DEF SetValue
  <2>4. QED
    BY <1>2, <2>2, <2>3, NoRound
<1>10. CASE SetValueFails
  <2>1. PICK e \in DOMAIN heap :
          \/ heap' = [heap EXCEPT ![e].value = NoValue]
          \/ heap' = [heap EXCEPT ![e].value = NoValue, ![e].type = "STRING"]
    BY <1>10 DEF SetValueFails
  <2>2. Grows
    BY <1>1, <2>1, SetFailsGrows
  <2>3. UNCHANGED ins /\ Fault
    BY <1>10 DEF SetValueFails
  <2>4. QED
    BY <1>2, <2>2, <2>3, NoRound
<1>11. CASE CopyValue
  <2>1. PICK from \in DOMAIN heap, to \in DOMAIN heap :
          heap' = heap \/ heap' = [heap EXCEPT ![to] = CopyConfigValue(heap[from], @)]
    BY <1>11 DEF CopyValue
  <2>2. Grows
    <3>1. heap[from] \in Node
      BY <1>1
    <3>2. QED
      BY <1>1, <1>3, <2>1, <3>1, CopyGrows
  <2>3. UNCHANGED <<ins, faults>>
    BY <1>11 DEF CopyValue
  <2>4. QED
    BY <1>2, <2>2, <2>3, NoRound
<1>12. CASE AddNode
  <2>1. PICK p \in DOMAIN heap, key \in Keys :
          heap' = heap \/ heap' = ConfigAdd(heap, p, [ConfigNew EXCEPT !.key = key])
    BY <1>12 DEF AddNode
  <2>2. Grows
    <3> DEFINE node == [ConfigNew EXCEPT !.key = key]
    <3>1. node \in Node /\ node.children = <<>>
      BY NewKeyType
    <3> HIDE DEF node
    <3>2. heap' = heap \/ heap' = ConfigAdd(heap, p, node)
      BY <2>1 DEF node
    <3>3. QED
      BY <1>1, <1>3, <3>1, <3>2, AddGrows
  <2>3. UNCHANGED <<ins, faults>>
    BY <1>12 DEF AddNode
  <2>4. QED
    BY <1>2, <2>2, <2>3, NoRound
<1>13. CASE AddNodeFails
  <2>1. PICK p \in DOMAIN heap : heap' = [heap EXCEPT ![p] = LoseChildren(@)]
    BY <1>13 DEF AddNodeFails
  <2>2. Grows
    BY <1>1, <2>1, LoseGrows
  <2>3. UNCHANGED ins /\ Fault
    BY <1>13 DEF AddNodeFails
  <2>4. QED
    BY <1>2, <2>2, <2>3, NoRound
<1>14. CASE CreateFails \/ WalkStart \/ WalkNext \/ WalkEnd \/ Delete \/ DeleteCrash \/ UNCHANGED vars
  <2>1. UNCHANGED <<heap, ins>> /\ (faults' = faults \/ Fault)
    BY <1>14 DEF CreateFails, WalkStart, WalkNext, WalkEnd, Delete, DeleteCrash, vars, insertVars
  <2>2. QED
    BY <1>2, <1>3, <2>1, NoRound
<1>15. QED
  BY <1>4, <1>5, <1>6, <1>7, <1>8, <1>9, <1>10, <1>11, <1>12, <1>13, <1>14 DEF Next

(* What changes the history of the program, and what else a step sets. *)
LEMMA StepChanges ==
  ASSUME [Next]_vars
  PROVE  /\ walk' = walk \/ WalkStart \/ WalkNext \/ WalkEnd
         /\ written' = written \/ Inserted \/ SetValue \/ SetValueFails \/ CopyValue
         /\ freed' = freed \/ Delete
         /\ heap' = heap \/ Inserting \/ Change
         /\ \/ ins' = ins /\ (creating' = creating)
            \/ CallCreate \/ CallCreateWithoutString \/ CallInsert
            \/ Inserting \/ Inserted \/ NotInserted
<1>1. CASE CallCreate \/ CallCreateWithoutString \/ CallInsert \/ CreateFails
  BY <1>1 DEF CallCreate, CallCreateWithoutString, CallInsert, CreateFails
<1>2. CASE Inserting \/ Inserted \/ NotInserted
  BY <1>2 DEF Inserting, Inserted, NotInserted
<1>3. CASE SetValue \/ SetValueFails \/ CopyValue
  BY <1>3 DEF SetValue, SetValueFails, CopyValue
<1>4. CASE AddNode \/ AddNodeFails
  BY <1>4 DEF AddNode, AddNodeFails
<1>5. CASE WalkStart \/ WalkNext \/ WalkEnd
  BY <1>5 DEF WalkStart, WalkNext, WalkEnd, insertVars
<1>6. CASE Delete \/ DeleteCrash
  BY <1>6 DEF Delete, DeleteCrash, insertVars
<1>7. CASE UNCHANGED vars
  BY <1>7 DEF vars, insertVars, apiVars
<1>8. QED
  BY <1>1, <1>2, <1>3, <1>4, <1>5, <1>6, <1>7 DEF Next

(* The flags and counters of the program keep their types. *)
LEMMA StepCounts ==
  ASSUME TypeOK, [Next]_vars
  PROVE  /\ creating' \in BOOLEAN
         /\ result' \in {"OK", "ERROR", "CRASHED"}
         /\ calls' \in 0..MaxCalls
<1>0. /\ creating \in BOOLEAN /\ result \in {"OK", "ERROR", "CRASHED"} /\ calls \in 0..MaxCalls
      /\ MaxCalls \in Nat
  BY ApiAssumption DEF TypeOK
<1>1. Change => calls' \in 0..MaxCalls
  BY <1>0 DEF Change
<1>2. CASE CallCreate \/ CallCreateWithoutString \/ CallInsert \/ CreateFails
  BY <1>0, <1>1, <1>2 DEF CallCreate, CallCreateWithoutString, CallInsert, CreateFails
<1>3. CASE Inserting \/ Inserted \/ NotInserted
  BY <1>0, <1>3 DEF Inserting, Inserted, NotInserted
<1>4. CASE SetValue \/ SetValueFails
  BY <1>0, <1>1, <1>4 DEF SetValue, SetValueFails
<1>5. CASE CopyValue
  <2>1. result' \in {"OK", "ERROR"}
    BY <1>5 DEF CopyValue
  <2>2. Change /\ creating' = creating
    BY <1>5 DEF CopyValue
  <2>3. QED
    BY <1>0, <1>1, <2>1, <2>2
<1>6. CASE AddNode \/ AddNodeFails
  BY <1>0, <1>1, <1>6 DEF AddNode, AddNodeFails
<1>7. CASE WalkStart \/ WalkNext \/ WalkEnd
  BY <1>0, <1>7 DEF WalkStart, WalkNext, WalkEnd
<1>8. CASE Delete \/ DeleteCrash
  BY <1>0, <1>8 DEF Delete, DeleteCrash
<1>9. CASE UNCHANGED vars
  BY <1>0, <1>9 DEF vars, apiVars
<1>10. QED
  BY <1>2, <1>3, <1>4, <1>5, <1>6, <1>7, <1>8, <1>9 DEF Next

(* The walk stays in the tree. *)
LEMMA StepKeepsWalkType ==
  ASSUME TypeOK, Descends(heap), TreeStep, [Next]_vars
  PROVE  walk' \in [on : BOOLEAN, at : DOMAIN heap' \cup {NULL}, known : SUBSET DOMAIN heap',
                    met : SUBSET DOMAIN heap']
<1> DEFINE Walk(D) == [on : BOOLEAN, at : D \cup {NULL}, known : SUBSET D, met : SUBSET D]
<1>1. /\ walk \in Walk(DOMAIN heap) /\ DOMAIN heap \subseteq DOMAIN heap'
      /\ heap \in Seq(Node) /\ Root \in DOMAIN heap
  BY RootInHeap DEF TypeOK, InsertTypeOK, TreeStep, Grows
<1>2. walk' \in Walk(DOMAIN heap)
  <2>1. CASE walk' = walk
    BY <1>1, <2>1
  <2>2. CASE WalkStart
    BY <1>1, <2>2 DEF WalkStart
  <2>3. CASE WalkNext
    <3> DEFINE n == ConfigNext(heap, Root, walk.at).next
    <3>1. n \in DOMAIN heap \cup {NULL}
      BY <1>1, NextType
    <3>2. n # NULL /\ walk' = Met(n)
      BY <2>3 DEF WalkNext
    <3> HIDE DEF n
    <3>3. QED
      BY <1>1, <3>1, <3>2 DEF Met
  <2>4. CASE WalkEnd
    BY <2>4 DEF WalkEnd, NoWalk
  <2>5. QED
    BY <2>1, <2>2, <2>3, <2>4, StepChanges
<1>3. QED
  BY <1>1, <1>2

(* The history of the options keeps its type. *)
LEMMA StepKeepsWrittenType ==
  ASSUME TypeOK, CallFits, TreeStep, [Next]_vars
  PROVE  /\ DOMAIN written' \subseteq DOMAIN heap'
         /\ \A n \in DOMAIN written' : written'[n] \in [path : Paths, option : Option]
<1>1. /\ DOMAIN heap \subseteq DOMAIN heap'
      /\ DOMAIN written \subseteq DOMAIN heap
      /\ \A n \in DOMAIN written : written[n] \in [path : Paths, option : Option]
      /\ Options \subseteq Option
      /\ heap \in Seq(Node) /\ ins.linked \in DOMAIN heap \cup {NULL}
  BY ApiAssumption DEF TypeOK, InsertTypeOK, TreeStep, Grows
<1>2. CASE written' = written
  BY <1>1, <1>2
<1>3. CASE Inserted
  <2> DEFINE new == [path |-> ins.path,
                     option |-> [type |-> ins.node.type, value |-> ins.node.value]]
  <2>1. CASE creating /\ ins.linked # NULL
    <3>1. written' = [n \in DOMAIN written \cup {ins.linked} |->
                        IF n = ins.linked THEN new ELSE written[n]]
      BY <1>3, <2>1 DEF Inserted
    <3>2. new \in [path : Paths, option : Option]
      BY <1>3, <2>1 DEF CallFits, Inserted, InsertReturn
    <3> HIDE DEF new
    <3>3. /\ DOMAIN written' = {ins.linked} \cup DOMAIN written
          /\ \A n \in DOMAIN written' : written'[n] = IF n = ins.linked THEN new ELSE written[n]
      BY <3>1
    <3>4. QED
      BY <1>1, <2>1, <3>2, <3>3
  <2>2. CASE ~(creating /\ ins.linked # NULL)
    <3>1. written' = written
      BY <1>3, <2>2 DEF Inserted
    <3>2. QED
      BY <1>1, <3>1
  <2>3. QED
    BY <2>1, <2>2
<1>4. CASE SetValue
  <2>1. PICK e \in DOMAIN heap, option \in Option :
          written' = [m \in DOMAIN written |->
                        IF m = e THEN [written[m] EXCEPT !.option = option] ELSE written[m]]
    BY <1>1, <1>4 DEF SetValue
  <2>2. QED
    BY <1>1, <2>1
<1>5. CASE SetValueFails
  <2>1. PICK e : written' = Restrict(written, DOMAIN written \ {e})
    BY <1>5 DEF SetValueFails
  <2>2. QED
    BY <1>1, <2>1 DEF Restrict
<1>6. CASE CopyValue
  <2>1. PICK from \in DOMAIN heap, to \in DOMAIN heap :
          LET source == heap[from]
              copied == source.type \in ScalarTypes /\ ~CopyFails(source)
          IN  written' =
                IF ~copied THEN written
                ELSE IF source.value = NoValue THEN Restrict(written, DOMAIN written \ {to})
                ELSE [m \in DOMAIN written |->
                        IF m = to THEN [written[m] EXCEPT !.option = [type |-> source.type,
                                                                     value |-> source.value]]
                        ELSE written[m]]
    BY <1>6 DEF CopyValue
  <2>2. heap[from] \in Node
    BY <1>1
  <2> DEFINE option == [type |-> heap[from].type, value |-> heap[from].value]
  <2>3. heap[from].type \in ScalarTypes /\ heap[from].value # NoValue => option \in Option
    BY <2>2 DEF Node, Option
  <2>4. \/ written' = written
        \/ written' = Restrict(written, DOMAIN written \ {to})
        \/ /\ option \in Option
           /\ written' = [m \in DOMAIN written |->
                            IF m = to THEN [written[m] EXCEPT !.option = option] ELSE written[m]]
    BY <2>1, <2>3
  <2> HIDE DEF option
  <2>5. QED
    BY <1>1, <2>4 DEF Restrict
<1>7. QED
  BY <1>2, <1>3, <1>4, <1>5, <1>6, StepChanges

(* samconfInsertAt runs on what it was called with. *)
LEMMA StepKeepsCall ==
  ASSUME TypeOK, InsertsLeaf, CallFits, [Next]_vars
  PROVE  CallFits'
<1>0. Paths \subseteq Seq(Keys) /\ Options \subseteq Option /\ ins \in Insert
  BY ApiAssumption DEF TypeOK, InsertTypeOK
<1>1. CASE ins' = ins /\ creating' = creating
  <2>1. ins.status # "IDLE" => freed' = freed
    BY StepChanges DEF Delete, Ready
  <2>2. QED
    BY <1>1, <2>1 DEF CallFits, NamedByPath
<1>2. CASE CallCreate
  <2>1. PICK path \in Paths, option \in Options : InsertCall(path, NewOption(path, option))
    BY <1>2 DEF CallCreate
  <2>2. freed' = <<>>
    BY <1>2 DEF CallCreate, Change, Ready
  <2>3. /\ NewOption(path, option) \in Node /\ NewOption(path, option).children = <<>>
        /\ NewOption(path, option).type = option.type
        /\ NewOption(path, option).value = option.value
        /\ path # <<>> => NewOption(path, option).key = Last(path)
    BY <1>0, NewOptionType
  <2>4. /\ ins'.node = NewOption(path, option) /\ ins'.path = path
        /\ ins'.status = IF path = <<>> THEN "ERROR" ELSE "RUN"
    BY <1>0, <2>1, <2>3, InsertCallType
  <2>5. [type |-> ins'.node.type, value |-> ins'.node.value] \in Option
    BY <1>0, <2>3, <2>4 DEF Option
  <2>6. QED
    BY <2>2, <2>3, <2>4, <2>5 DEF CallFits, NamedByPath
<1>3. CASE CallCreateWithoutString \/ CallInsert
  <2>1. PICK path \in Paths : \E node : InsertCall(path, node)
    BY <1>3 DEF CallCreateWithoutString, CallInsert
  <2>2. freed' = <<>> /\ creating' = FALSE
    BY <1>3 DEF CallCreateWithoutString, CallInsert, Change, Ready
  <2>3. ins'.path = path /\ ins'.status = IF path = <<>> THEN "ERROR" ELSE "RUN"
    BY <2>1 DEF InsertCall, NoInsert
  <2>4. QED
    BY <2>2, <2>3 DEF CallFits
<1>4. CASE Inserting
  <2>1. ins.status = "RUN" /\ ins'.status # "IDLE"
    BY <1>0, <1>4, InsertStatus DEF Inserting
  <2>2. ins'.node = ins.node /\ ins'.path = ins.path
    BY <1>4, InsertStep DEF Inserting, InsertGoesOn, TypeOK
  <2>3. creating' => creating
    BY <1>4 DEF Inserting
  <2>4. freed' = freed
    BY <1>4 DEF Inserting
  <2>5. QED
    BY <2>1, <2>2, <2>3, <2>4 DEF CallFits, NamedByPath
<1>5. CASE Inserted \/ NotInserted
  <2>1. ins'.status = "IDLE"
    BY <1>5, NoInsertType DEF Inserted, NotInserted, InsertReturn
  <2>2. QED
    BY <2>1 DEF CallFits
<1>6. QED
  BY <1>1, <1>2, <1>3, <1>4, <1>5, StepChanges

(* samconfConfigDelete frees nodes of the tree. *)
LEMMA DeleteFrees ==
  ASSUME TypeOK, IsWhole(heap) => IsTree(heap), Delete
  PROVE  /\ IsInjective(freed') /\ ToSet(freed') = DOMAIN heap /\ heap' = heap
<1>1. /\ heap \in Seq(Node) /\ heap # <<>> /\ IsTree(heap) /\ Root \in DOMAIN heap
      /\ freed' = ConfigDelete(heap, Root) /\ heap' = heap
  BY RootInHeap DEF TypeOK, InsertTypeOK, Delete, IsWhole, insertVars
<1>2. IsInjective(freed') /\ ToSet(freed') = Subtree(heap, Root)
  BY <1>1, TreeIsForest, DeleteFreesOnce
<1>3. QED
  BY <1>1, <1>2, AllBelowRoot

(* Once a node is freed the tree is left alone. *)
LEMMA FreedIsFinal ==
  ASSUME TypeOK, CallFits, [Next]_vars, freed # <<>>
  PROVE  heap' = heap /\ freed' = freed
<1>1. ~Ready /\ ins.status = "IDLE"
  BY DEF Ready, CallFits
<1>2. ~Change /\ ~Delete
  BY <1>1 DEF Change, Delete
<1>3. ~Inserting
  BY <1>1, InsertStatus DEF TypeOK, InsertTypeOK, Inserting
<1>4. QED
  BY <1>2, <1>3, StepChanges

(* The freed nodes are those of the tree. *)
LEMMA StepKeepsFreed ==
  ASSUME TreeInv, DeletesEachNodeOnce, TreeStep, [Next]_vars
  PROVE  /\ DeletesEachNodeOnce'
         /\ \A i \in DOMAIN freed' : freed'[i] \in DOMAIN heap'
<1>1. CASE freed' = freed
  <2>1. freed # <<>> => heap' = heap
    BY FreedIsFinal DEF TreeInv
  <2>2. DOMAIN heap \subseteq DOMAIN heap'
    BY DEF TreeStep, Grows
  <2>3. QED
    BY <1>1, <2>1, <2>2 DEF DeletesEachNodeOnce, TreeInv, TypeOK
<1>2. CASE Delete
  <2>1. IsInjective(freed') /\ ToSet(freed') = DOMAIN heap /\ heap' = heap
    BY <1>2, DeleteFrees DEF TreeInv
  <2>2. \A i \in DOMAIN freed' : freed'[i] \in DOMAIN heap'
    BY <2>1 DEF ToSet
  <2>3. QED
    BY <2>1, <2>2 DEF DeletesEachNodeOnce
<1>3. QED
  BY <1>1, <1>2, StepChanges

(* The part of the invariant about the tree is preserved. *)
LEMMA StepKeepsTreeInv ==
  ASSUME TreeInv, DeletesEachNodeOnce, [Next]_vars
  PROVE  TreeInv' /\ DeletesEachNodeOnce' /\ TreeStep
<1>1. TypeOK /\ InsertsLeaf /\ Descends(heap) /\ CallFits
  BY DEF TreeInv
<1>2. TreeStep
  BY <1>1, StepKeepsTree
<1>3. DeletesEachNodeOnce' /\ \A i \in DOMAIN freed' : freed'[i] \in DOMAIN heap'
  BY <1>2, StepKeepsFreed
<1>4. TypeOK'
  <2>1. InsertTypeOK'
    BY <1>2 DEF TreeStep
  <2>2. creating' \in BOOLEAN /\ result' \in {"OK", "ERROR", "CRASHED"} /\ calls' \in 0..MaxCalls
    BY <1>1, StepCounts
  <2>3. walk' \in [on : BOOLEAN, at : DOMAIN heap' \cup {NULL}, known : SUBSET DOMAIN heap',
                   met : SUBSET DOMAIN heap']
    BY <1>1, <1>2, StepKeepsWalkType
  <2>4. /\ DOMAIN written' \subseteq DOMAIN heap'
        /\ \A n \in DOMAIN written' : written'[n] \in [path : Paths, option : Option]
    BY <1>1, <1>2, StepKeepsWrittenType
  <2>5. QED
    BY <1>3, <2>1, <2>2, <2>3, <2>4 DEF TypeOK
<1>5. Descends(heap') /\ (IsWhole(heap') => IsTree(heap')) /\ InsertsLeaf'
  BY <1>2 DEF TreeInv, TreeStep, Grows
<1>6. CallFits'
  BY <1>1, StepKeepsCall
<1>7. QED
  BY <1>2, <1>3, <1>4, <1>5, <1>6 DEF TreeInv

(* The tree of one node the program begins with. *)
LEMMA BeginsWithTree ==
  ASSUME Init
  PROVE  ApiInv
<1> DEFINE root == [ConfigNew EXCEPT !.key = RootKey, !.type = "OBJECT"]
<1>1. /\ root \in Node /\ root.parent = NULL /\ root.children = <<>>
  BY NewNodeType, KeyAssumption DEF Node, ConfigNew, ContainerTypes, ScalarTypes
<1>2. heap = <<root>>
  BY DEF Init
<1> HIDE DEF root
<1>3. /\ heap \in Seq(Node) /\ heap # <<>> /\ DOMAIN heap = {Root} /\ heap[Root] = root
  BY <1>1, <1>2 DEF Root
<1>4. InsertTypeOK /\ InsertsLeaf
  BY <1>3, NoInsertType, MaxFaultsAssumption DEF InsertTypeOK, InsertsLeaf, Init
<1>5. TypeOK
  <2>1. /\ creating = FALSE /\ result = "OK" /\ calls = 0 /\ walk = NoWalk
        /\ written = <<>> /\ freed = <<>>
    BY DEF Init
  <2>2. DOMAIN <<>> = {}
    OBVIOUS
  <2>3. QED
    <3>1. walk \in [on : BOOLEAN, at : DOMAIN heap \cup {NULL}, known : SUBSET DOMAIN heap,
                    met : SUBSET DOMAIN heap]
      BY <2>1 DEF NoWalk
    <3>2. calls \in 0..MaxCalls
      BY <2>1, ApiAssumption
    <3>3. DOMAIN written = {} /\ DOMAIN freed = {}
      BY <2>1, <2>2
    <3>4. QED
      BY <1>4, <2>1, <3>1, <3>2, <3>3 DEF TypeOK
<1>6. Descends(heap) /\ IsTree(heap)
  BY <1>1, <1>3 DEF Descends, IsTree
<1>7. CallFits /\ DeletesEachNodeOnce
  BY NoInsertType DEF Init, CallFits, DeletesEachNodeOnce
<1>8. (\A n \in DOMAIN written : IsAtItsPath(n)) /\ WalkFits /\ ~creating
  <2>1. DOMAIN written = {}
    BY DEF Init
  <2>2. ~walk.on /\ ~creating
    BY DEF Init, NoWalk
  <2>3. QED
    BY <2>1, <2>2 DEF WalkFits
<1>9. QED
  BY <1>5, <1>4, <1>6, <1>7, <1>8 DEF ApiInv, TreeInv

-------------------------------------------------------------------------------
(***************************************************************************)
(* A walk with samconfConfigNext.                                          *)
(***************************************************************************)

(* A walk goes on to the first node that follows, and ends when none does. *)
LEMMA WalkGoesOn ==
  ASSUME TypeOK, IsTree(heap), WalkFits, walk.on
  PROVE  LET next == ConfigNext(heap, Root, walk.at).next
         IN  /\ next = NULL => walk.known \subseteq walk.met
             /\ next # NULL =>
                  /\ next \in DOMAIN heap /\ next \notin walk.met
                  /\ (walk.met \cup {next}) \cap Following(heap, next) = {}
                  /\ walk.known \subseteq (walk.met \cup {next}) \cup Following(heap, next)
<1> DEFINE at == walk.at
           next == ConfigNext(heap, Root, at).next
<1>1. /\ heap \in Seq(Node) /\ heap # <<>> /\ NULL \notin DOMAIN heap
      /\ walk.met \subseteq DOMAIN heap
  BY DEF TypeOK, InsertTypeOK, NULL
<1>2. /\ at \in walk.met /\ walk.met \cap Following(heap, at) = {}
      /\ walk.known \subseteq walk.met \cup Following(heap, at)
  BY DEF WalkFits
<1>3. \/ next = NULL /\ Following(heap, at) = {}
      \/ /\ next \in DOMAIN heap /\ next \notin Following(heap, next)
         /\ Following(heap, at) = {next} \cup Following(heap, next)
  BY <1>1, <1>2, NextIsFirst
<1> HIDE DEF next, at
<1>4. next = NULL => walk.known \subseteq walk.met
  BY <1>1, <1>2, <1>3
<1>5. ASSUME next # NULL
      PROVE  /\ next \in DOMAIN heap /\ next \notin walk.met
             /\ (walk.met \cup {next}) \cap Following(heap, next) = {}
             /\ walk.known \subseteq (walk.met \cup {next}) \cup Following(heap, next)
  BY <1>2, <1>3, <1>5
<1>6. QED
  BY <1>4, <1>5 DEF next, at

(* A walk keeps its place whatever the program does to the tree. *)
LEMMA StepKeepsWalk ==
  ASSUME TreeInv, IsTree(heap), WalkFits, TreeStep, IsWhole(heap'), [Next]_vars
  PROVE  WalkFits'
<1>1. /\ heap \in Seq(Node) /\ heap # <<>> /\ Root \in DOMAIN heap
      /\ walk.met \subseteq DOMAIN heap /\ walk.known \subseteq DOMAIN heap
      /\ walk \in [on : BOOLEAN, at : DOMAIN heap \cup {NULL}, known : SUBSET DOMAIN heap,
                   met : SUBSET DOMAIN heap]
  BY RootInHeap DEF TreeInv, TypeOK, InsertTypeOK
<1>2. /\ heap' \in Seq(Node) /\ heap' # <<>> /\ IsTree(heap') /\ Prolongs(heap', heap)
  BY DEF TreeStep, Grows
<1>3. CASE walk' = walk
  <2>1. SUFFICES ASSUME walk.on
                 PROVE  /\ walk.at \in walk.met
                        /\ walk.met \cap Following(heap', walk.at) = {}
                        /\ walk.known \subseteq walk.met \cup Following(heap', walk.at)
    BY <1>3 DEF WalkFits
  <2>2. /\ walk.at \in walk.met /\ walk.met \cap Following(heap, walk.at) = {}
        /\ walk.known \subseteq walk.met \cup Following(heap, walk.at)
    BY <2>1 DEF WalkFits
  <2>3. Following(heap', walk.at) \cap DOMAIN heap = Following(heap, walk.at)
    BY <1>1, <1>2, <2>2, GrownFollowing
  <2>4. QED
    BY <1>1, <2>2, <2>3
<1>4. CASE WalkStart
  <2>1. /\ heap' = heap /\ walk'.on /\ walk'.at = Root /\ walk'.met = {Root}
        /\ walk'.known = DOMAIN heap
    BY <1>4 DEF WalkStart, insertVars
  <2>2. Following(heap, Root) = DOMAIN heap \ {Root}
    BY <1>1, RootIsFirst
  <2>3. QED
    BY <1>1, <2>1, <2>2 DEF WalkFits
<1>5. CASE WalkNext
  <2> DEFINE next == ConfigNext(heap, Root, walk.at).next
  <2>1. heap' = heap /\ walk.on /\ next # NULL /\ walk' = Met(next)
    BY <1>5 DEF WalkNext, insertVars
  <2>2. /\ (walk.met \cup {next}) \cap Following(heap, next) = {}
        /\ walk.known \subseteq (walk.met \cup {next}) \cup Following(heap, next)
    BY <2>1, WalkGoesOn DEF TreeInv
  <2> HIDE DEF next
  <2>3. walk'.at = next /\ walk'.met = walk.met \cup {next} /\ walk'.known = walk.known
    BY <1>1, <2>1 DEF Met
  <2>4. QED
    BY <2>1, <2>2, <2>3 DEF WalkFits
<1>6. CASE WalkEnd
  BY <1>6 DEF WalkEnd, NoWalk, WalkFits
<1>7. QED
  BY <1>3, <1>4, <1>5, <1>6, StepChanges

-------------------------------------------------------------------------------
(***************************************************************************)
(* Options and their paths.                                                *)
(***************************************************************************)

(* An option is created on its path. *)
LEMMA StepKeepsPath ==
  ASSUME TreeInv, IsTree(heap), creating => OnPath, TreeStep, IsWhole(heap'), [Next]_vars
  PROVE  creating' => OnPath'
<1>0. /\ TypeOK /\ InsertsLeaf /\ CallFits /\ ins \in Insert /\ InsertTypeOK
      /\ Paths \subseteq Seq(Keys) /\ Options \subseteq Option
      /\ heap \in Seq(Node) /\ faults \in 0..MaxFaults
      /\ heap' \in Seq(Node) /\ heap' # <<>> /\ IsTree(heap')
      /\ Prolongs(heap', heap)
  BY ApiAssumption DEF TreeInv, TypeOK, InsertTypeOK, TreeStep, Grows
<1>1. CASE ins' = ins /\ creating' = creating /\ ~Inserting
  <2>1. ins.status \in {"RUN", "OK"} => heap' = heap
    BY <1>1, StepChanges DEF Change, Ready
  <2>2. QED
    BY <1>1, <2>1 DEF OnPath
<1>2. CASE CallCreate
  <2>1. PICK path \in Paths, option \in Options : InsertCall(path, NewOption(path, option))
    BY <1>2 DEF CallCreate
  <2>2. NewOption(path, option) \in Node /\ NewOption(path, option).children = <<>>
    BY <1>0, NewOptionType
  <2>3. UNCHANGED heap
    BY <1>2 DEF CallCreate
  <2>4. QED
    BY <1>0, <2>1, <2>2, <2>3, CallIsOnPath
<1>3. CASE CallCreateWithoutString \/ CallInsert
  BY <1>3 DEF CallCreateWithoutString, CallInsert
<1>4. CASE Inserting
  <2>1. SUFFICES ASSUME creating' PROVE OnPath'
    OBVIOUS
  <2>2. creating /\ faults' = faults /\ InsertNext
    BY <1>4, <2>1 DEF Inserting
  <2>3. ~Fault
    BY <1>0, <2>2, FaultType
  <2>4. ins.status = "RUN"
    BY <1>0, <2>2, InsertStatus
  <2>5. CASE InsertDescend \/ InsertLink
    <3>1. NamedByPath /\ OnPath
      BY <1>0, <2>2, <2>4 DEF CallFits
    <3>2. QED
      BY <1>0, <2>5, <3>1, RoundStaysOnPath
  <2>6. CASE InsertCrash
    <3>1. ins' = [ins EXCEPT !.status = "CRASHED"]
      BY <2>6 DEF InsertCrash
    <3>2. ins'.status = "CRASHED"
      BY <1>0, <3>1 DEF Insert
    <3>3. QED
      BY <3>2 DEF OnPath
  <2>7. QED
    BY <2>2, <2>3, <2>5, <2>6 DEF InsertNext, InsertSkip, InsertFail, InsertAddFails
<1>5. CASE Inserted \/ NotInserted
  <2>1. ins'.status = "IDLE"
    BY <1>5, NoInsertType DEF Inserted, NotInserted, InsertReturn
  <2>2. QED
    BY <2>1 DEF OnPath
<1>6. QED
  BY <1>1, <1>2, <1>3, <1>4, <1>5, StepChanges

(* A node that holds an option at its path stays there when the tree grows   *)
(* and the option is kept, or set and noted.                                 *)
LEMMA StaysAtItsPath ==
  ASSUME TreeInv, IsTree(heap), TreeStep, IsWhole(heap'),
         NEW n \in DOMAIN written, IsAtItsPath(n),
         n \in DOMAIN written', written'[n].path = written[n].path,
         heap'[n].type = written'[n].option.type, heap'[n].value = written'[n].option.value
  PROVE  IsAtItsPath(n)'
<1>1. /\ heap \in Seq(Node) /\ heap # <<>> /\ Root \in DOMAIN heap /\ Closed(heap)
      /\ n \in DOMAIN heap /\ written[n].path \in Seq(Keys)
      /\ Paths \subseteq Seq(Keys)
  BY RootInHeap, TreeIsClosed, ApiAssumption DEF TreeInv, TypeOK, InsertTypeOK
<1>2. heap' \in Seq(Node) /\ Closed(heap') /\ Prolongs(heap', heap)
  BY TreeIsClosed DEF TreeStep, Grows
<1>3. Reach(heap, Root, written[n].path) = n /\ n # NULL /\ written[n].path # <<>>
  BY <1>1 DEF IsAtItsPath, NULL
<1>4. Reach(heap', Root, written[n].path) = n
  BY <1>1, <1>2, <1>3, ReachProlonged
<1>5. QED
  BY <1>3, <1>4 DEF IsAtItsPath

(* The options are kept at their paths. *)
LEMMA StepKeepsWritten ==
  ASSUME TreeInv, IsTree(heap), creating => OnPath, \A n \in DOMAIN written : IsAtItsPath(n),
         TreeStep, IsWhole(heap'), [Next]_vars
  PROVE  \A n \in DOMAIN written' : IsAtItsPath(n)'
<1>0. /\ TypeOK /\ InsertsLeaf /\ CallFits /\ InsertTypeOK /\ ins \in Insert
      /\ heap \in Seq(Node) /\ heap # <<>> /\ Options \subseteq Option
      /\ \A n \in DOMAIN written : n \in DOMAIN heap /\ written[n] \in [path : Paths, option : Option]
  BY ApiAssumption DEF TreeInv, TypeOK, InsertTypeOK
<1>1. \A n \in DOMAIN written : /\ heap[n].type = written[n].option.type
                                /\ heap[n].value = written[n].option.value
  BY DEF IsAtItsPath
<1>2. ASSUME written' = written, \A n \in DOMAIN heap : KeepsNode(n)
      PROVE  \A n \in DOMAIN written' : IsAtItsPath(n)'
  BY <1>0, <1>1, <1>2, StaysAtItsPath DEF KeepsNode
<1>3. ASSUME NEW e \in DOMAIN heap, NEW option \in Option,
             heap'[e].type = option.type, heap'[e].value = option.value,
             \A m \in DOMAIN heap \ {e} : heap'[m] = heap[m],
             written' = [m \in DOMAIN written |->
                           IF m = e THEN [written[m] EXCEPT !.option = option] ELSE written[m]]
      PROVE  \A n \in DOMAIN written' : IsAtItsPath(n)'
  <2>1. SUFFICES ASSUME NEW n \in DOMAIN written PROVE IsAtItsPath(n)'
    BY <1>3
  <2>2. CASE n = e
    <3>1. written'[n].option = option /\ written'[n].path = written[n].path
      BY <1>0, <1>3, <2>2
    <3>2. n \in DOMAIN written' /\ IsAtItsPath(n)
      BY <1>3
    <3>3. heap'[n].type = option.type /\ heap'[n].value = option.value
      BY <1>3, <2>2
    <3>4. QED
      BY <3>1, <3>2, <3>3, StaysAtItsPath
  <2>3. CASE n # e
    <3>1. written'[n] = written[n] /\ n \in DOMAIN written' /\ heap'[n] = heap[n] /\ IsAtItsPath(n)
      BY <1>0, <1>3, <2>3
    <3>2. QED
      BY <1>1, <3>1, StaysAtItsPath
  <2>4. QED
    BY <2>2, <2>3
<1>4. ASSUME NEW e \in DOMAIN heap, \A m \in DOMAIN heap \ {e} : heap'[m] = heap[m],
             written' = Restrict(written, DOMAIN written \ {e})
      PROVE  \A n \in DOMAIN written' : IsAtItsPath(n)'
  <2>1. SUFFICES ASSUME NEW n \in DOMAIN written \ {e} PROVE IsAtItsPath(n)'
    BY <1>4 DEF Restrict
  <2>2. written'[n] = written[n] /\ n \in DOMAIN written' /\ heap'[n] = heap[n] /\ IsAtItsPath(n)
    BY <1>0, <1>4 DEF Restrict
  <2>3. QED
    BY <1>1, <2>2, StaysAtItsPath
<1>5. CASE Inserting
  <2>1. \A n \in DOMAIN heap : KeepsNode(n)
    BY <1>0, <1>5, InsertStep DEF Inserting, InsertGoesOn
  <2>2. written' = written
    BY <1>5 DEF Inserting
  <2>3. QED
    BY <1>2, <2>1, <2>2
<1>6. CASE Inserted
  <2>0. heap' = heap
    BY <1>6 DEF Inserted
  <2> DEFINE new == [path |-> ins.path,
                     option |-> [type |-> ins.node.type, value |-> ins.node.value]]
  <2>1. CASE creating /\ ins.linked # NULL
    <3>1. written' = [n \in DOMAIN written \cup {ins.linked} |->
                        IF n = ins.linked THEN new ELSE written[n]]
      BY <1>6, <2>1 DEF Inserted
    <3>2. /\ ins.path # <<>> /\ Reach(heap, Root, ins.path) = ins.linked
          /\ heap[ins.linked].type = ins.node.type /\ heap[ins.linked].value = ins.node.value
      BY <1>0, <1>6, <2>1 DEF CallFits, OnPath, Inserted, InsertReturn
    <3>3. SUFFICES ASSUME NEW n \in DOMAIN written \cup {ins.linked} PROVE IsAtItsPath(n)'
      BY <3>1
    <3>4. CASE n = ins.linked
      BY <2>0, <3>1, <3>2, <3>4 DEF IsAtItsPath
    <3>5. CASE n # ins.linked
      BY <2>0, <3>1, <3>5 DEF IsAtItsPath
    <3>6. QED
      BY <3>4, <3>5
  <2>2. CASE ~(creating /\ ins.linked # NULL)
    <3>1. written' = written
      BY <1>6, <2>2 DEF Inserted
    <3>2. QED
      BY <1>2, <2>0, <3>1 DEF KeepsNode
  <2>3. QED
    BY <2>1, <2>2
<1>7. CASE SetValue
  <2>1. PICK e \in DOMAIN heap, option \in Options :
          /\ heap' = [heap EXCEPT ![e] = WithOption(@, option)]
          /\ written' = [m \in DOMAIN written |->
                           IF m = e THEN [written[m] EXCEPT !.option = option] ELSE written[m]]
    BY <1>7 DEF SetValue
  <2>2. option \in Option
    BY <1>0
  <2>3. /\ heap'[e].type = option.type /\ heap'[e].value = option.value
        /\ \A m \in DOMAIN heap \ {e} : heap'[m] = heap[m]
    BY <1>0, <2>1, <2>2, SetGrows
  <2>4. QED
    BY <1>3, <2>1, <2>2, <2>3
<1>8. CASE SetValueFails
  <2>1. PICK e \in DOMAIN heap :
          /\ \/ heap' = [heap EXCEPT ![e].value = NoValue]
             \/ heap' = [heap EXCEPT ![e].value = NoValue, ![e].type = "STRING"]
          /\ written' = Restrict(written, DOMAIN written \ {e})
    BY <1>8 DEF SetValueFails
  <2>2. \A m \in DOMAIN heap \ {e} : heap'[m] = heap[m]
    BY <1>0, <2>1, SetFailsGrows
  <2>3. QED
    BY <1>4, <2>1, <2>2
<1>9. CASE CopyValue
  <2>1. PICK from \in DOMAIN heap, to \in DOMAIN heap :
          LET source == heap[from]
              copied == source.type \in ScalarTypes /\ ~CopyFails(source)
          IN  /\ heap' = [heap EXCEPT ![to] = CopyConfigValue(source, @)]
              /\ written' =
                   IF ~copied THEN written
                   ELSE IF source.value = NoValue THEN Restrict(written, DOMAIN written \ {to})
                   ELSE [m \in DOMAIN written |->
                           IF m = to THEN [written[m] EXCEPT !.option = [type |-> source.type,
                                                                        value |-> source.value]]
                           ELSE written[m]]
    BY <1>9 DEF CopyValue
  <2> DEFINE source == heap[from]
             option == [type |-> source.type, value |-> source.value]
  <2>2. source \in Node
    BY <1>0
  <2>3. CASE CopyFails(source)
    <3>1. written' = written
      BY <2>1, <2>3
    <3>2. heap'[to] = heap[to] /\ \A m \in DOMAIN heap \ {to} : heap'[m] = heap[m]
      BY <1>0, <2>1, <2>2, <2>3, CopyGrows
    <3>3. QED
      BY <1>2, <3>1, <3>2 DEF KeepsNode
  <2>4. CASE ~CopyFails(source)
    <3>1. heap' = [heap EXCEPT ![to] = CopyConfigValue(source, @)]
      BY <2>1
    <3>2. /\ source.type \in ScalarTypes =>
               heap'[to].type = source.type /\ heap'[to].value = source.value
          /\ source.type \notin ScalarTypes => heap'[to] = heap[to]
          /\ \A m \in DOMAIN heap \ {to} : heap'[m] = heap[m]
      BY <1>0, <2>2, <2>4, <3>1, CopyGrows
    <3>3. CASE source.type \notin ScalarTypes
      <4>1. written' = written /\ \A m \in DOMAIN heap : heap'[m] = heap[m]
        BY <2>1, <3>2, <3>3
      <4>2. QED
        BY <1>2, <4>1 DEF KeepsNode
    <3>4. CASE source.type \in ScalarTypes /\ source.value = NoValue
      <4>1. written' = Restrict(written, DOMAIN written \ {to})
        BY <2>1, <2>4, <3>4
      <4>2. QED
        BY <1>4, <3>2, <4>1
    <3>5. CASE source.type \in ScalarTypes /\ source.value # NoValue
      <4>1. written' = [m \in DOMAIN written |->
                          IF m = to THEN [written[m] EXCEPT !.option = option] ELSE written[m]]
        BY <2>1, <2>4, <3>5
      <4>2. option \in Option /\ option.type = source.type /\ option.value = source.value
        BY <2>2, <3>5 DEF Node, Option
      <4> HIDE DEF option
      <4>3. heap'[to].type = option.type /\ heap'[to].value = option.value
        BY <3>2, <3>5, <4>2
      <4>4. QED
        BY <1>3, <3>2, <4>1, <4>2, <4>3
    <3>6. QED
      BY <3>3, <3>4, <3>5
  <2>5. QED
    BY <2>3, <2>4
<1>10. CASE AddNode
  <2>1. written' = written
    BY <1>10 DEF AddNode
  <2>2. PICK p \in DOMAIN heap, key \in Keys :
          heap' = heap \/ heap' = ConfigAdd(heap, p, [ConfigNew EXCEPT !.key = key])
    BY <1>10 DEF AddNode
  <2> DEFINE node == [ConfigNew EXCEPT !.key = key]
  <2>3. node \in Node /\ node.children = <<>>
    BY NewKeyType
  <2> HIDE DEF node
  <2>4. heap' = heap \/ heap' = ConfigAdd(heap, p, node)
    BY <2>2 DEF node
  <2>5. \A n \in DOMAIN heap : KeepsNode(n)
    <3>1. CASE heap' = heap
      BY <3>1 DEF KeepsNode
    <3>2. CASE heap' = ConfigAdd(heap, p, node)
      BY <1>0, <2>3, <3>2, AddGrows
    <3>3. QED
      BY <2>4, <3>1, <3>2
  <2>6. QED
    BY <1>2, <2>1, <2>5
<1>11. CASE AddNodeFails
  <2>1. PICK p \in DOMAIN heap : heap' = [heap EXCEPT ![p] = LoseChildren(@)] /\ written' = written
    BY <1>11 DEF AddNodeFails
  <2>2. \A n \in DOMAIN heap : KeepsNode(n)
    BY <1>0, <2>1, LoseGrows
  <2>3. QED
    BY <1>2, <2>1, <2>2
<1>12. CASE CallCreate \/ CallCreateWithoutString \/ CallInsert \/ CreateFails \/ NotInserted
  <2>1. heap' = heap /\ written' = written
    BY <1>12 DEF CallCreate, CallCreateWithoutString, CallInsert, CreateFails, NotInserted
  <2>2. QED
    BY <1>2, <2>1 DEF KeepsNode
<1>13. CASE WalkStart \/ WalkNext \/ WalkEnd \/ Delete \/ DeleteCrash \/ UNCHANGED vars
  <2>1. heap' = heap /\ written' = written
    BY <1>13 DEF WalkStart, WalkNext, WalkEnd, Delete, DeleteCrash, insertVars, apiVars, vars
  <2>2. QED
    BY <1>2, <2>1 DEF KeepsNode
<1>14. QED
  BY <1>5, <1>6, <1>7, <1>8, <1>9, <1>10, <1>11, <1>12, <1>13 DEF Next

(* The getters read the option that is at a path. *)
LEMMA ReadsWhatIsThere ==
  ASSUME TypeOK, IsTree(heap), NEW n \in DOMAIN written, IsAtItsPath(n)
  PROVE  Reads(written[n].path, written[n].option)
<1> DEFINE path == written[n].path
           option == written[n].option
           value == IF option.type = "INT" THEN Cut[option.value] ELSE option.value
<1>1. /\ heap \in Seq(Node) /\ heap # <<>> /\ Root \in DOMAIN heap /\ Closed(heap)
      /\ n \in DOMAIN heap /\ path \in Seq(Keys) /\ option.type \in ScalarTypes
      /\ option.value \in Values /\ n # NULL
  BY RootInHeap, TreeIsClosed, ApiAssumption DEF TypeOK, InsertTypeOK, Option, NULL
<1>2. /\ path # <<>> /\ Reach(heap, Root, path) = n
      /\ heap[n].type = option.type /\ heap[n].value = option.value
  BY DEF IsAtItsPath
<1> HIDE DEF path, option
<1>3. heap[Root].children # <<>>
  <2>1. SUFFICES ASSUME heap[Root].children = <<>> PROVE FALSE
    OBVIOUS
  <2>2. DOMAIN heap = {Root}
    BY <1>1, <2>1, RootAlone
  <2> DEFINE k == Len(path)
             up == Reach(heap, Root, SubSeq(path, 1, k - 1))
  <2>3. k \in 1..k /\ k - 1 \in 0..k /\ path[k] \in Keys
    BY <1>1, <1>2
  <2>4. /\ up \in DOMAIN heap \cup {NULL}
        /\ n = IF up = NULL THEN NULL ELSE ChildNamed(heap, up, path[k])
    BY <1>1, <1>2, <2>3, ReachSteps
  <2>5. up = Root
    BY <1>1, <2>2, <2>4
  <2>6. DOMAIN heap[Root].children = {}
    BY <2>1
  <2>7. ChildNamed(heap, Root, path[k]) = NULL
    BY <1>1, <2>6, ChildNamedIsFirst DEF FirstNamed
  <2>8. QED
    BY <1>1, <2>4, <2>5, <2>7
<1>4. ConfigGet(heap, Root, path) = [status |-> "OK", node |-> n]
  BY <1>1, <1>2, <1>3 DEF ConfigGet
<1>5. option.value # NoValue
  BY <1>1, ValueAssumption
<1>6. ASSUME NEW type \in ScalarTypes
      PROVE  ConfigGetAs(heap, path, type) = IF type = option.type
                                             THEN [status |-> "OK", value |-> value]
                                             ELSE [status |-> "INVALID_TYPE", value |-> NoValue]
  <2>1. ConfigGet(heap, Root, path).status = "OK" /\ ConfigGet(heap, Root, path).node = n
    BY <1>4
  <2>2. CASE type # option.type
    BY <1>1, <1>2, <2>1, <2>2 DEF ConfigGetAs
  <2>3. CASE type = option.type /\ type = "INT"
    BY <1>1, <1>2, <1>5, <2>1, <2>3 DEF ConfigGetAs
  <2>4. CASE type = option.type /\ type # "INT"
    BY <1>1, <1>2, <2>1, <2>4 DEF ConfigGetAs
  <2>5. QED
    BY <2>2, <2>3, <2>4
<1>7. \A type \in ScalarTypes :
        ConfigGetOr(heap, path, type, NoValue) = IF type = option.type THEN value ELSE NoValue
  BY <1>6 DEF ConfigGetOr
<1>8. QED
  BY <1>1, <1>6, <1>7 DEF Reads, path, option

-------------------------------------------------------------------------------
(***************************************************************************)
(* The theorems.                                                           *)
(***************************************************************************)

(* The invariant is inductive. *)
LEMMA StepKeepsApiInv ==
  ASSUME ApiInv, [Next]_vars
  PROVE  ApiInv'
<1>1. TreeInv /\ DeletesEachNodeOnce
  BY DEF ApiInv
<1>2. TreeInv' /\ DeletesEachNodeOnce' /\ TreeStep
  BY <1>1, StepKeepsTreeInv
<1>3. ASSUME IsWhole(heap')
      PROVE  /\ creating' => OnPath'
             /\ \A n \in DOMAIN written' : IsAtItsPath(n)'
             /\ WalkFits'
  <2>1. IsWhole(heap) /\ IsTree(heap)
    BY <1>1, <1>2, <1>3 DEF TreeStep, Grows, TreeInv
  <2>2. (creating => OnPath) /\ (\A n \in DOMAIN written : IsAtItsPath(n)) /\ WalkFits
    BY <2>1 DEF ApiInv
  <2>3. QED
    BY <1>1, <1>2, <1>3, <2>1, <2>2, StepKeepsPath, StepKeepsWritten, StepKeepsWalk
<1>4. QED
  BY <1>2, <1>3 DEF ApiInv

(* ... and holds in every state. *)
LEMMA ApiInvHolds == Spec => []ApiInv
<1>1. Init => ApiInv
  BY BeginsWithTree
<1>2. ApiInv /\ [Next]_vars => ApiInv'
  BY StepKeepsApiInv
<1>3. QED
  BY <1>1, <1>2, PTL DEF Spec

(* Type correctness of a program and its tree. *)
THEOREM TypeCorrect == Spec => []TypeOK
<1>1. ApiInv => TypeOK
  BY DEF ApiInv, TreeInv
<1>2. QED
  BY <1>1, ApiInvHolds, PTL

(* Whatever the program creates, inserts, sets and adds, its configuration   *)
(* is a tree as long as no child list was lost for want of memory.           *)
THEOREM ProgramKeepsTree == Spec => [](IsWhole(heap) => IsTree(heap))
<1>1. ApiInv => (IsWhole(heap) => IsTree(heap))
  BY DEF ApiInv, TreeInv
<1>2. QED
  BY <1>1, ApiInvHolds, PTL

(* An option is read back at its path as it was created or last set. *)
THEOREM OptionsReadBack == Spec => []ReadsBack
<1>1. ApiInv => ReadsBack
  <2>1. SUFFICES ASSUME ApiInv, IsWhole(heap), NEW n \in DOMAIN written
                 PROVE  Reads(written[n].path, written[n].option)
    BY DEF ReadsBack
  <2>2. TypeOK /\ IsTree(heap) /\ IsAtItsPath(n)
    BY <2>1 DEF ApiInv, TreeInv
  <2>3. QED
    BY <2>1, <2>2, ReadsWhatIsThere
<1>2. QED
  BY <1>1, ApiInvHolds, PTL

(* samconfConfigDelete frees every node of the tree once. *)
THEOREM EachNodeFreedOnce == Spec => []DeletesEachNodeOnce
<1>1. ApiInv => DeletesEachNodeOnce
  BY DEF ApiInv
<1>2. QED
  BY <1>1, ApiInvHolds, PTL

(* A walk with samconfConfigNext meets no node twice and, when it ends, has  *)
(* met every node there was when it began.                                   *)
THEOREM WalksAreComplete == Spec => WalkIsComplete
<1>1. ASSUME ApiInv, [Next]_vars
      PROVE  [IsWhole(heap) => /\ WalkNext => walk'.at \notin walk.met
                               /\ WalkEnd => walk.known \subseteq walk.met]_vars
  <2>1. SUFFICES ASSUME IsWhole(heap)
                 PROVE  /\ WalkNext => walk'.at \notin walk.met
                        /\ WalkEnd => walk.known \subseteq walk.met
    OBVIOUS
  <2>2. /\ TypeOK /\ IsTree(heap) /\ WalkFits
        /\ walk \in [on : BOOLEAN, at : DOMAIN heap \cup {NULL}, known : SUBSET DOMAIN heap,
                     met : SUBSET DOMAIN heap]
    BY <1>1, <2>1 DEF ApiInv, TreeInv, TypeOK
  <2> DEFINE next == ConfigNext(heap, Root, walk.at).next
  <2>3. walk.on => /\ next = NULL => walk.known \subseteq walk.met
                   /\ next # NULL => next \notin walk.met
    BY <2>2, WalkGoesOn
  <2>4. ASSUME WalkNext PROVE walk'.at \notin walk.met
    <3>1. walk.on /\ next # NULL /\ walk' = Met(next)
      BY <2>4 DEF WalkNext
    <3> HIDE DEF next
    <3>2. walk'.at = next
      BY <2>2, <3>1 DEF Met
    <3>3. QED
      BY <2>3, <3>1, <3>2
  <2>5. ASSUME WalkEnd PROVE walk.known \subseteq walk.met
    BY <2>3, <2>5 DEF WalkEnd
  <2>6. QED
    BY <2>4, <2>5
<1>2. QED
  BY <1>1, ApiInvHolds, PTL DEF Spec, WalkIsComplete

-------------------------------------------------------------------------------
(***************************************************************************)
(* samconfDumpConfigTree.                                                  *)
(***************************************************************************)

Line == [node : Nat, bars : Seq(BOOLEAN)]

(* The line for the i-th child of n, below a node drawn with these bars, *)
BarsOf(h, n, i, bars) == Append(bars, i = Len(h[n].children))
LineOf(h, n, i, bars) == [node |-> h[n].children[i], bars |-> BarsOf(h, n, i, bars)]

IsContainer(h, n) == h[n].type \in {"OBJECT", "ARRAY"}

(* ... with what is shown below the child. *)
BlockOf(h, n, i, dump, bars) ==
  <<LineOf(h, n, i, bars)>> \o IF IsContainer(h, h[n].children[i])
                               THEN dump[h[n].children[i]][BarsOf(h, n, i, bars)] ELSE <<>>

BlocksOf(h, n, dump, bars) == [i \in DOMAIN h[n].children |-> BlockOf(h, n, i, dump, bars)]

(* The places in the child list, one after the other. *)
PlacesOf(h, n) == [i \in DOMAIN h[n].children |-> i]

(* What _dumpConfigTree draws below the node n. *)
DrawsBlocks(dump, h, n, bars) ==
  \E F \in [0..Len(h[n].children) -> Seq(Line)] :
    /\ F[0] = <<>>
    /\ \A i \in 1..Len(h[n].children) : F[i] = F[i - 1] \o BlockOf(h, n, i, dump, bars)
    /\ dump[n][bars] = F[Len(h[n].children)]

(* The lines are lines. *)
LEMMA LineType ==
  ASSUME NEW h \in Seq(Node), Descends(h), NEW n \in DOMAIN h, NEW i \in DOMAIN h[n].children,
         NEW bars \in Seq(BOOLEAN)
  PROVE  /\ BarsOf(h, n, i, bars) \in Seq(BOOLEAN)
         /\ LineOf(h, n, i, bars) \in Line
<1>1. h[n].children[i] \in Nat
  BY ChildListType
<1>2. BarsOf(h, n, i, bars) \in Seq(BOOLEAN)
  <2> DEFINE last == (i = Len(h[n].children))
  <2>1. last \in BOOLEAN
    OBVIOUS
  <2> HIDE DEF last
  <2>2. Append(bars, last) \in Seq(BOOLEAN)
    BY <2>1
  <2>3. QED
    BY <2>2 DEF BarsOf, last
<1>3. QED
  BY <1>1, <1>2 DEF LineOf, Line

(* A block is a sequence of lines. *)
LEMMA BlockType ==
  ASSUME NEW h \in Seq(Node), Descends(h), NEW n \in DOMAIN h, NEW i \in DOMAIN h[n].children,
         NEW bars \in Seq(BOOLEAN), NEW dump, dump[h[n].children[i]] \in [Seq(BOOLEAN) -> Seq(Line)]
  PROVE  BlockOf(h, n, i, dump, bars) \in Seq(Line)
<1> DEFINE here == BarsOf(h, n, i, bars)
           line == LineOf(h, n, i, bars)
           below == IF IsContainer(h, h[n].children[i]) THEN dump[h[n].children[i]][here] ELSE <<>>
<1>1. here \in Seq(BOOLEAN) /\ line \in Line
  BY LineType
<1> HIDE DEF here, line
<1>2. below \in Seq(Line)
  BY <1>1
<1> HIDE DEF below
<1>3. <<line>> \o below \in Seq(Line)
  BY <1>1, <1>2
<1>4. QED
  BY <1>3 DEF BlockOf, here, line, below

(* The recursion of samconfDumpConfigTree, node by node. *)
LEMMA DumpSteps ==
  ASSUME NEW h \in Seq(Node), Descends(h)
  PROVE  \E dump \in [DOMAIN h -> [Seq(BOOLEAN) -> Seq(Line)]] :
           /\ \A root : DumpConfigTree(h, root) = dump[root][<<>>]
           /\ \A n \in DOMAIN h : \A bars \in Seq(BOOLEAN) : DrawsBlocks(dump, h, n, bars)
<1> DEFINE D == DOMAIN h
           A == Seq(BOOLEAN)
           V == [A -> Seq(Line)]
           C(n, f, bars) == ConcatAll(BlocksOf(h, n, f, bars), PlacesOf(h, n))
           B(n, f) == [bars \in A |-> C(n, f, bars)]
           G == [n \in D |-> [f \in [D -> V] |-> B(n, f)]]
           dump == CHOOSE f : f = [n \in D |-> B(n, f)]
<1>1. \A root : DumpConfigTree(h, root) = dump[root][<<>>]
  BY DEF DumpConfigTree, ConcatAll, BlocksOf, BlockOf, LineOf, BarsOf, PlacesOf, IsContainer
<1>2. \A n \in D : /\ Len(h[n].children) \in Nat
                   /\ DOMAIN h[n].children = 1..Len(h[n].children)
                   /\ \A i \in DOMAIN h[n].children : h[n].children[i] \in D
  BY ChildListType DEF Descends
<1>3. \A n \in D : /\ PlacesOf(h, n) \in Seq(Nat) /\ Len(PlacesOf(h, n)) = Len(h[n].children)
                   /\ DOMAIN PlacesOf(h, n) = 1..Len(h[n].children)
                   /\ \A i \in 1..Len(h[n].children) : PlacesOf(h, n)[i] = i
  BY <1>2 DEF PlacesOf
<1>4. ASSUME NEW n \in D, NEW f, \A i \in DOMAIN h[n].children : f[h[n].children[i]] \in V,
             NEW bars \in A
      PROVE  \E F \in [0..Len(h[n].children) -> Seq(Line)] :
               /\ Concatenates(F, BlocksOf(h, n, f, bars), PlacesOf(h, n))
               /\ C(n, f, bars) = F[Len(h[n].children)]
  <2> DEFINE blocks == BlocksOf(h, n, f, bars)
             places == PlacesOf(h, n)
  <2>1. \A i \in DOMAIN places : blocks[places[i]] \in Seq(Line)
    <3>1. \A i \in DOMAIN h[n].children : BlockOf(h, n, i, f, bars) \in Seq(Line)
      BY <1>4, BlockType
    <3>2. QED
      BY <1>2, <1>3, <3>1 DEF BlocksOf
  <2>2. places \in Seq(Nat) /\ Len(places) = Len(h[n].children)
    BY <1>3
  <2> HIDE DEF blocks, places
  <2>3. \E F \in [0..Len(places) -> Seq(Line)] :
          Concatenates(F, blocks, places) /\ ConcatAll(blocks, places) = F[Len(places)]
    BY <2>1, <2>2, FoldConcatenates
  <2>4. QED
    BY <2>2, <2>3 DEF blocks, places
<1>5. ASSUME NEW n \in D, NEW f, NEW g,
             \A i \in DOMAIN h[n].children : f[h[n].children[i]] = g[h[n].children[i]]
      PROVE  B(n, f) = B(n, g)
  <2>1. \A bars \in A : BlocksOf(h, n, f, bars) = BlocksOf(h, n, g, bars)
    BY <1>5 DEF BlocksOf, BlockOf
  <2>2. \A bars \in A : C(n, f, bars) = C(n, g, bars)
    BY <2>1
  <2> HIDE DEF C, A
  <2>3. QED
    BY <2>2
<1> HIDE DEF C
<1>6. ASSUME NEW n \in D, NEW f, \A i \in DOMAIN h[n].children : f[h[n].children[i]] \in V
      PROVE  B(n, f) \in V
  <2>1. \A bars \in A : C(n, f, bars) \in Seq(Line)
    <3>1. SUFFICES ASSUME NEW bars \in A PROVE C(n, f, bars) \in Seq(Line)
      OBVIOUS
    <3>2. PICK F \in [0..Len(h[n].children) -> Seq(Line)] : C(n, f, bars) = F[Len(h[n].children)]
      BY <1>4, <1>6
    <3>3. Len(h[n].children) \in 0..Len(h[n].children)
      BY <1>2
    <3>4. QED
      BY <3>2, <3>3
  <2> HIDE DEF D, A
  <2>2. QED
    BY <2>1
<1>7. \A n \in D : \A f \in [D -> V] : G[n][f] = B(n, f)
  OBVIOUS
<1>8. V # {}
  <2>1. [bars \in A |-> <<>>] \in V
    OBVIOUS
  <2>2. QED
    BY <2>1
<1> HIDE DEF G, V, B, dump
<1>9. ASSUME NEW n \in D, NEW f \in [D -> V], NEW g \in [D -> V],
             \A i \in DOMAIN h[n].children : f[h[n].children[i]] = g[h[n].children[i]]
      PROVE  G[n][f] = G[n][g]
  <2>1. B(n, f) = B(n, g)
    BY <1>5, <1>9
  <2>2. QED
    BY <1>7, <2>1
<1>10. \A n \in D : \A f \in [D -> V] : G[n][f] \in V
  BY <1>2, <1>6, <1>7
<1>11. IsDownRecursion(h, V, G)
  BY <1>8, <1>9, <1>10 DEF IsDownRecursion
<1>12. PICK f \in [D -> V] : \A n \in D : f[n] = G[n][f]
  BY <1>11, DownRecursionHasValue
<1>13. f = [n \in D |-> B(n, f)]
  BY <1>7, <1>12
<1>14. dump = [n \in D |-> B(n, dump)]
  BY <1>13 DEF dump
<1>15. \A n \in D : dump[n] = B(n, dump)
  BY <1>14
<1>16. D \subseteq {n \in D : dump[n] \in V}
  <2> DEFINE S == {n \in D : dump[n] \in V}
  <2>1. ASSUME NEW n \in D, \A i \in DOMAIN h[n].children : h[n].children[i] \in S
        PROVE  n \in S
    <3>1. B(n, dump) \in V
      BY <1>6, <2>1
    <3>2. QED
      BY <1>15, <3>1
  <2> HIDE DEF S
  <2>2. D \subseteq S
    BY <2>1, DownInduction
  <2>3. QED
    BY <2>2 DEF S
<1>17. dump \in [D -> V]
  BY <1>14, <1>16
<1>18. ASSUME NEW n \in D, NEW bars \in A PROVE DrawsBlocks(dump, h, n, bars)
  <2>1. dump[n][bars] = C(n, dump, bars)
    BY <1>15 DEF B
  <2>2. PICK F \in [0..Len(h[n].children) -> Seq(Line)] :
          /\ Concatenates(F, BlocksOf(h, n, dump, bars), PlacesOf(h, n))
          /\ C(n, dump, bars) = F[Len(h[n].children)]
    BY <1>2, <1>4, <1>16
  <2>3. F[0] = <<>> /\ \A i \in 1..Len(h[n].children) :
                         F[i] = F[i - 1] \o BlocksOf(h, n, dump, bars)[PlacesOf(h, n)[i]]
    BY <1>3, <2>2 DEF Concatenates
  <2>4. \A i \in 1..Len(h[n].children) :
          BlocksOf(h, n, dump, bars)[PlacesOf(h, n)[i]] = BlockOf(h, n, i, dump, bars)
    BY <1>2, <1>3 DEF BlocksOf
  <2>5. QED
    BY <2>1, <2>2, <2>3, <2>4 DEF DrawsBlocks
<1>19. QED
  BY <1>1, <1>17, <1>18 DEF V

-------------------------------------------------------------------------------
(* Branches of TreeApi, for any tree. *)
BranchesIn(h, n) ==
  LET up[m \in DOMAIN h] ==
        IF m = Root THEN <<>> ELSE Append(up[h[m].parent], LaterSiblings(h, m) = {})
  IN  up[n]

(* The bars of a node are those of its parent and one more. *)
LEMMA BranchesSteps ==
  ASSUME NEW h \in Seq(Node), h # <<>>, IsTree(h)
  PROVE  \A n \in DOMAIN h :
           /\ BranchesIn(h, n) \in Seq(BOOLEAN)
           /\ BranchesIn(h, n) = IF n = Root THEN <<>>
                                 ELSE Append(BranchesIn(h, h[n].parent), LaterSiblings(h, n) = {})
<1> DEFINE D == DOMAIN h
           V == Seq(BOOLEAN)
           last(n) == LaterSiblings(h, n) = {}
           B(n, f) == IF n = Root THEN <<>> ELSE Append(f[h[n].parent], last(n))
           G == [n \in D |-> [f \in [D -> V] |-> B(n, f)]]
           rank == [n \in D |-> n]
           up == CHOOSE f : f = [n \in D |-> B(n, f)]
<1>1. Len(h) \in Nat /\ D = 1..Len(h) /\ rank \in [D -> 0..Len(h)]
  OBVIOUS
<1>2. \A n \in D : n # Root => h[n].parent \in D /\ h[n].parent < n
  <2>1. \A n \in D : n # Root => h[n].parent \in 1..(n - 1)
    BY DEF IsTree
  <2>2. QED
    BY <1>1, <2>1
<1>3. <<>> \in V /\ \A s \in V : \A n : Append(s, last(n)) \in V
  <2>1. \A n : last(n) \in BOOLEAN
    OBVIOUS
  <2> HIDE DEF last
  <2>2. QED
    BY <2>1
<1>4. \A n : BranchesIn(h, n) = up[n]
  BY DEF BranchesIn
<1> HIDE DEF V, last
<1>5. \A n \in D : \A f : (\A i \in D : i < n => f[i] \in V) => B(n, f) \in V
  BY <1>2, <1>3
<1>6. \A n \in D : \A f, g : (\A i \in D : i < n => f[i] = g[i]) => B(n, f) = B(n, g)
  BY <1>2
<1>7. \A n \in D : \A f \in [D -> V] : G[n][f] = B(n, f)
  OBVIOUS
<1>8. \A i, n \in D : rank[i] < rank[n] <=> i < n
  OBVIOUS
<1> HIDE DEF G, B, rank
<1>9. \E f : f = [n \in D |-> B(n, f)]
  <2> HIDE DEF D
  <2>1. \A n \in D : \A f \in [D -> V] : B(n, f) \in V
    BY <1>5
  <2>2. IsRecursion(Len(h), D, rank, V, G)
    <3>1. \A n \in D : \A f \in [D -> V] : G[n][f] \in V
      BY <1>7, <2>1
    <3>2. \A n \in D : \A f, g \in [D -> V] :
            (\A i \in D : rank[i] < rank[n] => f[i] = g[i]) => G[n][f] = G[n][g]
      BY <1>6, <1>7, <1>8
    <3>3. Len(h) \in Nat /\ rank \in [D -> 0..Len(h)] /\ V # {}
      BY <1>1, <1>3
    <3>4. QED
      BY <3>1, <3>2, <3>3 DEF IsRecursion
  <2>3. PICK f \in [D -> V] : \A n \in D : f[n] = G[n][f]
    BY <2>2, RecursionHasValue
  <2>4. f = [n \in D |-> B(n, f)]
    BY <1>7, <2>3
  <2>5. QED
    BY <2>4
<1>10. up = [n \in D |-> B(n, up)]
  BY <1>9
<1> HIDE DEF up
<1>11. \A n \in D : up[n] = B(n, up)
  BY <1>10
<1>12. \A n \in D : up[n] \in V
  <2> DEFINE T == {n \in D : up[n] \in V}
  <2>1. \A n \in D : (\A m \in D : rank[m] < rank[n] => m \in T) => n \in T
    BY <1>5, <1>8, <1>11
  <2>2. rank \in [D -> Nat]
    BY <1>1 DEF rank
  <2> HIDE DEF T, D
  <2>3. D \subseteq T
    BY <2>1, <2>2, RankInduction
  <2>4. QED
    BY <2>3 DEF T
<1>13. QED
  BY <1>4, <1>11, <1>12 DEF B, V, last

(* What the dump needs to know of the i-th child of n: that it has no later   *)
(* siblings if it is the last one, and that n is its parent.                  *)
ChildEnds(h, n, i) ==
  /\ (LaterSiblings(h, h[n].children[i]) = {}) = (i = Len(h[n].children))
  /\ h[n].children[i] \in DOMAIN h /\ h[n].children[i] # Root
  /\ h[h[n].children[i]].parent = n

(* It is so for every child of a node in a tree. *)
LEMMA LastChild ==
  ASSUME NEW h \in Seq(Node), h # <<>>, IsTree(h), NEW n \in DOMAIN h, NEW i \in DOMAIN h[n].children
  PROVE  ChildEnds(h, n, i)
<1> DEFINE kids == h[n].children
           c == kids[i]
           later == {j \in DOMAIN kids : \E k \in 1..(j - 1) : kids[k] = c}
<1>1. c \in DOMAIN h /\ h[c].parent = n /\ h[Root].parent = NULL
      /\ \A k, j \in DOMAIN kids : kids[k] = kids[j] => k = j
  BY DEF IsTree
<1>2. n # NULL /\ c # Root
  BY <1>1 DEF NULL
<1>3. Len(kids) \in Nat /\ DOMAIN kids = 1..Len(kids)
  BY ChildListType
<1>4. LaterSiblings(h, c) = {kids[j] : j \in later}
  BY <1>1 DEF LaterSiblings
<1>5. later = {j \in DOMAIN kids : i < j}
  BY <1>1, <1>3
<1>6. {j \in DOMAIN kids : i < j} = {} <=> i = Len(kids)
  <2>1. i \in Nat /\ i <= Len(kids)
    BY <1>3
  <2>2. i # Len(kids) => Len(kids) \in {j \in DOMAIN kids : i < j}
    BY <1>3, <2>1
  <2>3. i = Len(kids) => \A j \in DOMAIN kids : ~(i < j)
    BY <1>3
  <2>4. QED
    BY <2>2, <2>3
<1> HIDE DEF kids, later, c
<1>7. LaterSiblings(h, c) = {} <=> i = Len(kids)
  BY <1>4, <1>5, <1>6
<1>8. QED
  BY <1>1, <1>2, <1>7 DEF kids, c, ChildEnds

-------------------------------------------------------------------------------
(* The lines draw these nodes, with the bars they should have and each after *)
(* the nodes a walk meets before it.                                         *)
Draws(h, lines, nodes) ==
  /\ lines \in Seq(Line)
  /\ {lines[i].node : i \in DOMAIN lines} = nodes
  /\ \A i \in DOMAIN lines :
       /\ lines[i].bars = BranchesIn(h, lines[i].node)
       /\ \A j \in 1..(i - 1) : lines[i].node \in Following(h, lines[j].node)

(* No line draws nothing, and one line one node. *)
LEMMA DrawsFew ==
  ASSUME NEW h, NEW line \in Line, line.bars = BranchesIn(h, line.node)
  PROVE  Draws(h, <<>>, {}) /\ Draws(h, <<line>>, {line.node})
<1>1. Draws(h, <<>>, {})
  <2>1. <<>> \in Seq(Line) /\ DOMAIN <<>> = {}
    OBVIOUS
  <2>2. QED
    BY <2>1 DEF Draws
<1>2. Draws(h, <<line>>, {line.node})
  <2> DEFINE s == <<line>>
  <2>1. s \in Seq(Line) /\ DOMAIN s = {1} /\ s[1] = line /\ 1..(1 - 1) = {}
    OBVIOUS
  <2> HIDE DEF s
  <2>2. Draws(h, s, {line.node})
    BY <2>1 DEF Draws
  <2>3. QED
    BY <2>2 DEF s
<1>3. QED
  BY <1>1, <1>2

(* Lines behind lines draw the nodes of both. *)
LEMMA DrawsBoth ==
  ASSUME NEW h, NEW s, NEW a, Draws(h, s, a), NEW t, NEW b, Draws(h, t, b),
         \A x \in a : \A y \in b : y \in Following(h, x)
  PROVE  Draws(h, s \o t, a \cup b)
<1> DEFINE g == s \o t
           k == Len(s)
<1>1. /\ s \in Seq(Line) /\ t \in Seq(Line) /\ k \in Nat /\ Len(t) \in Nat
      /\ DOMAIN s = 1..k /\ DOMAIN t = 1..Len(t)
  BY DEF Draws
<1>2. /\ g \in Seq(Line) /\ DOMAIN g = 1..(k + Len(t))
      /\ \A i \in 1..k : g[i] = s[i]
      /\ \A i \in 1..Len(t) : g[k + i] = t[i]
  BY <1>1
<1> HIDE DEF g, k
<1>3. \A i \in DOMAIN g : (i \in DOMAIN s /\ g[i] = s[i]) \/ (i - k \in DOMAIN t /\ g[i] = t[i - k])
  <2>1. SUFFICES ASSUME NEW i \in DOMAIN g, i \notin 1..k
                 PROVE  i - k \in DOMAIN t /\ g[i] = t[i - k]
    BY <1>1, <1>2
  <2>2. i - k \in 1..Len(t) /\ k + (i - k) = i
    BY <1>1, <1>2, <2>1
  <2>3. g[k + (i - k)] = t[i - k]
    BY <1>2, <2>2
  <2>4. QED
    BY <1>1, <2>2, <2>3
<1>4. /\ \A i \in DOMAIN s : i \in DOMAIN g /\ g[i] = s[i]
      /\ \A i \in DOMAIN t : k + i \in DOMAIN g /\ g[k + i] = t[i]
  BY <1>1, <1>2
<1>5. {g[i].node : i \in DOMAIN g} = a \cup b
  <2>1. a = {s[i].node : i \in DOMAIN s} /\ b = {t[i].node : i \in DOMAIN t}
    BY DEF Draws
  <2>2. QED
    BY <1>3, <1>4, <2>1
<1>6. \A i \in DOMAIN g : g[i].bars = BranchesIn(h, g[i].node)
  BY <1>3 DEF Draws
<1>7. ASSUME NEW i \in DOMAIN g, NEW j \in 1..(i - 1)
      PROVE  g[i].node \in Following(h, g[j].node)
  <2>1. j \in DOMAIN g /\ i \in Nat /\ j \in Nat /\ j < i /\ j >= 1
    BY <1>1, <1>2, <1>7
  <2>2. CASE i \in DOMAIN s
    <3>1. j \in 1..k /\ g[j] = s[j] /\ g[i] = s[i]
      BY <1>1, <1>2, <2>1, <2>2
    <3>2. QED
      BY <1>1, <1>7, <2>2, <3>1 DEF Draws
  <2>3. CASE i \notin DOMAIN s /\ j \in DOMAIN s
    <3>1. g[i] = t[i - k] /\ i - k \in DOMAIN t /\ g[j] = s[j]
      BY <1>3, <1>4, <2>3
    <3>2. g[i].node \in b /\ g[j].node \in a
      BY <2>3, <3>1 DEF Draws
    <3>3. QED
      BY <3>2
  <2>4. CASE i \notin DOMAIN s /\ j \notin DOMAIN s
    <3>1. g[i] = t[i - k] /\ i - k \in DOMAIN t /\ g[j] = t[j - k] /\ j - k \in DOMAIN t
      BY <1>3, <2>1, <2>4
    <3>2. j - k \in 1..((i - k) - 1)
      BY <1>1, <2>1, <3>1
    <3>3. QED
      BY <3>1, <3>2 DEF Draws
  <2>5. QED
    BY <2>2, <2>3, <2>4
<1>8. Draws(h, g, a \cup b)
  BY <1>2, <1>5, <1>6, <1>7 DEF Draws
<1>9. QED
  BY <1>8 DEF g

(* What comes after a node comes after what is below it, too. *)
LEMMA AfterBelow ==
  ASSUME NEW h \in Seq(Node), h # <<>>, IsTree(h), NEW c \in DOMAIN h
  PROVE  \A x \in Subtree(h, c) : After(h, c) \subseteq Following(h, x)
<1> DEFINE S == {x \in DOMAIN h : x \in Subtree(h, c) => After(h, c) \subseteq After(h, x)}
<1>1. Forest(h) /\ Tops(h) = {Root} /\ Descends(h)
  BY TreeIsForest, TreeDescends
<1>2. ASSUME NEW x \in DOMAIN h, x \notin Tops(h) => h[x].parent \in S PROVE x \in S
  <2>1. SUFFICES ASSUME x \in Subtree(h, c), x # c PROVE After(h, c) \subseteq After(h, x)
    OBVIOUS
  <2>2. x \notin Tops(h) /\ h[x].parent \in Subtree(h, c)
    BY <1>1, <2>1, ParentIsBelow
  <2>3. After(h, c) \subseteq After(h, h[x].parent)
    BY <1>2, <2>2
  <2>4. After(h, h[x].parent) \subseteq After(h, x)
    BY <1>1, <2>2, AfterSteps
  <2>5. QED
    BY <2>3, <2>4
<1>3. DOMAIN h \subseteq S
  <2> HIDE DEF S
  <2>1. QED
    BY <1>1, <1>2, UpInduction
<1>4. Subtree(h, c) \subseteq DOMAIN h
  BY <1>1, SubtreeSteps
<1>5. QED
  BY <1>3, <1>4, FollowingParts

(* A visit meets what is below a child before what is below a later one. *)
LEMMA EarlierBelow ==
  ASSUME NEW h \in Seq(Node), h # <<>>, IsTree(h), NEW n \in DOMAIN h,
         NEW i \in DOMAIN h[n].children, NEW j \in DOMAIN h[n].children, i < j,
         NEW x \in Subtree(h, h[n].children[i]), NEW y \in Subtree(h, h[n].children[j])
  PROVE  y \in Following(h, x)
<1>1. y \in Behind(h, n, i)
  BY DEF Behind
<1>2. y \in After(h, h[n].children[i])
  BY <1>1, AfterChild
<1>3. h[n].children[i] \in DOMAIN h
  BY DEF IsTree
<1>4. QED
  BY <1>2, <1>3, AfterBelow

-------------------------------------------------------------------------------
(* The nodes below n that are shown with it: nothing but containers between. *)
ShownBelow(h, n) ==
  {m \in Subtree(h, n) \ {n} : \A k \in Subtree(h, n) \ {n, m} :
     m \in Subtree(h, k) => IsContainer(h, k)}

(* Those that are shown at a child: the child and, in a container, those     *)
(* below it.                                                                 *)
ShownAt(h, c) == {c} \cup IF IsContainer(h, c) THEN ShownBelow(h, c) ELSE {}

(* What is below a node that is below another one is below that one. *)
LEMMA SubtreeInside ==
  ASSUME NEW h \in Seq(Node), Descends(h), NEW c \in DOMAIN h
  PROVE  \A k \in Subtree(h, c) : Subtree(h, k) \subseteq Subtree(h, c)
<1> DEFINE S == {k \in DOMAIN h : k \in Subtree(h, c) => Subtree(h, k) \subseteq Subtree(h, c)}
<1>1. ASSUME NEW k \in DOMAIN h, \A i \in DOMAIN h[k].children : h[k].children[i] \in S
      PROVE  k \in S
  <2>1. SUFFICES ASSUME k \in Subtree(h, c) PROVE Subtree(h, k) \subseteq Subtree(h, c)
    OBVIOUS
  <2>2. \A i \in DOMAIN h[k].children : h[k].children[i] \in Subtree(h, c)
    BY <2>1, ChildrenAreBelow
  <2>3. \A i \in DOMAIN h[k].children : Subtree(h, h[k].children[i]) \subseteq Subtree(h, c)
    BY <1>1, <2>2
  <2>4. Subtree(h, k) = {k} \cup UNION {Subtree(h, h[k].children[i]) : i \in DOMAIN h[k].children}
    BY SubtreeSteps
  <2>5. QED
    BY <2>1, <2>3, <2>4
<1>2. Subtree(h, c) \subseteq DOMAIN h
  BY SubtreeSteps
<1>3. DOMAIN h \subseteq S
  <2> HIDE DEF S
  <2>1. QED
    BY <1>1, DownInduction
<1>4. QED
  BY <1>2, <1>3

(* What is shown below a node is what is shown at its children. *)
LEMMA ShownSteps ==
  ASSUME NEW h \in Seq(Node), h # <<>>, IsTree(h), NEW n \in DOMAIN h
  PROVE  /\ ShownBelow(h, n) = UNION {ShownAt(h, h[n].children[i]) : i \in DOMAIN h[n].children}
         /\ \A i \in DOMAIN h[n].children :
              ShownAt(h, h[n].children[i]) \subseteq Subtree(h, h[n].children[i])
<1> DEFINE kids == h[n].children
<1>1. Forest(h) /\ Descends(h)
  BY TreeIsForest, TreeDescends
<1>2. /\ \A i \in DOMAIN kids : kids[i] \in DOMAIN h /\ h[kids[i]].parent = n
      /\ \A i, j \in DOMAIN kids : kids[i] = kids[j] => i = j
  BY DEF IsTree
<1>3. /\ Subtree(h, n) = {n} \cup UNION {Subtree(h, kids[i]) : i \in DOMAIN kids}
      /\ \A c \in DOMAIN h : /\ c \in Subtree(h, c) /\ Subtree(h, c) \subseteq DOMAIN h
                             /\ \A x \in Subtree(h, c) : c <= x
  BY <1>1, SubtreeSteps, SubtreeIsLater
<1>4. \A i \in DOMAIN kids : n \notin Subtree(h, kids[i])
  <2>1. \A i \in DOMAIN kids : n < kids[i] /\ kids[i] \in Nat
    BY <1>1, <1>2 DEF Descends
  <2>2. n \in Nat
    OBVIOUS
  <2>3. QED
    BY <1>2, <1>3, <2>1, <2>2
<1>5. \A i, j \in DOMAIN kids : i # j => Subtree(h, kids[i]) \cap Subtree(h, kids[j]) = {}
  BY <1>1, <1>2, SiblingsAreApart
<1>6. \A i \in DOMAIN kids : \A k \in Subtree(h, kids[i]) : Subtree(h, k) \subseteq Subtree(h, kids[i])
  BY <1>1, <1>2, SubtreeInside
<1>7. \A k, m \in DOMAIN h : m \in Subtree(h, k) /\ k \in Subtree(h, m) => k = m
  <2>1. \A k, m \in DOMAIN h : k \in Nat /\ m \in Nat
    OBVIOUS
  <2>2. QED
    BY <1>3, <2>1
<1> HIDE DEF kids
<1>8. \A i \in DOMAIN kids : ShownAt(h, kids[i]) \subseteq Subtree(h, kids[i])
  BY <1>2, <1>3 DEF ShownAt, ShownBelow
<1>9. ASSUME NEW i \in DOMAIN kids, NEW m \in Subtree(h, kids[i])
      PROVE  m \in ShownBelow(h, n) <=> m \in ShownAt(h, kids[i])
  <2> DEFINE c == kids[i]
  <2>1. c \in DOMAIN h /\ m \in DOMAIN h /\ m \in Subtree(h, n) /\ m # n
    BY <1>2, <1>3, <1>4, <1>9
  <2>2. \A k \in Subtree(h, n) \ {n} : m \in Subtree(h, k) => k \in Subtree(h, c)
    <3>1. SUFFICES ASSUME NEW j \in DOMAIN kids, NEW k \in Subtree(h, kids[j]), m \in Subtree(h, k)
                   PROVE  k \in Subtree(h, c)
      BY <1>3
    <3>2. m \in Subtree(h, kids[j])
      BY <1>6, <3>1
    <3>3. j = i
      BY <1>5, <1>9, <3>2
    <3>4. QED
      BY <3>1, <3>3
  <2>3. \A k \in Subtree(h, c) : k \in Subtree(h, n) /\ k # n
    BY <1>3, <1>4
  <2>4. m \in ShownBelow(h, n) <=>
          \A k \in Subtree(h, c) \ {m} : m \in Subtree(h, k) => IsContainer(h, k)
    BY <2>1, <2>2, <2>3 DEF ShownBelow
  <2> HIDE DEF c
  <2>5. CASE m = c
    <3>1. \A k \in Subtree(h, c) \ {m} : m \notin Subtree(h, k)
      BY <1>3, <1>7, <2>1, <2>5
    <3>2. QED
      BY <2>4, <2>5, <3>1 DEF ShownAt, c
  <2>6. CASE m # c
    <3>1. c \in Subtree(h, c) /\ m \in Subtree(h, c)
      BY <1>3, <1>9, <2>1 DEF c
    <3>2. (\A k \in Subtree(h, c) \ {m} : m \in Subtree(h, k) => IsContainer(h, k)) <=>
            /\ IsContainer(h, c)
            /\ \A k \in Subtree(h, c) \ {c, m} : m \in Subtree(h, k) => IsContainer(h, k)
      BY <2>6, <3>1
    <3>3. m \in ShownAt(h, c) <=>
            /\ IsContainer(h, c)
            /\ \A k \in Subtree(h, c) \ {c, m} : m \in Subtree(h, k) => IsContainer(h, k)
      BY <2>6, <3>1 DEF ShownAt, ShownBelow
    <3>4. QED
      BY <2>4, <3>2, <3>3 DEF c
  <2>7. QED
    BY <2>5, <2>6
<1>10. \A m \in ShownBelow(h, n) : \E i \in DOMAIN kids : m \in Subtree(h, kids[i])
  BY <1>3 DEF ShownBelow
<1>11. ShownBelow(h, n) = UNION {ShownAt(h, kids[i]) : i \in DOMAIN kids}
  BY <1>8, <1>9, <1>10
<1>12. QED
  BY <1>8, <1>11 DEF kids

(* The block of a child draws the child and what is shown below it. *)
LEMMA BlockDraws ==
  ASSUME NEW h \in Seq(Node), h # <<>>, IsTree(h), NEW n \in DOMAIN h,
         NEW i \in DOMAIN h[n].children, NEW dump, NEW c, c = h[n].children[i],
         Draws(h, dump[c][BranchesIn(h, c)], ShownBelow(h, c))
  PROVE  Draws(h, BlockOf(h, n, i, dump, BranchesIn(h, n)), ShownAt(h, c))
<1> DEFINE here == BarsOf(h, n, i, BranchesIn(h, n))
           line == LineOf(h, n, i, BranchesIn(h, n))
<1>1. Descends(h) /\ c \in DOMAIN h /\ c # Root /\ h[c].parent = n
      /\ (LaterSiblings(h, c) = {}) = (i = Len(h[n].children))
  <2>1. Descends(h)
    BY TreeDescends
  <2>2. ChildEnds(h, n, i)
    BY LastChild
  <2>3. QED
    BY <2>1, <2>2 DEF ChildEnds
<1>2. BranchesIn(h, n) \in Seq(BOOLEAN) /\ here = BranchesIn(h, c)
  BY <1>1, BranchesSteps DEF BarsOf
<1>3. line \in Line
  BY <1>1, <1>2, LineType
<1>4. line.node = c /\ line.bars = BranchesIn(h, c)
  BY <1>2 DEF LineOf
<1>5. BlockOf(h, n, i, dump, BranchesIn(h, n))
        = <<line>> \o IF IsContainer(h, c) THEN dump[c][BranchesIn(h, c)] ELSE <<>>
  BY <1>2 DEF BlockOf
<1> HIDE DEF line, here
<1>6. Draws(h, <<>>, {}) /\ Draws(h, <<line>>, {c})
  BY <1>3, <1>4, DrawsFew
<1>7. \A y \in ShownBelow(h, c) : y \in Following(h, c)
  BY FollowingParts DEF ShownBelow
<1>8. CASE IsContainer(h, c)
  <2>1. Draws(h, <<line>> \o dump[c][BranchesIn(h, c)], {c} \cup ShownBelow(h, c))
    BY <1>6, <1>7, DrawsBoth
  <2>2. QED
    BY <1>5, <1>8, <2>1 DEF ShownAt
<1>9. CASE ~IsContainer(h, c)
  <2>1. Draws(h, <<line>> \o <<>>, {c} \cup {})
    BY <1>6, DrawsBoth
  <2>2. QED
    BY <1>5, <1>9, <2>1 DEF ShownAt
<1>10. QED
  BY <1>8, <1>9

(* The blocks of all children draw what is shown below the node. *)
LEMMA BlocksDraw ==
  ASSUME NEW h \in Seq(Node), h # <<>>, IsTree(h), NEW n \in DOMAIN h, NEW dump,
         DrawsBlocks(dump, h, n, BranchesIn(h, n)),
         \A i \in DOMAIN h[n].children :
           Draws(h, dump[h[n].children[i]][BranchesIn(h, h[n].children[i])],
                 ShownBelow(h, h[n].children[i]))
  PROVE  Draws(h, dump[n][BranchesIn(h, n)], ShownBelow(h, n))
<1> DEFINE kids == h[n].children
           Block(i) == BlockOf(h, n, i, dump, BranchesIn(h, n))
           At(i) == ShownAt(h, kids[i])
           UpTo(k) == UNION {At(i) : i \in 1..k}
<1>1. Len(kids) \in Nat /\ DOMAIN kids = 1..Len(kids)
  BY ChildListType
<1>2. PICK F : /\ F[0] = <<>>
               /\ \A i \in 1..Len(kids) : F[i] = F[i - 1] \o Block(i)
               /\ dump[n][BranchesIn(h, n)] = F[Len(kids)]
  BY DEF DrawsBlocks
<1>3. \A i \in DOMAIN kids : Draws(h, Block(i), At(i))
  BY BlockDraws
<1>4. /\ ShownBelow(h, n) = UNION {At(i) : i \in DOMAIN kids}
      /\ \A i \in DOMAIN kids : At(i) \subseteq Subtree(h, kids[i])
  BY ShownSteps
<1>5. \A i, j \in DOMAIN kids : i < j => \A x \in At(i) : \A y \in At(j) : y \in Following(h, x)
  BY <1>4, EarlierBelow
<1> HIDE DEF kids, Block, At
<1> DEFINE S == {k \in Nat : k <= Len(kids) => Draws(h, F[k], UpTo(k))}
<1>6. 0 \in S
  <2>1. Draws(h, <<>>, {})
    <3>1. <<>> \in Seq(Line) /\ DOMAIN <<>> = {}
      OBVIOUS
    <3>2. QED
      BY <3>1 DEF Draws
  <2>2. UpTo(0) = {}
    OBVIOUS
  <2>3. QED
    BY <1>2, <2>1, <2>2
<1>7. ASSUME NEW k \in Nat, k \in S PROVE k + 1 \in S
  <2>1. SUFFICES ASSUME k + 1 <= Len(kids) PROVE Draws(h, F[k + 1], UpTo(k + 1))
    OBVIOUS
  <2>2. /\ k + 1 \in DOMAIN kids /\ \A i \in 1..k : i \in DOMAIN kids /\ i < k + 1
        /\ Draws(h, F[k], UpTo(k)) /\ (k + 1) - 1 = k
    BY <1>1, <1>7, <2>1
  <2>3. F[k + 1] = F[k] \o Block(k + 1)
    BY <1>1, <1>2, <2>2
  <2>4. UpTo(k + 1) = UpTo(k) \cup At(k + 1)
    <3>1. 1..(k + 1) = (1..k) \cup {k + 1}
      OBVIOUS
    <3>2. QED
      BY <3>1
  <2>5. \A x \in UpTo(k) : \A y \in At(k + 1) : y \in Following(h, x)
    BY <1>5, <2>2
  <2>6. Draws(h, Block(k + 1), At(k + 1))
    BY <1>3, <2>2
  <2> HIDE DEF UpTo, S
  <2>7. Draws(h, F[k] \o Block(k + 1), UpTo(k) \cup At(k + 1))
    BY <2>2, <2>5, <2>6, DrawsBoth
  <2>8. QED
    BY <2>3, <2>4, <2>7
<1>8. Len(kids) \in S
  <2> HIDE DEF S
  <2>1. Nat \subseteq S
    BY <1>6, <1>7, NumberInduction
  <2>2. QED
    BY <1>1, <2>1
<1>9. Draws(h, F[Len(kids)], UpTo(Len(kids)))
  BY <1>1, <1>8
<1>10. QED
  BY <1>1, <1>2, <1>4, <1>9

(* samconfDumpConfigTree draws what is shown below the node it begins at. *)
LEMMA DumpDraws ==
  ASSUME NEW h \in Seq(Node), h # <<>>, IsTree(h)
  PROVE  Draws(h, DumpConfigTree(h, Root), ShownBelow(h, Root))
<1>1. Descends(h) /\ Root \in DOMAIN h
  BY TreeDescends, RootInHeap
<1>2. PICK dump : /\ \A root : DumpConfigTree(h, root) = dump[root][<<>>]
                  /\ \A n \in DOMAIN h : \A bars \in Seq(BOOLEAN) : DrawsBlocks(dump, h, n, bars)
  BY <1>1, DumpSteps
<1>3. \A n \in DOMAIN h : BranchesIn(h, n) \in Seq(BOOLEAN)
  BY BranchesSteps
<1>4. BranchesIn(h, Root) = <<>>
  BY <1>1, BranchesSteps
<1> DEFINE S == {n \in DOMAIN h : Draws(h, dump[n][BranchesIn(h, n)], ShownBelow(h, n))}
<1>5. ASSUME NEW n \in DOMAIN h, \A i \in DOMAIN h[n].children : h[n].children[i] \in S
      PROVE  n \in S
  <2>1. DrawsBlocks(dump, h, n, BranchesIn(h, n))
    BY <1>2, <1>3
  <2>2. QED
    BY <1>5, <2>1, BlocksDraw
<1>6. Root \in S
  <2> HIDE DEF S
  <2>1. DOMAIN h \subseteq S
    BY <1>1, <1>5, DownInduction
  <2>2. QED
    BY <1>1, <2>1
<1>7. QED
  BY <1>2, <1>4, <1>6

(* The dump can be read as the tree: it has a line for every node that is not *)
(* below an option, each after the nodes a walk meets before it, and the bars *)
(* of a line draw its ancestors.                                              *)
THEOREM DumpDrawsTree == Spec => []DumpShowsTree
<1>1. ASSUME ApiInv PROVE DumpShowsTree
  <2>1. SUFFICES ASSUME IsWhole(heap) PROVE DumpShowsTree
    BY DEF DumpShowsTree
  <2>2. heap \in Seq(Node) /\ heap # <<>> /\ IsTree(heap)
    BY <1>1, <2>1 DEF ApiInv, TreeInv, TypeOK, InsertTypeOK
  <2>3. Draws(heap, DumpConfigTree(heap, Root), ShownBelow(heap, Root))
    BY <2>2, DumpDraws
  <2>4. Subtree(heap, Root) = DOMAIN heap
    BY <2>2, AllBelowRoot
  <2>5. ShownBelow(heap, Root) = Shown
    BY <2>4 DEF ShownBelow, Shown, IsContainer
  <2>6. \A n : BranchesIn(heap, n) = Branches(n)
    BY DEF BranchesIn, Branches
  <2> DEFINE lines == DumpConfigTree(heap, Root)
  <2>7. DumpShowsTree <=> /\ {lines[i].node : i \in DOMAIN lines} = Shown
                          /\ \A i \in DOMAIN lines :
                               /\ lines[i].bars = Branches(lines[i].node)
                               /\ \A j \in 1..(i - 1) :
                                    lines[i].node \in Following(heap, lines[j].node)
    BY <2>1 DEF DumpShowsTree
  <2> HIDE DEF lines
  <2>8. Draws(heap, lines, Shown)
    BY <2>3, <2>5 DEF lines
  <2>9. QED
    BY <2>6, <2>7, <2>8 DEF Draws
<1>2. QED
  BY <1>1, ApiInvHolds, PTL
===============================================================================

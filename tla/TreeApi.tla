-------------------------------- MODULE TreeApi --------------------------------
(***************************************************************************)
(* A program and its configuration tree: the program creates options at    *)
(* paths, inserts nodes it made itself, sets values, reads them with the   *)
(* typed getters, walks the tree with samconfConfigNext and deletes it.    *)
(* It may do all of this in the middle of a walk.  The rounds of           *)
(* samconfInsertAt are those of TreeInsert; every other call is one step.  *)
(***************************************************************************)
EXTENDS TreeInsert

CONSTANTS
  Paths,    \* the paths the program names, with and without segments
  Options,  \* the types and values it gives to options, as such or as a string
  Cut,      \* what a 32-bit integer keeps of a value
  MaxCalls  \* bound on the calls that change the tree

ASSUME ApiAssumption ==
  /\ Paths \subseteq Seq(Keys)
  /\ Options \subseteq Option
  /\ Cut \in [Values -> Values]
  /\ MaxCalls \in Nat

VARIABLES
  creating,  \* history: an option is being created, and no allocation failed so far
  result,    \* the status last returned
  calls,     \* the calls that changed the tree so far
  walk,      \* the position of a walk, with history: the nodes there were and those met
  written,   \* history: the options created, their paths and what was last set
  freed      \* the nodes samconfConfigDelete has freed, in this order

apiVars == <<creating, result, calls, walk, written, freed>>
vars == <<insertVars, apiVars>>

NoWalk == [on |-> FALSE, at |-> NULL, known |-> {}, met |-> {}]

TypeOK ==
  /\ InsertTypeOK
  /\ creating \in BOOLEAN
  /\ result \in {"OK", "ERROR", "CRASHED"}
  /\ calls \in 0..MaxCalls
  /\ walk \in [on : BOOLEAN, at : DOMAIN heap \cup {NULL}, known : SUBSET DOMAIN heap,
               met : SUBSET DOMAIN heap]
  /\ DOMAIN written \subseteq DOMAIN heap
  /\ \A n \in DOMAIN written : written[n] \in [path : Paths, option : Option]
  /\ \A i \in DOMAIN freed : freed[i] \in DOMAIN heap

(* A tree with nothing but its root. *)
Init ==
  /\ heap = <<[ConfigNew EXCEPT !.key = RootKey, !.type = "OBJECT"]>>
  /\ ins = NoInsert
  /\ faults = MaxFaults
  /\ creating = FALSE
  /\ result = "OK"
  /\ calls = 0
  /\ walk = NoWalk
  /\ written = <<>>
  /\ freed = <<>>

-------------------------------------------------------------------------------
(* The program is in control. *)
Ready == ins.status = "IDLE" /\ result # "CRASHED" /\ freed = <<>>

Change == Ready /\ calls < MaxCalls /\ calls' = calls + 1

(* samconfCreateIntAt, RealAt, BoolAt, StringAt and FromStringAt. *)
CallCreate ==
  /\ Change
  /\ \E path \in Paths, option \in Options : InsertCall(path, NewOption(path, option))
  /\ creating' = TRUE
  /\ UNCHANGED <<heap, faults, result, walk, written, freed>>

(* No node, or no copy of the string: ERROR.  No copy of the path or of the *)
(* key: the status is still the one of samconfConfigNew.                    *)
CreateFails ==
  /\ Change
  /\ Fault
  /\ result' \in {"OK", "ERROR"}
  /\ UNCHANGED <<heap, ins, creating, walk, written, freed>>

(* samconfConfigSetValueFromString has no memory for a string, and says OK. *)
CallCreateWithoutString ==
  /\ Change
  /\ Fault
  /\ \E path \in Paths, option \in Options :
       /\ option.type = "STRING"
       /\ InsertCall(path, [NewOption(path, option) EXCEPT !.value = NoValue])
  /\ creating' = FALSE
  /\ UNCHANGED <<heap, result, walk, written, freed>>

(* samconfInsertAt with a new node of the program, whatever its key. *)
CallInsert ==
  /\ Change
  /\ \E path \in Paths, key \in Keys : InsertCall(path, [ConfigNew EXCEPT !.key = key])
  /\ creating' = FALSE
  /\ UNCHANGED <<heap, faults, result, walk, written, freed>>

Inserting ==
  /\ InsertNext
  /\ creating' = (creating /\ faults' = faults)
  /\ UNCHANGED <<result, calls, walk, written, freed>>

(* A node that was made at its path can be read there from now on. *)
Inserted ==
  /\ InsertReturn("OK")
  /\ result' = "OK"
  /\ written' =
       IF creating /\ ins.linked # NULL
       THEN [n \in DOMAIN written \cup {ins.linked} |->
               IF n = ins.linked
               THEN [path |-> ins.path,
                     option |-> [type |-> ins.node.type, value |-> ins.node.value]]
               ELSE written[n]]
       ELSE written
  /\ UNCHANGED <<heap, faults, creating, calls, walk, freed>>

NotInserted ==
  /\ InsertReturn("ERROR")
  /\ result' = "ERROR"
  /\ UNCHANGED <<heap, faults, creating, calls, walk, written, freed>>

(* samconfConfigSetInt, Bool, Real, String and SetValueFromString. *)
SetValue ==
  /\ Change
  /\ \E n \in DOMAIN heap, option \in Options :
       /\ heap' = [heap EXCEPT ![n] = WithOption(@, option)]
       /\ written' = [m \in DOMAIN written |->
                        IF m = n THEN [written[m] EXCEPT !.option = option] ELSE written[m]]
  /\ result' = "OK"
  /\ UNCHANGED <<ins, faults, creating, walk, freed>>

(* No memory for a string: the value is gone.  samconfConfigSetString keeps *)
(* the type and says so, samconfConfigSetValueFromString does neither.      *)
SetValueFails ==
  /\ Change
  /\ Fault
  /\ \E n \in DOMAIN heap :
       /\ \/ result' = "ERROR" /\ heap' = [heap EXCEPT ![n].value = NoValue]
          \/ /\ result' = "OK"
             /\ heap' = [heap EXCEPT ![n].value = NoValue, ![n].type = "STRING"]
       /\ written' = Restrict(written, DOMAIN written \ {n})
  /\ UNCHANGED <<ins, creating, walk, freed>>

(* samconfCopyConfigValue from one node of the tree to another: a container  *)
(* gives nothing, a string that is gone is refused.  Without memory for a    *)
(* string it ends like samconfConfigSetString, which it calls.               *)
CopyValue ==
  /\ Change
  /\ \E from, to \in DOMAIN heap :
       LET source == heap[from]
           gone   == CopyFails(source)
           copied == source.type \in ScalarTypes /\ ~gone
       IN  /\ from # to
           /\ heap' = [heap EXCEPT ![to] = CopyConfigValue(source, @)]
           /\ result' = IF gone THEN "ERROR" ELSE "OK"
           /\ written' =
                IF ~copied THEN written
                ELSE IF source.value = NoValue THEN Restrict(written, DOMAIN written \ {to})
                ELSE [m \in DOMAIN written |->
                        IF m = to THEN [written[m] EXCEPT !.option = [type |-> source.type,
                                                                     value |-> source.value]]
                        ELSE written[m]]
  /\ UNCHANGED <<ins, faults, creating, walk, freed>>

(* samconfConfigAdd of a new node of the program, whatever its key.  Below a *)
(* node that lost its children entries come to life that were never set.     *)
AddNode ==
  /\ Change
  /\ \E p \in DOMAIN heap, key \in Keys :
       IF heap[p].lost
       THEN result' = "CRASHED" /\ UNCHANGED heap
       ELSE /\ result' = "OK"
            /\ heap' = ConfigAdd(heap, p, [ConfigNew EXCEPT !.key = key])
  /\ UNCHANGED <<ins, faults, creating, walk, written, freed>>

AddNodeFails ==
  /\ Change
  /\ Fault
  /\ \E p \in DOMAIN heap : heap' = [heap EXCEPT ![p] = LoseChildren(@)]
  /\ result' = "ERROR"
  /\ UNCHANGED <<ins, creating, walk, written, freed>>

-------------------------------------------------------------------------------
Met(n) == [walk EXCEPT !.at = n, !.met = @ \cup {n}]

(* A walk starts at the root; samconfConfigNext finds each next node. *)
WalkStart ==
  /\ Ready /\ ~walk.on
  /\ walk' = [on |-> TRUE, at |-> Root, known |-> DOMAIN heap, met |-> {Root}]
  /\ UNCHANGED <<insertVars, creating, result, calls, written, freed>>

WalkNext ==
  /\ Ready /\ walk.on
  /\ LET n == ConfigNext(heap, Root, walk.at).next
     IN  n # NULL /\ walk' = Met(n)
  /\ UNCHANGED <<insertVars, creating, result, calls, written, freed>>

WalkEnd ==
  /\ Ready /\ walk.on
  /\ ConfigNext(heap, Root, walk.at).next = NULL
  /\ walk' = NoWalk
  /\ UNCHANGED <<insertVars, creating, result, calls, written, freed>>

Delete ==
  /\ Ready /\ ~walk.on
  /\ \A n \in DOMAIN heap : ~heap[n].lost
  /\ freed' = ConfigDelete(heap, Root)
  /\ UNCHANGED <<insertVars, creating, result, calls, walk, written>>

(* samconfConfigDelete reads the children a node has lost. *)
DeleteCrash ==
  /\ Ready /\ ~walk.on
  /\ \E n \in Subtree(heap, Root) : heap[n].lost
  /\ result' = "CRASHED"
  /\ UNCHANGED <<insertVars, creating, calls, walk, written, freed>>

Next ==
  \/ CallCreate \/ CreateFails \/ CallCreateWithoutString \/ CallInsert
  \/ Inserting \/ Inserted \/ NotInserted
  \/ SetValue \/ SetValueFails \/ CopyValue \/ AddNode \/ AddNodeFails
  \/ WalkStart \/ WalkNext \/ WalkEnd
  \/ Delete \/ DeleteCrash

Spec == Init /\ [][Next]_vars

-------------------------------------------------------------------------------
(* samconfConfigGetString, Bool, Int32 and Real, by the type they look for.  *)
(* For a path without segments samconfConfigGet sets no node: the string is  *)
(* null then, and the other getters dereference null.                        *)
ConfigGetAs(tree, path, type) ==
  LET found == ConfigGet(tree, Root, path)
      Answer(status, value) == [status |-> status, value |-> value]
  IN  IF found.status # "OK" THEN Answer(found.status, NoValue)
      ELSE IF found.node = NULL
           THEN Answer(IF type = "STRING" THEN "OK" ELSE "CRASHED", NoValue)
      ELSE LET option == tree[found.node]
           IN  IF option.type # type THEN Answer("INVALID_TYPE", NoValue)
               ELSE Answer("OK", IF type = "INT" /\ option.value # NoValue
                                 THEN Cut[option.value] ELSE option.value)

(* samconfConfigGetStringOr and the like: a default for whatever is not OK. *)
ConfigGetOr(tree, path, type, default) ==
  LET answer == ConfigGetAs(tree, path, type)
  IN  IF answer.status = "OK" THEN answer.value ELSE default

Reads(path, option) ==
  LET value == IF option.type = "INT" THEN Cut[option.value] ELSE option.value
  IN  /\ ConfigGetAs(heap, path, option.type) = [status |-> "OK", value |-> value]
      /\ \A type \in ScalarTypes :
           ConfigGetOr(heap, path, type, NoValue) = IF type = option.type THEN value ELSE NoValue

(* Slip: the loop does not know its last child. *)
DumpConfigTreeNoLast(tree, root) ==
  LET dump[n \in DOMAIN tree] == [bars \in Seq(BOOLEAN) |->
        LET kids == tree[n].children
            Block(i) == LET here == Append(bars, FALSE)
                        IN  <<[node |-> kids[i], bars |-> here]>>
                              \o IF tree[kids[i]].type \in {"OBJECT", "ARRAY"}
                                 THEN dump[kids[i]][here] ELSE <<>>
            blocks == [i \in DOMAIN kids |-> Block(i)]
        IN  FoldLeft(LAMBDA lines, i : lines \o blocks[i], <<>>, [i \in DOMAIN kids |-> i])]
  IN  dump[root][<<>>]

(* samconfDumpConfigTree: a line for every node below the root, with a bar   *)
(* for each level that tells whether the branch goes on.  What is below a    *)
(* scalar or below a node without a type is not shown.                       *)
DumpConfigTree(tree, root) ==
  LET dump[n \in DOMAIN tree] == [bars \in Seq(BOOLEAN) |->
        LET kids == tree[n].children
            Block(i) == LET here == Append(bars, i = Len(kids))
                        IN  <<[node |-> kids[i], bars |-> here]>>
                              \o IF tree[kids[i]].type \in {"OBJECT", "ARRAY"}
                                 THEN dump[kids[i]][here] ELSE <<>>
            blocks == [i \in DOMAIN kids |-> Block(i)]
        IN  FoldLeft(LAMBDA lines, i : lines \o blocks[i], <<>>, [i \in DOMAIN kids |-> i])]
  IN  dump[root][<<>>]

(* An option made by samconfCreateIntAt and the like is read at its path, as *)
(* it was created or last set, whatever is created, inserted or set elsewhere: no   *)
(* later node gets in front of it and no intermediate node replaces it.      *)
ReadsBack == IsWhole(heap) => \A n \in DOMAIN written : Reads(written[n].path, written[n].option)

(* A walk with samconfConfigNext meets no node twice and, when it ends, has  *)
(* met every node there was when it began, although options are created and  *)
(* set while it goes on: samconfConfigNext keeps nothing between two calls   *)
(* and searches the tree as it is then.                                      *)
WalkIsComplete ==
  [][IsWhole(heap) =>
       /\ WalkNext => walk'.at \notin walk.met
       /\ WalkEnd => walk.known \subseteq walk.met]_vars

(* The nodes samconfDumpConfigTree shows: nothing but containers above them. *)
Shown ==
  {n \in DOMAIN heap \ {Root} : \A m \in DOMAIN heap \ {Root, n} :
     n \in Subtree(heap, m) => heap[m].type \in {"OBJECT", "ARRAY"}}

(* On the way down to a node, whether each branch is the last of its parent. *)
Branches(n) ==
  LET up[m \in DOMAIN heap] ==
        IF m = Root THEN <<>> ELSE Append(up[heap[m].parent], LaterSiblings(heap, m) = {})
  IN  up[n]

(* The dump can be read as the tree: it has a line for every node that is    *)
(* not below an option, each after the nodes a walk meets before it, and the *)
(* bars of a line draw its ancestors, whatever the tree looks like by now.   *)
DumpShowsTree ==
  IsWhole(heap) =>
    LET lines == DumpConfigTree(heap, Root)
    IN  /\ {lines[i].node : i \in DOMAIN lines} = Shown
        /\ \A i \in DOMAIN lines :
             /\ lines[i].bars = Branches(lines[i].node)
             /\ \A j \in 1..(i - 1) : lines[i].node \in Following(heap, lines[j].node)

(* samconfConfigDelete of the root frees every node of the tree once: the    *)
(* child lists of samconfConfigAdd hold each node once.                      *)
DeletesEachNodeOnce == freed # <<>> => IsInjective(freed) /\ ToSet(freed) = DOMAIN heap

(* samconf.h says of samconfInsertAt that a value is copied to a node that   *)
(* exists.  It is not, and creating such an option says OK nevertheless.     *)
CreatedIsThere ==
  [][Inserted /\ creating =>
       Reads(ins.path, [type |-> ins.node.type, value |-> ins.node.value])]_vars
===============================================================================

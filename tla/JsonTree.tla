------------------------------- MODULE JsonTree -------------------------------
(***************************************************************************)
(* samconfJsonBackendLoad: the recursive _transform_json_to_config makes a *)
(* node for every value of a document.  A node is filled before its        *)
(* children are made and linked to its parent when it is complete; when a  *)
(* value fails, its node and all above it are deleted on the way back,     *)
(* down to the children of the top node.                                   *)
(*                                                                         *)
(* A document is a sequence of values in the order of its text; members    *)
(* are the places of the values an object or an array holds.  The stack    *)
(* has a frame for every running call of _transform_json_to_config.        *)
(***************************************************************************)
EXTENDS Memory

CONSTANTS
  IndexKeys,  \* the keys of array elements, in the order of their numbers
  Clamp       \* what json_object_get_int makes of an integer: the nearest 32-bit one

JsonValue == [key : Keys \cup {NoKey}, type : ScalarTypes \cup {"OBJECT", "ARRAY", "NULL"},
              value : Values \cup {NoValue}, members : Seq(Nat)]

(* The values come in the order of their text: after a value its members, one *)
(* after the other, and then what follows it.                                 *)
InTextOrder(doc) ==
  \E end \in [DOMAIN doc -> DOMAIN doc] :  \* the last value in the text of a value
    /\ end[1] = Len(doc)
    /\ \A i \in DOMAIN doc :
         LET members == doc[i].members
         IN  /\ end[i] = IF members = <<>> THEN i ELSE end[Last(members)]
             /\ \A k \in DOMAIN members :
                  /\ members[k] \in DOMAIN doc
                  /\ members[k] = 1 + IF k = 1 THEN i ELSE end[members[k - 1]]

(* What json-c makes of a text. *)
IsDocument(doc) ==
  /\ doc \in Seq(JsonValue) /\ doc # <<>>
  /\ InTextOrder(doc)
  /\ \A i \in DOMAIN doc :
       /\ doc[i].type = "INT" => doc[i].value \in Values
       /\ \A k \in DOMAIN doc[i].members :
            LET member == doc[doc[i].members[k]]
            IN  \/ doc[i].type = "OBJECT" /\ member.key \in Keys
                \/ doc[i].type = "ARRAY" /\ member.key = NoKey /\ k \in DOMAIN IndexKeys

ASSUME JsonAssumption ==
  /\ "config" \in Keys /\ IndexKeys \in Seq(Keys)
  /\ Clamp \in [Values -> Values]

VARIABLES
  document,  \* the document json-c has parsed
  signed,    \* whether the location is signed
  stack,     \* the running calls of _transform_json_to_config
  freed,     \* the nodes samconfConfigDelete has freed, in this order
  json       \* what the innermost call is doing, and the status

jsonVars == <<document, signed, stack, freed, json>>

Frame == [doc : Nat, node : Nat, at : Nat \ {0}]

JsonTypeOK ==
  /\ document \in Seq(JsonValue)
  /\ signed \in BOOLEAN
  /\ stack \in Seq(Frame)
  /\ \A i \in DOMAIN stack : stack[i].doc \in DOMAIN document /\ stack[i].node \in DOMAIN heap
  /\ freed \in Seq(DOMAIN heap)
  /\ json.pc # "IDLE" => \A n \in DOMAIN heap : heap[n].type = "INT" => heap[n].value \in Range(Clamp)
  /\ json \in [pc : {"IDLE", "RUN", "UNWIND", "DONE", "CRASHED"},
               status : {"OK", "ERROR", "PARSE_ERROR"}]

-------------------------------------------------------------------------------
Top == Last(stack)
Caller == stack[Len(stack) - 1]

JsonGoto(pc, status) == json' = [pc |-> pc, status |-> status]

(* Slip: an integer keeps its 64 bits. *)
TransformInt64(node, v) ==
  [node EXCEPT !.isSigned = signed, !.type = v.type, !.value = v.value]

(* The first steps of _transform_json_to_config on a node: the mark, the type *)
(* of a container, the value of a scalar.                                     *)
Transform(node, v) ==
  [node EXCEPT !.isSigned = signed, !.type = v.type,
               !.value = IF v.type = "INT" THEN Clamp[v.value] ELSE v.value]

Call(i, n) == Append(stack, [doc |-> i, node |-> n, at |-> 1])

JsonLoadAs(key) ==
  /\ json.pc = "IDLE"
  /\ heap' = <<Transform([ConfigNew EXCEPT !.key = key], document[1])>>
  /\ stack' = Call(1, Root)
  /\ JsonGoto("RUN", "OK")
  /\ UNCHANGED <<document, signed, freed>>

(* samconfConfigNew and the top node, whose key may be missing. *)
JsonLoad == JsonLoadAs("config") /\ UNCHANGED faults
JsonLoadWithoutKey == Fault /\ JsonLoadAs(NoKey)

(* No node; or no copy of a string that is the whole document. *)
JsonLoadFails ==
  /\ json.pc = "IDLE"
  /\ Fault
  /\ \/ heap' = <<>>
     \/ /\ document[1].type = "STRING"
        /\ heap' = <<[ConfigNew EXCEPT !.key = "config", !.type = "OBJECT", !.isSigned = signed]>>
  /\ JsonGoto("DONE", "ERROR")
  /\ UNCHANGED <<document, signed, stack, freed>>

Running == json.pc = "RUN"

MoreMembers == Running /\ Top.at <= Len(document[Top.doc].members)

NextMember == document[Top.doc].members[Top.at]

(* The node for a member: an element of an array has no key yet. *)
MemberNode(key) == Transform([ConfigNew EXCEPT !.key = key], document[NextMember])

(* samconfConfigNew for the next member, and the call that transforms it. *)
JsonMember ==
  /\ MoreMembers /\ document[NextMember].type # "NULL"
  /\ heap' = Append(heap, MemberNode(document[NextMember].key))
  /\ stack' = Call(NextMember, Len(heap) + 1)
  /\ UNCHANGED <<document, signed, freed, json, faults>>

(* No copy of the key, which nobody looks at. *)
JsonKeyFails ==
  /\ MoreMembers /\ document[NextMember].type # "NULL"
  /\ document[Top.doc].type = "OBJECT"
  /\ Fault
  /\ heap' = Append(heap, MemberNode(NoKey))
  /\ stack' = Call(NextMember, Len(heap) + 1)
  /\ UNCHANGED <<document, signed, freed, json>>

(* No node: the call ends with ERROR. *)
JsonMemberFails ==
  /\ MoreMembers /\ document[NextMember].type # "NULL"
  /\ Fault
  /\ JsonGoto("UNWIND", "ERROR")
  /\ UNCHANGED <<document, signed, stack, freed, heap>>

(* No copy of a string: the node is there, and its call ends with ERROR. *)
JsonStringFails ==
  /\ MoreMembers /\ document[NextMember].type = "STRING"
  /\ Fault
  /\ heap' = Append(heap, [ConfigNew EXCEPT !.key = document[NextMember].key, !.isSigned = signed])
  /\ stack' = Call(NextMember, Len(heap) + 1)
  /\ JsonGoto("UNWIND", "ERROR")
  /\ UNCHANGED <<document, signed, freed>>

(* Slip: a null member is passed over. *)
JsonNullPassed ==
  /\ MoreMembers /\ document[NextMember].type = "NULL"
  /\ stack' = [stack EXCEPT ![Len(stack)].at = @ + 1]
  /\ UNCHANGED <<document, signed, freed, json, heap, faults>>

(* Slip: the loop goes on with the same member (json_backend.c:84 comes before *)
(* the step to the next entry).                                                *)
JsonNullAgain ==
  /\ MoreMembers /\ document[NextMember].type = "NULL"
  /\ UNCHANGED <<document, signed, stack, freed, json, heap, faults>>

(* A null member ends the call. *)
JsonNull ==
  /\ MoreMembers /\ document[NextMember].type = "NULL"
  /\ JsonGoto("UNWIND", "PARSE_ERROR")
  /\ UNCHANGED <<document, signed, stack, freed, heap, faults>>

(* The innermost call returns OK to a caller. *)
Returning == Running /\ ~MoreMembers /\ Len(stack) > 1

Return(from) == [i \in 1..(Len(stack) - 1) |->
                   IF i = Len(stack) - 1 THEN [from EXCEPT !.at = @ + 1] ELSE stack[i]]

WithKey(node, caller) ==
  IF document[caller.doc].type = "ARRAY" THEN [node EXCEPT !.key = IndexKeys[caller.at]] ELSE node

(* Slip: the elements of an array are numbered from one. *)
JsonLinkFromOne ==
  /\ Returning
  /\ LET linked == LinkNode(heap, Caller.node, Top.node)
     IN  heap' = [linked EXCEPT ![Top.node] =
                    IF document[Caller.doc].type = "ARRAY"
                    THEN [@ EXCEPT !.key = IndexKeys[Caller.at + 1]] ELSE @]
  /\ stack' = Return(Caller)
  /\ UNCHANGED <<document, signed, freed, json, faults>>

(* samconfConfigAdd, and the key of an element of an array. *)
JsonLink ==
  /\ Returning
  /\ heap' = [LinkNode(heap, Caller.node, Top.node) EXCEPT ![Top.node] = WithKey(@, Caller)]
  /\ stack' = Return(Caller)
  /\ UNCHANGED <<document, signed, freed, json, faults>>

(* Slip: the node that was not linked is forgotten. *)
JsonLinkFailsLeaks ==
  /\ Returning
  /\ Fault
  /\ heap' = [heap EXCEPT ![Caller.node] = LoseChildren(@)]
  /\ stack' = Front(stack)
  /\ JsonGoto("UNWIND", "ERROR")
  /\ UNCHANGED <<document, signed, freed>>

(* samconfConfigAdd fails: its child is deleted, and the caller has lost the *)
(* children it had.                                                          *)
JsonLinkFails ==
  /\ Returning
  /\ Fault
  /\ heap' = [heap EXCEPT ![Caller.node] = LoseChildren(@)]
  /\ freed' = freed \o ConfigDelete(heap, Top.node)
  /\ stack' = Front(stack)
  /\ JsonGoto("UNWIND", "ERROR")
  /\ UNCHANGED <<document, signed>>

(* No memory for the key of an element, to which its number is printed. *)
JsonIndexCrash ==
  /\ Returning /\ document[Caller.doc].type = "ARRAY"
  /\ Fault
  /\ heap' = LinkNode(heap, Caller.node, Top.node)
  /\ JsonGoto("CRASHED", json.status)
  /\ UNCHANGED <<document, signed, stack, freed>>

(* Slip: the cleanup at json_backend.c:97 is missing. *)
JsonUnwindLeaks ==
  /\ json.pc = "UNWIND" /\ Len(stack) > 1
  /\ stack' = Front(stack)
  /\ UNCHANGED <<document, signed, freed, json, heap, faults>>

(* A call that failed has returned: the caller deletes the node it made for  *)
(* it and fails with the same status.                                        *)
JsonUnwind ==
  /\ json.pc = "UNWIND" /\ Len(stack) > 1
  /\ \A n \in Subtree(heap, Top.node) : ~heap[n].lost
  /\ freed' = freed \o ConfigDelete(heap, Top.node)
  /\ stack' = Front(stack)
  /\ UNCHANGED <<document, signed, json, heap, faults>>

(* samconfConfigDelete reads the children a node has lost. *)
JsonUnwindCrash ==
  /\ json.pc = "UNWIND" /\ Len(stack) > 1
  /\ \E n \in Subtree(heap, Top.node) : heap[n].lost
  /\ JsonGoto("CRASHED", json.status)
  /\ UNCHANGED <<document, signed, stack, freed, heap, faults>>

(* The outermost call returns. *)
JsonEnd ==
  /\ \/ Running /\ ~MoreMembers
     \/ json.pc = "UNWIND"
  /\ Len(stack) = 1
  /\ stack' = <<>>
  /\ JsonGoto("DONE", json.status)
  /\ UNCHANGED <<document, signed, freed, heap, faults>>

JsonNext ==
  \/ JsonMember \/ JsonKeyFails \/ JsonMemberFails \/ JsonStringFails \/ JsonNull
  \/ JsonLink \/ JsonLinkFails \/ JsonIndexCrash
  \/ JsonUnwind \/ JsonUnwindCrash \/ JsonEnd

-------------------------------------------------------------------------------
(* Slip: arrays are dumped as objects. *)
DumpJsonArraysAsObjects(tree, n) ==
  LET dump[m \in DOMAIN tree] ==
        [type |-> IF tree[m].type = "ARRAY" THEN "OBJECT" ELSE tree[m].type, value |-> tree[m].value,
         members |-> [i \in DOMAIN tree[m].children |->
                        <<tree[tree[m].children[i]].key, dump[tree[m].children[i]]>>]]
  IN  dump[n]

(* samconfDumpJsonConfig, as a nested value: the members of an object have a  *)
(* key, those of an array have none.  A node without a type becomes null.    *)
DumpJson(tree, n) ==
  LET dump[m \in DOMAIN tree] ==
        [type |-> IF tree[m].type = "NONE" THEN "NULL" ELSE tree[m].type, value |-> tree[m].value,
         members |-> [i \in DOMAIN tree[m].children |->
                        LET c == tree[m].children[i]
                        IN  <<IF tree[m].type = "OBJECT" THEN tree[c].key ELSE NoKey, dump[c]>>]]
  IN  dump[n]

(* Reference definitions. *)

(* A document as such a nested value, with its integers in 32 bits. *)
Nested(doc) ==
  LET value[i \in DOMAIN doc] ==
        [type |-> doc[i].type,
         value |-> IF doc[i].type = "INT" THEN Clamp[doc[i].value] ELSE doc[i].value,
         members |-> [k \in DOMAIN doc[i].members |->
                        <<doc[doc[i].members[k]].key, value[doc[i].members[k]]>>]]
  IN  value[1]

HasNull(doc) == \E i \in DOMAIN doc : doc[i].type = "NULL"
===============================================================================

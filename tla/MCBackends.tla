------------------------------ MODULE MCBackends -------------------------------
(* All small documents and environments, for model-checking Backends. *)
EXTENDS Backends

CONSTANT MaxValues  \* bound on the values of a document

(* The values of a document by their types and parents; values come in the   *)
(* order of the text, so the parent of a value is the one before or above it. *)
Above(parent, i) ==
  LET up[j \in 1..i] == IF j = 1 THEN {1} ELSE {j} \cup up[parent[j]]
  IN  up[i]

Types == {"OBJECT", "ARRAY", "INT", "STRING", "NULL"}
MemberKeys == <<"a", "b", "c", "d">>

Document(types, parent) ==
  LET Members(i) == SetToSortSeq({j \in DOMAIN parent : parent[j] = i}, <)
      Place(i)   == SelectInSeq(Members(parent[i]), LAMBDA j : j = i)
  IN  [i \in DOMAIN types |->
         [key |-> IF i # 1 /\ types[parent[i]] = "OBJECT" THEN MemberKeys[Place(i)] ELSE NoKey,
          type |-> types[i],
          value |-> CASE types[i] = "INT" -> "big" [] types[i] = "STRING" -> "s" [] OTHER -> NoValue,
          members |-> Members(i)]]

Documents(n) ==
  {Document(tp[1], tp[2]) : tp \in
     {tp \in [1..n -> Types] \X [2..n -> 1..n] :
        /\ tp[1][1] # "NULL"
        /\ \A i \in 2..n : /\ tp[2][i] < i
                           /\ tp[2][i] \in Above(tp[2], i - 1)
                           /\ tp[1][tp[2][i]] \in {"OBJECT", "ARRAY"}}}

MCJsonFiles == UNION {Documents(n) : n \in 1..MaxValues} \cup {NoFile, BadFile}
MCIndexKeys == <<"0", "1", "2", "3", "4">>
MCClamp == [v \in Values |-> IF v = "big" THEN "max" ELSE v]

(* A, A_B, _A, B, __ and _: two have the same path, one is below them, one   *)
(* has no segments, one has a single character.                              *)
Variables ==
  {[name |-> <<"A">>,      option |-> [type |-> "INT", value |-> "big"]],
   [name |-> <<"A", "B">>, option |-> [type |-> "STRING", value |-> "s"]],
   [name |-> <<"", "A">>,  option |-> [type |-> "STRING", value |-> "s"]],
   [name |-> <<"B">>,      option |-> [type |-> "BOOLEAN", value |-> "s"]],
   [name |-> <<"", "", "">>, option |-> [type |-> "INT", value |-> "max"]],
   [name |-> <<"", "">>,   option |-> [type |-> "REAL", value |-> "max"]]}

MCNames == {v.name : v \in Variables}
MCContaining == [f \in {"A", "_"} |-> IF f = "A" THEN {<<"A">>, <<"A", "B">>, <<"", "A">>}
                                      ELSE MCNames \ {<<"A">>, <<"B">>}]

Environs == UNION {{e \in [1..k -> Variables] : IsInjective(e)} : k \in 0..3}
Param(value) == [name |-> "envPrefix", value |-> value]
Other == [name |-> "other", value |-> NoText]

MCEnvLocations ==
  [scheme : {"env"}, query : {<<Param("A"), Other>>, <<Other, Param("_"), Param("A")>>}, environ : Environs]
    \cup [scheme : {"env", "other"}, query : {<<>>, <<Param("A")>>, <<Other, Other>>, <<Param(NoText), Other>>},
          environ : {<<>>}]

MCSlashed == [k \in {} |-> <<>>]
===============================================================================

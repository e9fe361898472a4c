------------------------------ MODULE MCTreeApi -------------------------------
(* Small configurations for model-checking TreeApi. *)
EXTENDS TreeApi

(* One and two levels, an option below another one, no segment at all. *)
MCPaths == {<<>>, <<"a">>, <<"b">>, <<"a", "b">>}
MCSlashed == [k \in {} |-> <<>>]

(* An integer that does not fit into 32 bits, and a string. *)
MCOptions == {[type |-> "INT", value |-> "v1"], [type |-> "STRING", value |-> "v2"]}
MCCut == [v \in Values |-> "v2"]
===============================================================================

------------------------------- MODULE MCMerge --------------------------------
(* Small configurations for model-checking Merge. *)
EXTENDS MergeStore

(* A tree from its nodes, each given as <<key, parent, type, value>>. *)
Tree(signed, nodes) ==
  [n \in DOMAIN nodes |->
     [key |-> nodes[n][1], parent |-> nodes[n][2],
      children |-> SetToSortSeq({c \in DOMAIN nodes : nodes[c][2] = n}, <),
      type |-> nodes[n][3], value |-> nodes[n][4], isSigned |-> signed, lost |-> FALSE]]

Json(signed, nodes) ==
  Tree(signed, <<<<"config", NULL, "OBJECT", NoValue>>, <<"root", 1, "OBJECT", NoValue>>>> \o nodes)

(* One and two options under root, an option that is an object elsewhere,   *)
(* an environment tree (its top node is "root" and an option has a child).  *)
SignedFlat == Json(TRUE, <<<<"a", 2, "INT", "v1">>, <<"b", 2, "STRING", "v1">>>>)
SignedDeep == Json(TRUE, <<<<"b", 2, "OBJECT", NoValue>>, <<"a", 3, "INT", "v1">>>>)
UnsignedFlat == Json(FALSE, <<<<"a", 2, "STRING", "v2">>, <<"b", 2, "BOOLEAN", "v2">>>>)
UnsignedDeep == Json(FALSE, <<<<"a", 2, "ARRAY", NoValue>>, <<"b", 3, "STRING", "v2">>, <<"a", 3, "INT", "v1">>>>)
Env == Tree(FALSE, <<<<"root", NULL, "OBJECT", NoValue>>, <<"a", 1, "INT", "v1">>, <<"b", 2, "REAL", "v2">>>>)

(* A JSON file without a top-level "root", and one with a '/' in a key. *)
Rootless == Tree(FALSE, <<<<"config", NULL, "OBJECT", NoValue>>, <<"a", 1, "INT", "v1">>>>)
SlashedKey == Json(FALSE, <<<<"a/b", 2, "INT", "v2">>>>)

MCSources == {SignedFlat, SignedDeep, UnsignedFlat, UnsignedDeep, Env}

(* The sources of the run that compares Merge with OptionStore are in its scope. *)
ASSUME ProperSources == \A src \in MCSources : ProperPaths(src)

(* What a failed allocation leaves behind of a string, and of a key. *)
Stringless == Json(TRUE, <<<<"a", 2, "INT", "v1">>, <<"b", 2, "STRING", NoValue>>>>)
Keyless == Tree(FALSE, <<<<NoKey, NULL, "OBJECT", NoValue>>, <<"root", 1, "OBJECT", NoValue>>,
                         <<NoKey, 2, "INT", "v1">>>>)

MCAllSources ==
  {SignedFlat, UnsignedFlat, UnsignedDeep, Env, Rootless, SlashedKey, Stringless, Keyless}
MCSlashed == [k \in {"a/b"} |-> <<"a", "b">>]
===============================================================================

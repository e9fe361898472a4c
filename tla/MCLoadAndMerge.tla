---------------------------- MODULE MCLoadAndMerge -----------------------------
(* A directory of two files and one file beside it, for model-checking       *)
(* LoadAndMerge with every small disk.                                       *)
EXTENDS LoadAndMerge

JsonFile(signature, content) ==
  [signature |-> signature, supports |-> {"JSON"}, readable |-> content # "ABSENT",
   content |-> content, shape |-> "WHOLE"]

(* A file that cannot be merged, and one no backend claims, such as the      *)
(* signature files of a directory.                                           *)
Rootless(signature) == [JsonFile(signature, "GOOD") EXCEPT !.shape = "ROOTLESS"]
OtherFile == [JsonFile("NONE", "GOOD") EXCEPT !.supports = {}]

(* An environment location is no file, but a signature may lie beside it. *)
EnvLocation(signature, content) ==
  [JsonFile(signature, content) EXCEPT !.supports = {"ENV"}, !.readable = FALSE]

MCDirectories == [d \in {9} |-> {1, 2}]

MCKinds ==
  {JsonFile("NONE", "GOOD"), JsonFile("VALID", "GOOD"), JsonFile("INVALID", "GOOD"),
   JsonFile("NONE", "PARTIAL"), JsonFile("VALID", "BROKEN"), JsonFile("VALID", "ABSENT"),
   EnvLocation("INVALID", "GOOD"), EnvLocation("NONE", "PARTIAL"),
   [EnvLocation("NONE", "ABSENT") EXCEPT !.supports = {"ENV", "JSON"}],
   Rootless("VALID"), OtherFile}

(* Fewer of them where failures are added. *)
MCFewKinds ==
  {JsonFile("NONE", "GOOD"), JsonFile("VALID", "GOOD"), JsonFile("INVALID", "GOOD"),
   JsonFile("NONE", "PARTIAL"), EnvLocation("INVALID", "GOOD"), Rootless("NONE")}

(* The configurations of the caller, again fewer where failures are added. *)
MCFewConfigs ==
  {[signed |-> FALSE, shape |-> "ROOTLESS"], [signed |-> TRUE, shape |-> "STRINGLESS"]}
MCConfigs ==
  MCFewConfigs \cup {[signed |-> TRUE, shape |-> "WHOLE"], [signed |-> FALSE, shape |-> "WHOLE"]}
===============================================================================

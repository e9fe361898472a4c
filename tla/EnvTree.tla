------------------------------- MODULE EnvTree --------------------------------
(***************************************************************************)
(* samconfEnvBackendLoad: the variables of the environment that contain    *)
(* the filter of the location become options of a new tree, one after the  *)
(* other in the order of environ, each by a call of samconfCreateAt.       *)
(*                                                                         *)
(* A name is the sequence of its parts between the '_' characters, some of *)
(* which may be empty.  A query is the sequence of its parameters, those   *)
(* between the '&' characters.                                             *)
(***************************************************************************)
EXTENDS TreeInsert

CONSTANTS
  Names,      \* the names of variables
  Containing  \* for each filter the names it occurs in, at any place

Empty == ""
Underscore == "_"
NotGiven == "<not given>"  \* samconfUriGetParameter finds no value
NoText == "<no text>"      \* the parameter has no '=' behind its name

Variable == [name : Names, option : Option]
Parameter == [name : {"envPrefix", "other"}, value : DOMAIN Containing \cup {NoText}]

ASSUME EnvAssumption ==
  /\ Names \subseteq Seq(Keys \cup {Empty}) \ {<<>>}
  /\ Empty \notin Keys /\ Underscore \in Keys
  /\ \A filter \in DOMAIN Containing : Containing[filter] \subseteq Names
  /\ {NotGiven, NoText} \cap DOMAIN Containing = {}

VARIABLES
  environ,  \* the environment of the process
  query,    \* the query of the location
  env       \* the locals of _transform_env_to_config

envVars == <<environ, query, env>>

NoEnv == [pc |-> "IDLE", filter |-> NotGiven, at |-> 1, status |-> "OK"]

EnvTypeOK ==
  /\ environ \in Seq(Variable)
  /\ query \in Seq(Parameter)
  /\ env \in [pc : {"IDLE", "FILTER", "LOOP", "CREATE", "DONE", "CRASHED"},
              filter : DOMAIN Containing \cup {NotGiven}, at : Nat \ {0},
              status : {"OK", "ERROR"}]

-------------------------------------------------------------------------------
(* The segments of a path that a part of a name becomes: none if it is empty. *)
Segment == [s \in Keys \cup {Empty} |-> IF s = Empty THEN <<>> ELSE <<s>>]

(* '_' becomes the separator of a path, and empty segments are dropped when  *)
(* it is split.  A name of one character is left as it is.                   *)
EnvPath(name) ==
  IF name = <<Empty, Empty>> THEN <<Underscore>>
  ELSE FoldLeft(LAMBDA path, s : path \o Segment[s], <<>>, name)

(* samconfUriGetParameter: the first parameter of that name, provided that   *)
(* there are at least two parameters.                                        *)
UriGetParameter(name) ==
  LET i == SelectInSeq(query, LAMBDA p : p.name = name)
  IN  IF Len(query) < 2 \/ i = 0 THEN NotGiven ELSE query[i].value

EnvGoto(pc, status) == env' = [env EXCEPT !.pc = pc, !.status = status]

(* The next variable, after a status for this one. *)
NextVariable(status) == env' = [env EXCEPT !.pc = "LOOP", !.at = @ + 1, !.status = status]

(* samconfConfigNew and the root.  Only the root is marked as signed. *)
EnvLoad(isSigned) ==
  /\ env.pc = "IDLE"
  /\ heap' = <<[ConfigNew EXCEPT !.key = RootKey, !.type = "OBJECT", !.isSigned = isSigned]>>
  /\ EnvGoto("FILTER", "OK")
  /\ UNCHANGED <<ins, faults>>

(* No node, or no copy of the key of the root. *)
EnvLoadFails ==
  /\ env.pc = "IDLE"
  /\ Fault
  /\ heap' \in {<<>>, <<[ConfigNew EXCEPT !.type = "OBJECT"]>>}
  /\ EnvGoto("DONE", "ERROR")
  /\ UNCHANGED ins

EnvFilter ==
  /\ env.pc = "FILTER"
  /\ LET filter == UriGetParameter("envPrefix")
     IN  env' = CASE filter = NotGiven -> [env EXCEPT !.pc = "DONE", !.status = "ERROR"]
                  [] filter = NoText   -> [env EXCEPT !.pc = "CRASHED"]  \* strdup of null
                  [] OTHER             -> [env EXCEPT !.pc = "LOOP", !.filter = filter]
  /\ UNCHANGED insertVars

(* No copy of the query or of the parameter: ERROR.  No copy of the value:    *)
(* there is no filter, but the status is the OK of samconfUriGetParameter.    *)
EnvFilterFails ==
  /\ env.pc = "FILTER"
  /\ Fault
  /\ \/ EnvGoto("DONE", "ERROR")
     \/ UriGetParameter("envPrefix") \in DOMAIN Containing /\ EnvGoto("DONE", "OK")
  /\ UNCHANGED <<heap, ins>>

(* Slip: the last variable is not looked at. *)
EnvAtEndEarly == env.at >= Len(environ)

EnvAtEnd == env.at > Len(environ)

(* In the loop, at a variable that contains the filter or does not. *)
EnvAt(contains) ==
  /\ env.pc = "LOOP" /\ ~EnvAtEnd
  /\ (environ[env.at].name \in Containing[env.filter]) = contains

EnvPass ==
  /\ EnvAt(FALSE)
  /\ NextVariable(env.status)
  /\ UNCHANGED insertVars

(* A variable that cannot be copied is passed over as well. *)
EnvCopyFails ==
  /\ env.pc = "LOOP" /\ ~EnvAtEnd
  /\ Fault
  /\ NextVariable(env.status)
  /\ UNCHANGED <<heap, ins>>

(* samconfCreateAt, that is samconfCreateFromStringAt, up to samconfInsertAt. *)
EnvCreate ==
  /\ EnvAt(TRUE)
  /\ LET path == EnvPath(environ[env.at].name)
     IN  InsertCall(path, NewOption(path, environ[env.at].option))
  /\ EnvGoto("CREATE", env.status)
  /\ UNCHANGED <<heap, faults>>

(* samconfConfigSetValueFromString has no memory for a string, and says OK. *)
EnvCreateWithoutString ==
  /\ EnvAt(TRUE) /\ environ[env.at].option.type = "STRING"
  /\ Fault
  /\ LET path == EnvPath(environ[env.at].name)
     IN  InsertCall(path, [NewOption(path, environ[env.at].option) EXCEPT !.value = NoValue])
  /\ EnvGoto("CREATE", env.status)
  /\ UNCHANGED heap

(* No node: the loop ends with ERROR.  No copy of the path or of the key: the *)
(* status is OK and the loop goes on.  No memory for the key with "root" in   *)
(* front: the loop ends with the status of the variable before.               *)
EnvCreateFails ==
  /\ EnvAt(TRUE)
  /\ Fault
  /\ \/ EnvGoto("DONE", "ERROR")
     \/ NextVariable("OK")
     \/ EnvGoto("DONE", env.status)
  /\ UNCHANGED <<heap, ins>>

EnvInserting ==
  /\ env.pc = "CREATE"
  /\ InsertNext
  /\ UNCHANGED env

(* Created, or the path was there and the variable is dropped. *)
EnvCreated ==
  /\ env.pc = "CREATE"
  /\ InsertReturn("OK")
  /\ NextVariable("OK")
  /\ UNCHANGED <<heap, faults>>

(* Slip: a variable that is no option is passed over. *)
EnvPassesUnnamable ==
  /\ env.pc = "CREATE"
  /\ InsertReturn("ERROR")
  /\ NextVariable("OK")
  /\ UNCHANGED <<heap, faults>>

(* A failure, or a name without segments. *)
EnvNotCreated ==
  /\ env.pc = "CREATE"
  /\ InsertReturn("ERROR")
  /\ EnvGoto("DONE", "ERROR")
  /\ UNCHANGED <<heap, faults>>

EnvEnd ==
  /\ env.pc = "LOOP" /\ EnvAtEnd
  /\ EnvGoto("DONE", env.status)
  /\ UNCHANGED insertVars

EnvNext ==
  \/ EnvFilter \/ EnvFilterFails
  \/ EnvPass \/ EnvCopyFails \/ EnvCreate \/ EnvCreateWithoutString \/ EnvCreateFails
  \/ EnvInserting \/ EnvCreated \/ EnvNotCreated \/ EnvEnd

-------------------------------------------------------------------------------
(* Reference definitions: what an environment means as a configuration. *)

(* The variables that contain the filter, by their place in environ. *)
Chosen(filter) == {i \in DOMAIN environ : environ[i].name \in Containing[filter]}

PathOf(i) == EnvPath(environ[i].name)

(* A variable is an option unless an earlier one has its path or one below it. *)
Wins(filter, i) == \A j \in Chosen(filter) : j < i => ~IsPrefix(PathOf(i), PathOf(j))

EnvOptions(filter) == {<<PathOf(i), environ[i].option>> : i \in {c \in Chosen(filter) : Wins(filter, c)}}

(* Every path of a variable exists, with all that is above it. *)
EnvPaths(filter) == UNION {{SubSeq(PathOf(i), 1, k) : k \in DOMAIN PathOf(i)} : i \in Chosen(filter)}
===============================================================================

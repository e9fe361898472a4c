------------------------------- MODULE Backends -------------------------------
(***************************************************************************)
(* The part of samconfLoad in which a backend works: a location is opened, *)
(* loaded, closed, and the backend deleted, with what the JSON and the     *)
(* environment backend do inside.  This module composes EnvTree and        *)
(* JsonTree and implements the steps of ConfigLoad that stand for them.    *)
(***************************************************************************)
EXTENDS EnvTree, JsonTree, FiniteSets

CONSTANTS
  JsonFiles,    \* what may be at a JSON location: a document or one of the next two
  EnvLocations, \* what an environment location may say, with the environment
  NoFile,       \* there is nothing
  BadFile       \* json-c cannot parse it, or it holds nothing but null

ASSUME LocationAssumption ==
  /\ NoFile # BadFile
  /\ \A doc \in JsonFiles \ {NoFile, BadFile} : IsDocument(doc) /\ doc[1].type # "NULL"
  /\ EnvLocations \subseteq [scheme : {"env", "other"}, query : Seq(Parameter), environ : Seq(Variable)]

VARIABLES
  at,      \* the backend and the location it is to load
  stage,   \* the step of samconfLoad
  status,  \* its local variable
  live,    \* what it has allocated and not freed
  crashed, \* the process is gone
  spoilt   \* history: the stages that did not end as the location would have it

backendVars == <<at, stage, status, live, crashed, spoilt>>
vars == <<insertVars, envVars, jsonVars, backendVars>>

Locations ==
  [backend : {"JSON"}, file : JsonFiles] \cup [backend : {"ENV"}, location : EnvLocations]

TypeOK ==
  /\ heap \in Seq(Node)
  /\ ins \in Insert
  /\ faults \in 0..MaxFaults
  /\ EnvTypeOK /\ JsonTypeOK
  /\ at \in Locations
  /\ stage \in {"OPEN", "LOAD", "CLOSE", "DELETE", "DONE"}
  /\ status \in {"OK", "ERROR", "NOT_FOUND", "PARSE_ERROR"}
  /\ live \subseteq {"backend", "handle", "tree"}
  /\ crashed \in BOOLEAN
  /\ spoilt \subseteq {"OPEN", "LOAD", "CLOSE"}

Init ==
  /\ at \in Locations
  /\ signed \in BOOLEAN
  /\ heap = <<>> /\ ins = NoInsert /\ faults = MaxFaults
  /\ env = NoEnv /\ query = <<>>
  /\ environ = IF at.backend = "ENV" THEN at.location.environ ELSE <<>>
  /\ json = [pc |-> "IDLE", status |-> "OK"]
  /\ document = <<>> /\ stack = <<>> /\ freed = <<>>
  /\ stage = "OPEN" /\ status = "OK" /\ live = {"backend"}
  /\ crashed = FALSE
  /\ spoilt = {}

-------------------------------------------------------------------------------
Stage(s) == ~crashed /\ stage = s

Unchanged == UNCHANGED <<insertVars, envVars, jsonVars, at>>

OpenWith(res) ==
  /\ status' = res
  /\ stage' = IF res = "OK" THEN "LOAD" ELSE "DELETE"
  /\ live' = IF res = "OK" THEN live \cup {"handle"} ELSE live

(* samconfJsonBackendOpen *)
OpenJson ==
  /\ Stage("OPEN") /\ at.backend = "JSON"
  /\ IF at.file \in {NoFile, BadFile}
     THEN /\ OpenWith(IF at.file = NoFile THEN "NOT_FOUND" ELSE "ERROR")
          /\ UNCHANGED document
     ELSE OpenWith("OK") /\ document' = at.file
  /\ UNCHANGED <<insertVars, envVars, signed, stack, freed, json, at, crashed, spoilt>>

(* samconfEnvBackendOpen *)
OpenEnv ==
  /\ Stage("OPEN") /\ at.backend = "ENV"
  /\ IF at.location.scheme = "env"
     THEN OpenWith("OK") /\ query' = at.location.query
     ELSE OpenWith("ERROR") /\ UNCHANGED query
  /\ UNCHANGED <<insertVars, environ, env, jsonVars, at, crashed, spoilt>>

(* samconfUriNew has no copy of the query, and says OK. *)
OpenEnvWithoutQuery ==
  /\ Stage("OPEN") /\ at.backend = "ENV" /\ at.location.scheme = "env"
  /\ Fault
  /\ OpenWith("OK")
  /\ query' = <<>>
  /\ UNCHANGED <<heap, ins, environ, env, jsonVars, at, crashed, spoilt>>

(* samconfUriNew has no copy of the scheme, and samconfEnvBackendOpen compares it. *)
OpenEnvCrash ==
  /\ Stage("OPEN") /\ at.backend = "ENV"
  /\ Fault
  /\ crashed' = TRUE
  /\ UNCHANGED <<heap, ins, envVars, jsonVars, at, stage, status, live, spoilt>>

OpenFails ==
  /\ Stage("OPEN")
  /\ Fault
  /\ OpenWith("ERROR")
  /\ spoilt' = spoilt \cup {"OPEN"}
  /\ UNCHANGED <<heap, ins, envVars, jsonVars, at, crashed>>

(* samconfEnvBackendLoad, step by step. *)
LoadEnv ==
  /\ Stage("LOAD") /\ at.backend = "ENV"
  /\ EnvLoad(signed) \/ EnvLoadFails \/ EnvNext
  /\ crashed' = (env'.pc = "CRASHED" \/ ins'.status = "CRASHED")
  /\ UNCHANGED <<environ, query, jsonVars, at, stage, status, live, spoilt>>

(* samconfJsonBackendLoad, step by step. *)
LoadJson ==
  /\ Stage("LOAD") /\ at.backend = "JSON"
  /\ JsonLoad \/ JsonLoadWithoutKey \/ JsonLoadFails \/ JsonNext
  /\ crashed' = (json'.pc = "CRASHED")
  /\ UNCHANGED <<ins, envVars, at, stage, status, live, spoilt>>

(* What the status of a location should be, and what is there for it. *)
Content ==
  IF at.backend = "JSON"
  THEN CASE at.file = NoFile     -> "ABSENT"
         [] at.file = BadFile    -> "BROKEN"
         [] OTHER                -> IF HasNull(at.file) THEN "PARTIAL" ELSE "GOOD"
  ELSE CASE at.location.scheme # "env" -> "BROKEN"
         [] OTHER ->
              LET params == at.location.query
                  i == SelectInSeq(params, LAMBDA p : p.name = "envPrefix")
                  usable == Len(params) > 1 /\ i # 0 /\ params[i].value \in DOMAIN Containing
              IN  IF usable /\ \A c \in Chosen(params[i].value) : PathOf(c) # <<>>
                  THEN "GOOD" ELSE "PARTIAL"

Expected ==
  IF Content = "GOOD" THEN "OK" ELSE IF at.backend = "JSON" THEN "PARSE_ERROR" ELSE "ERROR"

(* The load function of the backend returns. *)
Loaded ==
  /\ Stage("LOAD")
  /\ \E res \in {env.status, json.status} :
       /\ \/ env.pc = "DONE" /\ res = env.status
          \/ json.pc = "DONE" /\ res = json.status
       /\ status' = res
       /\ spoilt' = IF res = Expected /\ heap # <<>> THEN spoilt ELSE spoilt \cup {"LOAD"}
  /\ stage' = "CLOSE"
  /\ live' = IF heap = <<>> THEN live ELSE live \cup {"tree"}
  /\ Unchanged /\ UNCHANGED crashed

Close ==
  /\ Stage("CLOSE")
  /\ stage' = "DELETE"
  /\ live' = live \ {"handle"}
  /\ Unchanged /\ UNCHANGED <<status, crashed, spoilt>>

(* json_object_put finds another reference to the document. *)
CloseFails ==
  /\ Stage("CLOSE") /\ at.backend = "JSON"
  /\ Fault
  /\ stage' = "DELETE"
  /\ status' = "ERROR"
  /\ spoilt' = spoilt \cup {"CLOSE"}
  /\ UNCHANGED <<heap, ins, envVars, jsonVars, at, live, crashed>>

(* samconfLoad deletes the backend, and a tree that was not loaded well. *)
Delete ==
  /\ Stage("DELETE")
  /\ status = "OK" \/ IsWhole(heap)
  /\ stage' = "DONE"
  /\ live' = IF status = "OK" THEN live \ {"backend"} ELSE live \ {"backend", "tree"}
  /\ freed' = IF status = "OK" \/ heap = <<>> THEN freed
              ELSE freed \o ConfigDelete(heap, Root)
  /\ UNCHANGED <<insertVars, envVars, document, signed, stack, json, at, status, crashed, spoilt>>

(* samconfConfigDelete reads the children a node has lost. *)
DeleteCrash ==
  /\ Stage("DELETE")
  /\ status # "OK" /\ ~IsWhole(heap)
  /\ crashed' = TRUE
  /\ Unchanged /\ UNCHANGED <<stage, status, live, spoilt>>

Next ==
  \/ OpenJson \/ OpenEnv \/ OpenEnvWithoutQuery \/ OpenEnvCrash \/ OpenFails
  \/ LoadEnv \/ LoadJson \/ Loaded
  \/ Close \/ CloseFails \/ Delete \/ DeleteCrash

Spec == Init /\ [][Next]_vars

(* The backend runs in the thread of its caller, which goes on running. *)
FairSpec == Spec /\ WF_vars(Next)

-------------------------------------------------------------------------------
Ended(b) == at.backend = b /\ IF b = "JSON" THEN json.pc = "DONE" ELSE env.pc = "DONE"

LoadedWell(b) == Ended(b) /\ (IF b = "JSON" THEN json.status ELSE env.status) = "OK"

NothingFailed == faults = MaxFaults

(* What a backend returns with OK is a tree with all its links, whatever     *)
(* failed on the way: the assumption under which trees are merged            *)
(* (SourcesAssumption of Merge).                                             *)
LoadedIsTree ==
  \A b \in {"JSON", "ENV"} : LoadedWell(b) => heap # <<>> /\ IsWhole(heap) /\ IsTree(heap)

(* The key a value of the document has as a node: that of a member of an     *)
(* object, or its number in an array.                                        *)
KeyOf(i) ==
  LET up == CHOOSE u \in DOMAIN document : \E k \in DOMAIN document[u].members : document[u].members[k] = i
      k  == CHOOSE j \in DOMAIN document[up].members : document[up].members[j] = i
  IN  IF i = 1 THEN "config" ELSE IF document[up].type = "ARRAY" THEN IndexKeys[k] ELSE document[i].key

(* When samconfJsonBackendLoad says OK the tree is the document, member by   *)
(* member, every node marked as the location is (ADR source_verification);   *)
(* a failed allocation can cost a key, but never a node, a value or a mark   *)
(* (json_backend.c:94 looks at no result of strdup).                         *)
JsonOKIsWhole ==
  LoadedWell("JSON") =>
    /\ DOMAIN heap = DOMAIN document
    /\ \A i \in DOMAIN heap :
         /\ <<heap[i].type, heap[i].children>> = <<document[i].type, document[i].members>>
         /\ heap[i].value = IF heap[i].type = "INT" THEN Clamp[document[i].value] ELSE document[i].value
         /\ heap[i].isSigned = signed
         /\ heap[i].key = KeyOf(i) \/ (heap[i].key = NoKey /\ ~NothingFailed)

(* A document that was loaded is dumped as it was, but for the integers that *)
(* do not fit into 32 bits (samconfDumpJsonConfig after a load).             *)
DumpReadsBack ==
  LoadedWell("JSON") /\ NothingFailed => DumpJson(heap, Root) = Nested(document)

(* The order of environ decides: a variable becomes an option unless one     *)
(* before it has the same path or one below it, and nothing else does.  This *)
(* is all the order decides.                                                 *)
FirstVariableWins ==
  LoadedWell("ENV") /\ NothingFailed =>
    /\ {<<FullPath(heap, n), [type |-> heap[n].type, value |-> heap[n].value]>> :
          n \in {m \in DOMAIN heap : heap[m].type \in ScalarTypes}} = EnvOptions(env.filter)
    /\ {FullPath(heap, n) : n \in DOMAIN heap \ {Root}} = EnvPaths(env.filter)

Deleted == stage = "DONE" /\ status # "OK"

(* The nodes that are linked, or held by a running transformation. *)
Held ==
  UNION {Subtree(heap, n) : n \in (IF heap = <<>> \/ Deleted THEN {} ELSE {Root})
                                     \cup {stack[i].node : i \in DOMAIN stack}}

(* Every node a backend has made is in the tree, held by a running call, or  *)
(* was freed, once: the cleanup on all error paths of                        *)
(* _transform_json_to_config and of samconfLoad frees neither too little nor *)
(* a node twice, until a child list is lost.                                 *)
NodesAreOwned ==
  IsWhole(heap) /\ ~crashed =>
    /\ IsInjective(freed)
    /\ Held \cap ToSet(freed) = {}
    /\ Held \cup ToSet(freed) = DOMAIN heap

(* A stage that did not end as the location would have it cost a failed      *)
(* allocation or call of its own: no document and no environment is refused  *)
(* or accepted by chance.                                                    *)
OnlyFailuresSpoil == Cardinality(spoilt) <= MaxFaults - faults

(* The load of a location ends, with the recursion over a document and the   *)
(* loop over environ, or the process crashes.                                *)
LoadEnds == <>(stage = "DONE" \/ crashed)

-------------------------------------------------------------------------------
(* A document with a top-level member that is not "root"; array elements have *)
(* no keys in the text.                                                       *)
IsRootless ==
  /\ at.backend = "JSON" /\ at.file \notin {NoFile, BadFile}
  /\ \E k \in DOMAIN at.file[1].members : at.file[at.file[1].members[k]].key # RootKey

(* The refinement mapping to ConfigLoad, for the one location there is.  Its  *)
(* signature was looked at before.                                            *)
Kind == [signature |-> IF signed THEN "VALID" ELSE "NONE", supports |-> {at.backend},
         readable |-> at.backend = "JSON" /\ at.file # NoFile,
         content |-> Content, shape |-> IF IsRootless THEN "ROOTLESS" ELSE "WHOLE"]

LoadLocals ==
  [pc |-> stage, file |-> 1, enforce |-> FALSE, isSigned |-> signed,
   dataRead |-> signed /\ Kind.readable, backend |-> at.backend, status |-> status]

Load == INSTANCE ConfigLoad
          WITH Files <- {1}, Kinds <- {}, Enabled <- {"JSON", "ENV"},
               disk <- [f \in {1} |-> Kind], load <- LoadLocals, faults <- MaxFaults - Cardinality(spoilt)

(* Seen from samconfLoad a backend does what ConfigLoad says: the outcome of *)
(* opening and loading follows from what the location holds, or else         *)
(* something failed.                                                         *)
ImplementsConfigLoad == [][Load!LoadNext]_(Load!loadVars)
===============================================================================

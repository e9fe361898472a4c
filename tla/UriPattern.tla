------------------------------ MODULE UriPattern ------------------------------
(***************************************************************************)
(* samconfUriNew in several threads.  The pattern that splits a uri is a   *)
(* static variable, compiled by the first call that finds the static       *)
(* pointer to it null; there is no lock.  Compiling and matching take      *)
(* time: each has a step in which it begins and one in which it ends, and  *)
(* what overlaps in between clashes.  The outcome of a clash is undefined  *)
(* in the code and a free choice here.                                     *)
(***************************************************************************)
EXTENDS Naturals

CONSTANTS
  Threads,   \* the threads that call samconfUriNew, to open or verify a location
  MaxCalls,  \* bound on the calls of a thread
  MaxFaults  \* bound on the failed allocations of a behaviour

ASSUME UriAssumption == MaxCalls \in Nat /\ MaxFaults \in Nat

VARIABLES
  pregParse,     \* the static pattern
  pregParsePtr,  \* whether the static pointer to it is set
  pc,            \* what each thread is about to do or doing
  calls,         \* the calls each thread has begun
  status,        \* what the last call of each thread returned
  clash,         \* the threads whose compiling or matching overlaps with a compiling
  crashed,       \* the process is gone
  faults,        \* the allocations that may still fail
  warm,          \* history: a call has matched a uri and returned
  cold,          \* history: the threads whose last call began before that
  together,      \* history: two calls ran at once before that
  compiled       \* history: how often each thread has compiled the pattern

static == <<pregParse, pregParsePtr>>
history == <<warm, cold, together, compiled>>
vars == <<static, pc, calls, status, clash, crashed, faults, history>>

TypeOK ==
  /\ pregParse \in {"ZEROED", "READY", "BROKEN"}
  /\ pregParsePtr \in BOOLEAN
  /\ pc \in [Threads -> {"IDLE", "FETCH", "COMPILE", "STORE", "MATCH", "EXEC"}]
  /\ calls \in [Threads -> 0..MaxCalls]
  /\ status \in [Threads -> {"OK", "ERROR"}]
  /\ clash \subseteq Threads
  /\ crashed \in BOOLEAN
  /\ faults \in 0..MaxFaults
  /\ warm \in BOOLEAN
  /\ together \in BOOLEAN
  /\ cold \subseteq Threads
  /\ compiled \in [Threads -> Nat]

Init ==
  /\ pregParse = "ZEROED"
  /\ pregParsePtr = FALSE
  /\ pc = [t \in Threads |-> "IDLE"]
  /\ calls = [t \in Threads |-> 0]
  /\ status = [t \in Threads |-> "OK"]
  /\ clash = {}
  /\ crashed = FALSE
  /\ faults = MaxFaults
  /\ warm = FALSE
  /\ cold = {}
  /\ together = FALSE
  /\ compiled = [t \in Threads |-> 0]

-------------------------------------------------------------------------------
Goto(t, step) == pc' = [pc EXCEPT ![t] = step]

Return(t, res) == Goto(t, "IDLE") /\ status' = [status EXCEPT ![t] = res]

Fault == faults > 0 /\ faults' = faults - 1

At(t, step) == ~crashed /\ pc[t] = step

Compiling(t) == {u \in Threads \ {t} : pc[u] = "COMPILE"}
Matching(t)  == {u \in Threads \ {t} : pc[u] = "EXEC"}

(* samconfUriNew has its memory and calls samconfUriInit. *)
UriNew(t) ==
  /\ At(t, "IDLE") /\ calls[t] < MaxCalls
  /\ Goto(t, "FETCH")
  /\ calls' = [calls EXCEPT ![t] = @ + 1]
  /\ cold' = IF warm THEN cold \ {t} ELSE cold \cup {t}
  /\ together' = (together \/ (~warm /\ \E u \in Threads \ {t} : pc[u] # "IDLE"))
  /\ UNCHANGED <<static, status, clash, crashed, faults, warm, compiled>>

UriNewFails(t) ==
  /\ At(t, "IDLE") /\ calls[t] < MaxCalls
  /\ Fault
  /\ calls' = [calls EXCEPT ![t] = @ + 1]
  /\ Return(t, "ERROR")
  /\ UNCHANGED <<static, clash, crashed, history>>

(* Slip: the pointer is not static but one per thread. *)
FetchPatternPerThread(t) ==
  /\ At(t, "FETCH")
  /\ IF compiled[t] > 0
     THEN Goto(t, "MATCH") /\ UNCHANGED clash
     ELSE Goto(t, "COMPILE")
          /\ clash' = clash \cup Matching(t) \cup Compiling(t)
                        \cup (IF Compiling(t) = {} THEN {} ELSE {t})
  /\ UNCHANGED <<static, calls, status, crashed, faults, history>>

(* Slip: the pointer is set before the pattern is compiled. *)
FetchPatternEarly(t) ==
  /\ At(t, "FETCH")
  /\ Goto(t, IF pregParsePtr THEN "MATCH" ELSE "COMPILE")
  /\ pregParsePtr' = TRUE
  /\ UNCHANGED <<pregParse, calls, status, clash, crashed, faults, history>>

(* samconfUriPattern reads the pointer and begins to compile if it is null. *)
FetchPattern(t) ==
  /\ At(t, "FETCH")
  /\ IF pregParsePtr
     THEN Goto(t, "MATCH") /\ UNCHANGED clash
     ELSE Goto(t, "COMPILE")
          /\ clash' = clash \cup Matching(t) \cup Compiling(t)
                        \cup (IF Compiling(t) = {} THEN {} ELSE {t})
  /\ UNCHANGED <<static, calls, status, crashed, faults, history>>

(* regcomp succeeds; after a clash the pattern may be no good. *)
Regcomp(t) ==
  /\ At(t, "COMPILE")
  /\ pregParse' \in IF t \in clash THEN {"READY", "BROKEN"} ELSE {"READY"}
  /\ clash' = clash \ {t}
  /\ compiled' = [compiled EXCEPT ![t] = @ + 1]
  /\ Goto(t, "STORE")
  /\ UNCHANGED <<pregParsePtr, calls, status, crashed, faults, warm, cold, together>>

(* Slip: the error of regcomp is returned as the status. *)
RegcompFailsRaw(t) ==
  /\ At(t, "COMPILE")
  /\ Fault
  /\ pregParse' = "BROKEN"
  /\ clash' = clash \ {t}
  /\ Return(t, "REG_ESPACE")
  /\ UNCHANGED <<pregParsePtr, calls, crashed, history>>

(* regcomp has no memory: it frees what the pattern held. *)
RegcompFails(t) ==
  /\ At(t, "COMPILE")
  /\ Fault
  /\ pregParse' = "BROKEN"
  /\ clash' = clash \ {t}
  /\ Return(t, "ERROR")
  /\ UNCHANGED <<pregParsePtr, calls, crashed, history>>

(* Slip: the compiled pattern is returned, but the pointer is not set. *)
StoreNothing(t) ==
  /\ At(t, "STORE")
  /\ Goto(t, "MATCH")
  /\ UNCHANGED <<static, calls, status, clash, crashed, faults, history>>

(* The static pointer is set. *)
StorePointer(t) ==
  /\ At(t, "STORE")
  /\ pregParsePtr' = TRUE
  /\ Goto(t, "MATCH")
  /\ UNCHANGED <<pregParse, calls, status, clash, crashed, faults, history>>

(* samconfUriInit calls regexec. *)
Match(t) ==
  /\ At(t, "MATCH")
  /\ Goto(t, "EXEC")
  /\ clash' = IF Compiling(t) = {} THEN clash ELSE clash \cup {t}
  /\ UNCHANGED <<static, calls, status, crashed, faults, history>>

(* Every string matches the pattern of uri.h. *)
Regexec(t) ==
  /\ At(t, "EXEC")
  /\ pregParse = "READY" \/ t \in clash
  /\ Return(t, "OK")
  /\ clash' = clash \ {t}
  /\ warm' = TRUE
  /\ UNCHANGED <<static, calls, crashed, faults, cold, together, compiled>>

(* No memory in regexec, or a pattern that is no good and happens not to match. *)
RegexecFails(t) ==
  /\ At(t, "EXEC")
  /\ \/ Fault
     \/ (pregParse # "READY" \/ t \in clash) /\ UNCHANGED faults
  /\ Return(t, "ERROR")
  /\ clash' = clash \ {t}
  /\ UNCHANGED <<static, calls, crashed, history>>

(* The other outcomes of a clash. *)
Crash(t) ==
  /\ ~crashed
  /\ \/ pc[t] \in {"COMPILE", "EXEC"} /\ t \in clash
     \/ pc[t] = "EXEC" /\ pregParse # "READY"
  /\ crashed' = TRUE
  /\ UNCHANGED <<static, pc, calls, status, clash, faults, history>>

Next ==
  \E t \in Threads :
    \/ UriNew(t) \/ UriNewFails(t)
    \/ FetchPattern(t) \/ Regcomp(t) \/ RegcompFails(t) \/ StorePointer(t)
    \/ Match(t) \/ Regexec(t) \/ RegexecFails(t) \/ Crash(t)

Spec == Init /\ [][Next]_vars

-------------------------------------------------------------------------------
(* The pattern is compiled only by calls that began before any call had      *)
(* returned: a compiling that some thread might trip over can only be left   *)
(* over from the start of the program.  samconfUriPattern never resets its   *)
(* pointer and sets it before the call that compiled returns.                *)
OnlyColdCallsCompile == \A t \in Threads : pc[t] = "COMPILE" => t \in cold

(* The warm-up that makes up for the missing lock (the FIXME of uri.c:9): if *)
(* no two calls ran at once until the first one had returned, nothing ever   *)
(* clashes, no call uses a pattern that is not compiled, and the process     *)
(* does not crash, however many threads follow.                              *)
WarmUpIsEnough ==
  ~together =>
    /\ clash = {}
    /\ ~crashed
    /\ \A t \in Threads : pc[t] \in {"MATCH", "EXEC"} => pregParse = "READY"

(* A further compiling overwrites a compiled pattern, whose memory is lost.  *)
(* That is bounded by the threads, not by the calls: each thread compiles    *)
(* successfully at most once.                                                *)
CompilesOncePerThread == \A t \in Threads : compiled[t] <= 1
===============================================================================

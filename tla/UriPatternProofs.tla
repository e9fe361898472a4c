--------------------------- MODULE UriPatternProofs ----------------------------
(***************************************************************************)
(* Theorems about UriPattern, for every set of threads and every bound.    *)
(***************************************************************************)
EXTENDS UriPattern, TLAPS

Running(t) == pc[t] # "IDLE"

(* Behind the compiling there is a pointer, *)
PointerIsSet == \A t \in Threads : pc[t] \in {"MATCH", "EXEC"} => pregParsePtr

(* ... which a call that returned has left behind: whoever still goes to      *)
(* compile, or is on the way to, was there before.                            *)
WarmHasPointer == warm => pregParsePtr

ColdCompile ==
  \A t \in Threads : pc[t] \in {"COMPILE", "STORE"} => t \in cold

ColdFetch == ~warm => \A t \in Threads : Running(t) => t \in cold

(* A thread that has compiled has set the pointer, or is about to. *)
CompiledOnce ==
  \A t \in Threads :
    /\ pc[t] \in {"FETCH", "IDLE"} /\ compiled[t] > 0 => pregParsePtr
    /\ pc[t] = "COMPILE" => compiled[t] = 0
    /\ compiled[t] <= 1

(* Before the first call has returned there is one call at a time, and then *)
(* nobody compiles any more.                                                *)
OneAtATime ==
  ~together =>
    /\ ~warm => \A t, u \in Threads : Running(t) /\ Running(u) => t = u
    /\ warm => \A t \in Threads : pc[t] \notin {"COMPILE", "STORE"}
    /\ pregParsePtr => pregParse = "READY"
    /\ \A t \in Threads : pc[t] = "STORE" => pregParse = "READY"
    /\ \A t \in Threads : pc[t] \in {"COMPILE", "STORE"} => ~pregParsePtr

Inv ==
  /\ TypeOK
  /\ PointerIsSet /\ WarmHasPointer /\ ColdCompile /\ ColdFetch /\ CompiledOnce
  /\ OneAtATime /\ WarmUpIsEnough

LEMMA InitInv == Init => Inv
<1> SUFFICES ASSUME Init PROVE Inv
  OBVIOUS
<1>1. TypeOK
  <2>1. /\ pregParsePtr \in BOOLEAN /\ crashed \in BOOLEAN
        /\ warm \in BOOLEAN /\ together \in BOOLEAN
    BY Zenon DEF Init
  <2>2. faults \in 0..MaxFaults /\ calls \in [Threads -> 0..MaxCalls]
    BY UriAssumption DEF Init
  <2> QED BY <2>1, <2>2 DEF Init, TypeOK
<1>2. PointerIsSet /\ WarmHasPointer /\ ColdCompile /\ ColdFetch /\ CompiledOnce
  BY DEF Init, PointerIsSet, WarmHasPointer, ColdCompile, ColdFetch, CompiledOnce, Running
<1>3. OneAtATime /\ WarmUpIsEnough
  BY DEF Init, OneAtATime, WarmUpIsEnough, Running
<1> QED BY <1>1, <1>2, <1>3 DEF Inv

-------------------------------------------------------------------------------
(* One lemma per step of a thread. *)

LEMMA UriNewKeepsInv ==
  ASSUME Inv, NEW t \in Threads, UriNew(t)
  PROVE  Inv'
<1> USE DEF Inv, TypeOK, At
<1>1. TypeOK'
  BY UriAssumption DEF UriNew, Goto, static
<1>2. (PointerIsSet /\ WarmHasPointer /\ ColdCompile /\ ColdFetch)'
  BY DEF UriNew, Goto, static, PointerIsSet, WarmHasPointer, ColdCompile, ColdFetch, Running
<1>3. CompiledOnce'
  BY DEF UriNew, Goto, static, CompiledOnce
<1>4. OneAtATime'
  BY DEF UriNew, Goto, static, OneAtATime, Running
<1>5. WarmUpIsEnough'
  BY DEF UriNew, Goto, static, WarmUpIsEnough
<1> QED BY <1>1, <1>2, <1>3, <1>4, <1>5

LEMMA UriNewFailsKeepsInv ==
  ASSUME Inv, NEW t \in Threads, UriNewFails(t)
  PROVE  Inv'
<1> USE DEF Inv, TypeOK, At
<1>1. TypeOK'
  BY UriAssumption DEF UriNewFails, Goto, Return, Fault, static, history
<1>2. pc' = pc
  BY DEF UriNewFails, Goto, Return
<1>3. (PointerIsSet /\ WarmHasPointer /\ ColdCompile /\ ColdFetch)'
  BY <1>2 DEF UriNewFails, static, history, PointerIsSet, WarmHasPointer, ColdCompile, ColdFetch,
         Running
<1>4. (CompiledOnce /\ OneAtATime /\ WarmUpIsEnough)'
  BY <1>2 DEF UriNewFails, static, history, CompiledOnce, OneAtATime, WarmUpIsEnough, Running
<1> QED BY <1>1, <1>3, <1>4

(* Only a call that finds no pointer begins to compile: it is a cold one, and *)
(* the only one as long as no two calls have run together.                    *)
LEMMA FetchPatternKeepsInv ==
  ASSUME Inv, NEW t \in Threads, FetchPattern(t)
  PROVE  Inv'
<1> USE DEF Inv, TypeOK, At
<1>1. TypeOK'
  BY DEF FetchPattern, Goto, static, history, Compiling, Matching
<1>2. CASE pregParsePtr
  <2>1. pc' = [pc EXCEPT ![t] = "MATCH"] /\ UNCHANGED <<static, clash, crashed, history>>
    BY <1>2 DEF FetchPattern, Goto
  <2>2. (PointerIsSet /\ WarmHasPointer /\ ColdCompile /\ ColdFetch)'
    BY <1>2, <2>1 DEF FetchPattern, static, history, PointerIsSet, WarmHasPointer, ColdCompile,
           ColdFetch, Running
  <2>3. CompiledOnce'
    BY <2>1 DEF static, history, CompiledOnce
  <2>4. (OneAtATime /\ WarmUpIsEnough)'
    BY <1>2, <2>1 DEF FetchPattern, static, history, OneAtATime, WarmUpIsEnough, Running
  <2> QED BY <1>1, <2>2, <2>3, <2>4
<1>3. CASE ~pregParsePtr
  <2>1. /\ pc' = [pc EXCEPT ![t] = "COMPILE"]
        /\ UNCHANGED <<static, crashed, history>>
        /\ clash' = clash \cup Matching(t) \cup Compiling(t)
                      \cup (IF Compiling(t) = {} THEN {} ELSE {t})
    BY <1>3 DEF FetchPattern, Goto
  <2>2. ~warm /\ t \in cold
    BY <1>3 DEF FetchPattern, WarmHasPointer, ColdFetch, Running
  <2>3. (PointerIsSet /\ WarmHasPointer /\ ColdCompile /\ ColdFetch)'
    BY <1>3, <2>1, <2>2 DEF static, history, PointerIsSet, WarmHasPointer, ColdCompile,
           ColdFetch, Running
  <2>4. CompiledOnce'
    BY <1>3, <2>1 DEF FetchPattern, static, history, CompiledOnce
  <2>5. ~together => Compiling(t) = {} /\ Matching(t) = {}
    BY <2>2 DEF FetchPattern, OneAtATime, Running, Compiling, Matching
  <2>6. OneAtATime'
    BY <1>3, <2>1, <2>2 DEF FetchPattern, static, history, OneAtATime, Running
  <2>7. WarmUpIsEnough'
    BY <2>1, <2>5 DEF static, history, WarmUpIsEnough
  <2> QED BY <1>1, <2>3, <2>4, <2>6, <2>7
<1> QED BY <1>2, <1>3

LEMMA RegcompKeepsInv ==
  ASSUME Inv, NEW t \in Threads, Regcomp(t)
  PROVE  Inv'
<1> USE DEF Inv, TypeOK, At
<1>1. TypeOK'
  BY DEF Regcomp, Goto
<1>2. (PointerIsSet /\ WarmHasPointer /\ ColdCompile /\ ColdFetch)'
  BY DEF Regcomp, Goto, PointerIsSet, WarmHasPointer, ColdCompile, ColdFetch, Running
<1>3. CompiledOnce'
  BY DEF Regcomp, Goto, CompiledOnce
<1>4. ~together => pregParse' = "READY"
  BY DEF Regcomp, WarmUpIsEnough
<1>5. OneAtATime'
  BY <1>4 DEF Regcomp, Goto, OneAtATime, Running
<1>6. WarmUpIsEnough'
  BY <1>4 DEF Regcomp, Goto, WarmUpIsEnough
<1> QED BY <1>1, <1>2, <1>3, <1>5, <1>6

(* A compiling that fails breaks a pattern nobody has a pointer to, as long *)
(* as the calls come one at a time.                                         *)
LEMMA RegcompFailsKeepsInv ==
  ASSUME Inv, NEW t \in Threads, RegcompFails(t)
  PROVE  Inv'
<1> USE DEF Inv, TypeOK, At
<1>1. TypeOK'
  BY UriAssumption DEF RegcompFails, Goto, Return, Fault, history
<1>2. (PointerIsSet /\ WarmHasPointer /\ ColdCompile /\ ColdFetch)'
  BY DEF RegcompFails, Goto, Return, history, PointerIsSet, WarmHasPointer, ColdCompile,
         ColdFetch, Running
<1>3. CompiledOnce'
  BY DEF RegcompFails, Goto, Return, history, CompiledOnce
<1>4. ~together => ~pregParsePtr /\ ~warm
  BY DEF RegcompFails, OneAtATime, WarmHasPointer
<1>5. OneAtATime'
  BY <1>4 DEF RegcompFails, Goto, Return, history, OneAtATime, Running
<1>6. WarmUpIsEnough'
  BY <1>4 DEF RegcompFails, Goto, Return, history, WarmUpIsEnough, PointerIsSet
<1> QED BY <1>1, <1>2, <1>3, <1>5, <1>6

LEMMA StorePointerKeepsInv ==
  ASSUME Inv, NEW t \in Threads, StorePointer(t)
  PROVE  Inv'
<1> USE DEF Inv, TypeOK, At
<1>1. TypeOK'
  BY DEF StorePointer, Goto, history
<1>2. (PointerIsSet /\ WarmHasPointer /\ ColdCompile /\ ColdFetch)'
  BY DEF StorePointer, Goto, history, PointerIsSet, WarmHasPointer, ColdCompile, ColdFetch, Running
<1>3. CompiledOnce'
  BY DEF StorePointer, Goto, history, CompiledOnce
<1>4. (OneAtATime /\ WarmUpIsEnough)'
  BY DEF StorePointer, Goto, history, OneAtATime, WarmUpIsEnough, Running
<1> QED BY <1>1, <1>2, <1>3, <1>4

LEMMA MatchKeepsInv ==
  ASSUME Inv, NEW t \in Threads, Match(t)
  PROVE  Inv'
<1> USE DEF Inv, TypeOK, At
<1>1. TypeOK'
  BY DEF Match, Goto, static, history
<1>2. (PointerIsSet /\ WarmHasPointer /\ ColdCompile /\ ColdFetch)'
  BY DEF Match, Goto, static, history, PointerIsSet, WarmHasPointer, ColdCompile, ColdFetch, Running
<1>3. CompiledOnce'
  BY DEF Match, Goto, static, history, CompiledOnce
<1>4. ~together => Compiling(t) = {}
  BY DEF Match, OneAtATime, Running, Compiling
<1>5. (OneAtATime /\ WarmUpIsEnough)'
  BY <1>4 DEF Match, Goto, static, history, OneAtATime, WarmUpIsEnough, Running
<1> QED BY <1>1, <1>2, <1>3, <1>5

(* The first call to return: nobody else is running, so nobody compiles. *)
LEMMA RegexecKeepsInv ==
  ASSUME Inv, NEW t \in Threads, Regexec(t)
  PROVE  Inv'
<1> USE DEF Inv, TypeOK, At
<1>1. TypeOK'
  BY DEF Regexec, Goto, Return, static
<1>2. (PointerIsSet /\ WarmHasPointer /\ ColdCompile /\ ColdFetch)'
  BY DEF Regexec, Goto, Return, static, PointerIsSet, WarmHasPointer, ColdCompile, ColdFetch,
         Running
<1>3. CompiledOnce'
  BY DEF Regexec, Goto, Return, static, CompiledOnce, PointerIsSet
<1>4. ~together => \A u \in Threads : pc[u] \notin {"COMPILE", "STORE"}
  BY DEF Regexec, OneAtATime, Running
<1>5. OneAtATime'
  BY <1>4 DEF Regexec, Goto, Return, static, OneAtATime, Running
<1>6. WarmUpIsEnough'
  BY DEF Regexec, Goto, Return, static, WarmUpIsEnough
<1> QED BY <1>1, <1>2, <1>3, <1>5, <1>6

LEMMA RegexecFailsKeepsInv ==
  ASSUME Inv, NEW t \in Threads, RegexecFails(t)
  PROVE  Inv'
<1> USE DEF Inv, TypeOK, At
<1>1. TypeOK'
  BY UriAssumption DEF RegexecFails, Goto, Return, Fault, static, history
<1>2. (PointerIsSet /\ WarmHasPointer /\ ColdCompile /\ ColdFetch)'
  BY DEF RegexecFails, Goto, Return, static, history, PointerIsSet, WarmHasPointer, ColdCompile,
         ColdFetch, Running
<1>3. CompiledOnce'
  BY DEF RegexecFails, Goto, Return, static, history, CompiledOnce, PointerIsSet
<1>4. (OneAtATime /\ WarmUpIsEnough)'
  BY DEF RegexecFails, Goto, Return, static, history, OneAtATime, WarmUpIsEnough, Running
<1> QED BY <1>1, <1>2, <1>3, <1>4

(* Crash needs a clash or a bad pattern. *)
LEMMA CrashKeepsInv ==
  ASSUME Inv, NEW t \in Threads, Crash(t)
  PROVE  Inv'
<1> USE DEF Inv, TypeOK
<1>1. TypeOK'
  BY DEF Crash, static, history
<1>2. (PointerIsSet /\ WarmHasPointer /\ ColdCompile /\ ColdFetch /\ CompiledOnce)'
  BY DEF Crash, static, history, PointerIsSet, WarmHasPointer, ColdCompile, ColdFetch, Running,
         CompiledOnce
<1>3. OneAtATime'
  BY DEF Crash, static, history, OneAtATime, Running
<1>4. together
  BY DEF Crash, WarmUpIsEnough
<1>5. WarmUpIsEnough'
  BY <1>4 DEF Crash, history, WarmUpIsEnough
<1> QED BY <1>1, <1>2, <1>3, <1>5

LEMMA StutterKeepsInv ==
  ASSUME Inv, UNCHANGED vars
  PROVE  Inv'
BY DEF vars, static, history, Inv, TypeOK, PointerIsSet, WarmHasPointer, ColdCompile, ColdFetch,
       CompiledOnce, OneAtATime, WarmUpIsEnough, Running

(* The inductive invariant. *)
LEMMA SpecInv == Spec => []Inv
<1>1. Inv /\ [Next]_vars => Inv'
  <2> SUFFICES ASSUME Inv, [Next]_vars PROVE Inv'
    OBVIOUS
  <2>1. CASE UNCHANGED vars
    BY <2>1, StutterKeepsInv
  <2>2. ASSUME NEW t \in Threads,
               \/ UriNew(t) \/ UriNewFails(t)
               \/ FetchPattern(t) \/ Regcomp(t) \/ RegcompFails(t) \/ StorePointer(t)
               \/ Match(t) \/ Regexec(t) \/ RegexecFails(t) \/ Crash(t)
        PROVE  Inv'
    BY <2>2, UriNewKeepsInv, UriNewFailsKeepsInv, FetchPatternKeepsInv, RegcompKeepsInv,
       RegcompFailsKeepsInv, StorePointerKeepsInv, MatchKeepsInv, RegexecKeepsInv,
       RegexecFailsKeepsInv, CrashKeepsInv
  <2> QED BY <2>1, <2>2 DEF Next
<1> QED BY InitInv, <1>1, PTL DEF Spec

-------------------------------------------------------------------------------
(* Every step keeps the locals of the threads and the static variables of    *)
(* samconfUriPattern in their ranges.                                        *)
THEOREM TypeCorrect == Spec => []TypeOK
<1>1. Inv => TypeOK
  BY DEF Inv
<1> QED BY <1>1, SpecInv, PTL

(* No call that begins after another one has returned compiles the pattern,  *)
(* for any number of threads.                                                *)
THEOREM WarmCallsNeverCompile == Spec => []OnlyColdCallsCompile
<1>1. Inv => OnlyColdCallsCompile
  BY DEF Inv, ColdCompile, OnlyColdCallsCompile
<1> QED BY <1>1, SpecInv, PTL

(* One call that returns before any other begins makes samconfUriPattern     *)
(* safe for any number of threads.                                           *)
THEOREM WarmUpMakesSafe == Spec => []WarmUpIsEnough
<1>1. Inv => WarmUpIsEnough
  BY DEF Inv
<1> QED BY <1>1, SpecInv, PTL

(* A thread compiles the pattern successfully at most once, however many     *)
(* calls of samconfUriNew it makes.                                          *)
THEOREM OneCompilingPerThread == Spec => []CompilesOncePerThread
<1>1. Inv => CompilesOncePerThread
  BY DEF Inv, CompiledOnce, CompilesOncePerThread
<1> QED BY <1>1, SpecInv, PTL
===============================================================================

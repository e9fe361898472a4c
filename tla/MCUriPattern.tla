----------------------------- MODULE MCUriPattern ------------------------------
(* Three threads that are alike, for model-checking UriPattern. *)
EXTENDS UriPattern, TLC

CONSTANTS t1, t2, t3

MCThreads == {t1, t2, t3}
MCSymmetry == Permutations(MCThreads)
===============================================================================

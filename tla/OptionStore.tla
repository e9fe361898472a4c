------------------------------ MODULE OptionStore -----------------------------
(***************************************************************************)
(* What merging promises, without trees, traversal or allocation: a store  *)
(* of options that a whole configuration overrides in one step, and that   *)
(* only signed configurations may change once one has been merged          *)
(* (developer.md, "Merge Rules").                                          *)
(***************************************************************************)
CONSTANT Configs    \* the configurations that can be merged
CONSTANT Override(_, _)  \* a store, and a configuration that overrides it
CONSTANT Signed(_)  \* whether a configuration is signed
CONSTANT Empty      \* the store without options

VARIABLES
  opts,    \* the options and their values
  locked   \* a signed configuration has been merged

vars == <<opts, locked>>

Init == opts = Empty /\ locked = FALSE

Merge(config) ==
  /\ locked => Signed(config)
  /\ opts' = Override(opts, config)
  /\ locked' = (locked \/ Signed(config))

Next == \E config \in Configs : Merge(config)

Spec == Init /\ [][Next]_vars
===============================================================================

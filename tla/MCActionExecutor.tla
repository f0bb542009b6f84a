--------------------------- MODULE MCActionExecutor ---------------------------
(* ActionExecutor with two action ids, a few contexts and two processes.   *)
EXTENDS ActionExecutor, TLC

\* Action ids and lease ids are opaque to the executor.
Symmetry == Permutations(ActionIds) \cup Permutations(LeaseIds)
===============================================================================

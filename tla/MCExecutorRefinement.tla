------------------------- MODULE MCExecutorRefinement -------------------------
(* ExecutorRefinement on the instances of MCActionExecutor.                *)
EXTENDS ExecutorRefinement, TLC

Symmetry == Permutations(ActionIds) \cup Permutations(LeaseIds)
===============================================================================

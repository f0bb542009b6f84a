----------------------------- MODULE MCTaskRuntime -----------------------------
(* TaskRuntime with a few tasks and goals and the two request handlers.    *)
EXTENDS TaskRuntime, TLC

\* Task ids, goal ids and handlers are interchangeable.
Symmetry == Permutations(Tasks) \cup Permutations(Goals) \cup Permutations(Handlers)
===============================================================================

------------------------------ MODULE MCRegistry ------------------------------
(***************************************************************************)
(* The registry on three processes: a node that is restarted with another  *)
(* target, and a second node at its first target.                          *)
(***************************************************************************)
EXTENDS Registry, TLC

CONSTANTS p1, p2, p3, n1, n2, ta, tb, s1

Procs3 == (p1 :> n1) @@ (p2 :> n1) @@ (p3 :> n2)
TwoTargets == (p1 :> ta) @@ (p2 :> tb) @@ (p3 :> ta)
OneSkill == (p1 :> {s1}) @@ (p2 :> {s1}) @@ (p3 :> {s1})
===============================================================================

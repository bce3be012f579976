------------------------------ MODULE WorkloadsMC ------------------------------
(* One key and one operator, two pools. *)
EXTENDS Workloads, TLC

CONSTANTS o1, p1, p2, k1

Symmetric == Permutations({p1, p2})
===============================================================================

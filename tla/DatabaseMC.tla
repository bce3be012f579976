------------------------------ MODULE DatabaseMC ------------------------------
(* Two callers, three keys, and amounts of which a sum overflows. *)
EXTENDS Database, TLC

CONSTANTS c1, c2, k1, k2, k3

Symmetric == Permutations({c1, c2}) \cup Permutations({k1, k2, k3})
===============================================================================

------------------------------ MODULE MeteringMC ------------------------------
(* Two clients that call as one reviewer, and a batch of two items. *)
EXTENDS Metering, TLC

CONSTANTS w1, w2, u1, i1, i2

OneAccount == (w1 :> u1) @@ (w2 :> u1)

Symmetric == Permutations({w1, w2}) \cup Permutations({i1, i2})
===============================================================================

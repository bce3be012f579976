------------------------------- MODULE LedgerMC -------------------------------
(* Two ledgers over the same two workloads. *)
EXTENDS Ledger, TLC

CONSTANTS l1, l2, w1, w2

Symmetric == Permutations({l1, l2}) \cup Permutations({w1, w2})
===============================================================================

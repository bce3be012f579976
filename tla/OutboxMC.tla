------------------------------- MODULE OutboxMC -------------------------------
(* Two delivery workers for TLC. *)
EXTENDS Outbox, TLC

CONSTANTS w1, w2

Symmetric == Permutations({w1, w2})
===============================================================================

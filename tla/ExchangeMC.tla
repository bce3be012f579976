------------------------------ MODULE ExchangeMC ------------------------------
(* A ledger over the workload that is followed and another one; three kinds of *)
(* stream and six segments: two that follow each other, one that reuses the key *)
(* of the first, one that overlaps it in time, one that leaves a gap, and one   *)
(* from a later hour.                                                           *)
EXTENDS Exchange, TLC

CONSTANTS l1, w1, w2, gpu, cpu, network

Seg(n, from, to, k) == [sequence |-> n, start |-> from, end |-> to, key |-> k]

Sent == {Seg(0, 0, 2, 1), Seg(1, 2, 3, 2), Seg(1, 2, 4, 1), Seg(1, 1, 3, 3),
         Seg(2, 3, 4, 4), Seg(0, 4, 5, 5)}

Symmetric == Permutations({gpu, cpu, network})
===============================================================================

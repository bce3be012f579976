------------------------------- MODULE WorkerMC -------------------------------
(* Two workers, one goroutine that starts the group and one that stops it. *)
EXTENDS Worker

CONSTANTS r1, r2, c1, c2
===============================================================================

--------------------------- MODULE SchedulerLiveMC ---------------------------
(* Two jobs, one worker process: the queue and its fairness. *)
EXTENDS SchedulerLive, TLC

CONSTANTS w1, u1

OwnAccount == w1 :> u1
===============================================================================

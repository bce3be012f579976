------------------------------ MODULE ReviewCycle ------------------------------
(***************************************************************************)
(* What metering promises, whoever holds the batch and however leases end: *)
(* work is done part by part, is never lost to a change of hands, is put   *)
(* up for review only when every part is done, does not change while it is *)
(* reviewed, starts over after a rework and is final once accepted.        *)
(***************************************************************************)
CONSTANT Parts

VARIABLES stage, done

cycleVars == <<stage, done>>

Init == stage = "absent" /\ done = {}

Open   == stage = "absent" /\ stage' = "work" /\ done' = {}
Do(p)  == stage = "work" /\ stage' = "work" /\ done' = done \cup {p}
Submit == stage = "work" /\ done = Parts /\ stage' = "review" /\ done' = done
Accept == stage = "review" /\ stage' = "accepted" /\ done' = done
Rework == stage = "review" /\ stage' = "work" /\ done' = {}

Next == Open \/ (\E p \in Parts : Do(p)) \/ Submit \/ Accept \/ Rework

Spec == Init /\ [][Next]_cycleVars

===============================================================================

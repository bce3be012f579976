------------------------------- MODULE WorkQueue -------------------------------
(***************************************************************************)
(* What a queue of leased tasks promises, whatever its clocks, leases and  *)
(* tables: a task is granted to workers one at a time and at most Budget   *)
(* times; a task goes back to the queue only while it has grants left; and *)
(* a task that is done or dead stays so.  The job scheduler and the outbox *)
(* implement it; one step may move several tasks (a recovery sweep).       *)
(***************************************************************************)
EXTENDS Naturals

CONSTANTS Tasks, Budget

VARIABLES phase, grants

queueVars == <<phase, grants>>

Init ==
  /\ phase = [t \in Tasks |-> "absent"]
  /\ grants = [t \in Tasks |-> 0]

Move(t, from, to) == phase[t] \in from /\ phase'[t] = to

Add(t)    == Move(t, {"absent"}, "waiting") /\ grants'[t] = grants[t]
\* A held task is granted anew when its lease has run out.
Grant(t)  == /\ Move(t, {"waiting", "held"}, "held")
             /\ grants[t] < Budget
             /\ grants'[t] = grants[t] + 1
Return(t) == /\ Move(t, {"held"}, "waiting")
             /\ grants[t] < Budget
             /\ grants'[t] = grants[t]
Finish(t) == Move(t, {"held"}, "done") /\ grants'[t] = grants[t]
GiveUp(t) == Move(t, {"held"}, "dead") /\ grants'[t] = grants[t]
Keep(t)   == phase'[t] = phase[t] /\ grants'[t] = grants[t]

Next ==
  \A t \in Tasks :
    Add(t) \/ Grant(t) \/ Return(t) \/ Finish(t) \/ GiveUp(t) \/ Keep(t)

Spec == Init /\ [][Next]_queueVars

===============================================================================

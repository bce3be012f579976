------------------------------ MODULE SerialCalls ------------------------------
(***************************************************************************)
(* What storage.Write promises, and every module here that makes a service *)
(* call one step relies on: calls change the database one after another,   *)
(* each as a whole and on the state that the one before it left.           *)
(***************************************************************************)
CONSTANTS
  Calls,          \* the calls that may be made, with their parameters
  Outcome(_, _),  \* of a call on a state: [ok |-> succeeds?, db |-> the state it leaves]
  EmptyDatabase   \* the state Migrate leaves

VARIABLE db

Init == db = EmptyDatabase

Take(k) == Outcome(k, db).ok /\ db' = Outcome(k, db).db

Next == \E k \in Calls : Take(k)

Spec == Init /\ [][Next]_db

===============================================================================

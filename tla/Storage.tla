-------------------------------- MODULE Storage --------------------------------
(***************************************************************************)
(* storage.Write over SQLite in WAL mode: what a service call does between *)
(* its first statement and its commit, beside the calls of others.         *)
(*                                                                         *)
(* Write opens a deferred transaction: the first statement decides what it *)
(* is.  One that reads takes a snapshot of the committed state and reads   *)
(* only that from then on; when it comes to write, SQLite refuses it at    *)
(* once (BUSY) if another is writing, or if anything was committed since   *)
(* its snapshot.  One that starts with a write waits for the write lock    *)
(* and has the newest state.  What a service computes is a constant here:  *)
(* the outcome of a call on the state it reads.                            *)
(***************************************************************************)
EXTENDS Naturals, FiniteSets

CONSTANTS
  Callers,        \* goroutines that serve requests, each in at most one call
  Nobody,         \* the write lock is free
  Calls,          \* the calls that may be made, with their parameters
  Outcome(_, _),  \* of a call on a state: [ok |-> succeeds?, db |-> the state it leaves]
  StartsWriting(_),  \* calls whose first statement writes
  NoCall,         \* what is kept of a caller in no call
  EmptyDatabase,  \* the state Migrate leaves
  MaxTold         \* bound: the calls of which it is remembered that a caller was told

ASSUME StorageAssumption == Nobody \notin Callers /\ MaxTold \in Nat

VARIABLES
  db,       \* the committed state
  lock,     \* the caller that holds the write lock
  phase,    \* per caller: no transaction, one that has only read, or one that writes
  call,     \* per caller, its call
  seen,     \* per caller, the snapshot of its transaction
  stale,    \* per caller: was anything committed since the snapshot?
  answered  \* the calls of which some caller was told that they succeeded

vars == <<db, lock, phase, call, seen, stale, answered>>

-------------------------------------------------------------------------------
Init ==
  /\ db = EmptyDatabase
  /\ lock = Nobody
  /\ phase = [c \in Callers |-> "none"]
  /\ call = [c \in Callers |-> NoCall]
  /\ seen = [c \in Callers |-> EmptyDatabase]
  /\ stale = [c \in Callers |-> FALSE]
  /\ answered = {}

Result(c) == Outcome(call[c], seen[c])

\* The first statement, of either kind, fixes the snapshot.
Open(c, k, as) ==
  /\ phase[c] = "none"
  /\ phase' = [phase EXCEPT ![c] = as]
  /\ call' = [call EXCEPT ![c] = k]
  /\ seen' = [seen EXCEPT ![c] = db]
  /\ UNCHANGED <<db, stale, answered>>

FirstRead(c, k) ==
  /\ ~StartsWriting(k)
  /\ Open(c, k, "read")
  /\ UNCHANGED lock

FirstWrite(c, k) ==
  /\ StartsWriting(k)
  /\ lock = Nobody
  /\ Open(c, k, "write")
  /\ lock' = c

\* The first statement that writes, of a transaction that has read: SQLite takes
\* the lock, or refuses for good.
MayWrite_stale(c) == lock = Nobody
MayWrite(c) == lock = Nobody /\ ~stale[c]

Upgrade(c) ==
  /\ phase[c] = "read"
  /\ MayWrite(c)
  /\ Result(c).ok
  /\ Result(c).db # seen[c]
  /\ phase' = [phase EXCEPT ![c] = "write"]
  /\ lock' = c
  /\ UNCHANGED <<db, call, seen, stale, answered>>

\* The transactions of these callers are over.
End_keepsLock(gone) ==
  /\ phase' = [c \in Callers |-> IF c \in gone THEN "none" ELSE phase[c]]
  /\ call' = [c \in Callers |-> IF c \in gone THEN NoCall ELSE call[c]]
  /\ seen' = [c \in Callers |-> IF c \in gone THEN EmptyDatabase ELSE seen[c]]
  /\ lock' = lock
End(gone) ==
  /\ phase' = [c \in Callers |-> IF c \in gone THEN "none" ELSE phase[c]]
  /\ call' = [c \in Callers |-> IF c \in gone THEN NoCall ELSE call[c]]
  /\ seen' = [c \in Callers |-> IF c \in gone THEN EmptyDatabase ELSE seen[c]]
  /\ lock' = IF lock \in gone THEN Nobody ELSE lock

\* The caller is told, or its reply is lost after the commit.
Answer(c) ==
  \/ answered' = answered
  \/ answered' = answered \cup {call[c]} /\ Cardinality(answered') <= MaxTold

CommitWrite(c) ==
  /\ phase[c] = "write"
  /\ Result(c).ok
  /\ db' = Result(c).db
  /\ stale' = [a \in Callers |-> a # c /\ phase[a] = "read"]
  /\ End({c})
  /\ Answer(c)

\* A call that found its work done (a replay) commits without having written.
CommitRead(c) ==
  /\ phase[c] = "read"
  /\ Result(c).ok
  /\ Result(c).db = seen[c]
  /\ stale' = [stale EXCEPT ![c] = FALSE]
  /\ End({c})
  /\ Answer(c)
  /\ UNCHANGED db

\* An error of the call, BUSY, a canceled context, a panic: all is rolled back.
Rollback_answered(c) ==
  /\ phase[c] # "none"
  /\ stale' = [stale EXCEPT ![c] = FALSE]
  /\ End({c})
  /\ Answer(c)
  /\ UNCHANGED db
Rollback(c) ==
  /\ phase[c] # "none"
  /\ stale' = [stale EXCEPT ![c] = FALSE]
  /\ End({c})
  /\ UNCHANGED <<db, answered>>

\* The process ends at any moment; the log keeps what was committed.
Crash ==
  /\ \E c \in Callers : phase[c] # "none"
  /\ stale' = [c \in Callers |-> FALSE]
  /\ End(Callers)
  /\ UNCHANGED <<db, answered>>

Next ==
  \/ Crash
  \/ \E c \in Callers :
       \/ Upgrade(c) \/ CommitWrite(c) \/ CommitRead(c) \/ Rollback(c)
       \/ \E k \in Calls : FirstRead(c, k) \/ FirstWrite(c, k)

Spec == Init /\ [][Next]_vars

-------------------------------------------------------------------------------
(* What every other module assumes of a service call.                        *)

\* One transaction writes at a time, it holds the lock which nobody else leaves
\* taken, and what it has read is still the newest state: nothing it decided on
\* its first reads is out of date when its writes become visible.
WriterIsCurrent ==
  \A c \in Callers :
    /\ phase[c] = "write" <=> lock = c
    /\ phase[c] = "write" => seen[c] = db

Serial == INSTANCE SerialCalls

\* Interleaved, refused, canceled and crashed calls change the database as calls
\* made one after another do: no update is lost and none is half visible.
ImplementsSerial == Serial!Spec

===============================================================================

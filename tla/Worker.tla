-------------------------------- MODULE Worker --------------------------------
(***************************************************************************)
(* A group of background workers and the goroutines that start and stop    *)
(* it.  Every section under a mutex is one step; between two of them other *)
(* goroutines run, and so do the workers, each a goroutine that ticks and  *)
(* then selects between its context and its ticker.                        *)
(***************************************************************************)
EXTENDS Integers, Sequences, SequencesExt

CONSTANTS
  Runtimes,   \* worker runtimes
  Callers,    \* goroutines that call Start or Stop of the group
  MaxWorkers  \* bound: runtimes added to the group

VARIABLES
  group,   \* the group's fields
  rt,      \* the fields of each runtime
  run,     \* where each worker's goroutine is
  parent,  \* whether the context given to Start is canceled
  call     \* what each caller is doing

vars == <<group, rt, run, parent, call>>

-------------------------------------------------------------------------------
RuntimeRow == [started : BOOLEAN, stopped : BOOLEAN, err : BOOLEAN]

\* op is what runs, left the runtimes it still has to treat, begun those it has
\* started, at where it is in Runtime.Stop, expired its own context's deadline,
\* and failed whether it has collected an error.
CallRow == [op : {"idle", "start", "cleanup", "stop", "started", "stopped"},
            left : Seq(Runtimes), begun : Seq(Runtimes),
            at : {"lock", "wait", "finalizer"},
            expired : BOOLEAN, failed : BOOLEAN]

\* Besides the types: a runtime that was stopped was started, one whose goroutine
\* exists was started, and one goroutine at a time starts or stops the group.
TypeOK ==
  /\ group \in [workers : Seq(Runtimes), started : BOOLEAN, stopping : BOOLEAN]
  /\ rt \in [Runtimes -> RuntimeRow]
  /\ run \in [Runtimes -> {"none", "tick", "select", "ended"}]
  /\ parent \in BOOLEAN
  /\ call \in [Callers -> CallRow]
  /\ \A r \in Runtimes :
       /\ rt[r].stopped => rt[r].started
       /\ rt[r].started <=> run[r] # "none"
  /\ \A c, d \in Callers :
       call[c].op = call[d].op /\ call[c].op # "idle" => c = d

Idle == [op |-> "idle", left |-> <<>>, begun |-> <<>>, at |-> "lock",
         expired |-> FALSE, failed |-> FALSE]

Init ==
  /\ group = [workers |-> <<>>, started |-> FALSE, stopping |-> FALSE]
  /\ rt = [r \in Runtimes |-> [started |-> FALSE, stopped |-> FALSE, err |-> FALSE]]
  /\ run = [r \in Runtimes |-> "none"]
  /\ parent = FALSE
  /\ call = [c \in Callers |-> Idle]

-------------------------------------------------------------------------------
(* The worker's goroutine.                                                   *)

\* Its context is the child of Start's, and Stop cancels it.
Canceled_byParent(r) == parent
Canceled(r) == parent \/ rt[r].stopped

\* The tick returns, after an error that is recorded or without.
TickReturns(r) ==
  /\ run[r] = "tick"
  /\ run' = [run EXCEPT ![r] = "select"]
  /\ \E err \in {rt[r].err, TRUE} : rt' = [rt EXCEPT ![r].err = err]
  /\ UNCHANGED <<group, parent, call>>

\* The ticker may win the select although the context is canceled.
TickAgain(r) ==
  /\ run[r] = "select"
  /\ run' = [run EXCEPT ![r] = "tick"]
  /\ UNCHANGED <<group, rt, parent, call>>

End(r) ==
  /\ run[r] = "select"
  /\ Canceled(r)
  /\ run' = [run EXCEPT ![r] = "ended"]
  /\ UNCHANGED <<group, rt, parent, call>>

CancelParent ==
  /\ ~parent
  /\ parent' = TRUE
  /\ UNCHANGED <<group, rt, run, call>>

-------------------------------------------------------------------------------
(* The group.                                                                *)

\* The same runtime may be added twice.
Add(r) ==
  /\ ~group.started
  /\ Len(group.workers) < MaxWorkers
  /\ group' = [group EXCEPT !.workers = Append(@, r)]
  /\ UNCHANGED <<rt, run, parent, call>>

\* The callers refused ("already started", "was not started") change nothing.
BeginStart(c) ==
  /\ call[c].op = "idle"
  /\ ~group.started
  /\ group' = [group EXCEPT !.started = TRUE]
  /\ call' = [call EXCEPT ![c] = [Idle EXCEPT !.op = "start", !.left = group.workers]]
  /\ UNCHANGED <<rt, run, parent>>

\* Runtime.Start of the next worker, and its refusal, after which the workers
\* begun so far are stopped in the order they were started.
Startable(r) == ~rt[r].started /\ ~parent

StartNext(c) ==
  LET r == Head(call[c].left)
  IN  /\ call[c].op = "start"
      /\ call[c].left # <<>>
      /\ Startable(r)
      /\ call' = [call EXCEPT ![c].left = Tail(@), ![c].begun = Append(@, r)]
      /\ rt' = [rt EXCEPT ![r].started = TRUE]
      /\ run' = [run EXCEPT ![r] = "tick"]
      /\ UNCHANGED <<group, parent>>

CleanUp(c) ==
  /\ call[c].op = "start"
  /\ call[c].left # <<>>
  /\ ~Startable(Head(call[c].left))
  /\ call' = [call EXCEPT ![c] = [call[c] EXCEPT !.op = "cleanup", !.left = call[c].begun]]
  /\ UNCHANGED <<group, rt, run, parent>>

\* One Stop of a group; it may be its starter's, and it may begin while the group
\* is still being started.
MayStop_again == group.started
MayStop == group.started /\ ~group.stopping

BeginStop(c) ==
  /\ call[c].op \in {"idle", "started"}
  /\ MayStop
  /\ group' = [group EXCEPT !.stopping = TRUE]
  /\ call' = [call EXCEPT ![c] = [Idle EXCEPT !.op = "stop", !.left = Reverse(group.workers)]]
  /\ UNCHANGED <<rt, run, parent>>

Return(c) ==
  /\ call[c].left = <<>>
  /\ call[c].op \in {"start", "cleanup", "stop"}
  /\ call' = [call EXCEPT ![c].op = IF call[c].op = "stop" THEN "stopped" ELSE "started",
                          ![c].failed = @ \/ call[c].op = "cleanup"]
  /\ UNCHANGED <<group, rt, run, parent>>

-------------------------------------------------------------------------------
(* Runtime.Stop of the next worker, by Group.Stop or by a failed start.      *)

Stopping(c) == call[c].op \in {"stop", "cleanup"} /\ call[c].left # <<>>
Target(c)   == Head(call[c].left)

Done(c, failed) ==
  call' = [call EXCEPT ![c].left = Tail(@), ![c].at = "lock", ![c].failed = @ \/ failed]

StopNext(c) ==
  LET r == Target(c)
  IN  /\ Stopping(c)
      /\ call[c].at = "lock"
      /\ IF rt[r].started
         THEN /\ rt' = [rt EXCEPT ![r].stopped = TRUE]
              /\ call' = [call EXCEPT ![c].at = "wait"]
         ELSE Done(c, TRUE) /\ UNCHANGED rt
      /\ UNCHANGED <<group, run, parent>>

Awaited_notAtAll(r) == TRUE
Awaited(r) == run[r] = "ended"

Wait(c) ==
  /\ Stopping(c)
  /\ call[c].at = "wait"
  /\ Awaited(Target(c))
  /\ call' = [call EXCEPT ![c].at = "finalizer"]
  /\ UNCHANGED <<group, rt, run, parent>>

GiveUp(c) ==
  /\ Stopping(c)
  /\ call[c].at = "wait"
  /\ call[c].expired
  /\ Done(c, TRUE)
  /\ UNCHANGED <<group, rt, run, parent>>

Expire(c) ==
  /\ Stopping(c)
  /\ ~call[c].expired
  /\ call' = [call EXCEPT ![c].expired = TRUE]
  /\ UNCHANGED <<group, rt, run, parent>>

\* onStop runs, and the errors of the ticks are read after it.
Finalize(c) ==
  /\ Stopping(c)
  /\ call[c].at = "finalizer"
  /\ \E stopErr \in BOOLEAN : Done(c, stopErr \/ rt[Target(c)].err)
  /\ UNCHANGED <<group, rt, run, parent>>

Next ==
  \/ CancelParent
  \/ \E r \in Runtimes : Add(r) \/ TickReturns(r) \/ TickAgain(r) \/ End(r)
  \/ \E c \in Callers :
       \/ BeginStart(c) \/ StartNext(c) \/ CleanUp(c) \/ BeginStop(c) \/ Return(c)
       \/ StopNext(c) \/ Wait(c) \/ GiveUp(c) \/ Expire(c) \/ Finalize(c)

\* Goroutines run; ticks return, as they are given the context; a select that
\* could always take the canceled context takes it some time.
Fairness ==
  /\ \A r \in Runtimes : WF_vars(TickReturns(r)) /\ SF_vars(End(r))
  /\ \A c \in Callers :
       WF_vars(StartNext(c) \/ CleanUp(c) \/ Return(c) \/ StopNext(c) \/ Wait(c)
              \/ GiveUp(c) \/ Finalize(c))

Spec == Init /\ [][Next]_vars /\ Fairness

-------------------------------------------------------------------------------
(* What stopping promises.                                                   *)

\* When Stop of the group answers no error, every worker of it has run and ended,
\* and none of them had an error, up to its last tick, that went unreported;
\* although other goroutines start, clean up and stop the same workers meanwhile.
CleanStopMeansEnded ==
  \A c \in Callers :
    call[c].op = "stopped" /\ ~call[c].failed =>
      \A r \in Runtimes :
        Contains(group.workers, r) => run[r] = "ended" /\ ~rt[r].err

\* A worker that was told to stop ends, whether or not anyone still waits for it,
\* and Stop of the group answers.
StopEnds ==
  /\ \A r \in Runtimes : rt[r].stopped ~> run[r] = "ended"
  /\ \A c \in Callers : call[c].op = "stop" ~> call[c].op = "stopped"

===============================================================================

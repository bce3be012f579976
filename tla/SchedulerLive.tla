----------------------------- MODULE SchedulerLive -----------------------------
(***************************************************************************)
(* What must eventually happen to a job, and what it depends on.           *)
(*                                                                         *)
(* Time has no end here: when the clock reaches MaxClock, Slide moves the  *)
(* whole timeline one second back.  Only differences of instants matter to *)
(* the code, so MaxClock becomes the width of the window in which they are *)
(* kept; instants that leave it stay at its edge, in their half second, as *)
(* long past as anything can be.                                           *)
(***************************************************************************)
EXTENDS Scheduler

\* The window keeps a second apart from its edge whatever a call may sample.
ASSUME WindowAssumption == MaxClock >= 4 + ClockLag

OneSecond == 2
Earlier1s(t) == IF t >= OneSecond THEN t - OneSecond ELSE t

Slide ==
  /\ clock = MaxClock
  /\ clock' = clock - OneSecond
  /\ jobs' = [j \in Jobs |->
                [jobs[j] EXCEPT !.lease = Earlier1s(@), !.next = Earlier1s(@),
                                !.created = Earlier1s(@)]]
  /\ UNCHANGED <<release, attempts, trail, ticket>>

TimePasses   == Tick \/ Slide
WorkerPolls  == \E w \in Workers, j \in Jobs, now \in Sampled : Claim(w, j, now)
RecoveryRuns == \E now \in Sampled : RecoverExpired(now)

LiveNext == Next \/ Slide

\* The steps of a server on which nothing calls RecoverExpired, as in
\* cmd/server/main.go, which builds no recovery service.
ServerNext == LiveNext /\ ~RecoveryRuns

\* Time passes, some process keeps polling for work, and the recovery sweep is
\* called again and again.  A claimed job carries no such promise: its process
\* may die, or renew until MaxVersion and then die.
LiveSpec ==
  /\ Init /\ [][LiveNext]_vars
  /\ WF_vars(TimePasses) /\ WF_vars(WorkerPolls) /\ WF_vars(RecoveryRuns)

ServerSpec ==
  /\ Init /\ [][ServerNext]_vars
  /\ WF_vars(TimePasses) /\ WF_vars(WorkerPolls)

-------------------------------------------------------------------------------

\* Every job that was enqueued ends: it succeeds, or it fails for good.  No job
\* waits forever behind one that used up its attempts, and none keeps its
\* release from being revoked forever.  Under ServerSpec it fails.
EveryJobEnds ==
  \A j \in Jobs : jobs[j].status \in Active ~> jobs[j].status \in Terminal

\* The head of the queue is not jumped: a job that is claimed was due no later
\* than every other job waiting to be claimed at that instant, as the texts of
\* next_attempt_at order them, so a retry goes behind the jobs already due.
OldestFirst ==
  [][\A j, k \in Jobs :
       jobs'[j].attempts > jobs[j].attempts /\ jobs[k].status \in {"queued", "retrying"}
       => TextAtMost(jobs[j].next, jobs[k].next)]_vars

===============================================================================

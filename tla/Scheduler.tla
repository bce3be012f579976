------------------------------- MODULE Scheduler -------------------------------
(***************************************************************************)
(* The compute-job scheduler: tables compute_jobs and compute_attempts,    *)
(* the worker processes that claim jobs under a lease, the recovery sweep, *)
(* and the revocation of the settlement release a job belongs to.          *)
(*                                                                         *)
(* Every service call samples clock.Now() before it opens its transaction, *)
(* and the transaction itself is atomic: storage.Write commits all of it   *)
(* or rolls it back on any error.  So a call is one step here, whose "now" *)
(* is any instant at most ClockLag behind the step; a call that returns an *)
(* error changes nothing and is a stuttering step.  A worker process may   *)
(* never receive the reply of a call that committed, and may stop for good *)
(* at any time.  The processes are not in the repository: they are taken   *)
(* to present only what their own claims, renewals and checkpoints were    *)
(* answered.  (Get also returns the row with its lease token; a process    *)
(* that adopted the token of another from there would be that other.)      *)
(***************************************************************************)
EXTENDS Integers, Sequences, Timestamps

CONSTANTS
  Workers,      \* worker processes
  Account,      \* the user a process authenticates as (principal.UserID)
  Empty,        \* the empty column: an owner or a release that is not set
  Releases,     \* credit_releases rows, all published at the start
  Jobs,         \* job ids, in the order SQLite sorts them
  MaxAttempts,  \* GRIDBANK_WORKER_MAX_ATTEMPTS
  LeaseTTL,     \* GRIDBANK_LEASE_TTL, in ticks
  RetryBase,    \* GRIDBANK_WORKER_RETRY_BASE, in ticks
  ClockLag,     \* how old a call's "now" may be when its transaction commits
  MaxClock,     \* bound: the last tick of a behaviour
  MaxVersion    \* bound: a job at this version is not renewed or checkpointed

ASSUME SchedulerAssumption ==
  /\ Jobs \subseteq Nat
  /\ Account \in [Workers -> {Account[w] : w \in Workers}]
  /\ Empty \notin {Account[w] : w \in Workers}
  /\ Empty \notin Releases
  /\ MaxAttempts \in Nat \ {0}
  /\ LeaseTTL \in Nat \ {0}
  /\ RetryBase \in Nat
  /\ ClockLag \in Nat
  /\ MaxClock \in Nat
  /\ MaxVersion \in Nat

VARIABLES
  clock,     \* the wall clock, in half seconds
  release,   \* credit_releases.status of each release
  jobs,      \* the compute_jobs rows
  attempts,  \* the compute_attempts rows of each job, by attempt number
  trail,     \* per job, the outcomes appended to audit_events and outbox_events
  ticket     \* per process and job, the token and version it last received

vars == <<clock, release, jobs, attempts, trail, ticket>>

-------------------------------------------------------------------------------
Accounts == {Account[w] : w \in Workers}

Active   == {"queued", "running", "retrying"}
Terminal == {"succeeded", "failed"}

\* A compute_jobs row; status "none" stands for no row with that id yet.
\* A lease token is 24 random bytes drawn by each claim: it is named by the
\* attempt number of the claim that drew it, and 0 is the empty column.
JobRow ==
  [status     : {"none"} \cup Active \cup Terminal,
   release    : Releases \cup {Empty},
   owner      : Accounts \cup {Empty},
   token      : Nat,
   lease      : Nat,        \* lease_expires_at; read only while running
   attempts   : 0..MaxAttempts,  \* attempt_count
   checkpoint : BOOLEAN,    \* whether checkpoint is non-empty
   next       : Nat,        \* next_attempt_at
   created    : Nat,
   version    : Nat]

NoJob == [status |-> "none", release |-> Empty, owner |-> Empty, token |-> 0,
          lease |-> 0, attempts |-> 0, checkpoint |-> FALSE, next |-> 0,
          created |-> 0, version |-> 0]

NewJob(r, now) ==
  [status |-> "queued", release |-> r, owner |-> Empty, token |-> 0,
   lease |-> 0, attempts |-> 0, checkpoint |-> FALSE, next |-> now,
   created |-> now, version |-> 1]

\* A compute_attempts row; "running" stands for finished_at IS NULL.  The
\* process is kept beside worker_id, which only names its account.
AttemptRow == [process : Workers,
               outcome : {"running", "retrying"} \cup Terminal]

Ticket   == [token : Nat, version : Nat]
NoTicket == [token |-> 0, version |-> 0]

Outcomes == {"queued", "running", "retrying"} \cup Terminal

TypeOK ==
  /\ clock \in Nat
  /\ release \in [Releases -> {"published", "revoked"}]
  /\ jobs \in [Jobs -> JobRow]
  /\ attempts \in [Jobs -> Seq(AttemptRow)]
  /\ trail \in [Jobs -> Seq(Outcomes)]
  /\ ticket \in [Workers -> [Jobs -> Ticket]]

Init ==
  /\ clock = 0
  /\ release = [r \in Releases |-> "published"]
  /\ jobs = [j \in Jobs |-> NoJob]
  /\ attempts = [j \in Jobs |-> <<>>]
  /\ trail = [j \in Jobs |-> <<>>]
  /\ ticket = [w \in Workers |-> [j \in Jobs |-> NoTicket]]

-------------------------------------------------------------------------------
(* What the calls read and write.                                            *)

\* The instants a call that commits now may have sampled before it began.
Sampled == {t \in 0..clock : clock <= t + ClockLag}

\* math.Pow(2, min(attempt-1, 8)) * RetryBase
Doubling == <<1, 2, 4, 8, 16, 32, 64, 128, 256>>
Backoff(attempt) == RetryBase * Doubling[IF attempt < 9 THEN attempt ELSE 9]

LeaseLive(j, now)    == jobs[j].status = "running" /\ TextLess(now, jobs[j].lease)
LeaseExpired_statusOnly(j, now) == jobs[j].status = "running"
LeaseExpired(j, now) == jobs[j].status = "running" /\ TextAtMost(jobs[j].lease, now)

Exhausted_offByOne(j) == jobs[j].attempts > MaxAttempts
Exhausted(j) == jobs[j].attempts >= MaxAttempts

\* FindDue's WHERE clause, and its ORDER BY ... LIMIT 1.
Due_retriesFailed(j, now) ==
  /\ TextAtMost(jobs[j].next, now)
  /\ jobs[j].status \in {"queued", "retrying", "failed"} \/ LeaseExpired(j, now)
Due(j, now) ==
  /\ TextAtMost(jobs[j].next, now)
  /\ \/ jobs[j].status \in {"queued", "retrying"}
     \/ LeaseExpired(j, now)

Earlier_byId(j, k) == j < k
Earlier(j, k) ==
  LET next(i)    == TextRank(jobs[i].next)
      created(i) == TextRank(jobs[i].created)
  IN  \/ next(j) < next(k)
      \/ next(j) = next(k) /\ created(j) < created(k)
      \/ next(j) = next(k) /\ created(j) = created(k) /\ j < k

FirstDue(j, now) == Due(j, now) /\ \A k \in Jobs \ {j} : Due(k, now) => Earlier(j, k)

\* The identity test of Renew, Checkpoint, Complete and Fail.
Holds_ownerOnly(w, j) == jobs[j].owner = Account[w]
Holds(w, j) ==
  /\ jobs[j].owner = Account[w]
  /\ jobs[j].token = ticket[w][j].token
  /\ jobs[j].version = ticket[w][j].version

\* FinishAttempt finds the attempt row with finished_at IS NULL.
AttemptOpen(j) ==
  /\ jobs[j].attempts \in DOMAIN attempts[j]
  /\ attempts[j][jobs[j].attempts].outcome = "running"

\* One transaction's writes: the job row, its version, and what the handlers add.
WriteJob(j, row) == jobs' = [jobs EXCEPT ![j] = [row EXCEPT !.version = @ + 1]]

FinishAttempt_everyRow(j, outcome) ==
  attempts' = [attempts EXCEPT ![j] = [i \in DOMAIN @ |-> [@[i] EXCEPT !.outcome = outcome]]]
FinishAttempt(j, outcome) ==
  attempts' = [attempts EXCEPT ![j][jobs[j].attempts].outcome = outcome]

AppendEffects(j, outcome) == trail' = [trail EXCEPT ![j] = Append(@, outcome)]

Vacated(row, status) ==
  [row EXCEPT !.status = status, !.owner = Empty, !.token = 0, !.lease = 0]

\* The reply reaches the process, or it is lost after the commit.
Reply(w, j) ==
  \/ ticket' = [ticket EXCEPT ![w][j] = [token   |-> jobs'[j].token,
                                         version |-> jobs'[j].version]]
  \/ ticket' = ticket

-------------------------------------------------------------------------------
(* The calls, one action each.                                               *)

Enqueue(j, r, now) ==
  /\ jobs[j].status = "none"
  /\ release[r] = "published"
  /\ jobs' = [jobs EXCEPT ![j] = NewJob(r, now)]
  /\ AppendEffects(j, "queued")
  /\ UNCHANGED <<clock, release, attempts, ticket>>

\* An exhausted job at the head of the queue makes the call fail: nobody
\* claims anything until RecoverExpired has failed that job.
Claim(w, j, now) ==
  /\ FirstDue(j, now)
  /\ ~Exhausted(j)
  /\ WriteJob(j, [jobs[j] EXCEPT !.status   = "running",
                                 !.owner    = Account[w],
                                 !.token    = jobs[j].attempts + 1,
                                 !.lease    = now + LeaseTTL,
                                 !.attempts = @ + 1])
  /\ attempts' = [attempts EXCEPT ![j] =
                    Append(@, [process |-> w, outcome |-> "running"])]
  /\ AppendEffects(j, "running")
  /\ Reply(w, j)
  /\ UNCHANGED <<clock, release>>

Renew(w, j, now) ==
  /\ Holds(w, j)
  /\ LeaseLive(j, now)
  /\ jobs[j].version < MaxVersion
  /\ WriteJob(j, [jobs[j] EXCEPT !.lease = now + LeaseTTL])
  /\ Reply(w, j)
  /\ UNCHANGED <<clock, release, attempts, trail>>

Checkpoint(w, j, now) ==
  /\ Holds(w, j)
  /\ LeaseLive(j, now)
  /\ jobs[j].version < MaxVersion
  /\ WriteJob(j, [jobs[j] EXCEPT !.checkpoint = TRUE])
  /\ Reply(w, j)
  /\ UNCHANGED <<clock, release, attempts, trail>>

Complete(w, j, now) ==
  /\ Holds(w, j)
  /\ LeaseLive(j, now)
  /\ jobs[j].checkpoint
  /\ AttemptOpen(j)
  /\ WriteJob(j, Vacated(jobs[j], "succeeded"))
  /\ FinishAttempt(j, "succeeded")
  /\ AppendEffects(j, "succeeded")
  /\ UNCHANGED <<clock, release, ticket>>

\* The UPDATE of Fail tests owner, token and version, not lease_expires_at.
Fail(w, j, now, permanent) ==
  LET retry   == ~permanent /\ ~Exhausted(j)
      outcome == IF retry THEN "retrying" ELSE "failed"
      next    == IF retry THEN now + Backoff(jobs[j].attempts) ELSE now
  IN  /\ Holds(w, j)
      /\ jobs[j].status = "running"
      /\ AttemptOpen(j)
      /\ WriteJob(j, [Vacated(jobs[j], outcome) EXCEPT !.next = next])
      /\ FinishAttempt(j, outcome)
      /\ AppendEffects(j, outcome)
      /\ UNCHANGED <<clock, release, ticket>>

\* recovery.recoverSchedulerJobs: every expired job in one transaction.  It
\* finishes no attempt row and appends nothing about the jobs it changes.
Recovered_alwaysRetries(j, now) ==
  [Vacated(jobs[j], "retrying") EXCEPT !.next = now, !.version = @ + 1]
Recovered(j, now) ==
  [Vacated(jobs[j], IF Exhausted(j) THEN "failed" ELSE "retrying")
     EXCEPT !.next = now, !.version = @ + 1]

RecoverExpired(now) ==
  /\ \E j \in Jobs : LeaseExpired(j, now)
  /\ jobs' = [j \in Jobs |-> IF LeaseExpired(j, now) THEN Recovered(j, now) ELSE jobs[j]]
  /\ UNCHANGED <<clock, release, attempts, trail, ticket>>

\* CountActiveJobs, as the set it counts, and the Revoke of the ledger it guards.
ActiveJobs_notRetrying(r) ==
  {j \in Jobs : jobs[j].release = r /\ jobs[j].status \in {"queued", "running"}}
ActiveJobs(r) == {j \in Jobs : jobs[j].release = r /\ jobs[j].status \in Active}

Revoke(r) ==
  /\ release[r] = "published"
  /\ ActiveJobs(r) = {}
  /\ release' = [release EXCEPT ![r] = "revoked"]
  /\ UNCHANGED <<clock, jobs, attempts, trail, ticket>>

Tick ==
  /\ clock < MaxClock
  /\ clock' = clock + 1
  /\ UNCHANGED <<release, jobs, attempts, trail, ticket>>

Next ==
  \/ Tick
  \/ \E r \in Releases : Revoke(r)
  \/ \E now \in Sampled :
       \/ RecoverExpired(now)
       \/ \E j \in Jobs, r \in Releases : Enqueue(j, r, now)
       \/ \E w \in Workers, j \in Jobs :
            \/ Claim(w, j, now)
            \/ Renew(w, j, now)
            \/ Checkpoint(w, j, now)
            \/ Complete(w, j, now)
            \/ \E permanent \in BOOLEAN : Fail(w, j, now, permanent)

Spec == Init /\ [][Next]_vars

-------------------------------------------------------------------------------
(* What the scheduler promises.                                              *)

LastAttempt(j) == attempts[j][Len(attempts[j])]

\* The attempt table tells what happened to the job.  There is one row per
\* claim; a running job's last row is open and belongs to its owner, so the
\* FinishAttempt of Complete and Fail never answers "already finished"; only
\* the last row may hold a final outcome, and then it is the job's status; and
\* a job that succeeded did so in its last attempt.  Rows left "running" by
\* a takeover or by RecoverExpired are allowed: nothing ever closes them.
OneOutcomeOf(j) ==
  /\ Len(attempts[j]) = jobs[j].attempts
  /\ jobs[j].status = "running" =>
       /\ attempts[j] # <<>>
       /\ LastAttempt(j).outcome = "running"
       /\ Account[LastAttempt(j).process] = jobs[j].owner
  /\ \A i \in DOMAIN attempts[j] : attempts[j][i].outcome \in Terminal =>
       /\ i = Len(attempts[j])
       /\ jobs[j].status = attempts[j][i].outcome
  /\ jobs[j].status = "succeeded" =>
       attempts[j] # <<>> /\ LastAttempt(j).outcome = "succeeded"
OneOutcome == \A j \in Jobs : OneOutcomeOf(j)

\* A release is revoked only when no job of it is queued, running or waiting
\* for a retry, and none becomes so afterwards (Enqueue against Revoke, and
\* the retries of Fail and RecoverExpired).
RevokedIsQuiet ==
  \A r \in Releases, j \in Jobs :
    release[r] = "revoked" /\ jobs[j].release = r => jobs[j].status \notin Active

\* A job waiting to be claimed has attempts left, so the claim that finds it
\* at the head of the queue is not refused: only an expired running job can
\* make every claim fail.
WaitingHasBudget ==
  \A j \in Jobs : jobs[j].status \in {"queued", "retrying"} => ~Exhausted(j)

\* The process that made the job's last claim, and whether it still knows the
\* row's token and version (it does not once a reply to it was lost).
Claimant(j) == LastAttempt(j).process
ClaimantIsCurrent(j) ==
  ticket[Claimant(j)][j] = [token |-> jobs[j].token, version |-> jobs[j].version]

\* Of all processes only the claimant can hold the current token and version of
\* a running job, whatever replies were lost and whoever shares its account; and
\* nobody knows a version the row has not reached.
Fenced(w, j) ==
  /\ ticket[w][j].version <= jobs[j].version
  /\ /\ jobs[j].status = "running"
     /\ ticket[w][j] = [token |-> jobs[j].token, version |-> jobs[j].version]
     => w = Claimant(j)
TicketsAreFenced == \A w \in Workers, j \in Jobs : Fenced(w, j)

\* What was announced stays true: an event that tells the end of a job is the
\* last one about it, and the job's row agrees with it.
AnnouncedIsFinal ==
  \A j \in Jobs : \A i \in DOMAIN trail[j] : trail[j][i] \in Terminal =>
    i = Len(trail[j]) /\ jobs[j].status = trail[j][i]

\* Fencing.  While a job runs, only the process that claimed it last, holding
\* the latest token and version, can change the row; every other change waits
\* for the lease to run out.  Processes of one account do not pass for each
\* other, and a process that lost a reply is shut out by its own success.
StaleProcessWritesNothing ==
  [][\A j \in Jobs :
       /\ jobs[j].status = "running"
       /\ jobs'[j] # jobs[j]
       /\ ~ClaimantIsCurrent(j)
       => \E now \in Sampled : TextAtMost(jobs[j].lease, now)]_vars

\* A finished job never changes again, whatever stale process or sweep runs.
TerminalIsFinal ==
  [][\A j \in Jobs : jobs[j].status \in Terminal => jobs'[j] = jobs[j]]_vars

\* The texts are wrong by less than a second: a running job is claimed anew at most
\* one tick before its lease has really run out, and a completion commits at most
\* the call's own delay and one tick after the end of the lease it was made under.
LeasesErrByATick ==
  [][\A j \in Jobs : jobs[j].status = "running" =>
       /\ jobs'[j].attempts # jobs[j].attempts => jobs[j].lease <= clock + 1
       /\ jobs'[j].status = "succeeded" => clock <= jobs[j].lease + ClockLag + 1]_vars

\* A lease excludes other workers until it expires, by the clock.  This is what
\* the README says of claims, and it fails: see the run that refutes it.
NoEarlyTakeover ==
  [][\A j \in Jobs :
       jobs[j].status = "running" /\ jobs'[j].attempts # jobs[j].attempts
       => jobs[j].lease <= clock]_vars

-------------------------------------------------------------------------------
(* The scheduler implements a queue of leased tasks.                         *)

Phase(status) ==
  CASE status = "none"                    -> "absent"
    [] status \in {"queued", "retrying"}  -> "waiting"
    [] status = "running"                 -> "held"
    [] status = "succeeded"               -> "done"
    [] status = "failed"                  -> "dead"

Queue == INSTANCE WorkQueue WITH
  Tasks  <- Jobs,
  Budget <- MaxAttempts,
  phase  <- [j \in Jobs |-> Phase(jobs[j].status)],
  grants <- [j \in Jobs |-> jobs[j].attempts]

\* Every behaviour of the scheduler is one of the abstract task queue.
ImplementsQueue == Queue!Spec

===============================================================================

---------------------------- MODULE SchedulerProofs ----------------------------
(***************************************************************************)
(* The scheduler's safety, for every set of workers, jobs and releases,    *)
(* every lease time, attempt budget and clock lag; and the order in which  *)
(* it serves the queue, under SchedulerLive.  At the end, the order of the *)
(* texts of instants that both rest on, for fractions of any length.       *)
(***************************************************************************)
EXTENDS SchedulerLive, SequenceTheorems, WellFoundedInduction, TLAPS

\* Sampled instants are instants, and the backoff of any attempt is a length.
LEMMA SampledIsNat == ASSUME TypeOK, NEW now \in Sampled PROVE now \in Nat
  BY DEF Sampled, TypeOK

LEMMA BackoffIsNat ==
  ASSUME NEW a \in Nat \ {0} PROVE Backoff(a) \in Nat
<1> DEFINE i == IF a < 9 THEN a ELSE 9
<1>1. i \in 1..9
  OBVIOUS
<1>2. Doubling[i] \in Nat
  BY <1>1 DEF Doubling
<1>3. QED
  BY <1>2, SchedulerAssumption DEF Backoff

\* Writing a value of its type to one column keeps a row a row of the table.
LEMMA ColumnTypes ==
  ASSUME NEW row \in JobRow
  PROVE  /\ \A x \in {"none"} \cup Active \cup Terminal : [row EXCEPT !.status = x] \in JobRow
         /\ \A x \in Accounts \cup {Empty} : [row EXCEPT !.owner = x] \in JobRow
         /\ \A x \in Nat : [row EXCEPT !.token = x] \in JobRow
         /\ \A x \in Nat : [row EXCEPT !.lease = x] \in JobRow
         /\ \A x \in 0..MaxAttempts : [row EXCEPT !.attempts = x] \in JobRow
         /\ \A x \in Nat : [row EXCEPT !.next = x] \in JobRow
         /\ \A x \in Nat : [row EXCEPT !.version = x] \in JobRow
         /\ \A x \in BOOLEAN : [row EXCEPT !.checkpoint = x] \in JobRow
  BY DEF JobRow

\* The row WriteJob writes when the handler gives it a row of the table.
LEMMA WriteJobType ==
  ASSUME TypeOK, NEW j \in Jobs, NEW row \in JobRow, WriteJob(j, row)
  PROVE  /\ jobs' \in [Jobs -> JobRow]
         /\ jobs'[j] = [row EXCEPT !.version = row.version + 1]
         /\ \A k \in Jobs \ {j} : jobs'[k] = jobs[k]
<1>1. [row EXCEPT !.version = row.version + 1] \in JobRow
  BY DEF JobRow
<1>2. QED
  BY <1>1 DEF WriteJob, TypeOK

LEMMA VacatedType ==
  ASSUME NEW row \in JobRow, NEW status \in Active \cup Terminal
  PROVE  /\ Vacated(row, status) \in JobRow
         /\ Vacated(row, status).status = status
         /\ Vacated(row, status).attempts = row.attempts
         /\ Vacated(row, status).release = row.release
         /\ Vacated(row, status).owner = Empty
         /\ Vacated(row, status).version = row.version
  BY DEF Vacated, JobRow

\* A reply hands out a token and a version of the row.
LEMMA ReplyType ==
  ASSUME TypeOK, NEW w \in Workers, NEW j \in Jobs, jobs' \in [Jobs -> JobRow], Reply(w, j)
  PROVE  ticket' \in [Workers -> [Jobs -> Ticket]]
<1> DEFINE received == [token |-> jobs'[j].token, version |-> jobs'[j].version]
<1>1. received \in Ticket
  BY DEF Ticket, JobRow
<1>2. ticket[w] \in [Jobs -> Ticket]
  BY DEF TypeOK
<1> HIDE DEF received
<1>3. [ticket[w] EXCEPT ![j] = received] \in [Jobs -> Ticket]
  BY <1>1, <1>2
<1>4. \/ ticket' = [ticket EXCEPT ![w] = [ticket[w] EXCEPT ![j] = received]]
      \/ ticket' = ticket
  BY DEF Reply, received
<1>5. QED
  BY <1>3, <1>4 DEF TypeOK

LEMMA FinishAttemptType ==
  ASSUME TypeOK, NEW j \in Jobs, AttemptOpen(j),
         NEW outcome \in {"retrying", "succeeded", "failed"}, FinishAttempt(j, outcome)
  PROVE  attempts' \in [Jobs -> Seq(AttemptRow)]
<1> DEFINE n == jobs[j].attempts
           row == [attempts[j][n] EXCEPT !.outcome = outcome]
<1>1. attempts[j] \in Seq(AttemptRow) /\ n \in 1..Len(attempts[j])
  BY DEF TypeOK, AttemptOpen
<1>2. attempts[j][n] \in AttemptRow
  BY <1>1
<1>3. row \in AttemptRow
  BY <1>2 DEF AttemptRow, Terminal
<1>4. [attempts[j] EXCEPT ![n] = row] \in Seq(AttemptRow)
  BY <1>1, <1>3
<1>5. attempts' = [attempts EXCEPT ![j] = [attempts[j] EXCEPT ![n] = row]]
  BY DEF FinishAttempt
<1>6. QED
  BY <1>4, <1>5 DEF TypeOK

LEMMA AppendEffectsType ==
  ASSUME TypeOK, NEW j \in Jobs, NEW outcome \in Outcomes, AppendEffects(j, outcome)
  PROVE  trail' \in [Jobs -> Seq(Outcomes)]
  BY DEF AppendEffects, TypeOK

-------------------------------------------------------------------------------
(* Type correctness, one lemma per call.                                     *)

LEMMA EnqueueType ==
  ASSUME TypeOK, NEW j \in Jobs, NEW r \in Releases, NEW now \in Sampled, Enqueue(j, r, now)
  PROVE  TypeOK'
<1>1. now \in Nat
  BY SampledIsNat
<1>2. NewJob(r, now) \in JobRow
  BY <1>1, SchedulerAssumption DEF NewJob, JobRow, Active
<1>3. trail' \in [Jobs -> Seq(Outcomes)]
  BY AppendEffectsType DEF Enqueue, Outcomes
<1>4. QED
  BY <1>2, <1>3 DEF Enqueue, TypeOK

LEMMA ClaimType ==
  ASSUME TypeOK, NEW w \in Workers, NEW j \in Jobs, NEW now \in Sampled, Claim(w, j, now)
  PROVE  TypeOK'
<1> DEFINE row == [jobs[j] EXCEPT !.status   = "running",
                                  !.owner    = Account[w],
                                  !.token    = jobs[j].attempts + 1,
                                  !.lease    = now + LeaseTTL,
                                  !.attempts = jobs[j].attempts + 1]
<1>1. now \in Nat
  BY SampledIsNat
<1>2. jobs[j] \in JobRow /\ jobs[j].attempts + 1 \in 0..MaxAttempts
  <2>1. jobs[j] \in JobRow
    BY DEF TypeOK
  <2>2. jobs[j].attempts \in 0..MaxAttempts
    BY <2>1 DEF JobRow
  <2>3. ~(jobs[j].attempts >= MaxAttempts)
    BY DEF Claim, Exhausted
  <2> QED
    BY <2>1, <2>2, <2>3, SchedulerAssumption
<1>3. Account[w] \in Accounts /\ now + LeaseTTL \in Nat
  BY <1>1, SchedulerAssumption DEF Accounts
<1>4. row \in JobRow
  <2> DEFINE r1 == [jobs[j] EXCEPT !.status = "running"]
             r2 == [r1 EXCEPT !.owner = Account[w]]
             r3 == [r2 EXCEPT !.token = jobs[j].attempts + 1]
             r4 == [r3 EXCEPT !.lease = now + LeaseTTL]
             r5 == [r4 EXCEPT !.attempts = jobs[j].attempts + 1]
  <2> HIDE DEF r1, r2, r3, r4, r5
  <2>0. jobs[j].attempts + 1 \in Nat
    BY <1>2
  <2>1. r1 \in JobRow
    BY <1>2, ColumnTypes DEF Active, r1
  <2>2. r2 \in JobRow
    BY <1>3, <2>1, ColumnTypes DEF r2
  <2>3. r3 \in JobRow
    BY <2>0, <2>2, ColumnTypes DEF r3
  <2>4. r4 \in JobRow
    BY <1>3, <2>3, ColumnTypes DEF r4
  <2>5. r5 \in JobRow
    BY <1>2, <2>4, ColumnTypes DEF r5
  <2>6. QED
    BY <2>5 DEF r1, r2, r3, r4, r5
<1>5. jobs' \in [Jobs -> JobRow]
  BY <1>4, WriteJobType DEF Claim
<1>6. [process |-> w, outcome |-> "running"] \in AttemptRow
  BY DEF AttemptRow
<1>7. attempts' \in [Jobs -> Seq(AttemptRow)]
  BY <1>6 DEF Claim, TypeOK
<1>8. trail' \in [Jobs -> Seq(Outcomes)]
  BY AppendEffectsType DEF Claim, Outcomes
<1>9. ticket' \in [Workers -> [Jobs -> Ticket]]
  BY <1>5, ReplyType DEF Claim
<1>10. QED
  BY <1>5, <1>7, <1>8, <1>9 DEF Claim, TypeOK

LEMMA RenewType ==
  ASSUME TypeOK, NEW w \in Workers, NEW j \in Jobs, NEW now \in Sampled, Renew(w, j, now)
  PROVE  TypeOK'
<1>1. now \in Nat /\ now + LeaseTTL \in Nat
  BY SampledIsNat, SchedulerAssumption
<1>2. [jobs[j] EXCEPT !.lease = now + LeaseTTL] \in JobRow
  <2>1. jobs[j] \in JobRow
    BY DEF TypeOK
  <2> QED
    BY <1>1, <2>1, ColumnTypes
<1>3. jobs' \in [Jobs -> JobRow]
  BY <1>2, WriteJobType DEF Renew
<1>4. ticket' \in [Workers -> [Jobs -> Ticket]]
  BY <1>3, ReplyType DEF Renew
<1>5. QED
  BY <1>3, <1>4 DEF Renew, TypeOK

LEMMA CheckpointType ==
  ASSUME TypeOK, NEW w \in Workers, NEW j \in Jobs, NEW now \in Sampled, Checkpoint(w, j, now)
  PROVE  TypeOK'
<1>1. [jobs[j] EXCEPT !.checkpoint = TRUE] \in JobRow
  <2>1. jobs[j] \in JobRow
    BY DEF TypeOK
  <2> QED
    BY <2>1, ColumnTypes
<1>2. jobs' \in [Jobs -> JobRow]
  BY <1>1, WriteJobType DEF Checkpoint
<1>3. ticket' \in [Workers -> [Jobs -> Ticket]]
  BY <1>2, ReplyType DEF Checkpoint
<1>4. QED
  BY <1>2, <1>3 DEF Checkpoint, TypeOK

LEMMA CompleteType ==
  ASSUME TypeOK, NEW w \in Workers, NEW j \in Jobs, NEW now \in Sampled, Complete(w, j, now)
  PROVE  TypeOK'
<1>1. Vacated(jobs[j], "succeeded") \in JobRow
  BY VacatedType DEF TypeOK, Terminal
<1>2. jobs' \in [Jobs -> JobRow]
  BY <1>1, WriteJobType DEF Complete
<1>3. attempts' \in [Jobs -> Seq(AttemptRow)]
  BY FinishAttemptType DEF Complete
<1>4. trail' \in [Jobs -> Seq(Outcomes)]
  BY AppendEffectsType DEF Complete, Outcomes, Terminal
<1>5. QED
  BY <1>2, <1>3, <1>4 DEF Complete, TypeOK

LEMMA FailType ==
  ASSUME TypeOK, NEW w \in Workers, NEW j \in Jobs, NEW now \in Sampled,
         NEW permanent \in BOOLEAN, Fail(w, j, now, permanent)
  PROVE  TypeOK'
<1> DEFINE retry   == ~permanent /\ ~Exhausted(j)
           outcome == IF retry THEN "retrying" ELSE "failed"
           next    == IF retry THEN now + Backoff(jobs[j].attempts) ELSE now
<1>1. outcome \in {"retrying", "failed"}
  OBVIOUS
<1>2. jobs[j].attempts \in Nat \ {0}
  BY DEF Fail, AttemptOpen, TypeOK, JobRow
<1>3. next \in Nat
  BY <1>2, SampledIsNat, BackoffIsNat
<1>4. /\ WriteJob(j, [Vacated(jobs[j], outcome) EXCEPT !.next = next])
      /\ FinishAttempt(j, outcome)
      /\ AppendEffects(j, outcome)
      /\ AttemptOpen(j)
      /\ UNCHANGED <<clock, release, ticket>>
  BY DEF Fail
<1> HIDE DEF outcome, next
<1>5. Vacated(jobs[j], outcome) \in JobRow
  BY <1>1, VacatedType DEF TypeOK, Active, Terminal
<1>6. [Vacated(jobs[j], outcome) EXCEPT !.next = next] \in JobRow
  BY <1>3, <1>5 DEF JobRow
<1>7. jobs' \in [Jobs -> JobRow]
  BY <1>4, <1>6, WriteJobType
<1>8. attempts' \in [Jobs -> Seq(AttemptRow)]
  BY <1>1, <1>4, FinishAttemptType
<1>9. trail' \in [Jobs -> Seq(Outcomes)]
  BY <1>1, <1>4, AppendEffectsType DEF Outcomes, Terminal
<1>10. QED
  BY <1>4, <1>7, <1>8, <1>9 DEF TypeOK

LEMMA RecoverExpiredType ==
  ASSUME TypeOK, NEW now \in Sampled, RecoverExpired(now)
  PROVE  TypeOK'
<1>1. ASSUME NEW j \in Jobs PROVE Recovered(j, now) \in JobRow
  <2> DEFINE row      == Vacated(jobs[j], IF Exhausted(j) THEN "failed" ELSE "retrying")
             deferred == [row EXCEPT !.next = now]
  <2>1. row \in JobRow
    BY VacatedType DEF TypeOK, Active, Terminal
  <2>2. Recovered(j, now) = [deferred EXCEPT !.version = row.version + 1]
    BY DEF Recovered
  <2> HIDE DEF row, deferred
  <2>3. now \in Nat /\ row.version + 1 \in Nat
    BY <2>1, SampledIsNat DEF JobRow
  <2>4. deferred \in JobRow
    BY <2>1, <2>3, ColumnTypes DEF deferred
  <2>5. QED
    BY <2>2, <2>3, <2>4, ColumnTypes
<1>2. jobs' \in [Jobs -> JobRow]
  BY <1>1 DEF RecoverExpired, TypeOK
<1>3. QED
  BY <1>2 DEF RecoverExpired, TypeOK

LEMMA InitType == Init => TypeOK
<1>1. NoJob \in JobRow
  BY SchedulerAssumption DEF NoJob, JobRow
<1>2. NoTicket \in Ticket
  BY DEF NoTicket, Ticket
<1>3. QED
  BY <1>1, <1>2 DEF Init, TypeOK

LEMMA NextType == TypeOK /\ [Next]_vars => TypeOK'
<1> SUFFICES ASSUME TypeOK, [Next]_vars PROVE TypeOK'
  OBVIOUS
<1>1. CASE Tick
  BY <1>1 DEF Tick, TypeOK
<1>2. ASSUME NEW r \in Releases, Revoke(r) PROVE TypeOK'
  BY <1>2 DEF Revoke, TypeOK
<1>3. CASE UNCHANGED vars
  BY <1>3 DEF vars, TypeOK
<1>4. QED
  BY <1>1, <1>2, <1>3, EnqueueType, ClaimType, RenewType, CheckpointType,
     CompleteType, FailType, RecoverExpiredType DEF Next

\* Every column of every row keeps its type, and attempt_count never exceeds
\* the budget, however calls, lost replies and recovery sweeps interleave.
THEOREM TypeCorrect == Spec => []TypeOK
  BY InitType, NextType, PTL DEF Spec

-------------------------------------------------------------------------------
(* What each call does to the row, the attempts and the tickets of its job.  *)

\* The other jobs' rows and attempts are left alone.
Untouched(j) ==
  \A k \in Jobs \ {j} : jobs'[k] = jobs[k] /\ attempts'[k] = attempts[k]

LEMMA ReplyEffect ==
  ASSUME TypeOK, NEW w \in Workers, NEW j \in Jobs, Reply(w, j)
  PROVE  \A v \in Workers, k \in Jobs :
           \/ ticket'[v][k] = ticket[v][k]
           \/ /\ v = w /\ k = j
              /\ ticket'[v][k] = [token |-> jobs'[j].token, version |-> jobs'[j].version]
<1> DEFINE received == [token |-> jobs'[j].token, version |-> jobs'[j].version]
<1> HIDE DEF received
<1>1. \/ ticket' = [ticket EXCEPT ![w] = [ticket[w] EXCEPT ![j] = received]]
      \/ ticket' = ticket
  BY DEF Reply, received
<1>2. ticket \in [Workers -> [Jobs -> Ticket]]
  BY DEF TypeOK
<1>3. QED
  BY <1>1, <1>2 DEF received

\* Renew and Checkpoint keep everything but the lease, the checkpoint and the
\* version.
SameJob(j) ==
  /\ jobs'[j].status = jobs[j].status
  /\ jobs'[j].release = jobs[j].release
  /\ jobs'[j].owner = jobs[j].owner
  /\ jobs'[j].token = jobs[j].token
  /\ jobs'[j].attempts = jobs[j].attempts
  /\ jobs'[j].version = jobs[j].version + 1

LEMMA RenewEffect ==
  ASSUME TypeOK, NEW w \in Workers, NEW j \in Jobs, NEW now \in Sampled, Renew(w, j, now)
  PROVE  jobs[j].status = "running" /\ SameJob(j) /\ Untouched(j) /\ attempts' = attempts
<1> DEFINE row == [jobs[j] EXCEPT !.lease = now + LeaseTTL]
<1>1. jobs[j] \in JobRow /\ now + LeaseTTL \in Nat
  BY SampledIsNat, SchedulerAssumption DEF TypeOK
<1>2. /\ row \in JobRow
      /\ row.status = jobs[j].status /\ row.release = jobs[j].release
      /\ row.owner = jobs[j].owner /\ row.token = jobs[j].token
      /\ row.attempts = jobs[j].attempts /\ row.version = jobs[j].version
  BY <1>1 DEF JobRow
<1>3. WriteJob(j, row) /\ jobs[j].status = "running" /\ attempts' = attempts
  BY DEF Renew, LeaseLive
<1> HIDE DEF row
<1>4. /\ jobs'[j] = [row EXCEPT !.version = row.version + 1]
      /\ \A k \in Jobs \ {j} : jobs'[k] = jobs[k]
  BY <1>2, <1>3, WriteJobType
<1>5. QED
  BY <1>2, <1>3, <1>4 DEF SameJob, Untouched, JobRow

LEMMA CheckpointEffect ==
  ASSUME TypeOK, NEW w \in Workers, NEW j \in Jobs, NEW now \in Sampled, Checkpoint(w, j, now)
  PROVE  jobs[j].status = "running" /\ SameJob(j) /\ Untouched(j) /\ attempts' = attempts
<1> DEFINE row == [jobs[j] EXCEPT !.checkpoint = TRUE]
<1>1. jobs[j] \in JobRow
  BY DEF TypeOK
<1>2. /\ row \in JobRow
      /\ row.status = jobs[j].status /\ row.release = jobs[j].release
      /\ row.owner = jobs[j].owner /\ row.token = jobs[j].token
      /\ row.attempts = jobs[j].attempts /\ row.version = jobs[j].version
  BY <1>1 DEF JobRow
<1>3. WriteJob(j, row) /\ jobs[j].status = "running" /\ attempts' = attempts
  BY DEF Checkpoint, LeaseLive
<1> HIDE DEF row
<1>4. /\ jobs'[j] = [row EXCEPT !.version = row.version + 1]
      /\ \A k \in Jobs \ {j} : jobs'[k] = jobs[k]
  BY <1>2, <1>3, WriteJobType
<1>5. QED
  BY <1>2, <1>3, <1>4 DEF SameJob, Untouched, JobRow

\* A claim takes a job that is active and has budget, and opens an attempt.
LEMMA ClaimEffect ==
  ASSUME TypeOK, NEW w \in Workers, NEW j \in Jobs, NEW now \in Sampled, Claim(w, j, now)
  PROVE  /\ jobs[j].status \in Active
         /\ ~Exhausted(j)
         /\ jobs'[j].status = "running"
         /\ jobs'[j].release = jobs[j].release
         /\ jobs'[j].owner = Account[w]
         /\ jobs'[j].attempts = jobs[j].attempts + 1
         /\ jobs'[j].version = jobs[j].version + 1
         /\ attempts'[j] = Append(attempts[j], [process |-> w, outcome |-> "running"])
         /\ Untouched(j)
<1> DEFINE r1 == [jobs[j] EXCEPT !.status = "running"]
           r2 == [r1 EXCEPT !.owner = Account[w]]
           r3 == [r2 EXCEPT !.token = jobs[j].attempts + 1]
           r4 == [r3 EXCEPT !.lease = now + LeaseTTL]
           row == [r4 EXCEPT !.attempts = jobs[j].attempts + 1]
<1>1. /\ jobs[j].status \in Active /\ ~Exhausted(j)
      /\ WriteJob(j, row)
      /\ attempts' = [attempts EXCEPT ![j] =
                        Append(attempts[j], [process |-> w, outcome |-> "running"])]
  BY DEF Claim, FirstDue, Due, LeaseExpired, Active
<1>2. jobs[j] \in JobRow
  BY DEF TypeOK
<1>3. /\ row.status = "running" /\ row.release = jobs[j].release
      /\ row.owner = Account[w] /\ row.attempts = jobs[j].attempts + 1
      /\ row.version = jobs[j].version
      /\ DOMAIN row = DOMAIN jobs[j]
  BY <1>2 DEF JobRow
<1> HIDE DEF row
<1>4. jobs'[j] = [row EXCEPT !.version = row.version + 1]
  BY <1>1 DEF WriteJob, TypeOK
<1>5. DOMAIN row = {"status", "release", "owner", "token", "lease", "attempts",
                    "checkpoint", "next", "created", "version"}
  BY <1>2, <1>3 DEF JobRow
<1>6. Untouched(j)
  BY <1>1 DEF WriteJob, TypeOK, Untouched
<1>7. attempts'[j] = Append(attempts[j], [process |-> w, outcome |-> "running"])
  BY <1>1 DEF TypeOK
<1>8. QED
  BY <1>1, <1>3, <1>4, <1>5, <1>6, <1>7

\* Complete and Fail close the open attempt with the status they give the job.
Ends(j, outcome) ==
  /\ jobs[j].status = "running"
  /\ jobs'[j].status = outcome
  /\ jobs'[j].release = jobs[j].release
  /\ jobs'[j].attempts = jobs[j].attempts
  /\ jobs'[j].version = jobs[j].version + 1
  /\ jobs[j].attempts \in DOMAIN attempts[j]
  /\ Len(attempts'[j]) = Len(attempts[j])
  /\ attempts'[j][jobs[j].attempts].outcome = outcome
  /\ \A i \in DOMAIN attempts[j] \ {jobs[j].attempts} : attempts'[j][i] = attempts[j][i]
  /\ Untouched(j)

LEMMA FinishEffect ==
  ASSUME TypeOK, NEW j \in Jobs, NEW outcome, AttemptOpen(j), FinishAttempt(j, outcome)
  PROVE  /\ jobs[j].attempts \in DOMAIN attempts[j]
         /\ Len(attempts'[j]) = Len(attempts[j])
         /\ attempts'[j][jobs[j].attempts].outcome = outcome
         /\ \A i \in DOMAIN attempts[j] \ {jobs[j].attempts} : attempts'[j][i] = attempts[j][i]
         /\ \A k \in Jobs \ {j} : attempts'[k] = attempts[k]
<1> DEFINE n == jobs[j].attempts
           row == [attempts[j][n] EXCEPT !.outcome = outcome]
<1>1. attempts[j] \in Seq(AttemptRow) /\ n \in DOMAIN attempts[j]
  BY DEF TypeOK, AttemptOpen
<1>2. attempts[j][n] \in AttemptRow
  BY <1>1
<1>3. row.outcome = outcome
  BY <1>2 DEF AttemptRow
<1>4. attempts' = [attempts EXCEPT ![j] = [attempts[j] EXCEPT ![n] = row]]
  BY DEF FinishAttempt
<1> HIDE DEF row, n
<1>5. attempts'[j] = [attempts[j] EXCEPT ![n] = row] /\ \A k \in Jobs \ {j} : attempts'[k] = attempts[k]
  BY <1>4 DEF TypeOK
<1>6. QED
  BY <1>1, <1>3, <1>5 DEF n

LEMMA CompleteEffect ==
  ASSUME TypeOK, NEW w \in Workers, NEW j \in Jobs, NEW now \in Sampled, Complete(w, j, now)
  PROVE  Ends(j, "succeeded")
<1> DEFINE row == Vacated(jobs[j], "succeeded")
<1>1. /\ jobs[j].status = "running" /\ AttemptOpen(j)
      /\ WriteJob(j, row) /\ FinishAttempt(j, "succeeded")
  BY DEF Complete, LeaseLive
<1>2. row \in JobRow /\ row.status = "succeeded" /\ row.attempts = jobs[j].attempts
      /\ row.release = jobs[j].release /\ row.version = jobs[j].version
  BY VacatedType DEF TypeOK, Terminal
<1> HIDE DEF row
<1>3. /\ jobs'[j] = [row EXCEPT !.version = row.version + 1]
      /\ \A k \in Jobs \ {j} : jobs'[k] = jobs[k]
  BY <1>1, <1>2, WriteJobType
<1>4. /\ jobs'[j].status = "succeeded" /\ jobs'[j].release = jobs[j].release
      /\ jobs'[j].attempts = jobs[j].attempts /\ jobs'[j].version = jobs[j].version + 1
  BY <1>2, <1>3 DEF JobRow
<1>5. QED
  BY <1>1, <1>3, <1>4, FinishEffect DEF Ends, Untouched

LEMMA FailEffect ==
  ASSUME TypeOK, NEW w \in Workers, NEW j \in Jobs, NEW now \in Sampled,
         NEW permanent \in BOOLEAN, Fail(w, j, now, permanent)
  PROVE  Ends(j, "failed") \/ (Ends(j, "retrying") /\ ~Exhausted(j))
<1> DEFINE retry   == ~permanent /\ ~Exhausted(j)
           outcome == IF retry THEN "retrying" ELSE "failed"
           next    == IF retry THEN now + Backoff(jobs[j].attempts) ELSE now
           vacated == Vacated(jobs[j], outcome)
           row     == [vacated EXCEPT !.next = next]
<1>1. /\ jobs[j].status = "running" /\ AttemptOpen(j)
      /\ WriteJob(j, row) /\ FinishAttempt(j, outcome)
  BY DEF Fail
<1>2. outcome \in {"failed", "retrying"} /\ (outcome = "retrying" => ~Exhausted(j))
  OBVIOUS
<1>3. jobs[j].attempts \in Nat \ {0}
  BY <1>1 DEF AttemptOpen, TypeOK, JobRow
<1>4. next \in Nat
  BY <1>3, SampledIsNat, BackoffIsNat
<1> HIDE DEF outcome, next
<1>5. /\ vacated \in JobRow /\ vacated.status = outcome
      /\ vacated.attempts = jobs[j].attempts /\ vacated.release = jobs[j].release
      /\ vacated.version = jobs[j].version
  BY <1>2, VacatedType DEF TypeOK, Active, Terminal
<1> HIDE DEF vacated
<1>6. /\ row \in JobRow /\ row.status = outcome
      /\ row.attempts = jobs[j].attempts /\ row.release = jobs[j].release
      /\ row.version = jobs[j].version
  BY <1>4, <1>5 DEF JobRow
<1> HIDE DEF row
<1>7. /\ jobs'[j] = [row EXCEPT !.version = row.version + 1]
      /\ \A k \in Jobs \ {j} : jobs'[k] = jobs[k]
  BY <1>1, <1>6, WriteJobType
<1>8. /\ jobs'[j].status = outcome /\ jobs'[j].release = jobs[j].release
      /\ jobs'[j].attempts = jobs[j].attempts /\ jobs'[j].version = jobs[j].version + 1
  BY <1>6, <1>7 DEF JobRow
<1>9. Ends(j, outcome)
  BY <1>1, <1>7, <1>8, FinishEffect DEF Ends, Untouched
<1>10. QED
  BY <1>2, <1>9

\* The sweep fails or requeues expired jobs and leaves their attempts open.
LEMMA RecoverExpiredEffect ==
  ASSUME TypeOK, NEW now \in Sampled, RecoverExpired(now), NEW j \in Jobs
  PROVE  /\ attempts' = attempts
         /\ \/ jobs'[j] = jobs[j]
            \/ /\ LeaseExpired(j, now)
               /\ \/ jobs'[j].status = "failed"
                  \/ jobs'[j].status = "retrying" /\ ~Exhausted(j)
               /\ jobs'[j].release = jobs[j].release
               /\ jobs'[j].attempts = jobs[j].attempts
               /\ jobs'[j].version = jobs[j].version + 1
<1>1. attempts' = attempts
  BY DEF RecoverExpired
<1>2. CASE ~LeaseExpired(j, now)
  BY <1>1, <1>2 DEF RecoverExpired, TypeOK
<1>3. CASE LeaseExpired(j, now)
  <2> DEFINE row      == Vacated(jobs[j], IF Exhausted(j) THEN "failed" ELSE "retrying")
             deferred == [row EXCEPT !.next = now]
  <2>1. /\ row \in JobRow
        /\ row.status = IF Exhausted(j) THEN "failed" ELSE "retrying"
        /\ row.release = jobs[j].release /\ row.attempts = jobs[j].attempts
        /\ row.version = jobs[j].version
    BY VacatedType DEF TypeOK, Active, Terminal
  <2>2. jobs'[j] = [deferred EXCEPT !.version = row.version + 1]
    BY <1>3 DEF RecoverExpired, Recovered, TypeOK
  <2> HIDE DEF row
  <2>3. /\ jobs'[j].status = row.status /\ jobs'[j].release = row.release
        /\ jobs'[j].attempts = row.attempts /\ jobs'[j].version = row.version + 1
    BY <2>1, <2>2, SampledIsNat DEF JobRow
  <2>4. QED
    BY <1>1, <1>3, <2>1, <2>3
<1>4. QED
  BY <1>2, <1>3

-------------------------------------------------------------------------------
(* The safety invariants.  None but RevokedIsQuiet and WaitingHasBudget is   *)
(* inductive beside TypeOK: an id that is not enqueued must have a blank row *)
(* too, and TicketsAreFenced needs all the others' help to find the claimant.*)

\* An id no job was enqueued under has no claims and no version.
AbsentIsBlank ==
  \A j \in Jobs : jobs[j].status = "none" => jobs[j].attempts = 0 /\ jobs[j].version = 0

LEMMA AbsentIsBlankNext == TypeOK /\ AbsentIsBlank /\ [Next]_vars => AbsentIsBlank'
<1> SUFFICES ASSUME TypeOK, AbsentIsBlank, [Next]_vars, NEW k \in Jobs,
                    jobs'[k].status = "none"
             PROVE  jobs'[k].attempts = 0 /\ jobs'[k].version = 0
  BY DEF AbsentIsBlank
<1>1. CASE UNCHANGED jobs
  BY <1>1 DEF AbsentIsBlank
<1>2. ASSUME NEW j \in Jobs, Untouched(j), jobs'[j].status # "none"
      PROVE  jobs'[k] = jobs[k]
  BY <1>2 DEF Untouched
<1>3. ASSUME NEW j \in Jobs, NEW r \in Releases, NEW now \in Sampled, Enqueue(j, r, now)
      PROVE  jobs'[k] = jobs[k]
  BY <1>3 DEF Enqueue, NewJob, TypeOK
<1>4. ASSUME NEW w \in Workers, NEW j \in Jobs, NEW now \in Sampled
      PROVE  /\ Claim(w, j, now) => jobs'[k] = jobs[k]
             /\ Renew(w, j, now) => jobs'[k] = jobs[k]
             /\ Checkpoint(w, j, now) => jobs'[k] = jobs[k]
             /\ Complete(w, j, now) => jobs'[k] = jobs[k]
             /\ \A permanent \in BOOLEAN : Fail(w, j, now, permanent) => jobs'[k] = jobs[k]
  <2>1. Claim(w, j, now) => jobs'[k] = jobs[k]
    BY <1>2, ClaimEffect
  <2>2. Renew(w, j, now) \/ Checkpoint(w, j, now) => jobs'[k] = jobs[k]
    BY <1>2, RenewEffect, CheckpointEffect DEF SameJob
  <2>3. Complete(w, j, now) => jobs'[k] = jobs[k]
    BY <1>2, CompleteEffect DEF Ends
  <2>4. \A permanent \in BOOLEAN : Fail(w, j, now, permanent) => jobs'[k] = jobs[k]
    BY <1>2, FailEffect DEF Ends
  <2>5. QED
    BY <2>1, <2>2, <2>3, <2>4
<1>5. ASSUME NEW now \in Sampled, RecoverExpired(now) PROVE jobs'[k] = jobs[k]
  BY <1>5, RecoverExpiredEffect
<1>6. QED
  BY <1>1, <1>3, <1>4, <1>5 DEF AbsentIsBlank, Next, Tick, Revoke, vars

LEMMA OneOutcomeKept ==
  ASSUME NEW j \in Jobs, OneOutcomeOf(j), attempts'[j] = attempts[j],
         jobs'[j].status = jobs[j].status, jobs'[j].attempts = jobs[j].attempts,
         jobs'[j].owner = jobs[j].owner
  PROVE  OneOutcomeOf(j)'
  BY DEF OneOutcomeOf, LastAttempt

\* A job that is not finished has no finished attempt.
LEMMA NoneTerminal ==
  ASSUME NEW j \in Jobs, OneOutcomeOf(j), jobs[j].status \notin Terminal
  PROVE  \A i \in DOMAIN attempts[j] : attempts[j][i].outcome \notin Terminal
  BY DEF OneOutcomeOf

LEMMA ClaimOneOutcome ==
  ASSUME TypeOK, OneOutcome, NEW w \in Workers, NEW j \in Jobs, NEW now \in Sampled,
         Claim(w, j, now)
  PROVE  OneOutcomeOf(j)'
<1> DEFINE opened == [process |-> w, outcome |-> "running"]
<1>1. OneOutcomeOf(j) /\ jobs[j].status \notin Terminal
  BY ClaimEffect DEF OneOutcome, Active, Terminal
<1>2. attempts[j] \in Seq(AttemptRow) /\ opened \in AttemptRow
  BY DEF TypeOK, AttemptRow
<1>3. /\ attempts'[j] = Append(attempts[j], opened)
      /\ jobs'[j].status = "running" /\ jobs'[j].owner = Account[w]
      /\ jobs'[j].attempts = jobs[j].attempts + 1
  BY ClaimEffect
<1>4. opened.process = w /\ opened.outcome = "running"
  OBVIOUS
<1> HIDE DEF opened
<1>5. /\ Len(attempts'[j]) = Len(attempts[j]) + 1
      /\ attempts'[j][Len(attempts[j]) + 1] = opened
      /\ \A i \in DOMAIN attempts[j] : attempts'[j][i] = attempts[j][i]
      /\ DOMAIN attempts'[j] = 1..(Len(attempts[j]) + 1)
      /\ DOMAIN attempts[j] = 1..Len(attempts[j])
      /\ Len(attempts[j]) \in Nat
  BY <1>2, <1>3
<1>6. Len(attempts'[j]) = jobs'[j].attempts
  BY <1>1, <1>3, <1>5 DEF OneOutcomeOf
<1>7. attempts'[j] # <<>> /\ attempts'[j][Len(attempts'[j])] = opened
  BY <1>5
<1>8. \A i \in DOMAIN attempts'[j] : attempts'[j][i].outcome \notin Terminal
  <2> SUFFICES ASSUME NEW i \in DOMAIN attempts'[j]
               PROVE  attempts'[j][i].outcome \notin Terminal
    OBVIOUS
  <2>1. CASE i \in DOMAIN attempts[j]
    BY <1>1, <1>5, <2>1, NoneTerminal
  <2>2. CASE i = Len(attempts[j]) + 1
    BY <1>4, <1>5, <2>2 DEF Terminal
  <2>3. QED
    BY <1>5, <2>1, <2>2
<1>9. QED
  BY <1>3, <1>4, <1>6, <1>7, <1>8 DEF OneOutcomeOf, LastAttempt, Terminal

LEMMA EndsOneOutcome ==
  ASSUME TypeOK, OneOutcome, NEW j \in Jobs,
         attempts'[j] \in Seq(AttemptRow),
         NEW outcome \in {"succeeded", "failed", "retrying"}, Ends(j, outcome)
  PROVE  OneOutcomeOf(j)'
<1> DEFINE n == Len(attempts[j])
<1>1. OneOutcomeOf(j) /\ jobs[j].status = "running" /\ jobs[j].status \notin Terminal
  BY DEF OneOutcome, Ends, Terminal
<1>2. /\ attempts[j] \in Seq(AttemptRow)
      /\ DOMAIN attempts'[j] = DOMAIN attempts[j]
  BY DEF TypeOK, Ends
<1>3. n = jobs[j].attempts /\ n \in DOMAIN attempts[j]
  BY <1>1 DEF OneOutcomeOf, Ends
<1>4. \A i \in DOMAIN attempts[j] \ {n} : attempts'[j][i].outcome \notin Terminal
  BY <1>1, <1>3, NoneTerminal DEF Ends
<1>5. attempts'[j] # <<>> /\ attempts'[j][Len(attempts'[j])].outcome = outcome
  BY <1>2, <1>3 DEF Ends
<1>6. QED
  BY <1>1, <1>2, <1>3, <1>4, <1>5 DEF OneOutcomeOf, LastAttempt, Ends, Terminal

LEMMA OneOutcomeNext == TypeOK /\ AbsentIsBlank /\ OneOutcome /\ [Next]_vars => OneOutcome'
<1> SUFFICES ASSUME TypeOK, AbsentIsBlank, OneOutcome, [Next]_vars, NEW k \in Jobs
             PROVE  OneOutcomeOf(k)'
  BY DEF OneOutcome
<1>0. OneOutcomeOf(k) /\ TypeOK'
  BY NextType DEF OneOutcome
<1>1. CASE UNCHANGED <<jobs, attempts>>
  BY <1>0, <1>1, OneOutcomeKept
<1>2. ASSUME NEW j \in Jobs, NEW r \in Releases, NEW now \in Sampled, Enqueue(j, r, now)
      PROVE  OneOutcomeOf(k)'
  <2>1. CASE k = j
    <3>1. /\ jobs[j].status = "none" /\ attempts'[j] = attempts[j]
          /\ jobs'[j] = NewJob(r, now) /\ Len(attempts[j]) = 0
      BY <1>0, <1>2, <2>1 DEF Enqueue, OneOutcomeOf, TypeOK, AbsentIsBlank
    <3>2. QED
      BY <1>0, <2>1, <3>1, NoneTerminal DEF OneOutcomeOf, NewJob, Terminal
  <2>2. CASE k # j
    BY <1>0, <1>2, <2>2, OneOutcomeKept DEF Enqueue, TypeOK
  <2>3. QED
    BY <2>1, <2>2
<1>3. ASSUME NEW j \in Jobs, Untouched(j), k # j PROVE OneOutcomeOf(k)'
  BY <1>0, <1>3, OneOutcomeKept DEF Untouched
<1>4. ASSUME NEW j \in Jobs, SameJob(j), Untouched(j), attempts' = attempts
      PROVE  OneOutcomeOf(k)'
  BY <1>0, <1>3, <1>4, OneOutcomeKept DEF SameJob
<1>5. ASSUME NEW w \in Workers, NEW j \in Jobs, NEW now \in Sampled
      PROVE  /\ Claim(w, j, now) => OneOutcomeOf(k)'
             /\ Renew(w, j, now) => OneOutcomeOf(k)'
             /\ Checkpoint(w, j, now) => OneOutcomeOf(k)'
             /\ Complete(w, j, now) => OneOutcomeOf(k)'
             /\ \A permanent \in BOOLEAN : Fail(w, j, now, permanent) => OneOutcomeOf(k)'
  <2>1. attempts'[j] \in Seq(AttemptRow)
    BY <1>0 DEF TypeOK
  <2>2. \A outcome \in {"succeeded", "failed", "retrying"} : Ends(j, outcome) => OneOutcomeOf(k)'
    BY <1>3, <2>1, EndsOneOutcome DEF Ends
  <2>3. Claim(w, j, now) => OneOutcomeOf(k)'
    BY <1>3, ClaimOneOutcome, ClaimEffect
  <2>4. Renew(w, j, now) \/ Checkpoint(w, j, now) => OneOutcomeOf(k)'
    BY <1>4, RenewEffect, CheckpointEffect
  <2>5. Complete(w, j, now) => OneOutcomeOf(k)'
    BY <2>2, CompleteEffect
  <2>6. \A permanent \in BOOLEAN : Fail(w, j, now, permanent) => OneOutcomeOf(k)'
    BY <2>2, FailEffect
  <2>7. QED
    BY <2>3, <2>4, <2>5, <2>6
<1>6. ASSUME NEW now \in Sampled, RecoverExpired(now) PROVE OneOutcomeOf(k)'
  <2>1. /\ attempts'[k] = attempts[k] /\ jobs'[k].attempts = jobs[k].attempts
        /\ jobs'[k] # jobs[k] =>
             /\ jobs[k].status = "running"
             /\ jobs'[k].status \in {"failed", "retrying"}
    BY <1>6, RecoverExpiredEffect DEF LeaseExpired
  <2>2. CASE jobs'[k] = jobs[k]
    BY <1>0, <2>1, <2>2, OneOutcomeKept
  <2>3. CASE jobs'[k] # jobs[k]
    BY <1>0, <2>1, <2>3, NoneTerminal DEF OneOutcomeOf, Terminal
  <2>4. QED
    BY <2>2, <2>3
<1>7. QED
  BY <1>1, <1>2, <1>5, <1>6 DEF Next, Tick, Revoke, vars

\* The jobs that start, wait or run belong to releases that are published.
LEMMA RevokedIsQuietNext == TypeOK /\ RevokedIsQuiet /\ [Next]_vars => RevokedIsQuiet'
<1> SUFFICES ASSUME TypeOK, RevokedIsQuiet, [Next]_vars,
                    NEW s \in Releases, NEW k \in Jobs,
                    release'[s] = "revoked", jobs'[k].release = s
             PROVE  jobs'[k].status \notin Active
  BY DEF RevokedIsQuiet
<1> DEFINE Quiet == jobs'[k].status \notin Active
           Calm  == /\ release' = release
                    /\ jobs'[k].release = jobs[k].release
                    /\ jobs[k].status \in Active \/ jobs'[k] = jobs[k]
<1>1. Calm => Quiet
  BY DEF RevokedIsQuiet
<1>2. CASE UNCHANGED <<jobs, release>>
  BY <1>1, <1>2
<1>3. ASSUME NEW r \in Releases, Revoke(r) PROVE Quiet
  BY <1>3 DEF Revoke, ActiveJobs, RevokedIsQuiet, TypeOK
<1>4. ASSUME NEW j \in Jobs, NEW r \in Releases, NEW now \in Sampled, Enqueue(j, r, now)
      PROVE  Quiet
  BY <1>1, <1>4 DEF Enqueue, NewJob, TypeOK
<1>5. ASSUME NEW w \in Workers, NEW j \in Jobs, NEW now \in Sampled
      PROVE  /\ Claim(w, j, now) => Quiet
             /\ Renew(w, j, now) => Quiet
             /\ Checkpoint(w, j, now) => Quiet
             /\ Complete(w, j, now) => Quiet
             /\ \A permanent \in BOOLEAN : Fail(w, j, now, permanent) => Quiet
  <2> HIDE DEF Quiet
  <2>1. Claim(w, j, now) => Calm
    BY ClaimEffect DEF Claim, Untouched
  <2>2. Renew(w, j, now) \/ Checkpoint(w, j, now) => Calm
    BY RenewEffect, CheckpointEffect DEF Renew, Checkpoint, SameJob, Untouched, Active
  <2>3. Complete(w, j, now) => Calm
    BY CompleteEffect DEF Complete, Ends, Untouched, Active
  <2>4. \A permanent \in BOOLEAN : Fail(w, j, now, permanent) => Calm
    BY FailEffect DEF Fail, Ends, Untouched, Active
  <2>5. QED
    BY <1>1, <2>1, <2>2, <2>3, <2>4
<1>6. ASSUME NEW now \in Sampled, RecoverExpired(now) PROVE Quiet
  <2>1. Calm
    BY <1>6, RecoverExpiredEffect DEF RecoverExpired, LeaseExpired, Active
  <2>2. QED
    BY <1>1, <2>1
<1>7. QED
  BY <1>2, <1>3, <1>4, <1>5, <1>6 DEF Next, Tick, vars

\* Only Fail and RecoverExpired send a job back to the queue, and they count
\* its attempts first.
LEMMA WaitingHasBudgetNext == TypeOK /\ WaitingHasBudget /\ [Next]_vars => WaitingHasBudget'
<1> SUFFICES ASSUME TypeOK, WaitingHasBudget, [Next]_vars, NEW k \in Jobs,
                    jobs'[k].status \in {"queued", "retrying"}
             PROVE  ~Exhausted(k)'
  BY DEF WaitingHasBudget
<1> DEFINE Spared == \/ jobs'[k] = jobs[k]
                     \/ ~Exhausted(k) /\ jobs'[k].attempts = jobs[k].attempts
                     \/ jobs'[k].attempts = 0
<1>1. Spared => ~Exhausted(k)'
  BY SchedulerAssumption DEF WaitingHasBudget, Exhausted
<1> HIDE DEF Spared
<1>2. CASE UNCHANGED jobs
  BY <1>1, <1>2 DEF Spared
<1>3. ASSUME NEW j \in Jobs, NEW r \in Releases, NEW now \in Sampled, Enqueue(j, r, now)
      PROVE  Spared
  BY <1>3 DEF Enqueue, NewJob, TypeOK, Spared
<1>4. ASSUME NEW w \in Workers, NEW j \in Jobs, NEW now \in Sampled
      PROVE  /\ Claim(w, j, now) => Spared
             /\ Renew(w, j, now) => Spared
             /\ Checkpoint(w, j, now) => Spared
             /\ Complete(w, j, now) => Spared
             /\ \A permanent \in BOOLEAN : Fail(w, j, now, permanent) => Spared
  <2>1. Claim(w, j, now) => Spared
    BY ClaimEffect DEF Untouched, Spared
  <2>2. Renew(w, j, now) \/ Checkpoint(w, j, now) => Spared
    BY RenewEffect, CheckpointEffect DEF SameJob, Untouched, Spared
  <2>3. Complete(w, j, now) => Spared
    BY CompleteEffect DEF Ends, Untouched, Spared
  <2>4. \A permanent \in BOOLEAN : Fail(w, j, now, permanent) => Spared
    BY FailEffect DEF Ends, Untouched, Spared
  <2>5. QED
    BY <2>1, <2>2, <2>3, <2>4
<1>5. ASSUME NEW now \in Sampled, RecoverExpired(now) PROVE Spared
  BY <1>5, RecoverExpiredEffect DEF Spared
<1>6. QED
  BY <1>1, <1>2, <1>3, <1>4, <1>5 DEF Next, Tick, Revoke, vars

\* A ticket stays fenced when its job is left alone ...
LEMMA FencedAlone ==
  ASSUME NEW v \in Workers, NEW k \in Jobs, Fenced(v, k), ticket'[v][k] = ticket[v][k],
         jobs'[k] = jobs[k], attempts'[k] = attempts[k]
  PROVE  Fenced(v, k)'
  BY DEF Fenced, Claimant, LastAttempt

\* ... when a write of its job outruns it ...
LEMMA FencedOutrun ==
  ASSUME TypeOK, NEW v \in Workers, NEW k \in Jobs, Fenced(v, k),
         ticket'[v][k] = ticket[v][k], jobs'[k].version = jobs[k].version + 1
  PROVE  Fenced(v, k)'
<1>1. ticket[v][k].version \in Nat /\ jobs[k].version \in Nat
  BY DEF TypeOK, Ticket, JobRow
<1>2. ticket'[v][k].version < jobs'[k].version
  BY <1>1 DEF Fenced
<1>3. ticket'[v][k].version <= jobs'[k].version /\ ticket'[v][k].version # jobs'[k].version
  BY <1>1, <1>2
<1>4. ticket'[v][k] # [token |-> jobs'[k].token, version |-> jobs'[k].version]
  BY <1>3
<1>5. QED
  BY <1>3, <1>4 DEF Fenced

\* ... and when it is the reply to the job's last claimant.
LEMMA FencedReceived ==
  ASSUME TypeOK', NEW v \in Workers, NEW k \in Jobs, v = Claimant(k)',
         ticket'[v][k] = [token |-> jobs'[k].token, version |-> jobs'[k].version]
  PROVE  Fenced(v, k)'
  BY DEF Fenced, TypeOK, JobRow

\* A call that bumps the version of j and replies to j's claimant, or to nobody.
LEMMA FencedWrite ==
  ASSUME TypeOK, TypeOK', NEW w \in Workers, NEW j \in Jobs, Untouched(j),
         jobs'[j].version = jobs[j].version + 1,
         ticket' = ticket \/ (Reply(w, j) /\ w = Claimant(j)'),
         NEW v \in Workers, NEW k \in Jobs, Fenced(v, k)
  PROVE  Fenced(v, k)'
<1>1. \/ ticket'[v][k] = ticket[v][k]
      \/ /\ v = w /\ k = j /\ w = Claimant(j)'
         /\ ticket'[v][k] = [token |-> jobs'[j].token, version |-> jobs'[j].version]
  BY ReplyEffect
<1>2. CASE k # j
  BY <1>1, <1>2, FencedAlone DEF Untouched
<1>3. CASE k = j /\ ticket'[v][k] = ticket[v][k]
  BY <1>3, FencedOutrun
<1>4. CASE k = j /\ v = w /\ w = Claimant(j)'
           /\ ticket'[v][k] = [token |-> jobs'[j].token, version |-> jobs'[j].version]
  BY <1>4, FencedReceived
<1>5. QED
  BY <1>1, <1>2, <1>3, <1>4

LEMMA TicketsAreFencedNext ==
  TypeOK /\ AbsentIsBlank /\ TicketsAreFenced /\ [Next]_vars => TicketsAreFenced'
<1> SUFFICES ASSUME TypeOK, AbsentIsBlank, TicketsAreFenced, [Next]_vars,
                    NEW v \in Workers, NEW k \in Jobs
             PROVE  Fenced(v, k)'
  BY DEF TicketsAreFenced
<1>0. Fenced(v, k) /\ TypeOK'
  BY NextType DEF TicketsAreFenced
<1>1. CASE UNCHANGED <<jobs, attempts, ticket>>
  BY <1>0, <1>1, FencedAlone
<1>2. ASSUME NEW j \in Jobs, NEW r \in Releases, NEW now \in Sampled, Enqueue(j, r, now)
      PROVE  Fenced(v, k)'
  <2>1. /\ ticket' = ticket /\ attempts' = attempts
        /\ jobs'[j].version = jobs[j].version + 1
        /\ Untouched(j)
    BY <1>2 DEF Enqueue, NewJob, AbsentIsBlank, TypeOK, Untouched
  <2>2. QED
    BY <1>0, <2>1, FencedWrite
<1>3. ASSUME NEW w \in Workers, NEW j \in Jobs, NEW now \in Sampled
      PROVE  /\ Claim(w, j, now) => Fenced(v, k)'
             /\ Renew(w, j, now) => Fenced(v, k)'
             /\ Checkpoint(w, j, now) => Fenced(v, k)'
             /\ Complete(w, j, now) => Fenced(v, k)'
             /\ \A permanent \in BOOLEAN : Fail(w, j, now, permanent) => Fenced(v, k)'
  <2>1. ASSUME Claim(w, j, now) PROVE Fenced(v, k)'
    <3> DEFINE opened == [process |-> w, outcome |-> "running"]
    <3>1. attempts'[j] = Append(attempts[j], opened) /\ opened.process = w
      BY <2>1, ClaimEffect
    <3> HIDE DEF opened
    <3>2. attempts[j] \in Seq(AttemptRow)
      BY DEF TypeOK
    <3>3. Claimant(j)' = w
      BY <3>1, <3>2 DEF Claimant, LastAttempt
    <3>4. Reply(w, j)
      BY <2>1 DEF Claim
    <3>5. QED
      BY <1>0, <2>1, <3>3, <3>4, ClaimEffect, FencedWrite
  <2>2. ASSUME Renew(w, j, now) \/ Checkpoint(w, j, now) PROVE Fenced(v, k)'
    <3>1. /\ Holds(w, j) /\ Reply(w, j) /\ attempts' = attempts
          /\ jobs[j].status = "running" /\ SameJob(j) /\ Untouched(j)
      BY <2>2, RenewEffect, CheckpointEffect DEF Renew, Checkpoint
    <3>2. ticket[w][j] = [token |-> jobs[j].token, version |-> jobs[j].version]
      BY <3>1 DEF Holds, TypeOK, Ticket
    <3>3. w = Claimant(j)
      BY <3>1, <3>2 DEF TicketsAreFenced, Fenced
    <3>4. w = Claimant(j)'
      BY <3>1, <3>3 DEF Claimant, LastAttempt
    <3>5. QED
      BY <1>0, <3>1, <3>4, FencedWrite DEF SameJob
  <2>3. ASSUME Complete(w, j, now) PROVE Fenced(v, k)'
    BY <1>0, <2>3, CompleteEffect, FencedWrite DEF Complete, Ends
  <2>4. ASSUME NEW permanent \in BOOLEAN, Fail(w, j, now, permanent) PROVE Fenced(v, k)'
    BY <1>0, <2>4, FailEffect, FencedWrite DEF Fail, Ends
  <2>5. QED
    BY <2>1, <2>2, <2>3, <2>4
<1>4. ASSUME NEW now \in Sampled, RecoverExpired(now) PROVE Fenced(v, k)'
  <2>1. /\ ticket' = ticket /\ attempts' = attempts
        /\ jobs'[k] = jobs[k] \/ jobs'[k].version = jobs[k].version + 1
    BY <1>4, RecoverExpiredEffect DEF RecoverExpired
  <2>2. QED
    BY <1>0, <2>1, FencedAlone, FencedOutrun
<1>5. QED
  BY <1>1, <1>2, <1>3, <1>4 DEF Next, Tick, Revoke, vars

-------------------------------------------------------------------------------
(* The inductive invariant, and what follows from it.                        *)

IInv ==
  /\ TypeOK
  /\ AbsentIsBlank
  /\ OneOutcome
  /\ RevokedIsQuiet
  /\ WaitingHasBudget
  /\ TicketsAreFenced

LEMMA InitInductive == Init => IInv
<1> SUFFICES ASSUME Init PROVE IInv
  OBVIOUS
<1>1. TypeOK
  BY InitType
<1>2. AbsentIsBlank /\ RevokedIsQuiet /\ WaitingHasBudget
  BY DEF Init, NoJob, AbsentIsBlank, RevokedIsQuiet, WaitingHasBudget
<1>3. OneOutcome
  BY DEF Init, NoJob, OneOutcome, OneOutcomeOf
<1>4. TicketsAreFenced
  BY DEF Init, NoJob, NoTicket, TicketsAreFenced, Fenced
<1>5. QED
  BY <1>1, <1>2, <1>3, <1>4 DEF IInv

LEMMA NextInductive == IInv /\ [Next]_vars => IInv'
  BY NextType, AbsentIsBlankNext, OneOutcomeNext, RevokedIsQuietNext, WaitingHasBudgetNext,
     TicketsAreFencedNext DEF IInv

LEMMA Inductive == Spec => []IInv
  BY InitInductive, NextInductive, PTL DEF Spec

\* The attempt table always tells what happened to the job.
THEOREM AttemptsTellTheJob == Spec => []OneOutcome
<1>1. IInv => OneOutcome
  BY DEF IInv
<1>2. QED
  BY <1>1, Inductive, PTL

\* No job of a revoked release is queued, running or waiting for a retry.
THEOREM RevokedStaysQuiet == Spec => []RevokedIsQuiet
<1>1. IInv => RevokedIsQuiet
  BY DEF IInv
<1>2. QED
  BY <1>1, Inductive, PTL

\* A waiting job can always be claimed once more.
THEOREM WaitingKeepsBudget == Spec => []WaitingHasBudget
<1>1. IInv => WaitingHasBudget
  BY DEF IInv
<1>2. QED
  BY <1>1, Inductive, PTL

\* Only the last claimant of a running job can hold its token and version.
THEOREM TicketsFence == Spec => []TicketsAreFenced
<1>1. IInv => TicketsAreFenced
  BY DEF IInv
<1>2. QED
  BY <1>1, Inductive, PTL

-------------------------------------------------------------------------------
(* What a step may never do.                                                 *)

LEMMA TerminalStep ==
  ASSUME TypeOK, [Next]_vars, NEW k \in Jobs, jobs[k].status \in Terminal
  PROVE  jobs'[k] = jobs[k]
<1>1. CASE UNCHANGED jobs
  BY <1>1
<1>2. ASSUME NEW j \in Jobs, Untouched(j), jobs[j].status \notin Terminal
      PROVE  jobs'[k] = jobs[k]
  BY <1>2 DEF Untouched
<1>3. ASSUME NEW j \in Jobs, NEW r \in Releases, NEW now \in Sampled, Enqueue(j, r, now)
      PROVE  jobs'[k] = jobs[k]
  BY <1>3 DEF Enqueue, TypeOK, Terminal
<1>4. ASSUME NEW w \in Workers, NEW j \in Jobs, NEW now \in Sampled
      PROVE  /\ Claim(w, j, now) => jobs'[k] = jobs[k]
             /\ Renew(w, j, now) => jobs'[k] = jobs[k]
             /\ Checkpoint(w, j, now) => jobs'[k] = jobs[k]
             /\ Complete(w, j, now) => jobs'[k] = jobs[k]
             /\ \A permanent \in BOOLEAN : Fail(w, j, now, permanent) => jobs'[k] = jobs[k]
  <2>1. Claim(w, j, now) => jobs'[k] = jobs[k]
    BY <1>2, ClaimEffect DEF Active, Terminal
  <2>2. Renew(w, j, now) \/ Checkpoint(w, j, now) => jobs'[k] = jobs[k]
    BY <1>2, RenewEffect, CheckpointEffect DEF Terminal
  <2>3. Complete(w, j, now) => jobs'[k] = jobs[k]
    BY <1>2, CompleteEffect DEF Ends, Terminal
  <2>4. \A permanent \in BOOLEAN : Fail(w, j, now, permanent) => jobs'[k] = jobs[k]
    BY <1>2, FailEffect DEF Ends, Terminal
  <2>5. QED
    BY <2>1, <2>2, <2>3, <2>4
<1>5. ASSUME NEW now \in Sampled, RecoverExpired(now) PROVE jobs'[k] = jobs[k]
  BY <1>5, RecoverExpiredEffect DEF LeaseExpired, Terminal
<1>6. QED
  BY <1>1, <1>3, <1>4, <1>5 DEF Next, Tick, Revoke, vars

\* A job that succeeded or failed is never written again.
THEOREM TerminalStays == Spec => TerminalIsFinal
<1>1. TypeOK /\ [Next]_vars => [\A j \in Jobs : jobs[j].status \in Terminal => jobs'[j] = jobs[j]]_vars
  BY TerminalStep
<1>2. QED
  BY <1>1, TypeCorrect, PTL DEF Spec, TerminalIsFinal

LEMMA StaleStep ==
  ASSUME IInv, [Next]_vars, NEW k \in Jobs, jobs[k].status = "running",
         jobs'[k] # jobs[k], ~ClaimantIsCurrent(k)
  PROVE  \E now \in Sampled : TextAtMost(jobs[k].lease, now)
<1>1. ASSUME NEW j \in Jobs, Untouched(j) PROVE j = k
  BY <1>1 DEF Untouched
<1>2. ASSUME NEW w \in Workers PROVE ~Holds(w, k)
  <2> SUFFICES ASSUME Holds(w, k) PROVE ClaimantIsCurrent(k)
    OBVIOUS
  <2>1. ticket[w][k] = [token |-> jobs[k].token, version |-> jobs[k].version]
    BY DEF Holds, IInv, TypeOK, Ticket
  <2>2. w = Claimant(k)
    BY <2>1 DEF IInv, TicketsAreFenced, Fenced
  <2>3. QED
    BY <2>1, <2>2 DEF ClaimantIsCurrent
<1>3. ASSUME NEW j \in Jobs, NEW r \in Releases, NEW now \in Sampled, Enqueue(j, r, now)
      PROVE  FALSE
  BY <1>3 DEF Enqueue, IInv, TypeOK
<1>4. ASSUME NEW w \in Workers, NEW j \in Jobs, NEW now \in Sampled
      PROVE  /\ Claim(w, j, now) => TextAtMost(jobs[k].lease, now)
             /\ ~Renew(w, j, now)
             /\ ~Checkpoint(w, j, now)
             /\ ~Complete(w, j, now)
             /\ \A permanent \in BOOLEAN : ~Fail(w, j, now, permanent)
  <2>1. Claim(w, j, now) => TextAtMost(jobs[k].lease, now)
    BY <1>1, ClaimEffect DEF IInv, Claim, FirstDue, Due, LeaseExpired
  <2>2. ~Renew(w, j, now) /\ ~Checkpoint(w, j, now)
    BY <1>1, <1>2, RenewEffect, CheckpointEffect DEF IInv, Renew, Checkpoint
  <2>3. ~Complete(w, j, now)
    BY <1>1, <1>2, CompleteEffect DEF IInv, Complete, Ends
  <2>4. \A permanent \in BOOLEAN : ~Fail(w, j, now, permanent)
    BY <1>1, <1>2, FailEffect DEF IInv, Fail, Ends
  <2>5. QED
    BY <2>1, <2>2, <2>3, <2>4
<1>5. ASSUME NEW now \in Sampled, RecoverExpired(now) PROVE TextAtMost(jobs[k].lease, now)
  BY <1>5, RecoverExpiredEffect DEF IInv, LeaseExpired
<1>6. QED
  BY <1>3, <1>4, <1>5 DEF Next, Tick, Revoke, vars

\* Fencing: no process but the current claimant writes a running job before its
\* lease has run out by the text comparison.
THEOREM StaleIsFenced == Spec => StaleProcessWritesNothing
<1>1. IInv /\ [Next]_vars =>
        [\A j \in Jobs :
           /\ jobs[j].status = "running"
           /\ jobs'[j] # jobs[j]
           /\ ~ClaimantIsCurrent(j)
           => \E now \in Sampled : TextAtMost(jobs[j].lease, now)]_vars
  BY StaleStep
<1>2. QED
  BY <1>1, Inductive, PTL DEF Spec, StaleProcessWritesNothing

-------------------------------------------------------------------------------
(* What was announced, and how far the texts of instants are off.            *)

\* The event a call appends about the job it writes.
LEMMA FailAnnounces ==
  ASSUME TypeOK, NEW w \in Workers, NEW j \in Jobs, NEW now \in Sampled,
         NEW permanent \in BOOLEAN, Fail(w, j, now, permanent)
  PROVE  AppendEffects(j, jobs'[j].status)
<1> DEFINE outcome == IF ~permanent /\ ~Exhausted(j) THEN "retrying" ELSE "failed"
<1>1. AttemptOpen(j) /\ FinishAttempt(j, outcome) /\ AppendEffects(j, outcome)
  BY DEF Fail
<1> HIDE DEF outcome
<1>2. attempts'[j][jobs[j].attempts].outcome = outcome
  BY <1>1, FinishEffect
<1>3. attempts'[j][jobs[j].attempts].outcome = jobs'[j].status
  BY FailEffect DEF Ends
<1>4. QED
  BY <1>1, <1>2, <1>3

\* A step appends about a job at most what it does to it, and to a job that has
\* ended it does nothing.
Announces(k) ==
  \/ trail'[k] = trail[k] /\ (jobs[k].status \in Terminal => jobs'[k] = jobs[k])
  \/ /\ jobs[k].status \notin Terminal
     /\ \E outcome \in Outcomes : /\ trail'[k] = Append(trail[k], outcome)
                                  /\ outcome \in Terminal => jobs'[k].status = outcome

LEMMA AppendsToOne ==
  ASSUME TypeOK, NEW j \in Jobs, NEW outcome \in Outcomes, AppendEffects(j, outcome)
  PROVE  /\ trail'[j] = Append(trail[j], outcome)
         /\ \A k \in Jobs \ {j} : trail'[k] = trail[k]
BY DEF AppendEffects, TypeOK

LEMMA EveryStepAnnounces ==
  ASSUME TypeOK, [Next]_vars, NEW k \in Jobs PROVE Announces(k)
<1>1. jobs[k].status \in Terminal => jobs'[k] = jobs[k]
  BY TerminalStep
<1>2. CASE UNCHANGED trail
  BY <1>1, <1>2 DEF Announces
<1>3. ASSUME NEW j \in Jobs, NEW outcome \in Outcomes, AppendEffects(j, outcome),
             jobs[j].status \notin Terminal,
             outcome \in Terminal => jobs'[j].status = outcome
      PROVE  Announces(k)
  <2>1. CASE k = j
    BY <1>3, <2>1, AppendsToOne DEF Announces
  <2>2. CASE k # j
    BY <1>1, <1>3, <2>2, AppendsToOne DEF Announces
  <2>3. QED
    BY <2>1, <2>2
<1>4. ASSUME NEW j \in Jobs, NEW r \in Releases, NEW now \in Sampled, Enqueue(j, r, now)
      PROVE  Announces(k)
  BY <1>3, <1>4 DEF Enqueue, Outcomes, Terminal
<1>5. ASSUME NEW w \in Workers, NEW j \in Jobs, NEW now \in Sampled
      PROVE  /\ Claim(w, j, now) => Announces(k)
             /\ Renew(w, j, now) \/ Checkpoint(w, j, now) => Announces(k)
             /\ Complete(w, j, now) => Announces(k)
             /\ \A permanent \in BOOLEAN : Fail(w, j, now, permanent) => Announces(k)
  <2>1. ASSUME Claim(w, j, now) PROVE Announces(k)
    <3>1. AppendEffects(j, "running") /\ jobs[j].status \notin Terminal
      BY <2>1, ClaimEffect DEF Claim, Active, Terminal
    <3>2. QED
      BY <1>3, <3>1 DEF Outcomes, Terminal
  <2>2. Renew(w, j, now) \/ Checkpoint(w, j, now) => Announces(k)
    BY <1>2 DEF Renew, Checkpoint
  <2>3. ASSUME Complete(w, j, now) PROVE Announces(k)
    <3>1. AppendEffects(j, "succeeded") /\ jobs[j].status \notin Terminal
          /\ jobs'[j].status = "succeeded"
      BY <2>3, CompleteEffect DEF Complete, Ends, Terminal
    <3>2. QED
      BY <1>3, <3>1 DEF Outcomes, Terminal
  <2>4. ASSUME NEW permanent \in BOOLEAN, Fail(w, j, now, permanent) PROVE Announces(k)
    <3>1. AppendEffects(j, jobs'[j].status)
      BY <2>4, FailAnnounces
    <3>2. jobs[j].status \notin Terminal /\ jobs'[j].status \in Outcomes
      BY <2>4, FailEffect DEF Ends, Terminal, Outcomes
    <3>3. QED
      BY <1>3, <3>1, <3>2
  <2>5. QED
    BY <2>1, <2>2, <2>3, <2>4
<1>6. ASSUME NEW now \in Sampled, RecoverExpired(now) PROVE Announces(k)
  BY <1>2, <1>6 DEF RecoverExpired
<1>7. QED
  BY <1>2, <1>4, <1>5, <1>6 DEF Next, Tick, Revoke, vars

LEMMA AnnouncedStaysFinal ==
  TypeOK /\ AnnouncedIsFinal /\ [Next]_vars => AnnouncedIsFinal'
<1> SUFFICES ASSUME TypeOK, AnnouncedIsFinal, [Next]_vars, NEW k \in Jobs,
                    NEW i \in DOMAIN trail'[k], trail'[k][i] \in Terminal
             PROVE  i = Len(trail'[k]) /\ jobs'[k].status = trail'[k][i]
  BY DEF AnnouncedIsFinal
<1>1. Announces(k) /\ trail[k] \in Seq(Outcomes)
  BY EveryStepAnnounces DEF TypeOK
<1>2. \A n \in DOMAIN trail[k] : trail[k][n] \in Terminal =>
        n = Len(trail[k]) /\ jobs[k].status = trail[k][n]
  BY DEF AnnouncedIsFinal
<1>3. CASE trail'[k] = trail[k] /\ (jobs[k].status \in Terminal => jobs'[k] = jobs[k])
  BY <1>2, <1>3
<1>4. ASSUME NEW outcome \in Outcomes, trail'[k] = Append(trail[k], outcome),
             outcome \in Terminal => jobs'[k].status = outcome,
             jobs[k].status \notin Terminal
      PROVE  i = Len(trail'[k]) /\ jobs'[k].status = trail'[k][i]
  <2>1. \A n \in DOMAIN trail[k] : trail[k][n] \notin Terminal
    BY <1>2, <1>4
  <2>2. i \in 1..(Len(trail[k]) + 1) /\ Len(trail'[k]) = Len(trail[k]) + 1
    BY <1>1, <1>4
  <2>3. i = Len(trail[k]) + 1
    BY <1>1, <1>4, <2>1, <2>2
  <2>4. QED
    BY <1>1, <1>4, <2>2, <2>3
<1>5. QED
  BY <1>1, <1>3, <1>4 DEF Announces

\* An event that tells the end of a job is the last one and agrees with its row.
THEOREM EndsAreAnnouncedOnce == Spec => []AnnouncedIsFinal
<1>1. Init => AnnouncedIsFinal
  BY DEF Init, AnnouncedIsFinal
<1>2. QED
  BY <1>1, AnnouncedStaysFinal, TypeCorrect, PTL DEF Spec

\* Texts order instants wrongly only within one second.
LEMMA TextsAreOffByATick ==
  ASSUME NEW s \in Nat, NEW t \in Nat
  PROVE  /\ TextAtMost(s, t) => s <= t + 1
         /\ TextLess(s, t) => s <= t + 1
BY DEF TextAtMost, TextLess, TextRank

\* A takeover comes at most a tick early; a completion is late by no more than the
\* age of its instant and a tick.
THEOREM LeasesErrLittle == Spec => LeasesErrByATick
<1> DEFINE OnTime(k) == jobs[k].status = "running" =>
             /\ jobs'[k].attempts # jobs[k].attempts => jobs[k].lease <= clock + 1
             /\ jobs'[k].status = "succeeded" => clock <= jobs[k].lease + ClockLag + 1
<1>1. ASSUME TypeOK, [Next]_vars, NEW k \in Jobs PROVE OnTime(k)
  <2> SUFFICES ASSUME jobs[k].status = "running" PROVE OnTime(k)
    OBVIOUS
  <2>1. jobs[k] \in JobRow /\ jobs[k].lease \in Nat /\ clock \in Nat /\ ClockLag \in Nat
    BY <1>1, SchedulerAssumption DEF TypeOK, JobRow
  <2>2. CASE jobs'[k].attempts = jobs[k].attempts /\ jobs'[k].status # "succeeded"
    BY <2>2
  <2>3. ASSUME NEW w \in Workers, NEW j \in Jobs, NEW now \in Sampled, Claim(w, j, now)
        PROVE  OnTime(k)
    <3>1. CASE k = j
      <4>1. TextAtMost(jobs[k].lease, now) /\ now \in Nat /\ now <= clock
        BY <1>1, <2>1, <2>3, <3>1, SampledIsNat
           DEF Claim, FirstDue, Due, LeaseExpired, Sampled
      <4>2. jobs[k].lease <= clock + 1
        BY <2>1, <4>1, TextsAreOffByATick
      <4>3. jobs'[k].status = "running"
        BY <1>1, <2>3, <3>1, ClaimEffect
      <4>4. QED
        BY <4>2, <4>3
    <3>2. CASE k # j
      BY <1>1, <2>2, <2>3, <3>2, ClaimEffect DEF Untouched
    <3>3. QED
      BY <3>1, <3>2
  <2>4. ASSUME NEW w \in Workers, NEW j \in Jobs, NEW now \in Sampled, Complete(w, j, now)
        PROVE  OnTime(k)
    <3>1. CASE k = j
      <4>1. TextLess(now, jobs[k].lease) /\ now \in Nat /\ clock <= now + ClockLag
        BY <1>1, <2>4, <3>1, SampledIsNat DEF Complete, LeaseLive, Sampled
      <4>2. clock <= jobs[k].lease + ClockLag + 1
        BY <2>1, <4>1, TextsAreOffByATick
      <4>3. jobs'[k].attempts = jobs[k].attempts
        BY <1>1, <2>4, <3>1, CompleteEffect DEF Ends
      <4>4. QED
        BY <4>2, <4>3
    <3>2. CASE k # j
      BY <1>1, <2>2, <2>4, <3>2, CompleteEffect DEF Ends, Untouched
    <3>3. QED
      BY <3>1, <3>2
  <2>5. ASSUME NEW w \in Workers, NEW j \in Jobs, NEW now \in Sampled,
               \/ Renew(w, j, now) \/ Checkpoint(w, j, now)
               \/ \E permanent \in BOOLEAN : Fail(w, j, now, permanent)
        PROVE  OnTime(k)
    <3>1. CASE Renew(w, j, now) \/ Checkpoint(w, j, now)
      BY <1>1, <2>2, <3>1, RenewEffect, CheckpointEffect DEF SameJob, Untouched
    <3>2. ASSUME NEW permanent \in BOOLEAN, Fail(w, j, now, permanent) PROVE OnTime(k)
      BY <1>1, <2>2, <3>2, FailEffect DEF Ends, Untouched
    <3>3. QED
      BY <2>5, <3>1, <3>2
  <2>6. ASSUME NEW now \in Sampled, RecoverExpired(now) PROVE OnTime(k)
    BY <1>1, <2>2, <2>6, RecoverExpiredEffect
  <2>7. ASSUME NEW j \in Jobs, NEW r \in Releases, NEW now \in Sampled, Enqueue(j, r, now)
        PROVE  OnTime(k)
    BY <1>1, <2>2, <2>7 DEF Enqueue, TypeOK
  <2>8. CASE UNCHANGED jobs
    BY <2>2, <2>8
  <2> HIDE DEF OnTime
  <2>9. QED
    BY <1>1, <2>3, <2>4, <2>5, <2>6, <2>7, <2>8 DEF Next, Tick, Revoke, vars
<1>2. TypeOK /\ [Next]_vars => [\A j \in Jobs : OnTime(j)]_vars
  BY <1>1
<1>3. QED
  BY <1>2, TypeCorrect, PTL DEF Spec, LeasesErrByATick

-------------------------------------------------------------------------------
(* The scheduler implements the abstract task queue.                         *)

\* The phases of a job's row, one status at a time.
LEMMA Phases ==
  /\ Phase("none") = "absent" /\ Phase("queued") = "waiting"
  /\ Phase("retrying") = "waiting" /\ Phase("running") = "held"
  /\ Phase("succeeded") = "done" /\ Phase("failed") = "dead"
  BY DEF Phase

\* How the queue's task moves, said of the job it stands for.
TaskMoves(k) ==
  \/ /\ jobs'[k].status = jobs[k].status /\ jobs'[k].attempts = jobs[k].attempts
  \/ /\ jobs[k].status = "none" /\ jobs'[k].status = "queued"
     /\ jobs'[k].attempts = jobs[k].attempts
  \/ /\ jobs[k].status \in Active /\ ~Exhausted(k) /\ jobs'[k].status = "running"
     /\ jobs'[k].attempts = jobs[k].attempts + 1
  \/ /\ jobs[k].status = "running" /\ jobs'[k].attempts = jobs[k].attempts
     /\ \/ jobs'[k].status \in Terminal
        \/ jobs'[k].status = "retrying" /\ ~Exhausted(k)

LEMMA EveryStepMoves ==
  ASSUME IInv, [Next]_vars, NEW k \in Jobs PROVE TaskMoves(k)
<1>0. TypeOK /\ AbsentIsBlank
  BY DEF IInv
<1>1. CASE UNCHANGED jobs
  BY <1>1 DEF TaskMoves
<1>2. ASSUME NEW j \in Jobs, Untouched(j), k # j PROVE TaskMoves(k)
  BY <1>2 DEF Untouched, TaskMoves
<1>3. ASSUME NEW j \in Jobs, NEW r \in Releases, NEW now \in Sampled, Enqueue(j, r, now)
      PROVE  TaskMoves(k)
  BY <1>0, <1>3 DEF Enqueue, NewJob, AbsentIsBlank, TypeOK, TaskMoves
<1>4. ASSUME NEW w \in Workers, NEW j \in Jobs, NEW now \in Sampled
      PROVE  /\ Claim(w, j, now) => TaskMoves(k)
             /\ Renew(w, j, now) => TaskMoves(k)
             /\ Checkpoint(w, j, now) => TaskMoves(k)
             /\ Complete(w, j, now) => TaskMoves(k)
             /\ \A permanent \in BOOLEAN : Fail(w, j, now, permanent) => TaskMoves(k)
  <2>1. Claim(w, j, now) => TaskMoves(k)
    <3> SUFFICES ASSUME Claim(w, j, now) PROVE TaskMoves(k)
      OBVIOUS
    <3>1. /\ jobs[j].status \in Active /\ ~Exhausted(j) /\ jobs'[j].status = "running"
          /\ jobs'[j].attempts = jobs[j].attempts + 1 /\ Untouched(j)
      BY <1>0, ClaimEffect
    <3>2. k # j => TaskMoves(k)
      BY <1>2, <3>1
    <3> QED
      BY <3>1, <3>2 DEF TaskMoves
  <2>2. Renew(w, j, now) \/ Checkpoint(w, j, now) => TaskMoves(k)
    <3>1. Renew(w, j, now) => TaskMoves(k)
      BY <1>0, <1>2, RenewEffect DEF SameJob, TaskMoves
    <3>2. Checkpoint(w, j, now) => TaskMoves(k)
      BY <1>0, <1>2, CheckpointEffect DEF SameJob, TaskMoves
    <3> QED
      BY <3>1, <3>2
  <2>3. Complete(w, j, now) => TaskMoves(k)
    BY <1>0, <1>2, CompleteEffect DEF Ends, TaskMoves, Terminal
  <2>4. \A permanent \in BOOLEAN : Fail(w, j, now, permanent) => TaskMoves(k)
    BY <1>0, <1>2, FailEffect DEF Ends, TaskMoves, Terminal
  <2>5. QED
    BY <2>1, <2>2, <2>3, <2>4
<1>5. ASSUME NEW now \in Sampled, RecoverExpired(now) PROVE TaskMoves(k)
  BY <1>0, <1>5, RecoverExpiredEffect DEF LeaseExpired, TaskMoves, Terminal
<1>6. QED
  BY <1>1, <1>3, <1>4, <1>5 DEF Next, Tick, Revoke, vars

\* The scheduler's initial state is the queue's, and every step of the scheduler
\* moves every task as the queue allows.
THEOREM SchedulerImplementsQueue == Spec => ImplementsQueue
<1>1. Init => Queue!Init
  BY Phases DEF Init, NoJob, Queue!Init
<1>2. ASSUME IInv, [Next]_vars PROVE Queue!Next
  <2> SUFFICES ASSUME NEW k \in Jobs
               PROVE  \/ Queue!Add(k) \/ Queue!Grant(k) \/ Queue!Return(k)
                      \/ Queue!Finish(k) \/ Queue!GiveUp(k) \/ Queue!Keep(k)
    BY DEF Queue!Next
  <2>1. TaskMoves(k)
    BY <1>2, EveryStepMoves
  <2>2. jobs[k].attempts \in Nat /\ MaxAttempts \in Nat
    BY <1>2, SchedulerAssumption DEF IInv, TypeOK, JobRow
  <2>3. QED
    BY <2>1, <2>2, Phases
       DEF TaskMoves, Active, Terminal, Exhausted, Queue!Move, Queue!Add, Queue!Grant,
           Queue!Return, Queue!Finish, Queue!GiveUp, Queue!Keep
<1>3. QED
  BY <1>1, <1>2, Inductive, PTL DEF Spec, ImplementsQueue, Queue!Spec

-------------------------------------------------------------------------------
(* The queue, under the specification in which time has no end.              *)

\* The window slides over instants, and those that leave it stay instants.
LEMMA SlideType == TypeOK /\ Slide => TypeOK'
<1> SUFFICES ASSUME TypeOK, Slide PROVE TypeOK'
  OBVIOUS
<1>1. clock' \in Nat
  <2>1. MaxClock \in Nat /\ ClockLag \in Nat
    BY SchedulerAssumption
  <2>2. clock = MaxClock /\ clock' = clock - 2
    BY DEF Slide, OneSecond
  <2> QED
    BY <2>1, <2>2, WindowAssumption
<1>2. ASSUME NEW j \in Jobs PROVE jobs'[j] \in JobRow
  <2>1. jobs[j] \in JobRow
    BY DEF TypeOK
  <2>2. /\ Earlier1s(jobs[j].lease) \in Nat /\ Earlier1s(jobs[j].next) \in Nat
        /\ Earlier1s(jobs[j].created) \in Nat
    BY <2>1 DEF JobRow, Earlier1s, OneSecond
  <2>3. jobs'[j] = [jobs[j] EXCEPT !.lease = Earlier1s(jobs[j].lease),
                                   !.next = Earlier1s(jobs[j].next),
                                   !.created = Earlier1s(jobs[j].created)]
    BY <2>1 DEF Slide, JobRow
  <2> QED
    BY <2>1, <2>2, <2>3 DEF JobRow
<1>3. jobs' \in [Jobs -> JobRow]
  BY <1>2 DEF Slide
<1> QED
  BY <1>1, <1>3 DEF Slide, TypeOK

LEMMA LiveType == LiveSpec => []TypeOK
<1>1. TypeOK /\ [LiveNext]_vars => TypeOK'
  BY NextType, SlideType DEF LiveNext
<1> QED
  BY <1>1, InitType, PTL DEF LiveSpec

\* Nothing but a claim adds to a job's attempts.
LEMMA OnlyClaimsCount ==
  ASSUME TypeOK, [LiveNext]_vars, NEW k \in Jobs, jobs'[k].attempts > jobs[k].attempts
  PROVE  \E w \in Workers, now \in Sampled : Claim(w, k, now)
<1>1. jobs[k].attempts \in Nat
  BY DEF TypeOK, JobRow
<1>2. jobs'[k].attempts # jobs[k].attempts
  BY <1>1
<1>3. ~UNCHANGED vars /\ ~Tick /\ ~\E r \in Releases : Revoke(r)
  BY <1>2 DEF vars, Tick, Revoke
<1>4. ASSUME NEW now \in Sampled PROVE ~RecoverExpired(now)
  BY <1>2, RecoverExpiredEffect
<1>5. ASSUME NEW j \in Jobs, NEW r \in Releases, NEW now \in Sampled PROVE ~Enqueue(j, r, now)
  <2> SUFFICES ASSUME Enqueue(j, r, now) PROVE FALSE
    OBVIOUS
  <2>1. jobs' = [jobs EXCEPT ![j] = NewJob(r, now)] /\ NewJob(r, now).attempts = 0
    BY DEF Enqueue, NewJob
  <2>2. jobs'[k].attempts = jobs[k].attempts \/ jobs'[k].attempts = 0
    BY <2>1 DEF TypeOK
  <2> QED
    BY <1>1, <1>2, <2>2
<1>6. ASSUME NEW w \in Workers, NEW j \in Jobs, NEW now \in Sampled
      PROVE  /\ ~Renew(w, j, now) /\ ~Checkpoint(w, j, now) /\ ~Complete(w, j, now)
             /\ \A permanent \in BOOLEAN : ~Fail(w, j, now, permanent)
             /\ Claim(w, j, now) => j = k
  <2>1. Untouched(j) => k = j
    BY <1>2 DEF Untouched
  <2>2. ~Renew(w, j, now) /\ ~Checkpoint(w, j, now)
    BY <1>2, <2>1, RenewEffect, CheckpointEffect DEF SameJob
  <2>3. ~Complete(w, j, now)
    BY <1>2, <2>1, CompleteEffect DEF Ends
  <2>4. \A permanent \in BOOLEAN : ~Fail(w, j, now, permanent)
    BY <1>2, <2>1, FailEffect DEF Ends
  <2>5. Claim(w, j, now) => j = k
    BY <2>1, ClaimEffect
  <2> QED
    BY <2>2, <2>3, <2>4, <2>5
<1>7. ~Slide
  <2>1. jobs[k] \in JobRow
    BY DEF TypeOK
  <2>2. Slide => jobs'[k].attempts = jobs[k].attempts
    BY <2>1 DEF Slide, JobRow
  <2> QED
    BY <1>2, <2>2
<1> QED
  BY <1>3, <1>4, <1>5, <1>6, <1>7 DEF LiveNext, Next

\* A job that is claimed was due no later than any other that waits, of any number of
\* jobs: FindDue's ORDER BY next_attempt_at, also past jobs that are not due, and
\* whatever instant the call sampled.
THEOREM QueueIsNotJumped == LiveSpec => OldestFirst
<1> DEFINE InTurn(j, k) ==
      jobs'[j].attempts > jobs[j].attempts /\ jobs[k].status \in {"queued", "retrying"}
      => TextAtMost(jobs[j].next, jobs[k].next)
<1>1. ASSUME TypeOK, [LiveNext]_vars, NEW j \in Jobs, NEW k \in Jobs PROVE InTurn(j, k)
  <2> SUFFICES ASSUME jobs'[j].attempts > jobs[j].attempts,
                      jobs[k].status \in {"queued", "retrying"}
               PROVE  TextAtMost(jobs[j].next, jobs[k].next)
    OBVIOUS
  <2>1. PICK w \in Workers, now \in Sampled : Claim(w, j, now)
    BY <1>1, OnlyClaimsCount
  <2>2. now \in Nat /\ jobs[j].next \in Nat /\ jobs[k].next \in Nat
    BY <1>1, SampledIsNat DEF TypeOK, JobRow
  <2>3. /\ TextAtMost(jobs[j].next, now)
        /\ k # j /\ Due(k, now) => Earlier(j, k)
    BY <2>1 DEF Claim, FirstDue, Due
  <2>4. CASE TextAtMost(jobs[k].next, now)
    <3>1. k = j \/ Earlier(j, k)
      BY <2>3, <2>4 DEF Due
    <3> QED
      BY <2>2, <3>1 DEF Earlier, TextAtMost, TextRank
  <2>5. CASE ~TextAtMost(jobs[k].next, now)
    BY <2>2, <2>3, <2>5 DEF TextAtMost, TextRank
  <2> QED
    BY <2>4, <2>5
<1>2. TypeOK /\ [LiveNext]_vars => [\A j, k \in Jobs : InTurn(j, k)]_vars
  BY <1>1
<1> QED
  BY <1>2, LiveType, PTL DEF LiveSpec, OldestFirst

\* Sliding changes instants only, of which the invariant says nothing.
LEMMA SlideInductive == IInv /\ Slide => IInv'
<1> SUFFICES ASSUME IInv, Slide PROVE IInv'
  OBVIOUS
<1>1. TypeOK /\ TypeOK'
  BY SlideType DEF IInv
<1>2. UNCHANGED <<release, attempts, ticket>>
  BY DEF Slide
<1>3. ASSUME NEW j \in Jobs
      PROVE  /\ jobs'[j].status = jobs[j].status /\ jobs'[j].attempts = jobs[j].attempts
             /\ jobs'[j].version = jobs[j].version /\ jobs'[j].token = jobs[j].token
             /\ jobs'[j].release = jobs[j].release /\ jobs'[j].owner = jobs[j].owner
  <2>1. jobs[j] \in JobRow
    BY <1>1 DEF TypeOK
  <2>2. jobs'[j] = [jobs[j] EXCEPT !.lease = Earlier1s(jobs[j].lease),
                                   !.next = Earlier1s(jobs[j].next),
                                   !.created = Earlier1s(jobs[j].created)]
    BY <2>1 DEF Slide, JobRow
  <2> QED
    BY <2>1, <2>2 DEF JobRow
<1>4. AbsentIsBlank' /\ RevokedIsQuiet' /\ WaitingHasBudget'
  BY <1>2, <1>3 DEF IInv, AbsentIsBlank, RevokedIsQuiet, WaitingHasBudget, Exhausted
<1>5. OneOutcome'
  BY <1>2, <1>3 DEF IInv, OneOutcome, OneOutcomeOf, LastAttempt
<1>6. TicketsAreFenced'
  BY <1>2, <1>3 DEF IInv, TicketsAreFenced, Fenced, Claimant, LastAttempt
<1> QED
  BY <1>1, <1>4, <1>5, <1>6 DEF IInv

\* Nothing above depends on time having an end: rows and attempts agree, revoked
\* releases stay quiet, waiting jobs keep attempts, and stale processes are fenced, also
\* for ever, and also on the server as cmd/server wires it, where nothing recovers.
THEOREM SafeForEver ==
  LiveSpec \/ ServerSpec =>
    [](OneOutcome /\ RevokedIsQuiet /\ WaitingHasBudget /\ TicketsAreFenced)
<1>1. IInv /\ [LiveNext]_vars => IInv'
  BY NextInductive, SlideInductive DEF LiveNext
<1>2. [ServerNext]_vars => [LiveNext]_vars
  BY DEF ServerNext
<1>3. IInv => OneOutcome /\ RevokedIsQuiet /\ WaitingHasBudget /\ TicketsAreFenced
  BY DEF IInv
<1> QED
  BY <1>1, <1>2, <1>3, InitInductive, PTL DEF LiveSpec, ServerSpec

-------------------------------------------------------------------------------
(* The texts of instants.  Why half seconds are enough to tell how SQL and   *)
(* Go disagree, and that they disagree within one second only.               *)

Digits == 0..9

\* The digit at a place, and the zeros that a text leaves out.
DigitAt(f, i) == IF i \in 1..Len(f) THEN f[i] ELSE 0

\* time.Time's order of two instants of one second.
Before(f, g) ==
  \E i \in Nat \ {0} : /\ DigitAt(f, i) < DigitAt(g, i)
                       /\ \A k \in 1..(i - 1) : DigitAt(f, k) = DigitAt(g, k)

\* The digits f begin the digits g, which go on.
StartOf(f, g) == Len(f) < Len(g) /\ \A k \in 1..Len(f) : f[k] = g[k]

\* Of some places there is a last one.
LEMMA LastKept ==
  ASSUME NEW n \in Nat, NEW K \in SUBSET (1..n), K # {}
  PROVE  \E m \in K : \A k \in K : k <= m
<1> DEFINE B == {m \in Nat : \A k \in K : k <= m}
<1>1. n \in B
  OBVIOUS
<1>2. IsWellFoundedOn(OpToRel(<, Nat), Nat)
  BY NatLessThanWellFounded
<1>3. PICK m \in B : \A y \in B : ~(<<y, m>> \in OpToRel(<, Nat))
  BY <1>1, <1>2, WFMin
<1>4. m # 0 /\ m \in Nat
  <2>1. PICK k \in K : TRUE
    OBVIOUS
  <2>2. m \in Nat /\ k <= m /\ k >= 1
    BY <2>1
  <2> QED
    BY <2>2
<1>5. m - 1 \in Nat /\ m - 1 < m
  BY <1>4
<1>6. m - 1 \notin B
  BY <1>3, <1>4, <1>5 DEF OpToRel
<1>7. PICK k \in K : k > m - 1
  BY <1>5, <1>6
<1>8. k = m
  <2>1. k \in Nat /\ k <= m
    OBVIOUS
  <2> QED
    BY <2>1, <1>4, <1>7
<1> QED
  BY <1>3, <1>8

\* Stripping leaves every digit in its place, and a last one that is not zero.
LEMMA StrippedDigits ==
  ASSUME NEW f \in Seq(Digits)
  PROVE  /\ Stripped(f) \in Seq(Digits)
         /\ Stripped(f) # <<>> => Stripped(f)[Len(Stripped(f))] # 0
         /\ \A i \in Nat : DigitAt(Stripped(f), i) = DigitAt(f, i)
<1> DEFINE kept == {i \in DOMAIN f : f[i] # 0}
           last == IF kept = {} THEN 0 ELSE CHOOSE i \in kept : \A k \in kept : k <= i
<1>1. Len(f) \in Nat /\ DOMAIN f = 1..Len(f) /\ \A i \in 1..Len(f) : f[i] \in Digits
  BY LenProperties, ElementOfSeq
<1>2. /\ last \in 0..Len(f)
      /\ last # 0 => f[last] # 0
      /\ \A i \in (last + 1)..Len(f) : f[i] = 0
  <2>1. CASE kept = {}
    BY <1>1, <2>1
  <2>2. CASE kept # {}
    <3>1. \E m \in kept : \A k \in kept : k <= m
      BY <1>1, <2>2, LastKept
    <3>2. last \in kept /\ \A k \in kept : k <= last
      BY <2>2, <3>1
    <3> QED
      <4>1. last \in 1..Len(f) /\ f[last] # 0
        BY <1>1, <3>2
      <4>2. ASSUME NEW i \in (last + 1)..Len(f) PROVE f[i] = 0
        <5>1. i \in DOMAIN f /\ ~(i <= last)
          BY <1>1, <4>1
        <5>2. i \notin kept
          BY <3>2, <5>1
        <5> QED
          BY <5>1, <5>2
      <4> HIDE DEF last
      <4> QED
        BY <1>1, <4>1, <4>2
  <2> QED
    BY <2>1, <2>2
<1> HIDE DEF last
<1>3. Stripped(f) = SubSeq(f, 1, last)
  BY DEF Stripped, last
<1>4. /\ Stripped(f) \in Seq(Digits) /\ Len(Stripped(f)) = last
      /\ \A i \in 1..last : Stripped(f)[i] = f[i]
  BY <1>1, <1>2, <1>3, SubSeqProperties
<1>5. Stripped(f) # <<>> => last # 0
  BY <1>4, EmptySeq
<1>6. ASSUME NEW i \in Nat PROVE DigitAt(Stripped(f), i) = DigitAt(f, i)
  BY <1>1, <1>2, <1>4 DEF DigitAt
<1> QED
  BY <1>2, <1>4, <1>5, <1>6

\* The characters of a text.
LEMMA StampReads ==
  ASSUME NEW m \in Nat, NEW d \in Seq(Digits), NEW f, f = Stripped(d)
  PROVE  /\ f = <<>> =>
              DOMAIN Stamp(m, d) = 1..2 /\ Stamp(m, d)[1] = m /\ Stamp(m, d)[2] = Zulu
         /\ f # <<>> =>
              /\ DOMAIN Stamp(m, d) = 1..(Len(f) + 3)
              /\ Stamp(m, d)[1] = m /\ Stamp(m, d)[2] = Dot
              /\ \A i \in 1..Len(f) : Stamp(m, d)[i + 2] = f[i]
              /\ Stamp(m, d)[Len(f) + 3] = Zulu
<1>1. f \in Seq(Digits) /\ Len(f) \in Nat
  BY StrippedDigits, LenProperties
<1>2. CASE f = <<>>
  <2>1. Stamp(m, d) = <<m>> \o <<>> \o <<Zulu>>
    BY <1>2 DEF Stamp
  <2>2. <<m>> \o <<>> = <<m>>
    BY ConcatEmptySeq, <<m>> \in Seq(Nat)
  <2>3. <<m>> \in Seq(Int) /\ <<Zulu>> \in Seq(Int)
    BY DEF Zulu
  <2>4. Len(<<m>>) = 1 /\ <<m>>[1] = m /\ Len(<<Zulu>>) = 1 /\ <<Zulu>>[1] = Zulu
    OBVIOUS
  <2> QED
    BY <1>2, <2>1, <2>2, <2>3, <2>4, ConcatProperties, LenProperties
<1>3. CASE f # <<>>
  <2> DEFINE a == <<m>>
             b == <<Dot>> \o f
             ab == a \o b
             all == ab \o <<Zulu>>
  <2> f \in Seq(Int) /\ a \in Seq(Int) /\ <<Dot>> \in Seq(Int) /\ <<Zulu>> \in Seq(Int)
    BY <1>1 DEF Digits, Dot, Zulu
  <2>1. /\ b \in Seq(Int) /\ Len(b) = Len(f) + 1 /\ b[1] = Dot
        /\ \A i \in 1..Len(f) : b[i + 1] = f[i]
    BY <1>1, ConcatProperties
  <2>2. /\ ab \in Seq(Int) /\ Len(ab) = Len(f) + 2
        /\ ab[1] = m /\ ab[2] = Dot /\ \A i \in 1..Len(f) : ab[i + 2] = f[i]
    <3> HIDE DEF b
    <3>1. ab \in Seq(Int) /\ Len(ab) = 1 + Len(b) /\ ab[1] = m
          /\ \A i \in 1..Len(b) : ab[i + 1] = b[i]
      BY <2>1, ConcatProperties
    <3>2. ASSUME NEW i \in 1..Len(f) PROVE ab[i + 2] = f[i]
      <4>1. i + 1 \in 1..Len(b) /\ (i + 1) + 1 = i + 2
        BY <1>1, <2>1
      <4> QED
        BY <2>1, <3>1, <4>1
    <3>3. ab[2] = Dot
      <4>1. 1 \in 1..Len(b) /\ 1 + 1 = 2
        BY <1>1, <2>1
      <4> QED
        BY <2>1, <3>1, <4>1
    <3>4. Len(ab) = Len(f) + 2
      BY <1>1, <2>1, <3>1
    <3> HIDE DEF ab
    <3> QED
      BY <3>1, <3>2, <3>3, <3>4
  <2>3. /\ all \in Seq(Int) /\ Len(all) = Len(f) + 3 /\ all[Len(f) + 3] = Zulu
        /\ \A i \in 1..(Len(f) + 2) : all[i] = ab[i]
    <3> HIDE DEF ab
    <3> QED
      BY <1>1, <2>2, ConcatProperties
  <2>4. Stamp(m, d) = all
    BY <1>3 DEF Stamp
  <2> HIDE DEF all, ab
  <2>5. DOMAIN all = 1..(Len(f) + 3) /\ all[1] = m /\ all[2] = Dot
    BY <1>1, <2>2, <2>3, LenProperties
  <2>6. ASSUME NEW i \in 1..Len(f) PROVE all[i + 2] = f[i]
    <3>1. i + 2 \in 1..(Len(f) + 2)
      BY <1>1
    <3> QED
      BY <2>2, <2>3, <3>1
  <2> QED
    BY <1>3, <2>3, <2>4, <2>5, <2>6
<1> QED
  BY <1>2, <1>3


\* What is decided at a place is not decided the other way at another.
LEMMA FirstDifference ==
  ASSUME NEW a, NEW b, NEW m \in Nat, NEW n \in Nat,
         DOMAIN a = 1..m, DOMAIN b = 1..n,
         \A k \in 1..m : a[k] \in Int, \A k \in 1..n : b[k] \in Int,
         NEW i \in 1..m, i <= n, a[i] < b[i], \A k \in 1..(i - 1) : a[k] = b[k]
  PROVE  StampLess(a, b) /\ ~StampLess(b, a)
<1>1. StampLess(a, b)
  <2>1. i \in DOMAIN a \cap DOMAIN b
    OBVIOUS
  <2> QED
    BY <2>1 DEF StampLess
<1>2. ASSUME StampLess(b, a) PROVE FALSE
  <2>1. PICK j \in 1..n : /\ j <= m /\ b[j] < a[j]
                          /\ \A k \in 1..(j - 1) : b[k] = a[k]
    <3>1. PICK j \in DOMAIN b \cap DOMAIN a : /\ b[j] < a[j]
                                             /\ \A k \in 1..(j - 1) : b[k] = a[k]
      BY <1>2 DEF StampLess
    <3>2. j \in 1..n /\ j <= m
      BY <3>1
    <3> QED
      BY <3>1, <3>2
  <2>2. j \in Nat /\ i \in Nat /\ a[i] \in Int /\ b[i] \in Int /\ a[j] \in Int /\ b[j] \in Int
    BY <2>1
  <2>3. CASE j < i
    <3>1. a[j] = b[j]
      BY <2>2, <2>3, <2>1
    <3> QED
      BY <2>1, <2>2, <3>1
  <2>4. CASE j = i
    BY <2>1, <2>2, <2>4
  <2>5. CASE j > i
    <3>1. a[i] = b[i]
      BY <2>2, <2>5, <2>1
    <3> QED
      BY <2>2, <3>1
  <2> QED
    BY <2>2, <2>3, <2>4, <2>5
<1> QED
  BY <1>1, <1>2

\* A text has one length.
LEMMA OneLength == ASSUME NEW p \in Nat, NEW n \in Nat, 1..p = 1..n PROVE p = n
<1>1. p # 0 => p \in 1..n
  OBVIOUS
<1>2. n # 0 => n \in 1..p
  OBVIOUS
<1> QED
  BY <1>1, <1>2

\* The characters of a text are numbers, of which there are two at least.
LEMMA StampIsText ==
  ASSUME NEW m \in Nat, NEW d \in Seq(Digits)
  PROVE  \E n \in Nat : /\ n >= 2 /\ DOMAIN Stamp(m, d) = 1..n /\ Stamp(m, d)[1] = m
                        /\ \A k \in 1..n : Stamp(m, d)[k] \in Int
<1> DEFINE f == Stripped(d)
           t == Stamp(m, d)
<1>1. f \in Seq(Digits) /\ Len(f) \in Nat /\ \A i \in 1..Len(f) : f[i] \in Int
  BY StrippedDigits, LenProperties, ElementOfSeq DEF Digits
<1>2. CASE f = <<>>
  <2>1. DOMAIN t = 1..2 /\ t[1] = m /\ t[2] \in Int
    BY <1>2, StampReads DEF Zulu
  <2>2. \A k \in 1..2 : t[k] \in Int
    BY <2>1
  <2> QED
    BY <2>1, <2>2
<1>3. CASE f # <<>>
  <2>1. /\ DOMAIN t = 1..(Len(f) + 3) /\ t[1] = m /\ t[2] = Dot /\ t[Len(f) + 3] = Zulu
        /\ \A i \in 1..Len(f) : t[i + 2] = f[i]
    BY <1>3, StampReads
  <2> HIDE DEF t, f
  <2>2. ASSUME NEW k \in 1..(Len(f) + 3) PROVE t[k] \in Int
    <3>1. CASE k \in 3..(Len(f) + 2)
      <4>1. k - 2 \in 1..Len(f) /\ (k - 2) + 2 = k
        BY <1>1, <3>1
      <4> QED
        BY <1>1, <2>1, <4>1
    <3>2. CASE k \in {1, 2, Len(f) + 3}
      BY <2>1, <3>2 DEF Dot, Zulu
    <3> QED
      BY <1>1, <3>1, <3>2
  <2>3. Len(f) + 3 \in Nat /\ Len(f) + 3 >= 2
    BY <1>1
  <2> QED
    BY <2>1, <2>2, <2>3 DEF t
<1> QED
  BY <1>2, <1>3

\* storage.FormatTime's texts of instants in different seconds sort as the instants
\* do, whatever their fractions: every comparison in SQL is right to the second.
THEOREM SecondsAreInOrder ==
  ASSUME NEW m \in Nat, NEW n \in Nat, m < n, NEW d \in Seq(Digits), NEW e \in Seq(Digits)
  PROVE  StampLess(Stamp(m, d), Stamp(n, e)) /\ ~StampLess(Stamp(n, e), Stamp(m, d))
<1> DEFINE a == Stamp(m, d)
           b == Stamp(n, e)
<1>1. PICK p \in Nat : p >= 2 /\ DOMAIN a = 1..p /\ a[1] = m /\ \A k \in 1..p : a[k] \in Int
  BY StampIsText
<1>2. PICK q \in Nat : q >= 2 /\ DOMAIN b = 1..q /\ b[1] = n /\ \A k \in 1..q : b[k] \in Int
  BY StampIsText
<1> HIDE DEF a, b
<1>3. 1 \in 1..p /\ 1 <= q /\ a[1] < b[1] /\ \A k \in 1..(1 - 1) : a[k] = b[k]
  BY <1>1, <1>2
<1>4. StampLess(a, b) /\ ~StampLess(b, a)
  BY <1>1, <1>2, <1>3, FirstDifference
<1> QED
  BY <1>4 DEF a, b

\* Within a second SQL has two instants the wrong way around exactly when the digits
\* of the earlier, which FormatTime strips of zeros at the end, begin those of the later.
THEOREM OnlyPrefixesAreInverted ==
  ASSUME NEW m \in Nat, NEW d \in Seq(Digits), NEW e \in Seq(Digits), Before(d, e)
  PROVE  /\ StampLess(Stamp(m, e), Stamp(m, d)) <=> StartOf(Stripped(d), Stripped(e))
         /\ StampLess(Stamp(m, d), Stamp(m, e)) <=> ~StartOf(Stripped(d), Stripped(e))
<1> DEFINE f == Stripped(d)
           g == Stripped(e)
           a == Stamp(m, d)
           b == Stamp(m, e)
<1>1. /\ Len(f) \in Nat /\ Len(g) \in Nat
      /\ \A i \in 1..Len(f) : f[i] \in Digits
      /\ \A i \in 1..Len(g) : g[i] \in Digits
      /\ f = <<>> <=> Len(f) = 0
      /\ g = <<>> <=> Len(g) = 0
  BY StrippedDigits, LenProperties, ElementOfSeq, EmptySeq
<1>2. PICK i \in Nat \ {0} : /\ DigitAt(f, i) < DigitAt(g, i)
                             /\ \A k \in 1..(i - 1) : DigitAt(f, k) = DigitAt(g, k)
  <2>1. PICK i \in Nat \ {0} : /\ DigitAt(d, i) < DigitAt(e, i)
                               /\ \A k \in 1..(i - 1) : DigitAt(d, k) = DigitAt(e, k)
    BY DEF Before
  <2>2. \A k \in 1..i : DigitAt(f, k) = DigitAt(d, k) /\ DigitAt(g, k) = DigitAt(e, k)
    BY StrippedDigits
  <2> HIDE DEF f, g
  <2>3. \A k \in 1..(i - 1) : k \in 1..i
    OBVIOUS
  <2> QED
    BY <2>1, <2>2, <2>3
<1>3. /\ f = <<>> => DOMAIN a = 1..2 /\ a[1] = m /\ a[2] = Zulu
      /\ f # <<>> => /\ DOMAIN a = 1..(Len(f) + 3) /\ a[1] = m /\ a[2] = Dot
                     /\ \A k \in 1..Len(f) : a[k + 2] = f[k]
                     /\ a[Len(f) + 3] = Zulu
      /\ g = <<>> => DOMAIN b = 1..2 /\ b[1] = m /\ b[2] = Zulu
      /\ g # <<>> => /\ DOMAIN b = 1..(Len(g) + 3) /\ b[1] = m /\ b[2] = Dot
                     /\ \A k \in 1..Len(g) : b[k + 2] = g[k]
                     /\ b[Len(g) + 3] = Zulu
  BY StampReads
<1>4. PICK p \in Nat : p >= 2 /\ DOMAIN a = 1..p /\ \A k \in 1..p : a[k] \in Int
  BY StampIsText
<1>5. PICK q \in Nat : q >= 2 /\ DOMAIN b = 1..q /\ \A k \in 1..q : b[k] \in Int
  BY StampIsText
<1> HIDE DEF f, g, a, b
<1>6. i <= Len(g) /\ g # <<>>
  <2>1. ASSUME i > Len(g) PROVE FALSE
    <3>1. DigitAt(g, i) = 0
      BY <1>1, <2>1 DEF DigitAt
    <3>2. DigitAt(f, i) \in Nat
      <4>1. CASE i \in 1..Len(f)
        <5>1. DigitAt(f, i) = f[i] /\ f[i] \in Digits
          BY <1>1, <4>1 DEF DigitAt
        <5> QED
          BY <5>1 DEF Digits
      <4>2. CASE i \notin 1..Len(f)
        BY <4>2 DEF DigitAt
      <4> QED
        BY <4>1, <4>2
    <3> QED
      BY <1>2, <3>1, <3>2
  <2> QED
    BY <1>1, <2>1
<1> DEFINE la == Len(f) + 3
           lb == Len(g) + 3
<1>7. /\ q = lb /\ b[1] = m /\ b[2] = Dot /\ b[lb] = Zulu
       /\ \A k \in 1..Len(g) : b[k + 2] = g[k]
  <2>1. DOMAIN b = 1..lb
    BY <1>3, <1>6
  <2>2. lb \in Nat
    BY <1>1
  <2> HIDE DEF lb
  <2>3. q = lb
    BY <1>5, <2>1, <2>2, OneLength
  <2> QED
    BY <1>3, <1>6, <2>3 DEF lb
<1>8. ASSUME f # <<>>
       PROVE  /\ p = la /\ a[1] = m /\ a[2] = Dot /\ a[la] = Zulu
              /\ \A k \in 1..Len(f) : a[k + 2] = f[k]
  <2>1. DOMAIN a = 1..la
    BY <1>3, <1>8
  <2>2. la \in Nat
    BY <1>1
  <2> HIDE DEF la
  <2>3. p = la
    BY <1>4, <2>1, <2>2, OneLength
  <2> QED
    BY <1>3, <1>8, <2>3 DEF la
<1>9. ASSUME i <= Len(f)
      PROVE  StampLess(a, b) /\ ~StampLess(b, a) /\ ~StartOf(f, g)
  <2>1. f[i] < g[i] /\ \A k \in 1..(i - 1) : f[k] = g[k]
    BY <1>1, <1>2, <1>6, <1>9 DEF DigitAt
  <2>2. f # <<>>
    BY <1>1, <1>9
  <2>3. /\ p = Len(f) + 3 /\ q = Len(g) + 3 /\ a[1] = b[1] /\ a[2] = b[2]
    BY <1>7, <1>8, <2>2
  <2>4. a[i + 2] < b[i + 2]
    <3>1. i \in 1..Len(f) /\ i \in 1..Len(g)
      BY <1>1, <1>6, <1>9
    <3> QED
      BY <1>7, <1>8, <2>1, <2>2, <3>1
  <2>5. ASSUME NEW k \in 1..((i + 2) - 1) PROVE a[k] = b[k]
    <3>1. CASE k >= 3
      <4>1. k - 2 \in 1..(i - 1) /\ k - 2 \in 1..Len(f) /\ k - 2 \in 1..Len(g) /\ (k - 2) + 2 = k
        BY <1>1, <1>6, <1>9, <3>1
      <4> QED
        <5>1. a[(k - 2) + 2] = f[k - 2]
          BY <1>8, <2>2, <4>1
        <5>2. b[(k - 2) + 2] = g[k - 2]
          BY <1>7, <4>1
        <5> QED
          BY <2>1, <4>1, <5>1, <5>2
    <3>2. CASE k \in {1, 2}
      BY <2>3, <3>2
    <3> QED
      BY <3>1, <3>2
  <2>6. i + 2 \in 1..p /\ i + 2 <= q
    BY <1>1, <1>6, <1>9, <2>3
  <2>7. StampLess(a, b) /\ ~StampLess(b, a)
    BY <1>4, <1>5, <2>4, <2>5, <2>6, FirstDifference
  <2>8. ~StartOf(f, g)
    <3>1. i \in 1..Len(f) /\ i \in 1..Len(g)
      BY <1>1, <1>6, <1>9
    <3>2. f[i] \in 0..9 /\ g[i] \in 0..9
      BY <1>1, <3>1 DEF Digits
    <3>3. f[i] # g[i]
      BY <2>1, <3>2
    <3> QED
      BY <3>1, <3>3 DEF StartOf
  <2> QED
    BY <2>7, <2>8
<1>10. ASSUME i > Len(f)
      PROVE  StampLess(b, a) /\ ~StampLess(a, b) /\ StartOf(f, g)
  <2>1. \A k \in 1..Len(f) : f[k] = g[k]
    BY <1>1, <1>2, <1>6, <1>10 DEF DigitAt
  <2>2. Len(f) < Len(g)
    BY <1>1, <1>6, <1>10
  <2>3. CASE f = <<>>
    <3>1. 2 \in 1..q /\ 2 <= p /\ b[2] < a[2] /\ b[1] = a[1]
      <4>1. a[1] = m /\ a[2] = Zulu
        BY <1>3, <2>3
      <4>2. Len(g) # 0 /\ 2 \in 1..q
        BY <1>1, <1>6, <1>7
      <4> QED
        BY <1>4, <1>7, <4>1, <4>2 DEF Dot, Zulu
    <3>2. \A k \in 1..(2 - 1) : b[k] = a[k]
      BY <3>1
    <3>3. StampLess(b, a) /\ ~StampLess(a, b)
      BY <1>4, <1>5, <3>1, <3>2, FirstDifference
    <3> QED
      BY <2>1, <2>2, <3>3 DEF StartOf
  <2>4. CASE f # <<>>
    <3> DEFINE n == Len(f) + 3
    <3>1. p = n /\ q = Len(g) + 3 /\ a[1] = b[1] /\ a[2] = b[2] /\ a[n] = Zulu
      BY <1>7, <1>8, <2>4
    <3>2. b[n] < a[n]
      <4>1. Len(f) + 1 \in 1..Len(g) /\ (Len(f) + 1) + 2 = n
        BY <1>1, <2>2
      <4>2. b[n] = g[Len(f) + 1]
        BY <1>7, <4>1
      <4> QED
        <5>1. g[Len(f) + 1] \in 0..9
          BY <1>1, <4>1 DEF Digits
        <5>2. a[n] = 10
          BY <3>1 DEF Zulu
        <5> HIDE DEF n
        <5> QED
          BY <4>2, <5>1, <5>2
    <3>3. ASSUME NEW k \in 1..(n - 1) PROVE b[k] = a[k]
      <4>1. CASE k >= 3
        <5>1. k - 2 \in 1..Len(f) /\ k - 2 \in 1..Len(g) /\ (k - 2) + 2 = k
          BY <1>1, <2>2, <4>1
        <5> QED
          <6>1. a[(k - 2) + 2] = f[k - 2]
            BY <1>8, <2>4, <5>1
          <6>2. b[(k - 2) + 2] = g[k - 2]
            BY <1>7, <5>1
          <6> QED
            BY <2>1, <5>1, <6>1, <6>2
      <4>2. CASE k \in {1, 2}
        BY <3>1, <4>2
      <4> QED
        BY <1>1, <4>1, <4>2
    <3>4. n \in 1..q /\ n <= p
      BY <1>1, <2>2, <3>1
    <3> HIDE DEF n
    <3>5. StampLess(b, a) /\ ~StampLess(a, b)
      BY <1>4, <1>5, <3>2, <3>3, <3>4, FirstDifference
    <3> QED
      BY <2>1, <2>2, <3>5 DEF StartOf
  <2> QED
    BY <2>3, <2>4
<1>11. i <= Len(f) \/ i > Len(f)
  BY <1>1
<1>12. (StampLess(b, a) <=> StartOf(f, g)) /\ (StampLess(a, b) <=> ~StartOf(f, g))
  BY <1>9, <1>10, <1>11
<1> QED
  BY <1>12 DEF a, b, f, g

\* The digits, and the text, of an instant counted in half seconds.
Whole == << 0 >>
Half  == << 5 >>
HalfSeconds(t) == IF t % 2 = 0 THEN Whole ELSE Half
TextOf(t) == Stamp(t \div 2, HalfSeconds(t))

\* Ticks of half a second, by which the modules count, sort by TextLess as their texts
\* do in SQL: the swap of the two ticks in each second is FormatTime's own.
THEOREM TicksSortAsTexts ==
  ASSUME NEW s \in Nat, NEW t \in Nat
  PROVE  TextLess(s, t) <=> StampLess(TextOf(s), TextOf(t))
<1>1. \A u \in Nat : u \div 2 \in Nat /\ u % 2 \in {0, 1} /\ u = 2 * (u \div 2) + (u % 2)
  OBVIOUS
<1>2. \A u \in Nat : HalfSeconds(u) \in Seq(Digits)
  <2>1. Whole \in Seq(Digits) /\ Half \in Seq(Digits)
    BY DEF Digits, Whole, Half
  <2> QED
    BY <2>1 DEF HalfSeconds
<1>3. CASE s \div 2 < t \div 2
  <2>1. StampLess(TextOf(s), TextOf(t))
    BY <1>1, <1>2, <1>3, SecondsAreInOrder DEF TextOf
  <2>2. TextLess(s, t)
    BY <1>1, <1>3 DEF TextLess, TextRank
  <2> QED
    BY <2>1, <2>2
<1>4. CASE t \div 2 < s \div 2
  <2>1. ~StampLess(TextOf(s), TextOf(t))
    BY <1>1, <1>2, <1>4, SecondsAreInOrder DEF TextOf
  <2>2. ~TextLess(s, t)
    BY <1>1, <1>4 DEF TextLess, TextRank
  <2> QED
    BY <2>1, <2>2
<1>5. \A m \in Nat : StampLess(Stamp(m, Half), Stamp(m, Whole))
                      /\ ~StampLess(Stamp(m, Whole), Stamp(m, Half))
  <2>1. /\ Whole \in Seq(Digits) /\ Half \in Seq(Digits)
        /\ \A i \in Nat : DigitAt(Whole, i) = 0
        /\ DigitAt(Half, 1) = 5
    BY DEF Digits, DigitAt, Whole, Half
  <2>2. Before(Whole, Half)
    <3>1. DigitAt(Whole, 1) < DigitAt(Half, 1) /\ \A k \in 1..(1 - 1) : FALSE
      BY <2>1
    <3> QED
      BY <3>1 DEF Before
  <2>3. StartOf(Stripped(Whole), Stripped(Half))
    <3> DEFINE f == Stripped(Whole)
               g == Stripped(Half)
    <3>1. /\ Len(f) \in Nat /\ Len(g) \in Nat
          /\ f # <<>> => f[Len(f)] # 0
          /\ f = <<>> <=> Len(f) = 0
          /\ \A i \in Nat : DigitAt(f, i) = 0
          /\ DigitAt(g, 1) = 5
      BY <2>1, StrippedDigits, LenProperties, EmptySeq
    <3> HIDE DEF f, g
    <3>2. Len(f) = 0
      <4>1. Len(f) # 0 => DigitAt(f, Len(f)) = f[Len(f)]
        BY <3>1 DEF DigitAt
      <4> QED
        BY <3>1, <4>1
    <3>3. Len(g) > 0
      BY <3>1 DEF DigitAt
    <3> QED
      BY <3>2, <3>3 DEF StartOf, f, g
  <2> QED
    BY <2>1, <2>2, <2>3, OnlyPrefixesAreInverted
<1>6. \A m \in Nat, d \in {Whole, Half} : ~StampLess(Stamp(m, d), Stamp(m, d))
  <2> SUFFICES ASSUME NEW m \in Nat, NEW d \in {Whole, Half},
                      StampLess(Stamp(m, d), Stamp(m, d))
               PROVE  FALSE
    OBVIOUS
  <2>1. d \in Seq(Digits)
    <3>1. Whole \in Seq(Digits) /\ Half \in Seq(Digits)
      BY DEF Digits, Whole, Half
    <3> QED
      BY <3>1
  <2>2. PICK n \in Nat : /\ DOMAIN Stamp(m, d) = 1..n
                         /\ \A k \in 1..n : Stamp(m, d)[k] \in Int
    BY <2>1, StampIsText
  <2>3. PICK k \in 1..n : Stamp(m, d)[k] < Stamp(m, d)[k]
    BY <2>2 DEF StampLess
  <2> QED
    BY <2>2, <2>3
<1>7. CASE s \div 2 = t \div 2
  <2> DEFINE m == s \div 2
  <2>1. /\ TextOf(s) = Stamp(m, IF s % 2 = 0 THEN Whole ELSE Half)
        /\ TextOf(t) = Stamp(m, IF t % 2 = 0 THEN Whole ELSE Half)
    BY <1>7 DEF TextOf, HalfSeconds
  <2>2. m \in Nat /\ s = 2 * m + (s % 2) /\ t = 2 * m + (t % 2)
    BY <1>1, <1>7
  <2> HIDE DEF m
  <2>3. TextLess(s, t) <=> s % 2 = 1 /\ t % 2 = 0
    BY <1>1, <2>2 DEF TextLess, TextRank
  <2>4. StampLess(TextOf(s), TextOf(t)) <=> s % 2 = 1 /\ t % 2 = 0
    BY <1>1, <1>5, <1>6, <2>1, <2>2
  <2> QED
    BY <2>3, <2>4
<1> QED
  BY <1>1, <1>3, <1>4, <1>7

===============================================================================

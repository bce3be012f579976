# A TLA+ model of GridBank

GridBank (Go, SQLite) runs a multi-tenant exchange of compute resources: workloads take a lease
on a provider's pool, report usage in segments, have it metered and reviewed, and are collected
into ledgers that are reviewed and released; jobs are then executed for a release by external
workers under leases, and what happens is announced through an outbox. This directory holds TLA+
modules of that behaviour, TLC configurations that check them on small instances, and proofs that
TLAPS checks for every instance. Paths below are relative to `src/`.

Contents: 1 inventory, 2 how code becomes actions, 3 modules, 4 runs, bounds and fairness,
5 proofs, 6 where code and documents disagree, 7 further observations, 8 not modelled, 9 plan.

## 1. Inventory

All state is in one SQLite database; the server is stateless between calls. Services do not call
each other (except for the digest and row helpers of repositories): they meet **in the tables**.
Every service call that changes something samples `clock.Now()` and runs one transaction
(`storage.Write`).

| Component | State | Operations | Correct means | Module |
|---|---|---|---|---|
| scheduler (`internal/scheduler`) | `compute_jobs`, `compute_attempts` | Enqueue, Claim, Renew, Checkpoint, Complete, Fail | one process at a time, stale ones fenced; bounded attempts; attempt rows agree with the job; no active job of a revoked release; every job ends | `Scheduler`, `SchedulerLive` |
| outbox (`internal/outbox`) | `outbox_events` | Enqueue (in every mutation), Claim, Renew, Acknowledge, Fail, Sender.Send | one delivery at a time, at most one acceptance per claim, given up only for a reason | `Outbox` |
| metering (`internal/metering`) | `usage_batches`, `usage_items` | Create, Claim, Renew, Record, Submit, Review | what is reviewed is complete and recorded since the last rework; claims fence records | `Metering` |
| workloads (`internal/workload`) | `workloads` | Plan, MarkReady, Start, Submit, Settle, Fail, Cancel, Reopen | one workload per idempotency key; leases end only for a reason | `Workloads` |
| provider leases (`internal/provider`) | `leases` | ReservePool, RenewPool, ReleasePool | one live lease per pool, none comes back | `Workloads` |
| idempotency (`internal/idempotency`) | `idempotency_records` | Lookup, Save | a retry gets the first answer | `Workloads` |
| capacity (`internal/capacity`) | `capacity_streams`, `usage_records` | OpenStream, Append, Seal, AlignWorkload | aggregates tell the segments; what is metered is gapless, aligned, frozen | `Capacity`, `Exchange` |
| ledgers and releases (`internal/ledger`) | `credit_plans`, `credit_plan_items`, `quality_reviews`, `credit_releases`, `credit_release_items` | Create, AddWorkloads, Freeze, Review, Publish, Revoke | released is what was reviewed, and was billed from the usage there is | `Ledger`, `Exchange`; Revoke against jobs: `Scheduler` |
| recovery (`internal/recovery`) | none of its own | RecoverExpired: one transaction, a sweep per table | expired leases end, finished attempts do not come back | an action in each of `Scheduler`, `Outbox`, `Metering`, `Workloads` |
| worker runtime (`internal/worker`) | in memory | Group.Add/Start/Stop, Runtime.Start/run/Stop | a clean Stop leaves nothing running; Stop answers | `Worker` |
| storage (`internal/storage`) | the write lock; per transaction a snapshot | Write; Migrate, Open | interleaved calls act as if made one after another; a failed one leaves nothing | `Storage`, `Timestamps` |
| credit accounts (`internal/ledger/credit.go`) | `credit_accounts`, `credit_entries` | OpenCreditAccount, Deposit, Reserve | the balance tells the entries; no credit is held twice; int64 is not exceeded unnoticed | `Credit`, `Database` |
| auth (`internal/auth`) | `tenants`, `users`, `auth_sessions` | Bootstrap, CreateUser, Login, Logout; Authenticate reads | one session, revoked once; who was answered finds what was done | `Sessions`, `Database` |
| audit (`internal/audit`) | `audit_logs` | Append, within the caller's transaction | one row for each change | `Database`, for credit and auth |
| provider registration, http api, server, domain | | | | see section 8 |

How they meet: a workload can only be submitted with aligned streams, and must be settled before a
metering batch of it can be created, which copies its segments; its batch must be accepted before a ledger takes it; a release must be published to
enqueue a job, and cannot be revoked while a job of it is active. Metering, scheduler, outbox and
pool leases all use the same pattern: a row with owner, random token, `lease_expires_at` and
`version`, changed by a conditional UPDATE, and the sweep that ends expired ones.

What is hard here:

* **Leases and late callers.** Processes of one account are told apart by token and version only;
  replies can be lost after the commit; callers may die at any time; a call's "now" is older than
  its commit.
* **Time as text.** SQL compares RFC3339Nano texts, which drop trailing zeros (`07Z` > `07.5Z`),
  while Go compares instants; some calls use one order, some the other, some both.
* **Recovery** races with late reports, counts attempts on its own, and treats several tables.
* **Statuses tested in one call and relied on in another** (eligibility, alignment, digests): usage is
  copied into a batch in one call, and four later calls of two services trust the copy.
* **Transactions that read first and write later**, with another caller's commit in between, or
  that end in an error, a canceled context or a crash between two statements.
* **Goroutines** that start, clean up and stop the same workers.

The list with lines is `hazards` in `PROJECT.json`.

## 2. How code becomes actions

* A service call that commits is **one action**: its guard is the conjunction of the code's tests
  in Go and in SQL, its effect every row it writes. A call that returns an error rolls back and is
  a stuttering step. That a call may be taken for one step is not assumed: `Storage` models what
  `storage.Write` does between its first statement and its commit, and `StorageIsSerial` proves for
  any calls that the committed state changes as if they were made one after another.
* In `Storage` the **first statement decides**: a transaction that starts by reading gets a
  snapshot and is refused (BUSY) when it comes to write while another writes or after another has
  committed; one that starts by writing waits for the lock. This is SQLite's behaviour in WAL mode
  and is marked external in the map. `Outcome(call, state)`, what a service computes from the state
  its transaction reads, is a parameter; `Credit` and `Sessions` give it for their calls.
  `answered` keeps calls of which a caller was told success, so that an answer can be compared with
  the committed state; `MaxTold` bounds how many are kept.
* `now` is any element of `Sampled`: an instant up to `ClockLag` ticks before the step.
* A **tick is half a second**, the coarsest unit in which the order of instants and the order of
  their texts differ. `Timestamps` defines the text order on characters (`StampLess`) and on ticks
  (`TextLess`); that the one is the other, and when texts are inverted, is proved (section 5).
* A committed call's **reply may be lost**: the caller then keeps its older `ticket`. Clients and
  worker processes are not in the repository. They are taken to present only tokens and versions
  they were answered by their own calls. (GET endpoints also return lease tokens. A process which
  adopted another's from there could not be told from that other by any service.)
* Random tokens and ids are names that do not repeat. Digests stand for what they hash. Audit rows
  are left out; outbox rows a call appends are in `trail` where a property is about them.
* Tenants share nothing: each model is one tenant.

## 3. Modules

| Module | Models |
|---|---|
| `Timestamps` | `storage.FormatTime` and the order SQLite gives its texts: `Stamp`/`StampLess` on seconds and digits, `TextLess`/`TextAtMost` on ticks |
| `WorkQueue` | abstract: what a queue of leased tasks promises (grants one at a time, at most a budget of them, ends are final) |
| `Scheduler`, `SchedulerMC` | jobs, attempts, announced outcomes, the tickets of processes, the sweep over jobs, Revoke; refines `WorkQueue` (`ImplementsQueue`) |
| `SchedulerLive`, `SchedulerLiveMC` | the same with endless time and fairness, and the server as `cmd/server` wires it (`ServerSpec`) |
| `Outbox`, `OutboxMC` | events, the sender's answers, the sweep; refines `WorkQueue` |
| `ReviewCycle` | abstract: work part by part, review, rework, acceptance |
| `Metering`, `MeteringMC` | one batch and its items with claims, sweep, rework; refines `ReviewCycle` |
| `Workloads`, `WorkloadsMC` | workload statuses, leases by (pool, workload), idempotency records |
| `UsageSegments` | segments and the tests capacity makes of sets of them: batches, replays, continuity, alignment |
| `Capacity` | streams and segments of one workload, Append with replays, Seal, Align, and the Submit that reads them |
| `Ledger`, `LedgerMC` | plans, items, reviews, releases (`LedgerMC` is for `ledger_rejected`) |
| `Exchange`, `ExchangeMC` | composes one workload's `Capacity`, its metering batches and the `Ledger`: from usage to release |
| `SerialCalls` | abstract: calls made one after another |
| `Storage` | transactions of concurrent callers: snapshot, lock, refusal, commit, rollback, crash; refines `SerialCalls` |
| `Credit`, `Sessions` | what the calls on a credit account, and on a tenant, its users and a session, do to the state they read |
| `Database`, `DatabaseMC` | composes `Storage` with those calls |
| `Worker`, `WorkerMC` | each section under a mutex is a step; a worker ticks or selects |
| `SchedulerProofs`, `OutboxProofs`, `MeteringProofs`, `WorkloadsProofs`, `CapacityProofs`, `ExchangeProofs`, `WorkerProofs`, `DatabaseProofs` | the theorems: `SchedulerProofs` also of `SchedulerLive`, `ExchangeProofs` also of `Ledger`, `DatabaseProofs` of `Storage` and of `Database` |

An MC module gives the constants their values for TLC; `SchedulerMC` also checks the text order.
Definitions named `<definition>_<word>` beside a definition are wrong versions of it (a dropped
test, an off-by-one): each property is shown to fail when its definition is replaced by one of
them, so that none holds for want of a model. They are listed under `mutants` and used by no
specification.

Three reductions deserve a word. `Ledger` keeps of a workload only "settled" and "accepted", which
only grow, as the code never leaves either status; `Exchange` follows one workload through all
its calls and shows that for this one the two are what its status and its batches say (`Types`).
`Exchange` keeps of a batch the cycle that `Metering` is shown to implement (`ReviewCycle`), with
the segments it copied. `Capacity` reduces the other calls of a workload to the status they set,
and `Workloads` leaves open the test of the streams which Submit makes in `Capacity`. `Database`
has two services share one database although they share no row, because SQLite locks the database.

## 4. Runs

| Run | Shows | Instance |
|---|---|---|
| `scheduler` | safety, fencing, refinement of `WorkQueue` | 1 job, 2 processes of one account, 3 attempts, lease 2 ticks, lag 1, 7 ticks, version to 6 |
| `scheduler_live` | every job ends; the head of the queue is not jumped | 2 jobs, 1 worker, 2 attempts, sliding window of 4 ticks |
| `scheduler_takeover` | *violation*: a live lease is taken over | as `scheduler`, 2 attempts, no lag, 5 ticks |
| `server_unrecovered` | *violation*: with the calls the server wires, jobs wait for ever | as `scheduler_live` |
| `outbox` | bounded duplicates, reasons of ends, fencing, refinement | 1 event, 2 workers, 3 attempts, 6 ticks |
| `metering` | fresh and complete reviews, fenced records, refinement of `ReviewCycle` | 1 batch of 2 items, 2 clients of one reviewer, 3 claims, 1 rework |
| `workloads` | one workload per key; ends of leases | 2 workloads, 2 pools, 1 key, key lifetime 3 ticks, lease 2 |
| `workload_reopen` | *violation*: a failed workload can never be reopened | as `workloads` |
| `exchange` | aggregates, what reaches metering, what a ledger releases | 1 ledger, 2 workloads, up to 2 batches, 3 kinds, 6 segments, calls of up to 2 segments, tolerance up to 1 |
| `ledger_rejected` | *violation*: a rejected ledger can never be reviewed again | 2 ledgers, 2 workloads |
| `worker` | a clean Stop means ended; Stop answers | 2 workers, 2 callers, a group of at most 2 |
| `database` | serial calls, balances, audit rows, answers | 2 callers, 3 keys, deposits of 1 and 2, holds of 1, an int64 of at most 2 |

**Bounds.** Every bound is a constant named in its module's CONSTANTS with the comment `bound`.
`MaxClock` leaves room for claim, expiry, takeover and a second expiry with the late reports in
between (two leases and the backoff). `MaxVersion` only ends renewing and checkpointing; rows that
reach it can still be completed, failed or swept. Three attempts give one that is neither first
nor last. Jobs, events and batches interact with others of their table only through the order of
the queue and the sweep, which treats each row alike: hence one row in the safety runs, and two in
`scheduler_live`, where the order matters. The key lifetime and the lease in `workloads` are
shorter than the clock so that both expire in a behaviour. The segments of `exchange` contain a
successor, a key reused for other data, an overlap, a gap and a range a full hour away from the
others, and every subset of two that repeats no place or key is a call. Ledgers share nothing with
each other, and the theorems of `Exchange` cover any number of them; the second workload is there
for ledgers that hold more than the one that is followed. In `database` the largest integer is
small enough that two deposits overflow it, and two callers are enough for every conflict SQLite
decides, since a third would only wait or be refused as the second is (`DatabaseProofs` covers any
number). One remembered answer (`MaxTold`) is enough, as `AnswersStand` speaks of one at a time.
CHECK_DEADLOCK is off because every run may come to its
end: the clock's bound, or all work done.

**Fairness.** Only two modules assume any.
`LiveSpec` has weak fairness of time, of some process polling (`Claim` with any job and instant)
and of `RecoverExpired`. Nothing is promised of a claimed job: its process may die, or renew to
the bound and die. The first two are what deploying workers means; the third is what package
`recovery` is for, and `ServerSpec` is `LiveSpec` without it, as nothing in `cmd/server` calls it.
Time must not end for such a property, so `Slide` moves the timeline back a second when the clock
reaches `MaxClock`: only differences of instants matter to the code, and the window is wide enough
to tell apart all that a call can (`WindowAssumption`).
`Worker!Fairness` says that goroutines run (weak fairness of each caller's next section), that a
tick returns (it is given the context it must honour), and that a select whose context is done
takes that branch some time (strong fairness of `End`: Go chooses at random among ready branches).
Expiry of a Stop's context is never relied on.

**What the properties say** is stated above each in its module. The action properties are phrased
over what *may not* happen between two states, for example `StaleProcessWritesNothing`: as long
as the lease of a running job has not expired, nobody changes the row unless the last claimant
holds the latest token and version, so lost replies and shared accounts never let a stale process in.

## 5. Proofs

`tlapm` proves these for **all** values of the constants that satisfy the modules' assumptions: any
number of workers, jobs, events, items, workloads, ledgers, segments and callers, and any bounds.
Properties are those the runs check (`Capacity`'s under the names `Exchange` gives them).

`SchedulerProofs`, from `SchedulerAssumption` (at least one attempt and one tick of lease, the
empty column is no account and no release):

* `TypeCorrect`, `AttemptsTellTheJob` (`OneOutcome`), `RevokedStaysQuiet` (`RevokedIsQuiet`),
  `WaitingKeepsBudget` (`WaitingHasBudget`), `TicketsFence` (`TicketsAreFenced`), `TerminalStays`
  (`TerminalIsFinal`), `StaleIsFenced` (`StaleProcessWritesNothing`), `EndsAreAnnouncedOnce`
  (`AnnouncedIsFinal`), `LeasesErrLittle` (`LeasesErrByATick`), `SchedulerImplementsQueue`
  (`ImplementsQueue`).
* The inductive invariant is `IInv`: `TypeOK`, `AbsentIsBlank`, `OneOutcome`, `RevokedIsQuiet`,
  `WaitingHasBudget`, `TicketsAreFenced`. None of the parts after the first is inductive alone.
  A claim appends an attempt row and numbers it by `attempt_count`; that this is the row which a
  later Complete or Fail finishes needs `OneOutcome` (as many rows as attempts), which needs that a
  row not yet enqueued has none (`AbsentIsBlank`). Fencing needs it too: the claimant is read off
  the last attempt row. `WaitingHasBudget` is what keeps a claim of a waiting job within the
  type of `attempt_count` and within the abstract queue's budget.
* First come facts about rows (`ColumnTypes`, `WriteJobType`, `ReplyType`, ...), then one type
  lemma per call, then one *effect* lemma per call that says what it does to the row in the terms
  of the invariants, so that each invariant is proved from the effects and never from the calls.
  The refinement follows the same effects: each is a step of the queue or leaves it alone, and
  the sweep is any number of Return and GiveUp steps at once.
* `AnnouncedIsFinal` follows from what a step says of a job (`Announces`): at most one event, which if
  it tells an end tells the one in the row, and nothing of a job that has ended. `LeasesErrByATick`
  is a fact about texts (`TextsAreOffByATick`) applied to every call that reads a lease.
* `QueueIsNotJumped` (`OldestFirst`) is about the endless module, thus from `LiveSpec` and
  `WindowAssumption`, for any number of jobs in one queue. That needs the type of the endless state
  first (`LiveType`: `Slide` keeps every instant in range, `SlideType`), and that no call but `Claim`
  counts an attempt (`OnlyClaimsCount`); then `FindDue`'s order is a fact about the claimed row.
* `SafeForEver`: under `LiveSpec` and `ServerSpec`, the invariants hold as well, since `Slide` moves
  instants and `IInv` speaks of none; so the liveness run's behaviours are safe ones.

* At the end, what half-second ticks stand for, about the characters `FormatTime` writes and
  fractions of any number of digits: texts of different seconds are in order (`SecondsAreInOrder`);
  within a second two are inverted exactly when the earlier one's digits, without the zeros at the
  end, begin the later one's (`OnlyPrefixesAreInverted`); and `TextLess`, which the modules use, is
  the order of the texts of ticks (`TicksSortAsTexts`). `SchedulerMC` evaluates instances of them.

`OutboxProofs`, from `OutboxAssumption`:

* `TypeCorrect`, `PostsAreCovered` (`DeliveriesAreAccounted`), `ClaimsAreOwned` (`OwnedUntilExpiry`),
  `OutboxIsAQueue` (`ImplementsQueue`).
* "Accepted at most once per claim" is not inductive: a worker whose claim was taken over may still
  post. The invariant counts those: the acceptances so far plus the workers that hold a claim they
  have not yet posted under (`Unsent`) are at most the claims. Claiming adds one to both sides,
  posting moves one from the second term to the first.

`MeteringProofs`, from `MeteringAssumption`:

* `TypeCorrect`, `ReviewSeesFreshWork` (`ReviewedWorkIsFresh`), `RecordsNeedTheClaim`
  (`RecordedUnderClaim`), `LeasesAreHonored` (`LeasesHoldByTheClock`), `MeteringIsAReviewCycle`
  (`ImplementsReviewCycle`).
* The invariant: a complete item is of the round the batch is in, since a rework resets every
  item as it starts the next round; and after submission all are complete. A takeover moves the
  claim's token, which a record must present, so no record comes from an earlier claim.

`WorkloadsProofs`, from `WorkloadsAssumption`:

* `TypeCorrect` (with one live lease to a pool), `KeysPlanOnce` (`OneWorkloadPerKey`),
  `EndedLeasesStayEnded` (`EndedLeaseStaysEnded`), `LeasesEndForAReason` (`LeaseEndsForAReason`).
* The invariant adds that ids are drawn in order (`UsedFirst`), that a key's record is of the last
  workload it planned and lives as long as that one counts (`KeysRemember`), and that a planned
  workload always has its lease row (`UsedHasLease`): that row, released or not, is what keeps
  anyone from reserving the pool for it again. Calls are first reduced to what they do to leases:
  one takes a free pool, or some end.

`CapacityProofs`, from `CapacityAssumption` (segments have positive length; kinds and segments are
finitely many):

* `StreamsAreSound` is the invariant `StreamInv`; from it `TypeCorrect`, `RowsTell`
  (`AggregatesTell`), `SealedStreamsAreFixed` (`SealedIsFixed`), `MeteredStreamsDoMeet`
  (`MeteredStreamsMeet`), `MeteredIsNotChanged` (`MeteredIsFrozen`), `MeteredIsComplete`.
* Alignment looks once, so the invariant says what it saw in a form no later call undoes: each
  sealed stream is contiguous, any two aligned ones meet, a metered workload is still submittable.
  That a stream numbered without gaps, of which neighbours do not overlap, is ordered in time
  altogether (`ContiguousInOrder`), and that least and greatest times exist, are inductions over
  data. They are done as arguments about a least counterexample, with the well-foundedness of the
  naturals (`NatLessThanWellFounded`, `WFMin`), which is about sets and needs no operator parameter.

`ExchangeProofs`, first the theorems of `Ledger`, from `LedgerAssumption` (finitely many workloads):

* `TypeCorrect` (`TypeOK`, which says that statuses of plan, review and release agree),
  `ReleasesAreReviewed` (`ReleasedAsReviewed`), `ReleasesAreMetered` (`BilledIsMetered`).
* The invariant adds to the type: from freezing on the digest is that of the items
  (`DigestTellsItems`), an approved review saw the items the plan has now (`ApprovalIsOfItems`),
  a release copies them (`ReleaseIsOfItems`, `NoReleaseNoItems`), and items were accepted when added
  and stay so (`ItemsAreEligible`). The properties speak of releases; only these parts reach back
  to the moment items could still change. `OneLedger` reduces the type to the ledger a step touches.

then those of `Exchange`, from the assumptions of `Ledger` and `Capacity`:

* `WholeTypeCorrect` (`Types`), `RowsTellWhatWasSent` (`RowsTellSegments`), `StreamsInMeteringMeet`
  (`MeteredStreamsMeet`), `StreamsInMeteringStay` (`MeteredIsFrozen`), `ReleasesBillUsage`
  (`ReleasedAsUsed`).
* A step of the composition is a step of the ledgers or a stutter, and one of the streams or a
  stutter, so both modules' theorems hold of it. What neither knows is the invariant `Shared`:
  ledgers and streams agree on status and acceptance, and what a batch billed is what the streams
  have, from its creation on. With `ItemsAreEligible` and `MeteredIsComplete` this gives
  `ReleasedAsUsed`.

`WorkerProofs`:

* `TypeCorrect` (`TypeOK`), `CleanStopsEndWorkers` (`CleanStopMeansEnded`), for any runtimes,
  and groups of any length in which a runtime may occur more than once.
* The invariant relates where a goroutine is in its loop to every runtime it has passed. At
  most one goroutine is in Start and at most one in Stop, as the group's two flags tell
  (`OneOfEach`); one that is past the wait for a runtime waited until it ended (`WaitedFor`); and a
  Stop that has met no error has every worker either still before it or found it finished
  (`AccountsFor`). A finished worker stays so: nothing starts a runtime twice.

`DatabaseProofs`, first from `StorageAssumption` alone, thus for any calls with any outcomes:

* `WritersAreCurrent` (`WriterIsCurrent`), `StorageIsSerial` (`ImplementsSerial`). The invariant adds
  that a reader's snapshot is the newest state until `stale` says otherwise, which is what SQLite
  asks when the reader comes to write; so the outcome a writer commits is computed from the
  committed state.

and then for the calls of credit accounts and auth, with any keys, amounts, width of the integer
and number of callers. `Wired` names what makes a `Storage` this one, and is what `database.cfg`
gives the constants: the calls are `ServiceCalls`, their outcomes `ServiceOutcome`, the database
starts with empty tables.

* `BalancesAreSums` (`BalancesTellEntries`), `ChangesAreAudited` (`AuditsTellChanges`),
  `AnswersAreKept` (`AnswersStand`).
* The invariant `DInv`: the committed state is good (typed, balanced, every change counted), each
  open transaction works on a snapshot that was good and that the committed state has only grown
  from (`Grows`: rows once inserted stay, entries too, a revoked session stays revoked), and what was told
  is there. `Grows` is why `AnswersStand` survives others' commits. Each call has a lemma that says
  what it makes of *any* good state (`DepositServes`, `HoldServes`, ...), so nothing but
  `WriterIsCurrent` is needed of interleavings.
* The sum of a set is a recursive function over its subsets. That it exists for every finite set
  (`AddsUpTo`) and does not depend on the order of adding (`SumTakes`) are inductions over data,
  done here as arguments about a least counterexample; with `SumOfMore` a new entry adds its amount.

Writing these proofs changed the model in one place: `Deposit` and `Reserve` in `Credit` were
CASE expressions whose guards overlap, of which TLA+ leaves open which one is taken (TLC takes the
first). They now test in the code's order.

**Only model-checked:** liveness under fairness, `EveryJobEnds` and `StopEnds`, as the prover does
not do liveness or ENABLED. Every other property of a passing run is stated by a theorem.
No module declares a RECURSIVE operator.

## 6. Where the code and its documents disagree

1. **A live lease can be taken over** (`scheduler_takeover`). `storage/database.go:196` writes
   times whose texts sort wrongly within a second; `FindDue` and the lease tests compare texts. A
   running job can be claimed by another less than a second before its lease ends, against
   README.md:50. `LeasesErrByATick` bounds the damage to that second.
   Metering does not have it, as its Claim also compares instants (`LeasesHoldByTheClock`).
2. **The server never recovers** (`server_unrecovered`). README.md:3 names restart recovery;
   `cmd/server/main.go:34` builds no recovery service and no route calls it. A job whose worker
   dies in its last attempt stays running, and since it is first in the queue every `Claim` of the
   tenant is answered "job exhausted its attempt budget".
3. **Reopen never succeeds** (`workload_reopen`). `leases` is UNIQUE per pool and workload, of
   released rows too (`001_initial.sql:119`), and `Reopen` inserts a second one.
4. **A rejected ledger is stuck** (`ledger_rejected`). Reviews are inserted with version 1
   (`ledger/service.go:187`) under a UNIQUE constraint over the version, so after a rejection, a
   correction and a new Freeze no Review can commit.

## 7. Further observations

These contradict no document or test, and no run is about them, but a maintainer will want them.

* README.md:46 has a workload "reserve both capacity and credits atomically"; `Plan` takes a pool
  lease, and nothing calls `Reserve`.
* No route releases, renews or sweeps a pool lease: the pools of settled and failed workloads stay
  taken on the server as wired. Where the sweep does run, it ends the lease of a workload that is
  still executing, the pool goes to another, and both execute: no transition looks at the lease.
* `Cancel` releases the live lease of the workload's pool and pairs it with the workload, so it
  is refused while another workload's lease is live there.
* A stream opened after alignment, or sealed streams whose ranges do not meet, strand a workload:
  `Align` needs all streams sealed, and no code sets `invalid`, the status one could reopen from.
* A workload may be in several ledgers, and have several metering batches, of which one accepted
  is enough; all of them bill the same segments (`ReleasedAsUsed`).
* A rejection's reply shows an empty digest while the row keeps the old one; the plan's transition
  from approved back to draft is never used.
* The sweep that fails a job writes no outbox event for it, so an announced "running" may be the
  last that is heard of a failed job; and it leaves the attempt row open.
* `Group.Stop` beside a `Start` in progress can leave a worker running; that Stop answers an error.
  After a failed Start, whose cleanup runs the finalizers, a Stop runs them a second time.
* `Deposit` answers success, and does nothing, for a key already used by anything, of whatever
  amount; `Reserve` refuses a deposit's key and accepts a hold's of another amount.
* A balance past int64 becomes REAL in SQLite and the account can no longer be read, by any call:
  its credits are stuck. `BalancesTellEntries` shows that this is all that happens.
* `Reserve` does not ask how many rows its conditional UPDATE changed; only the refusal of stale
  snapshots (`StorageIsSerial`) keeps an entry from being booked without its hold.
* A Bootstrap that is sent again after a lost reply makes a second tenant: names are not unique.
* `CreateUser` is admitted by a session read before its transaction; a logout in between does not
  stop it.

## 8. Not modelled

* **Registration of providers, offers and pools:** single inserts without later updates.
* **Audit rows of the other services:** append-only, in the caller's transaction, and no code reads
  them to decide anything. `Database` counts those of credit and session calls.
* **Authenticate:** reads a session and its user and changes nothing; the expiry of a session is one
  comparison of instants. Deactivated users do not occur, as no call changes a user.
* **HTTP decoding, error mapping, middleware; configuration; net/http shutdown:** formatting and
  I/O. What replies and routes mean for behaviour is in the tickets and in `ServerSpec`.
* **Password hashing and tokens' randomness:** pure computation; tokens are fresh names.
* **Storage:** opening, the connection pool and `Migrate` (CREATE IF NOT EXISTS in a transaction).
  SQLite itself is taken from its documentation of WAL mode. Transactions that only read see one
  snapshot and are left out.
* **The delivery loop and worker processes:** not in the repository. They are modelled from what
  the services answer them, and may do anything those answers allow.
* **Reads** (List, Get, CountBlocking) change nothing; `Get` of a batch is modelled, since it
  tells item versions.

## 9. Plan

Done in this order: `Scheduler` with its liveness and proofs, `Outbox`, `Metering`, `Workloads`,
`Capacity`, `Ledger`, `Worker`; then `Storage` with `Credit`, `Sessions` and their composition
`Database`, the composition `Exchange`, and the proofs of all of them.

What is left, in order of worth:

1. Liveness of outbox events (each ends if workers deliver and recovery runs), by a module like
   `SchedulerLive`.
2. A pool's lease under the sweep with liveness: clients that release are not in the repository, so
   only expiry justifies any fairness.

------------------------------- MODULE Workloads -------------------------------
(***************************************************************************)
(* Workloads, the leases on compute pools that planning one takes, and the *)
(* idempotency record that makes planning safe to retry: tables workloads, *)
(* leases and idempotency_records.                                         *)
(*                                                                         *)
(* Calls are as in Scheduler: one atomic step each, whose "now" may be     *)
(* ClockLag old and whose reply may be lost.  A lease row is never written *)
(* anew: its pool and workload identify it, and stand for its id and its   *)
(* random token.  Whether the streams of a workload are aligned, which     *)
(* Submit requires, is decided outside this module (see Capacity).         *)
(***************************************************************************)
EXTENDS Integers, FiniteSets, Timestamps

CONSTANTS
  Operators,    \* users with the operator role
  Pools,        \* active compute pools, all fit for what is asked of them
  Keys,         \* idempotency keys
  Ids,          \* workload ids, in the order they are drawn
  None,         \* no workload, no pool, no user
  LeaseTTL,     \* in ticks
  KeyTTL,       \* how long a key is remembered (24 h), in ticks
  ClockLag,
  MaxClock,     \* bound: the last tick of a behaviour
  MaxVersion    \* bound: a lease at this version is not renewed

ASSUME WorkloadsAssumption ==
  /\ Ids \subseteq Nat
  /\ None \notin Operators \cup Pools \cup Ids
  /\ LeaseTTL \in Nat \ {0}
  /\ KeyTTL \in Nat \ {0}
  /\ {ClockLag, MaxClock, MaxVersion} \subseteq Nat

VARIABLES
  clock,      \* the wall clock, in half seconds
  workloads,  \* the workloads rows
  leases,     \* the leases rows, by pool and workload
  keys        \* the idempotency_records rows of POST /api/v1/workloads

vars == <<clock, workloads, leases, keys>>

-------------------------------------------------------------------------------
\* A workloads row, "none" standing for no row; key and created say which
\* request made it.
WorkloadRow ==
  [status   : {"none", "planned", "ready", "executing", "metering", "settled",
               "failed", "canceled"},
   pool     : Pools \cup {None},
   operator : Operators \cup {None},
   key      : Keys \cup {None},
   created  : Nat]

\* A leases row; "live" stands for released_at IS NULL.  The owner knows the
\* version it was told last.  Nothing reads the columns of a released lease.
LeaseRow ==
  [state   : {"none", "live", "released"},
   owner   : Operators \cup {None},
   expires : Nat,
   version : Nat,
   told    : Nat]

\* The answer a key remembers, and the request it answered (its fingerprint).
KeyRow == [workload : Ids \cup {None}, pool : Pools \cup {None}, expires : Nat]

NoWorkload == [status |-> "none", pool |-> None, operator |-> None,
               key |-> None, created |-> 0]
NoLease == [state |-> "none", owner |-> None, expires |-> 0, version |-> 0, told |-> 0]
NoKey   == [workload |-> None, pool |-> None, expires |-> 0]

Live(p) == {i \in Ids : leases[p][i].state = "live"}

TypeOK ==
  /\ clock \in Nat
  /\ workloads \in [Ids -> WorkloadRow]
  /\ leases \in [Pools -> [Ids -> LeaseRow]]
  /\ keys \in [Keys -> KeyRow]
  /\ \A p \in Pools : Cardinality(Live(p)) <= 1

Init ==
  /\ clock = 0
  /\ workloads = [i \in Ids |-> NoWorkload]
  /\ leases = [p \in Pools |-> [i \in Ids |-> NoLease]]
  /\ keys = [k \in Keys |-> NoKey]

-------------------------------------------------------------------------------
Sampled == {t \in 0..clock : clock <= t + ClockLag}

\* The constraints of table leases: one live row per pool, and one row ever per
\* pool and workload.
Insertable_onceOnly(p, i) == leases[p][i].state = "none"
Insertable_whenFree(p, i) == Live(p) = {}
Insertable(p, i) == Live(p) = {} /\ leases[p][i].state = "none"

\* The owner's call commits, and is answered or not.
NewLease(o, now) ==
  {[state |-> "live", owner |-> o, expires |-> now + LeaseTTL, version |-> 1,
    told |-> t] : t \in {0, 1}}

Released == [NoLease EXCEPT !.state = "released"]

\* Lookup compares a record's expiry in Go, and deletes it by a comparison of
\* texts; a record that outlives the second makes the later Save fail.
Replays(k, now) == keys[k].workload # None /\ now < keys[k].expires
KeyFree_byText(k, now) ==
  keys[k].workload # None => TextAtMost(keys[k].expires, now)
KeyFree(k, now) ==
  keys[k].workload # None =>
    keys[k].expires <= now /\ TextAtMost(keys[k].expires, now)

Unused == {i \in Ids : workloads[i].status = "none"}

-------------------------------------------------------------------------------
Plan(o, k, p, i, now) ==
  /\ i \in Unused /\ \A j \in Unused : i <= j
  /\ KeyFree(k, now)
  /\ Insertable(p, i)
  /\ workloads' = [workloads EXCEPT ![i] =
       [status |-> "planned", pool |-> p, operator |-> o, key |-> k, created |-> now]]
  /\ \E row \in NewLease(o, now) : leases' = [leases EXCEPT ![p][i] = row]
  /\ keys' = [keys EXCEPT ![k] = [workload |-> i, pool |-> p, expires |-> now + KeyTTL]]
  /\ UNCHANGED clock

\* The same request under a remembered key is answered with what was answered
\* first, the lease at version 1 included (which is of use while it is live).
Replay(k, p, now) ==
  /\ Replays(k, now)
  /\ keys[k].pool = p
  /\ keys[k].workload \in Live(p)
  /\ leases' = [leases EXCEPT ![p][keys[k].workload].told = 1]
  /\ UNCHANGED <<clock, workloads, keys>>

Advance(i, from, to) ==
  /\ workloads[i].status = from
  /\ workloads' = [workloads EXCEPT ![i].status = to]
  /\ UNCHANGED <<clock, leases, keys>>

MarkReady(i) == Advance(i, "planned", "ready")
Start(i)     == Advance(i, "ready", "executing")
Submit(i)    == Advance(i, "executing", "metering")
Settle(i)    == Advance(i, "metering", "settled")
Fail(i)      == Advance(i, "metering", "failed")

\* The live lease of the workload's pool, if there is one, must be its own.
OwnLeaseOrNone(i) == Live(workloads[i].pool) \subseteq {i}

Cancel(i) ==
  LET p == workloads[i].pool
  IN  /\ workloads[i].status \in {"planned", "ready", "executing"}
      /\ OwnLeaseOrNone(i)
      /\ workloads' = [workloads EXCEPT ![i].status = "canceled"]
      /\ leases' = [leases EXCEPT ![p] =
           [j \in Ids |-> IF j \in Live(p) THEN Released ELSE @[j]]]
      /\ UNCHANGED <<clock, keys>>

\* What Reopen would need.  It inserts a lease for the pool and the workload.
Reopenable(i) == workloads[i].status = "failed" /\ Insertable(workloads[i].pool, i)

\* The pool need not be the workload's, nor the workload still active.
ReservePool(o, p, i, now) ==
  /\ i \notin Unused
  /\ Insertable(p, i)
  /\ \E row \in NewLease(o, now) : leases' = [leases EXCEPT ![p][i] = row]
  /\ UNCHANGED <<clock, workloads, keys>>

\* RenewPool and ReleasePool read the lease before their transaction; its UPDATE
\* tests the version again.
Presentable(p, i) ==
  leases[p][i].state = "live" /\ leases[p][i].told = leases[p][i].version

RenewPool(p, i, now) ==
  LET next == leases[p][i].version + 1
  IN  /\ Presentable(p, i)
      /\ TextLess(now, leases[p][i].expires)
      /\ leases[p][i].version < MaxVersion
      /\ \E t \in {leases[p][i].told, next} :
           leases' = [leases EXCEPT ![p][i].expires = now + LeaseTTL,
                                    ![p][i].version = next,
                                    ![p][i].told = t]
      /\ UNCHANGED <<clock, workloads, keys>>

ReleasePool(p, i) ==
  /\ Presentable(p, i)
  /\ leases' = [leases EXCEPT ![p][i] = Released]
  /\ UNCHANGED <<clock, workloads, keys>>

\* recovery.releasePoolLeases, over every pool.
LeaseExpired_any(p, i, now) == leases[p][i].state = "live"
LeaseExpired(p, i, now) ==
  leases[p][i].state = "live" /\ TextAtMost(leases[p][i].expires, now)

RecoverExpired(now) ==
  /\ \E p \in Pools, i \in Ids : LeaseExpired(p, i, now)
  /\ leases' = [p \in Pools |-> [i \in Ids |->
       IF LeaseExpired(p, i, now) THEN Released ELSE leases[p][i]]]
  /\ UNCHANGED <<clock, workloads, keys>>

Tick ==
  /\ clock < MaxClock
  /\ clock' = clock + 1
  /\ UNCHANGED <<workloads, leases, keys>>

Next ==
  \/ Tick
  \/ \E i \in Ids : MarkReady(i) \/ Start(i) \/ Submit(i) \/ Settle(i) \/ Fail(i) \/ Cancel(i)
  \/ \E p \in Pools, i \in Ids : ReleasePool(p, i)
  \/ \E now \in Sampled :
       \/ RecoverExpired(now)
       \/ \E k \in Keys, p \in Pools : Replay(k, p, now)
       \/ \E p \in Pools, i \in Ids :
            \/ RenewPool(p, i, now)
            \/ \E o \in Operators : ReservePool(o, p, i, now)
            \/ \E o \in Operators, k \in Keys : Plan(o, k, p, i, now)

Spec == Init /\ [][Next]_vars

-------------------------------------------------------------------------------
(* What planning promises.                                                   *)

\* A key plans one workload for as long as it is remembered, however often the
\* request is retried and whoever retries it.
OneWorkloadPerKey ==
  \A i, j \in Ids :
    /\ i < j
    /\ workloads[j].status # "none"
    /\ workloads[i].key = workloads[j].key
    => workloads[j].created >= workloads[i].created + KeyTTL

\* A lease ends because its owner, knowing the current row, releases it, because
\* the workload it was taken for is canceled, or because it has expired; never
\* because another workload of the pool, or a stale caller, ends its own.
LeaseEndsForAReason ==
  [][\A p \in Pools, i \in Ids :
       leases[p][i].state = "live" /\ leases'[p][i].state = "released"
       => \/ Presentable(p, i) /\ workloads' = workloads
          \/ workloads[i].pool = p /\ workloads'[i].status = "canceled"
          \/ \E now \in Sampled : TextAtMost(leases[p][i].expires, now)]_vars

\* A lease that ended is not held again: neither by a canceled workload, although
\* anyone may reserve any pool for it afterwards, nor by a workload whose pool has
\* gone on to a later one, even if it is still executing.
EndedLeaseStaysEnded ==
  \A i \in Ids :
    \/ workloads[i].status = "canceled"
    \/ \E j \in Ids : /\ i < j
                      /\ workloads[j].status # "none"
                      /\ workloads[i].pool = workloads[j].pool
    => leases[workloads[i].pool][i].state = "released"

\* A failed workload can be reopened when its pool is free.  Reopen refuses
\* because "pool is not available for rework", and it refuses always: see the
\* run that refutes this.
FreePoolCanReopen ==
  \A i \in Ids :
    workloads[i].status = "failed" /\ Live(workloads[i].pool) = {} => Reopenable(i)

===============================================================================

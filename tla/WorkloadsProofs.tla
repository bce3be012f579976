---------------------------- MODULE WorkloadsProofs ----------------------------
(***************************************************************************)
(* Theorems of Workloads, for any operators, pools, keys, ids and times.   *)
(* They rest on the order in which ids are drawn, on what a key remembers  *)
(* being about the last workload it planned, and on a planned workload's   *)
(* lease being there, live or released: its row is what keeps anyone from  *)
(* taking the pool for it a second time.                                   *)
(***************************************************************************)
EXTENDS Workloads, FiniteSetTheorems, TLAPS

Used == Ids \ Unused

Rows ==
  /\ clock \in Nat
  /\ workloads \in [Ids -> WorkloadRow]
  /\ leases \in [Pools -> [Ids -> LeaseRow]]
  /\ keys \in [Keys -> KeyRow]

OneLive == \A p \in Pools : \A i, j \in Live(p) : i = j

UsedFirst == \A i \in Used, j \in Unused : i < j

UsedHasLease ==
  \A i \in Used : /\ workloads[i].pool \in Pools
                  /\ workloads[i].key \in Keys
                  /\ leases[workloads[i].pool][i].state \in {"live", "released"}

\* The record of a key was written for the last workload planned with it.
KeysRemember ==
  \A i \in Used : /\ keys[workloads[i].key].workload # None
                  /\ keys[workloads[i].key].expires >= workloads[i].created + KeyTTL

IInv ==
  /\ Rows
  /\ OneLive
  /\ UsedFirst
  /\ UsedHasLease
  /\ KeysRemember
  /\ OneWorkloadPerKey
  /\ EndedLeaseStaysEnded

-------------------------------------------------------------------------------
LEMMA SampledPast == ASSUME Rows, NEW now \in Sampled PROVE now \in Nat
BY DEF Sampled, Rows

LEMMA CountLive ==
  ASSUME OneLive, NEW p \in Pools
  PROVE  Cardinality(Live(p)) <= 1
<1>1. CASE Live(p) = {}
  BY <1>1, FS_EmptySet
<1>2. CASE Live(p) # {}
  <2>1. PICK i \in Live(p) : TRUE
    BY <1>2
  <2>2. Live(p) = {i}
    BY <2>1 DEF OneLive
  <2> QED
    BY <2>2, FS_Singleton
<1> QED
  BY <1>1, <1>2

\* A lease is taken: its row is new and live, and the pool was free.
Takes(p, i) ==
  /\ Insertable(p, i)
  /\ leases'[p][i].state = "live"
  /\ \A q \in Pools, j \in Ids : q # p \/ j # i => leases'[q][j] = leases[q][j]

\* No lease is taken; some end.
Ends ==
  \A p \in Pools, i \in Ids :
    \/ leases'[p][i].state = leases[p][i].state
    \/ leases[p][i].state = "live" /\ leases'[p][i].state = "released"

LEMMA TakesEffect ==
  ASSUME Rows, NEW p \in Pools, NEW i \in Ids, NEW o \in Operators, NEW now \in Nat,
         Insertable(p, i), NEW row \in NewLease(o, now),
         leases' = [leases EXCEPT ![p][i] = row]
  PROVE  leases' \in [Pools -> [Ids -> LeaseRow]] /\ Takes(p, i)
<1>1. row \in LeaseRow /\ row.state = "live"
  <2>1. PICK t \in {0, 1} : row = [state |-> "live", owner |-> o, expires |-> now + LeaseTTL,
                                   version |-> 1, told |-> t]
    BY DEF NewLease
  <2>2. now + LeaseTTL \in Nat
    BY WorkloadsAssumption DEF WorkloadsAssumption
  <2> QED
    BY <2>1, <2>2 DEF LeaseRow
<1>2. leases' = [leases EXCEPT ![p] = [leases[p] EXCEPT ![i] = row]]
  OBVIOUS
<1>3. leases[p] \in [Ids -> LeaseRow]
  BY DEF Rows
<1>4. [leases[p] EXCEPT ![i] = row] \in [Ids -> LeaseRow]
  BY <1>1, <1>3
<1> QED
  BY <1>1, <1>2, <1>3, <1>4 DEF Takes, Rows

\* One row is written.
Writes(p, i, row) == leases' = [leases EXCEPT ![p][i] = row]

LEMMA RowEffect ==
  ASSUME Rows, NEW p \in Pools, NEW i \in Ids, NEW row \in LeaseRow, Writes(p, i, row)
  PROVE  /\ leases' \in [Pools -> [Ids -> LeaseRow]]
         /\ leases'[p][i] = row
         /\ \A q \in Pools, j \in Ids : q # p \/ j # i => leases'[q][j] = leases[q][j]
<1>1. leases' = [leases EXCEPT ![p] = [leases[p] EXCEPT ![i] = row]]
  BY DEF Writes
<1>2. leases[p] \in [Ids -> LeaseRow]
  BY DEF Rows
<1>3. [leases[p] EXCEPT ![i] = row] \in [Ids -> LeaseRow]
  BY <1>2
<1> QED
  BY <1>1, <1>2, <1>3 DEF Rows

LEMMA ReleasedRow == Released \in LeaseRow /\ Released.state = "released"
BY DEF Released, NoLease, LeaseRow

-------------------------------------------------------------------------------
(* What the calls do to leases.                                              *)

LEMMA ReplayEnds ==
  ASSUME Rows, NEW k \in Keys, NEW p \in Pools, NEW now \in Nat, Replay(k, p, now)
  PROVE  /\ leases' \in [Pools -> [Ids -> LeaseRow]]
         /\ \A q \in Pools, j \in Ids : leases'[q][j].state = leases[q][j].state
<1> DEFINE i == keys[k].workload
           row == [leases[p][i] EXCEPT !.told = 1]
<1>1. i \in Ids
  BY DEF Replay, Live
<1>2. leases[p][i] \in LeaseRow
  BY <1>1 DEF Rows
<1>3. row \in LeaseRow /\ row.state = leases[p][i].state
  BY <1>2 DEF LeaseRow
<1>4. Writes(p, i, row)
  BY DEF Replay, Writes
<1> HIDE DEF i, row
<1> QED
  BY <1>1, <1>3, <1>4, RowEffect

LEMMA RenewEnds ==
  ASSUME Rows, NEW p \in Pools, NEW i \in Ids, NEW now \in Nat, RenewPool(p, i, now)
  PROVE  /\ leases' \in [Pools -> [Ids -> LeaseRow]]
         /\ \A q \in Pools, j \in Ids : leases'[q][j].state = leases[q][j].state
<1> DEFINE next == leases[p][i].version + 1
           end == now + LeaseTTL
<1>1. leases[p][i] \in LeaseRow /\ next \in Nat /\ end \in Nat
  <2>1. leases[p][i] \in LeaseRow
    BY DEF Rows
  <2> QED
    BY <2>1, WorkloadsAssumption DEF WorkloadsAssumption, LeaseRow
<1>2. PICK t \in {leases[p][i].told, next} :
        leases' = [leases EXCEPT ![p][i].expires = end, ![p][i].version = next, ![p][i].told = t]
  BY DEF RenewPool
<1> HIDE DEF next, end
<1>3. t \in Nat
  BY <1>1, <1>2 DEF LeaseRow
<1> DEFINE row == [leases[p][i] EXCEPT !.expires = end, !.version = next, !.told = t]
<1>4. row \in LeaseRow /\ row.state = leases[p][i].state
  BY <1>1, <1>3 DEF LeaseRow
<1>5. Writes(p, i, row)
  BY <1>2 DEF Rows, Writes
<1> HIDE DEF row
<1> QED
  BY <1>4, <1>5, RowEffect

LEMMA ReleaseEnds ==
  ASSUME Rows, NEW p \in Pools, NEW i \in Ids, ReleasePool(p, i)
  PROVE  /\ leases' \in [Pools -> [Ids -> LeaseRow]]
         /\ Ends
         /\ \A q \in Pools, j \in Ids : q # p \/ j # i => leases'[q][j] = leases[q][j]
<1>1. Writes(p, i, Released) /\ leases[p][i].state = "live"
  BY DEF ReleasePool, Presentable, Writes
<1>2. /\ leases' \in [Pools -> [Ids -> LeaseRow]]
      /\ leases'[p][i].state = "released"
      /\ \A q \in Pools, j \in Ids : q # p \/ j # i => leases'[q][j] = leases[q][j]
  BY <1>1, RowEffect, ReleasedRow
<1> QED
  BY <1>1, <1>2 DEF Ends

LEMMA SweepEnds ==
  ASSUME Rows, NEW now \in Nat, RecoverExpired(now)
  PROVE  leases' \in [Pools -> [Ids -> LeaseRow]] /\ Ends
BY ReleasedRow DEF RecoverExpired, LeaseExpired, Ends, Rows

LEMMA CancelEnds ==
  ASSUME Rows, UsedHasLease, NEW i \in Ids, Cancel(i)
  PROVE  LET p == workloads[i].pool
         IN  /\ p \in Pools /\ i \in Used
             /\ leases' \in [Pools -> [Ids -> LeaseRow]]
             /\ Ends
             /\ leases'[p][i].state = "released"
             /\ \A q \in Pools, j \in Ids :
                  leases'[q][j].state # leases[q][j].state => q = p /\ j = i
<1> DEFINE p == workloads[i].pool
           rows == [j \in Ids |-> IF j \in Live(p) THEN Released ELSE leases[p][j]]
<1>1. i \in Used /\ p \in Pools
  BY DEF Cancel, Used, Unused, UsedHasLease
<1>2. leases' = [leases EXCEPT ![p] = rows] /\ Live(p) \subseteq {i}
  BY DEF Cancel, OwnLeaseOrNone
<1>3. rows \in [Ids -> LeaseRow]
  BY <1>1, ReleasedRow DEF Rows
<1>4. \A j \in Ids : /\ j \in Live(p) <=> leases[p][j].state = "live"
                     /\ leases[p][i].state \in {"live", "released"}
  BY <1>1 DEF Live, UsedHasLease
<1>5. /\ leases' \in [Pools -> [Ids -> LeaseRow]]
      /\ \A q \in Pools \ {p} : leases'[q] = leases[q]
      /\ leases'[p] = rows
  BY <1>1, <1>2, <1>3 DEF Rows
<1>6. \A j \in Ids : IF j \in Live(p) THEN rows[j].state = "released"
                                      ELSE rows[j] = leases[p][j]
  BY ReleasedRow
<1> HIDE DEF rows, p
<1>7. Ends /\ leases'[p][i].state = "released"
  BY <1>1, <1>4, <1>5, <1>6 DEF Ends
<1>8. \A q \in Pools, j \in Ids : leases'[q][j].state # leases[q][j].state => q = p /\ j = i
  BY <1>2, <1>4, <1>5, <1>6
<1> QED
  BY <1>1, <1>5, <1>7, <1>8 DEF p

-------------------------------------------------------------------------------
(* Steps that leave the workloads, or take no lease, keep the invariant.     *)

LEMMA OneLiveKept ==
  ASSUME OneLive, Ends \/ \E p \in Pools, i \in Ids : Takes(p, i)
  PROVE  OneLive'
<1>1. CASE Ends
  BY <1>1 DEF Ends, OneLive, Live
<1>2. ASSUME NEW p \in Pools, NEW i \in Ids, Takes(p, i) PROVE OneLive'
  <2> SUFFICES ASSUME NEW q \in Pools, NEW j \in Live(q)', NEW k \in Live(q)'
               PROVE  j = k
    BY DEF OneLive
  <2>1. CASE q = p
    BY <1>2, <2>1 DEF Takes, Insertable, Live
  <2>2. CASE q # p
    BY <1>2, <2>2 DEF Takes, OneLive, Live
  <2> QED
    BY <2>1, <2>2
<1> QED
  BY <1>1, <1>2

LEMMA LeasesOnly ==
  ASSUME IInv, leases' \in [Pools -> [Ids -> LeaseRow]],
         Ends \/ \E p \in Pools, i \in Ids : Takes(p, i),
         UNCHANGED <<clock, workloads, keys>>
  PROVE  IInv'
<1>1. Rows' /\ OneLive'
  BY OneLiveKept DEF IInv, Rows
<1>2. UsedFirst' /\ KeysRemember' /\ OneWorkloadPerKey'
  BY DEF IInv, UsedFirst, KeysRemember, OneWorkloadPerKey, Used, Unused
<1>3. \A q \in Pools, j \in Ids :
        /\ leases[q][j].state \in {"live", "released"} =>
             leases'[q][j].state \in {"live", "released"}
        /\ leases[q][j].state = "released" => leases'[q][j].state = "released"
  BY DEF Ends, Takes, Insertable
<1>4. UsedHasLease'
  BY <1>3 DEF IInv, UsedHasLease, Used, Unused
<1>5. EndedLeaseStaysEnded'
  <2> SUFFICES ASSUME NEW i \in Ids,
                      \/ workloads[i].status = "canceled"
                      \/ \E j \in Ids : /\ i < j
                                        /\ workloads[j].status # "none"
                                        /\ workloads[i].pool = workloads[j].pool
               PROVE  leases'[workloads[i].pool][i].state = "released"
    BY DEF EndedLeaseStaysEnded
  <2>1. leases[workloads[i].pool][i].state = "released"
    BY DEF IInv, EndedLeaseStaysEnded
  <2>2. workloads[i].pool \in Pools
    BY DEF IInv, UsedHasLease, Used, Unused
  <2> QED
    BY <2>1, <2>2, <1>3
<1> QED
  BY <1>1, <1>2, <1>4, <1>5 DEF IInv

\* A workload's status moves on and its lease, if any, stays or ends.
LEMMA StatusOnly ==
  ASSUME IInv, NEW i \in Used, NEW to \in {"ready", "executing", "metering", "settled",
                                          "failed", "canceled"},
         workloads' = [workloads EXCEPT ![i].status = to],
         leases' \in [Pools -> [Ids -> LeaseRow]],
         Ends,
         to = "canceled" => leases'[workloads[i].pool][i].state = "released",
         UNCHANGED <<clock, keys>>
  PROVE  IInv'
<1>1. i \in Ids /\ workloads[i] \in WorkloadRow
  BY DEF IInv, Rows, Used
<1>2. /\ workloads' \in [Ids -> WorkloadRow]
      /\ workloads'[i].status = to
      /\ \A j \in Ids \ {i} : workloads'[j] = workloads[j]
      /\ \A j \in Ids : /\ workloads'[j].pool = workloads[j].pool
                        /\ workloads'[j].key = workloads[j].key
                        /\ workloads'[j].created = workloads[j].created
  <2> DEFINE row == [workloads[i] EXCEPT !.status = to]
  <2>1. /\ row \in WorkloadRow /\ row.status = to
        /\ row.pool = workloads[i].pool
        /\ row.key = workloads[i].key
        /\ row.created = workloads[i].created
    BY <1>1 DEF WorkloadRow
  <2>2. workloads' = [workloads EXCEPT ![i] = row]
    OBVIOUS
  <2> HIDE DEF row
  <2> QED
    BY <1>1, <2>1, <2>2 DEF IInv, Rows
<1>3. Used' = Used /\ Unused' = Unused
  BY <1>1, <1>2 DEF Used, Unused
<1>4. Rows' /\ OneLive'
  BY <1>2, OneLiveKept DEF IInv, Rows
<1>5. UsedFirst'
  BY <1>3 DEF IInv, UsedFirst
<1>6. UsedHasLease'
  BY <1>2, <1>3 DEF IInv, UsedHasLease, Ends, Used
<1>7. KeysRemember'
  BY <1>2, <1>3 DEF IInv, KeysRemember, Used
<1>8. OneWorkloadPerKey'
  BY <1>2, <1>1 DEF IInv, OneWorkloadPerKey, Used, Unused
<1>9. EndedLeaseStaysEnded'
  <2> SUFFICES ASSUME NEW m \in Ids,
                      \/ workloads'[m].status = "canceled"
                      \/ \E j \in Ids : /\ m < j
                                        /\ workloads'[j].status # "none"
                                        /\ workloads'[m].pool = workloads'[j].pool
               PROVE  leases'[workloads[m].pool][m].state = "released"
    BY <1>2 DEF EndedLeaseStaysEnded
  <2>1. CASE m = i /\ to = "canceled"
    BY <2>1
  <2>2. CASE ~(m = i /\ to = "canceled")
    <3>1. \A j \in Ids : workloads'[j].status # "none" => workloads[j].status # "none"
      BY <1>1, <1>2 DEF Used, Unused
    <3>2. leases[workloads[m].pool][m].state = "released"
      BY <1>2, <2>2, <3>1 DEF IInv, EndedLeaseStaysEnded
    <3>3. workloads[m].pool \in Pools
      BY <1>2, <2>2, <3>1 DEF IInv, UsedHasLease, Used, Unused
    <3> QED
      BY <3>2, <3>3 DEF Ends
  <2> QED
    BY <2>1, <2>2
<1> QED
  BY <1>4, <1>5, <1>6, <1>7, <1>8, <1>9 DEF IInv

LEMMA AdvanceKeeps ==
  ASSUME IInv, NEW i \in Ids, NEW from, from # "none",
         NEW to \in {"ready", "executing", "metering", "settled", "failed"},
         Advance(i, from, to)
  PROVE  IInv'
<1>1. i \in Used
  BY DEF Advance, Used, Unused
<1>2. Ends /\ leases' \in [Pools -> [Ids -> LeaseRow]]
  BY DEF Advance, Ends, IInv, Rows
<1> QED
  BY <1>1, <1>2, StatusOnly DEF Advance

LEMMA CancelKeeps ==
  ASSUME IInv, NEW i \in Ids, Cancel(i)
  PROVE  IInv'
<1>1. /\ i \in Used
      /\ leases' \in [Pools -> [Ids -> LeaseRow]]
      /\ Ends
      /\ leases'[workloads[i].pool][i].state = "released"
  BY CancelEnds DEF IInv
<1> QED
  BY <1>1, StatusOnly DEF Cancel

-------------------------------------------------------------------------------
(* Planning: the id drawn is the least unused one, its key is either fresh   *)
(* or has outlived what it remembers, and its pool is free.                  *)

LEMMA PlanKeeps ==
  ASSUME IInv, NEW o \in Operators, NEW k \in Keys, NEW p \in Pools, NEW i \in Ids,
         NEW now \in Nat, Plan(o, k, p, i, now)
  PROVE  IInv'
<1> DEFINE w == [status |-> "planned", pool |-> p, operator |-> o, key |-> k,
                 created |-> now]
           end == now + KeyTTL
           r == [workload |-> i, pool |-> p, expires |-> end]
<1>1. w \in WorkloadRow /\ end \in Nat /\ r \in KeyRow
  BY WorkloadsAssumption DEF WorkloadsAssumption, WorkloadRow, KeyRow
<1>2. /\ workloads' \in [Ids -> WorkloadRow]
      /\ workloads'[i] = w
      /\ \A j \in Ids \ {i} : workloads'[j] = workloads[j]
  BY <1>1 DEF Plan, IInv, Rows
<1>3. /\ keys' \in [Keys -> KeyRow]
      /\ keys'[k] = r
      /\ \A l \in Keys \ {k} : keys'[l] = keys[l]
  BY <1>1 DEF Plan, IInv, Rows
<1>4. leases' \in [Pools -> [Ids -> LeaseRow]] /\ Takes(p, i)
  <2>1. PICK row \in NewLease(o, now) : leases' = [leases EXCEPT ![p][i] = row]
    BY DEF Plan
  <2>2. Insertable(p, i)
    BY DEF Plan
  <2> QED
    BY <2>1, <2>2, TakesEffect DEF IInv
<1>5. /\ w.status = "planned" /\ w.pool = p /\ w.key = k /\ w.created = now
      /\ r.workload = i /\ r.expires = end
  OBVIOUS
<1>6. /\ i \in Unused /\ \A j \in Unused : i <= j
      /\ KeyFree(k, now)
  BY DEF Plan
<1>7. i # None /\ i \in Nat /\ Ids \subseteq Nat /\ KeyTTL \in Nat
  BY WorkloadsAssumption DEF WorkloadsAssumption
<1> HIDE DEF w, r, end
<1>8. Used' = Used \cup {i} /\ Unused' = Unused \ {i} /\ i \notin Used
  BY <1>2, <1>5, <1>6 DEF Used, Unused
<1>9. \A j \in Used : j \in Ids /\ j < i
  BY <1>6, <1>7 DEF IInv, UsedFirst, Used
<1>10. Rows'
  BY <1>2, <1>3, <1>4 DEF IInv, Rows, Plan
<1>11. OneLive'
  BY <1>4, OneLiveKept DEF IInv
<1>12. UsedFirst'
  <2> SUFFICES ASSUME NEW a \in Used', NEW b \in Unused' PROVE a < b
    BY DEF UsedFirst
  <2>1. CASE a = i
    <3>1. b \in Ids /\ i <= b /\ b # i
      BY <1>6, <1>8 DEF Unused
    <3> QED
      BY <2>1, <3>1, <1>7
  <2>2. CASE a # i
    BY <2>2, <1>8 DEF IInv, UsedFirst
  <2> QED
    BY <2>1, <2>2
<1>13. UsedHasLease'
  <2> SUFFICES ASSUME NEW a \in Used'
               PROVE  /\ workloads'[a].pool \in Pools
                      /\ workloads'[a].key \in Keys
                      /\ leases'[workloads'[a].pool][a].state \in {"live", "released"}
    BY DEF UsedHasLease
  <2>1. CASE a = i
    BY <2>1, <1>2, <1>4, <1>5 DEF Takes
  <2>2. CASE a # i
    <3>1. a \in Ids /\ a \in Used /\ workloads'[a] = workloads[a]
      BY <2>2, <1>8, <1>9, <1>2
    <3>2. workloads[a].pool \in Pools /\ workloads[a].key \in Keys
          /\ leases[workloads[a].pool][a].state \in {"live", "released"}
      BY <3>1 DEF IInv, UsedHasLease
    <3> QED
      BY <3>1, <3>2, <2>2, <1>4 DEF Takes
  <2> QED
    BY <2>1, <2>2
<1>14. \A a \in Used : workloads[a].key = k => now >= workloads[a].created + KeyTTL
  <2> SUFFICES ASSUME NEW a \in Used, workloads[a].key = k
               PROVE  now >= workloads[a].created + KeyTTL
    OBVIOUS
  <2>1. keys[k].workload # None /\ keys[k].expires >= workloads[a].created + KeyTTL
    BY DEF IInv, KeysRemember
  <2>2. keys[k].expires <= now
    BY <1>6, <2>1 DEF KeyFree
  <2>3. keys[k].expires \in Nat /\ workloads[a].created \in Nat
    BY <1>9 DEF IInv, Rows, KeyRow, WorkloadRow
  <2> QED
    BY <2>1, <2>2, <2>3, <1>7
<1>15. KeysRemember'
  <2> SUFFICES ASSUME NEW a \in Used'
               PROVE  /\ keys'[workloads'[a].key].workload # None
                      /\ keys'[workloads'[a].key].expires >= workloads'[a].created + KeyTTL
    BY WorkloadsAssumption DEF KeysRemember
  <2>1. CASE a = i
    BY <2>1, <1>1, <1>2, <1>3, <1>5, <1>7 DEF end
  <2>2. CASE a # i
    <3>1. a \in Ids /\ a \in Used /\ workloads'[a] = workloads[a]
      BY <2>2, <1>8, <1>9, <1>2
    <3>2. CASE workloads[a].key = k
      <4>1. now >= workloads[a].created + KeyTTL
        BY <3>1, <3>2, <1>14
      <4>2. workloads[a].created \in Nat
        BY <3>1 DEF IInv, Rows, WorkloadRow
      <4>3. keys'[k].workload # None /\ keys'[k].expires = now + KeyTTL
        BY <1>3, <1>5, <1>7 DEF end
      <4> QED
        BY <3>1, <3>2, <4>1, <4>2, <4>3, <1>7
    <3>3. CASE workloads[a].key # k
      <4>1. workloads[a].key \in Keys
        BY <3>1 DEF IInv, UsedHasLease
      <4>2. keys'[workloads[a].key] = keys[workloads[a].key]
        BY <3>3, <4>1, <1>3
      <4> QED
        BY <3>1, <4>2 DEF IInv, KeysRemember
    <3> QED
      BY <3>2, <3>3
  <2> QED
    BY <2>1, <2>2
<1>16. OneWorkloadPerKey'
  <2> SUFFICES ASSUME NEW a \in Ids, NEW b \in Ids,
                      a < b,
                      workloads'[b].status # "none",
                      workloads'[a].key = workloads'[b].key
               PROVE  workloads'[b].created >= workloads'[a].created + KeyTTL
    BY WorkloadsAssumption DEF OneWorkloadPerKey
  <2>1. b = i \/ b \in Used
    BY <1>2 DEF Used, Unused
  <2>2. a \in Used /\ workloads'[a] = workloads[a]
    <3>1. a < i
      BY <2>1, <1>7, <1>9
    <3>2. a # i
      BY <3>1, <1>7
    <3>3. a \notin Unused
      BY <3>1, <1>6, <1>7
    <3> QED
      BY <3>2, <3>3, <1>2 DEF Used
  <2>3. CASE b = i
    BY <2>2, <2>3, <1>2, <1>5, <1>14
  <2>4. CASE b # i
    <3>1. b \in Used /\ workloads'[b] = workloads[b]
      BY <2>1, <2>4, <1>2
    <3> QED
      BY <2>2, <3>1 DEF IInv, OneWorkloadPerKey, Used, Unused
  <2> QED
    BY <2>3, <2>4
<1>17. EndedLeaseStaysEnded'
  <2> SUFFICES ASSUME NEW a \in Ids,
                      \/ workloads'[a].status = "canceled"
                      \/ \E b \in Ids : /\ a < b
                                        /\ workloads'[b].status # "none"
                                        /\ workloads'[a].pool = workloads'[b].pool
               PROVE  leases'[workloads'[a].pool][a].state = "released"
    BY DEF EndedLeaseStaysEnded
  <2>1. a \in Used /\ workloads'[a] = workloads[a] /\ a # i
    <3>1. CASE workloads'[a].status = "canceled"
      BY <3>1, <1>2, <1>5, <1>8 DEF Used, Unused
    <3>2. ASSUME NEW b \in Ids, a < b, workloads'[b].status # "none" PROVE a < i
      BY <3>2, <1>2, <1>7, <1>9 DEF Used, Unused
    <3>3. CASE a < i
      BY <3>3, <1>2, <1>6, <1>7 DEF Used
    <3> QED
      BY <3>1, <3>2, <3>3
  <2>2. workloads[a].pool \in Pools
        /\ leases[workloads[a].pool][a].state \in {"live", "released"}
    BY <2>1 DEF IInv, UsedHasLease
  <2>3. leases[workloads[a].pool][a].state = "released"
    <3>1. CASE workloads[a].status = "canceled"
      BY <3>1 DEF IInv, EndedLeaseStaysEnded
    <3>2. CASE workloads[a].pool = p
      BY <2>2, <3>2, <1>4 DEF Takes, Insertable, Live
    <3>3. ASSUME NEW b \in Ids, a < b, workloads'[b].status # "none",
                 workloads'[a].pool = workloads'[b].pool, workloads[a].pool # p
          PROVE  leases[workloads[a].pool][a].state = "released"
      <4>1. b # i
        BY <3>3, <2>1, <1>2, <1>5
      <4>2. workloads'[b] = workloads[b]
        BY <4>1, <1>2
      <4> QED
        BY <3>3, <4>2, <2>1 DEF IInv, EndedLeaseStaysEnded
    <3> QED
      BY <2>1, <3>1, <3>2, <3>3
  <2> QED
    BY <2>1, <2>2, <2>3, <1>4 DEF Takes
<1> QED
  BY <1>10, <1>11, <1>12, <1>13, <1>15, <1>16, <1>17 DEF IInv

-------------------------------------------------------------------------------
LEMMA InitInv == Init => IInv
<1> SUFFICES ASSUME Init PROVE IInv
  OBVIOUS
<1>1. Used = {}
  BY DEF Init, Used, Unused, NoWorkload
<1>2. Rows
  BY DEF Init, Rows, NoWorkload, NoLease, NoKey, WorkloadRow, LeaseRow, KeyRow
<1>3. \A p \in Pools : Live(p) = {}
  BY DEF Init, Live, NoLease
<1>4. OneLive /\ UsedFirst /\ UsedHasLease /\ KeysRemember
  BY <1>1, <1>3 DEF OneLive, UsedFirst, UsedHasLease, KeysRemember
<1>5. \A i \in Ids : workloads[i].status = "none"
  BY DEF Init, NoWorkload
<1>6. OneWorkloadPerKey /\ EndedLeaseStaysEnded
  BY <1>5 DEF OneWorkloadPerKey, EndedLeaseStaysEnded
<1> QED
  BY <1>2, <1>4, <1>6 DEF IInv

LEMMA NextInv == IInv /\ [Next]_vars => IInv'
<1> SUFFICES ASSUME IInv, [Next]_vars PROVE IInv'
  OBVIOUS
<1>1. CASE UNCHANGED vars
  BY <1>1 DEF vars, IInv, Rows, OneLive, Live, UsedFirst, UsedHasLease, KeysRemember,
              OneWorkloadPerKey, EndedLeaseStaysEnded, Used, Unused
<1>2. CASE Tick
  BY <1>2 DEF Tick, IInv, Rows, OneLive, Live, UsedFirst, UsedHasLease, KeysRemember,
              OneWorkloadPerKey, EndedLeaseStaysEnded, Used, Unused
<1>3. ASSUME NEW i \in Ids,
             MarkReady(i) \/ Start(i) \/ Submit(i) \/ Settle(i) \/ Fail(i)
      PROVE  IInv'
  BY <1>3, AdvanceKeeps DEF MarkReady, Start, Submit, Settle, Fail
<1>4. ASSUME NEW i \in Ids, Cancel(i) PROVE IInv'
  BY <1>4, CancelKeeps
<1>5. ASSUME NEW p \in Pools, NEW i \in Ids, ReleasePool(p, i) PROVE IInv'
  BY <1>5, ReleaseEnds, LeasesOnly DEF IInv, ReleasePool
<1>6. ASSUME NEW now \in Sampled, RecoverExpired(now) PROVE IInv'
  BY <1>6, SampledPast, SweepEnds, LeasesOnly DEF IInv, RecoverExpired
<1>7. ASSUME NEW now \in Sampled, NEW k \in Keys, NEW p \in Pools, Replay(k, p, now)
      PROVE  IInv'
  <2>1. leases' \in [Pools -> [Ids -> LeaseRow]] /\ Ends
    BY <1>7, SampledPast, ReplayEnds DEF IInv, Ends
  <2> QED
    BY <1>7, <2>1, LeasesOnly DEF Replay
<1>8. ASSUME NEW now \in Sampled, NEW p \in Pools, NEW i \in Ids, RenewPool(p, i, now)
      PROVE  IInv'
  <2>1. leases' \in [Pools -> [Ids -> LeaseRow]] /\ Ends
    BY <1>8, SampledPast, RenewEnds DEF IInv, Ends
  <2> QED
    BY <1>8, <2>1, LeasesOnly DEF RenewPool
<1>9. ASSUME NEW now \in Sampled, NEW p \in Pools, NEW i \in Ids, NEW o \in Operators,
             ReservePool(o, p, i, now)
      PROVE  IInv'
  <2>1. PICK row \in NewLease(o, now) : leases' = [leases EXCEPT ![p][i] = row]
    BY <1>9 DEF ReservePool
  <2>2. Insertable(p, i) /\ now \in Nat
    BY <1>9, SampledPast DEF ReservePool, IInv
  <2>3. leases' \in [Pools -> [Ids -> LeaseRow]] /\ Takes(p, i)
    BY <2>1, <2>2, TakesEffect DEF IInv
  <2> QED
    BY <1>9, <2>3, LeasesOnly DEF ReservePool
<1>10. ASSUME NEW now \in Sampled, NEW p \in Pools, NEW i \in Ids, NEW o \in Operators,
              NEW k \in Keys, Plan(o, k, p, i, now)
       PROVE  IInv'
  BY <1>10, SampledPast, PlanKeeps DEF IInv
<1> QED
  BY <1>1, <1>2, <1>3, <1>4, <1>5, <1>6, <1>7, <1>8, <1>9, <1>10 DEF Next

LEMMA Invariant == Spec => []IInv
BY InitInv, NextInv, PTL DEF Spec

-------------------------------------------------------------------------------
(* The theorems.                                                             *)

\* Rows are well formed, and a pool has at most one live lease however the
\* calls of planners, owners and the sweep interleave.
THEOREM TypeCorrect == Spec => []TypeOK
<1>1. IInv => TypeOK
  BY CountLive DEF IInv, Rows, TypeOK
<1> QED
  BY <1>1, Invariant, PTL

\* A key that is remembered never plans a second workload.
THEOREM KeysPlanOnce == Spec => []OneWorkloadPerKey
<1>1. IInv => OneWorkloadPerKey
  BY DEF IInv
<1> QED
  BY <1>1, Invariant, PTL

\* A canceled workload, and one whose pool went on to a later workload, never
\* holds the pool again.
THEOREM EndedLeasesStayEnded == Spec => []EndedLeaseStaysEnded
<1>1. IInv => EndedLeaseStaysEnded
  BY DEF IInv
<1> QED
  BY <1>1, Invariant, PTL

\* Of all calls only the owner's release, the cancellation of the lease's own
\* workload and the sweep of an expired lease end one.
THEOREM LeasesEndForAReason == Spec => LeaseEndsForAReason
<1> DEFINE Reason(p, i) ==
      \/ Presentable(p, i) /\ workloads' = workloads
      \/ workloads[i].pool = p /\ workloads'[i].status = "canceled"
      \/ \E now \in Sampled : TextAtMost(leases[p][i].expires, now)
<1>1. ASSUME IInv, [Next]_vars, NEW p \in Pools, NEW i \in Ids,
             leases[p][i].state = "live", leases'[p][i].state = "released"
      PROVE  Reason(p, i)
  <2>1. CASE UNCHANGED leases
    BY <1>1, <2>1
  <2>2. ASSUME NEW j \in Ids,
               MarkReady(j) \/ Start(j) \/ Submit(j) \/ Settle(j) \/ Fail(j)
        PROVE  Reason(p, i)
    BY <2>1, <2>2 DEF MarkReady, Start, Submit, Settle, Fail, Advance
  <2>3. ASSUME NEW j \in Ids, Cancel(j) PROVE Reason(p, i)
    <3>1. workloads[j].pool = p /\ i = j
      BY <1>1, <2>3, CancelEnds DEF IInv
    <3>2. workloads' = [workloads EXCEPT ![j].status = "canceled"]
      BY <2>3 DEF Cancel
    <3>3. workloads'[i].status = "canceled"
      BY <3>1, <3>2, <1>1 DEF IInv, Rows, WorkloadRow
    <3> QED
      BY <3>1, <3>3
  <2>4. ASSUME NEW q \in Pools, NEW j \in Ids, ReleasePool(q, j) PROVE Reason(p, i)
    <3>1. q = p /\ j = i
      BY <1>1, <2>4, ReleaseEnds DEF IInv
    <3> QED
      BY <2>4, <3>1 DEF ReleasePool
  <2>5. ASSUME NEW now \in Sampled, RecoverExpired(now) PROVE Reason(p, i)
    BY <1>1, <2>5 DEF RecoverExpired, LeaseExpired, IInv, Rows
  <2>6. ASSUME NEW now \in Sampled, NEW k \in Keys, NEW q \in Pools, Replay(k, q, now)
        PROVE  Reason(p, i)
    BY <1>1, <2>6, SampledPast, ReplayEnds DEF IInv
  <2>7. ASSUME NEW now \in Sampled, NEW q \in Pools, NEW j \in Ids, RenewPool(q, j, now)
        PROVE  Reason(p, i)
    BY <1>1, <2>7, SampledPast, RenewEnds DEF IInv
  <2>8. ASSUME NEW now \in Sampled, NEW q \in Pools, NEW j \in Ids, NEW o \in Operators,
               \/ ReservePool(o, q, j, now)
               \/ \E k \in Keys : Plan(o, k, q, j, now)
        PROVE  Reason(p, i)
    <3>1. PICK row \in NewLease(o, now) : leases' = [leases EXCEPT ![q][j] = row]
      BY <2>8 DEF ReservePool, Plan
    <3>2. Insertable(q, j) /\ now \in Nat
      BY <1>1, <2>8, SampledPast DEF ReservePool, Plan, IInv
    <3>3. Takes(q, j)
      BY <1>1, <3>1, <3>2, TakesEffect DEF IInv
    <3> QED
      BY <1>1, <3>3 DEF Takes
  <2>9. UNCHANGED vars \/ Tick => UNCHANGED leases
    BY DEF vars, Tick
  <2> HIDE DEF Reason
  <2> QED
    BY <1>1, <2>1, <2>2, <2>3, <2>4, <2>5, <2>6, <2>7, <2>8, <2>9 DEF Next
<1>2. IInv /\ [Next]_vars => [\A p \in Pools, i \in Ids :
        leases[p][i].state = "live" /\ leases'[p][i].state = "released"
        => Reason(p, i)]_vars
  BY <1>1
<1> QED
  BY <1>2, Invariant, PTL DEF Spec, LeaseEndsForAReason

===============================================================================

-------------------------------- MODULE Exchange --------------------------------
(***************************************************************************)
(* From usage to release: the components meet in the tables, and each      *)
(* tests once what another wrote.  One workload is followed all the way:   *)
(* its segments (Capacity), the metering batches that bill them (what      *)
(* Metering implements, ReviewCycle, with the segments a batch copied),    *)
(* and the ledgers that collect it (Ledger) beside workloads of which only *)
(* that they settled and were accepted is known.                           *)
(***************************************************************************)
EXTENDS Ledger, UsageSegments

CONSTANTS
  Followed,    \* the workload whose usage is followed
  MaxBatches   \* bound: metering batches of it

ASSUME ExchangeAssumption == Followed \in Workloads /\ MaxBatches \in Nat

VARIABLES
  workload, streams, records,  \* of the followed workload: see Capacity
  batches  \* its usage_batches rows, each with the segments of its usage_items

Usage == INSTANCE Capacity

usageVars  == <<workload, streams, records>>
allVars    == <<vars, usageVars, batches>>

-------------------------------------------------------------------------------
Batch == 1..MaxBatches

BatchRow == [stage  : {"absent", "work", "review", "accepted"},
             billed : [Kinds -> SUBSET Segments]]

\* Besides the types: what the ledgers know of the workload is what it is.
Types ==
  /\ TypeOK
  /\ Usage!TypeOK
  /\ batches \in [Batch -> BatchRow]
  /\ Followed \in settled <=> workload = "settled"
  /\ Followed \in accepted <=> \E b \in Batch : batches[b].stage = "accepted"

NothingBilled == [k \in Kinds |-> {}]

ExchangeInit ==
  /\ Init
  /\ Usage!Init
  /\ batches = [b \in Batch |-> [stage |-> "absent", billed |-> NothingBilled]]

-------------------------------------------------------------------------------
\* Calls on the followed workload and its streams that no ledger can tell.
Use ==
  /\ \/ Usage!MarkReady \/ Usage!Start \/ Usage!Submit \/ Usage!Fail \/ Usage!Cancel
     \/ \E k \in Kinds : \/ Usage!OpenStream(k) \/ Usage!Seal(k)
                         \/ \E batch \in Batches : Usage!Append(k, batch)
     \/ \E tolerance \in 0..MaxTolerance : Usage!AlignWorkload(tolerance)
  /\ UNCHANGED <<vars, batches>>

\* The services of workloads and of ledgers read one status.
SettleUsage ==
  /\ Usage!Settle
  /\ Settle(Followed)
  /\ UNCHANGED batches

\* metering.Create makes an item of every segment of every stream.
ItemsOf_first(k) == {s \in records[k] : s.sequence = 0}
ItemsOf(k) == records[k]

Billable ==
  /\ workload = "settled"
  /\ Usage!Opened # {}
  /\ \A k \in Usage!Opened : streams[k].status = "aligned"
  /\ \E k \in Usage!Opened : records[k] # {}

CreateBatch(b) ==
  /\ batches[b].stage = "absent"
  /\ \A a \in Batch : a < b => batches[a].stage # "absent"
  /\ Billable
  /\ batches' = [batches EXCEPT ![b] = [stage  |-> "work",
                                       billed |-> [k \in Kinds |-> ItemsOf(k)]]]
  /\ UNCHANGED <<vars, usageVars>>

\* Submit and the review without acceptance, as ReviewCycle has them; whose
\* claim it was, and the items recorded so far, are Metering's.
MoveBatch(b, from, to) ==
  /\ batches[b].stage = from
  /\ batches' = [batches EXCEPT ![b].stage = to]
  /\ UNCHANGED <<vars, usageVars>>

\* The review that accepts; the first one makes the workload eligible.
AcceptBatch(b) ==
  /\ batches[b].stage = "review"
  /\ batches' = [batches EXCEPT ![b].stage = "accepted"]
  /\ Accept(Followed) \/ (Followed \in accepted /\ UNCHANGED vars)
  /\ UNCHANGED usageVars

\* The ledgers' calls, and what happens to the other workloads.
Plan ==
  /\ \/ \E w \in Workloads \ {Followed} : Settle(w) \/ Accept(w)
     \/ \E l \in Ledgers :
          \/ Create(l) \/ Freeze(l) \/ Publish(l) \/ Revoke(l)
          \/ \E outcome \in {"approved", "rejected"} : Review(l, outcome)
          \/ \E new \in (SUBSET Workloads) \ {{}} : AddWorkloads(l, new)
  /\ UNCHANGED <<usageVars, batches>>

ExchangeNext ==
  \/ Use \/ SettleUsage \/ Plan
  \/ \E b \in Batch : \/ CreateBatch(b) \/ AcceptBatch(b)
                      \/ MoveBatch(b, "work", "review") \/ MoveBatch(b, "review", "work")

ExchangeSpec == ExchangeInit /\ [][ExchangeNext]_allVars

-------------------------------------------------------------------------------
(* What holds between the components.                                        *)

\* What a ledger releases of the workload was billed from exactly the usage its
\* streams have, all of it and no more, and that usage is complete: two streams
\* at least, each numbered from zero without overlap, and all meeting in time.
\* Billing copied it in one call, acceptance, freezing, review and publication
\* each looked at something else, and nobody looked at the segments again.
ReleasedAsUsed ==
  (\E l \in Ledgers : Followed \in release[l].items) =>
    /\ \E b \in Batch : batches[b].stage = "accepted" /\ batches[b].billed = records
    /\ Cardinality(Usage!Opened) >= 2
    /\ \A k \in Usage!Opened : records[k] # {} /\ Contiguous(records[k])
    /\ \A j, k \in Usage!Opened : Lowest(records[j]) <= Highest(records[k]) + MaxTolerance

\* Of the workload that is followed, through every call on it: each stream's row
\* tells the segments that were inserted, whatever was sent again or refused, and
\* what was sealed when is what is numbered from zero without a gap.
RowsTellSegments == Usage!AggregatesTell /\ Usage!SealedIsFixed

\* No usage is aligned, and so none is billed, whose streams do not meet within
\* the tolerance: a stream may be opened or sealed after AlignWorkload looked.
MeteredStreamsMeet == Usage!MeteredStreamsMeet

\* From the metering request on, no call changes the workload's streams.
MeteredIsFrozen == Usage!MeteredIsFrozen

===============================================================================

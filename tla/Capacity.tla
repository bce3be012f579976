-------------------------------- MODULE Capacity --------------------------------
(***************************************************************************)
(* The capacity streams of one workload and their usage segments: tables   *)
(* capacity_streams and usage_records, from the opening of a stream to the *)
(* alignment that lets the workload be submitted for metering.             *)
(*                                                                         *)
(* Every call is one atomic transaction.  The workload's status is the one *)
(* module Workloads moves; here its calls are reduced to the status they   *)
(* set, except Submit, which reads the streams.                            *)
(***************************************************************************)
EXTENDS UsageSegments

VARIABLES
  workload,  \* the status of the workload
  streams,   \* the capacity_streams rows, by kind
  records    \* per kind, the usage_records rows of its stream

vars == <<workload, streams, records>>

-------------------------------------------------------------------------------
\* segment_count, first_nanos and last_nanos are kept in the row; the digest,
\* a hash of the segments, is the set of them, and {} is the empty column.
StreamRow == [status : {"none", "open", "sealed", "aligned"},
              count : 0..Cardinality(Segments), first : Edges, last : Edges,
              digest : SUBSET Segments]

NoStream == [status |-> "none", count |-> 0, first |-> 0, last |-> 0, digest |-> {}]

\* Besides the types: a stream never has two segments of one place or one key.
TypeOK ==
  /\ workload \in {"planned", "ready", "executing", "metering", "settled", "failed",
                   "canceled"}
  /\ streams \in [Kinds -> StreamRow]
  /\ records \in [Kinds -> SUBSET Segments]
  /\ \A k \in Kinds : \A s, t \in records[k] :
       s # t => s.sequence # t.sequence /\ s.key # t.key

Init ==
  /\ workload = "planned"
  /\ streams = [k \in Kinds |-> NoStream]
  /\ records = [k \in Kinds |-> {}]

-------------------------------------------------------------------------------
Opened == {k \in Kinds : streams[k].status # "none"}

\* RefreshAggregate reads all the records of the stream.
Aggregate_batchOnly(row, before, batch) ==
  [row EXCEPT !.count = @ + Cardinality(batch), !.first = Lowest(batch),
              !.last = Highest(batch)]
Aggregate(row, before, batch) ==
  LET all == before \cup batch
  IN  [row EXCEPT !.count = Cardinality(all), !.first = Lowest(all), !.last = Highest(all)]

WorkloadCall(from, to) ==
  /\ workload \in from
  /\ workload' = to
  /\ UNCHANGED <<streams, records>>

-------------------------------------------------------------------------------
MarkReady == WorkloadCall({"planned"}, "ready")
Start     == WorkloadCall({"ready"}, "executing")
Settle    == WorkloadCall({"metering"}, "settled")
Fail      == WorkloadCall({"metering"}, "failed")
Cancel    == WorkloadCall({"planned", "ready", "executing"}, "canceled")

OpenStream(k) ==
  /\ workload \in {"ready", "executing"}
  /\ streams[k].status = "none"
  /\ streams' = [streams EXCEPT ![k] = [NoStream EXCEPT !.status = "open"]]
  /\ UNCHANGED <<workload, records>>

Appendable_streamOnly(k) == streams[k].status = "open"
Appendable(k) == workload = "executing" /\ streams[k].status = "open"

\* All of the batch, or nothing; a batch of which nothing is new changes nothing.
Append(k, batch) ==
  /\ Appendable(k)
  /\ \A s \in batch : Fits(s, records[k])
  /\ ~(batch \subseteq records[k])
  /\ records' = [records EXCEPT ![k] = @ \cup batch]
  /\ streams' = [streams EXCEPT ![k] = Aggregate(@, records[k], batch)]
  /\ UNCHANGED workload

Seal(k) ==
  /\ workload = "executing"
  /\ streams[k].status = "open"
  /\ records[k] # {}
  /\ Contiguous(records[k])
  /\ streams' = [streams EXCEPT ![k].status = "sealed", ![k].digest = records[k]]
  /\ UNCHANGED <<workload, records>>

\* TransitionStream keeps the digest when it is given none.
AlignedRow(row) == [row EXCEPT !.status = "aligned"]

AlignWorkload(tolerance) ==
  /\ workload = "executing"
  /\ Cardinality(Opened) >= 2
  /\ \A k \in Opened : streams[k].status = "sealed" /\ streams[k].count # 0
  /\ RangesMeet({streams[k] : k \in Opened}, tolerance)
  /\ streams' = [k \in Kinds |-> IF k \in Opened THEN AlignedRow(streams[k]) ELSE streams[k]]
  /\ UNCHANGED <<workload, records>>

\* workload.Submit counts the streams, and those that are not aligned.
Submittable ==
  /\ Cardinality(Opened) >= 2
  /\ \A k \in Opened : streams[k].status = "aligned"

Submit == Submittable /\ WorkloadCall({"executing"}, "metering")

Next ==
  \/ MarkReady \/ Start \/ Submit \/ Settle \/ Fail \/ Cancel
  \/ \E k \in Kinds : OpenStream(k) \/ Seal(k) \/ \E batch \in Batches : Append(k, batch)
  \/ \E tolerance \in 0..MaxTolerance : AlignWorkload(tolerance)

Spec == Init /\ [][Next]_vars

-------------------------------------------------------------------------------
(* What the streams promise to metering.                                     *)

\* The aggregates in a stream's row, which alignment trusts instead of the
\* segments, always tell what its segments are, whatever was retried or mixed.
AggregatesTell ==
  \A k \in Kinds : records[k] # {} =>
    /\ streams[k].count = Cardinality(records[k])
    /\ streams[k].first = Lowest(records[k])
    /\ streams[k].last = Highest(records[k])

\* What was sealed stays: its digest is that of the segments the stream has now,
\* and they are numbered from zero and do not overlap in time.
SealedIsFixed ==
  \A k \in Kinds : streams[k].status \in {"sealed", "aligned"} =>
    /\ streams[k].digest = records[k]
    /\ \A s, t \in records[k] : s.sequence < t.sequence => s.end <= t.start
    /\ \A n \in 0..(Cardinality(records[k]) - 1) : \E s \in records[k] : s.sequence = n

\* A workload that went to metering has at least two streams, and any two of its
\* streams have segments whose times meet, up to the largest tolerance a call may
\* ask for; streams opened late or aligned earlier are no exception.
MeteredStreamsMeet ==
  workload \in {"metering", "settled", "failed"} =>
    /\ Cardinality(Opened) >= 2
    /\ \A j, k \in Opened :
         /\ records[j] # {} /\ records[k] # {}
         /\ Lowest(records[j]) <= Highest(records[k]) + MaxTolerance

\* From then on nothing that metering copies into its items changes.
MeteredIsFrozen ==
  [][(workload \in {"metering", "settled", "failed", "canceled"})
     => UNCHANGED <<streams, records>>]_vars

===============================================================================

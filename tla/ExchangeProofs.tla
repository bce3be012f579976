----------------------------- MODULE ExchangeProofs -----------------------------
(***************************************************************************)
(* Theorems of Ledger and of Exchange, for any ledgers, workloads, kinds,  *)
(* segments and batches.                                                   *)
(*                                                                         *)
(* The ledgers first: that a release is what was reviewed, and was         *)
(* metered.  These properties speak of releases; what carries them is that *)
(* from freezing on the digest is that of the items, that an approved      *)
(* review saw the items the plan still has, and that items were eligible   *)
(* when they were added and remain so.                                     *)
(*                                                                         *)
(* Then the whole.  A step of it is a step of the ledgers or a stutter,    *)
(* and one of the streams or a stutter, so what is shown here of ledgers   *)
(* and in CapacityProofs of streams holds of both together; and what a     *)
(* batch billed is what the streams have, since neither changes any more.  *)
(***************************************************************************)
EXTENDS Exchange, FiniteSetTheorems, TLAPS

\* From the moment a plan is frozen, its digest is that of its items.
DigestTellsItems ==
  \A l \in Ledgers :
    plan[l].status \in {"frozen", "approved", "published"} => plan[l].digest = items[l]

\* An approval was given to the items the plan still has.
ApprovalIsOfItems ==
  \A l \in Ledgers : review[l].outcome = "approved" => review[l].seen = items[l]

\* A release copies the items of its plan.
ReleaseIsOfItems ==
  \A l \in Ledgers : release[l].status # "none" =>
    release[l].items = items[l] /\ release[l].digest = items[l]

\* No release, no rows of it.
NoReleaseNoItems ==
  \A l \in Ledgers : release[l].status = "none" => release[l].items = {}

ItemsAreEligible == \A l \in Ledgers : items[l] \subseteq accepted

IInv ==
  /\ TypeOK
  /\ DigestTellsItems
  /\ ApprovalIsOfItems
  /\ ReleaseIsOfItems
  /\ NoReleaseNoItems
  /\ ItemsAreEligible

-------------------------------------------------------------------------------
\* The items of a ledger can be counted.
LEMMA Countable ==
  ASSUME NEW S \in SUBSET Workloads
  PROVE  Cardinality(S) \in Nat
BY LedgerAssumption, FS_Subset, FS_CardinalityType

LEMMA Initial == Init => IInv
<1> SUFFICES ASSUME Init PROVE IInv
  OBVIOUS
<1>1. Cardinality({}) = 0
  BY FS_EmptySet
<1>2. TypeOK
  BY <1>1 DEF Init, TypeOK, PlanRow, ReviewRow, ReleaseRow
<1> QED
  BY <1>2 DEF Init, IInv, DigestTellsItems, ApprovalIsOfItems, ReleaseIsOfItems,
              NoReleaseNoItems, ItemsAreEligible

\* TypeOK in its two halves: the rows, and what the rows of a ledger say of each other.
Rows ==
  /\ settled \subseteq Workloads /\ accepted \subseteq settled
  /\ plan \in [Ledgers -> PlanRow]
  /\ items \in [Ledgers -> SUBSET Workloads]
  /\ review \in [Ledgers -> ReviewRow]
  /\ release \in [Ledgers -> ReleaseRow]

Agree(l) ==
  /\ plan[l].count = Cardinality(items[l])
  /\ plan[l].status = "published" <=> release[l].status # "none"
  /\ plan[l].status \in {"approved", "published"} <=> review[l].outcome = "approved"

LEMMA Halves == TypeOK <=> Rows /\ \A l \in Ledgers : Agree(l)
<1>1. TypeOK => Rows
  BY DEF TypeOK, Rows
<1>2. TypeOK => \A l \in Ledgers : Agree(l)
  BY DEF TypeOK, Agree
<1>3. Rows /\ (\A l \in Ledgers : Agree(l)) => TypeOK
  BY DEF TypeOK, Rows, Agree
<1> QED
  BY <1>1, <1>2, <1>3

LEMMA HalvesNext == Rows' /\ (\A l \in Ledgers : Agree(l)') => TypeOK'
BY DEF TypeOK, Rows, Agree

\* A step on one ledger has to be looked at for that ledger only.
LEMMA OneLedger ==
  ASSUME TypeOK, Rows', NEW l \in Ledgers, Agree(l)',
         \A k \in Ledgers \ {l} :
           /\ plan'[k] = plan[k] /\ items'[k] = items[k]
           /\ review'[k] = review[k] /\ release'[k] = release[k]
  PROVE  TypeOK'
<1>1. \A k \in Ledgers : Agree(k)
  BY Halves
<1>2. ASSUME NEW k \in Ledgers PROVE Agree(k)'
  <2>1. CASE k = l
    BY <2>1
  <2>2. CASE k # l
    BY <2>2, <1>1 DEF Agree
  <2> QED
    BY <2>1, <2>2
<1> QED
  BY <1>2, HalvesNext

LEMMA Typed == TypeOK /\ [Next]_vars => TypeOK'
<1> SUFFICES ASSUME TypeOK, [Next]_vars PROVE TypeOK'
  OBVIOUS
<1>a. Rows /\ \A l \in Ledgers : Agree(l)
  BY Halves
<1>1. ASSUME NEW w \in Workloads, Settle(w) \/ Accept(w) PROVE TypeOK'
  <2>1. Rows'
    BY <1>1, <1>a DEF Settle, Accept, Rows
  <2>2. \A l \in Ledgers : Agree(l)'
    BY <1>1, <1>a DEF Settle, Accept, Agree
  <2> QED
    BY <2>1, <2>2, HalvesNext
<1>2. ASSUME NEW l \in Ledgers, Create(l) PROVE TypeOK'
  <2>1. Rows'
    BY <1>2, <1>a DEF Create, Rows, PlanRow
  <2>2. Agree(l)'
    BY <1>2, <1>a DEF Create, Agree, Rows, PlanRow
  <2> QED
    BY <1>2, <1>a, <2>1, <2>2, OneLedger DEF Create, Rows
<1>3. ASSUME NEW l \in Ledgers, NEW new \in SUBSET Workloads, AddWorkloads(l, new)
      PROVE  TypeOK'
  <2>1. items' \in [Ledgers -> SUBSET Workloads] /\ items'[l] \in SUBSET Workloads
    BY <1>3, <1>a DEF AddWorkloads, Rows
  <2>2. Cardinality(items'[l]) \in Nat
    BY <2>1, Countable
  <2>3. PICK n \in Nat : n = Cardinality(items'[l])
    BY <2>2
  <2>4. plan' = [plan EXCEPT ![l].count = n]
    BY <1>3, <2>3 DEF AddWorkloads
  <2>5. Rows'
    BY <1>3, <1>a, <2>1, <2>4 DEF AddWorkloads, Rows, PlanRow
  <2>6. plan'[l].count = Cardinality(items'[l]) /\ plan'[l].status = plan[l].status
    BY <1>a, <2>3, <2>4 DEF Rows, PlanRow
  <2>7. Agree(l)'
    BY <1>3, <1>a, <2>6 DEF AddWorkloads, Agree
  <2>8. \A k \in Ledgers \ {l} : plan'[k] = plan[k] /\ items'[k] = items[k]
    BY <1>3, <1>a, <2>4 DEF AddWorkloads, Rows
  <2> QED
    BY <1>3, <2>5, <2>7, <2>8, OneLedger DEF AddWorkloads
<1>4. ASSUME NEW l \in Ledgers, Freeze(l) PROVE TypeOK'
  <2>1. items[l] \in SUBSET Workloads /\ plan[l] \in PlanRow
    BY <1>a DEF Rows
  <2> DEFINE moved == [plan EXCEPT ![l].status = "frozen"]
  <2>2. /\ moved \in [Ledgers -> PlanRow]
        /\ moved[l].status = "frozen" /\ moved[l].count = plan[l].count
        /\ \A k \in Ledgers \ {l} : moved[k] = plan[k]
    BY <1>a, <2>1 DEF Rows, PlanRow
  <2>3. plan' = [moved EXCEPT ![l].digest = items[l]]
    BY <1>4 DEF Freeze
  <2> HIDE DEF moved
  <2>4. /\ plan' \in [Ledgers -> PlanRow]
        /\ plan'[l].status = "frozen" /\ plan'[l].count = plan[l].count
        /\ \A k \in Ledgers \ {l} : plan'[k] = plan[k]
    BY <2>1, <2>2, <2>3 DEF PlanRow
  <2>5. Rows'
    BY <1>4, <1>a, <2>4 DEF Freeze, Rows
  <2>6. plan[l].status = "draft"
    BY <1>4 DEF Freeze
  <2>7. Agree(l)'
    BY <1>4, <1>a, <2>4, <2>6 DEF Freeze, Agree
  <2> QED
    BY <1>4, <2>4, <2>5, <2>7, OneLedger DEF Freeze
<1>5. ASSUME NEW l \in Ledgers, NEW outcome \in {"approved", "rejected"}, Review(l, outcome)
      PROVE  TypeOK'
  <2>1. items[l] \in SUBSET Workloads /\ plan[l] \in PlanRow
    BY <1>a DEF Rows
  <2>2. PICK to \in {"approved", "draft"} :
          /\ to = "approved" <=> outcome = "approved"
          /\ plan' = [plan EXCEPT ![l].status = to]
    BY <1>5 DEF Review, Moved
  <2>3. review' = [review EXCEPT ![l] = [outcome |-> outcome, seen |-> items[l]]]
    BY <1>5 DEF Review
  <2>4. plan' \in [Ledgers -> PlanRow]
    BY <1>a, <2>2 DEF Rows, PlanRow
  <2>5. review' \in [Ledgers -> ReviewRow]
    BY <1>a, <2>1, <2>3 DEF Rows, ReviewRow
  <2>6. Rows'
    BY <1>5, <1>a, <2>4, <2>5 DEF Review, Rows
  <2>7. /\ plan[l].status = "frozen" /\ plan'[l].status = to /\ plan'[l].count = plan[l].count
        /\ review'[l].outcome = outcome
    BY <1>5, <1>a, <2>2, <2>3 DEF Review, Reviewable, Rows, PlanRow
  <2>8. Agree(l)'
    BY <1>5, <1>a, <2>2, <2>7 DEF Review, Agree
  <2>9. \A k \in Ledgers \ {l} : plan'[k] = plan[k] /\ review'[k] = review[k]
    BY <1>a, <2>2, <2>3 DEF Rows
  <2> QED
    BY <1>5, <2>6, <2>8, <2>9, OneLedger DEF Review
<1>6. ASSUME NEW l \in Ledgers, Publish(l) PROVE TypeOK'
  <2>1. items[l] \in SUBSET Workloads /\ plan[l] \in PlanRow
    BY <1>a DEF Rows
  <2>2. plan' = [plan EXCEPT ![l].status = "published"]
    BY <1>6 DEF Publish, Moved
  <2>3. release' = [release EXCEPT ![l] =
          [status |-> "published", digest |-> plan[l].digest, items |-> items[l]]]
    BY <1>6 DEF Publish
  <2>4. plan' \in [Ledgers -> PlanRow]
    BY <1>a, <2>2 DEF Rows, PlanRow
  <2>5. release' \in [Ledgers -> ReleaseRow]
    BY <1>a, <2>1, <2>3 DEF Rows, PlanRow, ReleaseRow
  <2>6. Rows'
    BY <1>6, <1>a, <2>4, <2>5 DEF Publish, Rows
  <2>7. /\ plan[l].status = "approved"
        /\ plan'[l].status = "published" /\ plan'[l].count = plan[l].count
        /\ release'[l].status = "published"
    BY <1>6, <1>a, <2>2, <2>3 DEF Publish, Publishable, Rows, PlanRow
  <2>8. Agree(l)'
    BY <1>6, <1>a, <2>7 DEF Publish, Agree
  <2>9. \A k \in Ledgers \ {l} : plan'[k] = plan[k] /\ release'[k] = release[k]
    BY <1>a, <2>2, <2>3 DEF Rows
  <2> QED
    BY <1>6, <2>6, <2>8, <2>9, OneLedger DEF Publish
<1>7. ASSUME NEW l \in Ledgers, Revoke(l) PROVE TypeOK'
  <2>1. Rows'
    BY <1>7, <1>a DEF Revoke, Rows, ReleaseRow
  <2>2. release[l].status = "published" /\ release'[l].status = "revoked"
    BY <1>7, <1>a DEF Revoke, Rows, ReleaseRow
  <2>3. Agree(l)'
    BY <1>7, <1>a, <2>2 DEF Revoke, Agree
  <2> QED
    BY <1>7, <1>a, <2>1, <2>3, OneLedger DEF Revoke, Rows
<1>8. CASE UNCHANGED vars
  BY <1>8 DEF vars, TypeOK
<1> QED
  BY <1>1, <1>2, <1>3, <1>4, <1>5, <1>6, <1>7, <1>8 DEF Next

LEMMA Inductive == IInv /\ [Next]_vars => IInv'
<1> SUFFICES ASSUME IInv, [Next]_vars PROVE IInv'
  OBVIOUS
<1>0. TypeOK /\ TypeOK'
  BY Typed DEF IInv
<1> USE <1>0 DEF IInv, DigestTellsItems, ApprovalIsOfItems, ReleaseIsOfItems,
                 NoReleaseNoItems, ItemsAreEligible
<1>1. ASSUME NEW w \in Workloads, Settle(w) PROVE IInv'
  BY <1>1 DEF Settle
<1>2. ASSUME NEW w \in Workloads, Accept(w) PROVE IInv'
  BY <1>2 DEF Accept
<1>3. ASSUME NEW l \in Ledgers, Create(l) PROVE IInv'
  BY <1>3 DEF Create, TypeOK, PlanRow
<1>4. ASSUME NEW l \in Ledgers, NEW new \in SUBSET Workloads, AddWorkloads(l, new)
      PROVE  IInv'
  BY <1>4 DEF AddWorkloads, Editable, Eligible, TypeOK, PlanRow
<1>5. ASSUME NEW l \in Ledgers, Freeze(l) PROVE IInv'
  BY <1>5 DEF Freeze, TypeOK, PlanRow
<1>6. ASSUME NEW l \in Ledgers, NEW outcome \in {"approved", "rejected"}, Review(l, outcome)
      PROVE  IInv'
  BY <1>6 DEF Review, Reviewable, Moved, TypeOK, PlanRow, ReviewRow
<1>7. ASSUME NEW l \in Ledgers, Publish(l) PROVE IInv'
  BY <1>7 DEF Publish, Publishable, Matches, Moved, TypeOK, PlanRow, ReleaseRow
<1>8. ASSUME NEW l \in Ledgers, Revoke(l) PROVE IInv'
  BY <1>8 DEF Revoke, TypeOK, ReleaseRow
<1>9. CASE UNCHANGED vars
  BY <1>9 DEF vars
<1> QED
  BY <1>1, <1>2, <1>3, <1>4, <1>5, <1>6, <1>7, <1>8, <1>9 DEF Next

LEMMA Always == Spec => []IInv
BY Initial, Inductive, PTL DEF Spec

-------------------------------------------------------------------------------
\* The rows are well typed, and a plan is published exactly when it has a release
\* and approved only by its review.
THEOREM TypeCorrect == Spec => []TypeOK
<1>1. IInv => TypeOK
  BY DEF IInv
<1> QED
  BY <1>1, Always, PTL

\* A release holds what the reviewer approved, whatever was added, rejected and
\* frozen before: ledger.Publish after ledger.Review.
THEOREM ReleasesAreReviewed == Spec => []ReleasedAsReviewed
<1>1. IInv => ReleasedAsReviewed
  BY DEF IInv, TypeOK, ReleasedAsReviewed, ApprovalIsOfItems, ReleaseIsOfItems
<1> QED
  BY <1>1, Always, PTL

\* All that is released was metered and accepted, though Publish does not ask.
THEOREM ReleasesAreMetered == Spec => []BilledIsMetered
<1>1. IInv => BilledIsMetered
  BY DEF IInv, TypeOK, BilledIsMetered, ReleaseIsOfItems, NoReleaseNoItems, ItemsAreEligible
<1> QED
  BY <1>1, Always, PTL

-------------------------------------------------------------------------------
UsageFacts == INSTANCE CapacityProofs

-------------------------------------------------------------------------------
(* The streams here and the streams of CapacityProofs are the same.          *)

LEMMA UsageAssumption == UsageFacts!CapacityAssumption
BY CapacityAssumption DEF CapacityAssumption, UsageFacts!CapacityAssumption, IsFiniteSet,
   UsageFacts!IsFiniteSet

LEMMA SameSets ==
  ASSUME NEW S
  PROVE  /\ UsageFacts!Cardinality(S) = Cardinality(S)
         /\ Usage!Cardinality(S) = Cardinality(S)
         /\ UsageFacts!Lowest(S) = Lowest(S)
         /\ Usage!Lowest(S) = Lowest(S)
         /\ UsageFacts!Highest(S) = Highest(S)
         /\ Usage!Highest(S) = Highest(S)
<1>1. UsageFacts!Cardinality(S) = Cardinality(S) /\ Usage!Cardinality(S) = Cardinality(S)
  BY DEF UsageFacts!Cardinality, Usage!Cardinality, Cardinality
<1>2. UsageFacts!Lowest(S) = Lowest(S) /\ Usage!Lowest(S) = Lowest(S)
  BY DEF UsageFacts!Lowest, Usage!Lowest, Lowest, UsageFacts!Min, Usage!Min, Min
<1>3. UsageFacts!Highest(S) = Highest(S) /\ Usage!Highest(S) = Highest(S)
  BY DEF UsageFacts!Highest, Usage!Highest, Highest, UsageFacts!Max, Usage!Max, Max
<1> QED
  BY <1>1, <1>2, <1>3

LEMMA SameContiguous ==
  ASSUME NEW S
  PROVE  (UsageFacts!Contiguous(S) <=> Contiguous(S)) /\ (Usage!Contiguous(S) <=> Contiguous(S))
BY SameSets DEF UsageFacts!Contiguous, Usage!Contiguous, Contiguous

LEMMA SameBatches == UsageFacts!Batches = Batches
BY SameSets DEF UsageFacts!Batches, Batches

LEMMA SameOpened == UsageFacts!Opened = Usage!Opened
BY DEF UsageFacts!Opened, Usage!Opened

LEMMA SameInit == Usage!Init => UsageFacts!Init
BY DEF Usage!Init, UsageFacts!Init, Usage!NoStream, UsageFacts!NoStream

LEMMA SameTypes == UsageFacts!TypeOK => Usage!TypeOK
<1>1. UsageFacts!StreamRow = Usage!StreamRow
  BY SameSets DEF UsageFacts!StreamRow, Usage!StreamRow, UsageFacts!Edges, Usage!Edges
<1> QED
  BY <1>1 DEF UsageFacts!TypeOK, Usage!TypeOK

LEMMA SameOpen ==
  ASSUME NEW k \in Kinds, Usage!OpenStream(k) PROVE UsageFacts!OpenStream(k)
BY DEF Usage!OpenStream, UsageFacts!OpenStream, Usage!NoStream, UsageFacts!NoStream

LEMMA SameSeal ==
  ASSUME NEW k \in Kinds, Usage!Seal(k) PROVE UsageFacts!Seal(k)
BY SameContiguous DEF Usage!Seal, UsageFacts!Seal

LEMMA SameAppend ==
  ASSUME NEW k \in Kinds, NEW batch \in Batches, Usage!Append(k, batch)
  PROVE  UsageFacts!Append(k, batch)
<1>1. \A S, T : UsageFacts!Aggregate(streams[k], S, T) = Usage!Aggregate(streams[k], S, T)
  BY SameSets DEF UsageFacts!Aggregate, Usage!Aggregate
<1>2. \A s, S : UsageFacts!Fits(s, S) <=> Usage!Fits(s, S)
  BY DEF UsageFacts!Fits, Usage!Fits
<1> QED
  BY <1>1, <1>2 DEF Usage!Append, UsageFacts!Append, Usage!Appendable, UsageFacts!Appendable

LEMMA SameAlign ==
  ASSUME NEW tolerance \in 0..MaxTolerance, Usage!AlignWorkload(tolerance)
  PROVE  UsageFacts!AlignWorkload(tolerance)
<1>1. \A R : UsageFacts!RangesMeet(R, tolerance) <=> Usage!RangesMeet(R, tolerance)
  BY DEF UsageFacts!RangesMeet, Usage!RangesMeet, UsageFacts!Max, Usage!Max, UsageFacts!Min,
         Usage!Min
<1>2. \A row : UsageFacts!AlignedRow(row) = Usage!AlignedRow(row)
  BY DEF UsageFacts!AlignedRow, Usage!AlignedRow
<1> QED
  BY <1>1, <1>2, SameSets, SameOpened DEF Usage!AlignWorkload, UsageFacts!AlignWorkload

LEMMA SameCall ==
  ASSUME Usage!MarkReady \/ Usage!Start \/ Usage!Submit \/ Usage!Settle \/ Usage!Fail \/ Usage!Cancel
  PROVE  UsageFacts!Next
<1>1. UsageFacts!Submittable <=> Usage!Submittable
  BY SameSets, SameOpened DEF UsageFacts!Submittable, Usage!Submittable
<1> QED
  BY <1>1 DEF Usage!MarkReady, Usage!Start, Usage!Submit, Usage!Settle, Usage!Fail, Usage!Cancel,
     Usage!WorkloadCall, UsageFacts!MarkReady, UsageFacts!Start, UsageFacts!Submit,
     UsageFacts!Settle, UsageFacts!Fail, UsageFacts!Cancel, UsageFacts!WorkloadCall,
     UsageFacts!Next

-------------------------------------------------------------------------------
(* A step of the whole is a step of its parts.                               *)

LEMMA StepOfStreams == [ExchangeNext]_allVars => [UsageFacts!Next]_(UsageFacts!vars)
<1> SUFFICES ASSUME [ExchangeNext]_allVars PROVE [UsageFacts!Next]_(UsageFacts!vars)
  OBVIOUS
<1>1. CASE Use
  <2>1. CASE \E k \in Kinds : \/ Usage!OpenStream(k) \/ Usage!Seal(k)
                              \/ \E batch \in Batches : Usage!Append(k, batch)
    BY <2>1, SameOpen, SameSeal, SameAppend, SameBatches DEF UsageFacts!Next
  <2>2. CASE \E tolerance \in 0..MaxTolerance : Usage!AlignWorkload(tolerance)
    BY <2>2, SameAlign DEF UsageFacts!Next
  <2> QED
    BY <1>1, <2>1, <2>2, SameCall DEF Use
<1>2. CASE SettleUsage
  BY <1>2, SameCall DEF SettleUsage
<1>3. CASE Plan
  BY <1>3 DEF Plan, usageVars, UsageFacts!vars
<1>4. ASSUME NEW b \in Batch,
             \/ CreateBatch(b) \/ AcceptBatch(b)
             \/ MoveBatch(b, "work", "review") \/ MoveBatch(b, "review", "work")
      PROVE  UNCHANGED UsageFacts!vars
  BY <1>4 DEF CreateBatch, AcceptBatch, MoveBatch, usageVars, UsageFacts!vars
<1>5. CASE UNCHANGED allVars
  BY <1>5 DEF allVars, usageVars, UsageFacts!vars
<1> QED
  BY <1>1, <1>2, <1>3, <1>4, <1>5 DEF ExchangeNext

LEMMA StepOfLedgers == [ExchangeNext]_allVars => [Next]_vars
<1> SUFFICES ASSUME [ExchangeNext]_allVars PROVE [Next]_vars
  OBVIOUS
<1>1. CASE Use
  BY <1>1 DEF Use
<1>2. CASE SettleUsage
  BY <1>2, ExchangeAssumption DEF SettleUsage, ExchangeAssumption, Next
<1>3. CASE Plan
  BY <1>3 DEF Plan, Next
<1>4. ASSUME NEW b \in Batch,
             \/ CreateBatch(b)
             \/ MoveBatch(b, "work", "review") \/ MoveBatch(b, "review", "work")
      PROVE  UNCHANGED vars
  BY <1>4 DEF CreateBatch, MoveBatch
<1>5. ASSUME NEW b \in Batch, AcceptBatch(b) PROVE [Next]_vars
  BY <1>5, ExchangeAssumption DEF AcceptBatch, ExchangeAssumption, Next
<1>6. CASE UNCHANGED allVars
  BY <1>6 DEF allVars
<1> QED
  BY <1>1, <1>2, <1>3, <1>4, <1>5, <1>6 DEF ExchangeNext

\* The whole implements its streams.
LEMMA StreamsOfExchange == ExchangeSpec => UsageFacts!Spec
<1>1. ExchangeInit => UsageFacts!Init
  BY SameInit DEF ExchangeInit
<1> QED
  BY <1>1, StepOfStreams, PTL DEF ExchangeSpec, UsageFacts!Spec

\* The whole implements its ledgers.
LEMMA LedgersOfExchange == ExchangeSpec => Spec
<1>1. ExchangeInit => Init
  BY DEF ExchangeInit
<1> QED
  BY <1>1, StepOfLedgers, PTL DEF ExchangeSpec, Spec

-------------------------------------------------------------------------------
(* What only the whole has: statuses are shared, and a batch billed what the *)
(* streams of a settled workload have.                                       *)

Shared ==
  /\ batches \in [Batch -> BatchRow]
  /\ Followed \in settled <=> workload = "settled"
  /\ Followed \in accepted <=> \E b \in Batch : batches[b].stage = "accepted"
  /\ \A b \in Batch : batches[b].stage # "absent" =>
       workload = "settled" /\ batches[b].billed = records

LEMMA SharedInit == ExchangeInit => Shared
BY DEF ExchangeInit, Init, Usage!Init, Shared, BatchRow, NothingBilled

\* No call that only the streams see is one on a settled workload.
LEMMA UseIsBefore ==
  ASSUME Use
  PROVE  workload # "settled" /\ workload' # "settled" /\ UNCHANGED <<vars, batches>>
BY DEF Use, Usage!MarkReady, Usage!Start, Usage!Submit, Usage!Fail, Usage!Cancel,
   Usage!WorkloadCall, Usage!OpenStream, Usage!Seal, Usage!Append, Usage!Appendable,
   Usage!AlignWorkload

\* One batch is written.
LEMMA BatchKeeps ==
  ASSUME Shared, NEW b \in Batch, NEW row \in BatchRow,
         batches' = [batches EXCEPT ![b] = row],
         row.stage # "absent", row.billed = records, workload = "settled",
         UNCHANGED <<usageVars, settled>>,
         Followed \in accepted' <=> (Followed \in accepted \/ row.stage = "accepted"),
         batches[b].stage # "accepted"
  PROVE  Shared'
<1>1. /\ batches' \in [Batch -> BatchRow] /\ batches'[b] = row
      /\ \A a \in Batch \ {b} : batches'[a] = batches[a]
  BY DEF Shared
<1>2. Followed \in accepted' <=> \E a \in Batch : batches'[a].stage = "accepted"
  BY <1>1 DEF Shared
<1> QED
  BY <1>1, <1>2 DEF Shared, usageVars

LEMMA SharedNext ==
  ASSUME Shared, records \in [Kinds -> SUBSET Segments], [ExchangeNext]_allVars
  PROVE  Shared'
<1>1. CASE Use
  BY <1>1, UseIsBefore DEF Shared, vars
<1>2. CASE SettleUsage
  BY <1>2 DEF SettleUsage, Usage!Settle, Usage!WorkloadCall, Settle, Shared
<1>3. CASE Plan
  <2>1. UNCHANGED <<usageVars, batches>>
    BY <1>3 DEF Plan
  <2>2. (Followed \in settled' <=> Followed \in settled)
        /\ (Followed \in accepted' <=> Followed \in accepted)
    BY <1>3 DEF Plan, Settle, Accept, Create, Freeze, Publish, Revoke, Review, AddWorkloads
  <2> QED
    BY <2>1, <2>2 DEF Shared, usageVars
<1>4. ASSUME NEW b \in Batch, CreateBatch(b) PROVE Shared'
  <2> DEFINE row == [stage |-> "work", billed |-> [k \in Kinds |-> ItemsOf(k)]]
  <2>1. [k \in Kinds |-> ItemsOf(k)] = records
    BY DEF ItemsOf
  <2>2. row \in BatchRow /\ row.stage = "work" /\ row.billed = records
    BY <2>1 DEF BatchRow
  <2>3. batches' = [batches EXCEPT ![b] = row] /\ workload = "settled"
        /\ batches[b].stage = "absent" /\ UNCHANGED <<vars, usageVars>>
    BY <1>4 DEF CreateBatch, Billable
  <2> HIDE DEF row
  <2> QED
    BY <2>2, <2>3, BatchKeeps DEF vars
<1>5. ASSUME NEW b \in Batch, NEW from \in {"work", "review"}, NEW to \in {"work", "review"},
             MoveBatch(b, from, to)
      PROVE  Shared'
  <2> DEFINE row == [batches[b] EXCEPT !.stage = to]
  <2>1. batches[b] \in BatchRow /\ batches[b].stage = from
    BY <1>5 DEF Shared, MoveBatch
  <2>2. row \in BatchRow /\ row.stage = to /\ row.billed = batches[b].billed
    BY <2>1 DEF BatchRow
  <2>3. batches' = [batches EXCEPT ![b] = row] /\ UNCHANGED <<vars, usageVars>>
    BY <1>5 DEF MoveBatch
  <2>4. workload = "settled" /\ batches[b].billed = records
    BY <2>1 DEF Shared
  <2> HIDE DEF row
  <2> QED
    BY <2>1, <2>2, <2>3, <2>4, BatchKeeps DEF vars
<1>6. ASSUME NEW b \in Batch, AcceptBatch(b) PROVE Shared'
  <2> DEFINE row == [batches[b] EXCEPT !.stage = "accepted"]
  <2>1. batches[b] \in BatchRow /\ batches[b].stage = "review"
    BY <1>6 DEF Shared, AcceptBatch
  <2>2. row \in BatchRow /\ row.stage = "accepted" /\ row.billed = batches[b].billed
    BY <2>1 DEF BatchRow
  <2>3. batches' = [batches EXCEPT ![b] = row] /\ UNCHANGED usageVars
    BY <1>6 DEF AcceptBatch
  <2>4. workload = "settled" /\ batches[b].billed = records
    BY <2>1 DEF Shared
  <2>5. UNCHANGED settled /\ Followed \in accepted'
    BY <1>6 DEF AcceptBatch, Accept, vars
  <2> HIDE DEF row
  <2> QED
    BY <2>1, <2>2, <2>3, <2>4, <2>5, BatchKeeps
<1>7. CASE UNCHANGED allVars
  BY <1>7 DEF allVars, usageVars, vars, Shared
<1> QED
  BY <1>1, <1>2, <1>3, <1>4, <1>5, <1>6, <1>7 DEF ExchangeNext

\* All of it together.
LEMMA WholeInvariant == ExchangeSpec => [](IInv /\ UsageFacts!StreamInv /\ Shared)
<1>1. ExchangeSpec => []IInv
  BY LedgersOfExchange, Always, PTL
<1>2. ExchangeSpec => []UsageFacts!StreamInv
  BY StreamsOfExchange, UsageFacts!StreamsAreSound, UsageAssumption, PTL
     DEF UsageFacts!CapacityAssumption
<1>3. Shared /\ UsageFacts!StreamInv /\ [ExchangeNext]_allVars => Shared'
  BY SharedNext DEF UsageFacts!StreamInv, UsageFacts!Rows
<1> QED
  BY <1>1, <1>2, <1>3, SharedInit, PTL DEF ExchangeSpec

-------------------------------------------------------------------------------
(* The theorems.                                                             *)

\* Rows are well formed in every table, and the ledgers, the batches and the
\* workload agree on its status.
THEOREM WholeTypeCorrect == ExchangeSpec => []Types
<1>1. ExchangeSpec => []UsageFacts!TypeOK
  BY StreamsOfExchange, UsageFacts!TypeCorrect, UsageAssumption, PTL
     DEF UsageFacts!CapacityAssumption
<1>2. IInv /\ UsageFacts!TypeOK /\ Shared => Types
  BY SameTypes DEF IInv, Shared, Types
<1> QED
  BY <1>1, <1>2, WholeInvariant, PTL

\* The stream rows tell the segments, and what was sealed stays what it was.
THEOREM RowsTellWhatWasSent == ExchangeSpec => []RowsTellSegments
<1>1. ExchangeSpec => [](UsageFacts!AggregatesTell /\ UsageFacts!SealedIsFixed)
  BY StreamsOfExchange, UsageFacts!RowsTell, UsageFacts!SealedStreamsAreFixed,
     UsageAssumption, PTL DEF UsageFacts!CapacityAssumption
<1>2. UsageFacts!AggregatesTell /\ UsageFacts!SealedIsFixed => RowsTellSegments
  BY SameSets DEF UsageFacts!AggregatesTell, UsageFacts!SealedIsFixed, RowsTellSegments,
     Usage!AggregatesTell, Usage!SealedIsFixed
<1> QED
  BY <1>1, <1>2, PTL

\* Whenever a workload is in metering or beyond, its streams meet.
THEOREM StreamsInMeteringMeet == ExchangeSpec => []MeteredStreamsMeet
<1>1. ExchangeSpec => []UsageFacts!MeteredStreamsMeet
  BY StreamsOfExchange, UsageFacts!MeteredStreamsDoMeet, UsageAssumption, PTL
     DEF UsageFacts!CapacityAssumption
<1>2. UsageFacts!MeteredStreamsMeet => MeteredStreamsMeet
  BY SameSets, SameOpened DEF UsageFacts!MeteredStreamsMeet, MeteredStreamsMeet,
     Usage!MeteredStreamsMeet
<1> QED
  BY <1>1, <1>2, PTL

\* From Submit or Cancel on, no call changes a stream or a segment.
THEOREM StreamsInMeteringStay == ExchangeSpec => MeteredIsFrozen
<1>1. [UsageFacts!Next]_(UsageFacts!vars) =>
        [(workload \in {"metering", "settled", "failed", "canceled"})
         => UNCHANGED <<streams, records>>]_(Usage!vars)
  BY DEF UsageFacts!Next, UsageFacts!MarkReady, UsageFacts!Start, UsageFacts!Submit,
     UsageFacts!Settle, UsageFacts!Fail, UsageFacts!Cancel, UsageFacts!WorkloadCall,
     UsageFacts!OpenStream, UsageFacts!Seal, UsageFacts!Append, UsageFacts!Appendable,
     UsageFacts!AlignWorkload, UsageFacts!vars, Usage!vars
<1> QED
  BY <1>1, StepOfStreams, PTL DEF ExchangeSpec, MeteredIsFrozen, Usage!MeteredIsFrozen

\* A release bills a workload for exactly the usage its streams have, all of it,
\* and that usage is complete and meets in time.
THEOREM ReleasesBillUsage == ExchangeSpec => []ReleasedAsUsed
<1>1. ASSUME IInv, BilledIsMetered, UsageFacts!StreamInv, UsageFacts!MeteredStreamsMeet, Shared,
             \E l \in Ledgers : Followed \in release[l].items
      PROVE  /\ \E b \in Batch : batches[b].stage = "accepted" /\ batches[b].billed = records
             /\ Cardinality(Usage!Opened) >= 2
             /\ \A k \in Usage!Opened : records[k] # {} /\ Contiguous(records[k])
             /\ \A j, k \in Usage!Opened :
                  Lowest(records[j]) <= Highest(records[k]) + MaxTolerance
  <2>1. Followed \in accepted
    BY <1>1 DEF BilledIsMetered
  <2>2. PICK b \in Batch : batches[b].stage = "accepted"
    BY <1>1, <2>1 DEF Shared
  <2>3. workload = "settled" /\ batches[b].billed = records
    BY <1>1, <2>2 DEF Shared
  <2>4. /\ Cardinality(Usage!Opened) >= 2
        /\ \A j, k \in Usage!Opened :
             Lowest(records[j]) <= Highest(records[k]) + MaxTolerance
    BY <1>1, <2>3, SameSets, SameOpened DEF UsageFacts!MeteredStreamsMeet
  <2>5. UsageFacts!Submittable
    BY <1>1, <2>3 DEF UsageFacts!StreamInv, UsageFacts!Metered
  <2>6. \A k \in Usage!Opened : k \in Kinds /\ streams[k].status = "aligned"
    BY <2>5, SameOpened DEF UsageFacts!Submittable, Usage!Opened
  <2>7. \A k \in Usage!Opened : records[k] # {} /\ Contiguous(records[k])
    BY <1>1, <2>6, SameContiguous DEF UsageFacts!StreamInv, UsageFacts!Sound
  <2> QED
    BY <2>2, <2>3, <2>4, <2>7
<1>2. ExchangeSpec => []UsageFacts!MeteredStreamsMeet
  BY StreamsOfExchange, UsageFacts!MeteredStreamsDoMeet, UsageAssumption, PTL
     DEF UsageFacts!CapacityAssumption
<1>3. ExchangeSpec => []BilledIsMetered
  BY LedgersOfExchange, ReleasesAreMetered, PTL
<1>4. IInv /\ BilledIsMetered /\ UsageFacts!StreamInv /\ UsageFacts!MeteredStreamsMeet /\ Shared
      => ReleasedAsUsed
  BY <1>1 DEF ReleasedAsUsed
<1> QED
  BY <1>2, <1>3, <1>4, WholeInvariant, PTL

=============================================================================

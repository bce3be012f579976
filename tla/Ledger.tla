-------------------------------- MODULE Ledger --------------------------------
(***************************************************************************)
(* Ledgers: credit plans that collect settled workloads, are frozen,       *)
(* reviewed and published as a release, and the releases that jobs run     *)
(* under: tables credit_plans, credit_plan_items, quality_reviews,         *)
(* credit_releases and credit_release_items.                               *)
(*                                                                         *)
(* Every call is one atomic transaction.  Of a workload only what          *)
(* EligibleWorkload reads is kept, and moved by Settle and Accept as the   *)
(* modules Workloads and Metering move it.  Whether jobs of a release are  *)
(* active, which Revoke asks, is decided outside this module (Scheduler).  *)
(***************************************************************************)
EXTENDS Integers, FiniteSets

CONSTANTS
  Ledgers,    \* ledger ids
  Workloads   \* workloads, each with a reservation reference

\* Every table is finite.
ASSUME LedgerAssumption == IsFiniteSet(Workloads)

VARIABLES
  settled,   \* workloads whose status is settled
  accepted,  \* workloads with an accepted metering batch
  plan,      \* the credit_plans rows
  items,     \* per ledger, the workloads of its credit_plan_items
  review,    \* per ledger, its one quality_reviews row
  release    \* per ledger, its one credit_releases row

vars == <<settled, accepted, plan, items, review, release>>

-------------------------------------------------------------------------------
\* The digest hashes the items and is modelled as what it hashes, {} being the
\* empty column.
PlanRow ==
  [status : {"none", "draft", "frozen", "approved", "published"},
   count : Nat, digest : SUBSET Workloads]

\* A review row, and (a history variable) the membership that was reviewed.
ReviewRow == [outcome : {"none", "approved", "rejected"}, seen : SUBSET Workloads]

ReleaseRow == [status : {"none", "published", "revoked"}, digest : SUBSET Workloads,
               items : SUBSET Workloads]

\* Besides the types: a plan is published exactly when it has a release, and
\* approved only by its review.
TypeOK ==
  /\ settled \subseteq Workloads /\ accepted \subseteq settled
  /\ plan \in [Ledgers -> PlanRow]
  /\ items \in [Ledgers -> SUBSET Workloads]
  /\ review \in [Ledgers -> ReviewRow]
  /\ release \in [Ledgers -> ReleaseRow]
  /\ \A l \in Ledgers :
       /\ plan[l].count = Cardinality(items[l])
       /\ plan[l].status = "published" <=> release[l].status # "none"
       /\ plan[l].status \in {"approved", "published"} <=> review[l].outcome = "approved"

Init ==
  /\ settled = {}
  /\ accepted = {}
  /\ plan = [l \in Ledgers |-> [status |-> "none", count |-> 0, digest |-> {}]]
  /\ items = [l \in Ledgers |-> {}]
  /\ review = [l \in Ledgers |-> [outcome |-> "none", seen |-> {}]]
  /\ release = [l \in Ledgers |-> [status |-> "none", digest |-> {}, items |-> {}]]

-------------------------------------------------------------------------------
Eligible_settledOnly(w) == w \in settled
Eligible(w) == w \in settled /\ w \in accepted

\* Metering bills a settled workload only.
Settle(w) ==
  /\ w \notin settled
  /\ settled' = settled \cup {w}
  /\ UNCHANGED <<accepted, plan, items, review, release>>

Accept(w) ==
  /\ w \in settled \ accepted
  /\ accepted' = accepted \cup {w}
  /\ UNCHANGED <<settled, plan, items, review, release>>

\* Transition leaves the digest when it is given none.
Moved(l, to) == [plan[l] EXCEPT !.status = to]

Create(l) ==
  /\ plan[l].status = "none"
  /\ plan' = [plan EXCEPT ![l].status = "draft"]
  /\ UNCHANGED <<settled, accepted, items, review, release>>

Editable(l) == plan[l].status = "draft"

\* All of the batch or nothing; a workload already in the ledger refuses it.
AddWorkloads(l, new) ==
  /\ Editable(l)
  /\ \A w \in new : Eligible(w)
  /\ new \cap items[l] = {}
  /\ items' = [items EXCEPT ![l] = @ \cup new]
  /\ plan' = [plan EXCEPT ![l].count = Cardinality(items'[l])]
  /\ UNCHANGED <<settled, accepted, review, release>>

Freeze(l) ==
  /\ plan[l].status = "draft"
  /\ items[l] # {}
  /\ Cardinality(items[l]) = plan[l].count
  /\ \A w \in items[l] : Eligible(w)
  /\ plan' = [plan EXCEPT ![l].status = "frozen", ![l].digest = items[l]]
  /\ UNCHANGED <<settled, accepted, items, review, release>>

\* InsertReview writes version 1 always, and a ledger has one review of a version.
Reviewable(l) == plan[l].status = "frozen" /\ review[l].outcome = "none"

Review(l, outcome) ==
  /\ Reviewable(l)
  /\ review' = [review EXCEPT ![l] = [outcome |-> outcome, seen |-> items[l]]]
  /\ plan' = [plan EXCEPT ![l] =
       Moved(l, IF outcome = "approved" THEN "approved" ELSE "draft")]
  /\ UNCHANGED <<settled, accepted, items, release>>

Publishable_frozen(l) == plan[l].status \in {"frozen", "approved"}
Publishable(l) == plan[l].status = "approved"

\* "frozen membership no longer matches digest"
Matches(l) == Cardinality(items[l]) = plan[l].count /\ items[l] = plan[l].digest

Publish(l) ==
  /\ Publishable(l)
  /\ Matches(l)
  /\ release' = [release EXCEPT ![l] =
       [status |-> "published", digest |-> plan[l].digest, items |-> items[l]]]
  /\ plan' = [plan EXCEPT ![l] = Moved(l, "published")]
  /\ UNCHANGED <<settled, accepted, items, review>>

Revoke(l) ==
  /\ release[l].status = "published"
  /\ release' = [release EXCEPT ![l].status = "revoked"]
  /\ UNCHANGED <<settled, accepted, plan, items, review>>

Next ==
  \/ \E w \in Workloads : Settle(w) \/ Accept(w)
  \/ \E l \in Ledgers :
       \/ Create(l) \/ Freeze(l) \/ Publish(l) \/ Revoke(l)
       \/ \E outcome \in {"approved", "rejected"} : Review(l, outcome)
       \/ \E new \in (SUBSET Workloads) \ {{}} : AddWorkloads(l, new)

Spec == Init /\ [][Next]_vars

-------------------------------------------------------------------------------
(* What a release promises.                                                  *)

\* A release holds exactly what the reviewer approved, under the digest of that,
\* and the ledger it was made from still does.
ReleasedAsReviewed ==
  \A l \in Ledgers : release[l].status # "none" =>
    /\ review[l].outcome = "approved"
    /\ release[l].items = review[l].seen
    /\ release[l].digest = review[l].seen
    /\ items[l] = review[l].seen

\* Nothing is released whose usage was not metered and accepted, through all the
\* edits and reviews between the first test of it and the publication.
BilledIsMetered ==
  \A l \in Ledgers : release[l].items \subseteq accepted

\* A frozen ledger can be reviewed.  That of a ledger which was rejected once,
\* corrected and frozen again cannot: see the run that refutes this.
FrozenCanBeReviewed ==
  \A l \in Ledgers : plan[l].status = "frozen" => Reviewable(l)

===============================================================================

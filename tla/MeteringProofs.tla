---------------------------- MODULE MeteringProofs ----------------------------
(***************************************************************************)
(* Theorems of Metering, for any clients, accounts, items, leases, delays  *)
(* and bounds.  What a review sees is fresh because a complete item is of  *)
(* the round the batch is in: only a rework starts a round, and it resets  *)
(* every item; and because nothing is recorded once a batch is submitted.  *)
(***************************************************************************)
EXTENDS Metering, TLAPS

\* TypeOK, and what it needs to keep itself: a token is the number of a claim.
Typed == TypeOK /\ batch.token <= batch.claims

\* A complete item was recorded in this round.
CompleteIsFresh == \A i \in Items : items[i].complete => items[i].round = batch.reworks

\* Before the batch is there nothing was recorded; after its submission all was.
StageTellsItems ==
  /\ batch.status = "none" => \A i \in Items : ~items[i].complete
  /\ batch.status \in {"submitted", "accepted"} => Complete

IInv == Typed /\ CompleteIsFresh /\ StageTellsItems

-------------------------------------------------------------------------------
LEMMA InitInv == Init => IInv
BY MeteringAssumption
   DEF MeteringAssumption, Init, IInv, Typed, TypeOK, BatchRow, ItemRow,
       CompleteIsFresh, StageTellsItems, Complete

\* A call's "now" is an instant, and not after the clock.
LEMMA SampledPast == TypeOK => \A now \in Sampled : now \in Nat /\ now <= clock /\ clock <= now + ClockLag
BY DEF Sampled, TypeOK

\* A row is written as it is given, with the next version.
LEMMA WriteEffect ==
  ASSUME NEW row \in BatchRow, WriteBatch(row)
  PROVE  /\ batch' \in BatchRow
         /\ batch'.status = row.status /\ batch'.owner = row.owner
         /\ batch'.token = row.token /\ batch'.lease = row.lease
         /\ batch'.claims = row.claims /\ batch'.reworks = row.reworks
BY DEF WriteBatch, BatchRow

\* A claim that ends leaves neither owner nor token nor lease.
LEMMA VacatedRow ==
  ASSUME batch \in BatchRow, NEW status \in {"open", "submitted"}
  PROVE  /\ Vacated(status) \in BatchRow
         /\ Vacated(status).status = status /\ Vacated(status).owner = Nobody
         /\ Vacated(status).token = 0
         /\ Vacated(status).claims = batch.claims /\ Vacated(status).reworks = batch.reworks
BY DEF Vacated, BatchRow

-------------------------------------------------------------------------------
(* The steps, each with the invariant it keeps.                              *)

LEMMA ClaimKeeps ==
  ASSUME IInv, NEW w \in Clients, NEW now \in Nat, Claim(w, now)
  PROVE  IInv'
<1> DEFINE row == [batch EXCEPT !.status = "claimed", !.owner = Account[w],
                                !.token = batch.claims + 1, !.lease = now + LeaseTTL,
                                !.claims = batch.claims + 1]
<1>2. /\ batch.claims \in 0..MaxClaims /\ batch.claims < MaxClaims
      /\ LeaseTTL \in Nat /\ MaxClaims \in Nat /\ Account[w] # Nobody /\ Account[w] \in Accounts
  BY MeteringAssumption DEF MeteringAssumption, Claim, IInv, Typed, TypeOK, BatchRow
<1>a. /\ batch.claims + 1 \in 0..MaxClaims /\ batch.claims + 1 \in Nat \ {0}
      /\ now + LeaseTTL \in Nat /\ batch \in BatchRow
  BY <1>2 DEF IInv, Typed, TypeOK
<1>1. /\ row \in BatchRow /\ row.status = "claimed" /\ row.token # 0
      /\ row.owner # Nobody /\ row.token = row.claims /\ row.reworks = batch.reworks
  BY <1>2, <1>a DEF BatchRow
<1> HIDE DEF row
<1>3. /\ batch' \in BatchRow /\ batch'.status = "claimed" /\ batch'.token # 0
      /\ batch'.owner # Nobody /\ batch'.token = batch'.claims
      /\ batch'.reworks = batch.reworks
  BY <1>1, WriteEffect DEF Claim, row
<1>4. items' = items /\ clock' = clock
  BY DEF Claim
<1>5. ticket' \in [Clients -> [token : Nat, version : Nat]] /\ known' \in [Clients -> SUBSET Items]
  <2>1. batch'.token \in Nat /\ batch'.version \in Nat
    BY <1>3 DEF BatchRow
  <2> QED
    BY <2>1 DEF Claim, Receive, IInv, Typed, TypeOK
<1>6. Typed'
  BY <1>2, <1>3, <1>4, <1>5 DEF IInv, Typed, TypeOK, BatchRow
<1> QED
  BY <1>3, <1>4, <1>6 DEF IInv, CompleteIsFresh, StageTellsItems

LEMMA RenewKeeps ==
  ASSUME IInv, NEW w \in Clients, NEW now \in Nat, Renew(w, now)
  PROVE  IInv'
<1> DEFINE row == [batch EXCEPT !.lease = now + LeaseTTL]
<1>1. /\ row \in BatchRow
      /\ row.status = batch.status /\ row.token = batch.token
      /\ row.owner = batch.owner /\ row.claims = batch.claims
      /\ row.reworks = batch.reworks
  BY MeteringAssumption DEF MeteringAssumption, IInv, Typed, TypeOK, BatchRow
<1> HIDE DEF row
<1>2. /\ batch' \in BatchRow
      /\ batch'.status = batch.status /\ batch'.token = batch.token
      /\ batch'.owner = batch.owner /\ batch'.claims = batch.claims
      /\ batch'.reworks = batch.reworks
  BY <1>1, WriteEffect DEF Renew, row
<1>3. items' = items /\ clock' = clock /\ known' = known
  BY DEF Renew
<1>4. ticket' \in [Clients -> [token : Nat, version : Nat]]
  <2>1. batch'.token \in Nat /\ batch'.version \in Nat
    BY <1>2 DEF BatchRow
  <2> QED
    BY <2>1 DEF Renew, Receive, IInv, Typed, TypeOK
<1> QED
  BY <1>2, <1>3, <1>4 DEF IInv, Typed, TypeOK, CompleteIsFresh, StageTellsItems, Complete

\* The item is of the claim's token and of the round; the batch is claimed.
LEMMA RecordKeeps ==
  ASSUME IInv, NEW w \in Clients, NEW i \in Items, NEW now \in Nat, Record(w, i, now)
  PROVE  IInv'
<1>1. /\ batch.status = "claimed" /\ ticket[w].token = batch.token
      /\ batch' = batch /\ clock' = clock /\ ticket' = ticket
  BY DEF Record, ActiveClaim
<1>2. batch.token \in 0..MaxClaims /\ batch.reworks \in 0..MaxReworks
  BY MeteringAssumption DEF MeteringAssumption, IInv, Typed, TypeOK, BatchRow
<1>3. items' = [items EXCEPT ![i] = [complete |-> TRUE, token |-> batch.token,
                                     round |-> batch.reworks]]
  BY <1>1 DEF Record
<1>4. items' \in [Items -> ItemRow]
  BY <1>2, <1>3 DEF IInv, Typed, TypeOK, ItemRow
<1>5. known' \in [Clients -> SUBSET Items]
  BY DEF Record, IInv, Typed, TypeOK
<1>6. CompleteIsFresh'
  BY <1>1, <1>3 DEF IInv, CompleteIsFresh, Typed, TypeOK
<1> QED
  BY <1>1, <1>4, <1>5, <1>6 DEF IInv, Typed, TypeOK, StageTellsItems

\* A call that moves the batch and touches neither items nor claims.
LEMMA MoveKeeps ==
  ASSUME IInv, items' = items, clock' = clock, ticket' = ticket, known' = known,
         batch' \in BatchRow,
         batch'.claims = batch.claims, batch'.reworks = batch.reworks,
         batch'.status # "claimed", batch'.status # "none",
         batch'.token = 0, batch'.owner = Nobody,
         batch'.status \in {"submitted", "accepted"} => Complete
  PROVE  IInv'
BY DEF IInv, Typed, TypeOK, BatchRow, CompleteIsFresh, StageTellsItems, Complete

LEMMA CreateKeeps == IInv /\ Create => IInv'
<1> SUFFICES ASSUME IInv, Create PROVE IInv'
  OBVIOUS
<1>1. batch.token = 0 /\ batch.owner = Nobody
  BY DEF Create, IInv, Typed, TypeOK
<1>2. /\ batch' \in BatchRow /\ batch'.status = "open"
      /\ batch'.owner = batch.owner /\ batch'.token = batch.token
      /\ batch'.claims = batch.claims /\ batch'.reworks = batch.reworks
  BY DEF Create, IInv, Typed, TypeOK, BatchRow
<1> QED
  BY <1>1, <1>2, MoveKeeps DEF Create

LEMMA SubmitKeeps ==
  ASSUME IInv, NEW w \in Clients, NEW now \in Nat, Submit(w, now)
  PROVE  IInv'
<1>1. batch \in BatchRow /\ WriteBatch(Vacated("submitted"))
  BY DEF Submit, IInv, Typed, TypeOK
<1>2. /\ batch' \in BatchRow /\ batch'.status = "submitted"
      /\ batch'.owner = Nobody /\ batch'.token = 0
      /\ batch'.claims = batch.claims /\ batch'.reworks = batch.reworks
  BY <1>1, VacatedRow, WriteEffect
<1> QED
  BY <1>2, MoveKeeps DEF Submit

LEMMA AcceptKeeps == IInv /\ Accept => IInv'
<1> SUFFICES ASSUME IInv, Accept PROVE IInv'
  OBVIOUS
<1> DEFINE row == [batch EXCEPT !.status = "accepted"]
<1>1. batch.token = 0 /\ batch.owner = Nobody /\ Complete
  BY DEF Accept, IInv, Typed, TypeOK, StageTellsItems
<1>2. /\ row \in BatchRow /\ row.status = "accepted"
      /\ row.owner = batch.owner /\ row.token = batch.token
      /\ row.claims = batch.claims /\ row.reworks = batch.reworks
  BY DEF IInv, Typed, TypeOK, BatchRow
<1> HIDE DEF row
<1>3. /\ batch' \in BatchRow /\ batch'.status = "accepted"
      /\ batch'.owner = Nobody /\ batch'.token = 0
      /\ batch'.claims = batch.claims /\ batch'.reworks = batch.reworks
  BY <1>1, <1>2, WriteEffect DEF Accept, row
<1> QED
  BY <1>1, <1>3, MoveKeeps DEF Accept

LEMMA SweepKeeps ==
  ASSUME IInv, NEW now \in Nat, RecoverExpired(now)
  PROVE  IInv'
<1>1. batch \in BatchRow /\ WriteBatch(Vacated("open"))
  BY DEF RecoverExpired, IInv, Typed, TypeOK
<1>2. /\ batch' \in BatchRow /\ batch'.status = "open"
      /\ batch'.owner = Nobody /\ batch'.token = 0
      /\ batch'.claims = batch.claims /\ batch'.reworks = batch.reworks
  BY <1>1, VacatedRow, WriteEffect
<1> QED
  BY <1>2, MoveKeeps DEF RecoverExpired

\* The rework starts a round in which nothing is complete.
LEMMA ReworkKeeps == IInv /\ Rework => IInv'
<1> SUFFICES ASSUME IInv, Rework PROVE IInv'
  OBVIOUS
<1> DEFINE row == [batch EXCEPT !.status = "rework", !.reworks = batch.reworks + 1]
<1>2. /\ batch.reworks \in 0..MaxReworks /\ batch.reworks < MaxReworks /\ MaxReworks \in Nat
      /\ batch.token = 0 /\ batch.owner = Nobody
  BY MeteringAssumption DEF MeteringAssumption, Rework, IInv, Typed, TypeOK, BatchRow
<1>a. batch.reworks + 1 \in 0..MaxReworks /\ batch \in BatchRow
  BY <1>2 DEF IInv, Typed, TypeOK
<1>1. /\ row \in BatchRow /\ row.status = "rework" /\ row.token = 0
      /\ row.owner = Nobody /\ row.claims = batch.claims
  BY <1>2, <1>a DEF BatchRow
<1> HIDE DEF row
<1>3. /\ batch' \in BatchRow /\ batch'.status = "rework" /\ batch'.token = 0
      /\ batch'.owner = Nobody /\ batch'.claims = batch.claims
  BY <1>1, WriteEffect DEF Rework, row
<1>4. /\ items' \in [Items -> ItemRow]
      /\ \A i \in Items : ~items'[i].complete
  <2>1. \A it \in ItemRow : [it EXCEPT !.complete = FALSE] \in ItemRow
                              /\ ~[it EXCEPT !.complete = FALSE].complete
    BY DEF ItemRow
  <2>2. items \in [Items -> ItemRow] /\ items' = Reset
    BY DEF Rework, IInv, Typed, TypeOK
  <2> QED
    BY <2>1, <2>2 DEF Reset
<1>5. clock' = clock /\ ticket' = ticket /\ known' = [w \in Clients |-> {}]
  BY DEF Rework
<1>6. Typed'
  BY <1>2, <1>3, <1>4, <1>5 DEF IInv, Typed, TypeOK
<1> QED
  BY <1>3, <1>4, <1>6 DEF IInv, CompleteIsFresh, StageTellsItems

LEMMA QuietKeeps ==
  ASSUME IInv, Tick \/ (\E w \in Clients : Get(w)) \/ UNCHANGED vars
  PROVE  IInv'
<1>1. /\ batch' = batch /\ items' = items /\ ticket' = ticket
      /\ clock' \in Nat /\ known' \in [Clients -> SUBSET Items]
  BY DEF Tick, Get, vars, IInv, Typed, TypeOK
<1> QED
  BY <1>1 DEF IInv, Typed, TypeOK, CompleteIsFresh, StageTellsItems, Complete

LEMMA NextKeeps == IInv /\ [Next]_vars => IInv'
<1> SUFFICES ASSUME IInv, [Next]_vars PROVE IInv'
  OBVIOUS
<1>1. \A now \in Sampled : now \in Nat
  BY SampledPast DEF IInv, Typed
<1>2. CASE Tick \/ (\E w \in Clients : Get(w)) \/ UNCHANGED vars
  BY <1>2, QuietKeeps
<1>3. CASE Create \/ Accept \/ Rework
  BY <1>3, CreateKeeps, AcceptKeeps, ReworkKeeps
<1>4. ASSUME NEW now \in Sampled, RecoverExpired(now) PROVE IInv'
  BY <1>1, <1>4, SweepKeeps
<1>5. ASSUME NEW now \in Sampled, NEW w \in Clients, Claim(w, now) \/ Renew(w, now) \/ Submit(w, now)
      PROVE IInv'
  BY <1>1, <1>5, ClaimKeeps, RenewKeeps, SubmitKeeps
<1>6. ASSUME NEW now \in Sampled, NEW w \in Clients, NEW i \in Items, Record(w, i, now)
      PROVE IInv'
  BY <1>1, <1>6, RecordKeeps
<1> QED
  BY <1>2, <1>3, <1>4, <1>5, <1>6 DEF Next

LEMMA Invariant == Spec => []IInv
BY InitInv, NextKeeps, PTL DEF Spec

-------------------------------------------------------------------------------
\* The row, the items and the tickets are well typed, and a batch has an owner and
\* a token while it is claimed and only then (metering/repository.go).
THEOREM TypeCorrect == Spec => []TypeOK
<1>1. IInv => TypeOK
  BY DEF IInv, Typed
<1> QED
  BY <1>1, Invariant, PTL

\* What a steward reviews, and accepts, was recorded since the last rework, through
\* whatever claims, takeovers and sweeps (metering/service.go:217-307).
THEOREM ReviewSeesFreshWork == Spec => []ReviewedWorkIsFresh
<1>1. IInv => ReviewedWorkIsFresh
  BY DEF IInv, CompleteIsFresh, StageTellsItems, Complete, ReviewedWorkIsFresh
<1> QED
  BY <1>1, Invariant, PTL

\* Which steps change an item and leave it complete: a Record, under the claim.
LEMMA OnlyRecordRecords ==
  ASSUME IInv, [Next]_vars, NEW j \in Items, items'[j].complete, items'[j] # items[j]
  PROVE  \E now \in Sampled, w \in Clients : ActiveClaim(w, now) /\ items'[j].token = batch.token
<1>1. ~Rework
  <2> SUFFICES ASSUME Rework PROVE FALSE
    OBVIOUS
  <2>1. ~items'[j].complete
    BY DEF Rework, Reset, IInv, Typed, TypeOK, ItemRow
  <2> QED
    BY <2>1
<1>2. PICK now \in Sampled, w \in Clients, i \in Items : Record(w, i, now)
  BY <1>1 DEF Next, vars, Tick, Create, Accept, Get, RecoverExpired, Claim, Renew, Submit
<1>3. i = j
  BY <1>2 DEF Record, IInv, Typed, TypeOK
<1>4. items'[j].token = ticket[w].token
  BY <1>2, <1>3 DEF Record, IInv, Typed, TypeOK
<1> QED
  BY <1>2, <1>4 DEF Record, ActiveClaim

\* A client that lost its claim records nothing, even when the new claim is its own
\* account's (metering/service.go:173-215).
THEOREM RecordsNeedTheClaim == Spec => RecordedUnderClaim
<1>1. IInv /\ [Next]_vars =>
        [\A i \in Items : items'[i].complete /\ items'[i] # items[i]
           => batch.status = "claimed" /\ items'[i].token = batch.token]_vars
  BY OnlyRecordRecords DEF ActiveClaim
<1> QED
  BY <1>1, Invariant, PTL DEF Spec, RecordedUnderClaim

\* Of a claimed batch, only Claim counts another claim, and only Submit submits.
LEMMA WhoMovesClaimed ==
  ASSUME IInv, [Next]_vars, batch.status = "claimed"
  PROVE  /\ batch'.claims > batch.claims => \E now \in Sampled, w \in Clients : Claim(w, now)
         /\ batch'.status = "submitted" => \E now \in Sampled, w \in Clients : Submit(w, now)
<1>1. ~Create /\ ~Accept /\ ~Rework
  BY DEF Create, Accept, Rework
<1>2. CASE Tick \/ (\E w \in Clients : Get(w)) \/ UNCHANGED vars
          \/ \E now \in Sampled, w \in Clients, i \in Items : Record(w, i, now)
  <2>1. batch' = batch
    BY <1>2 DEF Tick, Get, vars, Record
  <2> QED
    BY <2>1 DEF IInv, Typed, TypeOK, BatchRow
<1>3. ASSUME NEW now \in Sampled, NEW w \in Clients, Claim(w, now)
      PROVE batch'.status # "submitted"
  BY <1>3 DEF Claim, WriteBatch, IInv, Typed, TypeOK, BatchRow
<1>4. ASSUME NEW now \in Sampled, NEW w \in Clients, Renew(w, now)
      PROVE batch'.status # "submitted" /\ batch'.claims = batch.claims
  BY <1>4 DEF Renew, WriteBatch, IInv, Typed, TypeOK, BatchRow
<1>5. ASSUME NEW now \in Sampled, RecoverExpired(now)
      PROVE batch'.status # "submitted" /\ batch'.claims = batch.claims
  BY <1>5 DEF RecoverExpired, WriteBatch, Vacated, IInv, Typed, TypeOK, BatchRow
<1>6. ASSUME NEW now \in Sampled, NEW w \in Clients, Submit(w, now)
      PROVE batch'.claims = batch.claims
  BY <1>6 DEF Submit, WriteBatch, Vacated, IInv, Typed, TypeOK, BatchRow
<1>7. batch.claims \in Nat
  BY MeteringAssumption DEF MeteringAssumption, IInv, Typed, TypeOK, BatchRow
<1> QED
  BY <1>1, <1>2, <1>3, <1>4, <1>5, <1>6, <1>7 DEF Next

\* A claim is taken over only after its lease, and work is recorded and submitted
\* only before its end or the call's own delay after it (metering/service.go:120-160).
THEOREM LeasesAreHonored == Spec => LeasesHoldByTheClock
<1>1. ASSUME IInv, [Next]_vars, batch.status = "claimed"
      PROVE  /\ batch'.claims > batch.claims => batch.lease <= clock
             /\ \/ batch'.status = "submitted"
                \/ \E i \in Items : items'[i].complete /\ items'[i] # items[i]
                => clock < batch.lease + ClockLag
  <2>1. batch.lease \in Nat /\ clock \in Nat /\ ClockLag \in Nat
    BY <1>1, MeteringAssumption DEF MeteringAssumption, IInv, Typed, TypeOK, BatchRow
  <2>2. \A now \in Sampled : now \in Nat /\ now <= clock /\ clock <= now + ClockLag
    BY <1>1, SampledPast DEF IInv, Typed
  <2>3. ASSUME batch'.claims > batch.claims PROVE batch.lease <= clock
    <3>1. PICK now \in Sampled, w \in Clients : Claim(w, now)
      BY <1>1, <2>3, WhoMovesClaimed
    <3>2. batch.lease <= now
      BY <1>1, <3>1 DEF Claim, Claimable, Expired
    <3> QED
      BY <2>1, <2>2, <3>2
  <2>4. ASSUME NEW now \in Sampled, NEW w \in Clients, ActiveClaim(w, now)
        PROVE clock < batch.lease + ClockLag
    BY <2>1, <2>2, <2>4 DEF ActiveClaim
  <2>5. ASSUME batch'.status = "submitted" PROVE clock < batch.lease + ClockLag
    BY <1>1, <2>4, <2>5, WhoMovesClaimed DEF Submit
  <2>6. ASSUME NEW i \in Items, items'[i].complete, items'[i] # items[i]
        PROVE clock < batch.lease + ClockLag
    BY <1>1, <2>4, <2>6, OnlyRecordRecords
  <2> QED
    BY <2>3, <2>5, <2>6
<1> QED
  BY <1>1, Invariant, PTL DEF Spec, LeasesHoldByTheClock

-------------------------------------------------------------------------------
(* The review cycle.                                                         *)

\* The abstract stage and work done, named so that they can be primed.
Stage == CASE batch.status = "none" -> "absent"
           [] batch.status \in {"open", "claimed", "rework"} -> "work"
           [] batch.status = "submitted" -> "review"
           [] batch.status = "accepted" -> "accepted"
Done == {i \in Items : items[i].complete}

\* In those terms, the steps of the cycle.
Opens   == Stage = "absent" /\ Stage' = "work" /\ Done' = {}
Does(p) == Stage = "work" /\ Stage' = "work" /\ Done' = Done \cup {p}
Submits == Stage = "work" /\ Done = Items /\ Stage' = "review" /\ Done' = Done
Accepts == Stage = "review" /\ Stage' = "accepted" /\ Done' = Done
Reworks == Stage = "review" /\ Stage' = "work" /\ Done' = {}
Cycles  == \/ Opens \/ (\E p \in Items : Does(p)) \/ Submits \/ Accepts \/ Reworks
           \/ Stage' = Stage /\ Done' = Done

LEMMA StepCycles == IInv /\ [Next]_vars => Cycles
<1> SUFFICES ASSUME IInv, [Next]_vars PROVE Cycles
  OBVIOUS
<1>a. batch \in BatchRow /\ items \in [Items -> ItemRow]
  BY DEF IInv, Typed, TypeOK
<1>b. ASSUME items' = items PROVE Done' = Done
  BY <1>b DEF Done
<1>1. CASE Tick \/ (\E w \in Clients : Get(w)) \/ UNCHANGED vars
  <2>1. batch' = batch /\ items' = items
    BY <1>1 DEF Tick, Get, vars
  <2> QED
    BY <1>b, <2>1 DEF Cycles, Stage
<1>2. CASE Create
  <2>1. batch.status = "none" /\ batch'.status = "open" /\ Done' = {}
    BY <1>2, <1>a DEF Create, BatchRow, IInv, StageTellsItems, Done
  <2> QED
    BY <2>1 DEF Cycles, Opens, Stage
<1>3. CASE Accept
  <2>1. batch.status = "submitted" /\ batch'.status = "accepted" /\ items' = items
    BY <1>3, <1>a DEF Accept, WriteBatch, BatchRow
  <2> QED
    BY <1>b, <2>1 DEF Cycles, Accepts, Stage
<1>4. CASE Rework
  <2>1. batch.status = "submitted" /\ batch'.status = "rework"
    BY <1>4, <1>a DEF Rework, WriteBatch, BatchRow
  <2>2. Done' = {}
    BY <1>4, <1>a DEF Rework, Reset, ItemRow, Done
  <2> QED
    BY <2>1, <2>2 DEF Cycles, Reworks, Stage
<1>5. ASSUME NEW now \in Sampled, RecoverExpired(now) PROVE Cycles
  <2>1. batch.status = "claimed" /\ batch'.status = "open" /\ items' = items
    BY <1>5, <1>a DEF RecoverExpired, TextExpired, WriteBatch, Vacated, BatchRow
  <2> QED
    BY <1>b, <2>1 DEF Cycles, Stage
<1>6. ASSUME NEW now \in Sampled, NEW w \in Clients, Claim(w, now) PROVE Cycles
  <2>1. /\ batch.status \in {"open", "rework", "claimed"} /\ batch'.status = "claimed"
        /\ items' = items
    BY <1>6, <1>a DEF Claim, Claimable, Expired, WriteBatch, BatchRow
  <2> QED
    BY <1>b, <2>1 DEF Cycles, Stage
<1>7. ASSUME NEW now \in Sampled, NEW w \in Clients, Renew(w, now) PROVE Cycles
  <2>1. batch.status = "claimed" /\ batch'.status = "claimed" /\ items' = items
    BY <1>7, <1>a DEF Renew, WriteBatch, BatchRow
  <2> QED
    BY <1>b, <2>1 DEF Cycles, Stage
<1>8. ASSUME NEW now \in Sampled, NEW w \in Clients, Submit(w, now) PROVE Cycles
  <2>1. /\ batch.status = "claimed" /\ batch'.status = "submitted" /\ items' = items
        /\ Done = Items
    BY <1>8, <1>a DEF Submit, ActiveClaim, Complete, Done, WriteBatch, Vacated, BatchRow
  <2> QED
    BY <1>b, <2>1 DEF Cycles, Submits, Stage
<1>9. ASSUME NEW now \in Sampled, NEW w \in Clients, NEW i \in Items, Record(w, i, now)
      PROVE Cycles
  <2>1. batch.status = "claimed" /\ batch' = batch
    BY <1>9 DEF Record, ActiveClaim
  <2>2. Done' = Done \cup {i}
    BY <1>9, <1>a DEF Record, Done
  <2> QED
    BY <2>1, <2>2 DEF Cycles, Does, Stage
<1> QED
  BY <1>1, <1>2, <1>3, <1>4, <1>5, <1>6, <1>7, <1>8, <1>9 DEF Next

\* Leases, takeovers and sweeps move a batch between hands and never touch what was
\* recorded: as seen through ReviewCycle only work, reviews and reworks happen.
THEOREM MeteringIsAReviewCycle == Spec => ImplementsReviewCycle
<1>1. Init => Cycle!Init
  BY DEF Init, Cycle!Init
<1>2. Cycles => [Cycle!Next]_(Cycle!cycleVars)
  BY DEF Cycles, Opens, Does, Submits, Accepts, Reworks, Stage, Done, Cycle!Next, Cycle!Open,
         Cycle!Do, Cycle!Submit, Cycle!Accept, Cycle!Rework, Cycle!cycleVars
<1> QED
  BY <1>1, <1>2, Invariant, StepCycles, PTL DEF Spec, ImplementsReviewCycle, Cycle!Spec

===============================================================================

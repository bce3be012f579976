----------------------------- MODULE OutboxProofs -----------------------------
(***************************************************************************)
(* Theorems of Outbox, for any workers, events, attempts, leases, delays   *)
(* and bounds.  That the endpoint accepts an event at most once per claim  *)
(* is an argument about who still may post it: the posts there were and    *)
(* the workers that hold a claim they have not used are together no more   *)
(* than the claims.                                                        *)
(***************************************************************************)
EXTENDS Outbox, FiniteSetTheorems, TLAPS

\* Who may yet post the event.
Unsent(e) == {w \in Workers : report[w][e] = "unsent"}

\* Of one event: claims are counted from its row's beginning; the posts there were and those to come
\* are covered by claims; who reports success had the event accepted; it ended for
\* a reason.
Accounted(e) ==
  /\ events[e].status = "none" => events[e].attempts = 0
  /\ events[e].status = "delivering" => events[e].attempts > 0
  /\ IsFiniteSet(Unsent(e))
  /\ received[e] + Cardinality(Unsent(e)) <= events[e].attempts
  /\ \A w \in Workers : report[w][e] = "ok" => received[e] > 0
  /\ events[e].status = "delivered" => received[e] > 0
  /\ events[e].status = "dead" => refused[e] \/ events[e].attempts = MaxAttempts

IInv == TypeOK /\ \A e \in Events : Accounted(e)

-------------------------------------------------------------------------------
(* Types of what the calls compute.                                          *)

LEMMA SampledPast ==
  ASSUME TypeOK, NEW now \in Sampled
  PROVE  now \in Nat /\ now <= clock /\ clock <= now + ClockLag
BY DEF Sampled, TypeOK

LEMMA BackoffIsNat == ASSUME NEW a \in Nat \ {0} PROVE Backoff(a) \in Nat
<1> DEFINE i == IF a < 9 THEN a ELSE 9
<1>1. i \in 1..9
  OBVIOUS
<1>2. Doubling[i] \in Nat
  BY <1>1 DEF Doubling
<1> QED
  BY <1>2, OutboxAssumption DEF Backoff, OutboxAssumption

LEMMA WriteEffect ==
  ASSUME TypeOK, NEW e \in Events, NEW row \in EventRow, WriteEvent(e, row)
  PROVE  /\ events' \in [Events -> EventRow]
         /\ events'[e].status = row.status /\ events'[e].owner = row.owner
         /\ events'[e].token = row.token /\ events'[e].attempts = row.attempts
         /\ \A k \in Events \ {e} : events'[k] = events[k]
<1> DEFINE new == [row EXCEPT !.version = row.version + 1]
<1>1. /\ new \in EventRow
      /\ new.status = row.status /\ new.owner = row.owner
      /\ new.token = row.token /\ new.attempts = row.attempts
  BY DEF EventRow
<1>2. events' = [events EXCEPT ![e] = new]
  BY DEF WriteEvent
<1> HIDE DEF new
<1> QED
  BY <1>1, <1>2 DEF TypeOK

LEMMA VacatedRow ==
  ASSUME NEW row \in EventRow, NEW status \in {"pending", "delivered", "dead"}
  PROVE  /\ Vacated(row, status) \in EventRow
         /\ Vacated(row, status).status = status
         /\ Vacated(row, status).token = 0
         /\ Vacated(row, status).attempts = row.attempts
BY DEF Vacated, EventRow, Ended

LEMMA ReceiveType ==
  ASSUME TypeOK, events' \in [Events -> EventRow], NEW w \in Workers, NEW e \in Events,
         Receive(w, e)
  PROVE  ticket' \in [Workers -> [Events -> Ticket]]
<1> DEFINE told == [token |-> events'[e].token, version |-> events'[e].version]
<1>1. told \in Ticket
  BY DEF Ticket, EventRow
<1>2. ticket' = [ticket EXCEPT ![w] = [ticket[w] EXCEPT ![e] = told]]
  BY DEF Receive
<1> HIDE DEF told
<1>3. [ticket[w] EXCEPT ![e] = told] \in [Events -> Ticket]
  BY <1>1 DEF TypeOK
<1> QED
  BY <1>2, <1>3 DEF TypeOK

\* A report of one worker on one event changes no other.
LEMMA ReportEffect ==
  ASSUME TypeOK, NEW w \in Workers, NEW e \in Events, NEW r \in Reports,
         report' = [report EXCEPT ![w][e] = r]
  PROVE  /\ report' \in [Workers -> [Events -> Reports]]
         /\ report'[w][e] = r
         /\ \A v \in Workers, k \in Events : v # w \/ k # e => report'[v][k] = report[v][k]
<1>1. report' = [report EXCEPT ![w] = [report[w] EXCEPT ![e] = r]]
  OBVIOUS
<1>2. report[w] \in [Events -> Reports]
  BY DEF TypeOK
<1>3. [report[w] EXCEPT ![e] = r] \in [Events -> Reports]
  BY <1>2
<1> QED
  BY <1>1, <1>2, <1>3 DEF TypeOK

-------------------------------------------------------------------------------
(* How a step reaches from one event to all.                                 *)

\* Nothing that an event's account reads has changed.
SameEvent(k) ==
  /\ events'[k] = events[k] /\ received'[k] = received[k] /\ refused'[k] = refused[k]
  /\ \A w \in Workers : report'[w][k] = report[w][k]

LEMMA SameAccount ==
  ASSUME NEW k \in Events, Accounted(k), SameEvent(k)
  PROVE  Accounted(k)'
<1>1. Unsent(k)' = Unsent(k)
  BY DEF Unsent, SameEvent
<1> QED
  BY <1>1 DEF Accounted, SameEvent

LEMMA OneEvent ==
  ASSUME IInv, TypeOK', NEW e \in Events, Accounted(e)', \A k \in Events \ {e} : SameEvent(k)
  PROVE  IInv'
<1>1. ASSUME NEW k \in Events PROVE Accounted(k)'
  BY SameAccount DEF IInv
<1> QED
  BY <1>1 DEF IInv

\* One worker more that may post, or one fewer.
LEMMA UnsentCount ==
  ASSUME IInv, TypeOK', NEW w \in Workers, NEW e \in Events,
         \A v \in Workers \ {w} : report'[v][e] = report[v][e]
  PROVE  /\ IsFiniteSet(Unsent(e)) /\ IsFiniteSet(Unsent(e)')
         /\ Cardinality(Unsent(e)) \in Nat /\ Cardinality(Unsent(e)') \in Nat
         /\ report'[w][e] = "unsent" => Cardinality(Unsent(e)') <= Cardinality(Unsent(e)) + 1
         /\ report'[w][e] # "unsent" =>
              /\ Cardinality(Unsent(e)') <= Cardinality(Unsent(e))
              /\ report[w][e] = "unsent" =>
                   Cardinality(Unsent(e)') = Cardinality(Unsent(e)) - 1
<1>1. IsFiniteSet(Unsent(e)) /\ Cardinality(Unsent(e)) \in Nat
  BY FS_CardinalityType DEF IInv, Accounted
<1>2. CASE report'[w][e] = "unsent"
  <2>1. Unsent(e)' = Unsent(e) \cup {w}
    BY <1>2 DEF Unsent
  <2>2. /\ IsFiniteSet(Unsent(e) \cup {w})
        /\ Cardinality(Unsent(e) \cup {w}) =
             IF w \in Unsent(e) THEN Cardinality(Unsent(e)) ELSE Cardinality(Unsent(e)) + 1
    BY <1>1, FS_AddElement
  <2> QED
    BY <1>1, <1>2, <2>1, <2>2
<1>3. CASE report'[w][e] # "unsent"
  <2>1. Unsent(e)' = Unsent(e) \ {w} /\ (w \in Unsent(e) <=> report[w][e] = "unsent")
    BY <1>3 DEF Unsent
  <2>2. /\ IsFiniteSet(Unsent(e) \ {w})
        /\ Cardinality(Unsent(e) \ {w}) =
             IF w \in Unsent(e) THEN Cardinality(Unsent(e)) - 1 ELSE Cardinality(Unsent(e))
    BY <1>1, FS_RemoveElement
  <2>3. Cardinality(Unsent(e) \ {w}) \in Nat
    BY <2>2, FS_CardinalityType
  <2> QED
    BY <1>1, <1>3, <2>1, <2>2, <2>3
<1> QED
  BY <1>2, <1>3

-------------------------------------------------------------------------------
(* The steps, each with the invariant it keeps.                              *)

LEMMA InitInv == Init => IInv
<1> SUFFICES ASSUME Init PROVE IInv
  OBVIOUS
<1>1. TypeOK
  BY OutboxAssumption DEF OutboxAssumption, Init, TypeOK, EventRow, NoEvent, Reports, Ticket
<1>2. ASSUME NEW e \in Events PROVE Accounted(e)
  <2>1. Unsent(e) = {}
    BY DEF Init, Unsent
  <2> QED
    BY <2>1, FS_EmptySet DEF Init, Accounted, NoEvent
<1> QED
  BY <1>1, <1>2 DEF IInv

LEMMA EnqueueKeeps ==
  ASSUME IInv, NEW now \in Sampled, NEW e \in Events, Enqueue(e, now)
  PROVE  IInv'
<1> DEFINE new == [NoEvent EXCEPT !.status = "pending", !.next = now, !.created = now,
                                  !.version = 1]
<1>a. now \in Nat
  BY SampledPast DEF IInv
<1>b. NoEvent \in EventRow /\ NoEvent.attempts = 0
  BY OutboxAssumption DEF OutboxAssumption, EventRow, NoEvent
<1>1. new \in EventRow /\ new.status = "pending" /\ new.attempts = 0
  BY <1>a, <1>b DEF EventRow
<1>2. events' = [events EXCEPT ![e] = new] /\ UNCHANGED <<clock, ticket, report, received, refused>>
  BY DEF Enqueue
<1> HIDE DEF new
<1>3. TypeOK'
  BY <1>1, <1>2 DEF IInv, TypeOK
<1>4. /\ events'[e].status = "pending" /\ events'[e].attempts = events[e].attempts
      /\ Unsent(e)' = Unsent(e)
  BY <1>1, <1>2 DEF IInv, TypeOK, Accounted, Enqueue, Unsent
<1>5. Accounted(e)'
  BY <1>2, <1>4 DEF IInv, Accounted
<1> QED
  BY <1>2, <1>3, <1>5, OneEvent DEF SameEvent, IInv, TypeOK

LEMMA ClaimKeeps ==
  ASSUME IInv, NEW now \in Sampled, NEW w \in Workers, NEW e \in Events, Claim(w, e, now)
  PROVE  IInv'
<1> DEFINE row == [events[e] EXCEPT !.status = "delivering", !.owner = w,
                                    !.token = events[e].attempts + 1,
                                    !.lease = now + LeaseTTL,
                                    !.attempts = events[e].attempts + 1]
<1>1. /\ events[e] \in EventRow /\ events[e].attempts + 1 \in 0..MaxAttempts
      /\ events[e].attempts + 1 \in Nat /\ now + LeaseTTL \in Nat
  BY SampledPast, OutboxAssumption
     DEF OutboxAssumption, IInv, TypeOK, EventRow, Claim, Exhausted
<1>2. row \in EventRow /\ row.status = "delivering" /\ row.attempts = events[e].attempts + 1
  BY <1>1 DEF EventRow
<1>3. WriteEvent(e, row)
  BY DEF Claim
<1> HIDE DEF row
<1>4. /\ events' \in [Events -> EventRow] /\ events'[e].status = "delivering"
      /\ events'[e].attempts = events[e].attempts + 1
      /\ \A k \in Events \ {e} : events'[k] = events[k]
  BY <1>2, <1>3, WriteEffect DEF IInv
<1>5. /\ clock' = clock /\ received' = received /\ refused' = refused
      /\ \/ Receive(w, e) /\ report' = [report EXCEPT ![w][e] = "unsent"]
         \/ ticket' = ticket /\ report' = report
  BY DEF Claim
<1>6. /\ report' \in [Workers -> [Events -> Reports]]
      /\ report'[w][e] = "unsent" \/ report' = report
      /\ \A v \in Workers, k \in Events : v # w \/ k # e => report'[v][k] = report[v][k]
  BY <1>5, ReportEffect DEF IInv, TypeOK, Reports
<1>7. TypeOK'
  BY <1>4, <1>5, <1>6, ReceiveType DEF IInv, TypeOK
<1>8. /\ IsFiniteSet(Unsent(e)')
      /\ Cardinality(Unsent(e)) \in Nat /\ Cardinality(Unsent(e)') \in Nat
      /\ Cardinality(Unsent(e)') <= Cardinality(Unsent(e)) + 1
  <2>1. CASE report'[w][e] = "unsent"
    BY <1>6, <1>7, <2>1, UnsentCount
  <2>2. CASE report' = report
    <3>1. Unsent(e)' = Unsent(e) /\ IsFiniteSet(Unsent(e))
      BY <2>2 DEF Unsent, IInv, Accounted
    <3>2. Cardinality(Unsent(e)) \in Nat
      BY <3>1, FS_CardinalityType
    <3> QED
      BY <3>1, <3>2
  <2> QED
    BY <1>6, <2>1, <2>2
<1>9. Accounted(e)'
  <2>1. received[e] \in Nat /\ events[e].attempts \in Nat
    BY OutboxAssumption DEF OutboxAssumption, IInv, TypeOK, EventRow
  <2>2. received'[e] + Cardinality(Unsent(e)') <= events'[e].attempts
    BY <1>4, <1>5, <1>8, <2>1 DEF IInv, Accounted
  <2>3. \A v \in Workers : report'[v][e] = "ok" => report[v][e] = "ok"
    BY <1>6
  <2> QED
    BY <1>4, <1>5, <1>8, <2>1, <2>2, <2>3 DEF IInv, Accounted
<1> QED
  BY <1>4, <1>5, <1>6, <1>7, <1>9, OneEvent DEF SameEvent

LEMMA RenewKeeps ==
  ASSUME IInv, NEW now \in Sampled, NEW w \in Workers, NEW e \in Events, Renew(w, e, now)
  PROVE  IInv'
<1> DEFINE row == [events[e] EXCEPT !.lease = now + LeaseTTL]
<1>a. now + LeaseTTL \in Nat /\ events[e] \in EventRow
  BY SampledPast, OutboxAssumption DEF OutboxAssumption, IInv, TypeOK
<1>1. /\ row \in EventRow /\ row.status = events[e].status
      /\ row.attempts = events[e].attempts
  BY <1>a DEF EventRow
<1>2. WriteEvent(e, row)
  BY DEF Renew
<1> HIDE DEF row
<1>3. /\ events' \in [Events -> EventRow] /\ events'[e].status = events[e].status
      /\ events'[e].attempts = events[e].attempts
      /\ \A k \in Events \ {e} : events'[k] = events[k]
  BY <1>1, <1>2, WriteEffect DEF IInv
<1>4. /\ UNCHANGED <<clock, report, received, refused>>
      /\ Receive(w, e) \/ ticket' = ticket
  BY DEF Renew
<1>5. TypeOK'
  BY <1>3, <1>4, ReceiveType DEF IInv, TypeOK
<1>6. Accounted(e)'
  <2>1. Unsent(e)' = Unsent(e)
    BY <1>4 DEF Unsent
  <2> QED
    BY <1>3, <1>4, <2>1 DEF IInv, Accounted
<1> QED
  BY <1>3, <1>4, <1>5, <1>6, OneEvent DEF SameEvent

\* The post: one fewer that may post, and at most one more received.
LEMMA SendKeeps ==
  ASSUME IInv, NEW w \in Workers, NEW e \in Events, Send(w, e)
  PROVE  IInv'
<1>1. PICK a \in {"ok", "temporary", "permanent"} :
        /\ report' = [report EXCEPT ![w][e] = a]
        /\ \/ received' = [received EXCEPT ![e] = @ + 1]
           \/ received' = received /\ a # "ok"
  BY DEF Send
<1>2. report[w][e] = "unsent" /\ UNCHANGED <<clock, events, ticket, refused>>
  BY DEF Send
<1>3. /\ report' \in [Workers -> [Events -> Reports]]
      /\ report'[w][e] = a
      /\ \A v \in Workers, k \in Events : v # w \/ k # e => report'[v][k] = report[v][k]
  <2>1. a \in Reports
    BY DEF Reports
  <2>2. TypeOK
    BY DEF IInv
  <2>3. report' = [report EXCEPT ![w][e] = a]
    BY <1>1
  <2> QED
    BY <2>1, <2>2, <2>3, ReportEffect, ZenonT(30)
<1>4. /\ received' \in [Events -> Nat]
      /\ received'[e] = received[e] + 1 \/ (received'[e] = received[e] /\ a # "ok")
      /\ \A k \in Events \ {e} : received'[k] = received[k]
      /\ received[e] \in Nat
  <2>1. received \in [Events -> Nat]
    BY DEF IInv, TypeOK
  <2>2. CASE received' = [received EXCEPT ![e] = @ + 1]
    BY <2>1, <2>2
  <2>3. CASE received' = received /\ a # "ok"
    BY <2>1, <2>3
  <2> QED
    BY <1>1, <2>2, <2>3
<1>5. TypeOK'
  BY <1>2, <1>3, <1>4 DEF IInv, TypeOK
<1>6. /\ IsFiniteSet(Unsent(e)')
      /\ Cardinality(Unsent(e)) \in Nat
      /\ Cardinality(Unsent(e)') = Cardinality(Unsent(e)) - 1
  BY <1>2, <1>3, <1>5, UnsentCount
<1>7. Accounted(e)'
  <2>1. events[e].attempts \in Nat
    BY OutboxAssumption DEF OutboxAssumption, IInv, TypeOK, EventRow
  <2>2. received'[e] + Cardinality(Unsent(e)') <= events'[e].attempts
    BY <1>2, <1>4, <1>6, <2>1 DEF IInv, Accounted
  <2>3. \A v \in Workers : report'[v][e] = "ok" => received'[e] > 0
    BY <1>3, <1>4 DEF IInv, Accounted
  <2>4. received'[e] >= received[e]
    BY <1>4
  <2> QED
    BY <1>2, <1>4, <1>6, <2>2, <2>3, <2>4 DEF IInv, Accounted
<1> QED
  BY <1>2, <1>3, <1>4, <1>5, <1>7, OneEvent DEF SameEvent

\* What the two reports have in common: the claim ends, by the one who held it.
LEMMA ReportKeeps ==
  ASSUME IInv, NEW w \in Workers, NEW e \in Events, NEW row \in EventRow,
         WriteEvent(e, row), row.attempts = events[e].attempts,
         row.status \in {"pending", "delivered", "dead"},
         row.status = "delivered" => report[w][e] = "ok",
         row.status = "dead" => refused'[e] \/ events[e].attempts = MaxAttempts,
         report' = [report EXCEPT ![w][e] = "none"],
         refused' \in [Events -> BOOLEAN],
         \A k \in Events \ {e} : refused'[k] = refused[k],
         UNCHANGED <<clock, ticket, received>>
  PROVE  IInv'
<1>1. /\ events' \in [Events -> EventRow] /\ events'[e].status = row.status
      /\ events'[e].attempts = events[e].attempts
      /\ \A k \in Events \ {e} : events'[k] = events[k]
  BY WriteEffect DEF IInv
<1>2. /\ report' \in [Workers -> [Events -> Reports]]
      /\ report'[w][e] = "none"
      /\ \A v \in Workers, k \in Events : v # w \/ k # e => report'[v][k] = report[v][k]
  BY ReportEffect DEF IInv, Reports
<1>3. TypeOK'
  BY <1>1, <1>2 DEF IInv, TypeOK
<1>4. /\ IsFiniteSet(Unsent(e)')
      /\ Cardinality(Unsent(e)) \in Nat /\ Cardinality(Unsent(e)') \in Nat
      /\ Cardinality(Unsent(e)') <= Cardinality(Unsent(e))
  BY <1>2, <1>3, UnsentCount
<1>5. Accounted(e)'
  <2>1. events[e].attempts \in Nat /\ received[e] \in Nat
    BY OutboxAssumption DEF OutboxAssumption, IInv, TypeOK, EventRow
  <2>2. received'[e] + Cardinality(Unsent(e)') <= events'[e].attempts
    BY <1>1, <1>4, <2>1 DEF IInv, Accounted
  <2> QED
    BY <1>1, <1>2, <1>4, <2>2 DEF IInv, Accounted
<1> QED
  BY <1>1, <1>2, <1>3, <1>5, OneEvent DEF SameEvent

LEMMA AcknowledgeKeeps ==
  ASSUME IInv, NEW now \in Sampled, NEW w \in Workers, NEW e \in Events, Acknowledge(w, e, now)
  PROVE  IInv'
<1>1. events[e] \in EventRow
  BY DEF IInv, TypeOK
<1> DEFINE row == Vacated(events[e], "delivered")
<1>2. row \in EventRow /\ row.status = "delivered" /\ row.attempts = events[e].attempts
  BY <1>1, VacatedRow
<1>3. /\ WriteEvent(e, row) /\ report[w][e] = "ok"
      /\ report' = [report EXCEPT ![w][e] = "none"]
      /\ UNCHANGED <<clock, ticket, received, refused>>
  BY DEF Acknowledge
<1> HIDE DEF row
<1> QED
  BY <1>2, <1>3, ReportKeeps DEF IInv, TypeOK

LEMMA FailKeeps ==
  ASSUME IInv, NEW now \in Sampled, NEW w \in Workers, NEW e \in Events, Fail(w, e, now)
  PROVE  IInv'
<1> DEFINE permanent == report[w][e] = "permanent"
           retry     == ~permanent /\ ~Exhausted(e)
           next      == IF retry THEN now + Backoff(events[e].attempts) ELSE now
           row0      == Vacated(events[e], IF retry THEN "pending" ELSE "dead")
           row       == [row0 EXCEPT !.next = next]
<1>1. /\ events[e] \in EventRow /\ events[e].attempts \in Nat \ {0}
      /\ events[e].attempts <= MaxAttempts /\ MaxAttempts \in Nat
  BY OutboxAssumption DEF OutboxAssumption, IInv, TypeOK, EventRow, Accounted, Fail
<1>2. next \in Nat
  BY <1>1, SampledPast, BackoffIsNat DEF IInv
<1>3. /\ row0 \in EventRow /\ row0.status = (IF retry THEN "pending" ELSE "dead")
      /\ row0.attempts = events[e].attempts
  BY <1>1, VacatedRow
<1>4. /\ WriteEvent(e, row)
      /\ refused' = [refused EXCEPT ![e] = @ \/ permanent]
      /\ report' = [report EXCEPT ![w][e] = "none"]
      /\ UNCHANGED <<clock, ticket, received>>
  BY DEF Fail
<1>5. ~retry => permanent \/ events[e].attempts = MaxAttempts
  BY <1>1 DEF Exhausted
<1> HIDE DEF row0, next, retry
<1>6. /\ row \in EventRow /\ row.status = (IF retry THEN "pending" ELSE "dead")
      /\ row.attempts = events[e].attempts
  BY <1>2, <1>3 DEF EventRow
<1> HIDE DEF row, permanent
<1>7. /\ refused' \in [Events -> BOOLEAN]
      /\ \A k \in Events \ {e} : refused'[k] = refused[k]
      /\ permanent => refused'[e]
  <2>1. refused \in [Events -> BOOLEAN] /\ permanent \in BOOLEAN
    BY DEF IInv, TypeOK, permanent
  <2> QED
    BY <1>4, <2>1
<1> QED
  BY <1>4, <1>5, <1>6, <1>7, ReportKeeps

LEMMA SweepKeeps ==
  ASSUME IInv, NEW now \in Sampled, RecoverExpired(now)
  PROVE  IInv'
<1>1. /\ events' = [e \in Events |-> IF LeaseExpired(e, now) THEN Recovered(e, now) ELSE events[e]]
      /\ UNCHANGED <<clock, ticket, report, received, refused>>
  BY DEF RecoverExpired
<1>2. ASSUME NEW e \in Events
      PROVE /\ Recovered(e, now) \in EventRow
            /\ Recovered(e, now).status = (IF Exhausted(e) THEN "dead" ELSE "pending")
            /\ Recovered(e, now).attempts = events[e].attempts
  <2> DEFINE row == Vacated(events[e], IF Exhausted(e) THEN "dead" ELSE "pending")
  <2>1. /\ row \in EventRow /\ row.status = (IF Exhausted(e) THEN "dead" ELSE "pending")
        /\ row.attempts = events[e].attempts
    BY VacatedRow DEF IInv, TypeOK
  <2>2. now \in Nat
    BY SampledPast DEF IInv
  <2>3. Recovered(e, now) = [row EXCEPT !.next = now, !.version = row.version + 1]
    BY DEF Recovered
  <2> HIDE DEF row
  <2>4. row.version + 1 \in Nat
    BY <2>1 DEF EventRow
  <2> DEFINE v == row.version + 1
  <2> HIDE DEF v
  <2>5. v \in Nat /\ Recovered(e, now) = [row EXCEPT !.next = now, !.version = v]
    BY <2>3, <2>4 DEF v
  <2> QED
    BY <2>1, <2>2, <2>5 DEF EventRow
<1>3. TypeOK'
  BY <1>1, <1>2 DEF IInv, TypeOK
<1>4. ASSUME NEW e \in Events PROVE Accounted(e)'
  <2>1. Unsent(e)' = Unsent(e)
    BY <1>1 DEF Unsent
  <2>2. CASE LeaseExpired(e, now)
    <3>1. /\ events'[e].status = (IF Exhausted(e) THEN "dead" ELSE "pending")
          /\ events'[e].attempts = events[e].attempts
      BY <1>1, <1>2, <2>2
    <3>2. Exhausted(e) => events[e].attempts = MaxAttempts
      BY OutboxAssumption DEF OutboxAssumption, Exhausted, IInv, TypeOK, EventRow
    <3> QED
      BY <1>1, <2>1, <3>1, <3>2 DEF IInv, Accounted
  <2>3. CASE ~LeaseExpired(e, now)
    BY <1>1, <2>1, <2>3 DEF IInv, Accounted
  <2> QED
    BY <2>2, <2>3
<1> QED
  BY <1>3, <1>4 DEF IInv

LEMMA NextKeeps == IInv /\ [Next]_vars => IInv'
<1> SUFFICES ASSUME IInv, [Next]_vars PROVE IInv'
  OBVIOUS
<1>1. CASE Tick \/ UNCHANGED vars
  <2>1. UNCHANGED <<events, ticket, report, received, refused>> /\ clock' \in Nat
    BY <1>1 DEF Tick, vars, IInv, TypeOK
  <2>2. TypeOK'
    BY <2>1 DEF IInv, TypeOK
  <2> QED
    BY <2>1, <2>2, SameAccount DEF IInv, SameEvent
<1>2. ASSUME NEW w \in Workers, NEW e \in Events, Send(w, e) PROVE IInv'
  BY <1>2, SendKeeps
<1>3. ASSUME NEW now \in Sampled, RecoverExpired(now) PROVE IInv'
  BY <1>3, SweepKeeps
<1>4. ASSUME NEW now \in Sampled, NEW e \in Events, Enqueue(e, now) PROVE IInv'
  BY <1>4, EnqueueKeeps
<1>5. ASSUME NEW now \in Sampled, NEW w \in Workers, NEW e \in Events,
             Claim(w, e, now) \/ Renew(w, e, now) \/ Acknowledge(w, e, now) \/ Fail(w, e, now)
      PROVE IInv'
  BY <1>5, ClaimKeeps, RenewKeeps, AcknowledgeKeeps, FailKeeps
<1> QED
  BY <1>1, <1>2, <1>3, <1>4, <1>5 DEF Next

LEMMA Invariant == Spec => []IInv
BY InitInv, NextKeeps, PTL DEF Spec
-------------------------------------------------------------------------------
\* Rows, tickets and reports are well typed (outbox/repository.go).
THEOREM TypeCorrect == Spec => []TypeOK
<1>1. IInv => TypeOK
  BY DEF IInv
<1> QED
  BY <1>1, Invariant, PTL

\* The endpoint accepts an event at most once per claim, an event is delivered only
\* if it was accepted, and given up only for a permanent failure or when every
\* attempt is spent (outbox/service.go, recovery/service.go:147-190).
THEOREM PostsAreCovered == Spec => []DeliveriesAreAccounted
<1>1. ASSUME IInv, NEW e \in Events PROVE received[e] <= events[e].attempts
  <2>1. /\ Cardinality(Unsent(e)) \in Nat /\ received[e] \in Nat
        /\ events[e].attempts \in Nat
    BY <1>1, FS_CardinalityType, OutboxAssumption
       DEF OutboxAssumption, IInv, Accounted, TypeOK, EventRow
  <2> QED
    BY <1>1, <2>1 DEF IInv, Accounted
<1>2. IInv => DeliveriesAreAccounted
  BY <1>1 DEF IInv, Accounted, DeliveriesAreAccounted
<1> QED
  BY <1>2, Invariant, PTL

-------------------------------------------------------------------------------
(* What a step does to one event's row.                                      *)

\* It is left alone, or moved by one of the calls.
RowMoves(e) ==
  \/ events'[e] = events[e]
  \/ \E now \in Sampled :
       \/ Enqueue(e, now)
       \/ LeaseExpired(e, now) /\ events'[e] = Recovered(e, now)
       \/ \E w \in Workers : \/ Claim(w, e, now) \/ Renew(w, e, now)
                             \/ Acknowledge(w, e, now) \/ Fail(w, e, now)

LEMMA EveryStepMoves ==
  ASSUME TypeOK, [Next]_vars, NEW e \in Events
  PROVE  RowMoves(e)
<1>1. CASE UNCHANGED events
  BY <1>1 DEF RowMoves
<1>2. ASSUME NEW now \in Sampled, RecoverExpired(now) PROVE RowMoves(e)
  BY <1>2 DEF RecoverExpired, RowMoves
<1>3. ASSUME NEW now \in Sampled, NEW k \in Events, Enqueue(k, now) PROVE RowMoves(e)
  <2>1. k # e => events'[e] = events[e]
    BY <1>3 DEF Enqueue, TypeOK
  <2> QED
    BY <1>3, <2>1 DEF RowMoves
<1>4. ASSUME NEW now \in Sampled, NEW w \in Workers, NEW k \in Events,
             Claim(w, k, now) \/ Renew(w, k, now) \/ Acknowledge(w, k, now) \/ Fail(w, k, now)
      PROVE RowMoves(e)
  <2>1. k # e => events'[e] = events[e]
    <3>1. \A row : WriteEvent(k, row) /\ k # e => events'[e] = events[e]
      BY DEF WriteEvent, TypeOK
    <3> QED
      BY <1>4, <3>1 DEF Claim, Renew, Acknowledge, Fail
  <2> QED
    BY <1>4, <2>1 DEF RowMoves
<1>5. CASE Tick \/ UNCHANGED vars \/ \E w \in Workers, k \in Events : Send(w, k)
  BY <1>1, <1>5 DEF Tick, Send, vars
<1> QED
  BY <1>2, <1>3, <1>4, <1>5 DEF Next

\* What each of the calls leaves in the row.
LEMMA ClaimRow ==
  ASSUME IInv, NEW w \in Workers, NEW e \in Events, NEW now \in Sampled, Claim(w, e, now)
  PROVE  /\ events'[e].status = "delivering" /\ events'[e].attempts = events[e].attempts + 1
         /\ events[e].attempts < MaxAttempts
         /\ events[e].status = "pending" \/ LeaseExpired(e, now)
<1> DEFINE row == [events[e] EXCEPT !.status = "delivering", !.owner = w,
                                    !.token = events[e].attempts + 1,
                                    !.lease = now + LeaseTTL,
                                    !.attempts = events[e].attempts + 1]
<1>1. /\ events[e] \in EventRow /\ events[e].attempts + 1 \in 0..MaxAttempts
      /\ events[e].attempts + 1 \in Nat /\ now + LeaseTTL \in Nat
      /\ events[e].attempts < MaxAttempts
  BY SampledPast, OutboxAssumption
     DEF OutboxAssumption, IInv, TypeOK, EventRow, Claim, Exhausted
<1>2. row \in EventRow /\ row.status = "delivering" /\ row.attempts = events[e].attempts + 1
  BY <1>1 DEF EventRow
<1>3. WriteEvent(e, row)
  BY DEF Claim
<1> HIDE DEF row
<1> QED
  BY <1>1, <1>2, <1>3, WriteEffect DEF IInv, Claim, FirstDue, Due

LEMMA RenewRow ==
  ASSUME IInv, NEW w \in Workers, NEW e \in Events, NEW now \in Sampled, Renew(w, e, now)
  PROVE  /\ events'[e].status = "delivering" /\ events[e].status = "delivering"
         /\ events'[e].attempts = events[e].attempts /\ events'[e].token = events[e].token
<1> DEFINE row == [events[e] EXCEPT !.lease = now + LeaseTTL]
<1>a. now + LeaseTTL \in Nat /\ events[e] \in EventRow
  BY SampledPast, OutboxAssumption DEF OutboxAssumption, IInv, TypeOK
<1>1. /\ row \in EventRow /\ row.status = events[e].status
      /\ row.attempts = events[e].attempts /\ row.token = events[e].token
  BY <1>a DEF EventRow
<1>2. WriteEvent(e, row)
  BY DEF Renew
<1> HIDE DEF row
<1> QED
  BY <1>1, <1>2, WriteEffect DEF IInv, Renew, LeaseLive

LEMMA AcknowledgeRow ==
  ASSUME IInv, NEW w \in Workers, NEW e \in Events, NEW now \in Sampled, Acknowledge(w, e, now)
  PROVE  /\ events'[e].status = "delivered" /\ events[e].status = "delivering"
         /\ events'[e].attempts = events[e].attempts /\ events'[e].token = 0
<1> DEFINE row == Vacated(events[e], "delivered")
<1>1. /\ row \in EventRow /\ row.status = "delivered" /\ row.token = 0
      /\ row.attempts = events[e].attempts
  BY VacatedRow DEF IInv, TypeOK
<1>2. WriteEvent(e, row)
  BY DEF Acknowledge
<1> HIDE DEF row
<1> QED
  BY <1>1, <1>2, WriteEffect DEF IInv, Acknowledge, LeaseLive

LEMMA FailRow ==
  ASSUME IInv, NEW w \in Workers, NEW e \in Events, NEW now \in Sampled, Fail(w, e, now)
  PROVE  /\ events[e].status = "delivering"
         /\ events'[e].status = "dead" \/ (events'[e].status = "pending" /\ ~Exhausted(e))
         /\ events'[e].attempts = events[e].attempts /\ events'[e].token = 0
<1> DEFINE retry == report[w][e] # "permanent" /\ ~Exhausted(e)
           next  == IF retry THEN now + Backoff(events[e].attempts) ELSE now
           row0  == Vacated(events[e], IF retry THEN "pending" ELSE "dead")
           row   == [row0 EXCEPT !.next = next]
<1>1. events[e] \in EventRow /\ events[e].attempts \in Nat \ {0}
  BY OutboxAssumption DEF OutboxAssumption, IInv, TypeOK, EventRow, Accounted, Fail
<1>2. next \in Nat
  BY <1>1, SampledPast, BackoffIsNat DEF IInv
<1>3. /\ row0 \in EventRow /\ row0.status = (IF retry THEN "pending" ELSE "dead")
      /\ row0.attempts = events[e].attempts /\ row0.token = 0
  BY <1>1, VacatedRow
<1>4. WriteEvent(e, row) /\ events[e].status = "delivering"
  BY DEF Fail
<1> HIDE DEF row0, next
<1>5. /\ row \in EventRow /\ row.status = (IF retry THEN "pending" ELSE "dead")
      /\ row.attempts = events[e].attempts /\ row.token = 0
  BY <1>2, <1>3 DEF EventRow
<1> HIDE DEF row
<1> QED
  BY <1>4, <1>5, WriteEffect DEF IInv

LEMMA RecoveredRow ==
  ASSUME IInv, NEW e \in Events, NEW now \in Sampled
  PROVE  /\ Recovered(e, now).status = (IF Exhausted(e) THEN "dead" ELSE "pending")
         /\ Recovered(e, now).attempts = events[e].attempts
<1> DEFINE row == Vacated(events[e], IF Exhausted(e) THEN "dead" ELSE "pending")
<1>1. /\ row \in EventRow /\ row.status = (IF Exhausted(e) THEN "dead" ELSE "pending")
      /\ row.attempts = events[e].attempts
  BY VacatedRow DEF IInv, TypeOK
<1>2. Recovered(e, now) = [row EXCEPT !.next = now, !.version = row.version + 1]
  BY DEF Recovered
<1> HIDE DEF row
<1> QED
  BY <1>1, <1>2 DEF EventRow

-------------------------------------------------------------------------------
\* The order of texts errs by one tick.
LEMMA TextErrs ==
  ASSUME NEW s \in Nat, NEW t \in Nat, TextLess(s, t)
  PROVE  s <= t + 1
<1>1. TextRank(s) \in {s - 1, s + 1} /\ TextRank(t) \in {t - 1, t + 1}
  BY DEF TextRank
<1> QED
  BY <1>1 DEF TextLess

\* Anyone but the claimant finds the lease expired, and an acknowledgement is in time
\* but for the call's own delay and a tick (outbox/repository.go, outbox/service.go).
THEOREM ClaimsAreOwned == Spec => OwnedUntilExpiry
<1> DEFINE Owned(e) ==
      /\ \/ \E now \in Sampled : TextAtMost(events[e].lease, now)
         \/ /\ events'[e].token \in {events[e].token, 0}
            /\ ticket[events[e].owner][e] =
                 [token |-> events[e].token, version |-> events[e].version]
      /\ events'[e].status = "delivered"
         => clock <= events[e].lease + ClockLag + 1
<1>1. ASSUME IInv, [Next]_vars, NEW e \in Events,
             events[e].status = "delivering", events'[e] # events[e]
      PROVE  Owned(e)
  <2>1. RowMoves(e)
    BY <1>1, EveryStepMoves DEF IInv
  <2>2. \A now \in Sampled : ~Enqueue(e, now)
    BY <1>1 DEF Enqueue
  <2>3. ASSUME NEW w \in Workers, Holds(w, e)
        PROVE ticket[events[e].owner][e] =
                [token |-> events[e].token, version |-> events[e].version]
    BY <1>1, <2>3 DEF Holds, IInv, TypeOK, Ticket
  <2>4. ASSUME NEW now \in Sampled, LeaseExpired(e, now), events'[e] = Recovered(e, now)
        PROVE TextAtMost(events[e].lease, now) /\ events'[e].status # "delivered"
    BY <1>1, <2>4, RecoveredRow DEF LeaseExpired
  <2>5. ASSUME NEW now \in Sampled, NEW w \in Workers, Claim(w, e, now)
        PROVE TextAtMost(events[e].lease, now) /\ events'[e].status # "delivered"
    BY <1>1, <2>5, ClaimRow DEF LeaseExpired
  <2>6. ASSUME NEW now \in Sampled, NEW w \in Workers, Renew(w, e, now)
        PROVE /\ Holds(w, e) /\ events'[e].token = events[e].token
              /\ events'[e].status # "delivered"
    BY <1>1, <2>6, RenewRow DEF Renew
  <2>7. ASSUME NEW now \in Sampled, NEW w \in Workers, Fail(w, e, now)
        PROVE Holds(w, e) /\ events'[e].token = 0 /\ events'[e].status # "delivered"
    BY <1>1, <2>7, FailRow DEF Fail
  <2>8. ASSUME NEW now \in Sampled, NEW w \in Workers, Acknowledge(w, e, now)
        PROVE /\ Holds(w, e) /\ events'[e].token = 0
              /\ clock <= events[e].lease + ClockLag + 1
    <3>1. Holds(w, e) /\ events'[e].token = 0 /\ TextLess(now, events[e].lease)
      BY <1>1, <2>8, AcknowledgeRow DEF Acknowledge, LeaseLive
    <3>2. /\ now \in Nat /\ events[e].lease \in Nat /\ clock \in Nat /\ ClockLag \in Nat
          /\ clock <= now + ClockLag
      BY <1>1, SampledPast, OutboxAssumption
         DEF OutboxAssumption, IInv, TypeOK, EventRow
    <3>3. now <= events[e].lease + 1
      BY <3>1, <3>2, TextErrs
    <3> QED
      BY <3>1, <3>2, <3>3
  <2> QED
    BY <1>1, <2>1, <2>2, <2>3, <2>4, <2>5, <2>6, <2>7, <2>8 DEF RowMoves
<1>2. IInv /\ [Next]_vars =>
        [\A e \in Events :
           /\ events[e].status = "delivering"
           /\ events'[e] # events[e]
           => Owned(e)]_vars
  BY <1>1
<1> QED
  BY <1>2, Invariant, PTL DEF Spec, OwnedUntilExpiry

-------------------------------------------------------------------------------
LEMMA Phases ==
  /\ Phase("none") = "absent" /\ Phase("pending") = "waiting"
  /\ Phase("delivering") = "held" /\ Phase("delivered") = "done" /\ Phase("dead") = "dead"
BY DEF Phase

\* How the queue's task moves, said of the event it stands for.
TaskMoves(e) ==
  \/ events'[e].status = events[e].status /\ events'[e].attempts = events[e].attempts
  \/ /\ events[e].status = "none" /\ events'[e].status = "pending"
     /\ events'[e].attempts = events[e].attempts
  \/ /\ events[e].status \in {"pending", "delivering"} /\ events'[e].status = "delivering"
     /\ events[e].attempts < MaxAttempts /\ events'[e].attempts = events[e].attempts + 1
  \/ /\ events[e].status = "delivering" /\ events'[e].attempts = events[e].attempts
     /\ \/ events'[e].status = "pending" /\ ~Exhausted(e)
        \/ events'[e].status \in Ended

LEMMA StepIsTask ==
  ASSUME IInv, [Next]_vars, NEW e \in Events
  PROVE  TaskMoves(e)
<1>1. RowMoves(e)
  BY EveryStepMoves DEF IInv
<1>2. ASSUME NEW now \in Sampled, Enqueue(e, now) PROVE TaskMoves(e)
  <2>1. events[e].status = "none" /\ events[e].attempts = 0
    BY <1>2 DEF Enqueue, IInv, Accounted
  <2>2. events'[e] = [NoEvent EXCEPT !.status = "pending", !.next = now, !.created = now,
                                     !.version = 1]
    BY <1>2 DEF Enqueue, IInv, TypeOK
  <2> QED
    BY <2>1, <2>2 DEF NoEvent, TaskMoves
<1>3. ASSUME NEW now \in Sampled, LeaseExpired(e, now), events'[e] = Recovered(e, now)
      PROVE TaskMoves(e)
  BY <1>3, RecoveredRow DEF LeaseExpired, TaskMoves, Ended
<1>4. ASSUME NEW now \in Sampled, NEW w \in Workers, Claim(w, e, now) PROVE TaskMoves(e)
  BY <1>4, ClaimRow DEF LeaseExpired, TaskMoves
<1>5. ASSUME NEW now \in Sampled, NEW w \in Workers, Renew(w, e, now) PROVE TaskMoves(e)
  BY <1>5, RenewRow DEF TaskMoves
<1>6. ASSUME NEW now \in Sampled, NEW w \in Workers, Acknowledge(w, e, now) PROVE TaskMoves(e)
  BY <1>6, AcknowledgeRow DEF TaskMoves, Ended
<1>7. ASSUME NEW now \in Sampled, NEW w \in Workers, Fail(w, e, now) PROVE TaskMoves(e)
  BY <1>7, FailRow DEF TaskMoves, Ended
<1>8. CASE events'[e] = events[e]
  BY <1>8 DEF TaskMoves
<1> QED
  BY <1>1, <1>2, <1>3, <1>4, <1>5, <1>6, <1>7, <1>8 DEF RowMoves

\* The outbox is a queue of tasks: one holder at a time, a bounded number of claims,
\* and nothing after the end (outbox/service.go, recovery/service.go:147-190).
THEOREM OutboxIsAQueue == Spec => ImplementsQueue
<1>1. Init => Queue!Init
  BY Phases DEF Init, NoEvent, Queue!Init
<1>2. ASSUME IInv, [Next]_vars PROVE Queue!Next
  <2> SUFFICES ASSUME NEW e \in Events
               PROVE  \/ Queue!Add(e) \/ Queue!Grant(e) \/ Queue!Return(e)
                      \/ Queue!Finish(e) \/ Queue!GiveUp(e) \/ Queue!Keep(e)
    BY DEF Queue!Next
  <2>1. TaskMoves(e)
    BY <1>2, StepIsTask
  <2>2. events[e].attempts \in Nat /\ MaxAttempts \in Nat
    BY <1>2, OutboxAssumption DEF OutboxAssumption, IInv, TypeOK, EventRow
  <2> QED
    BY <2>1, <2>2, Phases
       DEF TaskMoves, Ended, Exhausted, Queue!Move, Queue!Add, Queue!Grant,
           Queue!Return, Queue!Finish, Queue!GiveUp, Queue!Keep
<1> QED
  BY <1>1, <1>2, Invariant, PTL DEF Spec, ImplementsQueue, Queue!Spec

===============================================================================

-------------------------------- MODULE Outbox --------------------------------
(***************************************************************************)
(* The transactional outbox: table outbox_events, the delivery workers     *)
(* that claim an event under a lease and post it to a webhook, and the     *)
(* recovery sweep.                                                         *)
(*                                                                         *)
(* A call is one step whose "now" was sampled at most ClockLag before it,  *)
(* as in Scheduler.  The loop that claims, sends and reports is not in the *)
(* repository: a worker here posts an event at most once per claim, and    *)
(* reports what the sender told it, at any time, or never (it may crash, or*)
(* lose the reply of a claim).                                             *)
(***************************************************************************)
EXTENDS Integers, Timestamps

CONSTANTS
  Workers,      \* delivery workers, each with an id of its own
  Nobody,       \* the empty owner column
  Events,       \* event ids, in the order SQLite sorts them
  MaxAttempts,  \* max_attempts of an event (the services write 5)
  LeaseTTL, RetryBase, ClockLag,  \* in ticks, as in Scheduler
  MaxClock,     \* bound: the last tick of a behaviour
  MaxVersion    \* bound: an event at this version is not renewed

ASSUME OutboxAssumption ==
  /\ Events \subseteq Nat
  /\ Nobody \notin Workers
  /\ MaxAttempts \in Nat \ {0}
  /\ LeaseTTL \in Nat \ {0}
  /\ RetryBase \in Nat
  /\ ClockLag \in Nat
  /\ MaxClock \in Nat
  /\ MaxVersion \in Nat

VARIABLES
  clock,     \* the wall clock, in half seconds
  events,    \* the outbox_events rows
  ticket,    \* per worker and event, the token and version it last received
  report,    \* per worker and event, what it has to report of its claim
  received,  \* per event, how often the endpoint has accepted it
  refused    \* per event, whether the sender called a failure permanent

vars == <<clock, events, ticket, report, received, refused>>

-------------------------------------------------------------------------------
Ended == {"delivered", "dead"}

\* A claim's random token is named by its attempt number; 0 is the empty column.
EventRow ==
  [status   : {"none", "pending", "delivering"} \cup Ended,
   owner    : Workers \cup {Nobody},
   token    : Nat,
   lease    : Nat,
   attempts : 0..MaxAttempts,
   next     : Nat,
   created  : Nat,
   version  : Nat]

NoEvent == [status |-> "none", owner |-> Nobody, token |-> 0, lease |-> 0,
            attempts |-> 0, next |-> 0, created |-> 0, version |-> 0]

\* "none": nothing is claimed; "unsent": claimed; then the sender's answer.
Reports == {"none", "unsent", "ok", "temporary", "permanent"}

Ticket == [token : Nat, version : Nat]

TypeOK ==
  /\ clock \in Nat
  /\ events \in [Events -> EventRow]
  /\ ticket \in [Workers -> [Events -> Ticket]]
  /\ report \in [Workers -> [Events -> Reports]]
  /\ received \in [Events -> Nat]
  /\ refused \in [Events -> BOOLEAN]

Init ==
  /\ clock = 0
  /\ events = [e \in Events |-> NoEvent]
  /\ ticket = [w \in Workers |-> [e \in Events |-> [token |-> 0, version |-> 0]]]
  /\ report = [w \in Workers |-> [e \in Events |-> "none"]]
  /\ received = [e \in Events |-> 0]
  /\ refused = [e \in Events |-> FALSE]

-------------------------------------------------------------------------------
Sampled == {t \in 0..clock : clock <= t + ClockLag}

Doubling == <<1, 2, 4, 8, 16, 32, 64, 128, 256>>
Backoff(attempt) == RetryBase * Doubling[IF attempt < 9 THEN attempt ELSE 9]

LeaseExpired_statusOnly(e, now) == events[e].status = "delivering"
LeaseExpired(e, now) ==
  events[e].status = "delivering" /\ TextAtMost(events[e].lease, now)

LeaseLive(e, now) ==
  events[e].status = "delivering" /\ TextLess(now, events[e].lease)

Exhausted_early(e) == events[e].attempts + 1 >= MaxAttempts
Exhausted_late(e)  == events[e].attempts > MaxAttempts
Exhausted(e) == events[e].attempts >= MaxAttempts

\* ListDue's WHERE clause, and its ORDER BY with limit 1.
Due_anyDelivering(e, now) ==
  TextAtMost(events[e].next, now) /\ events[e].status \in {"pending", "delivering"}
Due(e, now) ==
  /\ TextAtMost(events[e].next, now)
  /\ events[e].status = "pending" \/ LeaseExpired(e, now)

Earlier(e, f) ==
  LET next(i)    == TextRank(events[i].next)
      created(i) == TextRank(events[i].created)
  IN  \/ next(e) < next(f)
      \/ next(e) = next(f) /\ created(e) < created(f)
      \/ next(e) = next(f) /\ created(e) = created(f) /\ e < f

FirstDue(e, now) == Due(e, now) /\ \A f \in Events \ {e} : Due(f, now) => Earlier(e, f)

Holds_ownerOnly(w, e) == events[e].owner = w
Holds(w, e) ==
  /\ events[e].owner = w
  /\ events[e].token = ticket[w][e].token
  /\ events[e].version = ticket[w][e].version

WriteEvent(e, row) == events' = [events EXCEPT ![e] = [row EXCEPT !.version = @ + 1]]

Vacated(row, status) ==
  [row EXCEPT !.status = status, !.owner = Nobody, !.token = 0, !.lease = 0]

Receive(w, e) ==
  ticket' = [ticket EXCEPT ![w][e] = [token |-> events'[e].token, version |-> events'[e].version]]

-------------------------------------------------------------------------------
\* A business transaction commits with its event (appendEffects of every service).
Enqueue(e, now) ==
  /\ events[e].status = "none"
  /\ events' = [events EXCEPT ![e] =
                  [NoEvent EXCEPT !.status = "pending", !.next = now,
                                  !.created = now, !.version = 1]]
  /\ UNCHANGED <<clock, ticket, report, received, refused>>

\* With the reply the worker has a claim to send and report; when the reply is
\* lost it goes on with whatever it had.
Claim(w, e, now) ==
  /\ FirstDue(e, now)
  /\ ~Exhausted(e)
  /\ WriteEvent(e, [events[e] EXCEPT !.status   = "delivering",
                                     !.owner    = w,
                                     !.token    = events[e].attempts + 1,
                                     !.lease    = now + LeaseTTL,
                                     !.attempts = @ + 1])
  /\ \/ Receive(w, e) /\ report' = [report EXCEPT ![w][e] = "unsent"]
     \/ UNCHANGED <<ticket, report>>
  /\ UNCHANGED <<clock, received, refused>>

Renew(w, e, now) ==
  /\ Holds(w, e)
  /\ LeaseLive(e, now)
  /\ events[e].version < MaxVersion
  /\ WriteEvent(e, [events[e] EXCEPT !.lease = now + LeaseTTL])
  /\ Receive(w, e) \/ ticket' = ticket
  /\ UNCHANGED <<clock, report, received, refused>>

\* Sender.Send.  The endpoint may accept the post and its answer still be an
\* error: a lost connection, a body that cannot be read or is too long.
Send(w, e) ==
  /\ report[w][e] = "unsent"
  /\ \/ /\ received' = [received EXCEPT ![e] = @ + 1]
        /\ report' \in {[report EXCEPT ![w][e] = a] : a \in {"ok", "temporary"}}
     \/ /\ received' = received
        /\ report' \in {[report EXCEPT ![w][e] = a] : a \in {"temporary", "permanent"}}
  /\ UNCHANGED <<clock, events, ticket, refused>>

Acknowledge(w, e, now) ==
  /\ report[w][e] = "ok"
  /\ Holds(w, e)
  /\ LeaseLive(e, now)
  /\ WriteEvent(e, Vacated(events[e], "delivered"))
  /\ report' = [report EXCEPT ![w][e] = "none"]
  /\ UNCHANGED <<clock, ticket, received, refused>>

\* The UPDATE of Fail does not look at lease_expires_at.
Fail(w, e, now) ==
  LET permanent == report[w][e] = "permanent"
      retry     == ~permanent /\ ~Exhausted(e)
      next      == IF retry THEN now + Backoff(events[e].attempts) ELSE now
  IN  /\ report[w][e] \in {"temporary", "permanent"}
      /\ Holds(w, e)
      /\ events[e].status = "delivering"
      /\ WriteEvent(e, [Vacated(events[e], IF retry THEN "pending" ELSE "dead")
                          EXCEPT !.next = next])
      /\ refused' = [refused EXCEPT ![e] = @ \/ permanent]
      /\ report' = [report EXCEPT ![w][e] = "none"]
      /\ UNCHANGED <<clock, ticket, received>>

\* recovery.recoverOutboxEvents: one UPDATE over every expired delivery.
Recovered_forgetsAttempts(e, now) ==
  [Vacated(events[e], "pending") EXCEPT !.next = now, !.attempts = 0, !.version = @ + 1]
Recovered(e, now) ==
  [Vacated(events[e], IF Exhausted(e) THEN "dead" ELSE "pending")
     EXCEPT !.next = now, !.version = @ + 1]

RecoverExpired(now) ==
  /\ \E e \in Events : LeaseExpired(e, now)
  /\ events' = [e \in Events |-> IF LeaseExpired(e, now) THEN Recovered(e, now) ELSE events[e]]
  /\ UNCHANGED <<clock, ticket, report, received, refused>>

Tick ==
  /\ clock < MaxClock
  /\ clock' = clock + 1
  /\ UNCHANGED <<events, ticket, report, received, refused>>

Next ==
  \/ Tick
  \/ \E w \in Workers, e \in Events : Send(w, e)
  \/ \E now \in Sampled :
       \/ RecoverExpired(now)
       \/ \E e \in Events : Enqueue(e, now)
       \/ \E w \in Workers, e \in Events :
            \/ Claim(w, e, now)
            \/ Renew(w, e, now)
            \/ Acknowledge(w, e, now)
            \/ Fail(w, e, now)

Spec == Init /\ [][Next]_vars

-------------------------------------------------------------------------------
(* What the outbox promises.                                                 *)

\* The endpoint accepts an event at most once per claim, and only after it was
\* enqueued: a duplicate needs a second claim, and claims are bounded however
\* often leases expire, replies are lost and the sweep returns the event.  An event
\* is delivered only if the endpoint accepted it, and given up only if the sender
\* called a failure permanent or every attempt was spent.
DeliveriesAreAccounted ==
  \A e \in Events :
    /\ received[e] <= events[e].attempts
    /\ events[e].status = "delivered" => received[e] > 0
    /\ events[e].status = "dead" => refused[e] \/ events[e].attempts = MaxAttempts

\* A delivery leaves its claimant early only by the claimant's own report: anyone
\* else finds the lease expired, by the texts, at an instant that was sampled.  And
\* an acknowledgement commits at most the call's own delay and one tick after the
\* end of the lease (a failure may be reported at any time).
OwnedUntilExpiry ==
  [][\A e \in Events :
       /\ events[e].status = "delivering"
       /\ events'[e] # events[e]
       => /\ \/ \E now \in Sampled : TextAtMost(events[e].lease, now)
             \/ /\ events'[e].token \in {events[e].token, 0}
                /\ ticket[events[e].owner][e] =
                     [token |-> events[e].token, version |-> events[e].version]
          /\ events'[e].status = "delivered"
             => clock <= events[e].lease + ClockLag + 1]_vars

Phase(status) ==
  CASE status = "none"       -> "absent"
    [] status = "pending"    -> "waiting"
    [] status = "delivering" -> "held"
    [] status = "delivered"  -> "done"
    [] status = "dead"       -> "dead"

Queue == INSTANCE WorkQueue WITH
  Tasks  <- Events,
  Budget <- MaxAttempts,
  phase  <- [e \in Events |-> Phase(events[e].status)],
  grants <- [e \in Events |-> events[e].attempts]

\* The outbox is a task queue too: one delivery at a time, a bounded number of
\* claims, and nothing after the end.
ImplementsQueue == Queue!Spec

===============================================================================

-------------------------------- MODULE Metering --------------------------------
(***************************************************************************)
(* A metering batch: one usage_batches row with its usage_items, claimed   *)
(* by reviewers under a lease, recorded item by item, submitted, and       *)
(* reviewed by a data steward.  Batches share nothing but the recovery     *)
(* sweep, which treats each alike.                                         *)
(*                                                                         *)
(* Claim, Record and Submit compare the lease in Go, as instants; Claim,   *)
(* Renew, Submit and the sweep compare it in SQL, as texts (Timestamps).   *)
(* Record presents a lease token and an item's version; only Renew also    *)
(* presents the batch's version.  Calls and clients are as in Scheduler: a *)
(* call's "now" may be ClockLag old, its reply may be lost, and a client   *)
(* presents only tokens that its own claims were answered.                 *)
(***************************************************************************)
EXTENDS Integers, Timestamps

CONSTANTS
  Clients,      \* HTTP clients that call as reviewers
  Account,      \* the user each client authenticates as
  Nobody,       \* the empty owner column
  Items,        \* the batch's usage_items, one per segment of its streams
  LeaseTTL, ClockLag,   \* in ticks
  MaxClock,     \* bound: the last tick of a behaviour
  MaxClaims,    \* bound: claims of the batch
  MaxReworks,   \* bound: reviews that ask for rework
  MaxVersion    \* bound: a batch at this version is not renewed

Accounts == {Account[w] : w \in Clients}

ASSUME MeteringAssumption ==
  /\ Account \in [Clients -> Accounts]
  /\ Nobody \notin Accounts
  /\ Items # {}
  /\ LeaseTTL \in Nat \ {0}
  /\ {ClockLag, MaxClock, MaxClaims, MaxReworks, MaxVersion} \subseteq Nat

VARIABLES
  clock,   \* the wall clock, in half seconds
  batch,   \* the usage_batches row, and how often it was claimed and reworked
  items,   \* the usage_items rows
  ticket,  \* per client, the token and version it last received
  known    \* per client, the items whose current version it has been told

vars == <<clock, batch, items, ticket, known>>

-------------------------------------------------------------------------------
\* A claim's random token is named by the number of claims; 0 is the empty column.
BatchRow ==
  [status  : {"none", "open", "claimed", "submitted", "accepted", "rework"},
   owner   : Accounts \cup {Nobody},
   token   : Nat,
   lease   : Nat,          \* lease_expires_at; 0 stands for NULL
   version : Nat,
   claims  : 0..MaxClaims,
   reworks : 0..MaxReworks]

\* An item's version is kept as knowledge of it, in known.  Beside complete, an
\* item remembers the token it was last recorded with, and in which round.
ItemRow == [complete : BOOLEAN, token : 0..MaxClaims, round : 0..MaxReworks]

\* The columns have their types, and those of the lease are set while claimed only.
TypeOK ==
  /\ clock \in Nat
  /\ batch \in BatchRow
  /\ batch.status = "claimed" <=> batch.token # 0
  /\ batch.status = "claimed" <=> batch.owner # Nobody
  /\ items \in [Items -> ItemRow]
  /\ ticket \in [Clients -> [token : Nat, version : Nat]]
  /\ known \in [Clients -> SUBSET Items]

Init ==
  /\ clock = 0
  /\ batch = [status |-> "none", owner |-> Nobody, token |-> 0, lease |-> 0,
              version |-> 0, claims |-> 0, reworks |-> 0]
  /\ items = [i \in Items |-> [complete |-> FALSE, token |-> 0, round |-> 0]]
  /\ ticket = [w \in Clients |-> [token |-> 0, version |-> 0]]
  /\ known = [w \in Clients |-> {}]

-------------------------------------------------------------------------------
Sampled == {t \in 0..clock : clock <= t + ClockLag}

\* lease_expires_at <= now in SQL, and !now.Before(lease) in Go.
TextExpired(now) == batch.status = "claimed" /\ TextAtMost(batch.lease, now)
Expired(now)     == batch.status = "claimed" /\ batch.lease <= now

\* Claim asks both of a claimed batch.
Claimable_textOnly(now) == batch.status \in {"open", "rework"} \/ TextExpired(now)
Claimable(now) ==
  \/ batch.status \in {"open", "rework"}
  \/ Expired(now) /\ TextExpired(now)

\* "active claim is required", of Record and Submit.
ActiveClaim_ownerOnly(w, now) ==
  batch.status = "claimed" /\ batch.owner = Account[w] /\ now < batch.lease
ActiveClaim(w, now) ==
  /\ batch.status = "claimed"
  /\ batch.owner = Account[w]
  /\ batch.token = ticket[w].token
  /\ now < batch.lease

Complete_some == \E i \in Items : items[i].complete
Complete == \A i \in Items : items[i].complete

WriteBatch(row) == batch' = [row EXCEPT !.version = @ + 1]

Vacated_keepsToken(status) ==
  [batch EXCEPT !.status = status, !.owner = Nobody, !.lease = 0]
Vacated(status) ==
  [batch EXCEPT !.status = status, !.owner = Nobody, !.token = 0, !.lease = 0]

\* The reply of Claim and Renew reaches the client, or is lost after the commit.
Receive(w) == ticket' = [ticket EXCEPT ![w] = [token   |-> batch'.token,
                                               version |-> batch'.version]]

-------------------------------------------------------------------------------
Create ==
  /\ batch.status = "none"
  /\ batch' = [batch EXCEPT !.status = "open", !.version = 1]
  /\ UNCHANGED <<clock, items, ticket, known>>

Claim(w, now) ==
  /\ Claimable(now)
  /\ batch.claims < MaxClaims
  /\ WriteBatch([batch EXCEPT !.status = "claimed",
                              !.owner  = Account[w],
                              !.token  = batch.claims + 1,
                              !.lease  = now + LeaseTTL,
                              !.claims = @ + 1])
  /\ \/ Receive(w) /\ known' = [known EXCEPT ![w] = Items]
     \/ UNCHANGED <<ticket, known>>
  /\ UNCHANGED <<clock, items>>

Renew(w, now) ==
  /\ batch.status = "claimed"
  /\ batch.owner = Account[w]
  /\ batch.token = ticket[w].token
  /\ batch.version = ticket[w].version
  /\ TextLess(now, batch.lease)
  /\ batch.version < MaxVersion
  /\ WriteBatch([batch EXCEPT !.lease = now + LeaseTTL])
  /\ Receive(w) \/ ticket' = ticket
  /\ UNCHANGED <<clock, items, known>>

\* An item may be recorded again; nobody else then knows its version, nor does
\* the client itself when the reply is lost.
Record(w, i, now) ==
  /\ ActiveClaim(w, now)
  /\ i \in known[w]
  /\ items' = [items EXCEPT ![i] = [complete |-> TRUE,
                                    token    |-> ticket[w].token,
                                    round    |-> batch.reworks]]
  /\ \E told \in SUBSET {w} :
       known' = [v \in Clients |-> IF v \in told THEN known[v] ELSE known[v] \ {i}]
  /\ UNCHANGED <<clock, batch, ticket>>

Submit(w, now) ==
  /\ ActiveClaim(w, now)
  /\ Complete
  /\ TextLess(now, batch.lease)
  /\ WriteBatch(Vacated("submitted"))
  /\ UNCHANGED <<clock, items, ticket, known>>

Accept ==
  /\ batch.status = "submitted"
  /\ WriteBatch([batch EXCEPT !.status = "accepted"])
  /\ UNCHANGED <<clock, items, ticket, known>>

\* Review without acceptance: every item is to be recorded anew.
Reset_keepsItems == items
Reset == [i \in Items |-> [items[i] EXCEPT !.complete = FALSE]]

Rework ==
  /\ batch.status = "submitted"
  /\ batch.reworks < MaxReworks
  /\ WriteBatch([batch EXCEPT !.status = "rework", !.reworks = @ + 1])
  /\ items' = Reset
  /\ known' = [w \in Clients |-> {}]
  /\ UNCHANGED <<clock, ticket>>

\* recovery.reopenMeteringBatches, for this row.
RecoverExpired(now) ==
  /\ TextExpired(now)
  /\ WriteBatch(Vacated("open"))
  /\ UNCHANGED <<clock, items, ticket, known>>

\* Get tells the items' versions.
Get(w) ==
  /\ batch.status # "none"
  /\ known' = [known EXCEPT ![w] = Items]
  /\ UNCHANGED <<clock, batch, items, ticket>>

Tick ==
  /\ clock < MaxClock
  /\ clock' = clock + 1
  /\ UNCHANGED <<batch, items, ticket, known>>

Next ==
  \/ Tick
  \/ Create
  \/ Accept
  \/ Rework
  \/ \E w \in Clients : Get(w)
  \/ \E now \in Sampled :
       \/ RecoverExpired(now)
       \/ \E w \in Clients :
            \/ Claim(w, now)
            \/ Renew(w, now)
            \/ Submit(w, now)
            \/ \E i \in Items : Record(w, i, now)

Spec == Init /\ [][Next]_vars

-------------------------------------------------------------------------------
(* What metering promises.                                                   *)

\* What a steward reviews, and what is accepted, was recorded item by item
\* since the last rework, whoever held the claim when it was.
ReviewedWorkIsFresh ==
  batch.status \in {"submitted", "accepted"} =>
    \A i \in Items : items[i].complete /\ items[i].round = batch.reworks

\* An item changes only under the claim that is current at that moment: a
\* client that lost its claim records nothing, even when the new claim is its
\* own account's.
RecordedUnderClaim ==
  [][\A i \in Items :
       items'[i].complete /\ items'[i] # items[i]
       => batch.status = "claimed" /\ items'[i].token = batch.token]_vars

\* Leases are those of the clock.  A claim taken over directly had really expired
\* (contrast NoEarlyTakeover of Scheduler: Claim compares instants here as well as
\* texts), and work is recorded and submitted within the call's own delay of the
\* end of the lease, never because a text sorted late.
LeasesHoldByTheClock ==
  [][batch.status = "claimed" =>
       /\ batch'.claims > batch.claims => batch.lease <= clock
       /\ \/ batch'.status = "submitted"
          \/ \E i \in Items : items'[i].complete /\ items'[i] # items[i]
          => clock < batch.lease + ClockLag]_vars

Cycle == INSTANCE ReviewCycle WITH
  Parts <- Items,
  stage <- CASE batch.status = "none" -> "absent"
             [] batch.status \in {"open", "claimed", "rework"} -> "work"
             [] batch.status = "submitted" -> "review"
             [] batch.status = "accepted" -> "accepted",
  done  <- {i \in Items : items[i].complete}

\* Metering implements the review cycle: leases, takeovers and the sweep move
\* a batch between hands but never touch what was recorded.
ImplementsReviewCycle == Cycle!Spec

===============================================================================

-------------------------------- MODULE Credit --------------------------------
(***************************************************************************)
(* A tenant's credit account in one currency and its immutable entries:    *)
(* tables credit_accounts and credit_entries.  A call is given by what it  *)
(* does to the state that its transaction reads; Storage interleaves calls *)
(* and Database puts them together.                                        *)
(*                                                                         *)
(* Amounts are int64 columns.  SQLite turns a sum that does not fit into a *)
(* REAL, which database/sql cannot scan into an int64 any more.            *)
(***************************************************************************)
EXTENDS Integers, FiniteSets

CONSTANTS
  Keys,       \* idempotency keys
  Deposited, Reserved,  \* the amounts of a deposit and of a hold
  MaxInt64    \* 2^63 - 1 in the code

ASSUME CreditAssumption == MaxInt64 \in Nat /\ Deposited \cup Reserved \subseteq 1..MaxInt64

-------------------------------------------------------------------------------
Overflow == -1    \* any REAL balance

CreditCalls ==
  [op : {"open"}] \cup [op : {"deposit"}, key : Keys, amount : Deposited]
                  \cup [op : {"hold"}, key : Keys, amount : Reserved]

\* Of a state s these calls touch the account's version (0 without an account),
\* balance and held, its entries, and the number of audit rows.
Fails(s)      == [ok |-> FALSE, db |-> s]
Succeeds(s)   == [ok |-> TRUE, db |-> s]

\* lockAccount, which reads the row, finds it and can scan it.
Readable(s) == s.version > 0 /\ s.balance # Overflow

EntriesOf(s, k) == {e \in s.entries : e.key = k.key}

\* The entry and the audit row come with every change of the account.
Booked(k, s) ==
  [s EXCEPT !.version = @ + 1,
            !.entries = @ \cup {[key |-> k.key, kind |-> k.op, amount |-> k.amount]},
            !.audits = @ + 1]

Sum64(a, b) == IF a + b > MaxInt64 THEN Overflow ELSE a + b

\* OpenCreditAccount: a tenant, which must exist, has one account in a currency.
OpenAccount(s) ==
  IF s.tenant /\ s.version = 0
    THEN Succeeds([s EXCEPT !.version = 1, !.audits = @ + 1])
    ELSE Fails(s)

\* Deposit: any entry of the key, of whatever kind and amount, makes it a replay.
Deposit(k, s) ==
  IF ~Readable(s) THEN Fails(s)
  ELSE IF EntriesOf(s, k) # {} THEN Succeeds(s)
  ELSE Succeeds([Booked(k, s) EXCEPT !.balance = Sum64(@, k.amount)])

\* Reserve: the test in Go, and again in the UPDATE, whose row count is not asked.
Available_balanceOnly(k, s) == s.balance >= k.amount
Available(k, s) == s.balance - s.held >= k.amount

Reserve(k, s) ==
  IF ~Readable(s) \/ \E e \in EntriesOf(s, k) : e.kind # "hold" THEN Fails(s)
  ELSE IF EntriesOf(s, k) # {} THEN Succeeds(s)
  ELSE IF ~Available(k, s) THEN Fails(s)
  ELSE Succeeds([Booked(k, s) EXCEPT !.held = @ + k.amount])

===============================================================================

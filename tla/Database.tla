------------------------------- MODULE Database -------------------------------
(***************************************************************************)
(* Calls of two services on one database: Storage, with the calls on a     *)
(* credit account and on users and sessions for what it leaves open.  They *)
(* share no row, yet they contend: SQLite locks the database and not the   *)
(* rows.                                                                   *)
(***************************************************************************)
EXTENDS Storage, Credit, Sessions, FiniteSetsExt

\* What Migrate leaves of the rows these calls touch.
EmptyTables == [tenant |-> FALSE, member |-> FALSE, session |-> "none",
                version |-> 0, balance |-> 0, held |-> 0, entries |-> {}, audits |-> 0]

ServiceCalls == CreditCalls \cup SessionCalls

ServiceOutcome(k, s) ==
  CASE k.op = "open"       -> OpenAccount(s)
    [] k.op = "deposit"    -> Deposit(k, s)
    [] k.op = "hold"       -> Reserve(k, s)
    [] k.op = "bootstrap"  -> Bootstrap(s)
    [] k.op = "createuser" -> CreateUser(s)
    [] k.op = "login"      -> Login(s)
    [] k.op = "logout"     -> Logout(s)

\* Those that make a row of their own insert first; the others read first.
InsertsFirst(k) == k.op \in {"bootstrap", "createuser", "open", "login"}

-------------------------------------------------------------------------------
(* What holds whatever calls are made at once, retried, or broken off.       *)

Total(kind) == MapThenSumSet(LAMBDA e : e.amount, {e \in db.entries : e.kind = kind})

\* The account's row is the sum of its entries, one entry to a key and one version
\* to an entry; no more is held than was deposited, however many reservations of
\* the same credits were in flight.  A balance overflows by one deposit, before which
\* it covered what is held, and nothing is deposited to it or held against it after.
BalancesTellEntries ==
  /\ db.version > 0 => db.version = 1 + Cardinality(db.entries)
  /\ \A e, f \in db.entries : e.key = f.key => e = f
  /\ db.held = Total("hold")
  /\ db.held <= Total("deposit")
  /\ \/ db.balance = Total("deposit") /\ db.balance <= MaxInt64
     \/ /\ db.balance = Overflow /\ Total("deposit") > MaxInt64
        /\ \E e \in db.entries : /\ e.kind = "deposit"
                               /\ Total("deposit") - e.amount \in db.held..MaxInt64

\* There is one audit row of the tenant for each change of a row of its, and none for what was
\* refused, rolled back, or found done by a replay or a second logout.
AuditsTellChanges ==
  db.audits = Cardinality({x \in {"tenant", "member"} : db[x]}) + db.version
                + (CASE db.session = "none"    -> 0
                     [] db.session = "live"    -> 1
                     [] db.session = "revoked" -> 2)

\* What a caller was told is there: a hold under its key, and under the key of a
\* deposit something (a replay under another's key is answered, and deposits
\* nothing; see Deposit), and a session that was logged out stays so.
AnswersStand ==
  \A k \in answered :
    CASE k.op = "open"    -> db.version > 0
      [] k.op = "deposit" -> EntriesOf(db, k) # {}
      [] k.op = "hold"    -> \E e \in EntriesOf(db, k) : e.kind = "hold"
      [] k.op = "bootstrap"  -> db.tenant
      [] k.op = "createuser" -> db.member
      [] k.op = "login"   -> db.session # "none"
      [] k.op = "logout"  -> db.session = "revoked"

===============================================================================

------------------------------- MODULE Sessions -------------------------------
(***************************************************************************)
(* A tenant, its users and one session: the rows of tenants, users and     *)
(* auth_sessions as the calls that write them find them in the state their *)
(* transaction reads.  Of a state s these calls touch whether the tenant   *)
(* is there with its administrator, whether the member is, and the session *)
(* of the administrator, "none", "live" or "revoked".                      *)
(***************************************************************************)
EXTENDS Naturals

-------------------------------------------------------------------------------
SessionCalls == [op : {"bootstrap", "createuser", "login", "logout"}]

\* Every change of one of these rows appends an audit row, and then commits.
Audited(s) == [ok |-> TRUE, db |-> [s EXCEPT !.audits = @ + 1]]
Rejected(s)  == [ok |-> FALSE, db |-> s]

\* Bootstrap: names of tenants need not differ, so one that is sent again, its
\* reply lost, makes another tenant; rows of other tenants are not followed.
Bootstrap(s) ==
  IF s.tenant THEN [ok |-> TRUE, db |-> s] ELSE Audited([s EXCEPT !.tenant = TRUE])

\* CreateUser, by the administrator: the session was good when the request was
\* authenticated, before and outside of the transaction, which asks no more of it
\* than UNIQUE (tenant_id, email).
CreateUser(s) ==
  IF s.session # "none" /\ ~s.member THEN Audited([s EXCEPT !.member = TRUE]) ELSE Rejected(s)

\* Login checks the password against the committed user first, outside of its
\* transaction; no call of the program changes or deactivates a user.
Login(s) ==
  IF s.tenant /\ s.session = "none"
    THEN Audited([s EXCEPT !.session = "live"])
    ELSE Rejected(s)

\* Logout: of a session that is revoked there is nothing left to do.
Revocable_ever(s) == s.session # "none"
Revocable(s) == s.session = "live"

Logout(s) ==
  CASE Revocable(s)         -> Audited([s EXCEPT !.session = "revoked"])
    [] s.session = "none"   -> Rejected(s)
    [] OTHER                -> [ok |-> TRUE, db |-> s]

===============================================================================

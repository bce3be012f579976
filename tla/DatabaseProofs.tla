---------------------------- MODULE DatabaseProofs ----------------------------
(***************************************************************************)
(* Theorems of Storage, for any calls with any outcomes: the assumption    *)
(* under which every other module takes a service call for one step.  Then *)
(* theorems of Database, for the calls of the services, any keys, amounts, *)
(* width of the amounts, and number of callers.                            *)
(***************************************************************************)
EXTENDS Database, FiniteSetTheorems, WellFoundedInduction, TLAPS

\* Snapshots are states of the database, of which nothing is assumed.
Types ==
  /\ lock \in Callers \cup {Nobody}
  /\ phase \in [Callers -> {"none", "read", "write"}]
  /\ call \in [Callers -> Calls \cup {NoCall}]
  /\ \A c \in Callers : phase[c] # "none" => call[c] \in Calls
  /\ seen = [c \in Callers |-> seen[c]]
  /\ stale \in [Callers -> BOOLEAN]

\* A transaction that has only read reads the newest state until told otherwise.
ReaderIsCurrent ==
  \A c \in Callers : phase[c] = "read" /\ ~stale[c] => seen[c] = db

IInv == Types /\ WriterIsCurrent /\ ReaderIsCurrent

-------------------------------------------------------------------------------
(* What the steps do, in the terms of the invariant.                         *)

\* A transaction that ends leaves nothing behind, and no other transaction.
LEMMA EndEffect ==
  ASSUME IInv, NEW gone \in SUBSET Callers, End(gone)
  PROVE  /\ lock' \in Callers \cup {Nobody}
         /\ phase' \in [Callers -> {"none", "read", "write"}]
         /\ call' \in [Callers -> Calls \cup {NoCall}]
         /\ seen' = [c \in Callers |-> seen'[c]]
         /\ \A c \in Callers : phase'[c] = "write" <=> lock' = c
         /\ \A c \in Callers : phase'[c] # "none" =>
              /\ c \notin gone
              /\ phase'[c] = phase[c] /\ call'[c] = call[c] /\ seen'[c] = seen[c]
<1>1. /\ phase' = [c \in Callers |-> IF c \in gone THEN "none" ELSE phase[c]]
      /\ call' = [c \in Callers |-> IF c \in gone THEN NoCall ELSE call[c]]
      /\ seen' = [c \in Callers |-> IF c \in gone THEN EmptyDatabase ELSE seen[c]]
      /\ lock' = IF lock \in gone THEN Nobody ELSE lock
  BY DEF End
<1>2. \A c \in Callers : phase'[c] = "write" <=> lock' = c
  BY <1>1, StorageAssumption DEF IInv, Types, WriterIsCurrent, StorageAssumption
<1> QED
  BY <1>1, <1>2 DEF IInv, Types

LEMMA InitInv == Init => IInv
BY StorageAssumption
   DEF Init, IInv, Types, WriterIsCurrent, ReaderIsCurrent, StorageAssumption

\* A first statement, whichever it is: the snapshot is the newest state.
LEMMA OpenKeeps ==
  ASSUME IInv, NEW c \in Callers, NEW k \in Calls, FirstRead(c, k) \/ FirstWrite(c, k)
  PROVE  IInv'
<1>1. CASE FirstRead(c, k)
  <2>1. Types'
    BY <1>1 DEF FirstRead, Open, IInv, Types
  <2>2. WriterIsCurrent'
    BY <1>1, StorageAssumption
       DEF FirstRead, Open, IInv, Types, WriterIsCurrent, StorageAssumption
  <2>3. ReaderIsCurrent'
    BY <1>1 DEF FirstRead, Open, IInv, Types, ReaderIsCurrent
  <2> QED
    BY <2>1, <2>2, <2>3 DEF IInv
<1>2. CASE FirstWrite(c, k)
  <2>1. Types'
    BY <1>2 DEF FirstWrite, Open, IInv, Types
  <2>2. WriterIsCurrent'
    BY <1>2, StorageAssumption
       DEF FirstWrite, Open, IInv, Types, WriterIsCurrent, StorageAssumption
  <2>3. ReaderIsCurrent'
    BY <1>2 DEF FirstWrite, Open, IInv, Types, ReaderIsCurrent
  <2> QED
    BY <2>1, <2>2, <2>3 DEF IInv
<1> QED
  BY <1>1, <1>2

\* The lock goes to a reader that is current, so the writer is.
LEMMA UpgradeKeeps ==
  ASSUME IInv, NEW c \in Callers, Upgrade(c)
  PROVE  IInv'
<1>1. Types'
  BY DEF Upgrade, IInv, Types
<1>2. WriterIsCurrent'
  BY StorageAssumption
     DEF Upgrade, MayWrite, IInv, Types, WriterIsCurrent, ReaderIsCurrent, StorageAssumption
<1>3. ReaderIsCurrent'
  BY DEF Upgrade, IInv, Types, ReaderIsCurrent
<1> QED
  BY <1>1, <1>2, <1>3 DEF IInv

\* A commit makes all readers stale, and there is no other writer.
LEMMA CommitWriteKeeps ==
  ASSUME IInv, NEW c \in Callers, CommitWrite(c)
  PROVE  IInv'
<1>1. End({c}) /\ stale' = [a \in Callers |-> a # c /\ phase[a] = "read"]
  BY DEF CommitWrite
<1>2. Types'
  BY <1>1, EndEffect DEF IInv, Types
<1>3. \A a \in Callers : phase'[a] # "write"
  <2>1. lock = c
    BY DEF CommitWrite, IInv, WriterIsCurrent
  <2>2. lock' = Nobody
    BY <1>1, <2>1 DEF End
  <2> QED
    BY <1>1, <2>2, EndEffect, StorageAssumption DEF StorageAssumption
<1>4. WriterIsCurrent'
  BY <1>1, <1>3, EndEffect DEF WriterIsCurrent
<1>5. ReaderIsCurrent'
  BY <1>1, EndEffect DEF ReaderIsCurrent
<1> QED
  BY <1>2, <1>4, <1>5 DEF IInv

\* The steps that end transactions and commit nothing.
LEMMA EndKeeps ==
  ASSUME IInv, NEW gone \in SUBSET Callers, End(gone), db' = db,
         stale' \in [Callers -> BOOLEAN],
         \A c \in Callers \ gone : stale'[c] = stale[c]
  PROVE  IInv'
<1>1. Types'
  BY EndEffect DEF IInv, Types
<1>2. WriterIsCurrent'
  BY EndEffect DEF IInv, WriterIsCurrent
<1>3. ReaderIsCurrent'
  BY EndEffect DEF IInv, ReaderIsCurrent
<1> QED
  BY <1>1, <1>2, <1>3 DEF IInv

LEMMA NextKeeps == IInv /\ [Next]_vars => IInv'
<1> SUFFICES ASSUME IInv, [Next]_vars PROVE IInv'
  OBVIOUS
<1>1. CASE Crash
  BY <1>1, EndKeeps DEF Crash
<1>2. ASSUME NEW c \in Callers, Upgrade(c) PROVE IInv'
  BY <1>2, UpgradeKeeps
<1>3. ASSUME NEW c \in Callers, CommitWrite(c) PROVE IInv'
  BY <1>3, CommitWriteKeeps
<1>4. ASSUME NEW c \in Callers, CommitRead(c) \/ Rollback(c) PROVE IInv'
  <2>1. /\ End({c}) /\ db' = db /\ stale' = [stale EXCEPT ![c] = FALSE]
    BY <1>4 DEF CommitRead, Rollback
  <2>2. stale' \in [Callers -> BOOLEAN] /\ \A a \in Callers \ {c} : stale'[a] = stale[a]
    BY <2>1 DEF IInv, Types
  <2> QED
    BY <2>1, <2>2, EndKeeps
<1>5. ASSUME NEW c \in Callers, NEW k \in Calls, FirstRead(c, k) \/ FirstWrite(c, k)
      PROVE IInv'
  BY <1>5, OpenKeeps
<1>6. CASE UNCHANGED vars
  BY <1>6 DEF vars, IInv, Types, WriterIsCurrent, ReaderIsCurrent
<1> QED
  BY <1>1, <1>2, <1>3, <1>4, <1>5, <1>6 DEF Next

LEMMA Invariant == Spec => []IInv
BY InitInv, NextKeeps, PTL DEF Spec

-------------------------------------------------------------------------------
\* At most one transaction writes, it holds the lock, and what it has read is
\* the committed state, whatever the calls of Write compute (database.go:131).
THEOREM WritersAreCurrent == Spec => []WriterIsCurrent
<1>1. IInv => WriterIsCurrent
  BY DEF IInv
<1> QED
  BY <1>1, Invariant, PTL

\* Every step is a whole call made on the committed state, or leaves it alone.
LEMMA StepImplements == IInv /\ [Next]_vars => [Serial!Next]_db
<1> SUFFICES ASSUME IInv, [Next]_vars PROVE [Serial!Next]_db
  OBVIOUS
<1>1. ASSUME NEW c \in Callers, CommitWrite(c) PROVE Serial!Next
  <2>1. seen[c] = db /\ call[c] \in Calls
    BY <1>1 DEF CommitWrite, IInv, Types, WriterIsCurrent
  <2> QED
    BY <1>1, <2>1 DEF CommitWrite, Result, Serial!Next, Serial!Take
<1>2. CASE \A c \in Callers : ~CommitWrite(c)
  BY <1>2 DEF Next, Crash, Upgrade, CommitRead, Rollback, FirstRead, FirstWrite, Open, vars
<1> QED
  BY <1>1, <1>2

\* What Write does with interleaved, refused and broken off transactions is what
\* calls made one after another do: the "one call, one step" of the other modules.
THEOREM StorageIsSerial == Spec => ImplementsSerial
<1>1. Init => Serial!Init
  BY DEF Init, Serial!Init
<1> QED
  BY <1>1, Invariant, StepImplements, PTL DEF Spec, ImplementsSerial, Serial!Spec

-------------------------------------------------------------------------------
(* Sums over finite sets of entries.  MapThenSumSet takes the elements in    *)
(* the order CHOOSE does; a sum must not depend on it.                       *)

LEMMA LeastNatural ==
  ASSUME NEW T \in SUBSET Nat, T # {}
  PROVE  \E x \in T : \A y \in T : x <= y
<1> DEFINE R == {ss \in Nat \X Nat : ss[1] < ss[2]}
<1>1. IsWellFoundedOn(R, Nat)
  BY NatLessThanWellFounded, Zenon DEF OpToRel
<1>2. \A x, y \in Nat : <<x, y>> \in R <=> x < y
  OBVIOUS
<1> HIDE DEF R
<1>3. PICK x \in T : \A y \in T : ~(<<y, x>> \in R)
  BY <1>1, WFMin
<1>4. ASSUME NEW y \in T PROVE x <= y
  <2>1. ~(y < x) /\ x \in Nat /\ y \in Nat
    BY <1>2, <1>3
  <2> QED
    BY <2>1
<1> QED
  BY <1>4

\* Of a family of finite sets that is not empty, some member is smallest.
LEMMA Smallest ==
  ASSUME NEW F, F # {}, \A U \in F : IsFiniteSet(U)
  PROVE  \E U \in F : \A V \in F : Cardinality(U) <= Cardinality(V)
<1> DEFINE Sizes == {Cardinality(U) : U \in F}
<1>1. Sizes \in SUBSET Nat /\ Sizes # {}
  BY FS_CardinalityType
<1>2. PICK n \in Sizes : \A m \in Sizes : n <= m
  BY <1>1, LeastNatural
<1> QED
  BY <1>2

Amounts(S) == IsFiniteSet(S) /\ \A e \in S : e.amount \in Nat

Sum(S) == MapThenSumSet(LAMBDA e : e.amount, S)

Taken(S) == CHOOSE x \in S : TRUE

\* The function that MapThenSumSet chooses for the subsets of S.
Adds(f, S) ==
  f = [T \in SUBSET S |-> IF T = {} THEN 0 ELSE Taken(T).amount + f[T \ {Taken(T)}]]
Adder(S) == CHOOSE f : Adds(f, S)

LEMMA SumIsAdder == ASSUME NEW S PROVE Sum(S) = Adder(S)[S]
BY DEF Sum, MapThenSumSet, MapThenFoldSet, Adder, Adds, Taken

LEMMA TakenIsIn == ASSUME NEW S, S # {} PROVE Taken(S) \in S
BY DEF Taken

LEMMA Part ==
  ASSUME NEW S, Amounts(S), NEW T \in SUBSET S
  PROVE  /\ Amounts(T) /\ Cardinality(T) \in Nat
         /\ \A x \in T : /\ Amounts(T \ {x}) /\ Cardinality(T \ {x}) < Cardinality(T)
                         /\ Cardinality(T \ {x}) \in Nat
<1>1. IsFiniteSet(T) /\ Cardinality(T) \in Nat
  BY FS_Subset, FS_CardinalityType DEF Amounts
<1>2. Amounts(T)
  BY <1>1 DEF Amounts
<1>3. ASSUME NEW x \in T
      PROVE  /\ IsFiniteSet(T \ {x}) /\ Cardinality(T \ {x}) = Cardinality(T) - 1
             /\ Cardinality(T \ {x}) \in Nat
  BY <1>1, FS_RemoveElement, FS_CardinalityType
<1>4. \A x \in T : Amounts(T \ {x})
  BY <1>2, <1>3 DEF Amounts
<1>5. \A x \in T : Cardinality(T \ {x}) < Cardinality(T) /\ Cardinality(T \ {x}) \in Nat
  BY <1>1, <1>3
<1> QED
  BY <1>1, <1>2, <1>4, <1>5

\* On the sets both are about, two such functions agree.
LEMMA AddsAgree ==
  ASSUME NEW S, Amounts(S), NEW R \in SUBSET S, NEW f, Adds(f, S), NEW g, Adds(g, R)
  PROVE  \A T \in SUBSET R : f[T] = g[T]
<1> DEFINE Bad == {T \in SUBSET R : f[T] # g[T]}
<1> SUFFICES ASSUME Bad # {} PROVE FALSE
  OBVIOUS
<1>1. PICK T \in Bad : \A U \in Bad : Cardinality(T) <= Cardinality(U)
  <2>1. \A U \in Bad : IsFiniteSet(U)
    BY Part DEF Amounts
  <2> QED
    BY <2>1, Smallest
<1>2. CASE T = {}
  BY <1>1, <1>2 DEF Adds
<1>3. CASE T # {}
  <2>1. Taken(T) \in T /\ T \ {Taken(T)} \in SUBSET R
    BY <1>1, <1>3, TakenIsIn
  <2>2. T \ {Taken(T)} \notin Bad
    BY <1>1, <2>1, Part
  <2>3. f[T] = Taken(T).amount + f[T \ {Taken(T)}]
    BY <1>1, <1>3 DEF Adds
  <2>4. g[T] = Taken(T).amount + g[T \ {Taken(T)}]
    BY <1>1, <1>3 DEF Adds
  <2> QED
    BY <1>1, <2>1, <2>2, <2>3, <2>4
<1> QED
  BY <1>2, <1>3

\* Such a function is built from the smaller subsets up.
Below(S, n) == {T \in SUBSET S : Cardinality(T) <= n}
AddsBelow(f, S, n) ==
  /\ f \in [Below(S, n) -> Nat]
  /\ \A T \in Below(S, n) :
       f[T] = IF T = {} THEN 0 ELSE Taken(T).amount + f[T \ {Taken(T)}]

LEMMA AddsUpTo ==
  ASSUME NEW S, Amounts(S), NEW n \in Nat
  PROVE  \E f : AddsBelow(f, S, n)
<1> DEFINE Bad == {m \in Nat : ~\E f : AddsBelow(f, S, m)}
<1> SUFFICES ASSUME Bad # {} PROVE FALSE
  OBVIOUS
<1>1. PICK m \in Bad : \A l \in Bad : m <= l
  BY LeastNatural
<1>2. \A T \in SUBSET S : T # {} => Taken(T) \in T /\ Taken(T).amount \in Nat
  BY TakenIsIn DEF Amounts
<1>3. m # 0
  <2>1. Below(S, 0) = {{}}
    <3>1. \A T \in SUBSET S : Cardinality(T) <= 0 <=> T = {}
      BY FS_EmptySet, Part DEF Amounts
    <3> QED
      BY <3>1 DEF Below
  <2>2. AddsBelow([T \in {{}} |-> 0], S, 0)
    BY <2>1 DEF AddsBelow
  <2> QED
    BY <2>2
<1>4. PICK f : AddsBelow(f, S, m - 1)
  BY <1>1, <1>3
<1>5. \A T \in Below(S, m) : T # {} => T \ {Taken(T)} \in Below(S, m - 1)
  BY <1>2, Part DEF Below
<1>6. Below(S, m - 1) \subseteq Below(S, m)
  BY Part DEF Below
<1> DEFINE g == [T \in Below(S, m) |->
                   IF T = {} THEN 0 ELSE Taken(T).amount + f[T \ {Taken(T)}]]
<1>7. g \in [Below(S, m) -> Nat]
  <2>1. ASSUME NEW T \in Below(S, m), T # {}
        PROVE  Taken(T).amount + f[T \ {Taken(T)}] \in Nat
    BY <1>2, <1>4, <1>5, <2>1 DEF AddsBelow, Below
  <2> QED
    BY <2>1
<1>8. \A T \in Below(S, m - 1) : g[T] = f[T]
  BY <1>4, <1>6 DEF AddsBelow
<1>9. AddsBelow(g, S, m)
  <2>1. ASSUME NEW T \in Below(S, m)
        PROVE  g[T] = IF T = {} THEN 0 ELSE Taken(T).amount + g[T \ {Taken(T)}]
    BY <1>5, <1>8
  <2> HIDE DEF g
  <2> QED
    BY <1>7, <2>1 DEF AddsBelow
<1> QED
  BY <1>9

LEMMA AdderAdds ==
  ASSUME NEW S, Amounts(S)
  PROVE  Adds(Adder(S), S) /\ Adder(S) \in [SUBSET S -> Nat]
<1>1. PICK f : AddsBelow(f, S, Cardinality(S))
  BY AddsUpTo, FS_CardinalityType DEF Amounts
<1>2. Below(S, Cardinality(S)) = SUBSET S
  BY FS_Subset DEF Below, Amounts
<1>3. Adds(f, S)
  BY <1>1, <1>2 DEF AddsBelow, Adds
<1> DEFINE h == Adder(S)
<1>4. Adds(h, S)
  BY <1>3 DEF Adder
<1> HIDE DEF h
<1>5. \A T \in SUBSET S : h[T] = f[T]
  BY <1>3, <1>4, AddsAgree
<1>6. \A T \in SUBSET S : h[T] \in Nat
  BY <1>1, <1>2, <1>5 DEF AddsBelow
<1>7. h = [T \in SUBSET S |-> h[T]]
  BY <1>4 DEF Adds
<1>8. h \in [SUBSET S -> Nat]
  BY <1>6, <1>7
<1> QED
  BY <1>4, <1>8 DEF h

LEMMA SumByParts ==
  ASSUME NEW S, Amounts(S)
  PROVE  /\ Sum(S) \in Nat
         /\ Sum({}) = 0
         /\ S # {} => Sum(S) = Taken(S).amount + Sum(S \ {Taken(S)})
<1>1. Adds(Adder(S), S) /\ Adder(S) \in [SUBSET S -> Nat]
  BY AdderAdds
<1>2. ASSUME NEW T \in SUBSET S PROVE Adder(S)[T] = Sum(T)
  <2>1. Adds(Adder(T), T)
    BY Part, AdderAdds
  <2>2. Adder(S)[T] = Adder(T)[T]
    BY <1>1, <2>1, AddsAgree
  <2> QED
    BY <2>2, SumIsAdder
<1>3. Adder(S)[S] \in Nat /\ Adder(S)[{}] = 0
  BY <1>1 DEF Adds
<1>4. S # {} => Adder(S)[S] = Taken(S).amount + Adder(S)[S \ {Taken(S)}]
  BY <1>1 DEF Adds
<1> QED
  BY <1>2, <1>3, <1>4

\* Any element may be the one that is added last.
LEMMA SumTakes ==
  ASSUME NEW S, Amounts(S), NEW e \in S
  PROVE  Sum(S) = e.amount + Sum(S \ {e})
<1> DEFINE Bad == {T \in SUBSET S : \E x \in T : Sum(T) # x.amount + Sum(T \ {x})}
<1> SUFFICES ASSUME Bad # {} PROVE FALSE
  OBVIOUS
<1>1. PICK T \in Bad : \A U \in Bad : Cardinality(T) <= Cardinality(U)
  <2>1. \A U \in Bad : IsFiniteSet(U)
    BY Part DEF Amounts
  <2> QED
    BY <2>1, Smallest
<1>2. PICK x \in T : Sum(T) # x.amount + Sum(T \ {x})
  BY <1>1
<1>3. T \in SUBSET S /\ Amounts(T)
  BY <1>1, Part
<1>4. \A y \in T : /\ T \ {y} \notin Bad /\ T \ {y} \in SUBSET S
                   /\ Sum((T \ {y}) \ {x}) \in Nat /\ y.amount \in Nat
  <2>1. ASSUME NEW y \in T PROVE T \ {y} \notin Bad
    <3>1. Cardinality(T \ {y}) < Cardinality(T) /\ Cardinality(T \ {y}) \in Nat
      BY <1>3, Part
    <3>2. Cardinality(T) \in Nat
      BY <1>3, Part
    <3> QED
      BY <1>1, <3>1, <3>2
  <2>2. \A y \in T : Amounts((T \ {y}) \ {x})
    BY <1>3, Part
  <2> QED
    BY <1>3, <2>1, <2>2, SumByParts DEF Amounts
<1> HIDE DEF Bad
<1>5. PICK p \in T : Sum(T) = p.amount + Sum(T \ {p})
  BY <1>2, <1>3, SumByParts, TakenIsIn
<1>6. p # x
  BY <1>2, <1>5
<1>7. Sum(T \ {p}) = x.amount + Sum((T \ {p}) \ {x})
  BY <1>2, <1>4, <1>6 DEF Bad
<1>8. Sum(T \ {x}) = p.amount + Sum((T \ {x}) \ {p})
  BY <1>2, <1>4, <1>6 DEF Bad
<1>9. Sum((T \ {x}) \ {p}) = Sum((T \ {p}) \ {x})
  <2>1. (T \ {x}) \ {p} = (T \ {p}) \ {x}
    OBVIOUS
  <2> QED
    BY <2>1
<1>10. x.amount \in Nat /\ p.amount \in Nat /\ Sum((T \ {p}) \ {x}) \in Nat
  BY <1>2, <1>4
<1>11. Sum(T) = x.amount + Sum(T \ {x})
  <2>1. \A a, b, n \in Nat : a + (b + n) = b + (a + n)
    OBVIOUS
  <2>2. p.amount + (x.amount + Sum((T \ {p}) \ {x}))
           = x.amount + (p.amount + Sum((T \ {p}) \ {x}))
    BY <1>10, <2>1
  <2> QED
    BY <1>5, <1>7, <1>8, <1>9, <2>2
<1> QED
  BY <1>2, <1>11

LEMMA SumOfMore ==
  ASSUME NEW S, Amounts(S), NEW e, e \notin S, e.amount \in Nat
  PROVE  Amounts(S \cup {e}) /\ Sum(S \cup {e}) = Sum(S) + e.amount
<1>1. Amounts(S \cup {e})
  BY FS_AddElement DEF Amounts
<1>2. (S \cup {e}) \ {e} = S
  OBVIOUS
<1>3. Sum(S \cup {e}) = e.amount + Sum(S)
  BY <1>1, <1>2, SumTakes
<1>4. Sum(S) \in Nat
  BY SumByParts
<1> QED
  BY <1>1, <1>3, <1>4

-------------------------------------------------------------------------------
(* The calls of the services.                                                *)

\* The calls, their outcomes and the first state are those of the services.
Wired ==
  /\ Calls = ServiceCalls
  /\ EmptyDatabase = EmptyTables
  /\ \A k \in Calls : \A s : Outcome(k, s) = ServiceOutcome(k, s)

EntryRow == [key : Keys, kind : {"deposit", "hold"}, amount : 1..MaxInt64]

Rows == [tenant : BOOLEAN, member : BOOLEAN, session : {"none", "live", "revoked"},
         version : Nat, balance : Int, held : Nat, entries : SUBSET EntryRow, audits : Nat]

OfKind(s, kind) == {e \in s.entries : e.kind = kind}
TotalIn(s, kind) == Sum(OfKind(s, kind))

\* BalancesTellEntries of a state, of which the entries are finite in number, and none
\* before there is an account.
Balanced(s) ==
  /\ IsFiniteSet(s.entries)
  /\ s.version = 0 => s.entries = {}
  /\ s.version > 0 => s.version = 1 + Cardinality(s.entries)
  /\ \A e, f \in s.entries : e.key = f.key => e = f
  /\ s.held = TotalIn(s, "hold")
  /\ s.held <= TotalIn(s, "deposit")
  /\ \/ s.balance = TotalIn(s, "deposit") /\ s.balance <= MaxInt64
     \/ /\ s.balance = Overflow /\ TotalIn(s, "deposit") > MaxInt64
        /\ \E e \in s.entries : /\ e.kind = "deposit"
                              /\ TotalIn(s, "deposit") - e.amount \in s.held..MaxInt64

Flags(s) == Cardinality({x \in {"tenant", "member"} : s[x]})
Logins(s) == CASE s.session = "none"    -> 0
               [] s.session = "live"    -> 1
               [] s.session = "revoked" -> 2

Counted(s) == s.audits = Flags(s) + s.version + Logins(s)

\* AnswersStand, of one call and a state.
Told(k, s) ==
  CASE k.op = "open"    -> s.version > 0
    [] k.op = "deposit" -> EntriesOf(s, k) # {}
    [] k.op = "hold"    -> \E e \in EntriesOf(s, k) : e.kind = "hold"
    [] k.op = "bootstrap"  -> s.tenant
    [] k.op = "createuser" -> s.member
    [] k.op = "login"   -> s.session # "none"
    [] k.op = "logout"  -> s.session = "revoked"

\* What no call takes back.
Grows(s, t) ==
  /\ s.version > 0 => t.version > 0
  /\ s.entries \subseteq t.entries
  /\ s.tenant => t.tenant
  /\ s.member => t.member
  /\ s.session # "none" => t.session # "none"
  /\ s.session = "revoked" => t.session = "revoked"

LEMMA GrowingKeepsTold ==
  ASSUME NEW s, NEW t, Grows(s, t), NEW k \in ServiceCalls, Told(k, s)
  PROVE  Told(k, t)
<1>1. k.op \in {"open", "deposit", "hold", "bootstrap", "createuser", "login", "logout"}
  BY DEF ServiceCalls, CreditCalls, SessionCalls
<1>2. EntriesOf(s, k) \subseteq EntriesOf(t, k)
  BY DEF Grows, EntriesOf
<1> QED
  BY <1>1, <1>2 DEF Grows, Told

LEMMA EntryAmounts ==
  ASSUME NEW s \in Rows, Balanced(s), NEW kind
  PROVE  /\ Amounts(OfKind(s, kind))
         /\ TotalIn(s, kind) \in Nat
<1>1. \A e \in EntryRow : e.amount \in Nat
  BY CreditAssumption DEF CreditAssumption, EntryRow
<1>2. OfKind(s, kind) \in SUBSET s.entries /\ s.entries \subseteq EntryRow
  BY DEF OfKind, Rows
<1>3. IsFiniteSet(OfKind(s, kind))
  BY <1>2, FS_Subset DEF Balanced
<1>4. Amounts(OfKind(s, kind))
  BY <1>1, <1>2, <1>3 DEF Amounts
<1> QED
  BY <1>4, SumByParts DEF TotalIn

\* An entry that is new adds its amount to the total of its kind.
LEMMA EntryAdds ==
  ASSUME NEW s \in Rows, Balanced(s), NEW t, NEW n \in EntryRow,
         n \notin s.entries, t.entries = s.entries \cup {n}
  PROVE  /\ TotalIn(t, n.kind) = TotalIn(s, n.kind) + n.amount
         /\ \A kind : kind # n.kind => TotalIn(t, kind) = TotalIn(s, kind)
<1>1. OfKind(t, n.kind) = OfKind(s, n.kind) \cup {n}
  BY DEF OfKind
<1>2. n \notin OfKind(s, n.kind) /\ n.amount \in Nat
  BY CreditAssumption DEF OfKind, EntryRow, CreditAssumption
<1>3. ASSUME NEW kind, kind # n.kind PROVE OfKind(t, kind) = OfKind(s, kind)
  BY <1>3 DEF OfKind
<1>4. TotalIn(t, n.kind) = TotalIn(s, n.kind) + n.amount
  BY <1>1, <1>2, EntryAmounts, SumOfMore DEF TotalIn
<1> QED
  BY <1>3, <1>4 DEF TotalIn

LEMMA FlagsAre ==
  ASSUME NEW s \in Rows
  PROVE  Flags(s) = (IF s.tenant THEN 1 ELSE 0) + (IF s.member THEN 1 ELSE 0)
<1> DEFINE F == {x \in {"tenant", "member"} : s[x]}
<1>1. s["tenant"] = s.tenant /\ s["member"] = s.member
  OBVIOUS
<1>2. /\ Cardinality({}) = 0
      /\ Cardinality({"tenant"}) = 1 /\ Cardinality({"member"}) = 1
      /\ Cardinality({"tenant"} \cup {"member"}) = 2
  <2>1. IsFiniteSet({"tenant"}) /\ Cardinality({"tenant"}) = 1 /\ "member" \notin {"tenant"}
    BY FS_Singleton
  <2>2. Cardinality({"tenant"} \cup {"member"}) = Cardinality({"tenant"}) + 1
    BY <2>1, FS_AddElement
  <2>3. Cardinality({}) = 0
    BY FS_EmptySet
  <2>4. Cardinality({"member"}) = 1
    BY FS_Singleton
  <2> QED
    BY <2>1, <2>2, <2>3, <2>4
<1>3. /\ s.tenant /\ s.member => F = {"tenant"} \cup {"member"}
      /\ s.tenant /\ ~s.member => F = {"tenant"}
      /\ ~s.tenant /\ s.member => F = {"member"}
      /\ ~s.tenant /\ ~s.member => F = {}
  BY <1>1
<1>4. Flags(s) = Cardinality(F)
  BY DEF Flags
<1> HIDE DEF F
<1> QED
  BY <1>2, <1>3, <1>4 DEF Rows

\* The entry n, under a new key, is what t has beside s.
Enters(s, n, t) ==
  /\ s.version > 0 /\ t.version = s.version + 1
  /\ \A e \in s.entries : e.key # n.key
  /\ t.entries = s.entries \cup {n}

LEMMA EntryBooked ==
  ASSUME NEW s \in Rows, Balanced(s), NEW n \in EntryRow, NEW t, Enters(s, n, t)
  PROVE  /\ n \notin s.entries
         /\ IsFiniteSet(t.entries)
         /\ t.version > 0 /\ t.version = 1 + Cardinality(t.entries)
         /\ \A e, f \in t.entries : e.key = f.key => e = f
<1>1. n \notin s.entries /\ IsFiniteSet(s.entries) /\ s.version \in Nat
  BY DEF Balanced, Rows, Enters
<1>2. IsFiniteSet(t.entries) /\ Cardinality(t.entries) = Cardinality(s.entries) + 1
  <2>1. t.entries = s.entries \cup {n}
    BY DEF Enters
  <2> QED
    BY <1>1, <2>1, FS_AddElement
<1>3. Cardinality(s.entries) \in Nat
  BY <1>1, FS_CardinalityType
<1>4. t.version > 0 /\ t.version = 1 + Cardinality(t.entries)
  BY <1>1, <1>2, <1>3 DEF Balanced, Enters
<1>5. \A e, f \in t.entries : e.key = f.key => e = f
  BY DEF Balanced, Enters
<1> QED
  BY <1>1, <1>2, <1>4, <1>5

\* A sum that overflows does so by this deposit, before which it covered the holds.
LEMMA DepositBalances ==
  ASSUME NEW s \in Rows, Balanced(s), Readable(s),
         NEW n \in EntryRow, n.kind = "deposit", NEW t \in Rows, Enters(s, n, t),
         t.balance = Sum64(s.balance, n.amount), t.held = s.held
  PROVE  Balanced(t)
<1>1. t.entries = s.entries \cup {n}
  BY DEF Enters
<1>2. /\ n \notin s.entries /\ IsFiniteSet(t.entries)
      /\ t.version > 0 /\ t.version = 1 + Cardinality(t.entries)
      /\ \A e, f \in t.entries : e.key = f.key => e = f
  BY EntryBooked
<1> DEFINE old == TotalIn(s, "deposit")
<1>3. s.balance = old /\ old <= MaxInt64 /\ s.held <= old
  BY DEF Readable, Balanced, Overflow
<1>4. TotalIn(t, "deposit") = old + n.amount /\ TotalIn(t, "hold") = TotalIn(s, "hold")
  BY <1>1, <1>2, EntryAdds
<1>5. /\ old \in Nat /\ n.amount \in Nat /\ s.held \in Nat /\ MaxInt64 \in Nat
      /\ n \in t.entries
  BY <1>1, EntryAmounts, CreditAssumption DEF EntryRow, Rows, CreditAssumption
<1> HIDE DEF old
<1>6. t.held = TotalIn(t, "hold") /\ t.held <= TotalIn(t, "deposit")
  BY <1>3, <1>4, <1>5 DEF Balanced
<1>7. CASE old + n.amount <= MaxInt64
  BY <1>2, <1>3, <1>4, <1>5, <1>6, <1>7 DEF Balanced, Sum64
<1>8. CASE old + n.amount > MaxInt64
  <2>1. t.balance = Overflow /\ TotalIn(t, "deposit") > MaxInt64
    BY <1>3, <1>4, <1>5, <1>8 DEF Sum64
  <2>2. TotalIn(t, "deposit") - n.amount \in t.held..MaxInt64
    BY <1>3, <1>4, <1>5
  <2> QED
    BY <1>2, <1>5, <1>6, <2>1, <2>2 DEF Balanced
<1> QED
  BY <1>5, <1>7, <1>8

\* What is available is what was deposited and is not held.
LEMMA HoldBalances ==
  ASSUME NEW s \in Rows, Balanced(s), Readable(s),
         NEW n \in EntryRow, n.kind = "hold", s.balance - s.held >= n.amount,
         NEW t \in Rows, Enters(s, n, t),
         t.balance = s.balance, t.held = s.held + n.amount
  PROVE  Balanced(t)
<1> DEFINE all == TotalIn(s, "deposit")
<1>1. t.entries = s.entries \cup {n} /\ s.balance = all /\ all <= MaxInt64
  BY DEF Readable, Balanced, Overflow, Enters
<1>2. /\ n \notin s.entries /\ IsFiniteSet(t.entries)
      /\ t.version > 0 /\ t.version = 1 + Cardinality(t.entries)
      /\ \A e, f \in t.entries : e.key = f.key => e = f
  BY EntryBooked
<1>3. TotalIn(t, "hold") = TotalIn(s, "hold") + n.amount /\ TotalIn(t, "deposit") = all
  BY <1>1, <1>2, EntryAdds
<1>4. all \in Nat /\ n.amount \in Nat /\ s.held \in Nat
  BY EntryAmounts, CreditAssumption DEF EntryRow, Rows, CreditAssumption
<1> HIDE DEF all
<1>5. t.held = TotalIn(t, "hold") /\ t.held <= TotalIn(t, "deposit")
  BY <1>1, <1>3, <1>4 DEF Balanced
<1> QED
  BY <1>1, <1>2, <1>3, <1>5 DEF Balanced

\* Opening the account, and what is not about it.
LEMMA NoEntryBalances ==
  ASSUME NEW s \in Rows, Balanced(s), NEW t \in Rows,
         t.entries = s.entries, t.balance = s.balance, t.held = s.held,
         t.version = s.version \/ (s.version = 0 /\ t.version = 1)
  PROVE  Balanced(t)
<1>1. \A kind : TotalIn(t, kind) = TotalIn(s, kind)
  BY DEF TotalIn, OfKind
<1>2. s.version = 0 => Cardinality(s.entries) = 0
  BY FS_EmptySet DEF Balanced
<1> QED
  BY <1>1, <1>2 DEF Balanced

-------------------------------------------------------------------------------
Good(s) == s \in Rows /\ Balanced(s) /\ Counted(s)

\* A call that succeeds keeps what is good and what was told before, and does what
\* it tells its caller.
Serves(k, s, t) == Good(t) /\ Grows(s, t) /\ Told(k, t)

LEMMA CountedFor ==
  ASSUME NEW s \in Rows, Counted(s), NEW t \in Rows,
         t.audits = s.audits + 1,
         \/ /\ t.version = s.version + 1
            /\ t.tenant = s.tenant /\ t.member = s.member /\ t.session = s.session
         \/ /\ t.version = s.version /\ t.session = s.session
            /\ \/ ~s.tenant /\ t.tenant /\ t.member = s.member
               \/ ~s.member /\ t.member /\ t.tenant = s.tenant
         \/ /\ t.version = s.version /\ t.tenant = s.tenant /\ t.member = s.member
            /\ \/ s.session = "none" /\ t.session = "live"
               \/ s.session = "live" /\ t.session = "revoked"
  PROVE  Counted(t)
<1>1. /\ Flags(s) = (IF s.tenant THEN 1 ELSE 0) + (IF s.member THEN 1 ELSE 0)
      /\ Flags(t) = (IF t.tenant THEN 1 ELSE 0) + (IF t.member THEN 1 ELSE 0)
  BY FlagsAre
<1> QED
  BY <1>1 DEF Rows, Counted, Logins

LEMMA NoEntryIsGood ==
  ASSUME NEW s, Good(s), NEW t \in Rows, t.entries = s.entries,
         t.balance = s.balance, t.held = s.held,
         t.version = s.version \/ (s.version = 0 /\ t.version = 1), Counted(t)
  PROVE  Good(t)
BY NoEntryBalances DEF Good

LEMMA DepositServes ==
  ASSUME NEW s, Good(s), NEW k \in CreditCalls, k.op = "deposit", Deposit(k, s).ok
  PROVE  Serves(k, s, Deposit(k, s).db)
<1>1. k.key \in Keys /\ k.amount \in 1..MaxInt64
  BY CreditAssumption DEF CreditCalls, CreditAssumption
<1>2. Readable(s)
  <2>1. ~Readable(s) => Deposit(k, s) = [ok |-> FALSE, db |-> s]
    BY DEF Deposit, Fails
  <2> QED
    BY <2>1
<1>3. CASE EntriesOf(s, k) # {}
  <2>1. Deposit(k, s).db = s
    BY <1>2, <1>3 DEF Deposit, Succeeds
  <2> QED
    BY <1>3, <2>1 DEF Serves, Grows, Told
<1>4. CASE EntriesOf(s, k) = {}
  <2> DEFINE t == Deposit(k, s).db
             n == [key |-> k.key, kind |-> k.op, amount |-> k.amount]
  <2>1. t = [Booked(k, s) EXCEPT !.balance = Sum64(@, k.amount)]
    BY <1>2, <1>4 DEF Deposit, Succeeds
  <2>2. n \in EntryRow /\ n.kind = "deposit" /\ n.amount = k.amount /\ n.key = k.key
    BY <1>1 DEF EntryRow
  <2>3. s \in Rows /\ s.version \in Nat /\ s.balance \in Int /\ s.audits \in Nat
        /\ s.entries \in SUBSET EntryRow
    BY DEF Good, Rows
  <2>4. Sum64(s.balance, k.amount) \in Int
    BY <1>1, <2>3, CreditAssumption DEF Sum64, Overflow, CreditAssumption
  <2> HIDE DEF n
  <2>5. t = [s EXCEPT !.version = s.version + 1, !.entries = s.entries \cup {n},
                      !.audits = s.audits + 1, !.balance = Sum64(s.balance, k.amount)]
    BY <2>1, <2>3 DEF Booked, Rows, n
  <2> HIDE DEF t
  <2>6. /\ t.tenant = s.tenant /\ t.member = s.member /\ t.session = s.session
        /\ t.version = s.version + 1 /\ t.entries = s.entries \cup {n}
        /\ t.audits = s.audits + 1 /\ t.held = s.held
        /\ t.balance = Sum64(s.balance, k.amount)
    BY <2>3, <2>5 DEF Rows
  <2>7. t \in Rows
    <3>1. s.version + 1 \in Nat /\ s.audits + 1 \in Nat
          /\ s.entries \cup {n} \in SUBSET EntryRow
      BY <2>2, <2>3
    <3> QED
      BY <2>3, <2>4, <2>5, <3>1 DEF Rows
  <2>8. Enters(s, n, t)
    BY <1>2, <1>4, <2>2, <2>6 DEF Enters, Readable, EntriesOf
  <2>9. Balanced(t)
    BY <1>2, <2>2, <2>7, <2>3, <2>6, <2>8, DepositBalances DEF Good
  <2>10. Counted(t)
    BY <2>3, <2>7, <2>6, CountedFor DEF Good
  <2>11. Grows(s, t) /\ Told(k, t)
    <3>1. n \in EntriesOf(t, k)
      BY <2>2, <2>6 DEF EntriesOf
    <3>2. t.version > 0
      BY <2>3, <2>6
    <3> QED
      BY <2>6, <3>1, <3>2 DEF Grows, Told
  <2> QED
    BY <2>7, <2>9, <2>10, <2>11 DEF Serves, Good, t
<1> QED
  BY <1>3, <1>4

LEMMA HoldServes ==
  ASSUME NEW s, Good(s), NEW k \in CreditCalls, k.op = "hold", Reserve(k, s).ok
  PROVE  Serves(k, s, Reserve(k, s).db)
<1>1. k.key \in Keys /\ k.amount \in 1..MaxInt64
  BY CreditAssumption DEF CreditCalls, CreditAssumption
<1>2. Readable(s) /\ \A e \in EntriesOf(s, k) : e.kind = "hold"
  <2>1. \/ Readable(s) /\ \A e \in EntriesOf(s, k) : e.kind = "hold"
        \/ Reserve(k, s) = [ok |-> FALSE, db |-> s]
    BY DEF Reserve, Fails
  <2> QED
    BY <2>1
<1>3. CASE EntriesOf(s, k) # {}
  <2>1. Reserve(k, s).db = s
    BY <1>2, <1>3 DEF Reserve, Succeeds
  <2>2. \E e \in EntriesOf(s, k) : e.kind = "hold"
    BY <1>2, <1>3
  <2> QED
    BY <2>1, <2>2 DEF Serves, Grows, Told
<1>4. CASE EntriesOf(s, k) = {}
  <2> DEFINE t == Reserve(k, s).db
             n == [key |-> k.key, kind |-> k.op, amount |-> k.amount]
  <2>1. Available(k, s)
    <3>1. Available(k, s) \/ Reserve(k, s) = [ok |-> FALSE, db |-> s]
      BY <1>2, <1>4 DEF Reserve, Fails
    <3> QED
      BY <3>1
  <2>2. t = [Booked(k, s) EXCEPT !.held = @ + k.amount]
    BY <1>2, <1>4, <2>1 DEF Reserve, Succeeds
  <2>3. n \in EntryRow /\ n.kind = "hold" /\ n.amount = k.amount /\ n.key = k.key
    BY <1>1 DEF EntryRow
  <2>4. /\ s \in Rows /\ s.version \in Nat /\ s.held \in Nat /\ s.audits \in Nat
        /\ s.entries \in SUBSET EntryRow
    BY DEF Good, Rows
  <2> HIDE DEF n
  <2>5. t = [s EXCEPT !.version = s.version + 1, !.entries = s.entries \cup {n},
                      !.audits = s.audits + 1, !.held = s.held + k.amount]
    BY <2>2, <2>4 DEF Booked, Rows, n
  <2> HIDE DEF t
  <2>6. /\ t.tenant = s.tenant /\ t.member = s.member /\ t.session = s.session
        /\ t.version = s.version + 1 /\ t.entries = s.entries \cup {n}
        /\ t.audits = s.audits + 1 /\ t.balance = s.balance
        /\ t.held = s.held + k.amount
    BY <2>4, <2>5 DEF Rows
  <2>7. t \in Rows
    <3>1. /\ s.version + 1 \in Nat /\ s.audits + 1 \in Nat /\ s.held + k.amount \in Nat
          /\ s.entries \cup {n} \in SUBSET EntryRow
      BY <1>1, <2>3, <2>4, CreditAssumption DEF CreditAssumption
    <3> QED
      BY <2>4, <2>5, <3>1 DEF Rows
  <2>8. Enters(s, n, t)
    BY <1>2, <1>4, <2>3, <2>6 DEF Enters, Readable, EntriesOf
  <2>9. Balanced(t)
    BY <1>2, <2>1, <2>3, <2>4, <2>6, <2>7, <2>8, HoldBalances DEF Good, Available
  <2>10. Counted(t)
    BY <2>4, <2>6, <2>7, CountedFor DEF Good
  <2>11. Grows(s, t) /\ Told(k, t)
    <3>1. n \in EntriesOf(t, k)
      BY <2>3, <2>6 DEF EntriesOf
    <3>2. t.version > 0
      BY <2>4, <2>6
    <3> QED
      BY <2>3, <2>6, <3>1, <3>2 DEF Grows, Told
  <2> QED
    BY <2>7, <2>9, <2>10, <2>11 DEF Serves, Good, t
<1> QED
  BY <1>3, <1>4

LEMMA OpenServes ==
  ASSUME NEW s, Good(s), NEW k, k.op = "open", OpenAccount(s).ok
  PROVE  Serves(k, s, OpenAccount(s).db)
<1> DEFINE t == OpenAccount(s).db
<1>1. s.tenant /\ s.version = 0
  <2>1. (s.tenant /\ s.version = 0) \/ OpenAccount(s) = [ok |-> FALSE, db |-> s]
    BY DEF OpenAccount, Fails
  <2> QED
    BY <2>1
<1>2. s \in Rows /\ s.audits \in Nat /\ s.audits + 1 \in Nat
  BY DEF Good, Rows
<1>3. t = [s EXCEPT !.version = 1, !.audits = s.audits + 1]
  BY <1>1, <1>2 DEF OpenAccount, Succeeds, Rows
<1> HIDE DEF t
<1>4. /\ t.tenant = s.tenant /\ t.member = s.member /\ t.session = s.session
      /\ t.version = 1 /\ t.entries = s.entries /\ t.audits = s.audits + 1
      /\ t.balance = s.balance /\ t.held = s.held
  BY <1>2, <1>3 DEF Rows
<1>5. t \in Rows
  BY <1>2, <1>3 DEF Rows
<1>6. Counted(t)
  <2>1. t.version = s.version + 1
    BY <1>1, <1>4
  <2> QED
    BY <1>2, <1>4, <1>5, <2>1, CountedFor DEF Good
<1>7. Good(t)
  BY <1>1, <1>4, <1>5, <1>6, NoEntryIsGood
<1> QED
  BY <1>1, <1>4, <1>7 DEF Serves, Grows, Told, t

\* Of the rows of users and sessions one is changed, and that is audited.
SessionChange(s, t) ==
  /\ t.audits = s.audits + 1
  /\ t.entries = s.entries /\ t.balance = s.balance /\ t.held = s.held
  /\ t.version = s.version
  /\ \/ /\ t.session = s.session
        /\ \/ ~s.tenant /\ t.tenant /\ t.member = s.member
           \/ ~s.member /\ t.member /\ t.tenant = s.tenant
     \/ /\ t.tenant = s.tenant /\ t.member = s.member
        /\ \/ s.session = "none" /\ t.session = "live"
           \/ s.session = "live" /\ t.session = "revoked"

LEMMA SessionServes ==
  ASSUME NEW s, Good(s), NEW t \in Rows, SessionChange(s, t)
  PROVE  Good(t) /\ Grows(s, t)
<1>1. s \in Rows
  BY DEF Good
<1>2. Counted(t)
  BY <1>1, CountedFor DEF Good, SessionChange
<1>3. Good(t)
  BY <1>2, NoEntryIsGood DEF SessionChange
<1> QED
  BY <1>1, <1>3 DEF Grows, SessionChange

LEMMA BootstrapServes ==
  ASSUME NEW s, Good(s), NEW k, k.op = "bootstrap"
  PROVE  Serves(k, s, Bootstrap(s).db)
<1> DEFINE t == Bootstrap(s).db
<1>1. s \in Rows /\ s.audits \in Nat /\ s.audits + 1 \in Nat
  BY DEF Good, Rows
<1>2. CASE s.tenant
  BY <1>2 DEF Bootstrap, Serves, Grows, Told
<1>3. CASE ~s.tenant
  <2>1. t = [s EXCEPT !.tenant = TRUE, !.audits = s.audits + 1]
    BY <1>1, <1>3 DEF Bootstrap, Audited, Rows
  <2> HIDE DEF t
  <2>2. t \in Rows /\ SessionChange(s, t) /\ t.tenant
    BY <1>1, <1>3, <2>1 DEF Rows, SessionChange
  <2> QED
    BY <2>2, SessionServes DEF Serves, Told, t
<1> QED
  BY <1>2, <1>3

LEMMA CreateUserServes ==
  ASSUME NEW s, Good(s), NEW k, k.op = "createuser", CreateUser(s).ok
  PROVE  Serves(k, s, CreateUser(s).db)
<1> DEFINE t == CreateUser(s).db
<1>1. s \in Rows /\ s.audits \in Nat /\ s.audits + 1 \in Nat
  BY DEF Good, Rows
<1>2. s.session # "none" /\ ~s.member
  <2>1. (s.session # "none" /\ ~s.member) \/ CreateUser(s) = [ok |-> FALSE, db |-> s]
    BY DEF CreateUser, Rejected
  <2> QED
    BY <2>1
<1>3. t = [s EXCEPT !.member = TRUE, !.audits = s.audits + 1]
  BY <1>1, <1>2 DEF CreateUser, Audited, Rows
<1> HIDE DEF t
<1>4. t \in Rows /\ SessionChange(s, t) /\ t.member
  BY <1>1, <1>2, <1>3 DEF Rows, SessionChange
<1> QED
  BY <1>4, SessionServes DEF Serves, Told, t

LEMMA LoginServes ==
  ASSUME NEW s, Good(s), NEW k, k.op = "login", Login(s).ok
  PROVE  Serves(k, s, Login(s).db)
<1> DEFINE t == Login(s).db
<1>1. s \in Rows /\ s.audits \in Nat /\ s.audits + 1 \in Nat
  BY DEF Good, Rows
<1>2. s.tenant /\ s.session = "none"
  <2>1. (s.tenant /\ s.session = "none") \/ Login(s) = [ok |-> FALSE, db |-> s]
    BY DEF Login, Rejected
  <2> QED
    BY <2>1
<1>3. t = [s EXCEPT !.session = "live", !.audits = s.audits + 1]
  BY <1>1, <1>2 DEF Login, Audited, Rows
<1> HIDE DEF t
<1>4. t \in Rows /\ SessionChange(s, t) /\ t.session = "live"
  BY <1>1, <1>2, <1>3 DEF Rows, SessionChange
<1> QED
  BY <1>4, SessionServes DEF Serves, Told, t

LEMMA LogoutServes ==
  ASSUME NEW s, Good(s), NEW k, k.op = "logout", Logout(s).ok
  PROVE  Serves(k, s, Logout(s).db)
<1> DEFINE t == Logout(s).db
<1>1. s \in Rows /\ s.audits \in Nat /\ s.audits + 1 \in Nat
  BY DEF Good, Rows
<1>2. s.session \in {"live", "revoked"}
  <2>1. s.session \in {"none", "live", "revoked"}
    BY <1>1 DEF Rows
  <2>2. s.session = "none" => Logout(s) = [ok |-> FALSE, db |-> s]
    BY DEF Logout, Revocable, Rejected
  <2> QED
    BY <2>1, <2>2
<1>3. CASE s.session = "revoked"
  <2>1. t = s
    BY <1>3 DEF Logout, Revocable
  <2> QED
    BY <1>3, <2>1 DEF Serves, Grows, Told, t
<1>4. CASE s.session = "live"
  <2>1. t = [s EXCEPT !.session = "revoked", !.audits = s.audits + 1]
    BY <1>1, <1>4 DEF Logout, Revocable, Audited, Rows
  <2> HIDE DEF t
  <2>2. t \in Rows /\ SessionChange(s, t) /\ t.session = "revoked"
    BY <1>1, <1>4, <2>1 DEF Rows, SessionChange
  <2> QED
    BY <2>2, SessionServes DEF Serves, Told, t
<1> QED
  BY <1>2, <1>3, <1>4

LEMMA CallsServe ==
  ASSUME NEW s, Good(s), NEW k \in ServiceCalls, ServiceOutcome(k, s).ok
  PROVE  Serves(k, s, ServiceOutcome(k, s).db)
<1>1. \/ k \in CreditCalls /\ k.op \in {"open", "deposit", "hold"}
      \/ k.op \in {"bootstrap", "createuser", "login", "logout"}
  BY DEF ServiceCalls, CreditCalls, SessionCalls
<1>2. /\ k.op = "open"       => ServiceOutcome(k, s) = OpenAccount(s)
      /\ k.op = "deposit"    => ServiceOutcome(k, s) = Deposit(k, s)
      /\ k.op = "hold"       => ServiceOutcome(k, s) = Reserve(k, s)
      /\ k.op = "bootstrap"  => ServiceOutcome(k, s) = Bootstrap(s)
      /\ k.op = "createuser" => ServiceOutcome(k, s) = CreateUser(s)
      /\ k.op = "login"      => ServiceOutcome(k, s) = Login(s)
      /\ k.op = "logout"     => ServiceOutcome(k, s) = Logout(s)
  BY DEF ServiceOutcome
<1> QED
  BY <1>1, <1>2, OpenServes, DepositServes, HoldServes, BootstrapServes, CreateUserServes,
     LoginServes, LogoutServes

-------------------------------------------------------------------------------
(* The database.                                                             *)

\* The state is good, a transaction works on a state that was, none of which has
\* anything the state has lost, and what callers were told is there.
DInv ==
  /\ Good(db)
  /\ answered \in SUBSET Calls
  /\ \A c \in Callers : phase[c] # "none" => Good(seen[c]) /\ Grows(seen[c], db)
  /\ \A k \in answered : Told(k, db)

LEMMA InitGood ==
  ASSUME Wired, Init
  PROVE  DInv
<1>1. db = EmptyTables
  BY DEF Wired, Init
<1>2. db \in Rows
  BY <1>1 DEF EmptyTables, Rows
<1>3. \A kind : OfKind(db, kind) = {}
  BY <1>1 DEF OfKind, EmptyTables
<1>4. Amounts({}) /\ Sum({}) = 0
  <2>1. Amounts({})
    BY FS_EmptySet DEF Amounts
  <2> QED
    BY <2>1, SumByParts
<1>5. \A kind : TotalIn(db, kind) = 0
  BY <1>3, <1>4 DEF TotalIn
<1>6. Balanced(db)
  BY <1>1, <1>4, <1>5, CreditAssumption DEF EmptyTables, Balanced, Amounts, CreditAssumption
<1>7. Counted(db)
  BY <1>1, <1>2, FlagsAre DEF EmptyTables, Counted, Logins
<1> QED
  BY <1>2, <1>6, <1>7 DEF DInv, Good, Init

\* A step leaves the state, or makes a call of the services on it; told is only who
\* made a call that succeeded.
LEMMA GoodSteps ==
  ASSUME Wired, IInv, DInv, [Next]_vars
  PROVE  DInv'
<1>1. \A k \in Calls : \A s : Outcome(k, s) = ServiceOutcome(k, s) /\ k \in ServiceCalls
  BY DEF Wired
<1>2. \A s, t, u : Grows(s, s) /\ (Grows(s, t) /\ Grows(t, u) => Grows(s, u))
  BY DEF Grows
<1>3. ASSUME NEW c \in Callers, CommitWrite(c) PROVE DInv'
  <2>1. /\ seen[c] = db /\ call[c] \in Calls
        /\ Result(c).ok /\ db' = Result(c).db
        /\ answered' \subseteq answered \cup {call[c]}
        /\ End({c})
    BY <1>3 DEF CommitWrite, Answer, IInv, Types, WriterIsCurrent
  <2>2. Serves(call[c], db, db')
    BY <1>1, <2>1, CallsServe DEF Result, DInv
  <2>3. \A a \in Callers : phase'[a] # "none" => Good(seen'[a]) /\ Grows(seen'[a], db')
    <3>1. \A a \in Callers : phase'[a] # "none" => phase[a] # "none" /\ seen'[a] = seen[a]
      BY <2>1, EndEffect
    <3> QED
      BY <1>2, <2>2, <3>1 DEF DInv, Serves
  <2>4. answered' \in SUBSET Calls /\ \A k \in answered' : Told(k, db')
    BY <1>1, <2>1, <2>2, GrowingKeepsTold DEF DInv, Serves
  <2> QED
    BY <2>2, <2>3, <2>4 DEF DInv, Serves
<1>4. ASSUME NEW c \in Callers, CommitRead(c) PROVE DInv'
  <2>1. /\ phase[c] # "none" /\ call[c] \in Calls
        /\ Result(c).ok /\ Result(c).db = seen[c] /\ db' = db
        /\ answered' \subseteq answered \cup {call[c]}
        /\ End({c})
    BY <1>4 DEF CommitRead, Answer, IInv, Types
  <2>2. Good(seen[c]) /\ Grows(seen[c], db)
    BY <2>1 DEF DInv
  <2>3. Told(call[c], seen[c])
    BY <1>1, <2>1, <2>2, CallsServe DEF Result, Serves
  <2>4. Told(call[c], db)
    BY <1>1, <2>1, <2>2, <2>3, GrowingKeepsTold
  <2>5. \A a \in Callers : phase'[a] # "none" => phase[a] # "none" /\ seen'[a] = seen[a]
    BY <2>1, EndEffect
  <2> QED
    BY <2>1, <2>4, <2>5 DEF DInv
<1>5. ASSUME NEW c \in Callers, NEW k \in Calls, FirstRead(c, k) \/ FirstWrite(c, k)
      PROVE  DInv'
  <2>1. /\ db' = db /\ answered' = answered
        /\ phase[c] = "none"
        /\ phase' \in {[phase EXCEPT ![c] = "read"], [phase EXCEPT ![c] = "write"]}
        /\ seen' = [seen EXCEPT ![c] = db]
    BY <1>5 DEF FirstRead, FirstWrite, Open
  <2>2. \A a \in Callers : /\ a = c => seen'[a] = db
                           /\ a # c => phase'[a] = phase[a] /\ seen'[a] = seen[a]
    BY <2>1 DEF IInv, Types
  <2> QED
    BY <1>2, <2>1, <2>2 DEF DInv
<1>6. ASSUME NEW c \in Callers, Upgrade(c) PROVE DInv'
  <2>1. /\ UNCHANGED <<db, answered, seen>> /\ phase[c] = "read"
        /\ phase' = [phase EXCEPT ![c] = "write"]
    BY <1>6 DEF Upgrade
  <2>2. \A a \in Callers : phase'[a] # "none" => phase[a] # "none"
    BY <2>1 DEF IInv, Types
  <2> QED
    BY <2>1, <2>2 DEF DInv
<1>7. ASSUME NEW gone \in SUBSET Callers, End(gone), UNCHANGED <<db, answered>> PROVE DInv'
  <2>1. \A a \in Callers : phase'[a] # "none" => phase[a] # "none" /\ seen'[a] = seen[a]
    BY <1>7, EndEffect
  <2> QED
    BY <1>7, <2>1 DEF DInv
<1>8. CASE Crash
  BY <1>7, <1>8 DEF Crash
<1>9. ASSUME NEW c \in Callers, Rollback(c) PROVE DInv'
  BY <1>7, <1>9 DEF Rollback
<1>10. CASE UNCHANGED vars
  BY <1>10 DEF vars, DInv
<1> QED
  BY <1>3, <1>4, <1>5, <1>6, <1>8, <1>9, <1>10 DEF Next

LEMMA DatabaseInvariant ==
  ASSUME Wired
  PROVE  Spec => []DInv
<1>1. Init => DInv
  BY InitGood
<1>2. IInv /\ DInv /\ [Next]_vars => DInv'
  BY GoodSteps
<1> QED
  BY <1>1, <1>2, Invariant, PTL DEF Spec

\* The account tells the sum of its entries, no more is held than was deposited, and
\* an overflow stops both, however many calls are in flight, refused or broken off
\* (Deposit and Reserve, credit.go:48 and 89).
THEOREM BalancesAreSums ==
  ASSUME Wired
  PROVE  Spec => []BalancesTellEntries
<1>1. \A kind : Total(kind) = TotalIn(db, kind)
  BY DEF Total, TotalIn, Sum, OfKind
<1>2. DInv => BalancesTellEntries
  BY <1>1 DEF DInv, Good, Balanced, BalancesTellEntries
<1> QED
  BY <1>2, DatabaseInvariant, PTL

\* Each change of a row has its audit row, and nothing else has (store.go:35).
THEOREM ChangesAreAudited ==
  ASSUME Wired
  PROVE  Spec => []AuditsTellChanges
<1>1. DInv => AuditsTellChanges
  BY DEF DInv, Good, Counted, Flags, Logins, AuditsTellChanges
<1> QED
  BY <1>1, DatabaseInvariant, PTL

\* What a caller was told of stays, though it were told by a transaction that read an
\* old snapshot, or the process ended since (Write, database.go:131).
THEOREM AnswersAreKept ==
  ASSUME Wired
  PROVE  Spec => []AnswersStand
<1>1. DInv => AnswersStand
  BY DEF DInv, Told, AnswersStand
<1> QED
  BY <1>1, DatabaseInvariant, PTL
===============================================================================

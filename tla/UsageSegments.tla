----------------------------- MODULE UsageSegments -----------------------------
(***************************************************************************)
(* Usage segments and the tests capacity makes of sets of them.            *)
(***************************************************************************)
EXTENDS Integers, FiniteSets, FiniteSetsExt

CONSTANTS
  Kinds,         \* capacity kinds; a workload has at most one stream of each
  Segments,      \* segments that clients send
  MaxBatch,      \* segments in one call (250 in the code)
  MaxTolerance   \* the largest tolerance of AlignWorkload (5 s), in ticks

\* A segment: its place in the stream, its time range, its idempotency key; its
\* object and checksum are what tells segments of one key apart otherwise.  The
\* kinds are an enumeration, and clients send what they send one after the other.
ASSUME CapacityAssumption ==
  /\ IsFiniteSet(Kinds) /\ IsFiniteSet(Segments)
  /\ Segments \subseteq [sequence : Nat, start : Nat, end : Nat, key : Nat]
  /\ \A s \in Segments : s.start < s.end
  /\ MaxBatch \in Nat \ {0}
  /\ MaxTolerance \in Nat

-------------------------------------------------------------------------------
Lowest(S)  == Min({s.start : s \in S})
Highest(S) == Max({s.end : s \in S})
Edges      == {0} \cup {s.start : s \in Segments} \cup {s.end : s \in Segments}

\* validateInputs: no batch repeats a place or a key.
Batches == {B \in SUBSET Segments :
              /\ Cardinality(B) \in 1..MaxBatch
              /\ \A s, t \in B : s # t => s.sequence # t.sequence /\ s.key # t.key}

\* A segment whose key the stream has must be the same segment; any other takes
\* a place and a key that are free.
Fits_anyPlace(s, S) == \A t \in S : s = t \/ s.key # t.key
Fits(s, S) == \A t \in S : s = t \/ (s.key # t.key /\ s.sequence # t.sequence)

\* validateContinuity
Contiguous(S) ==
  /\ {s.sequence : s \in S} = 0..(Cardinality(S) - 1)
  /\ \A s, t \in S : t.sequence = s.sequence + 1 => s.end <= t.start

\* validateAlignment, over the rows: maxStart - minEnd <= tolerance.
RangesMeet_first(rows, tolerance) ==
  Min({r.first : r \in rows}) <= Min({r.last : r \in rows}) + tolerance
RangesMeet(rows, tolerance) ==
  Max({r.first : r \in rows}) <= Min({r.last : r \in rows}) + tolerance

===============================================================================

----------------------------- MODULE CapacityProofs -----------------------------
(***************************************************************************)
(* Theorems of Capacity, for any kinds, segments and tolerances.  What     *)
(* alignment tests once has to hold when the workload is submitted, so the *)
(* argument is about what no later call can undo: a sealed stream is       *)
(* contiguous, any two aligned streams meet, and a workload in metering    *)
(* has no stream that is not aligned.                                      *)
(***************************************************************************)
EXTENDS Capacity, FiniteSetTheorems, WellFoundedInduction, TLAPS

-------------------------------------------------------------------------------
(* Least and greatest members.  The library's induction is used on a set, as *)
(* the well-foundedness of < on the naturals.                                *)

LEMMA LeastNatural ==
  ASSUME NEW T \in SUBSET Nat, T # {}
  PROVE  \E x \in T : \A y \in T : x <= y
<1> DEFINE R == {ss \in Nat \X Nat : ss[1] < ss[2]}
<1>1. IsWellFoundedOn(R, Nat)
  BY NatLessThanWellFounded, Zenon DEF OpToRel
<1>2. \A x, y \in Nat : <<x, y>> \in R <=> x < y
  OBVIOUS
<1> HIDE DEF R
<1>3. PICK x \in T : \A y \in T : ~(<<y, x>> \in R)
  BY <1>1, WFMin
<1>4. ASSUME NEW y \in T PROVE x <= y
  <2>1. ~(y < x) /\ x \in Nat /\ y \in Nat
    BY <1>2, <1>3
  <2> QED
    BY <2>1
<1> QED
  BY <1>4

Bounded(T) == \E x \in T : \A y \in T : x >= y

\* Of the nonempty sets without a greatest member one would be smallest.
LEMMA GreatestOfFinite ==
  ASSUME NEW T \in SUBSET Nat, IsFiniteSet(T), T # {}
  PROVE  Bounded(T)
<1> DEFINE Bad  == {U \in SUBSET T : U # {} /\ ~Bounded(U)}
           Size == {Cardinality(U) : U \in Bad}
<1> SUFFICES ASSUME T \in Bad PROVE FALSE
  OBVIOUS
<1>1. \A U \in SUBSET T : IsFiniteSet(U) /\ Cardinality(U) \in Nat
  BY FS_Subset, FS_CardinalityType
<1>2. Size \in SUBSET Nat /\ Size # {}
  BY <1>1
<1>3. PICK n \in Size : \A m \in Size : n <= m
  BY <1>2, LeastNatural
<1>4. PICK U \in Bad : \A V \in Bad : Cardinality(U) <= Cardinality(V)
  BY <1>3
<1>5. PICK x \in U : TRUE
  BY <1>4
<1>6. U \ {x} \in SUBSET T /\ Cardinality(U \ {x}) < Cardinality(U)
  <2>1. U \in SUBSET T /\ U \ {x} \in SUBSET T
    BY <1>4
  <2>2. IsFiniteSet(U) /\ Cardinality(U) \in Nat
    BY <1>1, <2>1
  <2> HIDE DEF Bad, Size
  <2>3. Cardinality(U \ {x}) = Cardinality(U) - 1
    BY <1>5, <2>2, FS_RemoveElement
  <2> QED
    BY <2>1, <2>2, <2>3
<1>7. U \ {x} \notin Bad
  BY <1>1, <1>4, <1>6
<1>8. CASE U \ {x} = {}
  BY <1>4, <1>5, <1>8 DEF Bounded
<1>9. CASE U \ {x} # {}
  <2>1. PICK m \in U \ {x} : \A y \in U \ {x} : m >= y
    BY <1>6, <1>7, <1>9 DEF Bounded
  <2>2. m \in Nat /\ x \in Nat /\ U \subseteq Nat
    BY <1>4, <1>5, <2>1
  <2>3. Bounded(U)
    <3>1. CASE x <= m
      BY <1>5, <2>1, <2>2, <3>1 DEF Bounded
    <3>2. CASE m <= x
      BY <1>5, <2>1, <2>2, <3>2 DEF Bounded
    <3> QED
      BY <2>2, <3>1, <3>2
  <2> QED
    BY <1>4, <2>3
<1> QED
  BY <1>8, <1>9

LEMMA MinIs ==
  ASSUME NEW T \in SUBSET Nat, T # {}
  PROVE  Min(T) \in T /\ \A y \in T : Min(T) <= y
BY LeastNatural DEF Min

LEMMA MaxIs ==
  ASSUME NEW T \in SUBSET Nat, IsFiniteSet(T), T # {}
  PROVE  Max(T) \in T /\ \A y \in T : y <= Max(T)
<1>1. PICK x \in T : \A y \in T : x >= y
  BY GreatestOfFinite DEF Bounded
<1>2. Max(T) \in T /\ \A y \in T : Max(T) >= y
  BY <1>1 DEF Max
<1> QED
  BY <1>2

-------------------------------------------------------------------------------
(* Sets of segments.                                                         *)

LEMMA SegmentFacts ==
  ASSUME NEW s \in Segments
  PROVE  /\ s.sequence \in Nat /\ s.start \in Nat /\ s.end \in Nat
         /\ s.start < s.end
         /\ s.start \in Edges /\ s.end \in Edges
BY CapacityAssumption DEF CapacityAssumption, Edges

LEMMA EdgesAreNatural == Edges \subseteq Nat
BY SegmentFacts DEF Edges

\* The set a stream holds can be counted and has a first and a last moment.
LEMMA Spans ==
  ASSUME NEW S \in SUBSET Segments, S # {}
  PROVE  /\ Cardinality(S) \in 0..Cardinality(Segments)
         /\ Cardinality(S) # 0
         /\ Lowest(S) \in Edges
         /\ Highest(S) \in Edges
<1>1. IsFiniteSet(Segments) /\ IsFiniteSet(S)
  BY CapacityAssumption, FS_Subset DEF CapacityAssumption
<1>2. /\ Cardinality(S) \in Nat /\ Cardinality(Segments) \in Nat
      /\ Cardinality(S) <= Cardinality(Segments)
      /\ Cardinality(S) # 0
  BY <1>1, FS_CardinalityType, FS_Subset, FS_EmptySet
<1>3. Lowest(S) \in Edges
  <2> DEFINE T == {s.start : s \in S}
  <2>1. T \in SUBSET Nat /\ T # {} /\ T \subseteq Edges
    BY SegmentFacts
  <2> HIDE DEF T
  <2>2. Min(T) \in Edges
    BY <2>1, MinIs
  <2> QED
    BY <2>2 DEF Lowest, T
<1>4. Highest(S) \in Edges
  <2> DEFINE T == {s.end : s \in S}
             f == [s \in S |-> s.end]
  <2>1. T \in SUBSET Nat /\ T # {} /\ T \subseteq Edges
    BY SegmentFacts
  <2>2. f \in Surjection(S, T)
    BY DEF Surjection
  <2>3. IsFiniteSet(T)
    BY <1>1, <2>2, FS_Surjection
  <2> HIDE DEF T, f
  <2>4. Max(T) \in Edges
    BY <2>1, <2>3, MaxIs
  <2> QED
    BY <2>4 DEF Highest, T
<1> QED
  BY <1>2, <1>3, <1>4

\* Seal looks at neighbours; that no two segments overlap follows, by the least
\* place at which it would not.
LEMMA ContiguousInOrder ==
  ASSUME NEW S \in SUBSET Segments, Contiguous(S)
  PROVE  \A s, t \in S : s.sequence < t.sequence => s.end <= t.start
<1> SUFFICES ASSUME NEW s \in S,
                    \E t \in S : s.sequence < t.sequence /\ ~(s.end <= t.start)
             PROVE  FALSE
  OBVIOUS
<1> DEFINE Late == {t \in S : s.sequence < t.sequence /\ ~(s.end <= t.start)}
           Places == {t.sequence : t \in Late}
<1>1. Places \in SUBSET Nat /\ Places # {}
  BY SegmentFacts
<1>2. PICK n \in Places : \A m \in Places : n <= m
  BY <1>1, LeastNatural
<1>3. PICK t \in Late : \A u \in Late : t.sequence <= u.sequence
  BY <1>2
<1> DEFINE count == Cardinality(S)
<1>4. count \in Nat
  BY CapacityAssumption, FS_Subset, FS_CardinalityType DEF CapacityAssumption
<1>5. {u.sequence : u \in S} = 0..(count - 1)
  BY DEF Contiguous
<1>6. /\ s.sequence \in Nat /\ s.end \in Nat /\ t.sequence \in Nat /\ t.start \in Nat
      /\ s.sequence < t.sequence /\ ~(s.end <= t.start) /\ t \in S
  BY <1>3, SegmentFacts
<1>7. t.sequence - 1 \in {u.sequence : u \in S}
  <2>1. t.sequence \in 0..(count - 1)
    BY <1>5, <1>6
  <2> HIDE DEF count, Late
  <2>2. t.sequence - 1 \in 0..(count - 1)
    BY <1>4, <1>6, <2>1
  <2> QED
    BY <1>5, <2>2
<1>8. PICK u \in S : u.sequence = t.sequence - 1
  BY <1>7
<1>9. u.end <= t.start /\ u.start < u.end /\ u.start \in Nat /\ u.end \in Nat
  BY <1>6, <1>8, SegmentFacts DEF Contiguous
<1>10. CASE u.sequence = s.sequence
  BY <1>6, <1>8, <1>10 DEF Contiguous
<1>11. CASE u.sequence # s.sequence
  <2>1. s.sequence < u.sequence
    BY <1>6, <1>8, <1>11
  <2>2. u \notin Late
    BY <1>3, <1>6, <1>8
  <2>3. s.end <= u.start
    BY <2>1, <2>2
  <2> QED
    BY <1>6, <1>9, <2>3
<1> QED
  BY <1>10, <1>11

-------------------------------------------------------------------------------
(* The inductive invariant.                                                  *)

Rows ==
  /\ workload \in {"planned", "ready", "executing", "metering", "settled", "failed",
                   "canceled"}
  /\ streams \in [Kinds -> StreamRow]
  /\ records \in [Kinds -> SUBSET Segments]

\* Of one stream: its segments do not clash, a stream that was not opened has
\* none, and a sealed one is its digest, is not empty and is contiguous.
Sound(k) ==
  /\ \A s, t \in records[k] : s # t => s.sequence # t.sequence /\ s.key # t.key
  /\ streams[k].status = "none" => records[k] = {}
  /\ records[k] # {} => /\ streams[k].count = Cardinality(records[k])
                        /\ streams[k].first = Lowest(records[k])
                        /\ streams[k].last = Highest(records[k])
  /\ streams[k].status \in {"sealed", "aligned"} =>
       /\ streams[k].digest = records[k]
       /\ records[k] # {}
       /\ Contiguous(records[k])

AlignedMeet ==
  \A j, k \in Kinds :
    streams[j].status = "aligned" /\ streams[k].status = "aligned" =>
      streams[j].first <= streams[k].last + MaxTolerance

Metered == workload \in {"metering", "settled", "failed"} => Submittable

StreamInv ==
  /\ Rows
  /\ \A k \in Kinds : Sound(k)
  /\ AlignedMeet
  /\ Metered

-------------------------------------------------------------------------------
LEMMA StreamInit == Init => StreamInv
<1> SUFFICES ASSUME Init PROVE StreamInv
  OBVIOUS
<1>1. NoStream \in StreamRow
  <2>1. Cardinality(Segments) \in Nat
    BY CapacityAssumption, FS_CardinalityType DEF CapacityAssumption
  <2> QED
    BY <2>1 DEF NoStream, StreamRow, Edges
<1>2. \A k \in Kinds : streams[k].status = "none" /\ records[k] = {}
  BY DEF Init, NoStream
<1>3. Rows
  BY <1>1 DEF Init, Rows
<1> QED
  BY <1>2, <1>3 DEF Init, StreamInv, Sound, AlignedMeet, Metered

\* A call on one stream that is or was not aligned.
LEMMA OneStream ==
  ASSUME StreamInv, NEW k \in Kinds, NEW row \in StreamRow, NEW S \in SUBSET Segments,
         streams' = [streams EXCEPT ![k] = row],
         records' = [records EXCEPT ![k] = S],
         workload' = workload,
         workload \in {"ready", "executing"},
         row.status # "aligned",
         Sound(k)'
  PROVE  StreamInv'
<1>1. Rows'
  BY DEF StreamInv, Rows
<1>2. \A j \in Kinds \ {k} : streams'[j] = streams[j] /\ records'[j] = records[j]
  BY DEF StreamInv, Rows
<1>3. streams'[k] = row
  BY DEF StreamInv, Rows
<1>4. \A j \in Kinds : Sound(j)'
  <2> SUFFICES ASSUME NEW j \in Kinds, j # k PROVE Sound(j)'
    OBVIOUS
  <2> QED
    BY <1>2 DEF StreamInv, Sound
<1>5. AlignedMeet'
  BY <1>2, <1>3 DEF StreamInv, AlignedMeet
<1>6. Metered'
  BY DEF Metered
<1> QED
  BY <1>1, <1>4, <1>5, <1>6 DEF StreamInv

LEMMA OpenKeeps ==
  ASSUME StreamInv, NEW k \in Kinds, OpenStream(k)
  PROVE  StreamInv'
<1> DEFINE row == [NoStream EXCEPT !.status = "open"]
<1>1. row \in StreamRow /\ row.status = "open"
  <2>1. Cardinality(Segments) \in Nat
    BY CapacityAssumption, FS_CardinalityType DEF CapacityAssumption
  <2> QED
    BY <2>1 DEF NoStream, StreamRow, Edges
<1>2. streams' = [streams EXCEPT ![k] = row] /\ records' = records /\ records[k] = {}
  BY DEF OpenStream, StreamInv, Sound
<1> HIDE DEF row
<1>3. records' = [records EXCEPT ![k] = {}] /\ streams'[k] = row
  BY <1>2 DEF StreamInv, Rows
<1>4. Sound(k)'
  BY <1>1, <1>2, <1>3 DEF Sound
<1> QED
  BY <1>1, <1>2, <1>3, <1>4, OneStream DEF OpenStream

LEMMA AppendKeeps ==
  ASSUME StreamInv, NEW k \in Kinds, NEW batch \in Batches, Append(k, batch)
  PROVE  StreamInv'
<1> DEFINE all == records[k] \cup batch
           row == Aggregate(streams[k], records[k], batch)
<1>1. batch \in SUBSET Segments /\ all \in SUBSET Segments /\ all # {}
  <2>1. records[k] \in SUBSET Segments /\ batch \in SUBSET Segments
    BY DEF StreamInv, Rows, Batches
  <2>2. ~(batch \subseteq records[k])
    BY DEF Append
  <2> QED
    BY <2>1, <2>2
<1>2. /\ row \in StreamRow /\ row.status = "open"
      /\ row.count = Cardinality(all) /\ row.first = Lowest(all) /\ row.last = Highest(all)
  <2>1. streams[k] \in StreamRow /\ streams[k].status = "open"
    BY DEF Append, Appendable, StreamInv, Rows
  <2>2. row = [streams[k] EXCEPT !.count = Cardinality(all), !.first = Lowest(all),
                                 !.last = Highest(all)]
    BY DEF Aggregate
  <2>3. /\ Cardinality(all) \in 0..Cardinality(Segments)
        /\ Lowest(all) \in Edges /\ Highest(all) \in Edges
    BY <1>1, Spans
  <2> HIDE DEF all, row
  <2> QED
    BY <2>1, <2>2, <2>3 DEF StreamRow
<1>3. streams' = [streams EXCEPT ![k] = row] /\ records' = [records EXCEPT ![k] = all]
  BY DEF Append
<1>4. \A s, t \in all : s # t => s.sequence # t.sequence /\ s.key # t.key
  <2>1. \A s, t \in records[k] : s # t => s.sequence # t.sequence /\ s.key # t.key
    BY DEF StreamInv, Sound
  <2>2. \A s, t \in batch : s # t => s.sequence # t.sequence /\ s.key # t.key
    BY DEF Batches
  <2>3. \A s \in batch, t \in records[k] : s # t => s.sequence # t.sequence /\ s.key # t.key
    BY DEF Append, Fits
  <2> QED
    BY <2>1, <2>2, <2>3
<1> HIDE DEF row, all
<1>5. streams'[k] = row /\ records'[k] = all
  BY <1>3 DEF StreamInv, Rows
<1>6. Sound(k)'
  BY <1>2, <1>4, <1>5 DEF Sound
<1> QED
  BY <1>1, <1>2, <1>3, <1>6, OneStream DEF Append, Appendable

LEMMA SealKeeps ==
  ASSUME StreamInv, NEW k \in Kinds, Seal(k)
  PROVE  StreamInv'
<1> DEFINE row == [streams[k] EXCEPT !.status = "sealed", !.digest = records[k]]
<1>1. streams[k] \in StreamRow /\ records[k] \in SUBSET Segments
  BY DEF StreamInv, Rows
<1>2. /\ row \in StreamRow /\ row.status = "sealed" /\ row.digest = records[k]
      /\ row.count = streams[k].count
      /\ row.first = streams[k].first /\ row.last = streams[k].last
  BY <1>1 DEF StreamRow
<1>3. streams' = [streams EXCEPT ![k] = row] /\ records' = records
  BY DEF Seal, StreamInv, Rows
<1> HIDE DEF row
<1>4. streams'[k] = row /\ records' = [records EXCEPT ![k] = records[k]]
  BY <1>3 DEF StreamInv, Rows
<1>5. Sound(k)'
  BY <1>2, <1>3, <1>4 DEF Sound, StreamInv, Seal
<1> QED
  BY <1>1, <1>2, <1>3, <1>4, <1>5, OneStream DEF Seal

\* AlignWorkload aligns every opened stream at once; none was aligned before.
LEMMA AlignKeeps ==
  ASSUME StreamInv, NEW tolerance \in 0..MaxTolerance, AlignWorkload(tolerance)
  PROVE  StreamInv'
<1> DEFINE row(k) == AlignedRow(streams[k])
<1>1. \A k \in Opened :
        /\ k \in Kinds /\ streams[k] \in StreamRow /\ streams[k].status = "sealed"
        /\ row(k) \in StreamRow /\ row(k).status = "aligned"
        /\ row(k).digest = streams[k].digest /\ row(k).count = streams[k].count
        /\ row(k).first = streams[k].first /\ row(k).last = streams[k].last
  <2> SUFFICES ASSUME NEW k \in Opened
               PROVE  /\ k \in Kinds /\ streams[k] \in StreamRow
                      /\ streams[k].status = "sealed"
                      /\ row(k) \in StreamRow /\ row(k).status = "aligned"
                      /\ row(k).digest = streams[k].digest /\ row(k).count = streams[k].count
                      /\ row(k).first = streams[k].first /\ row(k).last = streams[k].last
    OBVIOUS
  <2>1. k \in Kinds /\ streams[k] \in StreamRow /\ streams[k].status = "sealed"
    BY DEF AlignWorkload, Opened, StreamInv, Rows
  <2> QED
    BY <2>1 DEF AlignedRow, StreamRow
<1>2. \A k \in Kinds : streams'[k] = IF k \in Opened THEN row(k) ELSE streams[k]
  BY DEF AlignWorkload
<1>3. streams' \in [Kinds -> StreamRow]
  <2>1. \A k \in Kinds : (IF k \in Opened THEN AlignedRow(streams[k]) ELSE streams[k])
                           \in StreamRow
    BY <1>1 DEF StreamInv, Rows
  <2> QED
    BY <2>1 DEF AlignWorkload
<1>4. records' = records /\ workload' = workload /\ workload = "executing"
  BY DEF AlignWorkload
<1> HIDE DEF row
<1>5. Rows'
  BY <1>3, <1>4 DEF StreamInv, Rows
<1>6. \A k \in Kinds : Sound(k)'
  <2> SUFFICES ASSUME NEW k \in Kinds PROVE Sound(k)'
    OBVIOUS
  <2>1. Sound(k)
    BY DEF StreamInv
  <2>2. CASE k \in Opened
    BY <1>1, <1>2, <1>4, <2>1, <2>2 DEF Sound
  <2>3. CASE k \notin Opened
    BY <1>2, <1>4, <2>1, <2>3 DEF Sound
  <2> QED
    BY <2>2, <2>3
<1>7. \A j, k \in Opened : streams[j].first <= streams[k].last + MaxTolerance
  <2> SUFFICES ASSUME NEW j \in Opened, NEW k \in Opened
               PROVE  streams[j].first <= streams[k].last + MaxTolerance
    OBVIOUS
  <2> DEFINE F == {r.first : r \in {streams[i] : i \in Opened}}
             L == {r.last : r \in {streams[i] : i \in Opened}}
  <2>1. \A i \in Opened : streams[i].first \in Nat /\ streams[i].last \in Nat
    BY <1>1, EdgesAreNatural DEF StreamRow
  <2>2. F \in SUBSET Nat /\ L \in SUBSET Nat /\ streams[j].first \in F /\ streams[k].last \in L
    BY <2>1
  <2>3. IsFiniteSet(F)
    <3> DEFINE f == [i \in Opened |-> streams[i].first]
    <3>1. IsFiniteSet(Opened)
      BY CapacityAssumption, FS_Subset DEF CapacityAssumption, Opened
    <3>2. f \in Surjection(Opened, F)
      BY DEF Surjection
    <3> HIDE DEF f, F
    <3> QED
      BY <3>1, <3>2, FS_Surjection
  <2>4. Max(F) <= Min(L) + tolerance
    BY DEF AlignWorkload, RangesMeet
  <2> HIDE DEF F, L
  <2>5. streams[j].first <= Max(F) /\ Max(F) \in Nat
    BY <2>2, <2>3, MaxIs
  <2>6. Min(L) <= streams[k].last /\ Min(L) \in Nat
    BY <2>2, MinIs
  <2>7. tolerance \in Nat /\ MaxTolerance \in Nat /\ tolerance <= MaxTolerance
    BY CapacityAssumption DEF CapacityAssumption
  <2> QED
    BY <2>1, <2>4, <2>5, <2>6, <2>7
<1>8. AlignedMeet'
  <2> SUFFICES ASSUME NEW j \in Kinds, NEW k \in Kinds,
                      streams'[j].status = "aligned", streams'[k].status = "aligned"
               PROVE  streams'[j].first <= streams'[k].last + MaxTolerance
    BY DEF AlignedMeet
  <2>1. j \in Opened /\ k \in Opened
    BY <1>2 DEF Opened
  <2> QED
    BY <1>1, <1>2, <1>7, <2>1
<1>9. Metered'
  BY <1>4 DEF Metered
<1> QED
  BY <1>5, <1>6, <1>8, <1>9 DEF StreamInv

LEMMA WorkloadCallKeeps ==
  ASSUME StreamInv, UNCHANGED <<streams, records>>,
         workload' \in {"planned", "ready", "executing", "metering", "settled", "failed",
                        "canceled"},
         workload' \in {"metering", "settled", "failed"} =>
           workload = "metering" \/ Submittable \/ workload' = workload
  PROVE  StreamInv'
<1>1. Rows' /\ AlignedMeet'
  BY DEF StreamInv, Rows, AlignedMeet
<1>2. \A k \in Kinds : Sound(k)'
  BY DEF StreamInv, Sound
<1>3. Metered'
  BY DEF StreamInv, Metered, Submittable, Opened
<1> QED
  BY <1>1, <1>2, <1>3 DEF StreamInv

LEMMA StreamNext == StreamInv /\ [Next]_vars => StreamInv'
<1> SUFFICES ASSUME StreamInv, [Next]_vars PROVE StreamInv'
  OBVIOUS
<1>1. CASE UNCHANGED vars
  BY <1>1, WorkloadCallKeeps DEF vars, StreamInv, Rows
<1>2. CASE MarkReady \/ Start \/ Submit \/ Settle \/ Fail \/ Cancel
  BY <1>2, WorkloadCallKeeps DEF MarkReady, Start, Submit, Settle, Fail, Cancel, WorkloadCall
<1>3. ASSUME NEW k \in Kinds, OpenStream(k) PROVE StreamInv'
  BY <1>3, OpenKeeps
<1>4. ASSUME NEW k \in Kinds, Seal(k) PROVE StreamInv'
  BY <1>4, SealKeeps
<1>5. ASSUME NEW k \in Kinds, NEW batch \in Batches, Append(k, batch) PROVE StreamInv'
  BY <1>5, AppendKeeps
<1>6. ASSUME NEW tolerance \in 0..MaxTolerance, AlignWorkload(tolerance) PROVE StreamInv'
  BY <1>6, AlignKeeps
<1> QED
  BY <1>1, <1>2, <1>3, <1>4, <1>5, <1>6 DEF Next

\* A stream that was sealed has segments, and no gap between their places.
SealedIsComplete ==
  \A k \in Kinds : streams[k].status \in {"sealed", "aligned"} =>
    records[k] # {} /\ Contiguous(records[k])

\* What Append, Seal and AlignWorkload establish, each call after it keeps.
THEOREM StreamsAreSound == Spec => []StreamInv
BY StreamInit, StreamNext, PTL DEF Spec

-------------------------------------------------------------------------------
(* What follows from the invariant.                                          *)

\* Streams and segments are well formed, and no two segments of a stream have one
\* place or one key, whatever batches are sent again.
THEOREM TypeCorrect == Spec => []TypeOK
<1>1. StreamInv => TypeOK
  BY DEF StreamInv, Rows, Sound, TypeOK
<1> QED
  BY <1>1, StreamsAreSound, PTL

\* The aggregates of a stream's row tell what its segments are.
THEOREM RowsTell == Spec => []AggregatesTell
<1>1. StreamInv => AggregatesTell
  BY DEF StreamInv, Sound, AggregatesTell
<1> QED
  BY <1>1, StreamsAreSound, PTL

\* A sealed stream is the set its digest is of, numbered from zero, in order.
THEOREM SealedStreamsAreFixed == Spec => []SealedIsFixed
<1>1. ASSUME StreamInv PROVE SealedIsFixed
  <2> SUFFICES ASSUME NEW k \in Kinds, streams[k].status \in {"sealed", "aligned"}
               PROVE  /\ streams[k].digest = records[k]
                      /\ \A s, t \in records[k] : s.sequence < t.sequence => s.end <= t.start
                      /\ \A n \in 0..(Cardinality(records[k]) - 1) :
                           \E s \in records[k] : s.sequence = n
    BY DEF SealedIsFixed
  <2>1. streams[k].digest = records[k] /\ Contiguous(records[k])
    BY <1>1 DEF StreamInv, Sound
  <2>2. records[k] \in SUBSET Segments
    BY <1>1 DEF StreamInv, Rows
  <2>3. {s.sequence : s \in records[k]} = 0..(Cardinality(records[k]) - 1)
    BY <2>1 DEF Contiguous
  <2> QED
    BY <2>1, <2>2, <2>3, ContiguousInOrder
<1> QED
  BY <1>1, StreamsAreSound, PTL

\* The streams of a workload in metering meet, though alignment, submission and
\* the opening of streams are calls of their own.
THEOREM MeteredStreamsDoMeet == Spec => []MeteredStreamsMeet
<1>1. ASSUME StreamInv, workload \in {"metering", "settled", "failed"}
      PROVE  /\ Cardinality(Opened) >= 2
             /\ \A j, k \in Opened :
                  /\ records[j] # {} /\ records[k] # {}
                  /\ Lowest(records[j]) <= Highest(records[k]) + MaxTolerance
  <2>1. Submittable
    BY <1>1 DEF StreamInv, Metered
  <2>2. \A k \in Opened : k \in Kinds /\ streams[k].status = "aligned"
    BY <2>1 DEF Submittable, Opened
  <2>3. \A k \in Opened : /\ records[k] # {}
                          /\ streams[k].first = Lowest(records[k])
                          /\ streams[k].last = Highest(records[k])
    BY <1>1, <2>2 DEF StreamInv, Sound
  <2>4. \A j, k \in Opened : streams[j].first <= streams[k].last + MaxTolerance
    BY <1>1, <2>2 DEF StreamInv, AlignedMeet
  <2>5. Cardinality(Opened) >= 2
    BY <2>1 DEF Submittable
  <2> QED
    BY <2>3, <2>4, <2>5
<1>2. StreamInv => MeteredStreamsMeet
  BY <1>1 DEF MeteredStreamsMeet
<1> QED
  BY <1>2, StreamsAreSound, PTL

\* No call changes the streams of a workload that was submitted or canceled.
THEOREM MeteredIsNotChanged == Spec => MeteredIsFrozen
<1>1. [Next]_vars => [(workload \in {"metering", "settled", "failed", "canceled"})
                       => UNCHANGED <<streams, records>>]_vars
  BY DEF Next, MarkReady, Start, Submit, Settle, Fail, Cancel, WorkloadCall, OpenStream, Seal,
         Append, Appendable, AlignWorkload
<1> QED
  BY <1>1, PTL DEF Spec, MeteredIsFrozen

\* The streams that metering bills are not empty and have no gap.
THEOREM MeteredIsComplete == Spec => []SealedIsComplete
<1>1. StreamInv => SealedIsComplete
  BY DEF StreamInv, Sound, SealedIsComplete
<1> QED
  BY <1>1, StreamsAreSound, PTL

=============================================================================

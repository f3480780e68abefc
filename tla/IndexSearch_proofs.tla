------------------------- MODULE IndexSearch_proofs -------------------------
(***************************************************************************)
(* A search misses none of the nearest rows, and answers with rows the     *)
(* callers hold.  IndexInv gives the scanned lanes and records their       *)
(* meaning while mutex_ is held shared; distinct tokens then lead back to  *)
(* the rows they number, and intervals that hold keep a row among the topk *)
(* nearest above fewer than topk upper endpoints.  Ranking list after list *)
(* then loses none of them, so what a search returns is exact; and no      *)
(* valid request meets an internal error of the selection.                 *)
(***************************************************************************)
EXTENDS IndexSearch, ExternalListIndex_proofs

(***************************************************************************)
(* The spans of the probed lists.                                          *)
(***************************************************************************)
\* What a search may rely on when it probes the first nprobe lists of a route:
\* none of them is torn, and the lock is free of updates.
Probing(q, nprobe) ==
  /\ phase = "idle" /\ q \in Queries /\ nprobe \in 1 .. NumLists
  /\ \A k \in 0 .. (nprobe - 1) : Route[q][k] \notin torn

\* Positions of a route are lists, and no list is probed twice.
LEMMA RouteFacts ==
  ASSUME IndexInv, NEW q \in Queries, NEW nprobe \in 1 .. NumLists
  PROVE  /\ 0 .. (nprobe - 1) \subseteq Lists /\ Lists \subseteq Nat
         /\ \A k \in Lists : Route[q][k] \in Lists /\ SizeAt(q, k) \in Nat
         /\ \A j, k \in Lists : Route[q][j] = Route[q][k] => j = k
<1>1. /\ 0 .. (nprobe - 1) \subseteq Lists /\ Lists \subseteq Nat
  BY NumListsAssumption, IdLimitAssumption DEF Lists
<1>2. /\ Route[q] \in [Lists -> Lists]
      /\ \A j, k \in Lists : Route[q][j] = Route[q][k] => j = k
  BY RouteAssumption
<1>3. \A l \in Lists : lists[l].size \in Nat
  BY ListTypes, SMTT(30) DEF IndexInv
<1>4. QED
  BY <1>1, <1>2, <1>3 DEF SizeAt

\* What it may rely on even when some of them are torn.
Scanning(q, nprobe) ==
  /\ q \in Queries /\ nprobe \in 1 .. NumLists
  /\ \A k \in 0 .. (nprobe - 1) : \A s \in 0 .. (SizeAt(q, k) - 1) : s \in Slots

\* The record of slot s of the list at position k.
ProbedRecord(q, k, s) == file[Route[q][k]].rec[s]

\* Every slot of a probed list holds a row the callers were told of.
LEMMA ProbedRow ==
  ASSUME IndexInv, NEW q, NEW nprobe, Probing(q, nprobe),
         NEW k \in 0 .. (nprobe - 1), NEW s \in 0 .. (SizeAt(q, k) - 1)
  PROVE  /\ Route[q][k] \in Lists /\ s \in Slots
         /\ ProbedRecord(q, k, s).id \in HeldIn(Route[q][k])
         /\ told[ProbedRecord(q, k, s).id] \in Vecs
         /\ ProbedRecord(q, k, s).vec = told[ProbedRecord(q, k, s).id]
         /\ dir.loc[ProbedRecord(q, k, s).id] = <<Route[q][k], s>>
         /\ lists[Route[q][k]].lane[s] = Code[told[ProbedRecord(q, k, s).id]]
<1> DEFINE l == Route[q][k]
           r == file[l].rec[s]
<1>1. l \in Lists /\ l \notin torn /\ phase = "idle"
  BY RouteFacts DEF Probing
<1>2. RowsServed(l)
  BY <1>1, IdleServed
<1>3. s \in 0 .. (lists[l].size - 1) /\ s \in Slots
  BY <1>1, <1>2, ServedSlots, SMTT(30) DEF IndexInv, SizeAt
<1>4. /\ r.id \in HeldIn(l) /\ r.vec = told[r.id] /\ dir.loc[r.id] = <<l, s>>
      /\ lists[l].lane[s] = Code[r.vec]
  BY <1>2, <1>3 DEF RowsServed
<1>5. told[r.id] \in Vecs
  BY <1>4 DEF HeldIn, IndexInv, PlanInv, TypeOK
<1>6. QED
  BY <1>1, <1>3, <1>4, <1>5 DEF ProbedRecord

\* Lists that are whole can be scanned, and so can all lists that fit the ID space.
LEMMA ProbingScans ==
  ASSUME IndexInv, NEW q, NEW nprobe, Probing(q, nprobe)
  PROVE  Scanning(q, nprobe)
BY ProbedRow DEF Probing, Scanning

LEMMA FitScans ==
  ASSUME IndexInv, SizesFit, NEW q \in Queries, NEW nprobe \in 1 .. NumLists
  PROVE  Scanning(q, nprobe)
<1> SUFFICES ASSUME NEW k \in 0 .. (nprobe - 1), NEW s \in 0 .. (SizeAt(q, k) - 1)
             PROVE  s \in Slots
  BY DEF Scanning
<1>1. Route[q][k] \in Lists /\ SizeAt(q, k) \in Nat
  BY RouteFacts
<1>2. QED
  BY <1>1, SizedSlots DEF SizeAt

\* What ProbedRow says of the callers' IDs, for every position at once.
LEMMA ProbedHeld ==
  ASSUME IndexInv, NEW q, NEW nprobe, Probing(q, nprobe)
  PROVE  \A k \in 0 .. (nprobe - 1) : \A s \in 0 .. (SizeAt(q, k) - 1) :
           /\ ProbedRecord(q, k, s).id \in HeldIn(Route[q][k])
           /\ dir.loc[ProbedRecord(q, k, s).id] = <<Route[q][k], s>>
BY ProbedRow

\* Every row the callers hold in a probed list is in one of its slots.
LEMMA OwedRow ==
  ASSUME IndexInv, NEW q, NEW nprobe, Probing(q, nprobe),
         NEW k \in 0 .. (nprobe - 1), NEW i \in HeldIn(Route[q][k])
  PROVE  \E s \in 0 .. (SizeAt(q, k) - 1) :
           /\ dir.loc[i] = <<Route[q][k], s>>
           /\ file[Route[q][k]].rec[s].id = i
<1> DEFINE l == Route[q][k]
<1>1. l \in Lists /\ l \notin torn /\ phase = "idle"
  BY RouteFacts DEF Probing
<1>2. RowsServed(l) /\ HeldServed(l)
  BY <1>1, IdleServed
<1>3. PICK s \in 0 .. (lists[l].size - 1) : file[l].rec[s].id = i
  BY <1>2, SMTT(30) DEF HeldServed
<1>4. dir.loc[i] = <<l, s>>
  BY <1>2, <1>3 DEF RowsServed
<1>5. QED
  BY <1>3, <1>4 DEF SizeAt

\* The tiles of a list visit each of its slots and no other.
LEMMA ScannedAll ==
  ASSUME NEW size \in Nat, \A s \in 0 .. (size - 1) : s \in Slots
  PROVE  ScannedSlots(size) = 0 .. (size - 1)
<1>1. ASSUME NEW t \in Tiles(size), NEW n \in 0 .. (BlockSize - 1), n < size - t
      PROVE  t + n \in 0 .. (size - 1)
  BY <1>1, SlotsNat, BlockSizeAssumption DEF Tiles
<1>2. ASSUME NEW s \in 0 .. (size - 1)
      PROVE  s \in ScannedSlots(size)
  <2> DEFINE i == s \div BlockSize
             n == s % BlockSize
             t == BlockSize * i
  <2>1. n \in 0 .. (BlockSize - 1) /\ i \in Nat /\ s = t + n
    BY BlockSizeAssumption
  <2>2. t \in Nat /\ t % BlockSize = 0
    BY <2>1, BlockSizeAssumption
  <2> HIDE DEF i, n, t
  <2>3. t < size /\ n < size - t /\ t \in 0 .. (size - 1)
    BY <2>1, <2>2
  <2>4. t \in Tiles(size)
    BY <2>2, <2>3 DEF Tiles
  <2>5. n \in {m \in 0 .. (BlockSize - 1) : m < size - t}
    BY <2>1, <2>3
  <2>6. QED
    BY <2>1, <2>4, <2>5 DEF ScannedSlots
<1>3. QED
  BY <1>1, <1>2 DEF ScannedSlots

\* The tokens of a list come after those of every list probed before it.
LEMMA SpansApart ==
  ASSUME IndexInv, NEW q, NEW nprobe, Scanning(q, nprobe),
         NEW j \in 0 .. (nprobe - 1), NEW k \in 0 .. (nprobe - 1)
  PROVE  /\ SpanBegin(q, j) \in Nat /\ SizeAt(q, j) \in Nat
         /\ j < k => SpanEnd(q, j) <= SpanBegin(q, k)
<1> DEFINE before(m) == {x \in Lists \X Slots :
                           x[1] < m /\ x[2] < SizeAt(q, x[1])}
           own == {j} \X (0 .. (SizeAt(q, j) - 1))
<1>1. /\ j \in Lists /\ k \in Lists /\ Lists \subseteq Nat
      /\ SizeAt(q, j) \in Nat /\ q \in Queries
  BY RouteFacts DEF Scanning
<1>2. IsFiniteSet(Lists \X Slots)
  <2>1. NumLists - 1 \in Int /\ PageCount(IdLimit) * RecordsPerPage - 1 \in Int
    BY NumListsAssumption, IdLimitAssumption, RecordsPerPageAssumption,
       PageArithmetic
  <2>2. IsFiniteSet(Lists) /\ IsFiniteSet(Slots)
    BY <2>1, FS_Interval DEF Lists, Slots
  <2>3. QED
    BY <2>2, FS_Product
<1>3. \A m \in Lists : IsFiniteSet(before(m)) /\ Cardinality(before(m)) \in Nat
  <2> SUFFICES ASSUME NEW m \in Lists
               PROVE  IsFiniteSet(before(m)) /\ Cardinality(before(m)) \in Nat
    OBVIOUS
  <2>1. before(m) \in SUBSET (Lists \X Slots)
    OBVIOUS
  <2> HIDE DEF before
  <2>2. QED
    BY <1>2, <2>1, FS_Subset, FS_CardinalityType
<1>4. IsFiniteSet(own) /\ Cardinality(own) = SizeAt(q, j)
  <2>1. /\ IsFiniteSet(0 .. (SizeAt(q, j) - 1))
        /\ Cardinality(0 .. (SizeAt(q, j) - 1)) = SizeAt(q, j)
    <3> DEFINE z == SizeAt(q, j)
    <3>1. z \in Nat
      BY <1>1
    <3> HIDE DEF z
    <3>2. IsFiniteSet(0 .. (z - 1)) /\ Cardinality(0 .. (z - 1)) = z
      <4>1. 0 \in Int /\ z - 1 \in Int
        BY <3>1
      <4>2. IsFiniteSet(0 .. (z - 1)) /\ Cardinality(0 .. (z - 1))
              = IF 0 > z - 1 THEN 0 ELSE (z - 1) - 0 + 1
        BY <4>1, FS_Interval
      <4>3. QED
        BY <3>1, <4>2
    <3>3. QED
      BY <3>2 DEF z
  <2>2. IsFiniteSet({j}) /\ Cardinality({j}) = 1
    BY FS_Singleton
  <2>3. Cardinality(own) = 1 * SizeAt(q, j) /\ IsFiniteSet(own)
    BY <2>1, <2>2, FS_Product
  <2>4. QED
    BY <1>1, <2>3
<1>5. ASSUME j < k
      PROVE  SpanEnd(q, j) <= SpanBegin(q, k)
  <2>1. own \subseteq before(k) /\ before(j) \subseteq before(k)
    <3>1. ASSUME NEW s \in 0 .. (SizeAt(q, j) - 1)
          PROVE  s \in Slots /\ s < SizeAt(q, j)
      <4>1. s \in Slots
        BY DEF Scanning
      <4>2. QED
        BY <1>1, <4>1
    <3>2. \A x \in own : x[1] = j /\ x[2] \in 0 .. (SizeAt(q, j) - 1)
                         /\ x = <<x[1], x[2]>>
      OBVIOUS
    <3>3. own \subseteq before(k)
      BY <1>1, <1>5, <3>1, <3>2
    <3>4. \A m \in Lists : m < j => m < k
      BY <1>1, <1>5
    <3>5. before(j) \subseteq before(k)
      BY <3>4
    <3>6. QED
      BY <3>3, <3>5
  <2>2. before(j) \cap own = {}
    BY <1>1
  <2> HIDE DEF before, own
  <2>3. Cardinality(before(j) \cup own) = Cardinality(before(j)) + SizeAt(q, j)
    <3>1. Cardinality(before(j) \cup own)
            = Cardinality(before(j)) + Cardinality(own) - Cardinality({})
      BY <1>1, <1>3, <1>4, <2>2, FS_Union
    <3>2. QED
      BY <1>1, <1>3, <1>4, <3>1, FS_EmptySet
  <2>4. Cardinality(before(j) \cup own) <= Cardinality(before(k))
    BY <1>1, <1>3, <2>1, FS_Subset
  <2>5. QED
    BY <2>3, <2>4 DEF before, SpanBegin, SpanEnd
<1>6. SpanBegin(q, j) \in Nat
  BY <1>1, <1>3 DEF SpanBegin
<1>7. QED
  BY <1>1, <1>5, <1>6

\* The token of a row leads back to its list and its slot.
LEMMA LocatedRow ==
  ASSUME IndexInv, NEW q, NEW nprobe, Scanning(q, nprobe),
         NEW k \in 0 .. (nprobe - 1), NEW s \in 0 .. (SizeAt(q, k) - 1)
  PROVE  /\ Located(q, nprobe, SpanBegin(q, k) + s) = <<Route[q][k], s>>
         /\ TokenValid(q, nprobe, SpanBegin(q, k) + s)
<1> DEFINE token == SpanBegin(q, k) + s
<1>1. nprobe \in Nat /\ k \in Nat /\ SpanBegin(q, k) \in Nat /\ SizeAt(q, k) \in Nat
  <2>1. nprobe \in Nat
    BY NumListsAssumption DEF Scanning
  <2>2. SpanBegin(q, k) \in Nat /\ SizeAt(q, k) \in Nat
    BY SpansApart
  <2>3. QED
    BY <2>1, <2>2
<1>2. k \in Spans(q, nprobe) /\ token < SpanEnd(q, k) /\ token \in Nat
  BY <1>1 DEF Spans, SpanEnd
<1>3. ASSUME NEW j \in Spans(q, nprobe), token < SpanEnd(q, j)
      PROVE  k <= j
  <2>1. j \in 0 .. (nprobe - 1) /\ j \in Nat
    BY <1>1 DEF Spans
  <2>2. SpanBegin(q, j) \in Nat /\ SizeAt(q, j) \in Nat
        /\ (j < k => SpanEnd(q, j) <= SpanBegin(q, k))
    BY <2>1, SpansApart
  <2>3. SpanEnd(q, j) \in Nat
    BY <2>2 DEF SpanEnd
  <2>4. QED
    BY <1>1, <1>2, <1>3, <2>1, <2>2, <2>3
<1>4. SpanOf(q, nprobe, token) = {k}
  <2>1. k \in SpanOf(q, nprobe, token)
    BY <1>2, <1>3 DEF SpanOf
  <2>2. ASSUME NEW j \in SpanOf(q, nprobe, token)
        PROVE  j = k
    <3>1. j \in Spans(q, nprobe) /\ token < SpanEnd(q, j) /\ j <= k
      BY <1>2 DEF SpanOf
    <3>2. k <= j /\ j \in Nat
      BY <1>1, <1>3, <3>1 DEF Spans
    <3>3. QED
      BY <1>1, <3>1, <3>2
  <2>3. QED
    BY <2>1, <2>2
<1>5. (CHOOSE j \in SpanOf(q, nprobe, token) : TRUE) = k
  BY <1>4
<1>6. token - SpanBegin(q, k) = s
  BY <1>1
<1>7. SpanBegin(q, k) <= token
  BY <1>1
<1> HIDE DEF token
<1>8. Located(q, nprobe, token) = <<Route[q][k], s>>
  BY <1>5, <1>6 DEF Located
<1>9. TokenValid(q, nprobe, token)
  BY <1>4, <1>7 DEF TokenValid
<1>10. QED
  BY <1>8, <1>9 DEF token

(***************************************************************************)
(* The rows a search scans.                                                *)
(***************************************************************************)
\* A set covered by a function on a finite set is finite, and no larger.
LEMMA Covered ==
  ASSUME NEW S, IsFiniteSet(S), NEW T, NEW f, \A t \in T : \E s \in S : f[s] = t
  PROVE  IsFiniteSet(T) /\ Cardinality(T) <= Cardinality(S)
<1> DEFINE D == {s \in S : f[s] \in T}
           g == [s \in D |-> f[s]]
<1>1. g \in Surjection(D, T)
  BY DEF Surjection
<1>2. IsFiniteSet(D) /\ Cardinality(D) <= Cardinality(S)
  BY FS_Subset
<1> HIDE DEF D, g
<1>3. IsFiniteSet(T) /\ Cardinality(T) <= Cardinality(D)
  BY <1>1, <1>2, FS_Surjection
<1>4. Cardinality(T) \in Nat /\ Cardinality(D) \in Nat /\ Cardinality(S) \in Nat
  BY <1>2, <1>3, FS_CardinalityType
<1>5. QED
  BY <1>2, <1>3, <1>4

\* The row of slot s of the list at position k.
RowAt(q, k, s) == RowOf(q, lists[Route[q][k]].lane[s], SpanBegin(q, k) + s)

Positions(q, nprobe) ==
  {x \in (0 .. (nprobe - 1)) \X Slots : x[2] < SizeAt(q, x[1])}

LEMMA PositionFacts ==
  ASSUME IndexInv, NEW q, NEW nprobe, Scanning(q, nprobe)
  PROVE  /\ IsFiniteSet(Positions(q, nprobe))
         /\ \A x \in Positions(q, nprobe) : x[2] \in 0 .. (SizeAt(q, x[1]) - 1)
         /\ \A k \in 0 .. (nprobe - 1) : \A s \in 0 .. (SizeAt(q, k) - 1) :
              <<k, s>> \in Positions(q, nprobe)
<1>1. /\ 0 .. (nprobe - 1) \subseteq Lists
      /\ \A k \in 0 .. (nprobe - 1) : SizeAt(q, k) \in Nat
  BY RouteFacts DEF Scanning
<1>2. IsFiniteSet(Positions(q, nprobe))
  <2>1. NumLists - 1 \in Int /\ PageCount(IdLimit) * RecordsPerPage - 1 \in Int
    BY NumListsAssumption, IdLimitAssumption, RecordsPerPageAssumption,
       PageArithmetic
  <2>2. IsFiniteSet(Lists) /\ IsFiniteSet(Slots)
    BY <2>1, FS_Interval DEF Lists, Slots
  <2>3. Positions(q, nprobe) \in SUBSET (Lists \X Slots)
    BY <1>1 DEF Positions
  <2>4. QED
    BY <2>2, <2>3, FS_Product, FS_Subset
<1>3. ASSUME NEW x \in Positions(q, nprobe)
      PROVE  x[2] \in 0 .. (SizeAt(q, x[1]) - 1)
  <2>1. x[1] \in 0 .. (nprobe - 1) /\ x[2] \in Nat /\ x[2] < SizeAt(q, x[1])
    BY SlotsNat DEF Positions
  <2>2. SizeAt(q, x[1]) \in Nat
    BY <1>1, <2>1
  <2>3. QED
    BY <2>1, <2>2
<1>4. ASSUME NEW k \in 0 .. (nprobe - 1), NEW s \in 0 .. (SizeAt(q, k) - 1)
      PROVE  <<k, s>> \in Positions(q, nprobe)
  <2>1. s \in Slots
    BY DEF Scanning
  <2>2. s < SizeAt(q, k)
    BY <1>1
  <2>3. QED
    BY <2>1, <2>2 DEF Positions
<1>5. QED
  BY <1>2, <1>3, <1>4

\* The scan visits the rows of the probed lists, every one of them.
LEMMA ScannedExactly ==
  ASSUME IndexInv, NEW q, NEW nprobe, Scanning(q, nprobe)
  PROVE  ScannedRows(q, nprobe) =
           {RowAt(q, x[1], x[2]) : x \in Positions(q, nprobe)}
<1>1. \A k \in 0 .. (nprobe - 1) : SizeAt(q, k) \in Nat
  BY RouteFacts DEF Scanning
<1>2. ASSUME NEW k \in 0 .. (nprobe - 1)
      PROVE  ScannedSlots(SizeAt(q, k)) = 0 .. (SizeAt(q, k) - 1)
  <2>1. ASSUME NEW s \in 0 .. (SizeAt(q, k) - 1) PROVE s \in Slots
    BY DEF Scanning
  <2>2. QED
    BY <1>1, <2>1, ScannedAll
<1>3. ASSUME NEW x \in Positions(q, nprobe)
      PROVE  RowAt(q, x[1], x[2]) \in ScannedRows(q, nprobe)
  <2>1. x[1] \in 0 .. (nprobe - 1) /\ x[2] \in 0 .. (SizeAt(q, x[1]) - 1)
    BY PositionFacts DEF Positions
  <2>2. x[1] \in Spans(q, nprobe)
    BY <1>1, <2>1 DEF Spans
  <2>3. x[2] \in ScannedSlots(SizeAt(q, x[1]))
    BY <1>2, <2>1
  <2>4. QED
    BY <2>2, <2>3 DEF ScannedRows, RowAt
<1>4. ASSUME NEW row \in ScannedRows(q, nprobe)
      PROVE  \E x \in Positions(q, nprobe) : row = RowAt(q, x[1], x[2])
  <2>1. PICK k \in Spans(q, nprobe) :
          \E s \in ScannedSlots(SizeAt(q, k)) : row = RowAt(q, k, s)
    BY DEF ScannedRows, RowAt
  <2> PICK s \in ScannedSlots(SizeAt(q, k)) : row = RowAt(q, k, s)
    BY <2>1
  <2>2. k \in 0 .. (nprobe - 1)
    BY <2>1 DEF Spans
  <2>3. s \in 0 .. (SizeAt(q, k) - 1)
    BY <1>2, <2>1, <2>2
  <2>4. <<k, s>> \in Positions(q, nprobe)
    BY <2>2, <2>3, PositionFacts
  <2>5. QED
    BY <2>1, <2>4
<1>5. QED
  BY <1>3, <1>4

\* The rows a search scans are finitely many.
LEMMA ScannedFinite ==
  ASSUME IndexInv, NEW q, NEW nprobe, Scanning(q, nprobe)
  PROVE  IsFiniteSet(ScannedRows(q, nprobe))
<1> DEFINE row == [x \in Positions(q, nprobe) |-> RowAt(q, x[1], x[2])]
<1>1. \A y \in ScannedRows(q, nprobe) :
        \E x \in Positions(q, nprobe) : row[x] = y
  BY ScannedExactly
<1> HIDE DEF row
<1>2. QED
  BY <1>1, PositionFacts, Covered

(***************************************************************************)
(* The nearest rows are selected.                                          *)
(***************************************************************************)
\* What a search answers with that row.
AnswerAt(q, k, s) ==
  <<Distance[q][told[ProbedRecord(q, k, s).id]], ProbedRecord(q, k, s).id>>

\* The endpoints of the interval of a lane are numbers on both sides of its
\* estimate, whatever overflows.
LEMMA LaneBounds ==
  ASSUME NEW q \in Queries, NEW lane \in Lanes, NEW token
  PROVE  LET row == RowOf(q, lane, token)
         IN  /\ row.est \in Int /\ Lower(row) \in Int /\ Upper(row) \in Int
             /\ Lower(row) <= row.est /\ row.est <= Upper(row)
<1> DEFINE row == RowOf(q, lane, token)
<1>1. /\ Infinity \in Nat \ {0} /\ ZScore \in Nat
      /\ row.est \in -Infinity .. Infinity /\ row.unc \in 0 .. Infinity
  BY EstimateAssumption DEF RowOf
<1> HIDE DEF row
<1>2. PICK e \in Int, u \in Nat :
        e = row.est /\ u = row.unc /\ -Infinity <= e /\ e <= Infinity
  BY <1>1
<1> DEFINE z == ZScore * u
<1>3. z \in Nat
  BY <1>1, <1>2
<1>4. Lower(row) = IF ZScore = 0 \/ u = 0 THEN e
                   ELSE IF z >= Infinity THEN -Infinity
                   ELSE IF e \in {-Infinity, Infinity} THEN e ELSE Saturated(e - z)
  BY <1>2 DEF Lower
<1>5. Upper(row) = IF ZScore = 0 \/ u = 0 THEN e
                   ELSE IF z >= Infinity THEN Infinity
                   ELSE IF e \in {-Infinity, Infinity} THEN e ELSE Saturated(e + z)
  BY <1>2 DEF Upper
<1> HIDE DEF z
<1>6. e - z \in Int /\ e + z \in Int /\ e - z <= e /\ e <= e + z
  BY <1>2, <1>3
<1>7. /\ Saturated(e - z) \in Int /\ Saturated(e - z) <= e
      /\ Saturated(e + z) \in Int /\ e <= Saturated(e + z)
  BY <1>1, <1>2, <1>6 DEF Saturated
<1>8. Lower(row) \in Int /\ Lower(row) <= e
  BY <1>1, <1>2, <1>4, <1>7
<1>9. Upper(row) \in Int /\ e <= Upper(row)
  BY <1>1, <1>2, <1>5, <1>7
<1>10. QED
  BY <1>2, <1>8, <1>9 DEF row

\* The interval of a scanned row is about the distance of its vector.
LEMMA RowBounds ==
  ASSUME IndexInv, NEW q, NEW nprobe, Probing(q, nprobe),
         NEW k \in 0 .. (nprobe - 1), NEW s \in 0 .. (SizeAt(q, k) - 1)
  PROVE  /\ AnswerAt(q, k, s)[1] \in Nat
         /\ RowAt(q, k, s).est \in Int /\ RowAt(q, k, s).id \in Nat
         /\ Lower(RowAt(q, k, s)) \in Int /\ Upper(RowAt(q, k, s)) \in Int
         /\ Lower(RowAt(q, k, s)) <= AnswerAt(q, k, s)[1]
         /\ AnswerAt(q, k, s)[1] <= Upper(RowAt(q, k, s))
<1> DEFINE lane == lists[Route[q][k]].lane[s]
           v == told[ProbedRecord(q, k, s).id]
           row == RowAt(q, k, s)
<1>1. q \in Queries /\ v \in Vecs /\ lane = Code[v] /\ lane \in Lanes
  <2>1. v \in Vecs /\ lane = Code[v]
    BY ProbedRow
  <2>2. QED
    BY <2>1, CodeAssumption DEF Probing, Lanes
<1>2. /\ Lower(row) = Lower(RowOf(q, lane, 0))
      /\ Upper(row) = Upper(RowOf(q, lane, 0))
      /\ row.est = Estimate[q][lane] /\ row.id = SpanBegin(q, k) + s
  BY DEF RowAt, RowOf, Lower, Upper
<1>3. row.id \in Nat
  <2>1. SpanBegin(q, k) \in Nat /\ s \in Nat
    BY ProbingScans, SpansApart
  <2>2. QED
    BY <1>2, <2>1
<1>4. Distance[q][v] \in Nat
  BY <1>1, DistanceAssumption
<1>5. row.est \in Int /\ Lower(row) \in Int /\ Upper(row) \in Int
  BY <1>1, LaneBounds DEF RowAt
<1> HIDE DEF row
<1>6. Lower(row) <= Distance[q][v] /\ Distance[q][v] <= Upper(row)
  BY <1>1, <1>2, IntervalAssumption
<1>7. AnswerAt(q, k, s)[1] = Distance[q][v]
  BY DEF AnswerAt
<1>8. QED
  BY <1>3, <1>4, <1>5, <1>6, <1>7 DEF row

ProbedLists(q, nprobe) == {Route[q][k] : k \in 0 .. (nprobe - 1)}

\* The rows the callers hold are finitely many.
LEMMA OwedFinite ==
  ASSUME NEW q, NEW probed
  PROVE  IsFiniteSet(Owed(q, probed))
<1> DEFINE answer == [i \in Ids |-> <<Distance[q][told[i]], i>>]
<1>1. IsFiniteSet(Ids)
  <2>1. IdLimit - 1 \in Int
    BY IdLimitAssumption
  <2>2. QED
    BY <2>1, FS_Interval DEF Ids
<1>2. \A m \in Owed(q, probed) : \E i \in Ids : answer[i] = m
  BY DEF Owed, HeldIn
<1> HIDE DEF answer
<1>3. QED
  BY <1>1, <1>2, Covered

\* Each row among the topk nearest is in the shortlist and passes the interval
\* test: a row whose upper endpoint lies below its lower one is nearer still.
LEMMA NearestPasses ==
  ASSUME IndexInv, NEW q, NEW nprobe, Probing(q, nprobe), NEW topk \in Nat,
         \/ max_candidates = 0
         \/ Cardinality(ScannedRows(q, nprobe)) <= max_candidates,
         NEW k \in 0 .. (nprobe - 1), NEW s \in 0 .. (SizeAt(q, k) - 1),
         AnswerAt(q, k, s) \in NearestOf(Owed(q, ProbedLists(q, nprobe)), topk)
  PROVE  RowAt(q, k, s)
           \in Candidates(ScannedRows(q, nprobe), topk, max_candidates)
<1>0. \A j \in 0 .. (nprobe - 1) : \A t \in 0 .. (SizeAt(q, j) - 1) :
        /\ ProbedRecord(q, j, t).id \in HeldIn(Route[q][j])
        /\ dir.loc[ProbedRecord(q, j, t).id] = <<Route[q][j], t>>
  BY ProbedHeld
<1> DEFINE S == ScannedRows(q, nprobe)
           row == RowAt(q, k, s)
           n == AnswerAt(q, k, s)
           owed == Owed(q, ProbedLists(q, nprobe))
           nearer == {m \in owed : Nearer(m, n)}
           below == {x \in S : Upper(x) < Lower(row)}
           source == [m \in owed |->
                        CHOOSE y \in S : \E x \in Positions(q, nprobe) :
                          /\ y = RowAt(q, x[1], x[2])
                          /\ dir.loc[m[2]] = <<Route[q][x[1]], x[2]>>]
<1>1. IsFiniteSet(S) /\ row \in S
  <2>1. <<k, s>> \in Positions(q, nprobe)
    BY ProbingScans, PositionFacts
  <2>2. RowAt(q, <<k, s>>[1], <<k, s>>[2]) \in S
    BY <2>1, ProbingScans, ScannedExactly
  <2>3. QED
    BY <2>2, ProbingScans, ScannedFinite
<1>2. Shortlisted(S, row, max_candidates)
  <2>1. ASSUME max_candidates # 0
        PROVE  Cardinality({x \in S : Ranked(x, row)}) < max_candidates
    <3>1. ~Ranked(row, row)
      <4>1. row.est \in Int /\ row.id \in Nat
        BY RowBounds
      <4> HIDE DEF row
      <4>2. QED
        BY <4>1 DEF Ranked
    <3> HIDE DEF row, S
    <3>2. {x \in S : Ranked(x, row)} \in SUBSET (S \ {row})
      BY <3>1
    <3>3. /\ IsFiniteSet(S \ {row})
          /\ Cardinality(S \ {row}) = Cardinality(S) - 1
          /\ Cardinality(S) \in Nat /\ Cardinality(S \ {row}) \in Nat
      BY <1>1, FS_RemoveElement, FS_CardinalityType
    <3>4. /\ Cardinality({x \in S : Ranked(x, row)}) <= Cardinality(S \ {row})
          /\ Cardinality({x \in S : Ranked(x, row)}) \in Nat
      BY <3>2, <3>3, FS_Subset, FS_CardinalityType
    <3>5. Cardinality(S) <= max_candidates
      BY <2>1 DEF S
    <3>6. QED
      BY <3>3, <3>4, <3>5, EstimateAssumption
  <2>2. QED
    BY <2>1 DEF Shortlisted
<1>3. ASSUME NEW y \in below
      PROVE  \E m \in nearer : source[m] = y
  <2>1. PICK x \in Positions(q, nprobe) : y = RowAt(q, x[1], x[2])
    BY ProbingScans, ScannedExactly
  <2>2. x[1] \in 0 .. (nprobe - 1) /\ x[2] \in 0 .. (SizeAt(q, x[1]) - 1)
    BY ProbingScans, PositionFacts DEF Positions
  <2> DEFINE m == AnswerAt(q, x[1], x[2])
  <2>3. /\ m[2] \in HeldIn(Route[q][x[1]]) /\ m = <<Distance[q][told[m[2]]], m[2]>>
        /\ dir.loc[m[2]] = <<Route[q][x[1]], x[2]>>
    <3>1. /\ ProbedRecord(q, x[1], x[2]).id \in HeldIn(Route[q][x[1]])
          /\ dir.loc[ProbedRecord(q, x[1], x[2]).id] = <<Route[q][x[1]], x[2]>>
      <4>1. \A t \in 0 .. (SizeAt(q, x[1]) - 1) :
              /\ ProbedRecord(q, x[1], t).id \in HeldIn(Route[q][x[1]])
              /\ dir.loc[ProbedRecord(q, x[1], t).id] = <<Route[q][x[1]], t>>
        BY <2>2, <1>0, Zenon
      <4>2. QED
        BY <2>2, <4>1, Zenon
    <3>2. /\ m[2] = ProbedRecord(q, x[1], x[2]).id
          /\ m[1] = Distance[q][told[m[2]]] /\ m = <<m[1], m[2]>>
      BY DEF AnswerAt
    <3> HIDE DEF m
    <3>3. QED
      BY <3>1, <3>2
  <2>4. m \in owed
    <3>1. Route[q][x[1]] \in ProbedLists(q, nprobe)
      BY <2>2 DEF ProbedLists
    <3>2. m \in {<<Distance[q][told[j]], j>> : j \in HeldIn(Route[q][x[1]])}
      BY <2>3
    <3> HIDE DEF m
    <3>3. QED
      BY <3>1, <3>2 DEF Owed
  <2>5. Nearer(m, n)
    <3>1. m[1] \in Nat /\ m[1] <= Upper(y) /\ Upper(y) \in Int
      BY <2>1, <2>2, RowBounds
    <3>2. Lower(row) \in Int /\ n[1] \in Nat /\ Lower(row) <= n[1]
      BY RowBounds
    <3>3. Upper(y) < Lower(row)
      OBVIOUS
    <3> HIDE DEF n, row, m
    <3>4. m[1] < n[1]
      BY <3>1, <3>2, <3>3
    <3>5. QED
      BY <3>4 DEF Nearer
  <2>6. source[m] = y
    <3>1. \A z \in Positions(q, nprobe) :
            Route[q][z[1]] = Route[q][x[1]] /\ z[2] = x[2] => z = x
      <4>1. \A a, c \in 0 .. (nprobe - 1) : Route[q][a] = Route[q][c] => a = c
        BY RouteFacts DEF Probing
      <4>2. \A z \in Positions(q, nprobe) :
              z[1] \in 0 .. (nprobe - 1) /\ z = <<z[1], z[2]>>
        BY DEF Positions
      <4>3. QED
        BY <4>1, <4>2
    <3>2. ASSUME NEW z \in Positions(q, nprobe),
                 dir.loc[m[2]] = <<Route[q][z[1]], z[2]>>
          PROVE  z = x
      <4>1. <<Route[q][z[1]], z[2]>> = <<Route[q][x[1]], x[2]>>
        BY <2>3, <3>2
      <4>2. Route[q][z[1]] = Route[q][x[1]] /\ z[2] = x[2]
        BY <4>1
      <4>3. QED
        BY <3>1, <4>2
    <3>3. y \in S /\ dir.loc[m[2]] = <<Route[q][x[1]], x[2]>>
      BY <2>3
    <3>4. source[m] = CHOOSE w \in S : \E z \in Positions(q, nprobe) :
                          /\ w = RowAt(q, z[1], z[2])
                          /\ dir.loc[m[2]] = <<Route[q][z[1]], z[2]>>
      BY <2>4
    <3> HIDE DEF m, source, S
    <3>5. \A w \in S : (\E z \in Positions(q, nprobe) :
                          /\ w = RowAt(q, z[1], z[2])
                          /\ dir.loc[m[2]] = <<Route[q][z[1]], z[2]>>) <=> w = y
      BY <2>1, <3>2, <3>3
    <3>6. QED
      BY <3>3, <3>4, <3>5
  <2>7. QED
    BY <2>4, <2>5, <2>6
<1>4. Cardinality(nearer) < topk
  BY DEF NearestOf
<1>5. IsFiniteSet(nearer)
  BY OwedFinite, FS_Subset
<1>6. Passes(S, row, topk)
  <2> HIDE DEF source, nearer, below, n, owed, row, S
  <2>1. IsFiniteSet(below) /\ Cardinality(below) <= Cardinality(nearer)
    BY <1>3, <1>5, Covered
  <2>2. Cardinality(below) \in Nat /\ Cardinality(nearer) \in Nat
    BY <1>5, <2>1, FS_CardinalityType
  <2>3. Cardinality(below) < topk
    BY <1>4, <2>1, <2>2
  <2>4. QED
    BY <2>3 DEF Passes, below, S
<1>7. QED
  BY <1>1, <1>2, <1>6 DEF Candidates

\* The locations select_candidates_locked returns.
CandidatesOf(q, nprobe, topk) ==
  {Located(q, nprobe, t) : t \in Selected(q, nprobe, topk)}

\* They are rows of the probed lists.
LEMMA CandidatesFit ==
  ASSUME IndexInv, NEW q, NEW nprobe, Probing(q, nprobe), NEW topk,
         NEW c \in CandidatesOf(q, nprobe, topk)
  PROVE  \E k \in 0 .. (nprobe - 1) :
           \E s \in 0 .. (SizeAt(q, k) - 1) : c = <<Route[q][k], s>>
<1>1. PICK t \in Selected(q, nprobe, topk) : c = Located(q, nprobe, t)
  BY DEF CandidatesOf
<1>2. PICK row \in ScannedRows(q, nprobe) : t = row.id
  BY <1>1 DEF Selected, Candidates
<1>3. PICK x \in Positions(q, nprobe) : row = RowAt(q, x[1], x[2])
  BY ProbingScans, ScannedExactly
<1>4. x[1] \in 0 .. (nprobe - 1) /\ x[2] \in 0 .. (SizeAt(q, x[1]) - 1)
  BY ProbingScans, PositionFacts DEF Positions
<1>5. t = SpanBegin(q, x[1]) + x[2]
  BY <1>2, <1>3 DEF RowAt, RowOf
<1>6. c = <<Route[q][x[1]], x[2]>>
  BY <1>1, <1>4, <1>5, ProbingScans, LocatedRow
<1>7. QED
  BY <1>4, <1>6

\* The location of every row among the topk nearest is among them.
LEMMA NearestAreCandidates ==
  ASSUME IndexInv, NEW q, NEW nprobe, Probing(q, nprobe), NEW topk \in Nat,
         \/ max_candidates = 0
         \/ Cardinality(ScannedRows(q, nprobe)) <= max_candidates,
         NEW n \in NearestOf(Owed(q, ProbedLists(q, nprobe)), topk)
  PROVE  dir.loc[n[2]] \in CandidatesOf(q, nprobe, topk)
<1>1. n \in Owed(q, ProbedLists(q, nprobe))
  BY DEF NearestOf
<1>2. PICK k \in 0 .. (nprobe - 1) :
        \E i \in HeldIn(Route[q][k]) : n = <<Distance[q][told[i]], i>>
  BY <1>1 DEF Owed, ProbedLists
<1>3. PICK i \in HeldIn(Route[q][k]) : n = <<Distance[q][told[i]], i>>
  BY <1>2
<1>4. PICK s \in 0 .. (SizeAt(q, k) - 1) :
        dir.loc[i] = <<Route[q][k], s>> /\ ProbedRecord(q, k, s).id = i
  BY OwedRow DEF ProbedRecord
<1>5. n = AnswerAt(q, k, s) /\ n[2] = i
  BY <1>3, <1>4 DEF AnswerAt
<1>6. RowAt(q, k, s) \in Candidates(ScannedRows(q, nprobe), topk, max_candidates)
  BY <1>5, NearestPasses
<1>7. SpanBegin(q, k) + s \in Selected(q, nprobe, topk)
  <2>1. RowAt(q, k, s).id = SpanBegin(q, k) + s
    BY DEF RowAt, RowOf
  <2>2. QED
    BY <1>6, <2>1 DEF Selected
<1>8. Located(q, nprobe, SpanBegin(q, k) + s) = <<Route[q][k], s>>
  BY ProbingScans, LocatedRow
<1>9. QED
  BY <1>4, <1>5, <1>7, <1>8 DEF CandidatesOf

(***************************************************************************)
(* The invariant of searches.                                              *)
(***************************************************************************)
\* A search under way has the lock shared, so no update is; what it found and
\* what it will read are rows of the lists it probed.
ReaderInv(r) ==
  /\ reader[r].at \in {"idle", "refine"}
  /\ reader[r] = [at |-> reader[r].at, query |-> reader[r].query,
                  topk |-> reader[r].topk, probed |-> reader[r].probed,
                  rows |-> reader[r].rows, candidates |-> reader[r].candidates,
                  unread |-> reader[r].unread, found |-> reader[r].found]
  /\ reader[r].at = "refine" => phase = "idle" /\ reader[r].probed \subseteq Lists
  /\ Refining(r) =>
       /\ \A c \in reader[r].candidates :
            \E l \in reader[r].probed :
              \E s \in 0 .. (lists[l].size - 1) : c = <<l, s>>
       /\ reader[r].found \subseteq OwedTo(r)
       /\ Uncapped(r) => \A n \in NearestOf(OwedTo(r), reader[r].topk) :
                          dir.loc[n[2]] \in reader[r].candidates

SearchInv ==
  /\ IndexInv
  /\ DOMAIN reader = Readers
  /\ \A r \in Readers : ReaderInv(r)

LEMMA SearchInvInit == SearchInit => SearchInv
BY IndexInvInit DEF SearchInit, SearchInv, ReaderInv, NoSearch, Refining

\* A step of one reader leaves the others' searches as they are.
LEMMA OtherReader ==
  ASSUME UNCHANGED vars, NEW r, ReaderInv(r), reader'[r] = reader[r]
  PROVE  ReaderInv(r)'
BY DEF vars, ReaderInv, Refining, Uncapped, OwedTo, Owed, HeldIn

\* A search that begins selects rows of the lists it probes, the topk nearest
\* among them.
LEMMA SearchInvBegin ==
  ASSUME SearchInv, NEW r \in Readers, NEW q \in Queries,
         NEW nprobe \in 1 .. NumLists, NEW topk \in 1 .. MaxTopK,
         SearchBegin(r, q, nprobe, topk)
  PROVE  ReaderInv(r)'
<1>1. /\ phase' = "idle" /\ phase = "idle" /\ UNCHANGED vars /\ topk \in Nat
  BY DEF SearchBegin, Shared, vars
<1>2. reader'[r] = [at |-> "refine", query |-> q, topk |-> topk,
                    probed |-> ProbedLists(q, nprobe),
                    rows |-> ScannedRows(q, nprobe),
                    candidates |-> CandidatesOf(q, nprobe, topk),
                    unread |-> {x[1] : x \in CandidatesOf(q, nprobe, topk)},
                    found |-> {}]
  BY DEF SearchInv, SearchBegin, ProbedLists, CandidatesOf
<1>3. ProbedLists(q, nprobe) \subseteq Lists
  BY RouteFacts DEF SearchInv, ProbedLists
<1>4. ASSUME ProbedLists(q, nprobe) \cap torn = {}
      PROVE  /\ Probing(q, nprobe)
             /\ \A c \in CandidatesOf(q, nprobe, topk) :
                  \E l \in ProbedLists(q, nprobe) :
                    \E s \in 0 .. (lists[l].size - 1) : c = <<l, s>>
  <2>1. Probing(q, nprobe)
    BY <1>1, <1>4 DEF Probing, ProbedLists
  <2>2. QED
    BY <2>1, CandidatesFit DEF SearchInv, ProbedLists, SizeAt
<1>5. ASSUME ProbedLists(q, nprobe) \cap torn = {},
             \/ max_candidates = 0
             \/ Cardinality(ScannedRows(q, nprobe)) <= max_candidates
      PROVE  \A n \in NearestOf(Owed(q, ProbedLists(q, nprobe)), topk) :
               dir.loc[n[2]] \in CandidatesOf(q, nprobe, topk)
  BY <1>1, <1>4, <1>5, NearestAreCandidates DEF SearchInv
<1>6. /\ torn' = torn /\ dir' = dir /\ lists' = lists
      /\ Owed(q, ProbedLists(q, nprobe))' = Owed(q, ProbedLists(q, nprobe))
  BY <1>1 DEF vars, Owed, HeldIn, ProbedLists
<1>7. QED
  <2> DEFINE P == ProbedLists(q, nprobe)
             C == CandidatesOf(q, nprobe, topk)
             S == ScannedRows(q, nprobe)
             U == {x[1] : x \in C}
             O == Owed(q, P)
             R == reader'[r]
  <2> HIDE DEF P, C, S, U, O, R
  <2>1. R = [at |-> "refine", query |-> q, topk |-> topk, probed |-> P,
             rows |-> S, candidates |-> C, unread |-> U, found |-> {}]
    BY <1>2 DEF P, C, S, U, R
  <2>2. /\ R.at = "refine" /\ R.query = q /\ R.topk = topk /\ R.probed = P
        /\ R.rows = S /\ R.candidates = C /\ R.unread = U /\ R.found = {}
        /\ R = [at |-> R.at, query |-> R.query, topk |-> R.topk,
                probed |-> R.probed, rows |-> R.rows,
                candidates |-> R.candidates, unread |-> R.unread,
                found |-> R.found]
    BY <2>1
  <2>3. OwedTo(r)' = O
    BY <1>6, <2>2 DEF OwedTo, Owed, HeldIn, O, P, R
  <2>4. /\ Refining(r)' <=> P \cap torn = {}
        /\ Uncapped(r)' <=> max_candidates = 0 \/ Cardinality(S) <= max_candidates
    BY <1>6, <2>2 DEF Refining, Uncapped, R
  <2>5. ASSUME Refining(r)'
        PROVE  /\ \A c \in C : \E l \in P :
                    \E s \in 0 .. (lists'[l].size - 1) : c = <<l, s>>
               /\ Uncapped(r)' => \A n \in NearestOf(O, topk) : dir'.loc[n[2]] \in C
    BY <1>4, <1>5, <1>6, <2>4, <2>5 DEF P, C, S, O
  <2>6. P \subseteq Lists
    BY <1>3 DEF P
  <2>7. QED
    BY <1>1, <2>2, <2>3, <2>5, <2>6 DEF ReaderInv, R

\* What a search reads of a list is owed to its caller.
LEMMA SearchInvRefine ==
  ASSUME SearchInv, NEW r \in Readers, NEW l \in Lists, RefineList(r, l)
  PROVE  ReaderInv(r)'
<1> DEFINE read == {<<Distance[reader[r].query][RecordAt(x).vec], RecordAt(x).id>> :
                      x \in CandidatesIn(r, l)}
           kept == NearestOf(reader[r].found \cup read, reader[r].topk)
<1>1. /\ ReaderInv(r) /\ UNCHANGED vars /\ reader[r].at = "refine"
      /\ phase = "idle"
  BY DEF SearchInv, ReaderInv, RefineList
<1>2. reader' = [reader EXCEPT ![r].unread = @ \ {l}, ![r].found = kept]
  BY DEF RefineList
<1>3. ASSUME Refining(r), NEW x \in CandidatesIn(r, l)
      PROVE  <<Distance[reader[r].query][RecordAt(x).vec], RecordAt(x).id>>
               \in OwedTo(r)
  <2>1. PICK m \in reader[r].probed :
          \E s \in 0 .. (lists[m].size - 1) : x = <<m, s>>
    BY <1>1, <1>3 DEF ReaderInv, CandidatesIn
  <2>2. PICK s \in 0 .. (lists[m].size - 1) : x = <<m, s>>
    BY <2>1
  <2>3. m \in Lists \ torn
    BY <1>1, <1>3, <2>1 DEF ReaderInv, Refining
  <2>4. /\ file[m].rec[s].id \in HeldIn(m)
        /\ file[m].rec[s].vec = told[file[m].rec[s].id]
    BY <1>1, <2>2, <2>3, IdleServed DEF SearchInv, RowsServed
  <2>5. RecordAt(x) = file[m].rec[s]
    BY <2>2 DEF RecordAt
  <2>6. QED
    BY <2>1, <2>4, <2>5 DEF OwedTo, Owed
<1>4. Refining(r) => kept \subseteq OwedTo(r)
  BY <1>1, <1>3 DEF NearestOf, ReaderInv
<1> HIDE DEF read, kept
<1>5. /\ reader'[r].at = reader[r].at /\ reader'[r].query = reader[r].query
      /\ reader'[r].topk = reader[r].topk /\ reader'[r].probed = reader[r].probed
      /\ reader'[r].rows = reader[r].rows
      /\ reader'[r].candidates = reader[r].candidates
      /\ reader'[r].found = kept
      /\ reader'[r] = [at |-> reader'[r].at, query |-> reader'[r].query,
                       topk |-> reader'[r].topk, probed |-> reader'[r].probed,
                       rows |-> reader'[r].rows,
                       candidates |-> reader'[r].candidates,
                       unread |-> reader'[r].unread, found |-> reader'[r].found]
  BY <1>1, <1>2 DEF ReaderInv, SearchInv
<1>6. /\ OwedTo(r)' = OwedTo(r) /\ Refining(r)' = Refining(r)
      /\ Uncapped(r)' = Uncapped(r)
      /\ dir' = dir /\ lists' = lists /\ phase' = phase
  BY <1>1, <1>5 DEF OwedTo, Owed, HeldIn, Refining, Uncapped, vars
<1>7. QED
  BY <1>1, <1>4, <1>5, <1>6 DEF ReaderInv

\* Updates run when no search does.
LEMMA UpdateAlone ==
  ASSUME SearchInv, Update \/ UpdateStep \/ UpdateFailure, NEW r \in Readers
  PROVE  reader[r].at = "idle"
<1>1. CASE Update
  BY <1>1 DEF Update, Exclusive
<1>2. CASE UpdateStep \/ UpdateFailure
  <2>1. ASSUME NEW l \in Lists, ListStep(l) \/ ListFailure(l)
        PROVE  phase # "idle"
    BY <2>1 DEF ListStep, ListFailure, AppendOpen, AppendPage, AppendClose,
                AppendTorn, CommitOpen, CommitPage, CommitTorn, CommitClose,
                RecordRefused, RecordCallFails, Working
  <2>2. phase # "idle"
    BY <1>2, <2>1
       DEF UpdateStep, UpdateFailure, RecordsDone, DirectoryPage, PublishInsert,
           PublishErase, RecordsFailed, DirectoryRefused, DirectoryTorn,
           DirectoryCallFails
  <2>3. QED
    BY <2>2 DEF SearchInv, ReaderInv
<1>3. QED
  BY <1>1, <1>2

\* An update begins only when no search is under way, and then no search does.
LEMMA SearchInvUpdate ==
  ASSUME SearchInv, UNCHANGED reader,
         Update \/ UpdateStep \/ UpdateFailure
  PROVE  SearchInv'
<1>1. IndexInv'
  BY IndexInvNext DEF SearchInv, Next, Update
<1>2. \A r \in Readers : reader[r].at = "idle"
  BY UpdateAlone
<1>3. \A r \in Readers : ReaderInv(r)'
  BY <1>2 DEF SearchInv, ReaderInv, Refining
<1>4. QED
  BY <1>1, <1>3 DEF SearchInv

\* Every step preserves the invariant of searches.
LEMMA SearchInvNext == SearchInv /\ [SearchNext]_searchVars => SearchInv'
<1> SUFFICES ASSUME SearchInv, [SearchNext]_searchVars PROVE SearchInv'
  OBVIOUS
<1>1. CASE (Update \/ UpdateStep \/ UpdateFailure) /\ UNCHANGED reader
  BY <1>1, SearchInvUpdate
<1>2. ASSUME NEW r \in Readers, SearchStep(r)
      PROVE  SearchInv'
  <2>1. UNCHANGED vars /\ DOMAIN reader' = Readers
    BY <1>2 DEF SearchStep, SearchBegin, RefineList, SearchEnd, SearchFails, SearchInv
  <2>2. IndexInv'
    BY <2>1, IndexInvStutter DEF SearchInv
  <2>3. \A o \in Readers \ {r} : reader'[o] = reader[o]
    BY <1>2 DEF SearchStep, SearchBegin, RefineList, SearchEnd, SearchFails, SearchInv
  <2>4. \A o \in Readers \ {r} : ReaderInv(o)'
    BY <2>1, <2>3, OtherReader DEF SearchInv
  <2>5. ReaderInv(r)'
    <3>1. CASE \E q \in Queries, nprobe \in 1 .. NumLists, topk \in 1 .. MaxTopK :
                 SearchBegin(r, q, nprobe, topk)
      BY <3>1, SearchInvBegin
    <3>2. CASE \E l \in Lists : RefineList(r, l)
      BY <3>2, SearchInvRefine
    <3>3. CASE SearchEnd(r) \/ SearchFails(r)
      <4>1. reader'[r] = NoSearch
        BY <3>3 DEF SearchEnd, SearchFails, SearchInv
      <4>2. QED
        BY <4>1 DEF NoSearch, ReaderInv, Refining
    <3>4. QED
      BY <1>2, <3>1, <3>2, <3>3 DEF SearchStep
  <2>6. QED
    BY <2>1, <2>2, <2>4, <2>5 DEF SearchInv
<1>3. CASE UNCHANGED searchVars
  <2>1. UNCHANGED vars /\ UNCHANGED reader
    BY <1>3 DEF searchVars
  <2>2. IndexInv' /\ \A r \in Readers : ReaderInv(r)'
    BY <2>1, IndexInvStutter, OtherReader DEF SearchInv
  <2>3. QED
    BY <2>1, <2>2 DEF SearchInv
<1>4. QED
  BY <1>1, <1>2, <1>3 DEF SearchNext

\* SearchInv holds in every state of updates and searches.
THEOREM SearchInvariant == SearchSpec => []SearchInv
<1>1. QED
  BY SearchInvInit, SearchInvNext, PTL DEF SearchSpec

\* Whatever a search has found, in whatever order updates ran and failed before
\* it, are rows the callers hold, at their exact distances.
THEOREM AnswersAreOwed == SearchSpec => []AnswersOwed
<1>1. SearchInv => AnswersOwed
  BY DEF SearchInv, ReaderInv, AnswersOwed
<1>2. QED
  BY <1>1, SearchInvariant, PTL

\* Fast-scan selection loses none of the nearest rows: for every placement of
\* the rows, every probe count and every set of intervals that hold, the topk
\* nearest rows of the probed lists are among the candidates.
THEOREM NearestAreSelected == SearchSpec => []NearestSelected
<1>1. SearchInv => NearestSelected
  BY DEF SearchInv, ReaderInv, NearestSelected
<1>2. QED
  BY <1>1, SearchInvariant, PTL

(***************************************************************************)
(* Answers: the topk nearest of the rows read so far are, when the last    *)
(* list has been read, the topk nearest of all rows.                       *)
(***************************************************************************)
Below(S, n) == {m \in S : Nearer(m, n)}

\* Answers are compared by distance, then by ID: a strict total order.
LEMMA NearerOrder ==
  ASSUME NEW m \in Nat \X Nat
  PROVE  /\ ~ Nearer(m, m)
         /\ \A n, p \in Nat \X Nat : Nearer(m, n) /\ Nearer(n, p) => Nearer(m, p)
<1>1. \A x \in Nat \X Nat : x[1] \in Nat /\ x[2] \in Nat
  OBVIOUS
<1>2. QED
  BY <1>1 DEF Nearer

\* Rows that are not among the nearest may be left out, as long as the nearest
\* are kept.
LEMMA NearestSuffice ==
  ASSUME NEW O, IsFiniteSet(O), O \subseteq Nat \X Nat, NEW k \in Nat,
         NEW A, A \subseteq O, NearestOf(O, k) \subseteq A
  PROVE  NearestOf(A, k) = NearestOf(O, k)
<1>1. \A S : S \subseteq O => IsFiniteSet(S) /\ Cardinality(S) \in Nat
  BY FS_Subset, FS_CardinalityType
<1>2. ASSUME NEW n \in NearestOf(O, k)
      PROVE  n \in NearestOf(A, k)
  <2>1. n \in A /\ Cardinality(Below(O, n)) < k
    BY DEF NearestOf, Below
  <2>2. Below(A, n) \subseteq Below(O, n) /\ Below(O, n) \subseteq O
    BY DEF Below
  <2>3. Cardinality(Below(A, n)) <= Cardinality(Below(O, n))
    BY <1>1, <2>2, FS_Subset
  <2>4. Cardinality(Below(A, n)) \in Nat /\ Cardinality(Below(O, n)) \in Nat
    BY <1>1, <2>2
  <2>5. QED
    BY <2>1, <2>3, <2>4 DEF NearestOf, Below
<1>3. ASSUME NEW n \in NearestOf(A, k), n \notin NearestOf(O, k)
      PROVE  FALSE
  <2> DEFINE X == {x \in O \ NearestOf(O, k) : x = n \/ Nearer(x, n)}
             T == {Below(O, x) : x \in X}
  <2>1. n \in A /\ n \in O /\ Cardinality(Below(A, n)) < k
    BY DEF NearestOf, Below
  <2>2. PICK t \in T : \A u \in T : <<u, t>> \notin StrictSubsetOrdering(O)
    <3>1. T \subseteq SUBSET O /\ T # {}
      BY <1>3, <2>1 DEF Below
    <3>2. IsWellFoundedOn(StrictSubsetOrdering(O), SUBSET O)
      BY FS_StrictSubsetOrderingWellFounded, FS_FiniteSubsetsOfFinite
    <3> HIDE DEF T
    <3>3. QED
      BY <3>1, <3>2, WFMin
  <2>3. PICK x \in X : t = Below(O, x)
    OBVIOUS
  <2>4. Below(O, x) \subseteq NearestOf(O, k)
    <3> SUFFICES ASSUME NEW m \in Below(O, x), m \notin NearestOf(O, k)
                 PROVE  FALSE
      OBVIOUS
    <3>1. m \in O /\ Nearer(m, x) /\ m \in Nat \X Nat /\ x \in Nat \X Nat
          /\ n \in Nat \X Nat /\ (x = n \/ Nearer(x, n))
      BY <2>1 DEF Below
    <3>2. m \in X
      BY <3>1, NearerOrder
    <3>3. Below(O, m) \subseteq Below(O, x) /\ Below(O, m) # Below(O, x)
      BY <3>1, NearerOrder DEF Below
    <3>4. <<Below(O, m), Below(O, x)>> \in StrictSubsetOrdering(O)
      BY <3>3 DEF StrictSubsetOrdering, Below
    <3>5. QED
      BY <2>2, <2>3, <3>2, <3>4
  <2>5. Below(O, x) \subseteq Below(A, n)
    <3>1. ASSUME NEW m \in Below(O, x)
          PROVE  Nearer(m, n)
      <4>1. m \in Nat \X Nat /\ x \in Nat \X Nat /\ n \in Nat \X Nat
            /\ Nearer(m, x) /\ (x = n \/ Nearer(x, n))
        BY <2>1 DEF Below
      <4>2. QED
        BY <4>1, NearerOrder
    <3>2. QED
      BY <2>4, <3>1 DEF Below
  <2>6. ~ (Cardinality(Below(O, x)) < k)
    BY DEF NearestOf, Below
  <2>7. /\ Cardinality(Below(O, x)) <= Cardinality(Below(A, n))
        /\ Cardinality(Below(O, x)) \in Nat /\ Cardinality(Below(A, n)) \in Nat
    <3>1. Below(A, n) \subseteq O /\ Below(O, x) \subseteq O
      BY DEF Below
    <3>2. QED
      BY <1>1, <2>5, <3>1, FS_Subset
  <2>8. QED
    BY <2>1, <2>6, <2>7
<1>4. QED
  BY <1>2, <1>3

\* What is among the nearest is among the nearest of any part it is in.
LEMMA NearestOfPart ==
  ASSUME NEW O, IsFiniteSet(O), NEW k \in Nat, NEW R, R \subseteq O,
         NEW n \in NearestOf(O, k), n \in R
  PROVE  n \in NearestOf(R, k)
<1>1. Below(R, n) \subseteq Below(O, n) /\ Below(O, n) \subseteq O
  BY DEF Below
<1>2. /\ Cardinality(Below(R, n)) <= Cardinality(Below(O, n))
      /\ Cardinality(Below(R, n)) \in Nat
      /\ Cardinality(Below(O, n)) \in Nat
  BY <1>1, FS_Subset, FS_CardinalityType
<1>3. Cardinality(Below(O, n)) < k
  BY DEF NearestOf, Below
<1>4. Cardinality(Below(R, n)) < k
  BY <1>2, <1>3
<1>5. QED
  BY <1>4 DEF NearestOf, Below

\* The rows callers hold compare by natural numbers.
LEMMA OwedNat ==
  ASSUME IndexInv, NEW q \in Queries, NEW probed
  PROVE  Owed(q, probed) \subseteq Nat \X Nat
<1>1. \A l : \A i \in HeldIn(l) : i \in Nat /\ told[i] \in Vecs
  BY DEF HeldIn, Ids, IndexInv, PlanInv, TypeOK
<1>2. \A v \in Vecs : Distance[q][v] \in Nat
  BY DistanceAssumption
<1>3. QED
  BY <1>1, <1>2 DEF Owed

\* What a reader makes of the record of a candidate.
AnswerOf(r, x) ==
  <<Distance[reader[r].query][RecordAt(x).vec], RecordAt(x).id>>
AnswersAmong(r, C) == {AnswerOf(r, x) : x \in C}
Read(r) == {x \in reader[r].candidates : x[1] \notin reader[r].unread}

\* The answers so far are the nearest of the rows read so far.
ExactInv(r) ==
  /\ reader[r].at = "refine" => reader[r].query \in Queries /\ reader[r].topk \in Nat
  /\ Refining(r) =>
       reader[r].found = NearestOf(AnswersAmong(r, Read(r)), reader[r].topk)

ExactlyInv == \A r \in Readers : ExactInv(r)

\* The record of a candidate is a row its caller holds, and a candidate where
\* the directory has a held row is the record of that row.
LEMMA CandidateAnswers ==
  ASSUME SearchInv, NEW r \in Readers, Refining(r)
  PROVE  /\ AnswersAmong(r, reader[r].candidates) \subseteq OwedTo(r)
         /\ \A n \in OwedTo(r) : dir.loc[n[2]] \in reader[r].candidates
                                   => AnswerOf(r, dir.loc[n[2]]) = n
<1>1. ReaderInv(r) /\ IndexInv /\ phase = "idle"
  BY DEF SearchInv, ReaderInv, Refining
<1>2. \A l \in reader[r].probed : l \in Lists \ torn
  BY <1>1 DEF ReaderInv, Refining
<1>3. ASSUME NEW x \in reader[r].candidates
      PROVE  AnswerOf(r, x) \in OwedTo(r)
  <2>1. PICK m \in reader[r].probed :
          \E s \in 0 .. (lists[m].size - 1) : x = <<m, s>>
    BY <1>1 DEF ReaderInv
  <2>2. PICK s \in 0 .. (lists[m].size - 1) : x = <<m, s>>
    BY <2>1
  <2>3. /\ file[m].rec[s].id \in HeldIn(m)
        /\ file[m].rec[s].vec = told[file[m].rec[s].id]
    BY <1>1, <1>2, <2>2, IdleServed DEF RowsServed
  <2>4. RecordAt(x) = file[m].rec[s]
    BY <2>2 DEF RecordAt
  <2>5. QED
    BY <2>1, <2>3, <2>4 DEF OwedTo, Owed, AnswerOf
<1>4. ASSUME NEW n \in OwedTo(r)
      PROVE  AnswerOf(r, dir.loc[n[2]]) = n
  <2>1. PICK l \in reader[r].probed :
          \E i \in HeldIn(l) : n = <<Distance[reader[r].query][told[i]], i>>
    BY DEF OwedTo, Owed
  <2>2. PICK i \in HeldIn(l) : n = <<Distance[reader[r].query][told[i]], i>>
    BY <2>1
  <2>3. RowsServed(l) /\ HeldServed(l)
    BY <1>1, <1>2, IdleServed
  <2>4. PICK s \in 0 .. (lists[l].size - 1) : file[l].rec[s].id = i
    BY <2>3 DEF HeldServed
  <2>5. dir.loc[i] = <<l, s>> /\ file[l].rec[s].vec = told[i]
    BY <2>3, <2>4 DEF RowsServed
  <2>6. n[2] = i /\ RecordAt(<<l, s>>) = file[l].rec[s]
    BY <2>2 DEF RecordAt
  <2>7. QED
    BY <2>2, <2>4, <2>5, <2>6 DEF AnswerOf
<1>5. QED
  BY <1>3, <1>4 DEF AnswersAmong

\* The next list's rows are ranked with those kept of the lists before it.
LEMMA ExactRefine ==
  ASSUME SearchInv, NEW r \in Readers, ExactInv(r), NEW l \in Lists,
         RefineList(r, l)
  PROVE  ExactInv(r)'
<1> DEFINE read == {<<Distance[reader[r].query][RecordAt(x).vec], RecordAt(x).id>> :
                      x \in CandidatesIn(r, l)}
           kept == NearestOf(reader[r].found \cup read, reader[r].topk)
<1>1. /\ ReaderInv(r) /\ IndexInv /\ UNCHANGED vars /\ reader[r].at = "refine"
      /\ DOMAIN reader = Readers
  BY DEF SearchInv, RefineList
<1>2. reader' = [reader EXCEPT ![r].unread = @ \ {l}, ![r].found = kept]
  BY DEF RefineList
<1>3. read = AnswersAmong(r, CandidatesIn(r, l))
  BY DEF AnswersAmong, AnswerOf
<1> HIDE DEF read, kept
<1>4. /\ reader'[r].at = reader[r].at /\ reader'[r].query = reader[r].query
      /\ reader'[r].topk = reader[r].topk /\ reader'[r].probed = reader[r].probed
      /\ reader'[r].candidates = reader[r].candidates
      /\ reader'[r].unread = reader[r].unread \ {l}
      /\ reader'[r].found = kept
  BY <1>1, <1>2 DEF ReaderInv
<1>5. Read(r)' = Read(r) \cup CandidatesIn(r, l)
  BY <1>4 DEF Read, CandidatesIn
<1>6. AnswersAmong(r, Read(r))' = AnswersAmong(r, Read(r)) \cup read
  <2>1. \A x : AnswerOf(r, x)' = AnswerOf(r, x)
    BY <1>1, <1>4 DEF AnswerOf, RecordAt, vars
  <2>2. AnswersAmong(r, Read(r))' = {AnswerOf(r, x) : x \in Read(r)'}
    BY <2>1 DEF AnswersAmong
  <2>3. QED
    BY <1>3, <1>5, <2>2 DEF AnswersAmong
<1>7. ASSUME Refining(r)
      PROVE  kept = NearestOf(AnswersAmong(r, Read(r)) \cup read, reader[r].topk)
  <2> DEFINE R == AnswersAmong(r, Read(r))
             O == R \cup read
             F == reader[r].found
             k == reader[r].topk
  <2>1. O \subseteq OwedTo(r)
    <3>1. Read(r) \subseteq reader[r].candidates
          /\ CandidatesIn(r, l) \subseteq reader[r].candidates
      BY DEF Read, CandidatesIn
    <3>2. AnswersAmong(r, reader[r].candidates) \subseteq OwedTo(r)
      BY <1>7, CandidateAnswers
    <3>3. QED
      BY <1>3, <3>1, <3>2 DEF AnswersAmong
  <2>2. IsFiniteSet(OwedTo(r)) /\ OwedTo(r) \subseteq Nat \X Nat
    BY <1>1, OwedFinite, OwedNat DEF OwedTo, ExactInv
  <2>3. F = NearestOf(R, k) /\ k \in Nat /\ kept = NearestOf(F \cup read, k)
        /\ O = R \cup read
    BY <1>1, <1>7 DEF ExactInv, kept
  <2> HIDE DEF R, O, F, k
  <2>4. IsFiniteSet(O) /\ O \subseteq Nat \X Nat
    BY <2>1, <2>2, FS_Subset
  <2> DEFINE A == F \cup read
  <2>5. A \subseteq O /\ R \subseteq O
    BY <2>3 DEF NearestOf
  <2>6. \A n \in NearestOf(O, k) : n \in R => n \in F
    BY <2>3, <2>4, <2>5, NearestOfPart
  <2>7. NearestOf(O, k) \subseteq A
    BY <2>3, <2>6 DEF NearestOf
  <2>8. kept = NearestOf(A, k)
    BY <2>3
  <2> HIDE DEF A
  <2>9. NearestOf(A, k) = NearestOf(O, k)
    BY <2>3, <2>4, <2>5, <2>7, NearestSuffice
  <2>10. QED
    BY <2>8, <2>9 DEF O, R, k
<1>8. Refining(r)' = Refining(r)
  BY <1>1, <1>4 DEF Refining, vars
<1>9. QED
  BY <1>1, <1>4, <1>6, <1>7, <1>8 DEF ExactInv

\* A search that begins has read nothing.
LEMMA ExactBegin ==
  ASSUME SearchInv, NEW r \in Readers, NEW q \in Queries,
         NEW nprobe \in 1 .. NumLists, NEW topk \in 1 .. MaxTopK,
         SearchBegin(r, q, nprobe, topk)
  PROVE  ExactInv(r)'
<1> DEFINE C == {Located(q, nprobe, t) : t \in Selected(q, nprobe, topk)}
<1>1. /\ reader'[r].query = q /\ reader'[r].topk = topk
      /\ reader'[r].candidates = C /\ reader'[r].unread = {x[1] : x \in C}
      /\ reader'[r].found = {}
  BY DEF SearchInv, SearchBegin
<1> HIDE DEF C
<1>2. Read(r)' = {}
  BY <1>1 DEF Read
<1>3. AnswersAmong(r, Read(r))' = {}
  BY <1>2 DEF AnswersAmong
<1>4. NearestOf({}, topk) = {} /\ topk \in Nat
  BY DEF NearestOf
<1>5. QED
  BY <1>1, <1>3, <1>4 DEF ExactInv

\* A search no step of its reader changes is about the same rows.
LEMMA ExactFrame ==
  ASSUME NEW r, ExactInv(r), reader'[r] = reader[r],
         reader[r].at = "idle" \/ UNCHANGED vars
  PROVE  ExactInv(r)'
<1>1. CASE reader[r].at = "idle"
  BY <1>1 DEF ExactInv, Refining
<1>2. CASE UNCHANGED vars
  <2>1. Refining(r)' = Refining(r) /\ Read(r)' = Read(r)
    BY <1>2 DEF Refining, Read, vars
  <2>2. AnswersAmong(r, Read(r))' = AnswersAmong(r, Read(r))
    BY <1>2, <2>1 DEF AnswersAmong, AnswerOf, RecordAt, vars
  <2>3. QED
    BY <2>1, <2>2 DEF ExactInv
<1>3. QED
  BY <1>1, <1>2

\* Every step keeps the answers so far exact.
LEMMA ExactlyInvNext ==
  SearchInv /\ ExactlyInv /\ [SearchNext]_searchVars => ExactlyInv'
<1> SUFFICES ASSUME SearchInv, ExactlyInv, [SearchNext]_searchVars
             PROVE  ExactlyInv'
  OBVIOUS
<1>1. CASE (Update \/ UpdateStep \/ UpdateFailure) /\ UNCHANGED reader
  BY <1>1, UpdateAlone, ExactFrame DEF ExactlyInv
<1>2. ASSUME NEW r \in Readers, SearchStep(r)
      PROVE  ExactlyInv'
  <2>1. UNCHANGED vars
    BY <1>2 DEF SearchStep, SearchBegin, RefineList, SearchEnd, SearchFails
  <2>2. \A o \in Readers \ {r} : reader'[o] = reader[o]
    BY <1>2 DEF SearchStep, SearchBegin, RefineList, SearchEnd, SearchFails, SearchInv
  <2>3. \A o \in Readers \ {r} : ExactInv(o)'
    BY <2>1, <2>2, ExactFrame DEF ExactlyInv
  <2>4. CASE \E q \in Queries, nprobe \in 1 .. NumLists, topk \in 1 .. MaxTopK :
               SearchBegin(r, q, nprobe, topk)
    BY <2>3, <2>4, ExactBegin DEF ExactlyInv
  <2>5. CASE \E l \in Lists : RefineList(r, l)
    BY <2>3, <2>5, ExactRefine DEF ExactlyInv
  <2>6. CASE SearchEnd(r) \/ SearchFails(r)
    <3>1. reader'[r] = NoSearch
      BY <2>6 DEF SearchEnd, SearchFails, SearchInv
    <3>2. ExactInv(r)'
      BY <3>1 DEF NoSearch, ExactInv, Refining
    <3>3. QED
      BY <2>3, <3>2 DEF ExactlyInv
  <2>7. QED
    BY <1>2, <2>4, <2>5, <2>6 DEF SearchStep
<1>3. CASE UNCHANGED searchVars
  BY <1>3, ExactFrame DEF searchVars, ExactlyInv
<1>4. QED
  BY <1>1, <1>2, <1>3 DEF SearchNext

\* When every list has been read, the candidates' rows are owed rows with the
\* nearest among them.
LEMMA AllRead ==
  ASSUME SearchInv, ExactlyInv, NEW r \in Readers, Refining(r), Uncapped(r),
         reader[r].unread = {}
  PROVE  reader[r].found = NearestOf(OwedTo(r), reader[r].topk)
<1> DEFINE O == OwedTo(r)
           A == AnswersAmong(r, reader[r].candidates)
           k == reader[r].topk
<1>1. /\ reader[r].found = NearestOf(A, k) /\ k \in Nat
      /\ reader[r].query \in Queries
  <2>1. Read(r) = reader[r].candidates
    BY DEF Read
  <2>2. QED
    BY <2>1 DEF ExactlyInv, ExactInv, Refining
<1>2. A \subseteq O
  BY CandidateAnswers
<1>3. NearestOf(O, k) \subseteq A
  <2>1. \A n \in NearestOf(O, k) : n \in O /\ dir.loc[n[2]] \in reader[r].candidates
    BY DEF SearchInv, ReaderInv, NearestOf
  <2>2. \A n \in NearestOf(O, k) : AnswerOf(r, dir.loc[n[2]]) = n
    BY <2>1, CandidateAnswers
  <2>3. QED
    BY <2>1, <2>2 DEF AnswersAmong
<1>4. IsFiniteSet(O) /\ O \subseteq Nat \X Nat
  BY <1>1, OwedFinite, OwedNat DEF OwedTo, SearchInv
<1> HIDE DEF O, A, k
<1>5. NearestOf(A, k) = NearestOf(O, k)
  BY <1>1, <1>2, <1>3, <1>4, NearestSuffice
<1>6. QED
  BY <1>1, <1>5 DEF O, k

\* A search that returns answers as if it had compared the query with every row
\* of the probed lists at one instant: for every placement of the rows, every
\* order of the lists and every history of updates and failures before it.
THEOREM SearchesExact == SearchSpec => []SearchExact
<1>1. SearchInit => ExactlyInv
  BY DEF SearchInit, NoSearch, ExactlyInv, ExactInv, Refining
<1>2. SearchInv /\ ExactlyInv => SearchExact
  BY AllRead DEF SearchExact
<1>3. QED
  BY <1>1, <1>2, ExactlyInvNext, SearchInvariant, PTL DEF SearchSpec

(***************************************************************************)
(* None of the internal errors of select_candidates_locked.  The positions *)
(* of the probed lists are as many as the tokens and lead to different     *)
(* rows of the index, so the tokens fit; each scanned row has a token of   *)
(* its own, so there are topk rows, and the topk ranked first are          *)
(* candidates: a row whose upper endpoint is below the lower endpoint of   *)
(* another is ranked before it.                                            *)
(***************************************************************************)
\* The tokens of a search are as many as its positions.
LEMMA TokensCounted ==
  ASSUME NEW q, NEW nprobe \in 1 .. NumLists
  PROVE  SpanBegin(q, nprobe) = Cardinality(Positions(q, nprobe))
<1>1. \A k \in Lists : k < nprobe <=> k \in 0 .. (nprobe - 1)
  BY NumListsAssumption DEF Lists
<1>2. 0 .. (nprobe - 1) \subseteq Lists
  BY NumListsAssumption DEF Lists
<1>3. Positions(q, nprobe)
        = {x \in Lists \X Slots : x[1] < nprobe /\ x[2] < SizeAt(q, x[1])}
  BY <1>1, <1>2 DEF Positions
<1> QED  BY <1>3 DEF SpanBegin

\* They are no more than the rows of the index, which have IDs.
LEMMA TokensAlwaysFit ==
  ASSUME IndexInv, CountInv, NEW q, NEW nprobe, Scanning(q, nprobe)
  PROVE  TokensFit(q, nprobe)
<1> DEFINE P == Positions(q, nprobe)
           row == [x \in P |-> <<Route[q][x[1]], x[2]>>]
           T == {row[x] : x \in P}
<1>1. /\ nprobe \in 1 .. NumLists /\ 0 .. (nprobe - 1) \subseteq Lists
      /\ \A k \in Lists : Route[q][k] \in Lists
      /\ \A j, k \in Lists : Route[q][j] = Route[q][k] => j = k
  BY RouteFacts DEF Scanning
<1>2. \A x \in P : /\ x[1] \in Lists /\ x[2] \in Slots /\ x = <<x[1], x[2]>>
                   /\ x[2] < SizeAt(q, x[1])
  BY <1>1 DEF Positions
<1>3. \A x, y \in P : row[x] = row[y] => x = y
  <2> SUFFICES ASSUME NEW x \in P, NEW y \in P, row[x] = row[y] PROVE x = y
    OBVIOUS
  <2>1. Route[q][x[1]] = Route[q][y[1]] /\ x[2] = y[2]
    OBVIOUS
  <2>2. x[1] = y[1]
    BY <1>1, <1>2, <2>1
  <2> QED  BY <1>2, <2>1, <2>2
<1>4. T \subseteq Rows(Sizes)
  BY <1>1, <1>2 DEF Rows, Sizes, SizeAt, Locations
<1>5. row \in [P -> T] /\ IsFiniteSet(P)
  BY PositionFacts
<1> HIDE DEF row
<1>6. Cardinality(T) = Cardinality(P)
  BY <1>3, <1>5, Counted
<1> HIDE DEF T, P
<1>7. /\ Cardinality(T) <= Cardinality(Rows(Sizes))
      /\ Cardinality(T) \in Nat /\ Cardinality(Rows(Sizes)) \in Nat
  BY <1>4, RowsFinite, FS_Subset, FS_CardinalityType
<1>8. next_id \in 0 .. IdLimit /\ Cardinality(Rows(Sizes)) <= next_id
  BY DEF IndexInv, PlanInv, TypeOK, CountInv
<1>9. SpanBegin(q, nprobe) = Cardinality(P)
  BY <1>1, TokensCounted DEF P
<1> QED  BY <1>6, <1>7, <1>8, <1>9, IdLimitAssumption DEF TokensFit

\* The rows of a scan, one for each position, have numbers for estimates and
\* endpoints, and different tokens.
LEMMA RowsOfScan ==
  ASSUME IndexInv, NEW q, NEW nprobe, Scanning(q, nprobe)
  PROVE  LET S == ScannedRows(q, nprobe)
         IN  /\ \A r \in S : /\ r.id \in Nat /\ r.est \in Int
                             /\ Lower(r) \in Int /\ Upper(r) \in Int
                             /\ Lower(r) <= r.est /\ r.est <= Upper(r)
             /\ \A r, t \in S : r.id = t.id => r = t
             /\ IsFiniteSet(S) /\ Cardinality(S) = SpanBegin(q, nprobe)
<1> DEFINE S == ScannedRows(q, nprobe)
           P == Positions(q, nprobe)
           row == [x \in P |-> RowAt(q, x[1], x[2])]
<1>1. /\ q \in Queries /\ nprobe \in 1 .. NumLists
      /\ 0 .. (nprobe - 1) \subseteq Lists /\ Lists \subseteq Nat
      /\ \A k \in Lists : Route[q][k] \in Lists
  BY RouteFacts DEF Scanning
<1>2. \A x \in P : /\ x[1] \in 0 .. (nprobe - 1) /\ x = <<x[1], x[2]>>
                   /\ x[2] \in Slots /\ x[2] \in 0 .. (SizeAt(q, x[1]) - 1)
  <2>1. \A x \in P : x[2] \in 0 .. (SizeAt(q, x[1]) - 1)
    BY PositionFacts
  <2> QED  BY <2>1 DEF Positions
<1>3. ASSUME NEW x \in P
      PROVE  /\ row[x].id = SpanBegin(q, x[1]) + x[2] /\ row[x].id \in Nat
             /\ row[x].est \in Int
             /\ Lower(row[x]) \in Int /\ Upper(row[x]) \in Int
             /\ Lower(row[x]) <= row[x].est /\ row[x].est <= Upper(row[x])
  <2> DEFINE lane == lists[Route[q][x[1]]].lane[x[2]]
             token == SpanBegin(q, x[1]) + x[2]
  <2>1. row[x] = RowOf(q, lane, token)
    BY DEF RowAt
  <2>2. lane \in Lanes
    BY <1>1, <1>2 DEF IndexInv, PlanInv, TypeOK, MemoryList
  <2>3. token \in Nat
    <3>1. SpanBegin(q, x[1]) \in Nat
      BY <1>2, SpansApart
    <3> QED  BY <1>2, <3>1
  <2>4. row[x].id = token
    BY <2>1 DEF RowOf
  <2> HIDE DEF row, lane
  <2> QED  BY <1>1, <2>1, <2>2, <2>3, <2>4, LaneBounds
<1>4. ASSUME NEW x \in P, NEW y \in P, x[1] < y[1]
      PROVE  row[x].id < row[y].id
  <2>1. /\ SpanBegin(q, x[1]) \in Nat /\ SizeAt(q, x[1]) \in Nat
        /\ SpanBegin(q, y[1]) \in Nat
        /\ SpanBegin(q, x[1]) + SizeAt(q, x[1]) <= SpanBegin(q, y[1])
    BY <1>2, <1>4, SpansApart DEF SpanEnd
  <2>2. /\ row[x].id = SpanBegin(q, x[1]) + x[2]
        /\ row[y].id = SpanBegin(q, y[1]) + y[2]
    BY <1>3
  <2> QED  BY <1>2, <2>1, <2>2
<1>5. \A x, y \in P : row[x].id = row[y].id => x = y
  <2> SUFFICES ASSUME NEW x \in P, NEW y \in P, row[x].id = row[y].id PROVE x = y
    OBVIOUS
  <2>1. /\ row[x].id = SpanBegin(q, x[1]) + x[2] /\ row[x].id \in Nat
        /\ row[y].id = SpanBegin(q, y[1]) + y[2]
    BY <1>3
  <2>2. ~(x[1] < y[1]) /\ ~(y[1] < x[1])
    BY <1>4, <2>1
  <2>3. x[1] = y[1]
    BY <1>1, <1>2, <2>2
  <2>4. SpanBegin(q, x[1]) \in Nat
    BY <1>2, SpansApart
  <2>5. x[2] = y[2]
    BY <1>2, <2>1, <2>3, <2>4
  <2> QED  BY <1>2, <2>3, <2>5
<1>6. S = {row[x] : x \in P}
  BY ScannedExactly
<1>7. row \in [P -> S] /\ \A x, y \in P : row[x] = row[y] => x = y
  BY <1>5, <1>6
<1>8. IsFiniteSet(P)
  BY PositionFacts
<1> HIDE DEF row, P, S
<1>9. IsFiniteSet(S) /\ Cardinality(S) = Cardinality(P)
  BY <1>6, <1>7, <1>8, Counted
<1>10. Cardinality(P) = SpanBegin(q, nprobe)
  BY <1>1, TokensCounted DEF P
<1>11. \A r, t \in S : r.id = t.id => r = t
  BY <1>5, <1>6
<1>12. \A r \in S : /\ r.id \in Nat /\ r.est \in Int
                    /\ Lower(r) \in Int /\ Upper(r) \in Int
                    /\ Lower(r) <= r.est /\ r.est <= Upper(r)
  BY <1>3, <1>6
<1> QED  BY <1>9, <1>10, <1>11, <1>12 DEF S

\* Of enough rows, at least topk are candidates: those ranked first.
LEMMA EnoughCandidates ==
  ASSUME NEW S, IsFiniteSet(S), NEW k \in Nat \ {0}, k <= Cardinality(S),
         NEW cap \in Nat, cap = 0 \/ cap >= k,
         \A r \in S : /\ r.id \in Nat /\ r.est \in Int
                      /\ Lower(r) \in Int /\ Upper(r) \in Int
                      /\ Lower(r) <= r.est /\ r.est <= Upper(r),
         \A r, t \in S : r.id = t.id => r = t
  PROVE  Cardinality(Candidates(S, k, cap)) >= k
<1> DEFINE R == {x \in S \X S : Ranked(x[1], x[2])}
           first == {r \in S : Rank(S, R, r) < k}
           C == Candidates(S, k, cap)
<1>1. \A x, y \in S : <<x, y>> \in R <=> Ranked(x, y)
  OBVIOUS
<1>2. /\ \A x \in S : <<x, x>> \notin R
      /\ \A x, y, z \in S : <<x, y>> \in R /\ <<y, z>> \in R => <<x, z>> \in R
      /\ \A x, y \in S : x # y => <<x, y>> \in R \/ <<y, x>> \in R
  BY DEF Ranked
<1> HIDE DEF R
<1>3. Cardinality(S) \in Nat /\ k \in 0 .. Cardinality(S)
  BY FS_CardinalityType
<1>4. Cardinality(first) = k
  <2> DEFINE n == k
  <2>1. n \in 0 .. Cardinality(S)
    BY <1>3
  <2> HIDE DEF n
  <2>2. Cardinality({r \in S : Rank(S, R, r) < n}) = n
    BY <1>2, <2>1, RankPrefix
  <2> QED  BY <2>2 DEF n
<1>5. ASSUME NEW r \in first
      PROVE  r \in C
  <2> DEFINE ahead == {q \in S : Ranked(q, r)}
             below == {q \in S : Upper(q) < Lower(r)}
  <2>1. ahead = {q \in S : <<q, r>> \in R}
    BY <1>1
  <2>2. Cardinality(ahead) = Rank(S, R, r)
    BY <2>1 DEF Rank
  <2>3. below \subseteq ahead
    <3> SUFFICES ASSUME NEW q \in S, Upper(q) < Lower(r) PROVE q.est < r.est
      BY DEF Ranked
    <3> QED  OBVIOUS
  <2>4. IsFiniteSet(ahead)
    BY FS_Subset
  <2>5. Cardinality(ahead) < k
    BY <2>2
  <2>6. Shortlisted(S, r, cap) <=> cap = 0 \/ Cardinality(ahead) < cap
    BY DEF Shortlisted
  <2>7. Passes(S, r, k) <=> Cardinality(below) < k
    BY DEF Passes
  <2> HIDE DEF ahead, below
  <2>8. /\ Cardinality(ahead) \in Nat /\ Cardinality(below) \in Nat
        /\ Cardinality(below) <= Cardinality(ahead)
    BY <2>3, <2>4, FS_Subset, FS_CardinalityType
  <2>9. Shortlisted(S, r, cap) /\ Passes(S, r, k)
    BY <2>5, <2>6, <2>7, <2>8
  <2> QED  BY <2>9 DEF Candidates
<1>6. IsFiniteSet(C)
  BY FS_Subset DEF Candidates
<1> HIDE DEF first, C
<1>7. Cardinality(first) <= Cardinality(C) /\ Cardinality(C) \in Nat
  BY <1>5, <1>6, FS_Subset, FS_CardinalityType
<1> QED  BY <1>4, <1>7 DEF C

\* The selector returns the tokens of at least topk rows, and each of them is
\* in a span.
LEMMA SelectionAcceptable ==
  ASSUME IndexInv, NEW q, NEW nprobe, Scanning(q, nprobe),
         NEW topk \in Nat \ {0}, RequestValid(q, nprobe, topk)
  PROVE  /\ Cardinality(Selected(q, nprobe, topk)) >= topk
         /\ \A t \in Selected(q, nprobe, topk) : TokenValid(q, nprobe, t)
<1> DEFINE S == ScannedRows(q, nprobe)
           C == Candidates(S, topk, max_candidates)
           token == [r \in C |-> r.id]
           T == Selected(q, nprobe, topk)
<1>1. Cardinality(C) >= topk /\ IsFiniteSet(C)
  <2>1. max_candidates \in Nat /\ (max_candidates = 0 \/ max_candidates >= topk)
    BY EstimateAssumption DEF RequestValid
  <2>2. topk <= Cardinality(S) /\ IsFiniteSet(S)
    BY RowsOfScan DEF RequestValid
  <2>3. IsFiniteSet(C)
    BY <2>2, FS_Subset DEF Candidates
  <2> QED  BY <2>1, <2>2, <2>3, RowsOfScan, EnoughCandidates
<1>2. T = {token[r] : r \in C}
  BY DEF Selected
<1>3. \A r, t \in C : token[r] = token[t] => r = t
  BY RowsOfScan DEF Candidates
<1>4. token \in [C -> T]
  BY <1>2
<1>5. \A t \in T : TokenValid(q, nprobe, t)
  <2> SUFFICES ASSUME NEW t \in T PROVE TokenValid(q, nprobe, t)
    OBVIOUS
  <2>1. PICK r \in S : t = r.id
    BY DEF Selected, Candidates
  <2>2. PICK x \in Positions(q, nprobe) : r = RowAt(q, x[1], x[2])
    BY <2>1, ScannedExactly
  <2>3. x[1] \in 0 .. (nprobe - 1) /\ x[2] \in 0 .. (SizeAt(q, x[1]) - 1)
    BY PositionFacts DEF Positions
  <2>4. t = SpanBegin(q, x[1]) + x[2]
    BY <2>1, <2>2 DEF RowAt, RowOf
  <2> QED  BY <2>3, <2>4, LocatedRow
<1> HIDE DEF token, C, T
<1>6. Cardinality(T) = Cardinality(C)
  BY <1>1, <1>2, <1>3, <1>4, Counted
<1> QED  BY <1>1, <1>5, <1>6 DEF T

\* Searches only read: with them the index does what it does without.
THEOREM SearchesOnlyRead == SearchSpec => Spec
<1>1. SearchInit => Init
  BY DEF SearchInit
<1>2. [SearchNext]_searchVars => [Next]_vars
  <2> SUFFICES ASSUME [SearchNext]_searchVars PROVE [Next]_vars
    OBVIOUS
  <2>1. CASE Update \/ UpdateStep \/ UpdateFailure
    BY <2>1 DEF Update, Next
  <2>2. ASSUME NEW r \in Readers, SearchStep(r)
        PROVE  UNCHANGED vars
    BY <2>2 DEF SearchStep, SearchBegin, RefineList, SearchEnd, SearchFails
  <2>3. CASE UNCHANGED searchVars
    BY <2>3 DEF searchVars
  <2> QED  BY <2>1, <2>2, <2>3 DEF SearchNext
<1> QED  BY <1>1, <1>2, PTL DEF SearchSpec, Spec

\* Whatever updates have failed, torn lists included, a valid request meets none
\* of the internal errors of the selection.
THEOREM SelectionSucceeds == SearchSpec => []SelectionNeverThrows
<1>1. IndexInv /\ CountInv /\ SizesFit => SelectionNeverThrows
  <2> SUFFICES ASSUME IndexInv, CountInv, SizesFit,
                      NEW q \in Queries, NEW nprobe \in 1 .. NumLists,
                      NEW topk \in 1 .. MaxTopK, RequestValid(q, nprobe, topk)
               PROVE  SelectionAccepted(q, nprobe, topk)
    BY DEF SelectionNeverThrows
  <2>1. Scanning(q, nprobe) /\ topk \in Nat \ {0}
    BY FitScans
  <2>2. TokensFit(q, nprobe)
    BY <2>1, TokensAlwaysFit
  <2> QED  BY <2>1, <2>2, SelectionAcceptable DEF SelectionAccepted
<1>2. Spec => [](CountInv /\ SizesFit)
  <2>1. Init => CountInv /\ SizesFit
    BY CountInvInit, SizesFitInit
  <2>2. PlanInv /\ CountInv /\ SizesFit /\ [Next]_vars => CountInv' /\ SizesFit'
    BY CountInvNext, SizesFitNext
  <2> QED  BY <2>1, <2>2, PlanInvariant, PTL DEF Spec
<1> QED  BY <1>1, <1>2, IndexInvariant, SearchesOnlyRead, PTL
=============================================================================

--------------------------- MODULE FastScan_proofs ---------------------------
(***************************************************************************)
(* What the fast scan promises for every scan, whatever the order of the   *)
(* rows and wherever its partitions fall: the reservoir never loses a row  *)
(* of the best R, no check of the partition fires, and the candidates are  *)
(* those of the reference rule.                                            *)
(***************************************************************************)
EXTENDS IntervalSelection, OrderLemmas

(***************************************************************************)
(* Rows.                                                                   *)
(***************************************************************************)
\* Rows with different IDs whose endpoints surround their estimates.
RowSet(P) ==
  /\ IsFiniteSet(P)
  /\ \A r \in P : /\ r.id \in Nat /\ r.est \in Int
                  /\ Lower(r) \in Int /\ Upper(r) \in Int
                  /\ Lower(r) <= r.est /\ r.est <= Upper(r)
  /\ \A r, q \in P : r.id = q.id => r = q

\* The rows of a scan are such rows.
LEMMA RowsOfScan ==
  ASSUME NEW s \in Scans
  PROVE  RowSet(s.rows)
<1>1. /\ Infinity \in Nat \ {0} /\ ZScore \in Nat /\ IsFiniteSet(s.rows)
      /\ \A r \in s.rows : /\ r.id \in Nat /\ r.est \in -Infinity .. Infinity
                           /\ r.unc \in 0 .. Infinity
      /\ \A r, q \in s.rows : r.id = q.id => r = q
  BY ScanParameters
<1>2. ASSUME NEW r \in s.rows
      PROVE  /\ r.id \in Nat /\ r.est \in Int
             /\ Lower(r) \in Int /\ Upper(r) \in Int
             /\ Lower(r) <= r.est /\ r.est <= Upper(r)
  <2>1. PICK e \in Int, u \in Nat : e = r.est /\ u = r.unc /\ -Infinity <= e /\ e <= Infinity
    BY <1>1
  <2>2. ZScore * u \in Nat /\ e - ZScore * u <= e /\ e <= e + ZScore * u
    BY <1>1, <2>1
  <2> DEFINE z == ZScore * u
  <2>3. Lower(r) = IF ZScore = 0 \/ u = 0 THEN e
                   ELSE IF z >= Infinity THEN -Infinity
                   ELSE IF e \in {-Infinity, Infinity} THEN e ELSE Saturated(e - z)
    BY <2>1 DEF Lower
  <2>4. Upper(r) = IF ZScore = 0 \/ u = 0 THEN e
                   ELSE IF z >= Infinity THEN Infinity
                   ELSE IF e \in {-Infinity, Infinity} THEN e ELSE Saturated(e + z)
    BY <2>1 DEF Upper
  <2> HIDE DEF z
  <2>5. z \in Nat /\ e - z \in Int /\ e + z \in Int /\ e - z <= e /\ e <= e + z
    BY <2>1, <2>2 DEF z
  <2>6. Saturated(e - z) \in Int /\ Saturated(e - z) <= e
        /\ Saturated(e + z) \in Int /\ e <= Saturated(e + z)
    BY <1>1, <2>1, <2>5 DEF Saturated
  <2>7. Lower(r) \in Int /\ Lower(r) <= e
    BY <1>1, <2>1, <2>3, <2>6
  <2>8. Upper(r) \in Int /\ e <= Upper(r)
    BY <1>1, <2>1, <2>4, <2>6
  <2>9. QED
    BY <1>1, <2>1, <2>7, <2>8
<1>3. QED
  BY <1>1, <1>2 DEF RowSet

\* So are some of them.
LEMMA PartOfRows ==
  ASSUME NEW P, RowSet(P), NEW Q, Q \subseteq P
  PROVE  RowSet(Q)
BY FS_Subset DEF RowSet

\* The rows of P that are ranked before r.
Ahead(P, r) == {q \in P : Ranked(q, r)}
Place(P, r) == Cardinality(Ahead(P, r))

\* The rank is a strict total order.
LEMMA RankOrder ==
  ASSUME NEW P, RowSet(P)
  PROVE  /\ \A x \in P : ~Ranked(x, x)
         /\ \A x, y, z \in P : Ranked(x, y) /\ Ranked(y, z) => Ranked(x, z)
         /\ \A x, y \in P : x # y => Ranked(x, y) \/ Ranked(y, x)
<1>1. \A x \in P : x.id \in Int /\ x.est \in Int
  BY DEF RowSet
<1>2. \A x, y \in P : x # y => x.id # y.id
  BY DEF RowSet
<1>3. QED
  BY <1>1, <1>2 DEF Ranked

\* The places of the rows are 0, 1 and so on, each taken once and in order.
LEMMA RowPlaces ==
  ASSUME NEW P, RowSet(P)
  PROVE  /\ Cardinality(P) \in Nat
         /\ \A x \in P : Place(P, x) \in 0 .. Cardinality(P) - 1
         /\ \A x, y \in P : Ranked(x, y) <=> Place(P, x) < Place(P, y)
         /\ \A x, y \in P : Place(P, x) = Place(P, y) => x = y
         /\ \A n \in 0 .. Cardinality(P) - 1 : \E x \in P : Place(P, x) = n
         /\ \A n \in 0 .. Cardinality(P) :
              /\ IsFiniteSet({x \in P : Place(P, x) < n})
              /\ Cardinality({x \in P : Place(P, x) < n}) = n
<1> DEFINE R == {p \in P \X P : Ranked(p[1], p[2])}
<1>1. \A x, y \in P : <<x, y>> \in R <=> Ranked(x, y)
  OBVIOUS
<1>2. \A x \in P : Rank(P, R, x) = Place(P, x)
  <2> TAKE x \in P
  <2>1. {y \in P : <<y, x>> \in R} = Ahead(P, x)
    BY <1>1 DEF Ahead
  <2>2. QED
    BY <2>1 DEF Rank, Place
<1> HIDE DEF R
<1>3. /\ \A x \in P : <<x, x>> \notin R
      /\ \A x, y, z \in P : <<x, y>> \in R /\ <<y, z>> \in R => <<x, z>> \in R
      /\ \A x, y \in P : x # y => <<x, y>> \in R \/ <<y, x>> \in R
  BY <1>1, RankOrder
<1>4. IsFiniteSet(P)
  BY DEF RowSet
<1>5. /\ Cardinality(P) \in Nat
      /\ \A x \in P : Rank(P, R, x) \in 0 .. Cardinality(P) - 1
      /\ \A x, y \in P : <<x, y>> \in R <=> Rank(P, R, x) < Rank(P, R, y)
      /\ \A x, y \in P : Rank(P, R, x) = Rank(P, R, y) => x = y
      /\ \A n \in 0 .. Cardinality(P) - 1 : \E x \in P : Rank(P, R, x) = n
  BY <1>3, <1>4, Ranks
<1>6. ASSUME NEW n \in 0 .. Cardinality(P)
      PROVE  /\ IsFiniteSet({x \in P : Place(P, x) < n})
             /\ Cardinality({x \in P : Place(P, x) < n}) = n
  <2>1. {x \in P : Place(P, x) < n} = {x \in P : Rank(P, R, x) < n}
    BY <1>2
  <2>2. /\ IsFiniteSet({x \in P : Rank(P, R, x) < n})
        /\ Cardinality({x \in P : Rank(P, R, x) < n}) = n
    BY <1>3, <1>4, RankPrefix
  <2>3. QED
    BY ONLY <2>1, <2>2, Zenon
<1>7. /\ \A x \in P : Place(P, x) \in 0 .. Cardinality(P) - 1
      /\ \A x, y \in P : Place(P, x) = Place(P, y) => x = y
      /\ \A n \in 0 .. Cardinality(P) - 1 : \E x \in P : Place(P, x) = n
  BY ONLY <1>2, <1>5
<1>8. \A x, y \in P : Ranked(x, y) <=> Place(P, x) < Place(P, y)
  BY ONLY <1>1, <1>2, <1>5
<1>9. QED
  BY ONLY <1>5, <1>6, <1>7, <1>8

\* The n rows ranked first.
Leading(P, n) == {x \in P : Place(P, x) < n}

\* There are n of them.
LEMMA LeadingRows ==
  ASSUME NEW P, RowSet(P), NEW n \in 0 .. Cardinality(P)
  PROVE  IsFiniteSet(Leading(P, n)) /\ Cardinality(Leading(P, n)) = n
  BY RowPlaces DEF Leading

\* Row number n of a set.
LEMMA NthRankedRow ==
  ASSUME NEW P, RowSet(P), NEW n \in 1 .. Cardinality(P)
  PROVE  NthRanked(P, n) \in P /\ Place(P, NthRanked(P, n)) = n - 1
<1>1. n - 1 \in 0 .. Cardinality(P) - 1
  BY RowPlaces
<1>2. PICK x \in P : Place(P, x) = n - 1
  BY <1>1, RowPlaces
<1>3. \A r : Place(P, r) = Cardinality({q \in P : Ranked(q, r)})
  BY DEF Place, Ahead
<1>4. \E r \in P : Cardinality({q \in P : Ranked(q, r)}) = n - 1
  BY <1>2, <1>3
<1>5. QED
  BY <1>3, <1>4 DEF NthRanked

\* More rows have more of them ahead.
LEMMA AheadGrows ==
  ASSUME NEW P, RowSet(P), NEW C, C \subseteq P, NEW r,
         \A c \in C : Ranked(c, r)
  PROVE  /\ Cardinality(C) \in Nat /\ Place(P, r) \in Nat
         /\ Cardinality(C) <= Place(P, r)
<1>1. IsFiniteSet(P) /\ C \subseteq Ahead(P, r) /\ Ahead(P, r) \subseteq P
  BY DEF RowSet, Ahead
<1>2. IsFiniteSet(Ahead(P, r)) /\ IsFiniteSet(C)
  BY <1>1, FS_Subset
<1>3. QED
  BY <1>1, <1>2, FS_Subset, FS_CardinalityType DEF Place

(***************************************************************************)
(* Sequences: the part of one that is kept, and the sets behind it.        *)
(***************************************************************************)
\* An injective sequence is as long as it has elements.
LEMMA DistinctLength ==
  ASSUME NEW T, NEW s \in Seq(T), IsInjective(s)
  PROVE  /\ ToSet(s) \subseteq T /\ IsFiniteSet(ToSet(s))
         /\ Len(s) \in Nat /\ Cardinality(ToSet(s)) = Len(s)
<1> DEFINE n == Len(s)
<1>1. n \in Nat /\ DOMAIN s = 1 .. n /\ \A k \in 1 .. n : s[k] \in T
  OBVIOUS
<1>2. ToSet(s) = {s[k] : k \in 1 .. n}
  BY <1>1 DEF ToSet
<1>3. \A j, k \in 1 .. n : s[j] = s[k] => j = k
  BY <1>1 DEF IsInjective
<1> DEFINE f == [k \in 1 .. n |-> s[k]]
<1>4. f \in [1 .. n -> ToSet(s)]
  BY <1>2
<1>5. f \in Bijection(1 .. n, ToSet(s))
  BY <1>2, <1>3, <1>4 DEF Bijection, Injection, Surjection, IsInjective
<1> HIDE DEF f, n
<1>6. IsFiniteSet(1 .. n) /\ Cardinality(1 .. n) = n
  <2>1. 1 \in Int /\ n \in Int /\ n - 1 + 1 = n
    BY <1>1
  <2>2. n # 0 => ~(1 > n)
    BY <1>1
  <2>3. QED
    BY <1>1, <2>1, <2>2, FS_Interval
<1>7. IsFiniteSet(ToSet(s)) /\ Cardinality(ToSet(s)) = n
  BY <1>5, <1>6, FS_Bijection DEF ExistsBijection
<1>8. QED
  BY <1>1, <1>2, <1>7 DEF n

\* Keep leaves the elements of S, in a sequence that is injective if the first
\* one was.
LEMMA KeepFacts ==
  ASSUME NEW T, NEW s \in Seq(T), NEW S
  PROVE  /\ Keep(s, S) \in Seq(T)
         /\ IsInjective(s) => IsInjective(Keep(s, S))
         /\ ToSet(Keep(s, S)) = ToSet(s) \cap S
<1> DEFINE N == Len(s)
           Step(f) == [k \in 0 .. N |->
                         IF k = 0 THEN <<>>
                         ELSE IF s[k] \in S THEN Append(f[k - 1], s[k]) ELSE f[k - 1]]
           F == CHOOSE f : f = Step(f)
           Upto(n) == {s[k] : k \in 1 .. n}
           Good(t, n) == /\ t \in Seq(T)
                         /\ IsInjective(s) => IsInjective(t)
                         /\ ToSet(t) = Upto(n) \cap S
<1>1. N \in Nat /\ DOMAIN s = 1 .. N /\ \A k \in 1 .. N : s[k] \in T
  OBVIOUS
<1>2. IsInjective(s) => \A j, k \in 1 .. N : s[j] = s[k] => j = k
  BY <1>1 DEF IsInjective
<1>3. Keep(s, S) = F[N]
  BY DEF Keep
<1>4. ASSUME NEW n \in 0 .. N - 1, NEW t, Good(t, n)
      PROVE  Good(IF s[n + 1] \in S THEN Append(t, s[n + 1]) ELSE t, n + 1)
  <2>0. t \in Seq(T) /\ (IsInjective(s) => IsInjective(t)) /\ ToSet(t) = Upto(n) \cap S
    BY <1>4
  <2>1. n + 1 \in 1 .. N /\ s[n + 1] \in T
    BY <1>1
  <2>2. Upto(n + 1) = Upto(n) \cup {s[n + 1]}
    <3>1. 1 .. n + 1 = (1 .. n) \cup {n + 1}
      OBVIOUS
    <3>2. QED
      BY <3>1
  <2>3. IsInjective(s) => s[n + 1] \notin Upto(n)
    <3>1. \A k \in 1 .. n : k \in 1 .. N /\ k # n + 1
      BY <1>1
    <3>2. QED
      BY <1>2, <2>1, <3>1
  <2> DEFINE x == s[n + 1]
             a == Append(t, x)
  <2>4. CASE x \notin S
    BY <2>0, <2>2, <2>4
  <2>5. CASE x \in S
    <3> DEFINE m == Len(t)
    <3>1. m \in Nat /\ DOMAIN t = 1 .. m /\ t \in Seq(T)
      BY <2>0
    <3>2. a \in Seq(T) /\ DOMAIN a = 1 .. m + 1 /\ a[m + 1] = x
          /\ \A k \in 1 .. m : a[k] = t[k]
      BY <2>1, <3>1
    <3>3. ToSet(t) = {t[k] : k \in 1 .. m}
      BY <3>1 DEF ToSet
    <3>4. ToSet(a) = {a[k] : k \in 1 .. m + 1}
      BY <3>2 DEF ToSet
    <3> HIDE DEF a, x, m
    <3>5. 1 .. m + 1 = (1 .. m) \cup {m + 1}
      BY <3>1
    <3>6. ToSet(a) = ToSet(t) \cup {x}
      BY <3>2, <3>3, <3>4, <3>5
    <3>7. ASSUME IsInjective(s) PROVE IsInjective(a)
      <4>1. x \notin ToSet(t)
        BY <2>0, <2>3, <3>7 DEF x
      <4>2. \A j, k \in 1 .. m : t[j] = t[k] => j = k
        BY <2>0, <3>1, <3>7 DEF IsInjective
      <4>3. \A k \in 1 .. m : a[k] # x
        BY <3>2, <3>3, <4>1
      <4>4. \A j, k \in 1 .. m + 1 : a[j] = a[k] => j = k
        BY <3>2, <3>5, <4>2, <4>3
      <4>5. \A j, k \in DOMAIN a : a[j] = a[k] => j = k
        BY <3>2, <4>4
      <4>6. QED
        BY <4>5 DEF IsInjective
    <3>13. ToSet(a) = Upto(n + 1) \cap S
      BY <2>0, <2>2, <2>5, <3>6 DEF x
    <3>14. QED
      BY <2>5, <3>2, <3>7, <3>13 DEF a, x
  <2>6. QED
    BY <2>4, <2>5
<1>5. Good(<<>>, 0)
  <2>1. <<>> \in Seq(T) /\ DOMAIN <<>> = {} /\ Upto(0) = {}
    OBVIOUS
  <2>2. QED
    BY <2>1 DEF IsInjective, ToSet
<1> HIDE DEF Good
<1>6. \E f : f = Step(f)
  <2> DEFINE Runs(n, g) == /\ g[0] = <<>>
                            /\ \A k \in 1 .. n : g[k] = IF s[k] \in S THEN Append(g[k - 1], s[k])
                                                        ELSE g[k - 1]
             B == {n \in 0 .. N : \E g : Runs(n, g)}
  <2>1. 0 \in B
    <3>1. Runs(0, [k \in 0 .. 0 |-> <<>>])
      OBVIOUS
    <3> HIDE DEF Runs
    <3>2. QED
      BY <1>1, <3>1
  <2>2. ASSUME NEW n \in 0 .. N - 1, n \in B PROVE n + 1 \in B
    <3>1. PICK g : Runs(n, g)
      BY <2>2
    <3> DEFINE h == [k \in 0 .. n + 1 |->
                       IF k = n + 1 THEN (IF s[k] \in S THEN Append(g[k - 1], s[k])
                                          ELSE g[k - 1])
                       ELSE g[k]]
    <3>2. Runs(n + 1, h)
      <4>1. h[0] = <<>>
        BY <1>1, <3>1
      <4>2. ASSUME NEW k \in 1 .. n + 1
            PROVE  h[k] = IF s[k] \in S THEN Append(h[k - 1], s[k]) ELSE h[k - 1]
        <5>1. k - 1 \in 0 .. n + 1 /\ k - 1 # n + 1 /\ k \in 0 .. n + 1
          BY <1>1
        <5>2. h[k - 1] = g[k - 1]
          BY <5>1
        <5>3. CASE k = n + 1
          BY <5>1, <5>2, <5>3
        <5>4. CASE k # n + 1
          <6>1. k \in 1 .. n /\ h[k] = g[k]
            BY <1>1, <5>1, <5>4
          <6>2. QED
            BY <3>1, <5>2, <6>1
        <5>5. QED
          BY <5>3, <5>4
      <4>3. QED
        BY <4>1, <4>2
    <3> HIDE DEF Runs, h
    <3>3. QED
      BY <1>1, <3>2
  <2>3. N \in B
    <3> HIDE DEF B, N
    <3>1. QED
      BY <1>1, <2>1, <2>2, Induct
  <2>4. PICK g : Runs(N, g)
    BY <2>3
  <2> DEFINE h == [k \in 0 .. N |-> g[k]]
  <2>5. h = Step(h)
    <3>1. \A k \in 0 .. N : k # 0 => k \in 1 .. N /\ k - 1 \in 0 .. N
      BY <1>1
    <3>2. \A k \in 0 .. N : h[k] = IF k = 0 THEN <<>>
                                   ELSE IF s[k] \in S THEN Append(h[k - 1], s[k]) ELSE h[k - 1]
      <4> TAKE k \in 0 .. N
      <4>1. h[k] = g[k] /\ (k # 0 => h[k - 1] = g[k - 1])
        BY <3>1
      <4>2. g[k] = IF k = 0 THEN <<>>
                   ELSE IF s[k] \in S THEN Append(g[k - 1], s[k]) ELSE g[k - 1]
        <5>1. g[0] = <<>>
          BY <2>4
        <5>2. ASSUME k # 0
              PROVE  g[k] = IF s[k] \in S THEN Append(g[k - 1], s[k]) ELSE g[k - 1]
          <6> HIDE DEF h, N
          <6>1. k \in 1 .. N
            BY <3>1, <5>2
          <6>2. QED
            BY <2>4, <6>1
        <5>3. QED
          BY ONLY <5>1, <5>2
      <4> HIDE DEF h
      <4>3. QED
        BY ONLY <4>1, <4>2
    <3>3. QED
      BY <3>2
  <2>6. QED
    BY <2>5
<1>7. F = Step(F)
  BY <1>6
<1> HIDE DEF F
<1>8. F[0] = <<>> /\ \A n \in 0 .. N - 1 :
        F[n + 1] = IF s[n + 1] \in S THEN Append(F[n], s[n + 1]) ELSE F[n]
  <2>1. 0 \in 0 .. N
    BY <1>1
  <2>2. F[0] = <<>>
    BY <1>7, <2>1
  <2>3. ASSUME NEW n \in 0 .. N - 1
        PROVE  F[n + 1] = IF s[n + 1] \in S THEN Append(F[n], s[n + 1]) ELSE F[n]
    <3>1. n + 1 \in 0 .. N /\ n + 1 # 0 /\ (n + 1) - 1 = n
      BY <1>1
    <3>2. F[n + 1] = IF s[n + 1] \in S THEN Append(F[(n + 1) - 1], s[n + 1]) ELSE F[(n + 1) - 1]
      BY <1>7, <3>1
    <3>3. QED
      BY <3>1, <3>2
  <2>4. QED
    BY <2>2, <2>3
<1>9. Good(F[N], N)
  <2> DEFINE B == {n \in 0 .. N : Good(F[n], n)}
  <2>1. 0 \in B
    BY <1>1, <1>5, <1>8
  <2>2. \A n \in 0 .. N - 1 : n \in B => n + 1 \in B
    BY <1>1, <1>4, <1>8
  <2>3. N \in B
    <3> HIDE DEF B, N
    <3>1. QED
      BY <1>1, <2>1, <2>2, Induct
  <2>4. QED
    BY <2>3
<1>10. Upto(N) = ToSet(s)
  BY <1>1 DEF ToSet
<1>11. QED
  BY <1>3, <1>9, <1>10 DEF Good

(***************************************************************************)
(* find_fuzzy_rank_threshold.                                              *)
(***************************************************************************)
\* Values below and at a threshold are counted.
LEMMA CountsInValues ==
  ASSUME NEW v \in Seq(Int), NEW t
  PROVE  /\ Len(v) \in Nat /\ DOMAIN v = 1 .. Len(v)
         /\ IsFiniteSet(1 .. Len(v)) /\ Cardinality(1 .. Len(v)) = Len(v)
         /\ LessIn(v, t) \in Nat /\ EqualIn(v, t) \in Nat
<1>1. Len(v) \in Nat /\ DOMAIN v = 1 .. Len(v)
  OBVIOUS
<1> DEFINE n == Len(v)
<1> HIDE DEF n
<1>2. IsFiniteSet(1 .. n) /\ Cardinality(1 .. n) = n
  <2>1. n \in Nat
    BY <1>1 DEF n
  <2>2. 1 \in Int /\ n \in Int /\ n - 1 + 1 = n /\ (n # 0 => ~(1 > n)) /\ (n = 0 => 1 > n)
    BY <2>1
  <2>3. QED
    BY <2>2, FS_Interval
<1>3. IsFiniteSet({k \in DOMAIN v : v[k] < t}) /\ IsFiniteSet({k \in DOMAIN v : v[k] = t})
  BY <1>1, <1>2, FS_Subset DEF n
<1>4. QED
  BY <1>1, <1>2, <1>3, FS_CardinalityType DEF LessIn, EqualIn, n

\* There is a value of every rank.
LEMMA NthElementFacts ==
  ASSUME NEW v \in Seq(Int), NEW q \in 1 .. Len(v)
  PROVE  /\ NthElement(v, q) \in Int
         /\ LessIn(v, NthElement(v, q)) < q
         /\ q <= LessIn(v, NthElement(v, q)) + EqualIn(v, NthElement(v, q))
<1> DEFINE n == Len(v)
           D == 1 .. n
           R == {p \in D \X D : v[p[1]] < v[p[2]] \/ (v[p[1]] = v[p[2]] /\ p[1] < p[2])}
<1>1. n \in Nat /\ DOMAIN v = D /\ IsFiniteSet(D) /\ Cardinality(D) = n
  BY CountsInValues
<1>2. \A k \in D : v[k] \in Int /\ k \in Int
  BY <1>1
<1>3. \A j, k \in D : <<j, k>> \in R <=> v[j] < v[k] \/ (v[j] = v[k] /\ j < k)
  OBVIOUS
<1> HIDE DEF R, D, n
<1>4. /\ \A x \in D : <<x, x>> \notin R
      /\ \A x, y, z \in D : <<x, y>> \in R /\ <<y, z>> \in R => <<x, z>> \in R
      /\ \A x, y \in D : x # y => <<x, y>> \in R \/ <<y, x>> \in R
  <2>1. \A x \in D : <<x, x>> \notin R
    BY <1>2, <1>3
  <2>2. ASSUME NEW x \in D, NEW y \in D, NEW z \in D, <<x, y>> \in R, <<y, z>> \in R
        PROVE  <<x, z>> \in R
    <3>1. v[x] \in Int /\ v[y] \in Int /\ v[z] \in Int /\ x \in Int /\ y \in Int /\ z \in Int
      BY <1>2
    <3>2. /\ v[x] < v[y] \/ (v[x] = v[y] /\ x < y)
          /\ v[y] < v[z] \/ (v[y] = v[z] /\ y < z)
      BY <1>3, <2>2
    <3>3. v[x] < v[z] \/ (v[x] = v[z] /\ x < z)
      BY <3>1, <3>2
    <3>4. QED
      BY <1>3, <3>3
  <2>3. ASSUME NEW x \in D, NEW y \in D, x # y
        PROVE  <<x, y>> \in R \/ <<y, x>> \in R
    <3>1. v[x] \in Int /\ v[y] \in Int /\ x \in Int /\ y \in Int
      BY <1>2
    <3>2. QED
      BY <1>3, <2>3, <3>1
  <2>4. QED
    BY <2>1, <2>2, <2>3
<1>5. q - 1 \in 0 .. Cardinality(D) - 1
  BY <1>1 DEF n
<1>5a. \A m \in 0 .. Cardinality(D) - 1 : \E x \in D : Rank(D, R, x) = m
  <2>1. IsFiniteSet(D)
    BY <1>1
  <2>2. QED
    BY <1>4, <2>1, Ranks
<1>6. PICK k \in D : Rank(D, R, k) = q - 1
  BY <1>5, <1>5a
<1> DEFINE t == v[k]
           L == {j \in D : v[j] < t}
           E == {j \in D : v[j] = t}
           Low == {j \in D : <<j, k>> \in R}
<1>7. IsFiniteSet(L) /\ IsFiniteSet(E) /\ IsFiniteSet(Low) /\ IsFiniteSet(L \cup E)
      /\ Cardinality(L) \in Nat /\ Cardinality(E) \in Nat /\ Cardinality(Low) \in Nat
      /\ Cardinality(L \cup E) \in Nat
  <2>1. L \subseteq D /\ E \subseteq D /\ Low \subseteq D /\ L \cup E \subseteq D
    OBVIOUS
  <2>2. QED
    BY <1>1, <2>1, FS_Subset, FS_CardinalityType
<1>8. Cardinality(Low) = q - 1
  BY <1>6 DEF Rank
<1>9. Cardinality(L) <= q - 1
  <2>1. L \subseteq Low
    BY <1>3
  <2>2. QED
    BY <1>7, <1>8, <2>1, FS_Subset
<1>10. q <= Cardinality(L) + Cardinality(E)
  <2>1. Low \cup {k} \subseteq L \cup E /\ k \notin Low
    BY <1>2, <1>3
  <2>2. IsFiniteSet(Low \cup {k}) /\ Cardinality(Low \cup {k}) = q
    <3>1. IsFiniteSet(Low \cup {k}) /\ Cardinality(Low \cup {k}) = Cardinality(Low) + 1
      BY <1>7, <2>1, FS_AddElement
    <3>2. q \in Int
      OBVIOUS
    <3>3. QED
      BY <1>8, <3>1, <3>2
  <2>3. q <= Cardinality(L \cup E)
    BY <1>7, <2>1, <2>2, FS_Subset
  <2>4. L \cap E = {}
    BY <1>2
  <2>5. Cardinality(L \cup E) = Cardinality(L) + Cardinality(E)
    <3>1. /\ IsFiniteSet(L) /\ IsFiniteSet(E)
          /\ Cardinality(L) \in Nat /\ Cardinality(E) \in Nat
      BY <1>7
    <3> HIDE DEF L, E
    <3>2. Cardinality(L \cup E) = Cardinality(L) + Cardinality(E) - Cardinality(L \cap E)
      BY <3>1, FS_Union
    <3>3. Cardinality(L \cap E) = 0
      BY <2>4, FS_EmptySet
    <3>4. QED
      BY <3>1, <3>2, <3>3
  <2>6. QED
    BY <2>3, <2>5
<1>11. LessIn(v, t) = Cardinality(L) /\ EqualIn(v, t) = Cardinality(E)
  BY <1>1 DEF LessIn, EqualIn
<1>12. t \in Range(v) /\ t \in Int
  BY <1>1, <1>2 DEF Range
<1>13. LessIn(v, t) < q
  BY <1>7, <1>9, <1>11
<1>14. q <= LessIn(v, t) + EqualIn(v, t)
  BY <1>10, <1>11
<1> HIDE DEF t, L, E
<1>15. /\ NthElement(v, q) \in Range(v) /\ LessIn(v, NthElement(v, q)) < q
       /\ q <= LessIn(v, NthElement(v, q)) + EqualIn(v, NthElement(v, q))
  BY <1>12, <1>13, <1>14 DEF NthElement
<1>16. Range(v) \subseteq Int
  BY <1>1, <1>2 DEF Range
<1>17. QED
  BY <1>15, <1>16

\* The median of three values is one of them.
LEMMA MedianType ==
  ASSUME NEW x \in Int, NEW y \in Int, NEW z \in Int
  PROVE  Median3(x, y, z) \in Int
<1>1. <<x, y, z>> \in Seq(Int) /\ 2 \in 1 .. Len(<<x, y, z>>)
  OBVIOUS
<1>2. NthElement(<<x, y, z>>, 2) \in Int
  BY <1>1, NthElementFacts
<1>3. QED
  BY <1>2 DEF Median3

\* A sample is a value, or the lower bound.
LEMMA SampleType ==
  ASSUME NEW v \in Seq(Int), NEW lower \in Int, NEW upper
  PROVE  SampleThreshold(v, lower, upper) \in Int
<1> DEFINE n == Len(v)
           strided == [k \in 1 .. n |-> v[(((k - 1) * 6700417) % n) + 1]]
           S == {x \in Range(v) : lower < x /\ x < upper}
           inside == Keep(strided, S)
<1>1. n \in Nat /\ \A k \in 1 .. n : v[k] \in Int
  OBVIOUS
<1>2. strided \in Seq(Int)
  <2>1. ASSUME NEW k \in 1 .. n PROVE v[(((k - 1) * 6700417) % n) + 1] \in Int
    <3> DEFINE m == (k - 1) * 6700417
    <3>1. m \in Int /\ n \in Nat \ {0}
      BY <1>1
    <3> HIDE DEF m, n
    <3>2. m % n \in 0 .. n - 1
      BY <3>1
    <3>3. (m % n) + 1 \in 1 .. n
      BY <3>1, <3>2
    <3>4. QED
      BY <1>1, <3>3 DEF m
  <2>2. strided \in [1 .. n -> Int]
    BY <2>1
  <2> HIDE DEF strided
  <2>3. QED
    BY <1>1, <2>2
<1> HIDE DEF strided, S
<1>3. inside \in Seq(Int)
  BY <1>2, KeepFacts
<1>4. SampleThreshold(v, lower, upper)
        = IF Len(inside) >= 3 THEN Median3(inside[1], inside[2], inside[3])
          ELSE IF inside = <<>> THEN lower ELSE inside[1]
  BY DEF SampleThreshold, strided, S
<1> HIDE DEF inside
<1>5. CASE Len(inside) >= 3
  <2>1. Len(inside) \in Nat /\ \A k \in 1 .. Len(inside) : inside[k] \in Int
    BY <1>3
  <2>2. 1 \in 1 .. Len(inside) /\ 2 \in 1 .. Len(inside) /\ 3 \in 1 .. Len(inside)
    BY <1>5, <2>1
  <2> DEFINE x == inside[1]
             y == inside[2]
             z == inside[3]
  <2>3. x \in Int /\ y \in Int /\ z \in Int
    BY <2>1, <2>2
  <2>4. SampleThreshold(v, lower, upper) = Median3(x, y, z)
    BY <1>4, <1>5
  <2> HIDE DEF x, y, z
  <2>5. Median3(x, y, z) \in Int
    BY <2>3, MedianType
  <2>6. QED
    BY <2>4, <2>5
<1>6. CASE ~(Len(inside) >= 3)
  <2>1. inside # <<>> => inside[1] \in Int
    BY <1>3
  <2>2. QED
    BY <1>4, <1>6, <2>1
<1>7. QED
  BY <1>5, <1>6

\* A threshold with the number of rows to keep: all below it and some at it.
Splits(v, qMin, qMax, at, output) ==
  /\ at \in Int
  /\ output \in qMin .. qMax
  /\ LessIn(v, at) <= output
  /\ output <= LessIn(v, at) + EqualIn(v, at)

\* What the search has found is such a threshold.
SearchSound(v, qMin, qMax, s) ==
  /\ s = [state |-> s.state, at |-> s.at, lower |-> s.lower, upper |-> s.upper,
          output |-> s.output]
  /\ s.state # "gave_up" => s.at \in Int /\ s.lower \in Int
  /\ s.state = "found" => Splits(v, qMin, qMax, s.at, s.output)

\* An iteration finds nothing else.
LEMMA SearchStepKeeps ==
  ASSUME NEW v \in Seq(Int), NEW qMin \in Nat, NEW qMax \in Nat, qMin <= qMax, NEW s,
         SearchSound(v, qMin, qMax, s)
  PROVE  SearchSound(v, qMin, qMax, SearchStep(v, qMin, qMax, s))
<1> DEFINE less == LessIn(v, s.at)
           few == less <= qMin
           equal == EqualIn(v, s.at)
           output == IF few THEN qMin ELSE less
           lower == IF few THEN s.at ELSE s.lower
           upper == IF few THEN s.upper ELSE s.at
           next == SampleThreshold(v, lower, upper)
<1>1. less \in Nat /\ equal \in Nat
  BY CountsInValues
<1>2. s = [state |-> s.state, at |-> s.at, lower |-> s.lower, upper |-> s.upper,
           output |-> s.output]
  BY DEF SearchSound
<1>3. \/ SearchStep(v, qMin, qMax, s) = s
      \/ /\ s.state = "search"
         /\ IF few THEN less + equal >= qMin ELSE less <= qMax
         /\ SearchStep(v, qMin, qMax, s)
              = [s EXCEPT !.state = "found", !.output = output]
      \/ SearchStep(v, qMin, qMax, s) = [s EXCEPT !.state = "gave_up"]
      \/ /\ s.state = "search"
         /\ SearchStep(v, qMin, qMax, s)
              = [s EXCEPT !.lower = lower, !.upper = upper, !.at = next]
  BY DEF SearchStep
<1>2a. s.state = "search" => lower \in Int /\ next \in Int
  <2>1. s.state = "search" => lower \in Int
    BY DEF SearchSound
  <2> HIDE DEF lower, upper
  <2>2. QED
    BY <2>1, SampleType
<1>2b. s.state = "search" => s.at \in Int /\ s.lower \in Int
  BY DEF SearchSound
<1> HIDE DEF lower, upper, next
<1>4. CASE SearchStep(v, qMin, qMax, s) = s
  BY <1>4
<1>5. CASE /\ s.state = "search"
           /\ IF few THEN less + equal >= qMin ELSE less <= qMax
           /\ SearchStep(v, qMin, qMax, s)
                = [s EXCEPT !.state = "found", !.output = output]
  <2>1. Splits(v, qMin, qMax, s.at, output)
    BY <1>1, <1>2b, <1>5 DEF Splits
  <2> HIDE DEF output
  <2>2. SearchStep(v, qMin, qMax, s)
          = [state |-> "found", at |-> s.at, lower |-> s.lower, upper |-> s.upper,
             output |-> output]
    BY <1>2, <1>5
  <2>3. QED
    BY <1>2b, <1>5, <2>1, <2>2 DEF SearchSound
<1>6. CASE SearchStep(v, qMin, qMax, s) = [s EXCEPT !.state = "gave_up"]
  <2>1. SearchStep(v, qMin, qMax, s)
          = [state |-> "gave_up", at |-> s.at, lower |-> s.lower, upper |-> s.upper,
             output |-> s.output]
    BY <1>2, <1>6
  <2>2. QED
    BY <2>1 DEF SearchSound
<1>7. CASE /\ s.state = "search"
           /\ SearchStep(v, qMin, qMax, s)
                = [s EXCEPT !.lower = lower, !.upper = upper, !.at = next]
  <2>1. SearchStep(v, qMin, qMax, s)
          = [state |-> "search", at |-> next, lower |-> lower, upper |-> upper,
             output |-> s.output]
    BY <1>2, <1>7
  <2>2. QED
    BY <1>2a, <1>7, <2>1 DEF SearchSound
<1>8. QED
  BY <1>3, <1>4, <1>5, <1>6, <1>7

\* So neither does the loop.
LEMMA SearchFinds ==
  ASSUME NEW v \in Seq(Int), NEW qMin \in Nat, NEW qMax \in Nat, qMin <= qMax
  PROVE  SearchSound(v, qMin, qMax, FuzzySearch(v, qMin, qMax))
<1> DEFINE N == Iterations
           first == [state |-> IF Len(v) < 3 THEN "gave_up" ELSE "search",
                     at |-> Median3(v[1], v[(Len(v) \div 2) + 1], v[Len(v)]),
                     lower |-> -Infinity, upper |-> Infinity, output |-> 0]
           Step(f) == [i \in 0 .. N |->
                         IF i = 0 THEN first ELSE SearchStep(v, qMin, qMax, f[i - 1])]
           F == CHOOSE f : f = Step(f)
<1>1. N \in Nat
  BY ScanParameters
<1>2. FuzzySearch(v, qMin, qMax) = F[N]
  BY DEF FuzzySearch
<1>3. SearchSound(v, qMin, qMax, first)
  <2>1. CASE Len(v) < 3
    BY <2>1 DEF SearchSound
  <2>2. CASE ~(Len(v) < 3)
    <3> DEFINE n == Len(v)
               m == n \div 2
    <3>1. n \in Nat /\ n >= 3 /\ \A k \in 1 .. n : v[k] \in Int
      BY <2>2
    <3>2. m \in Nat /\ m + 1 <= n
      BY <3>1
    <3> HIDE DEF m, n
    <3>3. 1 \in 1 .. n /\ m + 1 \in 1 .. n /\ n \in 1 .. n
      BY <3>1, <3>2
    <3>4. Median3(v[1], v[m + 1], v[n]) \in Int
      BY <3>1, <3>3, MedianType
    <3>5. first.at \in Int /\ first.lower \in Int /\ first.state = "search"
      BY <2>2, <3>4, ScanParameters DEF m, n
    <3>6. QED
      BY <3>5 DEF SearchSound
  <2>3. QED
    BY <2>1, <2>2
<1> HIDE DEF first, N
<1>4. \E f : f = Step(f)
  <2> DEFINE Runs(n, g) == /\ g[0] = first
                           /\ \A k \in 1 .. n : g[k] = SearchStep(v, qMin, qMax, g[k - 1])
             B == {n \in 0 .. N : \E g : Runs(n, g)}
  <2>1. 0 \in B
    <3>1. Runs(0, [k \in 0 .. 0 |-> first])
      OBVIOUS
    <3> HIDE DEF Runs
    <3>2. QED
      BY <1>1, <3>1
  <2>2. ASSUME NEW n \in 0 .. N - 1, n \in B PROVE n + 1 \in B
    <3>1. PICK g : Runs(n, g)
      BY <2>2
    <3> DEFINE h == [k \in 0 .. n + 1 |->
                       IF k = n + 1 THEN SearchStep(v, qMin, qMax, g[n]) ELSE g[k]]
    <3>2. n + 1 \in 0 .. N /\ n \in Nat
      BY <1>1
    <3>3. h[0] = first
      BY <3>1, <3>2
    <3>4. \A k \in 1 .. n + 1 : k - 1 \in 0 .. n + 1 /\ k - 1 # n + 1 /\ k \in 0 .. n + 1
                                /\ (k # n + 1 => k \in 1 .. n)
      BY <3>2
    <3>5. \A k \in 1 .. n + 1 : h[k] = SearchStep(v, qMin, qMax, h[k - 1])
      BY <3>1, <3>2, <3>4
    <3>6. Runs(n + 1, h)
      BY <3>3, <3>5
    <3> HIDE DEF Runs, h
    <3>7. QED
      BY <3>2, <3>6
  <2>3. N \in B
    <3> HIDE DEF B
    <3>1. \A n \in 0 .. N : n \in B
      BY <1>1, <2>1, <2>2, Induct
    <3>2. QED
      BY <1>1, <3>1
  <2>4. PICK g : Runs(N, g)
    BY <2>3
  <2> DEFINE h == [k \in 0 .. N |-> g[k]]
  <2>5. \A k \in 0 .. N : k # 0 => k \in 1 .. N /\ k - 1 \in 0 .. N
    BY <1>1
  <2>6. \A k \in 0 .. N : h[k] = IF k = 0 THEN first ELSE SearchStep(v, qMin, qMax, h[k - 1])
    BY <2>4, <2>5
  <2>7. h = Step(h)
    BY <2>6
  <2>8. QED
    BY <2>7
<1>5. F = Step(F)
  BY <1>4
<1> HIDE DEF F
<1>6. F[0] = first /\ \A n \in 0 .. N - 1 : F[n + 1] = SearchStep(v, qMin, qMax, F[n])
  <2>1. \A n \in 0 .. N - 1 : n + 1 \in 0 .. N /\ n + 1 # 0 /\ (n + 1) - 1 = n
    BY <1>1
  <2>2. 0 \in 0 .. N
    BY <1>1
  <2>3. QED
    BY <1>5, <2>1, <2>2
<1>7. SearchSound(v, qMin, qMax, F[N])
  <2> DEFINE B == {n \in 0 .. N : SearchSound(v, qMin, qMax, F[n])}
  <2>1. 0 \in B
    BY <1>1, <1>3, <1>6
  <2>2. \A n \in 0 .. N - 1 : n \in B => n + 1 \in B
    BY <1>1, <1>6, SearchStepKeeps
  <2>3. N \in B
    <3> HIDE DEF B
    <3>1. \A n \in 0 .. N : n \in B
      BY <1>1, <2>1, <2>2, Induct
    <3>2. QED
      BY <1>1, <3>1
  <2>4. QED
    BY <2>3
<1>8. QED
  BY <1>2, <1>7

\* "Finds an exact rank prefix whose size is in [q_min, q_max]."
LEMMA ThresholdSplits ==
  ASSUME NEW v \in Seq(Int), NEW qMin \in 1 .. Len(v), NEW qMax \in Nat, qMin <= qMax
  PROVE  Splits(v, qMin, qMax, FuzzyThreshold(v, qMin, qMax).at,
                FuzzyThreshold(v, qMin, qMax).output)
<1> DEFINE s == FuzzySearch(v, qMin, qMax)
           t == NthElement(v, qMin)
<1>1. qMin \in Nat /\ Len(v) \in Nat
  BY CountsInValues
<1>2. SearchSound(v, qMin, qMax, s)
  BY <1>1, SearchFinds
<1>3. FuzzyThreshold(v, qMin, qMax) = IF s.state = "found"
                                      THEN [at |-> s.at, output |-> s.output]
                                      ELSE [at |-> t, output |-> qMin]
  BY DEF FuzzyThreshold
<1>4. t \in Int /\ LessIn(v, t) < qMin /\ qMin <= LessIn(v, t) + EqualIn(v, t)
      /\ LessIn(v, t) \in Nat
  BY NthElementFacts, CountsInValues
<1> HIDE DEF s, t
<1>5. CASE s.state = "found"
  BY <1>2, <1>3, <1>5 DEF SearchSound
<1>6. CASE s.state # "found"
  <2>1. Splits(v, qMin, qMax, t, qMin)
    BY <1>1, <1>4 DEF Splits
  <2>2. QED
    BY <1>3, <1>6, <2>1
<1>7. QED
  BY <1>5, <1>6

\* A one-to-one image has as many elements.
LEMMA ImageCount ==
  ASSUME NEW D, IsFiniteSet(D), NEW f, \A x, y \in D : f[x] = f[y] => x = y
  PROVE  /\ IsFiniteSet({f[x] : x \in D})
         /\ Cardinality({f[x] : x \in D}) = Cardinality(D)
<1> DEFINE I == {f[x] : x \in D}
           g == [x \in D |-> f[x]]
<1>1. g \in [D -> I] /\ \A x, y \in D : g[x] = g[y] => x = y
  OBVIOUS
<1>2. \A i \in I : \E x \in D : g[x] = i
  OBVIOUS
<1> HIDE DEF g, I
<1>3. g \in Bijection(D, I)
  BY <1>1, <1>2 DEF Bijection, Injection, Surjection, IsInjective
<1>4. IsFiniteSet(I) /\ Cardinality(I) = Cardinality(D)
  BY <1>3, FS_Bijection DEF ExistsBijection
<1>5. QED
  BY <1>4 DEF I

\* The estimates of a reservoir, and how many rows lie below and at a threshold.
LEMMA ValueCounts ==
  ASSUME NEW U, RowSet(U), NEW res \in Seq(U), IsInjective(res), NEW t
  PROVE  /\ Values(res) \in Seq(Int) /\ Len(Values(res)) = Len(res)
         /\ LessIn(Values(res), t) = Cardinality({r \in ToSet(res) : r.est < t})
         /\ EqualIn(Values(res), t) = Cardinality({r \in ToSet(res) : r.est = t})
<1> DEFINE n == Len(res)
           v == Values(res)
<1>1. n \in Nat /\ DOMAIN res = 1 .. n /\ \A k \in 1 .. n : res[k] \in U
  OBVIOUS
<1>2. v = [k \in 1 .. n |-> res[k].est]
  BY <1>1 DEF Values
<1>3. \A k \in 1 .. n : res[k].est \in Int
  BY <1>1 DEF RowSet
<1>4. ToSet(res) = {res[k] : k \in 1 .. n}
  BY <1>1 DEF ToSet
<1>5. \A j, k \in 1 .. n : res[j] = res[k] => j = k
  BY <1>1 DEF IsInjective
<1> HIDE DEF v, n
<1>6. v \in Seq(Int) /\ DOMAIN v = 1 .. n /\ Len(v) = n
  BY <1>1, <1>2, <1>3
<1>7. IsFiniteSet(1 .. n)
  <2>1. IsFiniteSet(1 .. Len(v))
    BY <1>6, CountsInValues
  <2>2. QED
    BY <1>6, <2>1
<1>8. ASSUME NEW D, D \subseteq 1 .. n
      PROVE  Cardinality({res[k] : k \in D}) = Cardinality(D)
  <2>1. IsFiniteSet(D) /\ \A j, k \in D : res[j] = res[k] => j = k
    BY <1>5, <1>7, <1>8, FS_Subset
  <2>2. QED
    BY <2>1, ImageCount
<1>9. {r \in ToSet(res) : r.est < t} = {res[k] : k \in {j \in 1 .. n : v[j] < t}}
  BY <1>2, <1>4
<1>10. {r \in ToSet(res) : r.est = t} = {res[k] : k \in {j \in 1 .. n : v[j] = t}}
  BY <1>2, <1>4
<1>11. LessIn(v, t) = Cardinality({j \in 1 .. n : v[j] < t})
       /\ EqualIn(v, t) = Cardinality({j \in 1 .. n : v[j] = t})
  BY <1>6 DEF LessIn, EqualIn
<1>12. {j \in 1 .. n : v[j] < t} \subseteq 1 .. n /\ {j \in 1 .. n : v[j] = t} \subseteq 1 .. n
  OBVIOUS
<1>13. QED
  BY <1>6, <1>8, <1>9, <1>10, <1>11, <1>12 DEF v, n

\* Up to its number n, a set of IDs has n of them.
LEMMA IdPrefix ==
  ASSUME NEW ids, ids \subseteq Nat, IsFiniteSet(ids), NEW n \in 1 .. Cardinality(ids)
  PROVE  /\ NthId(ids, n) \in ids
         /\ IsFiniteSet({j \in ids : j <= NthId(ids, n)})
         /\ Cardinality({j \in ids : j <= NthId(ids, n)}) = n
<1> DEFINE R == {p \in ids \X ids : p[1] < p[2]}
<1>1. \A x, y \in ids : <<x, y>> \in R <=> x < y
  OBVIOUS
<1> HIDE DEF R
<1>2. \A x \in ids : x \in Int
  OBVIOUS
<1>3. /\ \A x \in ids : <<x, x>> \notin R
      /\ \A x, y, z \in ids : <<x, y>> \in R /\ <<y, z>> \in R => <<x, z>> \in R
      /\ \A x, y \in ids : x # y => <<x, y>> \in R \/ <<y, x>> \in R
  BY <1>1, <1>2
<1>4. Cardinality(ids) \in Nat
  BY FS_CardinalityType
<1>5. n - 1 \in 0 .. Cardinality(ids) - 1 /\ n \in Nat
  BY <1>4
<1>6. \A m \in 0 .. Cardinality(ids) - 1 : \E x \in ids : Rank(ids, R, x) = m
  BY <1>3, Ranks
<1>7. PICK x \in ids : Rank(ids, R, x) = n - 1
  BY <1>5, <1>6
<1>8. \A i \in ids : Rank(ids, R, i) = Cardinality({j \in ids : j < i})
  <2> TAKE i \in ids
  <2>1. {y \in ids : <<y, i>> \in R} = {j \in ids : j < i}
    BY <1>1
  <2>2. QED
    BY <2>1 DEF Rank
<1>9. \E i \in ids : Cardinality({j \in ids : j < i}) = n - 1
  BY <1>7, <1>8
<1> DEFINE i == NthId(ids, n)
<1>10. i \in ids /\ Cardinality({j \in ids : j < i}) = n - 1
  BY <1>9 DEF NthId
<1> HIDE DEF i
<1>11. {j \in ids : j <= i} = {j \in ids : j < i} \cup {i} /\ i \notin {j \in ids : j < i}
  <2>1. i \in Int /\ i \in ids
    BY <1>2, <1>10
  <2>2. \A j \in ids : (j <= i <=> j < i \/ j = i) /\ ~(i < i)
    BY <1>2, <2>1
  <2>3. QED
    BY <2>1, <2>2
<1>12. IsFiniteSet({j \in ids : j < i})
  BY FS_Subset
<1>13. /\ IsFiniteSet({j \in ids : j < i} \cup {i})
       /\ Cardinality({j \in ids : j < i} \cup {i}) = n - 1 + 1
  BY <1>10, <1>11, <1>12, FS_AddElement
<1>14. n - 1 + 1 = n
  BY <1>5
<1>15. QED
  BY <1>10, <1>11, <1>13, <1>14 DEF i

(***************************************************************************)
(* The reservoir.  U is every row of the scan.                             *)
(***************************************************************************)
Threshold(adm) == adm.has \in BOOLEAN /\ adm.est \in Int /\ adm.id \in Int

\* A partition keeps between qMin and qMax rows; every other row of the
\* reservoir, and every row its threshold will not admit, is ranked after them.
CutBack(U, res, qMin, qMax, s) ==
  /\ s = Kept(s.res, s.adm, TRUE)
  /\ s.res \in Seq(U) /\ IsInjective(s.res) /\ ToSet(s.res) \subseteq ToSet(res)
  /\ Len(s.res) \in qMin .. qMax
  /\ Threshold(s.adm) /\ s.adm.has
  /\ \A r \in U \ ToSet(s.res) :
       r \in ToSet(res) \/ ~Admit(s.adm, r) => \A c \in ToSet(s.res) : Ranked(c, r)

\* No check of the partition fires.
LEMMA ShrinkSound ==
  ASSUME NEW U, RowSet(U), NEW res \in Seq(U), IsInjective(res),
         NEW qMin \in 1 .. Len(res), NEW qMax \in Nat, qMin <= qMax
  PROVE  CutBack(U, res, qMin, qMax, FuzzyShrink(res, qMin, qMax))
<1> DEFINE s == FuzzyShrink(res, qMin, qMax)
           v == Values(res)
           t == FuzzyThreshold(v, qMin, qMax)
           at == t.at
           S == ToSet(res)
           L == {r \in S : r.est < at}
           E == {r \in S : r.est = at}
           ids == {r.id : r \in E}
           keep == t.output - LessIn(v, at)
           id == IF keep = 0 THEN 0 ELSE NthId(ids, keep)
           K == {r \in E : keep > 0 /\ r.id <= id}
           compacted == Compact(res, at, id, keep > 0)
<1>1. /\ S \subseteq U /\ IsFiniteSet(S) /\ Len(res) \in Nat /\ Cardinality(S) = Len(res)
      /\ RowSet(S)
  BY DistinctLength, PartOfRows
<1>2. /\ v \in Seq(Int) /\ Len(v) = Len(res)
      /\ LessIn(v, at) = Cardinality(L) /\ EqualIn(v, at) = Cardinality(E)
  BY ValueCounts
<1>3. IsFiniteSet(L) /\ IsFiniteSet(E) /\ IsFiniteSet(K)
      /\ Cardinality(L) \in Nat /\ Cardinality(E) \in Nat /\ Cardinality(K) \in Nat
  <2>1. L \subseteq S /\ E \subseteq S /\ K \subseteq S
    OBVIOUS
  <2>2. QED
    BY <1>1, <2>1, FS_Subset, FS_CardinalityType
<1>4. Splits(v, qMin, qMax, at, t.output)
  <2> HIDE DEF v
  <2>1. qMin \in 1 .. Len(v)
    BY <1>2
  <2>2. QED
    BY <1>2, <2>1, ThresholdSplits
<1>5. at \in Int /\ t.output \in Nat /\ t.output \in qMin .. qMax
      /\ keep \in Nat /\ keep <= Cardinality(E) /\ t.output = Cardinality(L) + keep
  BY <1>2, <1>3, <1>4, SMTT(30) DEF Splits
<1>6. ids \subseteq Nat /\ IsFiniteSet(ids) /\ Cardinality(ids) = Cardinality(E)
      /\ \A r, q \in S : r.id = q.id => r = q
  <2> DEFINE f == [r \in E |-> r.id]
  <2>1. \A r, q \in S : r.id = q.id => r = q
    BY <1>1 DEF RowSet
  <2>2. \A r, q \in E : f[r] = f[q] => r = q
    BY <2>1
  <2>3. ids = {f[r] : r \in E}
    OBVIOUS
  <2>4. ids \subseteq Nat
    BY <1>1 DEF RowSet
  <2> HIDE DEF f, E
  <2>5. IsFiniteSet({f[r] : r \in E}) /\ Cardinality({f[r] : r \in E}) = Cardinality(E)
    BY <1>3, <2>2, ImageCount
  <2>6. QED
    BY <2>1, <2>3, <2>4, <2>5
<1>7. \A r \in U : r.est \in Int /\ r.id \in Int
  BY DEF RowSet
<1>8. s = Kept(compacted, [has |-> TRUE, est |-> at, id |-> id], Len(compacted) = t.output)
  <2>1. ~(keep < 0 \/ keep > Cardinality(ids))
    BY <1>3, <1>5, <1>6
  <2>2. s = IF keep < 0 \/ keep > Cardinality(ids)
            THEN Kept(res, NoThreshold, FALSE)
            ELSE Kept(compacted, [has |-> TRUE, est |-> at, id |-> id],
                      Len(compacted) = t.output)
    BY DEF FuzzyShrink, CutAt
  <2>3. QED
    BY <2>1, <2>2
<1>9. id \in Int /\ Cardinality(K) = keep /\ (keep > 0 => \E r \in E : r.id = id)
  <2>1. CASE keep = 0
    <3>1. K = {} /\ id = 0
      BY <2>1
    <3>2. keep = 0 /\ ~(keep > 0)
      BY <2>1
    <3> HIDE DEF K, id, keep
    <3>3. Cardinality(K) = 0
      BY <3>1, FS_EmptySet
    <3>4. QED
      BY <3>1, <3>2, <3>3
  <2>2. CASE keep # 0
    <3>1. keep \in 1 .. Cardinality(ids)
      BY <1>3, <1>5, <1>6, <2>2
    <3> DEFINE J == {j \in ids : j <= id}
    <3>2. id = NthId(ids, keep)
      BY <2>2
    <3> HIDE DEF id, keep, ids
    <3>3. id \in ids /\ IsFiniteSet(J) /\ Cardinality(J) = keep
      <4>1. ids \subseteq Nat /\ IsFiniteSet(ids)
        BY <1>6
      <4>2. /\ NthId(ids, keep) \in ids
            /\ IsFiniteSet({j \in ids : j <= NthId(ids, keep)})
            /\ Cardinality({j \in ids : j <= NthId(ids, keep)}) = keep
        BY <3>1, <4>1, IdPrefix
      <4>3. QED
        BY <3>2, <4>2
    <3>4. keep > 0
      BY <3>1
    <3> DEFINE f == [r \in K |-> r.id]
    <3>5. J = {f[r] : r \in K}
      BY <3>4 DEF ids
    <3>6. \A r, q \in K : f[r] = f[q] => r = q
      BY <1>6
    <3> HIDE DEF K, f, J
    <3>7. Cardinality({f[r] : r \in K}) = Cardinality(K)
      BY <1>3, <3>6, ImageCount
    <3>8. QED
      BY <1>6, <3>3, <3>5, <3>7 DEF ids
  <2>3. QED
    BY <2>1, <2>2
<1> DEFINE C == {r \in S : r.est < at \/ (keep > 0 /\ r.est = at /\ r.id <= id)}
<1>10. compacted = Keep(res, C)
  BY DEF Compact
<1>11. C = L \cup K /\ L \cap K = {} /\ C \subseteq S
  BY <1>1, <1>5, <1>7
<1> HIDE DEF s, v, t, at, L, E, ids, keep, id, K, compacted
<1>12. Cardinality(C) = t.output
  <2> HIDE DEF C
  <2>0. Cardinality(C) = Cardinality(L \cup K)
    BY <1>11
  <2>1. Cardinality(L \cup K) = Cardinality(L) + Cardinality(K) - Cardinality(L \cap K)
    BY <1>3, FS_Union
  <2>2. Cardinality(L \cap K) = 0
    BY <1>11, FS_EmptySet
  <2>3. QED
    BY <1>3, <1>5, <1>9, <2>0, <2>1, <2>2
<1>13. compacted \in Seq(U) /\ IsInjective(compacted) /\ ToSet(compacted) = C
  <2>1. /\ Keep(res, C) \in Seq(U) /\ IsInjective(Keep(res, C))
        /\ ToSet(Keep(res, C)) = S \cap C
    BY KeepFacts
  <2>2. QED
    BY <1>10, <1>11, <2>1
<1>14. Len(compacted) = t.output
  <2>1. Cardinality(ToSet(compacted)) = Len(compacted)
    BY <1>13, DistinctLength
  <2>2. QED
    BY <1>12, <1>13, <2>1
<1>15. /\ s.res = compacted /\ s.adm = [has |-> TRUE, est |-> at, id |-> id]
       /\ s = Kept(s.res, s.adm, TRUE)
  <2> DEFINE a == [has |-> TRUE, est |-> at, id |-> id]
  <2>1. (Len(compacted) = t.output) = TRUE
    BY <1>14
  <2>2. s = Kept(compacted, a, TRUE)
    BY <1>8, <2>1
  <2>3. QED
    BY <2>2 DEF Kept
<1>16. ASSUME NEW r \in U \ C, r \in S \/ ~Admit(s.adm, r), NEW c \in C
       PROVE  Ranked(c, r)
  <2>1. c \in S /\ c \in U /\ r \in U /\ c # r /\ at \in Int /\ id \in Int /\ keep \in Nat
    BY <1>1, <1>5, <1>9, <1>11, <1>16
  <2>2. c.est \in Int /\ c.id \in Int /\ r.est \in Int /\ r.id \in Int /\ c.id # r.id
    BY <1>7, <2>1 DEF RowSet
  <2>3. c.est < at \/ (keep > 0 /\ c.est = at /\ c.id <= id)
    OBVIOUS
  <2>4. CASE r \in S
    <3>1. ~(r.est < at \/ (keep > 0 /\ r.est = at /\ r.id <= id))
      BY <2>4
    <3>2. QED
      BY <2>1, <2>2, <2>3, <3>1 DEF Ranked
  <2>5. CASE r \notin S
    <3>1. ~(r.est < at \/ (r.est = at /\ r.id < id))
      BY <1>15, <1>16, <2>5 DEF Admit
    <3>2. keep > 0 => r.id # id
      <4>1. ASSUME keep > 0 PROVE r.id # id
        <5>1. PICK q \in E : q.id = id
          BY <1>9, <4>1
        <5>2. q \in S /\ q.est = at
          BY DEF E
        <5>3. QED
          BY <1>1, <2>1, <2>5, <5>1, <5>2 DEF RowSet
      <4>2. QED
        BY <4>1
    <3>3. QED
      BY <2>1, <2>2, <2>3, <3>1, <3>2 DEF Ranked
  <2>6. QED
    BY <2>4, <2>5
<1>17. Threshold(s.adm) /\ s.adm.has
  BY <1>5, <1>9, <1>15 DEF Threshold
<1>18. QED
  BY <1>5, <1>11, <1>13, <1>14, <1>15, <1>16, <1>17 DEF CutBack, s

\* The rows P of U have been added.  The reservoir holds some of them, each
\* once; every other one, and every later one the threshold will not admit, has
\* R rows ahead of it in P.
Sound(U, P, R, s) ==
  /\ s = Kept(s.res, s.adm, TRUE)
  /\ s.res \in Seq(P) /\ IsInjective(s.res)
  /\ Threshold(s.adm)
  /\ R = 0 => ~s.adm.has /\ ToSet(s.res) = P
  /\ \A r \in P \ ToSet(s.res) : R <= Place(P, r)
  /\ \A r \in U \ P : ~Admit(s.adm, r) => R <= Place(P, r)

\* Between two rows it is also within its bound.
Selects(U, P, R, s) == Sound(U, P, R, s) /\ (R > 0 => Len(s.res) < 2 * R)

\* Sequences of part of a set, and one after another.
LEMMA SeqWidens ==
  ASSUME NEW T, NEW V, T \subseteq V, NEW s \in Seq(T)
  PROVE  s \in Seq(V)
OBVIOUS

LEMMA DistinctJoin ==
  ASSUME NEW T, NEW s \in Seq(T), IsInjective(s),
         NEW V, NEW t \in Seq(V), IsInjective(t), T \cap V = {}
  PROVE  /\ s \o t \in Seq(T \cup V) /\ IsInjective(s \o t)
         /\ ToSet(s \o t) = ToSet(s) \cup ToSet(t)
<1> DEFINE m == Len(s)
           n == Len(t)
           u == s \o t
<1>1. m \in Nat /\ n \in Nat /\ DOMAIN s = 1 .. m /\ DOMAIN t = 1 .. n
      /\ \A k \in 1 .. m : s[k] \in T
  OBVIOUS
<1>2. \A k \in 1 .. n : t[k] \in V
  OBVIOUS
<1>3. u \in Seq(T \cup V)
  <2>1. s \in Seq(T \cup V) /\ t \in Seq(T \cup V)
    OBVIOUS
  <2>2. QED
    BY <2>1
<1>4. Len(u) = m + n /\ DOMAIN u = 1 .. m + n
      /\ \A k \in 1 .. m + n : u[k] = IF k <= m THEN s[k] ELSE t[k - m]
  OBVIOUS
<1> HIDE DEF u, m, n
<1>5. \A k \in 1 .. m + n : (k <= m => k \in 1 .. m) /\ (~(k <= m) => k - m \in 1 .. n)
  BY <1>1
<1>6. \A k \in 1 .. n : k + m \in 1 .. m + n /\ ~(k + m <= m) /\ (k + m) - m = k
  BY <1>1
<1>7. \A k \in 1 .. m : k \in 1 .. m + n /\ k <= m
  BY <1>1
<1>8. ToSet(u) = ToSet(s) \cup ToSet(t)
  <2>1. /\ ToSet(u) = {u[k] : k \in 1 .. m + n}
        /\ ToSet(s) = {s[k] : k \in 1 .. m} /\ ToSet(t) = {t[k] : k \in 1 .. n}
    BY <1>1, <1>4 DEF ToSet
  <2>2. ASSUME NEW k \in 1 .. m + n PROVE u[k] \in ToSet(s) \cup ToSet(t)
    BY <1>4, <1>5, <2>1
  <2>3. ASSUME NEW k \in 1 .. m PROVE s[k] \in ToSet(u)
    BY <1>4, <1>7, <2>1
  <2>4. ASSUME NEW k \in 1 .. n PROVE t[k] \in ToSet(u)
    <3>1. u[k + m] = t[(k + m) - m] /\ k + m \in 1 .. m + n
      BY <1>4, <1>6
    <3>2. u[k + m] = t[k]
      BY <1>6, <3>1
    <3>3. QED
      BY <2>1, <3>1, <3>2
  <2>5. QED
    BY <2>1, <2>2, <2>3, <2>4
<1>9. ASSUME NEW j \in 1 .. m + n, NEW k \in 1 .. m + n, u[j] = u[k]
      PROVE  j = k
  <2>1. \A a, b \in 1 .. m : s[a] = s[b] => a = b
    BY <1>1 DEF IsInjective
  <2>2. \A a, b \in 1 .. n : t[a] = t[b] => a = b
    BY <1>1 DEF IsInjective
  <2>3. CASE j <= m /\ k <= m
    BY <1>4, <1>5, <1>9, <2>1, <2>3
  <2>4. CASE ~(j <= m) /\ ~(k <= m)
    <3>1. j - m \in 1 .. n /\ k - m \in 1 .. n /\ t[j - m] = t[k - m]
      BY <1>4, <1>5, <1>9, <2>4
    <3>2. j - m = k - m
      BY <2>2, <3>1
    <3>3. QED
      BY <1>1, <3>2
  <2>5. CASE j <= m /\ ~(k <= m)
    BY <1>1, <1>2, <1>4, <1>5, <1>9, <2>5
  <2>6. CASE ~(j <= m) /\ k <= m
    BY <1>1, <1>2, <1>4, <1>5, <1>9, <2>6
  <2>7. QED
    BY <2>3, <2>4, <2>5, <2>6
<1>10. QED
  BY <1>3, <1>4, <1>8, <1>9 DEF u, IsInjective

\* More rows added, more of them ahead of a row.
LEMMA PlaceGrows ==
  ASSUME NEW U, RowSet(U), NEW Q, Q \subseteq U, NEW P, P \subseteq Q, NEW r
  PROVE  Place(P, r) \in Nat /\ Place(Q, r) \in Nat /\ Place(P, r) <= Place(Q, r)
<1>1. Ahead(P, r) \subseteq Ahead(Q, r) /\ Ahead(Q, r) \subseteq U
  BY DEF Ahead
<1>2. IsFiniteSet(Ahead(Q, r)) /\ IsFiniteSet(Ahead(P, r))
  BY <1>1, FS_Subset DEF RowSet
<1>3. QED
  BY <1>1, <1>2, FS_Subset, FS_CardinalityType DEF Place

\* Adding the rows B, of which the reservoir takes those the threshold admits.
LEMMA JoinSound ==
  ASSUME NEW U, RowSet(U), NEW P, P \subseteq U, NEW R \in Nat, NEW s, Sound(U, P, R, s),
         NEW B, B \subseteq U \ P, NEW in \in Seq(B), IsInjective(in),
         ToSet(in) = {r \in B : Admit(s.adm, r)}
  PROVE  Sound(U, P \cup B, R, Kept(s.res \o in, s.adm, s.ok))
<1> DEFINE Q == P \cup B
           res == s.res \o in
           new == Kept(res, s.adm, s.ok)
<1>1. /\ s.res \in Seq(P) /\ IsInjective(s.res) /\ Threshold(s.adm)
      /\ s.ok = TRUE
  BY DEF Sound, Kept
<1>2. res \in Seq(Q) /\ IsInjective(res) /\ ToSet(res) = ToSet(s.res) \cup ToSet(in)
  <2> DEFINE old == s.res
  <2>1. P \cap B = {} /\ old \in Seq(P) /\ IsInjective(old)
    BY <1>1
  <2> HIDE DEF old
  <2>2. /\ old \o in \in Seq(P \cup B) /\ IsInjective(old \o in)
        /\ ToSet(old \o in) = ToSet(old) \cup ToSet(in)
    BY <2>1, DistinctJoin, SMTT(30)
  <2>3. QED
    BY <2>2 DEF old
<1>3. new.res = res /\ new.adm = s.adm /\ new = Kept(new.res, new.adm, TRUE)
  BY <1>1 DEF Kept
<1>4. Q \subseteq U /\ P \subseteq Q
  OBVIOUS
<1>5. \A r : Place(P, r) \in Nat /\ Place(Q, r) \in Nat /\ Place(P, r) <= Place(Q, r)
  <2> HIDE DEF Q
  <2>1. QED
    BY <1>4, PlaceGrows
<1> HIDE DEF res, new
<1>6. ASSUME R = 0 PROVE ~new.adm.has /\ ToSet(new.res) = Q
  <2>1. ~s.adm.has /\ ToSet(s.res) = P
    BY <1>6 DEF Sound
  <2>2. ToSet(in) = B
    BY <2>1 DEF Admit
  <2>3. QED
    BY <1>2, <1>3, <2>1, <2>2
<1>7. ASSUME NEW r \in Q \ ToSet(new.res) PROVE R <= Place(Q, r)
  <2>1. r \notin ToSet(s.res) /\ r \notin ToSet(in)
    BY <1>2, <1>3
  <2>2. R <= Place(P, r)
    <3>1. CASE r \in P
      BY <2>1, <3>1 DEF Sound
    <3>2. CASE r \in B
      <4>1. r \in U \ P /\ ~Admit(s.adm, r)
        BY <2>1, <3>2
      <4>2. QED
        BY <4>1 DEF Sound
    <3>3. QED
      BY <3>1, <3>2
  <2>3. Place(P, r) \in Nat /\ Place(Q, r) \in Nat /\ Place(P, r) <= Place(Q, r)
    BY <1>5
  <2> HIDE DEF Q
  <2>4. QED
    BY <2>2, <2>3
<1>8. ASSUME NEW r \in U \ Q, ~Admit(new.adm, r) PROVE R <= Place(Q, r)
  <2>1. R <= Place(P, r)
    BY <1>3, <1>8 DEF Sound
  <2>2. Place(P, r) \in Nat /\ Place(Q, r) \in Nat /\ Place(P, r) <= Place(Q, r)
    BY <1>5
  <2> HIDE DEF Q
  <2>3. QED
    BY <2>1, <2>2
<1>9. Sound(U, Q, R, new)
  <2> HIDE DEF Q
  <2>1. QED
    BY <1>1, <1>2, <1>3, <1>6, <1>7, <1>8 DEF Sound
<1>10. QED
  BY <1>9 DEF new, res

\* A full reservoir is cut back.
LEMMA ShrinkIfFullSelects ==
  ASSUME NEW U, RowSet(U), NEW P, P \subseteq U, NEW R \in Nat, R = max_candidates, NEW s,
         Sound(U, P, R, s)
  PROVE  Selects(U, P, R, ShrinkIfFull(s))
<1> DEFINE h == R \div 2
           qMax == R + h
           n == Len(s.res)
           new == FuzzyShrink(s.res, R, qMax)
<1>1. /\ s.res \in Seq(P) /\ IsInjective(s.res) /\ s.ok = TRUE /\ n \in Nat
  BY DEF Sound, Kept
<1>2. ShrinkIfFull(s) = IF R = 0 \/ n < 2 * R THEN s ELSE new
  BY <1>1 DEF ShrinkIfFull
<1>3. CASE R = 0 \/ n < 2 * R
  BY <1>1, <1>2, <1>3 DEF Selects
<1>4. CASE ~(R = 0 \/ n < 2 * R)
  <2>1. h \in Nat /\ h < R
    BY <1>4
  <2> HIDE DEF h, n
  <2>2. R \in 1 .. n /\ qMax \in Nat /\ R <= qMax /\ qMax < 2 * R
    BY <1>1, <1>4, <2>1
  <2>3. s.res \in Seq(U)
    BY <1>1, SeqWidens
  <2> HIDE DEF qMax, new
  <2>3a. CutBack(U, s.res, R, qMax, new)
    <3> DEFINE old == s.res
    <3>1. R \in 1 .. Len(old) /\ old \in Seq(U) /\ IsInjective(old)
      BY <1>1, <2>2, <2>3 DEF n
    <3> HIDE DEF old
    <3>2. CutBack(U, old, R, qMax, FuzzyShrink(old, R, qMax))
      BY <2>2, <3>1, ShrinkSound
    <3>3. QED
      BY <3>2 DEF old, new
  <2>4. /\ new = Kept(new.res, new.adm, TRUE)
        /\ new.res \in Seq(U) /\ IsInjective(new.res) /\ ToSet(new.res) \subseteq ToSet(s.res)
        /\ Len(new.res) \in R .. qMax
        /\ Threshold(new.adm) /\ new.adm.has
        /\ \A r \in U \ ToSet(new.res) :
              r \in ToSet(s.res) \/ ~Admit(new.adm, r) =>
                \A c \in ToSet(new.res) : Ranked(c, r)
    BY <2>3a DEF CutBack
  <2> DEFINE C == ToSet(new.res)
  <2>5. C \subseteq P /\ RowSet(P) /\ Cardinality(C) = Len(new.res)
    <3>1. ToSet(s.res) \subseteq P
      BY <1>1, DistinctLength
    <3>2. Cardinality(C) = Len(new.res)
      BY <2>4, DistinctLength
    <3>3. QED
      BY <2>4, <3>1, <3>2, PartOfRows
  <2>6. new.res \in Seq(P)
    <3>1. \A k \in 1 .. Len(new.res) : new.res[k] \in C
      BY <2>4 DEF ToSet
    <3>2. QED
      BY <2>4, <2>5, <3>1
  <2> HIDE DEF C
  <2>7. ASSUME NEW r, \A c \in C : Ranked(c, r) PROVE R <= Place(P, r)
    <3>1. /\ Cardinality(C) \in Nat /\ Place(P, r) \in Nat
          /\ Cardinality(C) <= Place(P, r)
      BY <2>5, <2>7, AheadGrows
    <3>2. R <= Cardinality(C)
      BY <2>2, <2>4, <2>5, <3>1
    <3>3. QED
      BY <3>1, <3>2
  <2>8. ASSUME NEW r \in P \ C PROVE R <= Place(P, r)
    <3>1. CASE r \in ToSet(s.res)
      BY <2>4, <2>7, <3>1 DEF C
    <3>2. CASE r \notin ToSet(s.res)
      BY <3>2 DEF Sound
    <3>3. QED
      BY <3>1, <3>2
  <2>9. ASSUME NEW r \in U \ P, ~Admit(new.adm, r) PROVE R <= Place(P, r)
    BY <2>4, <2>5, <2>7, <2>9 DEF C
  <2>10. Sound(U, P, R, new)
    BY <1>4, <2>4, <2>6, <2>8, <2>9 DEF Sound, C
  <2>11. Len(new.res) < 2 * R
    BY <2>2, <2>4
  <2>12. QED
    BY <1>2, <1>4, <2>10, <2>11 DEF Selects, new, n
<1>5. QED
  BY <1>3, <1>4

\* add_scalar_block: one row.
LEMMA AdmitRowSelects ==
  ASSUME NEW U, RowSet(U), NEW P, P \subseteq U, NEW R \in Nat, R = max_candidates, NEW s,
         Selects(U, P, R, s), NEW r \in U \ P
  PROVE  Selects(U, P \cup {r}, R, AdmitRow(s, r))
<1> DEFINE Q == P \cup {r}
<1>1. /\ Sound(U, P, R, s) /\ s.res \in Seq(P) /\ s = Kept(s.res, s.adm, s.ok)
      /\ (R > 0 => Len(s.res) < 2 * R) /\ Q \subseteq U
  BY DEF Selects, Sound, Kept
<1>2. CASE ~Admit(s.adm, r)
  <2> DEFINE in == <<>>
  <2>1. in \in Seq({r}) /\ IsInjective(in) /\ ToSet(in) = {q \in {r} : Admit(s.adm, q)}
    BY <1>2 DEF IsInjective, ToSet
  <2>2. s.res \o in = s.res
    BY <1>1
  <2> HIDE DEF in
  <2>3. Sound(U, Q, R, Kept(s.res \o in, s.adm, s.ok))
    BY <1>1, <2>1, JoinSound
  <2>4. Sound(U, Q, R, s)
    BY <1>1, <2>2, <2>3
  <2>5. AdmitRow(s, r) = s
    BY <1>2 DEF AdmitRow
  <2>6. QED
    BY <1>1, <2>4, <2>5 DEF Selects
<1>3. CASE Admit(s.adm, r)
  <2> DEFINE in == <<r>>
             new == Kept(s.res \o in, s.adm, s.ok)
  <2>1. in \in Seq({r}) /\ IsInjective(in) /\ ToSet(in) = {q \in {r} : Admit(s.adm, q)}
    BY <1>3 DEF IsInjective, ToSet
  <2>2. s.res \o in = Append(s.res, r)
    BY <1>1
  <2>3. AdmitRow(s, r) = ShrinkIfFull(new)
    BY <1>3, <2>2 DEF AdmitRow
  <2> HIDE DEF in
  <2>4. Sound(U, Q, R, new)
    BY <1>1, <2>1, JoinSound
  <2> HIDE DEF new, Q
  <2>5. Selects(U, Q, R, ShrinkIfFull(new))
    BY <1>1, <2>4, ShrinkIfFullSelects
  <2>6. QED
    BY <2>3, <2>5 DEF Q
<1>4. QED
  BY <1>2, <1>3

\* add_scalar_block and add_16_avx512: a block of rows.
LEMMA AdmitBlockSelects ==
  ASSUME NEW U, RowSet(U), NEW P, P \subseteq U, NEW R \in Nat, R = max_candidates, NEW s,
         Selects(U, P, R, s), NEW block \in Seq(U \ P), IsInjective(block)
  PROVE  Selects(U, P \cup ToSet(block), R, AdmitBlock(s, block))
<1> DEFINE N == Len(block)
           Q == P \cup ToSet(block)
<1>1. N \in Nat /\ DOMAIN block = 1 .. N /\ \A k \in 1 .. N : block[k] \in U \ P
  OBVIOUS
<1>2. ToSet(block) = {block[k] : k \in 1 .. N} /\ ToSet(block) \subseteq U \ P
  BY <1>1 DEF ToSet
<1>3. \A j, k \in 1 .. N : block[j] = block[k] => j = k
  BY <1>1 DEF IsInjective
<1>4. CASE scan.avx512
  <2> DEFINE B == ToSet(block)
             S == {r \in B : Admit(s.adm, r)}
             in == Keep(block, S)
             new == Kept(s.res \o in, s.adm, s.ok)
  <2>1. AdmitBlock(s, block) = IF in = <<>> THEN s ELSE ShrinkIfFull(new)
    BY <1>4 DEF AdmitBlock
  <2>2. block \in Seq(B)
    BY <1>1, <1>2
  <2>3. in \in Seq(B) /\ IsInjective(in) /\ ToSet(in) = S
    <3>1. S \subseteq B
      OBVIOUS
    <3> HIDE DEF S, B
    <3>2. Keep(block, S) \in Seq(B) /\ IsInjective(Keep(block, S))
          /\ ToSet(Keep(block, S)) = ToSet(block) \cap S
      BY <2>2, KeepFacts
    <3>3. ToSet(block) \cap S = S
      BY <3>1 DEF B
    <3>4. QED
      BY <3>2, <3>3
  <2> HIDE DEF in
  <2>4. /\ Sound(U, P, R, s) /\ s.res \in Seq(P) /\ s = Kept(s.res, s.adm, s.ok)
        /\ (R > 0 => Len(s.res) < 2 * R) /\ B \subseteq U \ P
    BY <1>2 DEF Selects, Sound, Kept
  <2>5. Sound(U, P \cup B, R, new)
    <3> HIDE DEF B
    <3>1. QED
      BY <2>3, <2>4, JoinSound
  <2>6. CASE in = <<>>
    <3>1. s.res \o in = s.res
      BY <2>4, <2>6
    <3>2. Sound(U, P \cup B, R, s)
      BY <2>4, <2>5, <3>1
    <3>3. QED
      BY <2>1, <2>4, <2>6, <3>2 DEF Selects
  <2>7. CASE in # <<>>
    <3>1. P \cup B \subseteq U
      BY <2>4
    <3> HIDE DEF B, new
    <3>2. Selects(U, P \cup B, R, ShrinkIfFull(new))
      BY <2>5, <3>1, ShrinkIfFullSelects
    <3>3. QED
      BY <2>1, <2>7, <3>2 DEF B
  <2>8. QED
    BY <2>6, <2>7
<1>5. CASE ~scan.avx512
  <2> DEFINE Step(f) == [k \in 0 .. N |-> IF k = 0 THEN s ELSE AdmitRow(f[k - 1], block[k])]
             F == CHOOSE f : f = Step(f)
             Upto(n) == P \cup {block[k] : k \in 1 .. n}
  <2>1. AdmitBlock(s, block) = F[N]
    BY <1>5 DEF AdmitBlock
  <2>2. \E f : f = Step(f)
    <3> DEFINE Runs(n, g) == /\ g[0] = s
                             /\ \A k \in 1 .. n : g[k] = AdmitRow(g[k - 1], block[k])
               A == {n \in 0 .. N : \E g : Runs(n, g)}
    <3>1. 0 \in A
      <4>1. Runs(0, [k \in 0 .. 0 |-> s])
        OBVIOUS
      <4> HIDE DEF Runs
      <4>2. QED
        BY <1>1, <4>1
    <3>2. ASSUME NEW n \in 0 .. N - 1, n \in A PROVE n + 1 \in A
      <4>1. PICK g : Runs(n, g)
        BY <3>2
      <4> DEFINE h == [k \in 0 .. n + 1 |->
                         IF k = n + 1 THEN AdmitRow(g[n], block[k]) ELSE g[k]]
      <4>2. n + 1 \in 0 .. N /\ n \in Nat
        BY <1>1
      <4>3. h[0] = s
        BY <4>1, <4>2
      <4>4. \A k \in 1 .. n + 1 : k - 1 \in 0 .. n + 1 /\ k - 1 # n + 1 /\ k \in 0 .. n + 1
                                  /\ (k # n + 1 => k \in 1 .. n)
        BY <4>2
      <4>5. \A k \in 1 .. n + 1 : h[k] = AdmitRow(h[k - 1], block[k])
        BY <4>1, <4>2, <4>4
      <4>6. Runs(n + 1, h)
        BY <4>3, <4>5
      <4> HIDE DEF Runs, h
      <4>7. QED
        BY <4>2, <4>6
    <3>3. N \in A
      <4> HIDE DEF A
      <4>1. \A n \in 0 .. N : n \in A
        BY <1>1, <3>1, <3>2, Induct
      <4>2. QED
        BY <1>1, <4>1
    <3>4. PICK g : Runs(N, g)
      BY <3>3
    <3> DEFINE h == [k \in 0 .. N |-> g[k]]
    <3>5. \A k \in 0 .. N : k # 0 => k \in 1 .. N /\ k - 1 \in 0 .. N
      BY <1>1
    <3>6. \A k \in 0 .. N : h[k] = IF k = 0 THEN s ELSE AdmitRow(h[k - 1], block[k])
      BY <3>4, <3>5
    <3>7. h = Step(h)
      BY <3>6
    <3>8. QED
      BY <3>7
  <2>3. F = Step(F)
    BY <2>2
  <2> HIDE DEF F
  <2>4. F[0] = s /\ \A n \in 0 .. N - 1 : F[n + 1] = AdmitRow(F[n], block[n + 1])
    <3>1. \A n \in 0 .. N - 1 : n + 1 \in 0 .. N /\ n + 1 # 0 /\ (n + 1) - 1 = n
      BY <1>1
    <3>2. 0 \in 0 .. N
      BY <1>1
    <3>3. QED
      BY <2>3, <3>1, <3>2
  <2>5. ASSUME NEW n \in 0 .. N - 1, Selects(U, Upto(n), R, F[n])
        PROVE  Selects(U, Upto(n + 1), R, F[n + 1])
    <3> DEFINE r == block[n + 1]
               before == Upto(n)
    <3>1. n \in Nat /\ n + 1 \in 1 .. N /\ r \in U \ P
      BY <1>1
    <3>2. \A k \in 1 .. n : k \in 1 .. N /\ k # n + 1
      BY <1>1, <3>1
    <3>3. r \notin before /\ before \subseteq U
      BY <1>1, <1>3, <3>1, <3>2
    <3>4. Upto(n + 1) = before \cup {r}
      <4>1. 1 .. n + 1 = (1 .. n) \cup {n + 1}
        BY <3>1
      <4>2. QED
        BY <4>1
    <3>5. F[n + 1] = AdmitRow(F[n], r)
      BY <2>4
    <3> DEFINE now == F[n]
    <3>6. Selects(U, before, R, now) /\ r \in U \ before
      BY <2>5, <3>1, <3>3
    <3> HIDE DEF r, before, now
    <3>7. Selects(U, before \cup {r}, R, AdmitRow(now, r))
      BY <3>3, <3>6, AdmitRowSelects
    <3>8. QED
      BY <3>4, <3>5, <3>7 DEF now
  <2> DEFINE A == {n \in 0 .. N : Selects(U, Upto(n), R, F[n])}
  <2>6. 0 \in A
    <3>1. Upto(0) = P /\ 0 \in 0 .. N
      BY <1>1
    <3>2. QED
      BY <2>4, <3>1
  <2>7. \A n \in 0 .. N - 1 : n \in A => n + 1 \in A
    <3>1. \A n \in 0 .. N - 1 : n + 1 \in 0 .. N
      BY <1>1
    <3> HIDE DEF Upto
    <3>2. QED
      BY <2>5, <3>1
  <2>8. N \in A
    <3> HIDE DEF A
    <3>1. \A n \in 0 .. N : n \in A
      BY <1>1, <2>6, <2>7, Induct
    <3>2. QED
      BY <1>1, <3>1
  <2>9. Upto(N) = Q
    BY <1>2
  <2>10. QED
    BY <2>1, <2>8, <2>9
<1>6. QED
  BY <1>4, <1>5

(***************************************************************************)
(* The smallest upper endpoints.                                           *)
(***************************************************************************)
\* The endpoints are those of the rows t, in ascending order.
Tops(P, uppers, t) ==
  /\ uppers \in Seq(Int)
  /\ t \in [1 .. Len(uppers) -> P] /\ IsInjective(t)
  /\ \A k \in 1 .. Len(uppers) : uppers[k] = Upper(t[k])
  /\ \A j, k \in 1 .. Len(uppers) : j <= k => uppers[j] <= uppers[k]

\* No other row has an endpoint below the last of K.
Smallest(P, K, uppers) ==
  \E t : /\ Tops(P, uppers, t) /\ Len(uppers) <= K
         /\ \A r \in P \ ToSet(t) : Len(uppers) = K /\ uppers[K] <= Upper(r)

\* One endpoint more.
LEMMA PushTops ==
  ASSUME NEW P, NEW uppers, NEW t, Tops(P, uppers, t), NEW r \in P, Upper(r) \in Int,
         r \notin ToSet(t)
  PROVE  /\ Len(Push(uppers, Upper(r))) = Len(uppers) + 1
         /\ \A k \in 1 .. Len(uppers) + 1 :
              \/ Push(uppers, Upper(r))[k] = Upper(r)
              \/ \E j \in 1 .. Len(uppers) : Push(uppers, Upper(r))[k] = uppers[j]
         /\ \E w : Tops(P, Push(uppers, Upper(r)), w) /\ ToSet(w) = ToSet(t) \cup {r}
<1> DEFINE n == Len(uppers)
           u == Upper(r)
           below == {k \in 1 .. n : uppers[k] <= u}
           p == Cardinality(below)
           new == Push(uppers, u)
           w == [k \in 1 .. n + 1 |-> IF k <= p THEN t[k] ELSE IF k = p + 1 THEN r ELSE t[k - 1]]
<1>1. /\ n \in Nat /\ DOMAIN uppers = 1 .. n /\ u \in Int
      /\ \A k \in 1 .. n : uppers[k] \in Int /\ uppers[k] = Upper(t[k]) /\ t[k] \in P
      /\ \A j, k \in 1 .. n : j <= k => uppers[j] <= uppers[k]
      /\ t \in [1 .. n -> P]
  BY DEF Tops
<1>2. \A j, k \in 1 .. n : t[j] = t[k] => j = k
  BY <1>1 DEF Tops, IsInjective
<1>3. ToSet(t) = {t[k] : k \in 1 .. n}
  BY <1>1 DEF ToSet
<1>4. below = 1 .. p /\ p \in 0 .. n
  <2>1. below \subseteq 1 .. n
    OBVIOUS
  <2>2. ASSUME NEW k \in below, NEW j \in 1 .. k PROVE j \in below
    <3>1. j \in 1 .. n /\ k \in 1 .. n /\ j <= k /\ uppers[k] <= u
      BY <1>1
    <3>2. uppers[j] \in Int /\ uppers[k] \in Int /\ uppers[j] <= uppers[k]
      BY <1>1, <3>1
    <3>3. QED
      BY <1>1, <3>1, <3>2
  <2> HIDE DEF below
  <2>3. QED
    BY <1>1, <2>1, <2>2, PrefixLength
<1>5. new = [k \in 1 .. n + 1 |->
               IF k <= p THEN uppers[k] ELSE IF k = p + 1 THEN u ELSE uppers[k - 1]]
  BY <1>1 DEF Push
<1>6. \A k \in 1 .. n : (k <= p => uppers[k] <= u) /\ (~(k <= p) => u <= uppers[k])
  <2>1. ASSUME NEW k \in 1 .. n, k <= p PROVE uppers[k] <= u
    <3>1. k \in 1 .. p
      BY <2>1
    <3>2. k \in below
      BY <1>4, <3>1
    <3>3. QED
      BY <3>2
  <2>2. ASSUME NEW k \in 1 .. n, ~(k <= p) PROVE u <= uppers[k]
    <3>1. k \notin below
      BY <1>4, <2>2
    <3>2. ~(uppers[k] <= u) /\ uppers[k] \in Int
      BY <1>1, <3>1
    <3>3. QED
      BY <1>1, <3>2
  <2>3. QED
    BY <2>1, <2>2
<1> HIDE DEF u, n, p, below, new, w
<1>7. \A k \in 1 .. n + 1 : /\ k <= p => k \in 1 .. n
                            /\ ~(k <= p) /\ k # p + 1 => k - 1 \in 1 .. n /\ ~(k - 1 <= p)
  BY <1>1, <1>4
<1>8. new \in Seq(Int) /\ Len(new) = n + 1
  <2>1. new \in [1 .. n + 1 -> Int]
    BY <1>1, <1>5, <1>7
  <2>2. n + 1 \in Nat
    BY <1>1
  <2>3. QED
    BY <2>1, <2>2
<1>9. w \in [1 .. n + 1 -> P]
  <2>1. r \in P
    OBVIOUS
  <2>2. QED
    BY <1>1, <1>7, <2>1 DEF w
<1>10. \A k \in 1 .. n + 1 : new[k] = Upper(w[k])
  BY <1>1, <1>5, <1>7 DEF w, u
<1>11. ASSUME NEW j \in 1 .. n + 1, NEW k \in 1 .. n + 1, j <= k PROVE new[j] <= new[k]
  <2>1. /\ new[j] = IF j <= p THEN uppers[j] ELSE IF j = p + 1 THEN u ELSE uppers[j - 1]
        /\ new[k] = IF k <= p THEN uppers[k] ELSE IF k = p + 1 THEN u ELSE uppers[k - 1]
        /\ j \in Int /\ k \in Int /\ p \in Int
    BY <1>4, <1>5
  <2>2. CASE k <= p
    <3>1. j <= p /\ j \in 1 .. n /\ k \in 1 .. n
      BY <1>7, <1>11, <2>1, <2>2
    <3>2. QED
      BY <1>1, <1>11, <2>1, <2>2, <3>1
  <2>3. CASE k = p + 1
    <3>1. j <= p \/ j = p + 1
      BY <1>11, <2>1, <2>3
    <3>2. CASE j <= p
      BY <1>6, <1>7, <2>1, <2>3, <3>2
    <3>3. CASE j = p + 1
      BY <1>1, <2>1, <2>3, <3>3
    <3>4. QED
      BY <3>1, <3>2, <3>3
  <2>4. CASE ~(k <= p) /\ k # p + 1
    <3>1. k - 1 \in 1 .. n /\ ~(k - 1 <= p) /\ new[k] = uppers[k - 1]
      BY <1>7, <2>1, <2>4
    <3>2. u <= uppers[k - 1] /\ uppers[k - 1] \in Int
      BY <1>1, <1>6, <3>1
    <3>3. CASE j <= p
      <4>1. j \in 1 .. n /\ uppers[j] <= u /\ uppers[j] \in Int
        BY <1>1, <1>6, <1>7, <3>3
      <4>2. QED
        BY <1>1, <2>1, <3>1, <3>2, <3>3, <4>1
    <3>4. CASE j = p + 1
      BY <2>1, <3>1, <3>2, <3>4
    <3>5. CASE ~(j <= p) /\ j # p + 1
      <4>1. j - 1 \in 1 .. n /\ new[j] = uppers[j - 1] /\ j - 1 <= k - 1
        BY <1>7, <1>11, <2>1, <3>5
      <4>2. QED
        BY <1>1, <3>1, <4>1
    <3>6. QED
      BY <3>3, <3>4, <3>5
  <2>5. QED
    BY <2>2, <2>3, <2>4
<1>12. \A k \in 1 .. n : t[k] # r
  BY <1>3
<1>13. ASSUME NEW j \in 1 .. n + 1, NEW k \in 1 .. n + 1, w[j] = w[k] PROVE j = k
  <2>1. /\ w[j] = IF j <= p THEN t[j] ELSE IF j = p + 1 THEN r ELSE t[j - 1]
        /\ w[k] = IF k <= p THEN t[k] ELSE IF k = p + 1 THEN r ELSE t[k - 1]
        /\ j \in Int /\ k \in Int /\ p \in Int
    BY <1>4 DEF w
  <2>2. CASE j = p + 1
    <3>1. w[j] = r
      BY <2>1, <2>2
    <3>2. QED
      BY <1>7, <1>12, <1>13, <2>1, <2>2, <3>1
  <2>3. CASE k = p + 1
    <3>1. w[k] = r
      BY <2>1, <2>3
    <3>2. QED
      BY <1>7, <1>12, <1>13, <2>1, <2>3, <3>1
  <2>4. CASE j <= p /\ k <= p
    BY <1>2, <1>7, <1>13, <2>1, <2>4
  <2>5. CASE j <= p /\ ~(k <= p) /\ k # p + 1
    <3>1. j \in 1 .. n /\ k - 1 \in 1 .. n /\ ~(k - 1 <= p) /\ t[j] = t[k - 1]
      BY <1>7, <1>13, <2>1, <2>5
    <3>2. j = k - 1
      BY <1>2, <3>1
    <3>3. QED
      BY <2>5, <3>1, <3>2
  <2>6. CASE k <= p /\ ~(j <= p) /\ j # p + 1
    <3>1. k \in 1 .. n /\ j - 1 \in 1 .. n /\ ~(j - 1 <= p) /\ t[k] = t[j - 1]
      BY <1>7, <1>13, <2>1, <2>6
    <3>2. k = j - 1
      BY <1>2, <3>1
    <3>3. QED
      BY <2>6, <3>1, <3>2
  <2>7. CASE ~(j <= p) /\ j # p + 1 /\ ~(k <= p) /\ k # p + 1
    <3>1. j - 1 \in 1 .. n /\ k - 1 \in 1 .. n /\ t[j - 1] = t[k - 1]
      BY <1>7, <1>13, <2>1, <2>7
    <3>2. j - 1 = k - 1
      BY <1>2, <3>1
    <3>3. QED
      BY <2>1, <3>2
  <2>8. QED
    BY <2>2, <2>3, <2>4, <2>5, <2>6, <2>7
<1>14. ToSet(w) = ToSet(t) \cup {r}
  <2>1. ToSet(w) = {w[k] : k \in 1 .. n + 1}
    BY DEF ToSet, w
  <2>2. ASSUME NEW k \in 1 .. n + 1 PROVE w[k] \in ToSet(t) \cup {r}
    BY <1>3, <1>7 DEF w
  <2>3. r \in ToSet(w)
    <3>1. p + 1 \in 1 .. n + 1 /\ ~(p + 1 <= p)
      BY <1>1, <1>4
    <3>2. w[p + 1] = r
      BY <3>1 DEF w
    <3>3. QED
      BY <2>1, <3>1, <3>2
  <2>4. ASSUME NEW k \in 1 .. n PROVE t[k] \in ToSet(w)
    <3>1. CASE k <= p
      <4>1. k \in 1 .. n + 1
        BY <1>1
      <4>2. w[k] = t[k]
        BY <3>1, <4>1 DEF w
      <4>3. QED
        BY <2>1, <4>1, <4>2
    <3>2. CASE ~(k <= p)
      <4>1. k + 1 \in 1 .. n + 1 /\ ~(k + 1 <= p) /\ k + 1 # p + 1 /\ (k + 1) - 1 = k
        BY <1>1, <1>4, <3>2
      <4>2. w[k + 1] = t[(k + 1) - 1]
        BY <4>1 DEF w
      <4>3. QED
        BY <2>1, <4>1, <4>2
    <3>3. QED
      BY <3>1, <3>2
  <2>5. QED
    BY <1>3, <2>1, <2>2, <2>3, <2>4
<1>15. Tops(P, new, w)
  <2>1. IsInjective(w)
    BY <1>9, <1>13 DEF IsInjective
  <2>2. QED
    BY <1>8, <1>9, <1>10, <1>11, <2>1 DEF Tops
<1>16. \A k \in 1 .. n + 1 : new[k] = u \/ \E j \in 1 .. n : new[k] = uppers[j]
  BY <1>5, <1>7
<1>17. QED
  BY <1>8, <1>14, <1>15, <1>16 DEF new, u, n

\* update_upper.
LEMMA UpdateUpperKeeps ==
  ASSUME NEW U, RowSet(U), NEW P, P \subseteq U, NEW K \in Nat \ {0}, K = TopK, NEW uppers,
         Smallest(P, K, uppers), NEW r \in U \ P
  PROVE  Smallest(P \cup {r}, K, UpdateUpper(uppers, r))
<1> DEFINE n == Len(uppers)
           Q == P \cup {r}
           u == Upper(r)
<1>1. PICK t : /\ Tops(P, uppers, t) /\ n <= K
               /\ \A q \in P \ ToSet(t) : n = K /\ uppers[K] <= Upper(q)
  BY DEF Smallest
<1>2. /\ n \in Nat /\ uppers \in Seq(Int) /\ t \in [1 .. n -> P] /\ IsInjective(t)
      /\ \A k \in 1 .. n : uppers[k] \in Int /\ uppers[k] = Upper(t[k])
      /\ \A j, k \in 1 .. n : j <= k => uppers[j] <= uppers[k]
  BY <1>1 DEF Tops
<1>3. \A q \in U : Upper(q) \in Int
  BY DEF RowSet
<1>4. Tops(Q, uppers, t) /\ ToSet(t) = {t[k] : k \in 1 .. n}
  <2>1. t \in [1 .. n -> Q] /\ ToSet(t) = {t[k] : k \in 1 .. n}
    BY <1>2 DEF ToSet
  <2>2. QED
    BY <1>1, <2>1 DEF Tops
<1>5. r \in Q /\ u \in Int /\ r \notin ToSet(t)
  BY <1>2, <1>3, <1>4
<1>6. CASE n < K
  <2> DEFINE new == Push(uppers, u)
  <2>1. UpdateUpper(uppers, r) = new
    BY <1>6 DEF UpdateUpper
  <2>2. Len(new) = n + 1 /\ \E w : Tops(Q, new, w) /\ ToSet(w) = ToSet(t) \cup {r}
    <3> HIDE DEF Q
    <3>1. Tops(Q, uppers, t) /\ r \in Q /\ Upper(r) \in Int /\ r \notin ToSet(t)
      BY <1>4, <1>5
    <3> HIDE DEF n
    <3>2. /\ Len(Push(uppers, Upper(r))) = Len(uppers) + 1
          /\ \E w : Tops(Q, Push(uppers, Upper(r)), w) /\ ToSet(w) = ToSet(t) \cup {r}
      BY <3>1, PushTops
    <3>3. QED
      BY <3>2 DEF n
  <2>3. PICK w : Tops(Q, new, w) /\ ToSet(w) = ToSet(t) \cup {r}
    BY <2>2
  <2>4. P \ ToSet(t) = {}
    BY <1>1, <1>2, <1>6
  <2>5. Q \ ToSet(w) = {}
    <3>1. Q \ (ToSet(t) \cup {r}) = {}
      BY <2>4
    <3>2. QED
      BY <2>3, <3>1
  <2>6. Len(new) <= K
    BY <1>2, <1>6, <2>2
  <2> HIDE DEF new, Q
  <2>7. Smallest(Q, K, new)
    BY <2>3, <2>5, <2>6 DEF Smallest
  <2>8. QED
    BY <2>1, <2>7 DEF Q
<1>7. CASE ~(n < K)
  <2>1. n = K /\ n \in Nat \ {0} /\ Last(uppers) = uppers[n] /\ n \in 1 .. n
    BY <1>1, <1>2, <1>7 DEF Last
  <2>2. UpdateUpper(uppers, r) = IF u < uppers[n] THEN Push(Front(uppers), u) ELSE uppers
    BY <1>7, <2>1 DEF UpdateUpper
  <2>3. CASE ~(u < uppers[n])
    <3>1. uppers[K] <= u
      BY <1>2, <1>5, <2>1, <2>3
    <3>2. \A q \in Q \ ToSet(t) : n = K /\ uppers[K] <= Upper(q)
      BY <1>1, <2>1, <3>1
    <3> HIDE DEF Q
    <3>3. Smallest(Q, K, uppers)
      BY <1>1, <1>4, <3>2 DEF Smallest
    <3>4. QED
      BY <2>2, <2>3, <3>3 DEF Q
  <2>4. CASE u < uppers[n]
    <3> DEFINE m == n - 1
               front == Front(uppers)
               old == [k \in 1 .. m |-> t[k]]
               new == Push(front, u)
    <3>1. m \in Nat /\ m + 1 = n /\ \A k \in 1 .. m : k \in 1 .. n /\ k # n
      BY <2>1
    <3>2. front = [k \in 1 .. m |-> uppers[k]]
      BY DEF Front
    <3>3. front \in Seq(Int) /\ Len(front) = m
      <4>1. \A k \in 1 .. m : uppers[k] \in Int
        BY <1>2, <3>1
      <4> HIDE DEF m, front
      <4>2. front \in [1 .. m -> Int]
        BY <3>2, <4>1
      <4>3. QED
        BY <3>1, <4>2, SMTT(30)
    <3> HIDE DEF m, front
    <3>4. Tops(Q, front, old)
      <4>1. old \in [1 .. m -> Q]
        BY <1>2, <3>1
      <4>2. IsInjective(old)
        <5>1. \A j, k \in 1 .. n : t[j] = t[k] => j = k
          BY <1>2 DEF IsInjective
        <5>2. QED
          BY <3>1, <5>1 DEF IsInjective
      <4>3. \A k \in 1 .. m : front[k] = Upper(old[k])
        BY <1>2, <3>1, <3>2
      <4>4. \A j, k \in 1 .. m : j <= k => front[j] <= front[k]
        BY <1>2, <3>1, <3>2
      <4> HIDE DEF old, Q
      <4>5. QED
        BY <3>3, <4>1, <4>2, <4>3, <4>4 DEF Tops
    <3>5. ToSet(old) = {t[k] : k \in 1 .. m}
      BY DEF ToSet
    <3>6. ToSet(t) = ToSet(old) \cup {t[n]}
      <4>1. 1 .. n = (1 .. m) \cup {n}
        BY <2>1, <3>1
      <4>2. QED
        BY <1>4, <3>5, <4>1
    <3>7. r \notin ToSet(old)
      BY <1>5, <3>6
    <3> HIDE DEF old, Q, u
    <3>8. /\ Len(new) = m + 1
          /\ \A k \in 1 .. m + 1 : new[k] = u \/ \E j \in 1 .. m : new[k] = front[j]
          /\ \E w : Tops(Q, new, w) /\ ToSet(w) = ToSet(old) \cup {r}
      BY <1>5, <3>3, <3>4, <3>7, PushTops DEF u
    <3>9. PICK w : Tops(Q, new, w) /\ ToSet(w) = ToSet(old) \cup {r}
      BY <3>8
    <3>10. Len(new) = K
      BY <2>1, <3>1, <3>8
    <3> HIDE DEF new
    <3>11. new[K] \in Int /\ new[K] <= uppers[n]
      <4>1. K \in 1 .. m + 1
        BY <2>1, <3>1
      <4>2. new[K] = u \/ \E j \in 1 .. m : new[K] = front[j]
        BY <3>8, <4>1
      <4>3. uppers[n] \in Int
        BY <1>2, <2>1
      <4>4. CASE new[K] = u
        BY <1>5, <2>4, <4>3, <4>4
      <4>5. ASSUME NEW j \in 1 .. m, new[K] = front[j]
            PROVE  new[K] \in Int /\ new[K] <= uppers[n]
        <5>1. j \in 1 .. n /\ j <= n /\ front[j] = uppers[j]
          BY <3>1, <3>2
        <5>2. uppers[j] \in Int /\ uppers[j] <= uppers[n]
          BY <1>2, <2>1, <5>1
        <5>3. QED
          BY <4>5, <5>1, <5>2
      <4>6. QED
        BY <4>2, <4>4, <4>5
    <3>12. ASSUME NEW q \in Q \ ToSet(w)
           PROVE  new[K] <= Upper(q)
      <4>1. q # r /\ q \in P /\ q \in U /\ q \notin ToSet(old)
        BY <3>9 DEF Q
      <4>2. Upper(q) \in Int /\ uppers[n] \in Int
        BY <1>2, <1>3, <2>1, <4>1
      <4>3. CASE q = t[n]
        BY <1>2, <2>1, <3>11, <4>3
      <4>4. CASE q # t[n]
        <5>1. uppers[K] <= Upper(q)
          BY <1>1, <3>6, <4>1, <4>4
        <5>2. QED
          BY <2>1, <3>11, <4>2, <5>1
      <4>5. QED
        BY <4>3, <4>4
    <3>13. Smallest(Q, K, new)
      <4>1. Len(new) <= K
        BY <3>10
      <4>2. QED
        BY <3>9, <3>10, <3>12, <4>1 DEF Smallest
    <3>14. UpdateUpper(uppers, r) = new
      BY <2>2, <2>4 DEF new, front
    <3>15. QED
      BY <3>13, <3>14 DEF Q
  <2>5. QED
    BY <2>3, <2>4
<1>8. QED
  BY <1>6, <1>7

\* The loop over a block.
LEMMA UpdateUppersKeeps ==
  ASSUME NEW U, RowSet(U), NEW P, P \subseteq U, NEW K \in Nat \ {0}, K = TopK, NEW uppers,
         Smallest(P, K, uppers), NEW block \in Seq(U \ P), IsInjective(block)
  PROVE  Smallest(P \cup ToSet(block), K, UpdateUppers(uppers, block))
<1> DEFINE N == Len(block)
           Step(f) == [k \in 0 .. N |-> IF k = 0 THEN uppers ELSE UpdateUpper(f[k - 1], block[k])]
           F == CHOOSE f : f = Step(f)
           Upto(n) == P \cup {block[k] : k \in 1 .. n}
<1>1. N \in Nat /\ DOMAIN block = 1 .. N /\ \A k \in 1 .. N : block[k] \in U \ P
  OBVIOUS
<1>2. ToSet(block) = {block[k] : k \in 1 .. N}
  BY <1>1 DEF ToSet
<1>3. \A j, k \in 1 .. N : block[j] = block[k] => j = k
  BY <1>1 DEF IsInjective
<1>4. UpdateUppers(uppers, block) = F[N]
  BY DEF UpdateUppers
<1>5. \E f : f = Step(f)
  <2> DEFINE Runs(n, g) == /\ g[0] = uppers
                           /\ \A k \in 1 .. n : g[k] = UpdateUpper(g[k - 1], block[k])
             A == {n \in 0 .. N : \E g : Runs(n, g)}
  <2>1. 0 \in A
    <3>1. Runs(0, [k \in 0 .. 0 |-> uppers])
      OBVIOUS
    <3> HIDE DEF Runs
    <3>2. QED
      BY <1>1, <3>1
  <2>2. ASSUME NEW n \in 0 .. N - 1, n \in A PROVE n + 1 \in A
    <3>1. PICK g : Runs(n, g)
      BY <2>2
    <3> DEFINE h == [k \in 0 .. n + 1 |->
                       IF k = n + 1 THEN UpdateUpper(g[n], block[k]) ELSE g[k]]
    <3>2. n + 1 \in 0 .. N /\ n \in Nat
      BY <1>1
    <3>3. h[0] = uppers
      BY <3>1, <3>2
    <3>4. \A k \in 1 .. n + 1 : k - 1 \in 0 .. n + 1 /\ k - 1 # n + 1 /\ k \in 0 .. n + 1
                                /\ (k # n + 1 => k \in 1 .. n)
      BY <3>2
    <3>5. \A k \in 1 .. n + 1 : h[k] = UpdateUpper(h[k - 1], block[k])
      BY <3>1, <3>2, <3>4
    <3>6. Runs(n + 1, h)
      BY <3>3, <3>5
    <3> HIDE DEF Runs, h
    <3>7. QED
      BY <3>2, <3>6
  <2>3. N \in A
    <3> HIDE DEF A
    <3>1. \A n \in 0 .. N : n \in A
      BY <1>1, <2>1, <2>2, Induct
    <3>2. QED
      BY <1>1, <3>1
  <2>4. PICK g : Runs(N, g)
    BY <2>3
  <2> DEFINE h == [k \in 0 .. N |-> g[k]]
  <2>5. \A k \in 0 .. N : k # 0 => k \in 1 .. N /\ k - 1 \in 0 .. N
    BY <1>1
  <2>6. \A k \in 0 .. N : h[k] = IF k = 0 THEN uppers ELSE UpdateUpper(h[k - 1], block[k])
    BY <2>4, <2>5
  <2>7. h = Step(h)
    BY <2>6
  <2>8. QED
    BY <2>7
<1>6. F = Step(F)
  BY <1>5
<1> HIDE DEF F
<1>7. F[0] = uppers /\ \A n \in 0 .. N - 1 : F[n + 1] = UpdateUpper(F[n], block[n + 1])
  <2>1. \A n \in 0 .. N - 1 : n + 1 \in 0 .. N /\ n + 1 # 0 /\ (n + 1) - 1 = n
    BY <1>1
  <2>2. 0 \in 0 .. N
    BY <1>1
  <2>3. QED
    BY <1>6, <2>1, <2>2
<1>8. ASSUME NEW n \in 0 .. N - 1, Smallest(Upto(n), K, F[n])
      PROVE  Smallest(Upto(n + 1), K, F[n + 1])
  <2> DEFINE r == block[n + 1]
             before == Upto(n)
             now == F[n]
  <2>1. n \in Nat /\ n + 1 \in 1 .. N /\ r \in U \ P
    BY <1>1
  <2>2. \A k \in 1 .. n : k \in 1 .. N /\ k # n + 1
    BY <1>1, <2>1
  <2>3. r \notin before /\ before \subseteq U
    BY <1>1, <1>3, <2>1, <2>2
  <2>4. Upto(n + 1) = before \cup {r}
    <3>1. 1 .. n + 1 = (1 .. n) \cup {n + 1}
      BY <2>1
    <3>2. QED
      BY <3>1
  <2>5. F[n + 1] = UpdateUpper(now, r)
    BY <1>7
  <2>6. Smallest(before, K, now) /\ r \in U \ before
    BY <1>8, <2>1, <2>3
  <2> HIDE DEF r, before, now
  <2>7. Smallest(before \cup {r}, K, UpdateUpper(now, r))
    BY <2>3, <2>6, UpdateUpperKeeps
  <2>8. QED
    BY <2>4, <2>5, <2>7
<1> DEFINE A == {n \in 0 .. N : Smallest(Upto(n), K, F[n])}
<1>9. 0 \in A
  <2>1. Upto(0) = P /\ 0 \in 0 .. N
    BY <1>1
  <2>2. QED
    BY <1>7, <2>1
<1>10. \A n \in 0 .. N - 1 : n \in A => n + 1 \in A
  <2>1. \A n \in 0 .. N - 1 : n + 1 \in 0 .. N
    BY <1>1
  <2> HIDE DEF Upto
  <2>2. QED
    BY <1>8, <2>1
<1>11. N \in A
  <2> HIDE DEF A
  <2>1. \A n \in 0 .. N : n \in A
    BY <1>1, <1>9, <1>10, Induct
  <2>2. QED
    BY <1>1, <2>1
<1>12. QED
  BY <1>2, <1>4, <1>11

(***************************************************************************)
(* finish().                                                               *)
(***************************************************************************)
\* Against the K-th smallest endpoint, a row passes as it does by counting.
LEMMA PassesAtLast ==
  ASSUME NEW P, RowSet(P), NEW K \in Nat \ {0}, K <= Cardinality(P), NEW uppers,
         Smallest(P, K, uppers), NEW r \in P
  PROVE  Lower(r) <= Last(uppers) <=> Passes(P, r, K)
<1> DEFINE n == Len(uppers)
           theta == uppers[K]
           C == {q \in P : Upper(q) < Lower(r)}
<1>1. PICK t : /\ Tops(P, uppers, t) /\ n <= K
               /\ \A q \in P \ ToSet(t) : n = K /\ uppers[K] <= Upper(q)
  BY DEF Smallest
<1>2. /\ n \in Nat /\ t \in [1 .. n -> P] /\ IsInjective(t)
      /\ \A k \in 1 .. n : uppers[k] \in Int /\ uppers[k] = Upper(t[k])
      /\ \A j, k \in 1 .. n : j <= k => uppers[j] <= uppers[k]
  BY <1>1 DEF Tops
<1>3. \A j, k \in 1 .. n : t[j] = t[k] => j = k
  BY <1>2 DEF IsInjective
<1>4. ToSet(t) = {t[k] : k \in 1 .. n} /\ ToSet(t) \subseteq P
  BY <1>2 DEF ToSet
<1>5. t \in Seq(P) /\ Len(t) = n
  BY <1>2
<1>6. Cardinality(ToSet(t)) = n
  BY <1>2, <1>5, DistinctLength
<1>7. \A q \in P : Lower(q) \in Int /\ Upper(q) \in Int
  BY DEF RowSet
<1>8. IsFiniteSet(P) /\ Cardinality(P) \in Nat
  BY FS_CardinalityType DEF RowSet
<1>9. n = K
  <2>1. CASE \E q \in P : q \notin ToSet(t)
    BY <1>1, <2>1
  <2>2. CASE ~\E q \in P : q \notin ToSet(t)
    <3>1. ToSet(t) = P
      BY <1>4, <2>2
    <3>2. Cardinality(P) = n
      BY <1>6, <3>1
    <3>3. QED
      BY <1>1, <1>2, <3>2
  <2>3. QED
    BY <2>1, <2>2
<1>10. Last(uppers) = theta /\ K \in 1 .. n /\ theta \in Int /\ Lower(r) \in Int
  BY <1>2, <1>7, <1>9 DEF Last
<1>11. Passes(P, r, K) <=> Cardinality(C) < K
  BY DEF Passes
<1> HIDE DEF theta, C
<1>12. ASSUME Lower(r) <= theta PROVE Cardinality(C) < K
  <2> DEFINE D == ToSet(t) \ {t[K]}
  <2>1. C \subseteq D
    <3> SUFFICES ASSUME NEW q \in C PROVE q \in D
      OBVIOUS
    <3>1. q \in P /\ Upper(q) < Lower(r) /\ Upper(q) \in Int
      BY <1>7 DEF C
    <3>2. ~(theta <= Upper(q))
      BY <1>10, <1>12, <3>1
    <3>3. q \in ToSet(t)
      BY <1>1, <3>1, <3>2 DEF theta
    <3>4. q # t[K]
      BY <1>2, <1>10, <3>1, <3>2 DEF theta
    <3>5. QED
      BY <3>3, <3>4
  <2>2. t[K] \in ToSet(t) /\ IsFiniteSet(ToSet(t)) /\ IsFiniteSet(D)
    BY <1>4, <1>8, <1>10, FS_Subset
  <2>3. Cardinality(D) = K - 1
    <3>1. IF t[K] \in ToSet(t) THEN Cardinality(D) = Cardinality(ToSet(t)) - 1
                               ELSE Cardinality(D) = Cardinality(ToSet(t))
      BY <2>2, FS_RemoveElement
    <3>2. QED
      BY <1>6, <1>9, <2>2, <3>1
  <2> HIDE DEF D
  <2>4. Cardinality(C) <= Cardinality(D) /\ Cardinality(C) \in Nat
    BY <2>1, <2>2, FS_Subset, FS_CardinalityType
  <2>5. QED
    BY <2>3, <2>4
<1>13. ASSUME ~(Lower(r) <= theta) PROVE ~(Cardinality(C) < K)
  <2>1. ToSet(t) \subseteq C
    <3> SUFFICES ASSUME NEW k \in 1 .. n PROVE t[k] \in C
      BY <1>4
    <3>1. uppers[k] <= theta /\ uppers[k] \in Int /\ uppers[k] = Upper(t[k]) /\ t[k] \in P
      BY <1>2, <1>9, <1>10 DEF theta
    <3>2. Upper(t[k]) < Lower(r)
      BY <1>10, <1>13, <3>1
    <3>3. QED
      BY <3>1, <3>2 DEF C
  <2>2. IsFiniteSet(C)
    BY <1>8, FS_Subset DEF C
  <2>3. Cardinality(ToSet(t)) <= Cardinality(C) /\ Cardinality(C) \in Nat
    BY <2>1, <2>2, FS_Subset, FS_CardinalityType
  <2>4. QED
    BY <1>6, <1>9, <2>3
<1>14. QED
  BY <1>10, <1>11, <1>12, <1>13

\* The first K rows are shortlisted and pass.
LEMMA FirstAreCandidates ==
  ASSUME NEW P, RowSet(P), NEW K \in Nat \ {0}, NEW R \in Nat, R = 0 \/ R >= K,
         NEW r \in P, Place(P, r) < K
  PROVE  Shortlisted(P, r, R) /\ Passes(P, r, K)
<1> DEFINE C == {q \in P : Upper(q) < Lower(r)}
<1>1. Place(P, r) \in Nat
  BY RowPlaces
<1>2. Shortlisted(P, r, R)
  BY <1>1 DEF Shortlisted, Place, Ahead
<1>3. ASSUME NEW q \in C PROVE Ranked(q, r)
  <2>1. /\ q \in P /\ Upper(q) < Lower(r)
        /\ q.est <= Upper(q) /\ Lower(r) <= r.est
        /\ q.est \in Int /\ r.est \in Int /\ Upper(q) \in Int /\ Lower(r) \in Int
    BY DEF RowSet
  <2>2. q.est < r.est
    BY <2>1
  <2>3. QED
    BY <2>2 DEF Ranked
<1>4. C \subseteq P
  OBVIOUS
<1>5. Passes(P, r, K) <=> Cardinality(C) < K
  BY DEF Passes
<1> HIDE DEF C
<1>6. Cardinality(C) \in Nat /\ Cardinality(C) <= Place(P, r)
  BY <1>3, <1>4, AheadGrows
<1>7. QED
  BY <1>1, <1>2, <1>5, <1>6

\* shrink_shortlist leaves the best R rows of all that were added.
LEMMA ShortlistKept ==
  ASSUME NEW U, RowSet(U), NEW P, P \subseteq U, NEW R \in Nat \ {0}, NEW s, Sound(U, P, R, s)
  PROVE  ToSet(ShrinkShortlist(s.res, R)) = {r \in P : Shortlisted(P, r, R)}
<1> DEFINE res == s.res
           S == ToSet(res)
           X == {r \in P : Place(P, r) < R}
           Y == {r \in S : Place(S, r) < R}
           n == Len(res)
<1>1. /\ res \in Seq(P) /\ IsInjective(res) /\ n \in Nat
      /\ \A r \in P \ S : R <= Place(P, r)
  BY DEF Sound
<1>2. RowSet(P) /\ RowSet(S) /\ S \subseteq P /\ Cardinality(S) = n
  <2>1. S \subseteq P /\ Cardinality(S) = n
    BY <1>1, DistinctLength
  <2>2. RowSet(P) /\ RowSet(S)
    BY <2>1, PartOfRows
  <2>3. QED
    BY <2>1, <2>2
<1>3. X = {r \in P : Shortlisted(P, r, R)}
  BY DEF Shortlisted, Place, Ahead
<1> HIDE DEF res, S, n
<1>4. X \subseteq S
  <2>1. \A r \in P : Place(P, r) \in Nat
    BY <1>2, RowPlaces
  <2>2. QED
    BY <1>1, <2>1
<1>5. /\ Cardinality(P) \in Nat /\ Cardinality(S) \in Nat
      /\ IsFiniteSet(P) /\ IsFiniteSet(S) /\ Cardinality(S) <= Cardinality(P)
  <2>1. IsFiniteSet(P) /\ IsFiniteSet(S)
    BY <1>2 DEF RowSet
  <2>2. QED
    BY <1>2, <2>1, FS_Subset, FS_CardinalityType
<1>6. IsFiniteSet(X) /\ IsFiniteSet(Y)
  <2>1. X \subseteq P /\ Y \subseteq S
    OBVIOUS
  <2>2. QED
    BY <1>5, <2>1, FS_Subset
<1>7. ASSUME R <= Cardinality(P) PROVE Cardinality(X) = R
  <2>1. R \in 0 .. Cardinality(P)
    BY <1>5, <1>7
  <2>2. Cardinality(Leading(P, R)) = R
    BY <1>2, <2>1, LeadingRows
  <2>3. X = Leading(P, R)
    BY DEF Leading
  <2>4. QED
    BY ONLY <2>2, <2>3
<1>8. CASE n <= R
  <2>1. ToSet(ShrinkShortlist(s.res, R)) = S
    BY <1>8 DEF ShrinkShortlist, S, res, n
  <2>2. X = S
    <3>1. CASE R <= Cardinality(P)
      <4>1. Cardinality(X) = R
        BY <1>7, <3>1
      <4> HIDE DEF X
      <4>2. Cardinality(X) <= Cardinality(S)
        BY <1>4, <1>5, FS_Subset
      <4>3. Cardinality(X) = Cardinality(S)
        BY <1>2, <1>5, <1>8, <4>1, <4>2
      <4>4. QED
        BY <1>4, <1>5, <4>3, FS_Subset
    <3>2. CASE ~(R <= Cardinality(P))
      <4>1. \A r \in P : Place(P, r) \in 0 .. Cardinality(P) - 1
        BY <1>2, RowPlaces
      <4>2. \A r \in P : Place(P, r) < R
        BY <1>5, <3>2, <4>1
      <4>3. QED
        BY <1>2, <1>4, <4>2
    <3>3. QED
      BY <3>1, <3>2
  <2>3. QED
    BY <1>3, <2>1, <2>2
<1>9. CASE ~(n <= R)
  <2> DEFINE last == NthRanked(S, R)
             C == {r \in S : r.est < last.est
                               \/ (TRUE /\ r.est = last.est /\ r.id <= last.id)}
  <2>1. R \in 1 .. Cardinality(S) /\ R \in 0 .. Cardinality(S)
    BY <1>1, <1>2, <1>9
  <2>2. last \in S /\ Place(S, last) = R - 1
    BY <1>2, <2>1, NthRankedRow
  <2>3. ShrinkShortlist(s.res, R) = Keep(res, C)
    BY <1>9 DEF ShrinkShortlist, Compact, S, res, n
  <2> HIDE DEF last
  <2>4. ASSUME NEW r \in S PROVE r \in C <=> r \in Y
    <3>1. r.est \in Int /\ r.id \in Int /\ last.est \in Int /\ last.id \in Int
          /\ (r.id = last.id => r = last)
      BY <1>2, <2>2 DEF RowSet
    <3>2. r \in C <=> Ranked(r, last) \/ r = last
      BY <3>1 DEF Ranked
    <3>3. /\ Place(S, r) \in Nat
          /\ Ranked(r, last) <=> Place(S, r) < Place(S, last)
          /\ Place(S, r) = Place(S, last) => r = last
      BY <1>2, <2>2, RowPlaces
    <3>4. Place(S, r) < R <=> Ranked(r, last) \/ r = last
      BY <2>2, <3>3
    <3>5. QED
      BY <3>2, <3>4
  <2>5. C = Y
    BY <2>4
  <2> HIDE DEF C
  <2>6. ToSet(Keep(res, C)) = Y
    <3>1. ToSet(Keep(res, C)) = ToSet(res) \cap C
      BY <1>1, KeepFacts
    <3>2. S \cap Y = Y
      OBVIOUS
    <3>3. QED
      BY <2>5, <3>1, <3>2 DEF S
  <2>7. X \subseteq Y
    <3> SUFFICES ASSUME NEW r \in X PROVE Place(S, r) < R
      BY <1>4
    <3>1. Place(S, r) \in Nat /\ Place(P, r) \in Nat /\ Place(S, r) <= Place(P, r)
      BY <1>2, PlaceGrows
    <3>2. Place(P, r) < R
      OBVIOUS
    <3>3. QED
      BY <3>1, <3>2
  <2>8. Cardinality(Y) = R
    <3>1. Cardinality(Leading(S, R)) = R
      BY <1>2, <2>1, LeadingRows
    <3>2. Y = Leading(S, R)
      BY DEF Leading
    <3>3. QED
      BY ONLY <3>1, <3>2
  <2>9. Cardinality(X) = R
    BY <1>5, <1>7, <2>1
  <2> HIDE DEF X, Y
  <2>10. X = Y
    BY <1>6, <2>7, <2>8, <2>9, FS_Subset
  <2>11. QED
    BY <1>3, <2>3, <2>6, <2>10
<1>10. QED
  BY <1>8, <1>9

LEMMA FunctionLength ==
  ASSUME NEW m \in Nat, NEW S, NEW c \in [1 .. m -> S]
  PROVE  c \in Seq(S) /\ Len(c) = m
OBVIOUS

\* The rows of a set in the order of their rank.
LEMMA RankedList ==
  ASSUME NEW S, RowSet(S), NEW c, c = [n \in 1 .. Cardinality(S) |-> NthRanked(S, n)]
  PROVE  /\ ToSet(c) = S /\ Len(c) = Cardinality(S) /\ DOMAIN c = 1 .. Cardinality(S)
         /\ \A j, k \in 1 .. Cardinality(S) : j < k => Ranked(c[j], c[k])
<1> DEFINE m == Cardinality(S)
<1>1. m \in Nat /\ DOMAIN c = 1 .. m
  BY RowPlaces
<1>2. \A n \in 1 .. m : c[n] \in S /\ Place(S, c[n]) = n - 1
  BY NthRankedRow
<1>3. ToSet(c) = {c[n] : n \in 1 .. m}
  BY <1>1 DEF ToSet
<1>4. ASSUME NEW r \in S PROVE \E n \in 1 .. m : c[n] = r
  <2>1. Place(S, r) \in 0 .. m - 1
    BY RowPlaces
  <2>2. Place(S, r) + 1 \in 1 .. m /\ (Place(S, r) + 1) - 1 = Place(S, r)
    BY <1>1, <2>1
  <2>3. c[Place(S, r) + 1] \in S /\ Place(S, c[Place(S, r) + 1]) = Place(S, r)
    BY <1>2, <2>2
  <2>4. c[Place(S, r) + 1] = r
    BY <2>3, RowPlaces
  <2>5. QED
    BY <2>2, <2>4
<1>5. Len(c) = m
  <2>1. m \in Nat /\ c \in [1 .. m -> S]
    BY <1>1, <1>2
  <2> HIDE DEF m
  <2>2. QED
    BY <2>1, FunctionLength
<1>6. ASSUME NEW j \in 1 .. m, NEW k \in 1 .. m, j < k PROVE Ranked(c[j], c[k])
  <2>1. /\ c[j] \in S /\ c[k] \in S
        /\ Place(S, c[j]) = j - 1 /\ Place(S, c[k]) = k - 1
    BY <1>2
  <2>2. Place(S, c[j]) < Place(S, c[k])
    BY <1>1, <1>6, <2>1
  <2>3. QED
    BY <2>1, <2>2, RowPlaces
<1>7. QED
  BY <1>1, <1>2, <1>3, <1>4, <1>5, <1>6

(***************************************************************************)
(* The theorems.                                                           *)
(***************************************************************************)
\* Rows that the AVX-512 filter compares as infinity minus infinity.
Lost(r) ==
  scan.avx512 /\ ZScore # 0 /\ r.est = Infinity /\ ZScore * r.unc >= Infinity

\* The AVX-512 scans have no such row.
FiniteOnVectors ==
  \A s \in Scans :
    s.avx512 /\ ZScore # 0 =>
      \A r \in s.rows : ~(r.est = Infinity /\ ZScore * r.unc >= Infinity)

\* The candidates are those of the reference rule, less the lost ones, in order.
Reference ==
  /\ Cardinality(scanned) >= TopK
  /\ ToSet(candidates) = {r \in Candidates(scanned, TopK, max_candidates) : ~Lost(r)}
  /\ Len(candidates) = Cardinality(ToSet(candidates))
  /\ \A j, k \in DOMAIN candidates : j < k => Ranked(candidates[j], candidates[k])

\* The inductive invariant: what the reservoir and the endpoints leave out is
\* ranked after, or lies above, what they hold.
SelectorInv ==
  /\ scan \in Scans /\ pc \in {"scan", "done"} /\ scanned \subseteq rows
  /\ Selects(rows, scanned, max_candidates, Kept(reservoir, admission, TRUE))
  /\ Smallest(scanned, TopK, smallest_uppers)
  /\ pc = "done" => Reference

LEMMA ScanFacts ==
  ASSUME scan \in Scans
  PROVE  /\ RowSet(rows) /\ TopK \in Nat \ {0} /\ max_candidates \in Nat
         /\ max_candidates = 0 \/ max_candidates >= TopK
BY ScanParameters, RowsOfScan DEF rows, TopK, max_candidates

LEMMA SelectorInit == Init => SelectorInv
<1> SUFFICES ASSUME Init PROVE SelectorInv
  OBVIOUS
<1>1. /\ scan \in Scans /\ scanned = {} /\ smallest_uppers = <<>> /\ reservoir = <<>>
      /\ admission = NoThreshold /\ pc = "scan"
  BY DEF Init
<1>2. TopK \in Nat \ {0} /\ max_candidates \in Nat
  BY <1>1, ScanFacts
<1> DEFINE s == Kept(reservoir, admission, TRUE)
<1>3. /\ s.res = <<>> /\ s.adm = NoThreshold /\ s = Kept(s.res, s.adm, TRUE)
  BY <1>1 DEF Kept
<1> HIDE DEF s
<1>4. Threshold(s.adm) /\ ~s.adm.has
  BY <1>3, ScanParameters DEF Threshold, NoThreshold
<1>5. s.res \in Seq(scanned) /\ IsInjective(s.res) /\ ToSet(s.res) = {} /\ Len(s.res) = 0
  BY <1>3 DEF IsInjective, ToSet
<1>6. Selects(rows, scanned, max_candidates, s)
  <2>1. \A r : Admit(s.adm, r)
    BY <1>4 DEF Admit
  <2>2. Sound(rows, scanned, max_candidates, s)
    BY <1>1, <1>3, <1>4, <1>5, <2>1 DEF Sound
  <2>3. max_candidates > 0 => 0 < 2 * max_candidates
    BY <1>2
  <2>4. QED
    BY <1>5, <2>2, <2>3 DEF Selects
<1>7. Smallest(scanned, TopK, smallest_uppers)
  <2> DEFINE t == <<>>
  <2>1. smallest_uppers \in Seq(Int) /\ Len(smallest_uppers) = 0
    BY <1>1
  <2>2. t \in [1 .. 0 -> scanned] /\ IsInjective(t)
    BY DEF IsInjective
  <2>3. Tops(scanned, smallest_uppers, t)
    BY <2>1, <2>2 DEF Tops
  <2> HIDE DEF t
  <2>4. \A r \in scanned \ ToSet(t) :
           Len(smallest_uppers) = TopK /\ smallest_uppers[TopK] <= Upper(r)
    BY <1>1
  <2>5. QED
    BY <1>2, <2>1, <2>3, <2>4 DEF Smallest
<1>8. QED
  BY <1>1, <1>6, <1>7 DEF SelectorInv, s

LEMMA SelectorStep == SelectorInv /\ [Next]_vars => SelectorInv'
<1> SUFFICES ASSUME SelectorInv, [Next]_vars PROVE SelectorInv'
  OBVIOUS
<1> DEFINE K == TopK
           R == max_candidates
           U == rows
           s == Kept(reservoir, admission, TRUE)
<1>1. /\ scan \in Scans /\ scanned \subseteq U /\ RowSet(U)
      /\ K \in Nat \ {0} /\ R \in Nat /\ (R = 0 \/ R >= K)
      /\ Selects(U, scanned, R, s) /\ Smallest(scanned, K, smallest_uppers)
  BY ScanFacts DEF SelectorInv
<1>2. CASE AddBlock
  <2>0. PICK n \in 1 .. scan.tile : \E block \in Blocks(n) :
          LET after == AdmitBlock(s, block)
          IN  /\ scanned' = scanned \cup Range(block)
              /\ smallest_uppers' = UpdateUppers(smallest_uppers, block)
              /\ reservoir' = after.res /\ admission' = after.adm
              /\ pc' = IF after.ok THEN "scan" ELSE "logic_error"
    BY <1>2 DEF AddBlock
  <2>1. PICK block \in Blocks(n) :
          LET after == AdmitBlock(s, block)
          IN  /\ scanned' = scanned \cup Range(block)
              /\ smallest_uppers' = UpdateUppers(smallest_uppers, block)
              /\ reservoir' = after.res /\ admission' = after.adm
              /\ pc' = IF after.ok THEN "scan" ELSE "logic_error"
    BY <2>0
  <2> DEFINE after == AdmitBlock(s, block)
             Q == scanned \cup ToSet(block)
  <2>2. block \in [1 .. n -> U \ scanned] /\ IsInjective(block)
    BY DEF Blocks
  <2>3. n \in Nat
    <3>1. scan.tile \in Nat
      BY <1>1, ScanParameters
    <3>2. QED
      BY <3>1
  <2>4. block \in Seq(U \ scanned) /\ DOMAIN block = 1 .. n
    BY <2>2, <2>3, FunctionLength
  <2>5. scanned' = Q /\ Q \subseteq U
    BY <1>1, <2>1, <2>2 DEF Range, ToSet
  <2>6. Selects(U, Q, R, after)
    <3> HIDE DEF U, s, R
    <3>1. R = max_candidates
      BY DEF R
    <3>2. QED
      BY <1>1, <2>2, <2>4, <3>1, AdmitBlockSelects
  <2>7. Smallest(Q, K, UpdateUppers(smallest_uppers, block))
    <3> HIDE DEF U, K
    <3>1. K = TopK
      BY DEF K
    <3>2. QED
      BY <1>1, <2>2, <2>4, <3>1, UpdateUppersKeeps
  <2>8. after = Kept(after.res, after.adm, TRUE) /\ after.ok = TRUE
    <3> HIDE DEF after
    <3>1. after = Kept(after.res, after.adm, TRUE)
      BY <2>6 DEF Selects, Sound
    <3>2. QED
      BY <3>1 DEF Kept
  <2>9. /\ scan' = scan /\ U' = U /\ K' = K /\ R' = R /\ pc' = "scan"
        /\ reservoir' = after.res /\ admission' = after.adm
        /\ smallest_uppers' = UpdateUppers(smallest_uppers, block)
    BY <1>2, <2>1, <2>8 DEF AddBlock, rows, TopK, max_candidates
  <2>10. s' = after
    BY <2>8, <2>9
  <2> HIDE DEF after, Q
  <2>11. Selects(U', scanned', R', s')
    BY <2>5, <2>6, <2>9, <2>10
  <2>12. Smallest(scanned', K', smallest_uppers')
    BY <2>5, <2>7, <2>9
  <2>13. QED
    BY <1>1, <2>5, <2>9, <2>11, <2>12 DEF SelectorInv
<1>3. CASE Finish
  <2> DEFINE shrunk == IF R = 0 THEN reservoir ELSE ShrinkShortlist(reservoir, R)
             theta == Last(smallest_uppers)
             kept == {r \in ToSet(shrunk) : WithinUpper(r, theta)}
             listed == [n \in 1 .. Cardinality(kept) |-> NthRanked(kept, n)]
  <2>1. /\ pc = "scan" /\ Cardinality(scanned) >= K
        /\ candidates' = listed /\ pc' = "done"
        /\ UNCHANGED <<scan, scanned, smallest_uppers, reservoir, admission>>
    BY <1>3 DEF Finish
  <2>2. RowSet(scanned) /\ Cardinality(scanned) \in Nat
    BY <1>1, PartOfRows, RowPlaces
  <2>3. ToSet(shrunk) = {r \in scanned : Shortlisted(scanned, r, R)}
    <3>1. s.res = reservoir /\ Sound(U, scanned, R, s)
      BY <1>1 DEF Selects, Kept
    <3>2. CASE R = 0
      <4>1. ToSet(reservoir) = scanned
        BY <3>1, <3>2 DEF Sound
      <4>2. QED
        BY <3>2, <4>1 DEF Shortlisted
    <3>3. CASE R # 0
      <4>1. R \in Nat \ {0} /\ shrunk = ShrinkShortlist(s.res, R)
        BY <1>1, <3>1, <3>3
      <4> HIDE DEF s, R, U, shrunk
      <4>2. ToSet(ShrinkShortlist(s.res, R)) = {r \in scanned : Shortlisted(scanned, r, R)}
        BY <1>1, <3>1, <4>1, ShortlistKept
      <4>3. QED
        BY <4>1, <4>2
    <3>4. QED
      BY <3>2, <3>3
  <2>4. \A r \in scanned : Lower(r) <= theta <=> Passes(scanned, r, K)
    <3> HIDE DEF K
    <3>1. K <= Cardinality(scanned)
      BY <1>1, <2>1, <2>2
    <3>2. QED
      BY <1>1, <2>2, <3>1, PassesAtLast
  <2> HIDE DEF theta, shrunk
  <2>5. kept = {r \in Candidates(scanned, K, R) : ~Lost(r)}
    <3>1. \A r : WithinUpper(r, theta) <=> ~Lost(r) /\ Lower(r) <= theta
      BY DEF WithinUpper, Lost
    <3>2. QED
      BY <2>3, <2>4, <3>1 DEF Candidates
  <2>6. RowSet(kept)
    <3>1. kept \subseteq scanned
      BY <2>5 DEF Candidates
    <3> HIDE DEF kept
    <3>2. QED
      BY <2>2, <3>1, PartOfRows
  <2> HIDE DEF kept
  <2>7. /\ ToSet(listed) = kept /\ Len(listed) = Cardinality(kept)
        /\ DOMAIN listed = 1 .. Cardinality(kept)
        /\ \A j, k \in 1 .. Cardinality(kept) : j < k => Ranked(listed[j], listed[k])
    BY <2>6, RankedList
  <2> HIDE DEF listed
  <2>8. /\ U' = U /\ K' = K /\ R' = R /\ s' = s
    BY <2>1 DEF rows, TopK, max_candidates
  <2>9. \A r : Lost(r)' <=> Lost(r)
    BY <2>1 DEF Lost
  <2>10. {r \in Candidates(scanned', K', R') : ~Lost(r)'} = kept
    BY <2>1, <2>5, <2>8, <2>9
  <2>11. Reference'
    BY <2>1, <2>7, <2>8, <2>10 DEF Reference
  <2>12. QED
    BY <1>1, <2>1, <2>8, <2>11 DEF SelectorInv
<1>4. CASE UNCHANGED vars
  BY <1>4 DEF SelectorInv, Reference, Lost, Selects, Sound, Smallest, vars,
              rows, TopK, max_candidates
<1>5. QED
  BY <1>2, <1>3, <1>4 DEF Next

LEMMA SelectorAlways == Spec => []SelectorInv
<1>1. QED
  BY SelectorInit, SelectorStep, PTL DEF Spec

\* The domains, and the reservoir within its allocation.
THEOREM SelectionTypeCorrect == Spec => []TypeOK
<1>1. SelectorInv => TypeOK
  <2> SUFFICES ASSUME SelectorInv PROVE TypeOK
    OBVIOUS
  <2> DEFINE s == Kept(reservoir, admission, TRUE)
  <2>1. Selects(rows, scanned, max_candidates, s) /\ s.res = reservoir
    BY DEF SelectorInv, Kept
  <2>2. reservoir \in Seq(scanned) /\ max_candidates \in Nat
        /\ (max_candidates > 0 => Len(reservoir) < 2 * max_candidates)
    BY <2>1, ScanFacts DEF SelectorInv, Selects, Sound
  <2>3. ToSet(reservoir) \subseteq scanned
    BY <2>2 DEF ToSet
  <2>4. Len(smallest_uppers) <= TopK
    BY DEF SelectorInv, Smallest
  <2>5. QED
    BY <2>2, <2>3, <2>4 DEF SelectorInv, TypeOK
<1>2. QED
  BY <1>1, SelectorAlways, PTL

\* The two logic_error checks of a partition never fire.
THEOREM PartitionsAreSound == Spec => []PartitionSound
<1>1. SelectorInv => PartitionSound
  BY DEF SelectorInv, PartitionSound
<1>2. QED
  BY <1>1, SelectorAlways, PTL

\* The admission threshold may be stale and too loose, but is never too strict.
THEOREM ThresholdNeverTooStrict == Spec => []NeverTooStrict
<1>1. SelectorInv => NeverTooStrict
  <2> SUFFICES ASSUME SelectorInv PROVE NeverTooStrict
    OBVIOUS
  <2> DEFINE s == Kept(reservoir, admission, TRUE)
             R == max_candidates
  <2>1. Sound(rows, scanned, R, s) /\ s.res = reservoir
    BY DEF SelectorInv, Kept, Selects
  <2>2. /\ IsInjective(reservoir) /\ (R = 0 => ToSet(reservoir) = scanned)
        /\ \A r \in scanned \ ToSet(reservoir) : R <= Place(scanned, r)
    BY <2>1 DEF Sound
  <2>3. RowSet(scanned) /\ R \in Nat
    BY ScanFacts, PartOfRows DEF SelectorInv
  <2> HIDE DEF R
  <2>4. \A r \in scanned : Place(scanned, r) \in Nat
    BY <2>3, RowPlaces
  <2>5. ASSUME NEW r \in scanned, Shortlisted(scanned, r, R) PROVE r \in ToSet(reservoir)
    <3>1. R = 0 \/ Place(scanned, r) < R
      BY <2>5 DEF Shortlisted, Place, Ahead
    <3>2. QED
      BY <2>2, <2>3, <2>4, <3>1
  <2>6. QED
    BY <2>2, <2>5 DEF NeverTooStrict, R
<1>2. QED
  BY <1>1, SelectorAlways, PTL

\* Whatever the scan, finish() returns what the reference rule selects, except
\* for rows whose estimate and radius are both infinite on the AVX-512 path.
THEOREM OnlyUnboundedRowsLost == Spec => [](pc = "done" => Reference)
<1>1. SelectorInv => (pc = "done" => Reference)
  BY DEF SelectorInv
<1>2. QED
  BY <1>1, SelectorAlways, PTL

\* Without the rows of infinite estimate and radius, none is lost.
LEMMA NoneLost ==
  ASSUME FiniteOnVectors, SelectorInv, NEW r \in scanned
  PROVE  ~Lost(r)
BY DEF FiniteOnVectors, SelectorInv, Lost, rows

\* finish() returns exactly what the reference rule selects, best first.
THEOREM SelectionIsExact ==
  ASSUME FiniteOnVectors
  PROVE  Spec => []SelectionExact
<1>1. SelectorInv => SelectionExact
  <2> SUFFICES ASSUME SelectorInv, pc = "done" PROVE SelectionExact
    BY DEF SelectionExact
  <2> DEFINE C == Candidates(scanned, TopK, max_candidates)
  <2>1. Reference
    BY DEF SelectorInv
  <2>2. \A r \in C : ~Lost(r)
    BY NoneLost DEF Candidates
  <2>3. ToSet(candidates) = C
    BY <2>1, <2>2 DEF Reference
  <2>4. QED
    BY <2>1, <2>3 DEF SelectionExact, Reference
<1>2. QED
  BY <1>1, SelectorAlways, PTL

\* The interval filter never leaves fewer than TopK candidates.
THEOREM SelectionIsDeepEnough ==
  ASSUME FiniteOnVectors
  PROVE  Spec => []AtLeastTopK
<1>1. SelectorInv => AtLeastTopK
  <2> SUFFICES ASSUME SelectorInv, pc = "done" PROVE Len(candidates) >= TopK
    BY DEF AtLeastTopK
  <2> DEFINE K == TopK
             R == max_candidates
             C == Candidates(scanned, K, R)
             X == {r \in scanned : Place(scanned, r) < K}
  <2>1. Reference
    BY DEF SelectorInv
  <2>2. RowSet(scanned) /\ K \in Nat \ {0} /\ R \in Nat /\ (R = 0 \/ R >= K)
    BY ScanFacts, PartOfRows DEF SelectorInv
  <2>3. \A r \in C : ~Lost(r)
    BY NoneLost DEF Candidates
  <2>4. ToSet(candidates) = C /\ Len(candidates) = Cardinality(C)
    BY <2>1, <2>3 DEF Reference
  <2> HIDE DEF K, R
  <2>5. Cardinality(scanned) \in Nat /\ Cardinality(scanned) >= K
    BY <2>1, <2>2, RowPlaces DEF Reference, K
  <2>6. K \in 0 .. Cardinality(scanned)
    BY <2>2, <2>5
  <2>7. Cardinality(X) = K
    BY <2>2, <2>6, RowPlaces
  <2>8. X \subseteq C
    BY <2>2, FirstAreCandidates DEF Candidates
  <2>9. IsFiniteSet(C)
    BY <2>2, FS_Subset DEF Candidates, RowSet
  <2> HIDE DEF X, C
  <2>10. Cardinality(X) <= Cardinality(C) /\ Cardinality(C) \in Nat
    BY <2>8, <2>9, FS_Subset, FS_CardinalityType
  <2>11. QED
    BY <2>2, <2>4, <2>7, <2>10 DEF K
<1>2. QED
  BY <1>1, SelectorAlways, PTL
=============================================================================

---------------------------- MODULE CodePath_proofs ---------------------------
(***************************************************************************)
(* What is encoded is what is read, for every number of coordinates and    *)
(* groups, every tile, training set and vector and however many updates.   *)
(*                                                                         *)
(* The inductive invariant CodeInv says of the quantizer that planning     *)
(* keeps capacities that add up, and that a trained layout is the one      *)
(* train makes and read makes again; of the list, that every lane of its   *)
(* tiles is the code of its row or empty.  The chapters before it follow   *)
(* the code: the water level, the assignment of coordinates to groups, the *)
(* capacities, the buckets and the checks of them, the codes and tables;   *)
(* the tiles, the three updates of them, the kernels; the metadata bytes.  *)
(***************************************************************************)
EXTENDS CodePath, OrderLemmas, SequenceTheorems

(***************************************************************************)
(* Sorting by a key.                                                       *)
(***************************************************************************)
\* The numbers S sorted by key: each once, in the order of the keys, equal keys
\* in the order of the numbers.
LEMMA SortedOrder ==
  ASSUME NEW S, IsFiniteSet(S), S \subseteq Int, NEW key, \A x \in S : key[x] \in Int
  PROVE  /\ Cardinality(S) \in Nat
         /\ \A i \in 1 .. Cardinality(S) : Sorted(S, key, i) \in S
         /\ \A i, j \in 1 .. Cardinality(S) :
              i < j => /\ key[Sorted(S, key, i)] <= key[Sorted(S, key, j)]
                       /\ key[Sorted(S, key, i)] = key[Sorted(S, key, j)]
                            => Sorted(S, key, i) < Sorted(S, key, j)
         /\ \A i, j \in 1 .. Cardinality(S) :
              Sorted(S, key, i) = Sorted(S, key, j) => i = j
         /\ \A x \in S : \E i \in 1 .. Cardinality(S) : Sorted(S, key, i) = x
<1> DEFINE N == Cardinality(S)
           R == {r \in S \X S : \/ key[r[1]] < key[r[2]]
                                \/ key[r[1]] = key[r[2]] /\ r[1] < r[2]}
           before(x) == {y \in S : \/ key[y] < key[x]
                                   \/ key[y] = key[x] /\ y < x}
<1>1. \A x, y \in S : <<x, y>> \in R <=> \/ key[x] < key[y]
                                         \/ key[x] = key[y] /\ x < y
  OBVIOUS
<1>2. \A x \in S : Rank(S, R, x) = Cardinality(before(x))
  <2> TAKE x \in S
  <2>1. {y \in S : <<y, x>> \in R} = before(x)
    BY <1>1
  <2> QED
    BY <2>1 DEF Rank
<1> HIDE DEF R
<1>3. /\ \A x \in S : <<x, x>> \notin R
      /\ \A x, y, z \in S : <<x, y>> \in R /\ <<y, z>> \in R => <<x, z>> \in R
      /\ \A x, y \in S : x # y => <<x, y>> \in R \/ <<y, x>> \in R
  BY <1>1
<1>4. /\ N \in Nat
      /\ \A x \in S : Rank(S, R, x) \in 0 .. N - 1
      /\ \A x, y \in S : <<x, y>> \in R <=> Rank(S, R, x) < Rank(S, R, y)
      /\ \A x, y \in S : Rank(S, R, x) = Rank(S, R, y) => x = y
      /\ \A n \in 0 .. N - 1 : \E x \in S : Rank(S, R, x) = n
  BY <1>3, Ranks
<1> HIDE DEF N
<1>5. \A i \in 1 .. N : Sorted(S, key, i) \in S /\ Rank(S, R, Sorted(S, key, i)) = i - 1
  <2> TAKE i \in 1 .. N
  <2>1. Sorted(S, key, i) = CHOOSE x \in S : Cardinality(before(x)) = i - 1
    BY DEF Sorted
  <2> HIDE DEF before
  <2>2. i - 1 \in 0 .. N - 1
    BY <1>4
  <2>3. \E x \in S : Cardinality(before(x)) = i - 1
    BY <1>2, <1>4, <2>2
  <2> QED
    BY <1>2, <2>1, <2>3
<1>6. \A x \in S : \E i \in 1 .. N : Sorted(S, key, i) = x
  <2> TAKE x \in S
  <2>1. Rank(S, R, x) + 1 \in 1 .. N
    BY <1>4
  <2>2. Rank(S, R, Sorted(S, key, Rank(S, R, x) + 1)) = Rank(S, R, x)
    BY <1>4, <1>5, <2>1
  <2> QED
    BY <1>4, <1>5, <2>1, <2>2
<1>7. \A i, j \in 1 .. N : Sorted(S, key, i) = Sorted(S, key, j) => i = j
  BY <1>4, <1>5
<1>8. ASSUME NEW i \in 1 .. N, NEW j \in 1 .. N, i < j
      PROVE  /\ key[Sorted(S, key, i)] <= key[Sorted(S, key, j)]
             /\ key[Sorted(S, key, i)] = key[Sorted(S, key, j)]
                  => Sorted(S, key, i) < Sorted(S, key, j)
  <2> DEFINE x == Sorted(S, key, i)
             y == Sorted(S, key, j)
  <2>1. /\ x \in S /\ Rank(S, R, x) = i - 1
        /\ y \in S /\ Rank(S, R, y) = j - 1
    BY <1>5
  <2> HIDE DEF x, y
  <2>2. Rank(S, R, x) < Rank(S, R, y)
    BY <1>4, <1>8, <2>1
  <2>3. <<x, y>> \in R
    BY <1>4, <2>1, <2>2
  <2>4. \/ key[x] < key[y]
        \/ key[x] = key[y] /\ x < y
    BY <1>1, <2>1, <2>3
  <2>5. key[x] \in Int /\ key[y] \in Int
    BY <2>1
  <2>6. key[x] <= key[y] /\ (key[x] = key[y] => x < y)
    BY <2>4, <2>5
  <2> QED
    BY <2>6 DEF x, y
<1> QED
  BY <1>4, <1>5, <1>6, <1>7, <1>8 DEF N

\* Sorting a sequence of numbers permutes it.
LEMMA AscendingOrder ==
  ASSUME NEW n \in Nat, NEW s \in [1 .. n -> Int]
  PROVE  \E p \in [1 .. n -> 1 .. n] :
           /\ \A i, j \in 1 .. n : p[i] = p[j] => i = j
           /\ \A k \in 1 .. n : \E i \in 1 .. n : p[i] = k
           /\ Ascending(s) = [i \in 1 .. n |-> s[p[i]]]
           /\ \A i, j \in 1 .. n : i < j => s[p[i]] <= s[p[j]]
<1> DEFINE p == [i \in 1 .. n |-> Sorted(1 .. n, s, i)]
<1> DEFINE T == 1 .. n
<1>1. IsFiniteSet(T) /\ Cardinality(T) = n /\ T \subseteq Int
  BY FS_Interval
<1>2. \A x \in T : s[x] \in Int
  OBVIOUS
<1> HIDE DEF T
<1>2a. /\ \A i \in 1 .. n : Sorted(T, s, i) \in T
       /\ \A i, j \in 1 .. n : i < j => s[Sorted(T, s, i)] <= s[Sorted(T, s, j)]
       /\ \A i, j \in 1 .. n : Sorted(T, s, i) = Sorted(T, s, j) => i = j
       /\ \A x \in T : \E i \in 1 .. n : Sorted(T, s, i) = x
  BY <1>1, <1>2, SortedOrder
<1>3. /\ \A i \in 1 .. n : Sorted(1 .. n, s, i) \in 1 .. n
      /\ \A i, j \in 1 .. n :
           i < j => s[Sorted(1 .. n, s, i)] <= s[Sorted(1 .. n, s, j)]
      /\ \A i, j \in 1 .. n :
           Sorted(1 .. n, s, i) = Sorted(1 .. n, s, j) => i = j
      /\ \A x \in 1 .. n : \E i \in 1 .. n : Sorted(1 .. n, s, i) = x
  BY <1>2a DEF T
<1>4. p \in [1 .. n -> 1 .. n]
  BY <1>3
<1>5. Ascending(s) = [i \in 1 .. n |-> s[p[i]]]
  BY DEF Ascending
<1>6. \A i, j \in 1 .. n : i < j => s[p[i]] <= s[p[j]]
  BY <1>3
<1>7. \A i, j \in 1 .. n : p[i] = p[j] => i = j
  BY <1>3
<1>8. \A k \in 1 .. n : \E i \in 1 .. n : p[i] = k
  BY <1>3
<1> HIDE DEF p
<1> QED
  BY <1>4, <1>5, <1>6, <1>7, <1>8

(***************************************************************************)
(* The water level.                                                        *)
(***************************************************************************)
\* The coordinates are finitely many, and so are the bits of a code.
LEMMA DimsFinite ==
  /\ IsFiniteSet(Dims) /\ Cardinality(Dims) = D /\ Dims \subseteq Int
  /\ D \in Nat \ {0} /\ M \in Nat \ {0} /\ M * Target \in Nat \ {0}
<1>1. D \in Nat \ {0} /\ M \in Nat \ {0} /\ Unit \in Nat \ {0}
  BY LayoutAssumption
<1>2. IsFiniteSet(0 .. D - 1) /\ Cardinality(0 .. D - 1) = D
  <2>1. 0 \in Int /\ D - 1 \in Int
    BY <1>1
  <2> QED
    BY <1>1, <2>1, FS_Interval
<1>3. Target \in Nat \ {0}
  BY <1>1 DEF Target
<1>4. M * Target \in Nat \ {0}
  BY <1>1, <1>3
<1> QED
  BY <1>1, <1>2, <1>4 DEF Dims

\* A sum over all coordinates.
LEMMA SumOverDims ==
  ASSUME NEW f \in [Dims -> Int]
  PROVE  /\ Numbers(f, Dims) /\ SumFunction(f) = SumFunctionOnSet(f, Dims)
         /\ SumFunction(f) \in Int
<1>1. Numbers(f, Dims)
  BY DimsFinite DEF Numbers
<1>2. SumFunction(f) = SumFunctionOnSet(f, Dims)
  BY DEF SumFunction
<1> QED
  BY <1>1, <1>2, SumType

\* The lower the level, the more stands above it.
LEMMA AboveType ==
  ASSUME NEW h \in [Dims -> Int], NEW x \in Int
  PROVE  Above(h, x) \in [Dims -> Nat] /\ Above(h, x) \in [Dims -> Int]
BY DEF Above

\* The higher the level, the fewer bits stand above it.
LEMMA AboveFalls ==
  ASSUME NEW h \in [Dims -> Int], NEW x \in Int, NEW y \in Int, x <= y
  PROVE  SumFunction(Above(h, y)) <= SumFunction(Above(h, x))
<1>1. \A j \in Dims : Above(h, y)[j] <= Above(h, x)[j]
  <2> TAKE j \in Dims
  <2>1. h[j] \in Int
    OBVIOUS
  <2> QED
    BY <2>1 DEF Above
<1>2. Above(h, x) \in [Dims -> Int] /\ Above(h, y) \in [Dims -> Int]
  BY AboveType
<1> QED
  BY <1>1, <1>2, SumOverDims, SumBound

\* Lowering the level through coordinates A that reach it, with no other
\* coordinate above the new level, frees as many bits from each of them.
LEMMA AboveLowered ==
  ASSUME NEW h \in [Dims -> Int], NEW x \in Int, NEW level \in Int, x <= level,
         NEW A \in SUBSET Dims, \A j \in A : h[j] >= level,
         \A j \in Dims \ A : h[j] <= x
  PROVE  /\ Cardinality(A) \in Nat
         /\ SumFunction(Above(h, x))
              = SumFunction(Above(h, level)) + (level - x) * Cardinality(A)
<1> DEFINE d == [j \in Dims |-> IF j \in A THEN level - x ELSE 0]
           e == Above(h, level)
           f == Above(h, x)
<1>1. /\ e \in [Dims -> Int] /\ f \in [Dims -> Int] /\ d \in [Dims -> Int]
      /\ level - x \in Int /\ 0 \in Int
  BY AboveType
<1>2. \A j \in Dims : f[j] = e[j] + d[j]
  <2> TAKE j \in Dims
  <2>1. h[j] \in Int
    OBVIOUS
  <2> QED
    BY <2>1 DEF Above
<1>3. IsFiniteSet(A) /\ IsFiniteSet(Dims \ A) /\ A \cup (Dims \ A) = Dims
  BY DimsFinite, FS_Subset
<1>4. /\ \A j \in A : d[j] = level - x
      /\ \A j \in Dims \ A : d[j] = 0
  OBVIOUS
<1> HIDE DEF d, e, f
<1>5. SumFunctionOnSet(f, Dims)
        = SumFunctionOnSet(e, Dims) + SumFunctionOnSet(d, Dims)
  BY <1>1, <1>2, SumOverDims, SumPlus
<1>6. Numbers(d, A) /\ SumFunctionOnSet(d, A) = (level - x) * Cardinality(A)
  BY <1>1, <1>3, <1>4, SumConstant
<1>7. /\ Numbers(d, Dims \ A)
      /\ SumFunctionOnSet(d, Dims \ A) = 0 * Cardinality(Dims \ A)
  BY <1>1, <1>3, <1>4, SumConstant
<1>8. SumFunctionOnSet(d, Dims)
        = SumFunctionOnSet(d, A) + SumFunctionOnSet(d, Dims \ A)
  <2>1. A \cap (Dims \ A) = {}
    OBVIOUS
  <2> QED
    BY <1>3, <1>6, <1>7, <2>1, SumUnion
<1>9. Cardinality(A) \in Nat /\ Cardinality(Dims \ A) \in Nat
  BY <1>3, FS_CardinalityType
<1>10. SumFunctionOnSet(d, Dims) = (level - x) * Cardinality(A)
  BY <1>1, <1>6, <1>7, <1>8, <1>9
<1>11. SumFunction(f) = SumFunctionOnSet(f, Dims)
       /\ SumFunction(e) = SumFunctionOnSet(e, Dims)
  BY <1>1, SumOverDims
<1> QED
  BY <1>5, <1>9, <1>10, <1>11 DEF e, f

\* What a step of the water-filling is given and gives.
Water == [level: Int, remaining: Int, active: Nat \ {0}, spent: BOOLEAN]

\* A step of the water-filling keeps the types of its four numbers.
LEMMA LowerType ==
  ASSUME NEW w \in Water, NEW x \in Int
  PROVE  Lower(w, x) \in Water
<1> DEFINE cost == w.active * (w.level - x)
<1>1. /\ w.level \in Int /\ w.remaining \in Int /\ w.active \in Nat \ {0}
      /\ w.spent \in BOOLEAN
  BY DEF Water
<1>2. w.remaining \div w.active \in Int /\ cost \in Int
  BY <1>1
<1>3. CASE w.spent
  BY <1>3 DEF Lower
<1>4. CASE ~w.spent /\ w.remaining >= cost
  <2>1. Lower(w, x) = [w EXCEPT !.level = x, !.remaining = @ - cost,
                                !.active = @ + 1]
    BY <1>4 DEF Lower
  <2> DEFINE c == w.remaining - cost
  <2>2. c \in Int /\ w.active + 1 \in Nat \ {0}
    BY <1>1, <1>2
  <2> HIDE DEF cost
  <2>3. Lower(w, x) = [w EXCEPT !.level = x, !.remaining = c,
                                !.active = w.active + 1]
    BY <2>1 DEF Water
  <2> HIDE DEF c
  <2> QED
    BY <2>2, <2>3 DEF Water
<1>5. CASE ~w.spent /\ ~(w.remaining >= cost)
  <2>1. Lower(w, x) = [w EXCEPT !.level = @ - w.remaining \div w.active,
                                !.remaining = 0, !.spent = TRUE]
    BY <1>5 DEF Lower
  <2> DEFINE y == w.remaining \div w.active
             z == w.level - y
  <2>2. y \in Int /\ z \in Int /\ 0 \in Int
    BY <1>1, <1>2
  <2>3. Lower(w, x) = [w EXCEPT !.level = z, !.remaining = 0, !.spent = TRUE]
    BY <2>1 DEF Water
  <2> HIDE DEF y, z
  <2> QED
    BY <2>2, <2>3 DEF Water
<1> QED
  BY <1>1, <1>3, <1>4, <1>5

\* The fold of the water level goes height by height.
LEMMA LowerFold ==
  ASSUME NEW N \in Nat, NEW s \in [1 .. N -> Int], NEW b \in Water
  PROVE  \E f : /\ f[0] = b
                /\ \A n \in 1 .. N : f[n] = Lower(f[n - 1], s[n])
                /\ FoldLeft(Lower, b, s) = f[N]
<1> DEFINE P == 1 .. N
           F == [z \in P \X Water |-> Lower(z[2], s[z[1]])]
           Step(it) == [t \in SUBSET P |->
                          IF t = {} THEN b
                          ELSE Lower(it[t \ {Max(t)}], s[Max(t)])]
           iter == CHOOSE it : it = Step(it)
<1>1. DOMAIN s = P
  OBVIOUS
<1>2. FoldLeft(Lower, b, s) = iter[P]
  BY <1>1 DEF FoldLeft, MapThenFoldSet
<1>3. \A k \in P : \A v \in Water : F[<<k, v>>] = Lower(v, s[k]) /\ F[<<k, v>>] \in Water
  BY LowerType
<1> HIDE DEF F
<1>4. Closed(P, Water, F)
  BY <1>3 DEF Closed
<1>5. PICK g : FoldsLeft(P, Water, b, F, g)
  <2>1. P = 1 .. N
    OBVIOUS
  <2> HIDE DEF P
  <2> QED
    BY <1>4, <2>1, FoldPositions
<1>6. \A t \in SUBSET P : t # {} => g[t] = Lower(g[t \ {Max(t)}], s[Max(t)])
  BY <1>3, <1>5, MaxPosition DEF FoldsLeft
<1>7. g = Step(g)
  BY <1>5, <1>6 DEF FoldsLeft
<1>8. iter = Step(iter)
  BY <1>7
<1> HIDE DEF iter
<1>9. iter[{}] = b /\ \A t \in SUBSET P : t # {} =>
                        iter[t] = Lower(iter[t \ {Max(t)}], s[Max(t)])
  BY <1>8
<1> DEFINE f == [n \in 0 .. N |-> iter[1 .. n]]
<1>10. f[0] = b
  <2>1. 1 .. 0 = {} /\ 0 \in 0 .. N
    OBVIOUS
  <2> QED
    BY <1>9, <2>1
<1>11. \A n \in 1 .. N : f[n] = Lower(f[n - 1], s[n])
  <2> TAKE n \in 1 .. N
  <2>1. 1 .. n \in SUBSET P /\ n \in 0 .. N /\ n - 1 \in 0 .. N
    OBVIOUS
  <2>2. Max(1 .. n) = n /\ (1 .. n) \ {n} = 1 .. n - 1 /\ 1 .. n # {}
    <3>1. n \in Nat /\ n # 0
      OBVIOUS
    <3> QED
      BY <3>1, MaxOfPrefix
  <2> HIDE DEF P
  <2> QED
    BY <1>9, <2>1, <2>2
<1>12. f[N] = iter[P]
  OBVIOUS
<1> QED
  BY <1>2, <1>10, <1>11, <1>12

\* The image of a finite set under a function that repeats nothing.
LEMMA ImageSize ==
  ASSUME NEW A, IsFiniteSet(A), NEW e, \A x, y \in A : e[x] = e[y] => x = y
  PROVE  /\ IsFiniteSet({e[x] : x \in A})
         /\ Cardinality({e[x] : x \in A}) = Cardinality(A)
<1> DEFINE T == {e[x] : x \in A}
           f == [x \in A |-> e[x]]
<1>1. \A z \in T : \E x \in A : f[x] = z
  OBVIOUS
<1>2. f \in [A -> T]
  OBVIOUS
<1>3. \A x, y \in A : f[x] = f[y] => x = y
  OBVIOUS
<1> HIDE DEF f, T
<1>4. f \in Bijection(A, T)
  BY <1>1, <1>2, <1>3 DEF Bijection, Injection, Surjection, IsInjective
<1>5. ExistsBijection(A, T)
  BY <1>4 DEF ExistsBijection
<1> QED
  BY <1>5, FS_Bijection DEF T

\* Descending lists every coordinate once, the largest key first.
LEMMA DescendingOrder ==
  ASSUME NEW key \in [Dims -> Int]
  PROVE  /\ Descending(key) \in [1 .. D -> Dims]
         /\ \A i, j \in 1 .. D : i < j =>
              key[Descending(key)[j]] <= key[Descending(key)[i]]
         /\ \A i, j \in 1 .. D : Descending(key)[i] = Descending(key)[j] => i = j
         /\ \A x \in Dims : \E i \in 1 .. D : Descending(key)[i] = x
<1> DEFINE k == [j \in Dims |-> -key[j]]
           o == Descending(key)
<1>1. \A x \in Dims : k[x] \in Int /\ k[x] = -key[x] /\ key[x] \in Int
  OBVIOUS
<1>2. o = [i \in 1 .. D |-> Sorted(Dims, k, i)]
  BY DEF Descending
<1> HIDE DEF k
<1>3. /\ \A i \in 1 .. D : Sorted(Dims, k, i) \in Dims
      /\ \A i, j \in 1 .. D :
           i < j => k[Sorted(Dims, k, i)] <= k[Sorted(Dims, k, j)]
      /\ \A i, j \in 1 .. D : Sorted(Dims, k, i) = Sorted(Dims, k, j) => i = j
      /\ \A x \in Dims : \E i \in 1 .. D : Sorted(Dims, k, i) = x
  BY <1>1, DimsFinite, SortedOrder
<1> HIDE DEF o
<1>4. o \in [1 .. D -> Dims] /\ \A i \in 1 .. D : o[i] = Sorted(Dims, k, i)
  BY <1>2, <1>3
<1>5. ASSUME NEW i \in 1 .. D, NEW j \in 1 .. D, i < j
      PROVE  key[o[j]] <= key[o[i]]
  <2>1. k[o[i]] <= k[o[j]] /\ o[i] \in Dims /\ o[j] \in Dims
    BY <1>3, <1>4, <1>5
  <2> QED
    BY <1>1, <2>1
<1>6. \A i, j \in 1 .. D : o[i] = o[j] => i = j
  BY <1>3, <1>4
<1>7. \A x \in Dims : \E i \in 1 .. D : o[i] = x
  BY <1>3, <1>4
<1> QED
  BY <1>4, <1>5, <1>6, <1>7 DEF o

\* The fold finds the level that leaves the bits of a code above it.
LEMMA WaterFilled ==
  ASSUME NEW h \in [Dims -> Int], NEW L \in Int,
         SumFunction(Above(h, L)) = M * Target
  PROVE  WaterLevel(h) = L
<1> DEFINE o == Descending(h)
           N == D - 1
           s == [i \in 1 .. N |-> h[o[i + 1]]]
           b == [level |-> h[o[1]], remaining |-> M * Target, active |-> 1,
                 spent |-> FALSE]
           over(x) == SumFunction(Above(h, x))
           A(n) == {o[i] : i \in 1 .. n}
<1>0. D \in Nat \ {0} /\ M * Target \in Nat \ {0} /\ N \in Nat
  BY DimsFinite
<1>1. /\ o \in [1 .. D -> Dims]
      /\ \A i, j \in 1 .. D : i < j => h[o[j]] <= h[o[i]]
      /\ \A i, j \in 1 .. D : o[i] = o[j] => i = j
      /\ \A x \in Dims : \E i \in 1 .. D : o[i] = x
  BY DescendingOrder
<1> HIDE DEF o
<1>2. \A i \in 1 .. D : h[o[i]] \in Int
  BY <1>1
<1>3. s \in [1 .. N -> Int] /\ b \in Water
  <2>1. \A i \in 1 .. N : i + 1 \in 1 .. D
    BY <1>0
  <2>2. 1 \in 1 .. D
    BY <1>0
  <2> QED
    BY <1>0, <1>2, <2>1, <2>2 DEF Water
<1>4. PICK f : /\ f[0] = b
               /\ \A n \in 1 .. N : f[n] = Lower(f[n - 1], s[n])
               /\ FoldLeft(Lower, b, s) = f[N]
  <2> HIDE DEF s, b
  <2> QED
    BY <1>0, <1>3, LowerFold
<1>5. \A x \in Int : over(x) \in Int
  BY AboveType, SumOverDims
<1>6. \A x, y \in Int : x <= y => over(y) <= over(x)
  BY AboveFalls
<1> HIDE DEF over
<1>7. ASSUME NEW n \in 1 .. D
      PROVE  /\ A(n) \in SUBSET Dims /\ Cardinality(A(n)) = n
             /\ \A j \in A(n) : h[j] >= h[o[n]]
             /\ \A j \in Dims \ A(n) : n < D /\ h[j] <= h[o[n + 1]]
  <2>1. 1 .. n \subseteq 1 .. D /\ n \in Nat
    BY <1>0
  <2>2. IsFiniteSet(1 .. n) /\ Cardinality(1 .. n) = n
    BY <2>1, FS_Interval
  <2>3. Cardinality(A(n)) = n /\ A(n) \in SUBSET Dims
    <3>1. \A i, j \in 1 .. n : o[i] = o[j] => i = j
      BY <1>1, <2>1
    <3>2. Cardinality({o[i] : i \in 1 .. n}) = Cardinality(1 .. n)
      BY <2>2, <3>1, ImageSize
    <3>3. \A i \in 1 .. n : o[i] \in Dims
      BY <1>1, <2>1
    <3> QED
      BY <2>2, <3>2, <3>3
  <2>4. ASSUME NEW i \in 1 .. n PROVE h[o[i]] >= h[o[n]]
    <3>1. i \in 1 .. D /\ n \in 1 .. D /\ (i < n \/ i = n)
      BY <1>0
    <3>2. h[o[i]] \in Int /\ h[o[n]] \in Int
      BY <1>2, <3>1
    <3>3. CASE i < n
      <4>1. h[o[n]] <= h[o[i]]
        BY <1>1, <3>1, <3>3
      <4> QED
        BY <3>2, <4>1
    <3>4. CASE i = n
      BY <3>2, <3>4
    <3> QED
      BY <3>1, <3>3, <3>4
  <2>5. ASSUME NEW j \in Dims \ A(n) PROVE n < D /\ h[j] <= h[o[n + 1]]
    <3>1. PICK i \in 1 .. D : o[i] = j
      BY <1>1
    <3>2. i \notin 1 .. n
      BY <3>1
    <3>3. n < D /\ n + 1 \in 1 .. D /\ (n + 1 < i \/ n + 1 = i)
      BY <1>0, <3>2
    <3>4. h[o[i]] \in Int /\ h[o[n + 1]] \in Int
      BY <1>2, <3>3
    <3>5. CASE n + 1 < i
      BY <1>1, <3>1, <3>3, <3>5
    <3>6. CASE n + 1 = i
      BY <3>1, <3>3, <3>4, <3>6
    <3> QED
      BY <3>3, <3>5, <3>6
  <2> QED
    BY <2>3, <2>4, <2>5
<1> HIDE DEF A

\* Between two heights next to each other the bits above fall evenly.
<1>8. ASSUME NEW n \in 1 .. D, NEW x \in Int, x <= h[o[n]],
             n < D => h[o[n + 1]] <= x
      PROVE  over(x) = over(h[o[n]]) + (h[o[n]] - x) * n
  <2> DEFINE level == h[o[n]]
  <2>1. level \in Int
    BY <1>2
  <2>2. \A j \in Dims \ A(n) : h[j] <= x
    <3> TAKE j \in Dims \ A(n)
    <3>1. n < D /\ h[j] <= h[o[n + 1]]
      BY <1>7
    <3>2. h[o[n + 1]] <= x
      BY <1>8, <3>1
    <3>3. h[j] \in Int /\ h[o[n + 1]] \in Int
      <4>1. n + 1 \in 1 .. D
        BY <1>0, <3>1
      <4> QED
        BY <1>2, <4>1
    <3> QED
      BY <3>1, <3>2, <3>3
  <2>3. A(n) \in SUBSET Dims /\ Cardinality(A(n)) = n /\ \A j \in A(n) : h[j] >= level
    BY <1>7
  <2>4. x <= level
    BY <1>8
  <2> HIDE DEF level
  <2>5. over(x) = over(level) + (level - x) * n
    BY <2>1, <2>2, <2>3, <2>4, AboveLowered DEF over
  <2> QED
    BY <2>5 DEF level

\* Nothing stands above the greatest height.
<1>9. over(h[o[1]]) = 0
  <2>1. 1 \in 1 .. D
    BY <1>0
  <2>2. \A j \in Dims : h[j] <= h[o[1]]
    <3> TAKE j \in Dims
    <3>1. PICK i \in 1 .. D : o[i] = j
      BY <1>1
    <3>2. CASE i = 1
      BY <3>1, <3>2
    <3>3. CASE i # 1
      <4>1. 1 < i
        BY <1>0, <3>3
      <4> QED
        BY <1>1, <2>1, <3>1, <4>1
    <3> QED
      BY <3>2, <3>3
  <2> DEFINE e == Above(h, h[o[1]])
  <2>3. \A j \in Dims : e[j] = 0
    <3> TAKE j \in Dims
    <3>1. h[j] <= h[o[1]] /\ h[j] \in Int /\ h[o[1]] \in Int
      BY <1>2, <2>1, <2>2
    <3> QED
      BY <3>1 DEF Above
  <2>4. e \in [Dims -> Int]
    BY <1>2, <2>1, AboveType
  <2> HIDE DEF e
  <2>5. SumFunctionOnSet(e, Dims) = 0 * Cardinality(Dims)
    <3>1. 0 \in Int /\ IsFiniteSet(Dims)
      BY DimsFinite
    <3> QED
      BY <2>3, <3>1, SumConstant
  <2>6. SumFunction(e) = 0
    BY <2>4, <2>5, DimsFinite, SumOverDims
  <2> QED
    BY <2>6 DEF e, over
<1>10. over(L) = M * Target
  BY DEF over
<1> DEFINE I(n) == /\ f[n] \in Water
                   /\ IF f[n].spent THEN f[n].level = L /\ f[n].remaining = 0
                      ELSE /\ f[n].level = h[o[n + 1]] /\ f[n].active = n + 1
                           /\ L <= f[n].level
                           /\ f[n].remaining = M * Target - over(f[n].level)
           G == {n \in 0 .. N : I(n)}
<1>11. I(0)
  <2>1. f[0] \in Water /\ f[0].level = h[o[1]] /\ f[0].active = 1
        /\ f[0].remaining = M * Target /\ f[0].spent = FALSE
    BY <1>3, <1>4
  <2>2. h[o[1]] \in Int
    <3>1. 1 \in 1 .. D
      BY <1>0
    <3> QED
      BY <1>2, <3>1
  <2>3. L <= h[o[1]]
    <3> SUFFICES ASSUME ~(L <= h[o[1]]) PROVE FALSE
      OBVIOUS
    <3>1. over(L) <= over(h[o[1]])
      BY <1>6, <2>2
    <3> QED
      BY <1>0, <1>9, <1>10, <3>1
  <2> QED
    BY <1>0, <1>9, <2>1, <2>3
<1>12. ASSUME NEW n \in 0 .. N - 1, I(n) PROVE I(n + 1)
  <2> DEFINE w == f[n]
             x == s[n + 1]
             cost == w.active * (w.level - x)
  <2>1. n + 1 \in 1 .. N /\ (n + 1) - 1 = n /\ n + 1 \in 1 .. D /\ n + 2 \in 1 .. D
        /\ n + 1 < D /\ (n + 1) + 1 = n + 2
    BY <1>0
  <2>2. f[n + 1] = Lower(w, x) /\ x = h[o[n + 2]] /\ x \in Int /\ w \in Water
    <3>1. f[n + 1] = Lower(f[n], s[n + 1])
      BY <1>4, <2>1
    <3>2. s[n + 1] = h[o[n + 2]]
      BY <2>1
    <3> QED
      BY <1>2, <1>12, <2>1, <3>1, <3>2
  <2>3. f[n + 1] \in Water
    BY <2>2, LowerType
  <2> HIDE DEF s
  <2>4. CASE w.spent
    <3>1. f[n + 1] = w
      BY <2>2, <2>4 DEF Lower
    <3> QED
      BY <1>12, <2>4, <3>1
  <2>5. CASE ~w.spent
    <3> DEFINE v == w.level
    <3>1. /\ v = h[o[n + 1]] /\ w.active = n + 1 /\ L <= v
          /\ w.remaining = M * Target - over(v) /\ v \in Int
      BY <1>12, <2>2, <2>5 DEF Water
    <3>2. x <= v
      <4>1. n + 1 < n + 2
        BY <2>1
      <4> QED
        BY <1>1, <2>1, <2>2, <3>1, <4>1
    <3>3. over(x) = over(v) + (v - x) * (n + 1)
      <4>1. x <= h[o[n + 1]] /\ h[o[(n + 1) + 1]] <= x
        BY <2>1, <2>2, <3>1, <3>2
      <4> QED
        BY <1>8, <2>1, <2>2, <3>1, <4>1
    <3>4. cost = over(x) - over(v)
      <4>1. cost = (n + 1) * (v - x)
        BY <3>1
      <4>2. over(x) \in Int /\ over(v) \in Int /\ (v - x) * (n + 1) \in Int
        BY <1>5, <2>1, <2>2, <3>1
      <4>3. (n + 1) * (v - x) = (v - x) * (n + 1)
        BY <2>1, <2>2, <3>1
      <4> QED
        BY <3>3, <4>1, <4>2, <4>3
    <3> HIDE DEF cost, v, w, x
    <3>5. w.remaining >= cost <=> over(x) <= over(L)
      BY <1>0, <1>5, <1>10, <2>2, <3>1, <3>4
    <3>6. CASE w.remaining >= cost
      <4>1. L <= x
        <5> SUFFICES ASSUME ~(L <= x) PROVE FALSE
          OBVIOUS
        <5>1. over(L) = over(v) + (v - L) * (n + 1)
          <6>1. h[o[(n + 1) + 1]] <= L /\ L <= h[o[n + 1]]
            BY <2>1, <2>2, <3>1
          <6> QED
            BY <1>8, <2>1, <3>1, <6>1
        <5>2. (v - x) * (n + 1) > (v - L) * (n + 1)
          <6>1. v - x > v - L /\ v - x \in Int /\ v - L \in Int /\ n + 1 \in Nat \ {0}
            BY <2>1, <2>2, <3>1
          <6> QED
            BY <6>1
        <5>3. /\ over(L) \in Int /\ over(x) \in Int /\ over(v) \in Int
              /\ (v - x) * (n + 1) \in Int /\ (v - L) * (n + 1) \in Int
          BY <1>5, <2>1, <2>2, <3>1
        <5> QED
          BY <3>3, <3>5, <3>6, <5>1, <5>2, <5>3
      <4>2. /\ f[n + 1].level = x /\ f[n + 1].remaining = w.remaining - cost
            /\ f[n + 1].active = w.active + 1 /\ f[n + 1].spent = FALSE
        <5>1. f[n + 1] = [w EXCEPT !.level = x, !.remaining = @ - cost,
                                   !.active = @ + 1]
          BY <2>2, <2>5, <3>6 DEF Lower, cost
        <5> QED
          BY <2>2, <2>5, <5>1 DEF Water
      <4>3. w.remaining - cost = M * Target - over(x)
        BY <1>0, <1>5, <2>2, <3>1, <3>4
      <4> QED
        BY <2>1, <2>2, <2>3, <3>1, <4>1, <4>2, <4>3
    <3>7. CASE ~(w.remaining >= cost)
      <4>1. x <= L
        <5> SUFFICES ASSUME ~(x <= L) PROVE FALSE
          OBVIOUS
        <5>1. over(x) <= over(L)
          BY <1>6, <2>2
        <5> QED
          BY <3>5, <3>7, <5>1
      <4>2. over(L) = over(v) + (v - L) * (n + 1)
        <5>1. h[o[(n + 1) + 1]] <= L /\ L <= h[o[n + 1]]
          BY <2>1, <2>2, <3>1, <4>1
        <5> QED
          BY <1>8, <2>1, <3>1, <5>1
      <4>3. w.remaining = (v - L) * (n + 1)
        BY <1>0, <1>5, <1>10, <3>1, <4>2
      <4>4. w.remaining \div w.active = v - L
        <5>1. v - L \in Nat /\ n + 1 \in Nat \ {0}
          BY <2>1, <3>1
        <5> DEFINE q == v - L
                   k == n + 1
        <5>2. (q * k + 0) \div k = q
          <6> HIDE DEF q, k
          <6>1. q \in Nat /\ k \in Nat \ {0}
            BY <5>1 DEF q, k
          <6> QED
            BY <6>1
        <5>3. q * k + 0 = w.remaining /\ k = w.active
          BY <3>1, <4>3, <5>1
        <5> HIDE DEF q, k
        <5>4. w.remaining \div w.active = q
          BY <5>2, <5>3
        <5> QED
          BY <5>4 DEF q
      <4>5. /\ f[n + 1].level = v - (w.remaining \div w.active)
            /\ f[n + 1].remaining = 0 /\ f[n + 1].spent = TRUE
        <5>1. f[n + 1] = [w EXCEPT !.level = @ - w.remaining \div w.active,
                                   !.remaining = 0, !.spent = TRUE]
          BY <2>2, <2>5, <3>7 DEF Lower, cost
        <5> QED
          BY <2>2, <5>1 DEF Water, v
      <4>6. f[n + 1].level = L
        BY <3>1, <4>4, <4>5
      <4> QED
        BY <2>3, <4>5, <4>6
    <3> QED
      BY <3>6, <3>7
  <2> QED
    BY <2>4, <2>5
<1>13. I(N)
  <2>1. 0 \in G /\ \A n \in 0 .. N - 1 : n \in G => n + 1 \in G
    <3> HIDE DEF I
    <3> QED
      BY <1>0, <1>11, <1>12
  <2> HIDE DEF G
  <2>2. \A n \in 0 .. N : n \in G
    BY <1>0, <2>1, Induct
  <2> QED
    BY <1>0, <2>2 DEF G
<1>14. f[N].level - f[N].remaining \div D = L
  <2> DEFINE w == f[N]
             v == w.level
  <2>1. N + 1 = D /\ D \in 1 .. D
    BY <1>0
  <2>2. CASE w.spent
    <3>1. v = L /\ w.remaining = 0
      BY <1>13, <2>2
    <3>2. 0 \div D = 0
      BY <1>0
    <3> QED
      BY <3>1, <3>2
  <2>3. CASE ~w.spent
    <3>1. /\ v = h[o[D]] /\ L <= v /\ v \in Int
          /\ w.remaining = M * Target - over(v)
      BY <1>13, <2>1, <2>3 DEF Water
    <3> HIDE DEF v, w
    <3>2. over(L) = over(v) + (v - L) * D
      BY <1>8, <2>1, <3>1
    <3>3. w.remaining = (v - L) * D
      BY <1>0, <1>5, <1>10, <3>1, <3>2
    <3> DEFINE q == v - L
    <3>4. q \in Nat
      BY <3>1
    <3> HIDE DEF q
    <3>5. (q * D) \div D = q
      BY <1>0, <3>4
    <3>6. w.remaining = q * D
      BY <3>3 DEF q
    <3>7. v - w.remaining \div D = L
      BY <3>1, <3>5, <3>6 DEF q
    <3> QED
      BY <3>7 DEF v, w
  <2> QED
    BY <2>2, <2>3
<1>15. WaterLevel(h) = FoldLeft(Lower, b, s).level
                         - FoldLeft(Lower, b, s).remaining \div D
  BY DEF WaterLevel, o
<1> HIDE DEF s, b
<1> QED
  BY <1>4, <1>14, <1>15

\* The budgets of a profile are what stands above its level.
LEMMA BudgetsAbove ==
  ASSUME NEW h \in Profiles
  PROVE  \E L \in Int : /\ Budgets(h) = Above(h, L)
                        /\ Budgets(h) \in [Dims -> Nat]
                        /\ SumFunction(Budgets(h)) = M * Target
<1>1. h \in [Dims -> Int]
  BY LayoutAssumption
<1>2. PICK j \in Dims, n \in 0 .. M * Target :
        SumFunction(Above(h, h[j] - n)) = M * Target
  BY LevelAssumption
<1> DEFINE L == h[j] - n
<1>3. L \in Int
  <2>1. h[j] \in Int /\ n \in Int
    BY <1>1
  <2> QED
    BY <2>1
<1>4. SumFunction(Above(h, L)) = M * Target
  BY <1>2
<1> HIDE DEF L
<1>5. WaterLevel(h) = L
  BY <1>1, <1>3, <1>4, WaterFilled
<1>6. Budgets(h) = Above(h, L)
  BY <1>5 DEF Budgets
<1>7. Above(h, L) \in [Dims -> Nat]
  BY <1>1, <1>3, AboveType
<1> QED
  BY <1>3, <1>4, <1>6, <1>7

(***************************************************************************)
(* Sums that change in one place.                                          *)
(***************************************************************************)
\* Changing one summand by c changes the sum by c.
LEMMA SumBump ==
  ASSUME NEW S, NEW f, Numbers(f, S), NEW x \in S, NEW c \in Int, NEW e,
         e[x] = f[x] + c, \A y \in S \ {x} : e[y] = f[y]
  PROVE  /\ Numbers(e, S)
         /\ SumFunctionOnSet(e, S) = SumFunctionOnSet(f, S) + c
<1>1. /\ Numbers(f, S \ {x})
      /\ SumFunctionOnSet(f, S) = f[x] + SumFunctionOnSet(f, S \ {x})
  BY SumRemove
<1>2. /\ Numbers(e, S \ {x})
      /\ SumFunctionOnSet(e, S \ {x}) = SumFunctionOnSet(f, S \ {x})
  BY <1>1, SumSame
<1>3. f[x] \in Int /\ IsFiniteSet(S) /\ \A y \in S \ {x} : e[y] \in Int
  BY <1>2 DEF Numbers
<1>4. e[x] \in Int
  BY <1>3
<1>5. Numbers(e, S)
  <2>1. \A y \in S : e[y] \in Int
    BY <1>3, <1>4
  <2> QED
    BY <1>3, <2>1 DEF Numbers
<1>6. SumFunctionOnSet(e, S) = e[x] + SumFunctionOnSet(e, S \ {x})
  BY <1>5, SumRemove
<1>7. SumFunctionOnSet(f, S \ {x}) \in Int
  BY <1>1, SumType
<1> QED
  BY <1>1, <1>2, <1>3, <1>5, <1>6, <1>7

(***************************************************************************)
(* The places of coordinates in groups.                                    *)
(***************************************************************************)
\* The groups are M numbers.
LEMMA GroupsFinite ==
  IsFiniteSet(Groups) /\ Cardinality(Groups) = M /\ Groups \subseteq Nat
<1>1. 0 \in Int /\ M - 1 \in Int /\ M \in Nat
  BY DimsFinite
<1>2. IsFiniteSet(0 .. M - 1)
      /\ Cardinality(0 .. M - 1) = IF 0 > M - 1 THEN 0 ELSE M - 1 - 0 + 1
  BY <1>1, FS_Interval
<1> QED
  BY <1>2, DimsFinite DEF Groups

\* The groups hold the coordinates S, each in one place.
Placing(groups, S) ==
  /\ groups \in [Groups -> Seq(Dims)]
  /\ \A g \in Groups : \A x \in DOMAIN groups[g] : groups[g][x] \in S
  /\ \A j \in S : \E g \in Groups : \E x \in DOMAIN groups[g] : groups[g][x] = j
  /\ \A g, o \in Groups : \A x \in DOMAIN groups[g] : \A y \in DOMAIN groups[o] :
       groups[g][x] = groups[o][y] => g = o /\ x = y

\* The load of a group.
LoadOf(s, budget) == SumFunction([k \in DOMAIN s |-> budget[s[k]]])

\* A sum over the coordinates, group by group.
LEMMA SumPlaced ==
  ASSUME NEW S, NEW groups, Placing(groups, S), NEW f, \A j \in S : f[j] \in Int,
         NEW row, \A g \in Groups : row[g] = LoadOf(groups[g], f)
  PROVE  /\ Numbers(row, Groups) /\ Numbers(f, S)
         /\ SumFunctionOnSet(row, Groups) = SumFunctionOnSet(f, S)
<1> DEFINE X == [g \in Groups |-> DOMAIN groups[g]]
           A == PairsOf(Groups, X)
           e == [p \in A |-> groups[p[1]][p[2]]]
           F == [p \in A |-> f[groups[p[1]][p[2]]]]
           line == [g \in Groups |-> [x \in DOMAIN groups[g] |-> f[groups[g][x]]]]
<1>1. \A g \in Groups : /\ X[g] = DOMAIN groups[g] /\ IsFiniteSet(X[g])
                        /\ \A x \in X[g] : groups[g][x] \in S
  <2> TAKE g \in Groups
  <2>1. groups[g] \in Seq(Dims)
    BY DEF Placing
  <2>2. DOMAIN groups[g] = 1 .. Len(groups[g]) /\ Len(groups[g]) \in Nat
    BY <2>1
  <2>3. IsFiniteSet(1 .. Len(groups[g]))
    BY <2>2, FS_Interval
  <2> QED
    BY <2>2, <2>3 DEF Placing
<1>2. /\ \A g \in Groups : \A x \in X[g] : <<g, x>> \in A
      /\ \A p \in A : \E g \in Groups : \E x \in X[g] : p = <<g, x>>
  BY DEF PairsOf
<1> HIDE DEF A, X
<1>3. \A g \in Groups : \A x \in X[g] : /\ e[<<g, x>>] = groups[g][x]
                                        /\ F[<<g, x>>] = f[groups[g][x]]
  BY <1>2
<1> HIDE DEF e, F
<1>4. \A g \in Groups : row[g] = SumFunctionOnSet(line[g], X[g])
  <2> TAKE g \in Groups
  <2>1. line[g] = [x \in DOMAIN groups[g] |-> f[groups[g][x]]]
    OBVIOUS
  <2>2. DOMAIN line[g] = X[g] /\ row[g] = SumFunction(line[g])
    BY <1>1, <2>1 DEF LoadOf
  <2> HIDE DEF line
  <2> QED
    BY <2>2 DEF SumFunction
<1>4a. \A g \in Groups : \A x \in X[g] : /\ F[<<g, x>>] \in Int
                                        /\ line[g][x] = F[<<g, x>>]
  <2> TAKE g \in Groups
  <2> TAKE x \in X[g]
  <2>1. groups[g][x] \in S /\ x \in DOMAIN groups[g]
    BY <1>1
  <2>2. f[groups[g][x]] \in Int
    BY <2>1
  <2>3. line[g][x] = f[groups[g][x]]
    BY <2>1
  <2>4. F[<<g, x>>] = f[groups[g][x]]
    BY <1>3
  <2> QED
    BY ONLY <2>2, <2>3, <2>4
<1> HIDE DEF line
<1>5. /\ Numbers(F, A) /\ Numbers(row, Groups)
      /\ SumFunctionOnSet(F, A) = SumFunctionOnSet(row, Groups)
  <2>1. Lines(Groups, X, F, line, row)
    BY <1>1, <1>4, <1>4a, GroupsFinite DEF Lines
  <2>2. /\ Numbers(F, PairsOf(Groups, X)) /\ Numbers(row, Groups)
        /\ SumFunctionOnSet(F, PairsOf(Groups, X)) = SumFunctionOnSet(row, Groups)
    BY <2>1, SumRows
  <2> QED
    BY <2>2 DEF A
<1>6. IsFiniteSet(A)
  BY <1>5 DEF Numbers
<1>7. \A p \in A : e[p] \in S /\ f[e[p]] \in Int /\ F[p] = f[e[p]]
  BY <1>1, <1>2, <1>3
<1>8. \A p, r \in A : e[p] = e[r] => p = r
  <2> SUFFICES ASSUME NEW p \in A, NEW r \in A, e[p] = e[r] PROVE p = r
    OBVIOUS
  <2>1a. PICK g \in Groups : \E x \in X[g] : p = <<g, x>>
    BY <1>2
  <2>1. PICK x \in X[g] : p = <<g, x>>
    BY <2>1a
  <2>2a. PICK o \in Groups : \E y \in X[o] : r = <<o, y>>
    BY <1>2
  <2>2. PICK y \in X[o] : r = <<o, y>>
    BY <2>2a
  <2>3. groups[g][x] = groups[o][y]
    BY <1>3, <2>1, <2>2
  <2>4. g = o /\ x = y
    BY <1>1, <2>3 DEF Placing
  <2> QED
    BY <2>1, <2>2, <2>4
<1>9. \A j \in S : \E p \in A : e[p] = j
  <2> TAKE j \in S
  <2>1. PICK g \in Groups : \E x \in DOMAIN groups[g] : groups[g][x] = j
    BY DEF Placing
  <2>2. PICK x \in X[g] : groups[g][x] = j
    BY <1>1, <2>1
  <2> QED
    BY <1>2, <1>3, <2>2
<1>10. Numbers(f, S) /\ SumFunctionOnSet(F, A) = SumFunctionOnSet(f, S)
  <2>1. Renames(A, S, e, f, F)
    BY <1>6, <1>7, <1>8, <1>9 DEF Renames
  <2> QED
    BY <2>1, SumRename
<1> QED
  BY <1>5, <1>10

\* validate_layout compares the load of every group with its coordinates.
LEMMA LoadsAre ==
  ASSUME NEW groups, NEW loads, NEW budget
  PROVE  LoadsPreserved(groups, loads, budget)
           <=> \A g \in Groups : loads[g] = LoadOf(groups[g], budget)
BY DEF LoadsPreserved, LoadOf

\* The budgets of the coordinates of a group.
Budgeted(f, s, budget) == \A k \in DOMAIN s : f[k] = budget[s[k]]

\* The load of a group is the sum of the budgets of its coordinates.
LEMMA LoadSum ==
  ASSUME NEW s \in Seq(Dims), NEW budget \in [Dims -> Int], NEW f,
         Budgeted(f, s, budget)
  PROVE  /\ Numbers(f, DOMAIN s) /\ LoadOf(s, budget) \in Int
         /\ LoadOf(s, budget) = SumFunctionOnSet(f, DOMAIN s)
<1> DEFINE e == [k \in DOMAIN s |-> budget[s[k]]]
           n == Len(s)
<1>1. n \in Nat /\ DOMAIN s = 1 .. n /\ \A k \in DOMAIN s : s[k] \in Dims
  OBVIOUS
<1>2. IsFiniteSet(1 .. n)
  BY <1>1, FS_Interval
<1>3. DOMAIN e = DOMAIN s /\ \A k \in DOMAIN s : e[k] = budget[s[k]] /\ e[k] \in Int
  BY <1>1
<1>4. LoadOf(s, budget) = SumFunctionOnSet(e, DOMAIN e)
  BY DEF LoadOf, SumFunction
<1> HIDE DEF e, n
<1>5. Numbers(e, DOMAIN s)
  BY <1>1, <1>2, <1>3 DEF Numbers
<1>6. LoadOf(s, budget) = SumFunctionOnSet(e, DOMAIN s)
  BY <1>3, <1>4
<1>7. \A k \in DOMAIN s : f[k] = e[k]
  BY <1>3 DEF Budgeted
<1>8. Numbers(f, DOMAIN s)
      /\ SumFunctionOnSet(f, DOMAIN s) = SumFunctionOnSet(e, DOMAIN s)
  BY <1>5, <1>7, SumSame
<1> QED
  BY <1>6, <1>8, SumType

\* A coordinate put last into a group adds its budget to the load.
LEMMA LoadAppend ==
  ASSUME NEW s \in Seq(Dims), NEW j \in Dims, NEW budget \in [Dims -> Int]
  PROVE  /\ Append(s, j) \in Seq(Dims)
         /\ LoadOf(Append(s, j), budget) = LoadOf(s, budget) + budget[j]
<1> DEFINE t == Append(s, j)
           n == Len(s)
           f == [k \in 1 .. n + 1 |-> budget[t[k]]]
<1>1. /\ t \in Seq(Dims) /\ n \in Nat /\ DOMAIN s = 1 .. n
      /\ DOMAIN t = 1 .. n + 1 /\ t[n + 1] = j
      /\ \A k \in 1 .. n : t[k] = s[k]
  OBVIOUS
<1>2. \A k \in 1 .. n + 1 : t[k] \in Dims
  BY <1>1
<1> HIDE DEF t, n
<1>3. \A k \in 1 .. n + 1 : f[k] = budget[t[k]] /\ f[k] \in Int
  BY <1>2
<1>4. f[n + 1] = budget[j] /\ \A k \in 1 .. n : f[k] = budget[s[k]]
  BY <1>1, <1>3
<1> HIDE DEF f
<1>5. LoadOf(t, budget) = SumFunctionOnSet(f, 1 .. n + 1)
  <2>1. Budgeted(f, t, budget)
    BY <1>1, <1>3 DEF Budgeted
  <2>2. LoadOf(t, budget) = SumFunctionOnSet(f, DOMAIN t)
    BY <1>1, <2>1, LoadSum
  <2> QED
    BY <1>1, <2>2
<1>6. LoadOf(s, budget) = SumFunctionOnSet(f, 1 .. n) /\ LoadOf(s, budget) \in Int
  <2>1. Budgeted(f, s, budget)
    BY <1>1, <1>4 DEF Budgeted
  <2>2. LoadOf(s, budget) = SumFunctionOnSet(f, DOMAIN s) /\ LoadOf(s, budget) \in Int
    BY <2>1, LoadSum
  <2> QED
    BY <1>1, <2>2
<1>7. SumFunctionOnSet(f, 1 .. n + 1) = f[n + 1] + SumFunctionOnSet(f, 1 .. n)
  BY <1>1, <1>3, SumNext
<1>8. budget[j] \in Int
  OBVIOUS
<1> QED
  BY <1>1, <1>4, <1>5, <1>6, <1>7, <1>8 DEF t

\* A coordinate put in the place of another changes the load by the
\* difference of their budgets.
LEMMA LoadReplace ==
  ASSUME NEW s \in Seq(Dims), NEW k \in DOMAIN s, NEW j \in Dims,
         NEW budget \in [Dims -> Int]
  PROVE  /\ [s EXCEPT ![k] = j] \in Seq(Dims)
         /\ LoadOf([s EXCEPT ![k] = j], budget)
              = LoadOf(s, budget) + (budget[j] - budget[s[k]])
<1> DEFINE t == [s EXCEPT ![k] = j]
           f == [x \in DOMAIN s |-> budget[s[x]]]
           e == [x \in DOMAIN s |-> budget[t[x]]]
           c == budget[j] - budget[s[k]]
<1>1. /\ t \in Seq(Dims) /\ DOMAIN t = DOMAIN s /\ t[k] = j
      /\ \A x \in DOMAIN s \ {k} : t[x] = s[x]
  OBVIOUS
<1>2. c \in Int /\ s[k] \in Dims
  OBVIOUS
<1> HIDE DEF t
<1>3. /\ \A x \in DOMAIN s : f[x] = budget[s[x]]
      /\ \A x \in DOMAIN t : e[x] = budget[t[x]]
  BY <1>1
<1> HIDE DEF e, f, c
<1>4. /\ Numbers(f, DOMAIN s) /\ LoadOf(s, budget) = SumFunctionOnSet(f, DOMAIN s)
      /\ LoadOf(t, budget) = SumFunctionOnSet(e, DOMAIN s)
  <2>1. Numbers(f, DOMAIN s) /\ LoadOf(s, budget) = SumFunctionOnSet(f, DOMAIN s)
    <3>1. Budgeted(f, s, budget)
      BY <1>3 DEF Budgeted
    <3> QED
      BY <3>1, LoadSum
  <2>2. LoadOf(t, budget) = SumFunctionOnSet(e, DOMAIN t)
    <3>1. Budgeted(e, t, budget)
      BY <1>3 DEF Budgeted
    <3> QED
      BY <1>1, <3>1, LoadSum
  <2> QED
    BY <1>1, <2>1, <2>2
<1>5. e[k] = f[k] + c /\ \A x \in DOMAIN s \ {k} : e[x] = f[x]
  <2>1. e[k] = budget[j] /\ f[k] = budget[s[k]]
    BY <1>1, <1>3
  <2>2. budget[j] \in Int /\ budget[s[k]] \in Int
    BY <1>2
  <2>3. \A x \in DOMAIN s \ {k} : e[x] = f[x]
    BY <1>1, <1>3
  <2> QED
    BY <2>1, <2>2, <2>3 DEF c
<1>6. SumFunctionOnSet(e, DOMAIN s) = SumFunctionOnSet(f, DOMAIN s) + c
  BY <1>2, <1>4, <1>5, SumBump
<1> QED
  BY <1>1, <1>4, <1>6 DEF t, c

(***************************************************************************)
(* assign_dimensions.                                                      *)
(***************************************************************************)
\* Groups of coordinates with their loads, and the widths of groups.
Assigned == [groups: [Groups -> Seq(Dims)], loads: [Groups -> Int]]
Widths(groups) == [g \in Groups |-> Len(groups[g])]

\* Capacities of the groups that add up to the coordinates.
Capacity(capacity) ==
  /\ capacity \in [1 .. M -> 1 .. Maximum]
  /\ SumFunctionOnSet([g \in Groups |-> capacity[g + 1]], Groups) = D

\* The coordinates S, n of them, are placed, no group is too full and the loads
\* are those of the groups.
Placed(a, S, n, capacity, budget) ==
  /\ a \in Assigned
  /\ Placing(a.groups, S)
  /\ \A g \in Groups : Len(a.groups[g]) <= capacity[g + 1]
  /\ SumFunctionOnSet(Widths(a.groups), Groups) = n
  /\ \A g \in Groups : a.loads[g] = LoadOf(a.groups[g], budget)

\* The width of a group is the number of its coordinates.
LEMMA WidthNumbers ==
  ASSUME NEW groups \in [Groups -> Seq(Dims)]
  PROVE  /\ Numbers(Widths(groups), Groups)
         /\ \A g \in Groups : /\ Widths(groups)[g] = Len(groups[g])
                              /\ Len(groups[g]) \in Nat
<1>1. \A g \in Groups : groups[g] \in Seq(Dims)
  OBVIOUS
<1>2. \A g \in Groups : Len(groups[g]) \in Nat
  BY <1>1
<1>3. \A g \in Groups : Widths(groups)[g] = Len(groups[g])
  BY DEF Widths
<1> QED
  BY <1>2, <1>3, GroupsFinite DEF Numbers

\* As long as coordinates are left, a group has room.
LEMMA RoomLeft ==
  ASSUME NEW capacity, Capacity(capacity), NEW groups \in [Groups -> Seq(Dims)],
         SumFunctionOnSet(Widths(groups), Groups) < D
  PROVE  \E g \in Groups : Len(groups[g]) < capacity[g + 1]
<1> DEFINE cap == [g \in Groups |-> capacity[g + 1]]
           wide == Widths(groups)
<1> SUFFICES ASSUME \A g \in Groups : ~(Len(groups[g]) < capacity[g + 1])
             PROVE  FALSE
  OBVIOUS
<1>1. \A g \in Groups : cap[g] \in Int /\ cap[g] = capacity[g + 1]
  <2> TAKE g \in Groups
  <2>1. g + 1 \in 1 .. M
    BY DimsFinite DEF Groups
  <2>2. capacity[g + 1] \in 1 .. Maximum
    BY <2>1 DEF Capacity
  <2> QED
    BY <2>2
<1> HIDE DEF cap
<1>2. Numbers(cap, Groups)
  BY <1>1, GroupsFinite DEF Numbers
<1>3. /\ Numbers(wide, Groups)
      /\ \A g \in Groups : wide[g] = Len(groups[g]) /\ Len(groups[g]) \in Nat
  BY WidthNumbers
<1> HIDE DEF wide
<1>4. \A g \in Groups : cap[g] <= wide[g]
  BY <1>1, <1>3
<1>5. SumFunctionOnSet(cap, Groups) <= SumFunctionOnSet(wide, Groups)
  BY <1>2, <1>3, <1>4, SumBound
<1>6. SumFunctionOnSet(cap, Groups) = D
  BY DEF Capacity, cap
<1>7. SumFunctionOnSet(wide, Groups) \in Int
  BY <1>3, SumType
<1> QED
  BY <1>5, <1>6, <1>7, DimsFinite DEF wide

\* The first of the numbers S in the order of a key.
LEMMA FirstByKey ==
  ASSUME NEW S, IsFiniteSet(S), S # {}, S \subseteq Int, NEW key,
         \A x \in S : key[x] \in Int
  PROVE  /\ Sorted(S, key, 1) \in S
         /\ \A o \in S \ {Sorted(S, key, 1)} :
              /\ key[Sorted(S, key, 1)] <= key[o]
              /\ key[Sorted(S, key, 1)] = key[o] => Sorted(S, key, 1) < o
<1> DEFINE N == Cardinality(S)
           at(i) == Sorted(S, key, i)
<1>1. /\ N \in Nat
      /\ \A i \in 1 .. N : at(i) \in S
      /\ \A i, j \in 1 .. N :
           i < j => /\ key[at(i)] <= key[at(j)]
                    /\ key[at(i)] = key[at(j)] => at(i) < at(j)
      /\ \A x \in S : \E i \in 1 .. N : at(i) = x
  BY SortedOrder
<1> HIDE DEF N, at
<1>2. 1 \in 1 .. N /\ at(1) \in S
  <2>1. PICK x \in S : TRUE
    OBVIOUS
  <2>2. PICK i \in 1 .. N : at(i) = x
    BY <1>1
  <2>3. 1 \in 1 .. N
    BY <1>1, <2>2
  <2> QED
    BY <1>1, <2>3
<1>3. ASSUME NEW o \in S \ {at(1)}
      PROVE  key[at(1)] <= key[o] /\ (key[at(1)] = key[o] => at(1) < o)
  <2>1. PICK i \in 1 .. N : at(i) = o
    BY <1>1
  <2>2. 1 < i
    BY <1>1, <2>1
  <2> QED
    BY <1>1, <1>2, <2>1, <2>2
<1> QED
  BY <1>2, <1>3 DEF at

\* A coordinate goes to a group that has room.
LEMMA PlaceStep ==
  ASSUME NEW capacity, Capacity(capacity), NEW budget \in [Dims -> Int],
         NEW a, NEW S \in SUBSET Dims, NEW n \in 0 .. D - 1,
         Placed(a, S, n, capacity, budget), NEW j \in Dims \ S
  PROVE  Placed(Place(a, j, capacity, budget), S \cup {j}, n + 1, capacity, budget)
<1> DEFINE groups == a.groups
           loads == a.loads
           open == {g \in Groups : Len(groups[g]) < capacity[g + 1]}
           best == CHOOSE g \in open : \A o \in open \ {g} :
                     \/ loads[g] < loads[o]
                     \/ loads[g] = loads[o] /\ g < o
           new == [groups EXCEPT ![best] = Append(@, j)]
           changed == [loads EXCEPT ![best] = @ + budget[j]]
<1>1. /\ groups \in [Groups -> Seq(Dims)] /\ loads \in [Groups -> Int]
      /\ \A g \in Groups : groups[g] \in Seq(Dims) /\ Len(groups[g]) \in Nat
  BY DEF Placed, Assigned
<1>2. open # {} /\ open \subseteq Groups /\ IsFiniteSet(open)
  <2>1. SumFunctionOnSet(Widths(groups), Groups) = n /\ n < D
    BY DimsFinite DEF Placed
  <2>2. \E g \in Groups : Len(groups[g]) < capacity[g + 1]
    BY <1>1, <2>1, RoomLeft
  <2> QED
    BY <2>2, GroupsFinite, FS_Subset
<1>3. best \in open
  <2> HIDE DEF open, loads
  <2>1. open \subseteq Int /\ open # {} /\ IsFiniteSet(open)
    BY <1>2, GroupsFinite
  <2>2. \A x \in open : loads[x] \in Int
    BY <1>1, <1>2
  <2> DEFINE g == Sorted(open, loads, 1)
  <2>3. g \in open /\ \A o \in open \ {g} :
                       /\ loads[g] <= loads[o]
                       /\ loads[g] = loads[o] => g < o
    BY <2>1, <2>2, FirstByKey
  <2> HIDE DEF g
  <2>4. \A o \in open \ {g} : \/ loads[g] < loads[o]
                              \/ loads[g] = loads[o] /\ g < o
    BY <2>2, <2>3
  <2> QED
    BY <2>3, <2>4
<1>4. Place(a, j, capacity, budget) = [groups |-> new, loads |-> changed]
  BY DEF Place
<1> HIDE DEF best
<1>5. best \in Groups /\ Len(groups[best]) < capacity[best + 1]
  BY <1>3
<1> HIDE DEF open, groups, loads
<1>6. /\ Append(groups[best], j) \in Seq(Dims)
      /\ LoadOf(Append(groups[best], j), budget)
           = LoadOf(groups[best], budget) + budget[j]
  BY <1>1, <1>5, LoadAppend
<1>7. /\ new[best] = Append(groups[best], j)
      /\ \A g \in Groups \ {best} : new[g] = groups[g]
      /\ changed[best] = loads[best] + budget[j]
      /\ \A g \in Groups \ {best} : changed[g] = loads[g]
      /\ new \in [Groups -> Seq(Dims)] /\ changed \in [Groups -> Int]
  BY <1>1, <1>5, <1>6
<1> HIDE DEF new, changed
<1>8. /\ Len(new[best]) = Len(groups[best]) + 1
      /\ DOMAIN groups[best] = 1 .. Len(groups[best])
      /\ DOMAIN new[best] = 1 .. Len(groups[best]) + 1
      /\ new[best][Len(groups[best]) + 1] = j
      /\ \A x \in DOMAIN groups[best] : new[best][x] = groups[best][x]
  BY <1>1, <1>5, <1>7, SMTT(30)
<1>9. Placing(new, S \cup {j})
  <2>0. /\ \A g \in Groups : \A x \in DOMAIN groups[g] : groups[g][x] \in S
        /\ \A i \in S : \E g \in Groups : \E x \in DOMAIN groups[g] : groups[g][x] = i
        /\ \A g, o \in Groups : \A x \in DOMAIN groups[g] : \A y \in DOMAIN groups[o] :
             groups[g][x] = groups[o][y] => g = o /\ x = y
    BY DEF Placed, Placing, groups
  <2> DEFINE last == Len(groups[best]) + 1
  \* Every place is an old one or the last of the group chosen.
  <2>1. \A g \in Groups : \A x \in DOMAIN new[g] :
          \/ x \in DOMAIN groups[g] /\ new[g][x] = groups[g][x]
          \/ g = best /\ x = last /\ new[g][x] = j
    <3> TAKE g \in Groups
    <3>1. CASE g = best
      <4>1. last \in Nat /\ Len(groups[best]) \in Nat
        BY <1>1, <1>5
      <4> QED
        BY <1>8, <3>1, <4>1, SMTT(30)
    <3>2. CASE g # best
      BY <1>7, <3>2
    <3> QED
      BY <3>1, <3>2
  <2>2. \A g \in Groups : \A x \in DOMAIN groups[g] :
          x \in DOMAIN new[g] /\ new[g][x] = groups[g][x]
    <3> TAKE g \in Groups
    <3>1. CASE g = best
      <4>1. Len(groups[best]) \in Nat
        BY <1>1, <1>5
      <4> QED
        BY <1>8, <3>1, <4>1
    <3>2. CASE g # best
      BY <1>7, <3>2
    <3> QED
      BY <3>1, <3>2
  <2>3. last \in DOMAIN new[best] /\ new[best][last] = j
    <3>1. Len(groups[best]) \in Nat
      BY <1>1, <1>5
    <3> QED
      BY <1>8, <3>1
  <2> HIDE DEF last
  <2>4. \A g \in Groups : \A x \in DOMAIN new[g] : new[g][x] \in S \cup {j}
    BY <2>0, <2>1
  <2>5. \A i \in S \cup {j} : \E g \in Groups : \E x \in DOMAIN new[g] : new[g][x] = i
    <3> TAKE i \in S \cup {j}
    <3>1. CASE i = j
      BY <1>5, <2>3, <3>1
    <3>2. CASE i # j
      <4>1. PICK g \in Groups : \E x \in DOMAIN groups[g] : groups[g][x] = i
        BY <2>0, <3>2
      <4> QED
        BY <2>2, <4>1
    <3> QED
      BY <3>1, <3>2
  <2>6. ASSUME NEW g \in Groups, NEW o \in Groups, NEW x \in DOMAIN new[g],
               NEW y \in DOMAIN new[o], new[g][x] = new[o][y]
        PROVE  g = o /\ x = y
    <3>1. CASE x \in DOMAIN groups[g] /\ new[g][x] = groups[g][x]
      <4>1. new[o][y] # j
        BY <2>0, <2>6, <3>1
      <4>2. y \in DOMAIN groups[o] /\ new[o][y] = groups[o][y]
        BY <2>1, <4>1
      <4>3. groups[g][x] = groups[o][y]
        BY <2>6, <3>1, <4>2
      <4> QED
        BY <2>0, <3>1, <4>2, <4>3
    <3>2. CASE g = best /\ x = last /\ new[g][x] = j
      <4>1. ~(y \in DOMAIN groups[o] /\ new[o][y] = groups[o][y])
        BY <2>0, <2>6, <3>2
      <4> QED
        BY <2>1, <3>2, <4>1
    <3> QED
      BY <2>1, <3>1, <3>2
  <2> QED
    BY <1>7, <2>4, <2>5, <2>6 DEF Placing
<1>10. \A g \in Groups : Len(new[g]) <= capacity[g + 1]
  <2> TAKE g \in Groups
  <2>1. g + 1 \in 1 .. M
    BY DimsFinite DEF Groups
  <2>2. capacity[g + 1] \in Nat
    BY <2>1 DEF Capacity
  <2>3. Len(groups[g]) <= capacity[g + 1] /\ Len(groups[g]) \in Nat
    BY <1>1 DEF Placed, groups
  <2>4. CASE g = best
    BY <1>5, <1>8, <2>2, <2>3, <2>4
  <2>5. CASE g # best
    BY <1>7, <2>3, <2>5
  <2> QED
    BY <2>4, <2>5
<1>11. SumFunctionOnSet(Widths(new), Groups) = n + 1
  <2> DEFINE f == Widths(groups)
             e == Widths(new)
  <2>1. Numbers(f, Groups) /\ \A g \in Groups : f[g] = Len(groups[g])
    BY <1>1, WidthNumbers
  <2>2. \A g \in Groups : e[g] = Len(new[g])
    BY <1>7, WidthNumbers
  <2>3. SumFunctionOnSet(f, Groups) = n
    BY DEF Placed, groups
  <2> HIDE DEF e, f
  <2>4. e[best] = f[best] + 1 /\ 1 \in Int
    BY <1>5, <1>8, <2>1, <2>2
  <2>5. \A g \in Groups \ {best} : e[g] = f[g]
    BY <1>7, <2>1, <2>2
  <2>6. SumFunctionOnSet(e, Groups) = SumFunctionOnSet(f, Groups) + 1
    BY <1>5, <2>1, <2>4, <2>5, SumBump
  <2> QED
    BY <2>3, <2>6 DEF e
<1>12. \A g \in Groups : changed[g] = LoadOf(new[g], budget)
  <2> TAKE g \in Groups
  <2>1. loads[g] = LoadOf(groups[g], budget)
    BY DEF Placed, groups, loads
  <2>2. CASE g = best
    BY <1>6, <1>7, <2>1, <2>2
  <2>3. CASE g # best
    BY <1>7, <2>1, <2>3
  <2> QED
    BY <2>2, <2>3
<1> QED
  BY <1>4, <1>7, <1>9, <1>10, <1>11, <1>12 DEF Placed, Assigned

\* Placing a coordinate keeps the types of groups and loads.
LEMMA PlaceType ==
  ASSUME NEW capacity, NEW budget \in [Dims -> Int], NEW a \in Assigned,
         NEW j \in Dims
  PROVE  Place(a, j, capacity, budget) \in Assigned
<1> DEFINE open == {g \in Groups : Len(a.groups[g]) < capacity[g + 1]}
           best == CHOOSE g \in open : \A o \in open \ {g} :
                     \/ a.loads[g] < a.loads[o]
                     \/ a.loads[g] = a.loads[o] /\ g < o
           new == [a.groups EXCEPT ![best] = Append(@, j)]
           changed == [a.loads EXCEPT ![best] = @ + budget[j]]
<1>1. a.groups \in [Groups -> Seq(Dims)] /\ a.loads \in [Groups -> Int]
  BY DEF Assigned
<1>2. Place(a, j, capacity, budget) = [groups |-> new, loads |-> changed]
  BY DEF Place
<1> HIDE DEF best
<1>3. new \in [Groups -> Seq(Dims)]
  <2>1. \A g \in Groups : Append(a.groups[g], j) \in Seq(Dims)
    BY <1>1
  <2> QED
    BY <1>1, <2>1
<1>4. changed \in [Groups -> Int]
  <2>1. \A g \in Groups : a.loads[g] + budget[j] \in Int
    BY <1>1
  <2> QED
    BY <1>1, <2>1
<1> QED
  BY <1>2, <1>3, <1>4 DEF Assigned

\* All coordinates of s placed, and the assignments on the way there.
PlaceAll(capacity, budget, b, s) ==
  FoldLeft(LAMBDA a, dim : Place(a, dim, capacity, budget), b, s)
PlaceSteps(capacity, budget, b, s, N, f) ==
  /\ f[0] = b
  /\ \A n \in 1 .. N : f[n] = Place(f[n - 1], s[n], capacity, budget)
  /\ PlaceAll(capacity, budget, b, s) = f[N]

\* The fold goes coordinate by coordinate.
LEMMA PlaceFold ==
  ASSUME NEW capacity, NEW budget \in [Dims -> Int], NEW N \in Nat,
         NEW s \in [1 .. N -> Dims], NEW b \in Assigned
  PROVE  \E f : PlaceSteps(capacity, budget, b, s, N, f)
<1> DEFINE P == 1 .. N
           F == [z \in P \X Assigned |-> Place(z[2], s[z[1]], capacity, budget)]
           Step(it) == [t \in SUBSET P |->
                          IF t = {} THEN b
                          ELSE Place(it[t \ {Max(t)}], s[Max(t)], capacity, budget)]
           iter == CHOOSE it : it = Step(it)
<1>1. DOMAIN s = P
  OBVIOUS
<1>2. PlaceAll(capacity, budget, b, s) = iter[P]
  BY <1>1 DEF PlaceAll, FoldLeft, MapThenFoldSet
<1>3. \A k \in P : \A v \in Assigned :
        /\ F[<<k, v>>] = Place(v, s[k], capacity, budget)
        /\ F[<<k, v>>] \in Assigned
  BY PlaceType
<1> HIDE DEF F
<1>4. Closed(P, Assigned, F)
  BY <1>3 DEF Closed
<1>5. PICK g : FoldsLeft(P, Assigned, b, F, g)
  <2>1. P = 1 .. N
    OBVIOUS
  <2> HIDE DEF P
  <2> QED
    BY <1>4, <2>1, FoldPositions
<1>6. \A t \in SUBSET P : t # {} =>
        g[t] = Place(g[t \ {Max(t)}], s[Max(t)], capacity, budget)
  BY <1>3, <1>5, MaxPosition DEF FoldsLeft
<1>7. g = Step(g)
  BY <1>5, <1>6 DEF FoldsLeft
<1>8. iter = Step(iter)
  BY <1>7
<1> HIDE DEF iter
<1>9. iter[{}] = b /\ \A t \in SUBSET P : t # {} =>
         iter[t] = Place(iter[t \ {Max(t)}], s[Max(t)], capacity, budget)
  BY <1>8
<1> DEFINE f == [n \in 0 .. N |-> iter[1 .. n]]
<1>10. f[0] = b
  <2>1. 1 .. 0 = {} /\ 0 \in 0 .. N
    OBVIOUS
  <2> QED
    BY <1>9, <2>1
<1>11. \A n \in 1 .. N : f[n] = Place(f[n - 1], s[n], capacity, budget)
  <2> TAKE n \in 1 .. N
  <2>1. 1 .. n \in SUBSET P /\ n \in 0 .. N /\ n - 1 \in 0 .. N
    OBVIOUS
  <2>2. Max(1 .. n) = n /\ (1 .. n) \ {n} = 1 .. n - 1 /\ 1 .. n # {}
    <3>1. n \in Nat /\ n # 0
      OBVIOUS
    <3> QED
      BY <3>1, MaxOfPrefix
  <2> HIDE DEF P
  <2> QED
    BY <1>9, <2>1, <2>2
<1>12. f[N] = iter[P]
  OBVIOUS
<1> QED
  BY <1>2, <1>10, <1>11, <1>12 DEF PlaceSteps

\* Once every coordinate is placed the groups are full.
LEMMA AllPlaced ==
  ASSUME NEW capacity, Capacity(capacity), NEW budget \in [Dims -> Int], NEW b,
         b = [groups |-> [g \in Groups |-> <<>>], loads |-> [g \in Groups |-> 0]]
  PROVE  Placed(PlaceAll(capacity, budget, b, Descending(budget)),
                Dims, D, capacity, budget)
<1> DEFINE o == Descending(budget)
           A(n) == {o[i] : i \in 1 .. n}
<1>0. D \in Nat \ {0}
  BY DimsFinite
<1>1. /\ o \in [1 .. D -> Dims]
      /\ \A i, j \in 1 .. D : o[i] = o[j] => i = j
      /\ \A x \in Dims : \E i \in 1 .. D : o[i] = x
  BY DescendingOrder
<1>2. b \in Assigned
  <2>1. <<>> \in Seq(Dims) /\ 0 \in Int
    OBVIOUS
  <2> QED
    BY <2>1 DEF Assigned
<1> HIDE DEF o
<1>3. PICK f : /\ f[0] = b
               /\ \A n \in 1 .. D : f[n] = Place(f[n - 1], o[n], capacity, budget)
               /\ PlaceAll(capacity, budget, b, o) = f[D]
  <2>1. D \in Nat /\ o \in [1 .. D -> Dims]
    BY <1>0, <1>1
  <2>2. \E f : PlaceSteps(capacity, budget, b, o, D, f)
    BY <1>2, <2>1, PlaceFold
  <2> QED
    BY <2>2 DEF PlaceSteps
<1> DEFINE I(n) == Placed(f[n], A(n), n, capacity, budget)
           G == {n \in 0 .. D : I(n)}
<1>4. I(0)
  <2>1. /\ b.groups = [g \in Groups |-> <<>>] /\ b.loads = [g \in Groups |-> 0]
        /\ b.groups \in [Groups -> Seq(Dims)]
    BY <1>2 DEF Assigned
  <2>2. \A g \in Groups : /\ b.groups[g] = <<>> /\ DOMAIN b.groups[g] = {}
                          /\ Len(b.groups[g]) = 0
    BY <2>1
  <2>3. A(0) = {}
    OBVIOUS
  <2>4. Placing(b.groups, {})
    BY <2>1, <2>2 DEF Placing
  <2>5. \A g \in Groups : Len(b.groups[g]) <= capacity[g + 1]
    <3> TAKE g \in Groups
    <3>1. g + 1 \in 1 .. M
      BY DimsFinite DEF Groups
    <3>2. capacity[g + 1] \in Nat
      BY <3>1 DEF Capacity
    <3> QED
      BY <2>2, <3>2
  <2>6. SumFunctionOnSet(Widths(b.groups), Groups) = 0
    <3>1. \A g \in Groups : Widths(b.groups)[g] = 0
      BY <2>2 DEF Widths
    <3>2. 0 \in Int /\ IsFiniteSet(Groups) /\ Cardinality(Groups) = M
      BY GroupsFinite
    <3>3. SumFunctionOnSet(Widths(b.groups), Groups) = 0 * Cardinality(Groups)
      BY <3>1, <3>2, SumConstant
    <3> QED
      BY <3>2, <3>3, DimsFinite
  <2>7. \A g \in Groups : b.loads[g] = LoadOf(b.groups[g], budget)
    <3> TAKE g \in Groups
    <3> DEFINE e == [k \in DOMAIN b.groups[g] |-> budget[b.groups[g][k]]]
    <3>1. LoadOf(b.groups[g], budget) = SumFunctionOnSet(e, DOMAIN e)
      BY DEF LoadOf, SumFunction
    <3>2. DOMAIN e = {}
      BY <2>2
    <3> HIDE DEF e
    <3>3. LoadOf(b.groups[g], budget) = 0
      BY <3>1, <3>2, SumEmpty
    <3> QED
      BY <2>1, <3>3
  <2> HIDE DEF A
  <2> QED
    BY <1>2, <1>3, <2>3, <2>4, <2>5, <2>6, <2>7 DEF Placed
<1>5. ASSUME NEW n \in 0 .. D - 1, I(n) PROVE I(n + 1)
  <2>1. n + 1 \in 1 .. D /\ (n + 1) - 1 = n /\ n \in Nat
    BY <1>0
  <2>2. f[n + 1] = Place(f[n], o[n + 1], capacity, budget)
    BY <1>3, <2>1
  <2>3. A(n) \in SUBSET Dims /\ o[n + 1] \in Dims \ A(n)
    <3>1. 1 .. n \subseteq 1 .. D /\ n + 1 \notin 1 .. n
      BY <1>0, <2>1
    <3> QED
      BY <1>1, <2>1, <3>1
  <2>4. A(n + 1) = A(n) \cup {o[n + 1]}
    <3>1. 1 .. n + 1 = (1 .. n) \cup {n + 1}
      BY <2>1
    <3> QED
      BY <3>1
  <2> HIDE DEF A
  <2>5. Placed(f[n + 1], A(n) \cup {o[n + 1]}, n + 1, capacity, budget)
    BY <1>5, <2>2, <2>3, PlaceStep
  <2> QED
    BY <2>4, <2>5
<1>6. I(D)
  <2>1. 0 \in G /\ \A n \in 0 .. D - 1 : n \in G => n + 1 \in G
    <3> HIDE DEF I
    <3> QED
      BY <1>0, <1>4, <1>5
  <2>2. D \in 0 .. D /\ 0 \in Int /\ D \in Int
    BY <1>0
  <2> HIDE DEF I
  <2>3. G \subseteq 0 .. D
    OBVIOUS
  <2>4. D \in G
    <3> HIDE DEF G
    <3> QED
      BY <1>0, <2>1, <2>2, Induct
  <2> QED
    BY <2>4
<1>7. A(D) = Dims
  BY <1>1
<1> HIDE DEF A
<1> QED
  BY <1>3, <1>6, <1>7 DEF o

\* A full assignment: every coordinate has a place, every group its width, and
\* the loads are those of the groups.
Filled(a, capacity, budget) ==
  /\ a \in Assigned
  /\ Placing(a.groups, Dims)
  /\ \A g \in Groups : Len(a.groups[g]) = capacity[g + 1]
  /\ \A g \in Groups : a.loads[g] = LoadOf(a.groups[g], budget)

\* The capacities of the groups are numbers that can be summed.
LEMMA CapacityNumbers ==
  ASSUME NEW capacity, Capacity(capacity), NEW cap,
         cap = [g \in Groups |-> capacity[g + 1]]
  PROVE  /\ Numbers(cap, Groups)
         /\ \A g \in Groups : cap[g] = capacity[g + 1] /\ cap[g] \in 1 .. Maximum
<1>1. \A g \in Groups : cap[g] = capacity[g + 1] /\ cap[g] \in 1 .. Maximum
  <2> TAKE g \in Groups
  <2>1. g + 1 \in 1 .. M
    BY DimsFinite DEF Groups
  <2>2. capacity[g + 1] \in 1 .. Maximum
    BY <2>1 DEF Capacity
  <2> QED
    BY <2>2
<1> QED
  BY <1>1, GroupsFinite DEF Numbers

\* When all D coordinates are placed every group is full: none is over its
\* capacity, and the capacities add up to D.
LEMMA PlacedFilled ==
  ASSUME NEW capacity, Capacity(capacity), NEW budget, NEW a,
         Placed(a, Dims, D, capacity, budget)
  PROVE  Filled(a, capacity, budget)
<1> DEFINE cap == [g \in Groups |-> capacity[g + 1]]
           wide == Widths(a.groups)
<1>1. /\ Numbers(cap, Groups)
      /\ \A g \in Groups : cap[g] = capacity[g + 1] /\ cap[g] \in 1 .. Maximum
  BY CapacityNumbers
<1>2. /\ Numbers(wide, Groups)
      /\ \A g \in Groups : wide[g] = Len(a.groups[g]) /\ Len(a.groups[g]) \in Nat
  BY WidthNumbers DEF Placed, Assigned
<1>3. SumFunctionOnSet(cap, Groups) = D /\ SumFunctionOnSet(wide, Groups) = D
  BY DEF Capacity, Placed
<1>4. \A g \in Groups : Len(a.groups[g]) <= capacity[g + 1]
  BY DEF Placed
<1> HIDE DEF cap, wide
<1>5. \A g \in Groups : wide[g] <= cap[g]
  BY <1>1, <1>2, <1>4
<1>6. ASSUME NEW g \in Groups PROVE wide[g] = cap[g]
  <2>1. /\ Numbers(cap, Groups \ {g})
        /\ SumFunctionOnSet(cap, Groups)
             = cap[g] + SumFunctionOnSet(cap, Groups \ {g})
    BY <1>1, SumRemove
  <2>2. /\ Numbers(wide, Groups \ {g})
        /\ SumFunctionOnSet(wide, Groups)
             = wide[g] + SumFunctionOnSet(wide, Groups \ {g})
    BY <1>2, SumRemove
  <2>3. SumFunctionOnSet(wide, Groups \ {g}) <= SumFunctionOnSet(cap, Groups \ {g})
    <3>1. \A o \in Groups \ {g} : wide[o] <= cap[o]
      BY <1>5
    <3> QED
      BY <2>1, <2>2, <3>1, SumBound
  <2>4. /\ SumFunctionOnSet(wide, Groups \ {g}) \in Int
        /\ SumFunctionOnSet(cap, Groups \ {g}) \in Int
    BY <2>1, <2>2, SumType
  <2>5. wide[g] \in Int /\ cap[g] \in Int /\ wide[g] <= cap[g] /\ D \in Int
    BY <1>1, <1>2, <1>5, DimsFinite
  <2> QED
    BY <1>3, <2>1, <2>2, <2>3, <2>4, <2>5
<1> QED
  BY <1>1, <1>2, <1>6 DEF Filled, Placed

\* The first of some quadruples of numbers.
LEMMA FirstQuadruple ==
  ASSUME NEW S, IsFiniteSet(S), S # {},
         \A x \in S : \E a, b, i, j \in Int : x = <<a, b, i, j>>
  PROVE  \E x \in S : \A y \in S \ {x} : Earlier(x, y)
<1> DEFINE Less(x, y) == \/ x[1] < y[1]
                         \/ x[1] = y[1] /\ x[2] < y[2]
                         \/ x[1] = y[1] /\ x[2] = y[2] /\ x[3] < y[3]
                         \/ /\ x[1] = y[1] /\ x[2] = y[2] /\ x[3] = y[3]
                            /\ x[4] < y[4]
           R == {p \in S \X S : Less(p[1], p[2])}
<1>1. \A x \in S : /\ x[1] \in Int /\ x[2] \in Int /\ x[3] \in Int /\ x[4] \in Int
                   /\ x = <<x[1], x[2], x[3], x[4]>>
  OBVIOUS
<1>2. \A x, y \in S : <<x, y>> \in R <=> Less(x, y)
  OBVIOUS
<1> HIDE DEF R
<1>3. \A x \in S : <<x, x>> \notin R
  BY <1>1, <1>2
<1>4. \A x, y, z \in S : <<x, y>> \in R /\ <<y, z>> \in R => <<x, z>> \in R
  BY <1>1, <1>2
<1>5. \A x, y \in S : x # y => <<x, y>> \in R \/ <<y, x>> \in R
  <2> TAKE x, y \in S
  <2> HAVE x # y
  <2>1. x[1] # y[1] \/ x[2] # y[2] \/ x[3] # y[3] \/ x[4] # y[4]
    BY <1>1
  <2> QED
    BY <1>1, <1>2, <2>1
<1>6. PICK x \in S : \A y \in S \ {x} : <<x, y>> \in R
  <2>1. IsFiniteSet(S) /\ S # {}
    OBVIOUS
  <2>2. \E x \in S : \A y \in S \ {x} : <<x, y>> \in R
    BY ONLY <1>3, <1>4, <1>5, <2>1, FirstInOrder
  <2> QED
    BY <2>2
<1>7. ASSUME NEW y \in S, Less(x, y) PROVE Earlier(x, y)
  <2>1. DOMAIN x = 1 .. 4
    BY <1>1
  <2>2. 1 \in 1 .. 4 /\ 2 \in 1 .. 4 /\ 3 \in 1 .. 4 /\ 4 \in 1 .. 4
    OBVIOUS
  <2>3. /\ 1 .. 1 - 1 = {} /\ 1 .. 2 - 1 = {1} /\ 1 .. 3 - 1 = {1, 2}
        /\ 1 .. 4 - 1 = {1, 2, 3}
    OBVIOUS
  <2> QED
    BY <1>7, <2>1, <2>2, <2>3 DEF Earlier
<1> QED
  BY <1>2, <1>6, <1>7

\* The exchanges of a full assignment.
LEMMA ExchangesFinite ==
  ASSUME NEW groups \in [Groups -> Seq(Dims)], NEW K \in Nat,
         \A g \in Groups : Len(groups[g]) \in 1 .. K
  PROVE  /\ IsFiniteSet(Exchanges(groups)) /\ Exchanges(groups) # {}
         /\ \A x \in Exchanges(groups) :
              /\ x[1] \in Groups /\ x[2] \in Groups /\ x[1] # x[2]
              /\ x[3] \in DOMAIN groups[x[1]] /\ x[4] \in DOMAIN groups[x[2]]
              /\ x = <<x[1], x[2], x[3], x[4]>>
              /\ \E a, b, i, j \in Int : x = <<a, b, i, j>>
<1> DEFINE X == Exchanges(groups)
           Z == (Groups \X Groups) \X ((1 .. K) \X (1 .. K))
           f == [x \in X |-> <<<<x[1], x[2]>>, <<x[3], x[4]>>>>]
<1>1. M \in Nat \ {0, 1} /\ Groups = 0 .. M - 1
  BY LayoutAssumption DEF Groups
<1>2. \A g \in Groups : /\ DOMAIN groups[g] = 1 .. Len(groups[g])
                        /\ DOMAIN groups[g] \subseteq 1 .. K
  OBVIOUS
<1>3. \A x \in X :
        /\ x[1] \in Groups /\ x[2] \in Groups /\ x[1] # x[2]
        /\ x[3] \in DOMAIN groups[x[1]] /\ x[4] \in DOMAIN groups[x[2]]
        /\ x = <<x[1], x[2], x[3], x[4]>>
  <2> TAKE x \in X
  <2>1. PICK a \in Groups :
          x \in UNION {{<<a, b, i, j>> : i \in DOMAIN groups[a],
                                         j \in DOMAIN groups[b]} : b \in a + 1 .. M - 1}
    BY DEF Exchanges
  <2>2. PICK b \in a + 1 .. M - 1 :
          x \in {<<a, b, i, j>> : i \in DOMAIN groups[a], j \in DOMAIN groups[b]}
    BY <2>1
  <2>3. PICK i \in DOMAIN groups[a] : \E j \in DOMAIN groups[b] : x = <<a, b, i, j>>
    BY <2>2
  <2>4. PICK j \in DOMAIN groups[b] : x = <<a, b, i, j>>
    BY <2>3
  <2>5. b \in Groups /\ a # b
    BY <1>1
  <2> QED
    BY <2>4, <2>5
<1>4. X # {}
  <2>1. 0 \in Groups /\ 1 \in Groups /\ 1 \in 0 + 1 .. M - 1
    BY <1>1
  <2>2. 1 \in DOMAIN groups[0] /\ 1 \in DOMAIN groups[1]
    BY <1>2, <2>1
  <2>3. <<0, 1, 1, 1>> \in {<<0, 1, i, j>> : i \in DOMAIN groups[0],
                                             j \in DOMAIN groups[1]}
    BY <2>2
  <2>4. <<0, 1, 1, 1>> \in UNION {{<<0, b, i, j>> : i \in DOMAIN groups[0],
                                 j \in DOMAIN groups[b]} : b \in 0 + 1 .. M - 1}
    BY <2>1, <2>3
  <2>5. <<0, 1, 1, 1>> \in X
    BY ONLY <2>1, <2>4 DEF Exchanges
  <2> QED
    BY ONLY <2>5
<1> HIDE DEF X
<1>5. IsFiniteSet(Z)
  <2>1. IsFiniteSet(Groups) /\ IsFiniteSet(1 .. K)
    BY GroupsFinite, FS_Interval
  <2>2. IsFiniteSet(Groups \X Groups) /\ IsFiniteSet((1 .. K) \X (1 .. K))
    BY <2>1, FS_Product
  <2> QED
    BY <2>2, FS_Product
<1>6. f \in [X -> Z]
  BY <1>2, <1>3
<1>7. \A x, y \in X : f[x] = f[y] => x = y
  <2> TAKE x, y \in X
  <2> HAVE f[x] = f[y]
  <2>1. x[1] = y[1] /\ x[2] = y[2] /\ x[3] = y[3] /\ x[4] = y[4]
    OBVIOUS
  <2> QED
    BY <1>3, <2>1
<1> HIDE DEF f, Z
<1>8. f \in Injection(X, Z)
  BY <1>6, <1>7 DEF Injection, IsInjective
<1>9. IsFiniteSet(X)
  BY <1>5, <1>8, FS_Injection
<1>10. \A x \in X : \E a, b, i, j \in Int : x = <<a, b, i, j>>
  <2> TAKE x \in X
  <2>1. x[1] \in Int /\ x[2] \in Int
    BY <1>1, <1>3
  <2>2. x[3] \in Int /\ x[4] \in Int
    BY <1>2, <1>3
  <2> QED
    BY <1>3, <2>1, <2>2
<1> QED
  BY <1>3, <1>4, <1>9, <1>10 DEF X

\* A sequence with one element replaced is one of the same length.
LEMMA SeqReplaced ==
  ASSUME NEW T, NEW s \in Seq(T), NEW k \in DOMAIN s, NEW d \in T
  PROVE  /\ [s EXCEPT ![k] = d] \in Seq(T)
         /\ DOMAIN [s EXCEPT ![k] = d] = DOMAIN s
         /\ Len([s EXCEPT ![k] = d]) = Len(s)
<1>1. s \in [1 .. Len(s) -> T] /\ Len(s) \in Nat
  OBVIOUS
<1>2. [s EXCEPT ![k] = d] \in [1 .. Len(s) -> T]
  BY <1>1
<1> QED
  BY <1>1, <1>2

\* A coordinate has one place.
LEMMA PlacedOnce ==
  ASSUME NEW groups, NEW S, Placing(groups, S), NEW g \in Groups, NEW o \in Groups,
         NEW x \in DOMAIN groups[g], NEW y \in DOMAIN groups[o],
         groups[g][x] = groups[o][y]
  PROVE  g = o /\ x = y
BY DEF Placing

\* Two coordinates of different groups exchanged, and what that comes to.
Swapped(groups, g, o, i, j) ==
  [groups EXCEPT ![g][i] = groups[o][j], ![o][j] = groups[g][i]]
IsSwap(groups, g, o, i, j, new) ==
  /\ Placing(new, Dims)
  /\ new[g] = [groups[g] EXCEPT ![i] = groups[o][j]]
  /\ new[o] = [groups[o] EXCEPT ![j] = groups[g][i]]
  /\ \A h \in Groups \ {g, o} : new[h] = groups[h]
  /\ \A h \in Groups : Len(new[h]) = Len(groups[h])

\* Two coordinates of different groups change places.
LEMMA Exchanged ==
  ASSUME NEW groups, Placing(groups, Dims), NEW g \in Groups, NEW o \in Groups,
         g # o, NEW i \in DOMAIN groups[g], NEW j \in DOMAIN groups[o]
  PROVE  IsSwap(groups, g, o, i, j, Swapped(groups, g, o, i, j))
<1> DEFINE new == Swapped(groups, g, o, i, j)
<1> DEFINE I == groups[g][i]
           J == groups[o][j]
<1>1. /\ groups \in [Groups -> Seq(Dims)]
      /\ \A h \in Groups : \A x \in DOMAIN groups[h] : groups[h][x] \in Dims
      /\ \A d \in Dims : \E h \in Groups : \E x \in DOMAIN groups[h] : groups[h][x] = d
      /\ \A h, e \in Groups : \A x \in DOMAIN groups[h] : \A y \in DOMAIN groups[e] :
           groups[h][x] = groups[e][y] => h = e /\ x = y
  BY DEF Placing
<1>2. I \in Dims /\ J \in Dims
  BY <1>1
<1>3. /\ new[g] = [groups[g] EXCEPT ![i] = J]
      /\ new[o] = [groups[o] EXCEPT ![j] = I]
      /\ \A h \in Groups \ {g, o} : new[h] = groups[h]
      /\ DOMAIN new = Groups
  BY <1>1 DEF Swapped
<1> HIDE DEF new
<1>4. /\ new[g] \in Seq(Dims) /\ new[o] \in Seq(Dims)
      /\ DOMAIN new[g] = DOMAIN groups[g] /\ DOMAIN new[o] = DOMAIN groups[o]
      /\ Len(new[g]) = Len(groups[g]) /\ Len(new[o]) = Len(groups[o])
  <2>1. /\ groups[g] \in Seq(Dims) /\ groups[o] \in Seq(Dims)
        /\ i \in DOMAIN groups[g] /\ j \in DOMAIN groups[o]
    BY <1>1
  <2> HIDE DEF I, J
  <2> QED
    BY ONLY <1>2, <1>3, <2>1, SeqReplaced
<1>5. new \in [Groups -> Seq(Dims)]
  <2>1. \A h \in Groups : new[h] \in Seq(Dims)
    BY <1>1, <1>3, <1>4
  <2>2. new = [h \in Groups |-> new[h]]
    BY <1>1 DEF Swapped, new
  <2> QED
    BY <2>1, <2>2
<1>6. \A h \in Groups : DOMAIN new[h] = DOMAIN groups[h] /\ Len(new[h]) = Len(groups[h])
  BY <1>3, <1>4
<1>7. \A h \in Groups : \A x \in DOMAIN groups[h] :
        new[h][x] = IF h = g /\ x = i THEN J
                    ELSE IF h = o /\ x = j THEN I ELSE groups[h][x]
  <2> HIDE DEF I, J
  <2> TAKE h \in Groups
  <2> TAKE x \in DOMAIN groups[h]
  <2>1. CASE h = g
    <3>1. new[h][x] = IF x = i THEN J ELSE groups[h][x]
      BY <1>3, <2>1
    <3> QED
      BY <2>1, <3>1
  <2>2. CASE h = o
    <3>1. new[h][x] = IF x = j THEN I ELSE groups[h][x]
      BY <1>3, <2>2
    <3> QED
      BY <2>2, <3>1
  <2>3. CASE h # g /\ h # o
    BY <1>3, <2>3
  <2> QED
    BY <2>1, <2>2, <2>3
<1>8. J = groups[o][j] /\ I = groups[g][i]
  OBVIOUS
<1> HIDE DEF I, J
<1>9. \A h \in Groups : \A x \in DOMAIN groups[h] : new[h][x] \in Dims
  <2> TAKE h \in Groups
  <2> TAKE x \in DOMAIN groups[h]
  <2>1. groups[h][x] \in Dims
    BY <1>1
  <2>2. new[h][x] = IF h = g /\ x = i THEN J
                    ELSE IF h = o /\ x = j THEN I ELSE groups[h][x]
    BY <1>7
  <2> QED
    BY ONLY <1>2, <2>1, <2>2
<1>10. \A d \in Dims : \E h \in Groups : \E x \in DOMAIN groups[h] : new[h][x] = d
  <2> TAKE d \in Dims
  <2>1. PICK h \in Groups : \E x \in DOMAIN groups[h] : groups[h][x] = d
    BY <1>1
  <2>2. PICK x \in DOMAIN groups[h] : groups[h][x] = d
    BY <2>1
  <2>3. CASE h = g /\ x = i
    <3>1. new[o][j] = d
      BY ONLY <1>7, <1>8, <2>2, <2>3, g # o, o \in Groups, j \in DOMAIN groups[o]
    <3> QED
      BY <3>1
  <2>4. CASE h = o /\ x = j
    <3>1. new[g][i] = d
      BY ONLY <1>7, <1>8, <2>2, <2>4, g # o, g \in Groups, i \in DOMAIN groups[g]
    <3> QED
      BY <3>1
  <2>5. CASE ~(h = g /\ x = i) /\ ~(h = o /\ x = j)
    <3>1. new[h][x] = d
      BY <1>7, <2>2, <2>5
    <3> QED
      BY <3>1
  <2> QED
    BY <2>3, <2>4, <2>5
<1>11. \A h, e \in Groups : \A x \in DOMAIN groups[h] : \A y \in DOMAIN groups[e] :
         new[h][x] = new[e][y] => h = e /\ x = y
  <2> TAKE h, e \in Groups
  <2> TAKE x \in DOMAIN groups[h]
  <2> TAKE y \in DOMAIN groups[e]
  <2> HAVE new[h][x] = new[e][y]
  <2>1. new[h][x] = IF h = g /\ x = i THEN J
                    ELSE IF h = o /\ x = j THEN I ELSE groups[h][x]
    BY <1>7
  <2>2. new[e][y] = IF e = g /\ y = i THEN J
                    ELSE IF e = o /\ y = j THEN I ELSE groups[e][y]
    BY <1>7
  <2>3. I # J
    BY <1>1, <1>8
  <2>4. /\ groups[h][x] = I => h = g /\ x = i
        /\ groups[h][x] = J => h = o /\ x = j
        /\ groups[e][y] = I => e = g /\ y = i
        /\ groups[e][y] = J => e = o /\ y = j
        /\ groups[h][x] = groups[e][y] => h = e /\ x = y
    <3>0. /\ Placing(groups, Dims) /\ h \in Groups /\ e \in Groups
          /\ g \in Groups /\ o \in Groups
          /\ x \in DOMAIN groups[h] /\ y \in DOMAIN groups[e]
          /\ i \in DOMAIN groups[g] /\ j \in DOMAIN groups[o]
      OBVIOUS
    <3>1. groups[h][x] = I => h = g /\ x = i
      BY ONLY <3>0, <1>8, PlacedOnce
    <3>2. groups[h][x] = J => h = o /\ x = j
      BY ONLY <3>0, <1>8, PlacedOnce
    <3>3. groups[e][y] = I => e = g /\ y = i
      BY ONLY <3>0, <1>8, PlacedOnce
    <3>4. groups[e][y] = J => e = o /\ y = j
      BY ONLY <3>0, <1>8, PlacedOnce
    <3>5. groups[h][x] = groups[e][y] => h = e /\ x = y
      BY ONLY <3>0, PlacedOnce
    <3> QED
      BY <3>1, <3>2, <3>3, <3>4, <3>5
  <2> QED
    BY <2>1, <2>2, <2>3, <2>4
<1>12. Placing(new, Dims)
  <2>1. /\ \A h \in Groups : \A x \in DOMAIN new[h] : new[h][x] \in Dims
        /\ \A d \in Dims : \E h \in Groups : \E x \in DOMAIN new[h] : new[h][x] = d
        /\ \A h, e \in Groups : \A x \in DOMAIN new[h] : \A y \in DOMAIN new[e] :
             new[h][x] = new[e][y] => h = e /\ x = y
    BY ONLY <1>6, <1>9, <1>10, <1>11
  <2> QED
    BY ONLY <1>5, <2>1 DEF Placing
<1> QED
  BY <1>3, <1>6, <1>8, <1>12 DEF new, IsSwap

\* An exchange leaves a full assignment full.
LEMMA ExchangeStep ==
  ASSUME NEW capacity, Capacity(capacity), NEW budget \in [Dims -> Int], NEW a,
         Filled(a, capacity, budget)
  PROVE  Filled(Exchange(a, budget), capacity, budget)
<1> DEFINE groups == a.groups
           loads == a.loads
           X == Exchanges(groups)
           delta == [x \in X |-> Delta(a, x, budget)]
           least == Min({delta[x] : x \in DOMAIN delta})
           found == {x \in DOMAIN delta : delta[x] = least}
           z == CHOOSE y \in found : \A u \in found \ {y} : Earlier(y, u)
           new == [groups EXCEPT ![z[1]][z[3]] = groups[z[2]][z[4]],
                                 ![z[2]][z[4]] = groups[z[1]][z[3]]]
           changed == [loads EXCEPT ![z[1]] = @ + Gain(a, z, budget),
                                    ![z[2]] = @ - Gain(a, z, budget)]
<1>1. /\ Placing(groups, Dims) /\ groups \in [Groups -> Seq(Dims)]
      /\ loads \in [Groups -> Int]
      /\ \A g \in Groups : Len(groups[g]) = capacity[g + 1]
      /\ \A g \in Groups : loads[g] = LoadOf(groups[g], budget)
      /\ a = [groups |-> groups, loads |-> loads]
  BY DEF Filled, Assigned
<1>2. Maximum \in Nat /\ \A g \in Groups : Len(groups[g]) \in 1 .. Maximum
  <2>1. 0 \in Groups
    BY DimsFinite DEF Groups
  <2>2. \A g \in Groups : capacity[g + 1] \in 1 .. Maximum
    BY CapacityNumbers
  <2>3. Maximum \in Int
    BY DimsFinite, LayoutAssumption DEF Maximum
  <2>4. Maximum \in Nat
    <3>1. capacity[0 + 1] \in 1 .. Maximum
      BY <2>1, <2>2
    <3> HIDE DEF Maximum
    <3> QED
      BY ONLY <2>3, <3>1
  <2> QED
    BY ONLY <1>1, <2>2, <2>4
<1>3. /\ IsFiniteSet(X) /\ X # {}
      /\ \A x \in X :
           /\ x[1] \in Groups /\ x[2] \in Groups /\ x[1] # x[2]
           /\ x[3] \in DOMAIN groups[x[1]] /\ x[4] \in DOMAIN groups[x[2]]
           /\ x = <<x[1], x[2], x[3], x[4]>>
           /\ \E g, o, i, j \in Int : x = <<g, o, i, j>>
  BY <1>1, <1>2, ExchangesFinite
<1>4. Exchange(a, budget) = IF least >= 0 THEN a
                            ELSE [groups |-> new, loads |-> changed]
  BY DEF Exchange
<1>5. DOMAIN delta = X
  OBVIOUS
<1>6. \A x \in X : delta[x] \in Int
  <2> TAKE x \in X
  <2>1. Gain(a, x, budget) \in Int
    <3>1. groups[x[1]][x[3]] \in Dims /\ groups[x[2]][x[4]] \in Dims
      <4>1. /\ groups[x[1]] \in Seq(Dims) /\ groups[x[2]] \in Seq(Dims)
            /\ x[3] \in DOMAIN groups[x[1]] /\ x[4] \in DOMAIN groups[x[2]]
        BY <1>1, <1>3
      <4> QED
        BY ONLY <4>1, SMTT(30)
    <3> QED
      BY <3>1 DEF Gain
  <2>2. loads[x[1]] \in Int /\ loads[x[2]] \in Int
    BY <1>1, <1>3
  <2>3. delta[x] = Delta(a, x, budget)
    OBVIOUS
  <2> HIDE DEF delta, X
  <2> QED
    BY <2>1, <2>2, <2>3 DEF Delta
<1> HIDE DEF delta, X
<1>7. z \in X
  <2>1. \E x \in X : delta[x] = least
    <3> DEFINE T == {delta[x] : x \in X}
    <3>1. IsFiniteSet(T)
      <4>1. delta \in Surjection(X, T)
        <5>1. \A t \in T : \E x \in X : delta[x] = t
          OBVIOUS
        <5>2. delta \in [X -> T]
          BY <1>5 DEF delta
        <5> HIDE DEF T
        <5> QED
          BY <5>1, <5>2 DEF Surjection
      <4> QED
        BY <1>3, <4>1, FS_Surjection
    <3>2. T # {} /\ T \subseteq Int
      BY <1>3, <1>6
    <3>3. least = Min(T)
      BY <1>5
    <3>4. Min(T) \in T
      <4> HIDE DEF T
      <4> QED
        BY <3>1, <3>2, MinNumber
    <3> QED
      BY <3>3, <3>4
  <2>2. found \subseteq X /\ found # {} /\ IsFiniteSet(found)
    <3>1. found \subseteq X /\ found # {}
      BY <1>5, <2>1
    <3> HIDE DEF found
    <3> QED
      BY <1>3, <3>1, FS_Subset
  <2>3. \E x \in found : \A u \in found \ {x} : Earlier(x, u)
    <3> HIDE DEF found
    <3>1. \A x \in found : \E g, o, i, j \in Int : x = <<g, o, i, j>>
      BY <1>3, <2>2
    <3> QED
      BY ONLY <2>2, <3>1, FirstQuadruple
  <2>4. z \in found
    <3> HIDE DEF found
    <3> QED
      BY <2>3
  <2> QED
    BY <2>2, <2>4
<1> HIDE DEF z, least
<1> DEFINE g == z[1]
           o == z[2]
           i == z[3]
           j == z[4]
<1>8. /\ g \in Groups /\ o \in Groups /\ g # o
      /\ i \in DOMAIN groups[g] /\ j \in DOMAIN groups[o]
  BY <1>3, <1>7
<1>9. /\ new = Swapped(groups, g, o, i, j)
      /\ Gain(a, z, budget) = budget[groups[o][j]] - budget[groups[g][i]]
  BY DEF Gain, Swapped
<1> DEFINE gain == Gain(a, z, budget)
<1>10. changed = [loads EXCEPT ![g] = @ + gain, ![o] = @ - gain]
  OBVIOUS
<1> HIDE DEF groups, loads, new, changed, gain, g, o, i, j
<1>11. /\ Placing(new, Dims)
       /\ new[g] = [groups[g] EXCEPT ![i] = groups[o][j]]
       /\ new[o] = [groups[o] EXCEPT ![j] = groups[g][i]]
       /\ \A h \in Groups \ {g, o} : new[h] = groups[h]
       /\ \A h \in Groups : Len(new[h]) = Len(groups[h])
  <2>1. IsSwap(groups, g, o, i, j, Swapped(groups, g, o, i, j))
    BY ONLY <1>1, <1>8, Exchanged
  <2> QED
    BY ONLY <1>9, <2>1 DEF IsSwap
<1>12. groups[g][i] \in Dims /\ groups[o][j] \in Dims
  BY ONLY <1>1, <1>8
<1>13. /\ budget[groups[g][i]] \in Int /\ budget[groups[o][j]] \in Int
       /\ gain = budget[groups[o][j]] - budget[groups[g][i]]
  BY <1>9, <1>12 DEF gain
<1>14. /\ LoadOf(new[g], budget) = loads[g] + gain
       /\ LoadOf(new[o], budget) = loads[o] - gain
  <2>1. groups[g] \in Seq(Dims) /\ groups[o] \in Seq(Dims)
    BY <1>1, <1>8
  <2>2. LoadOf(new[g], budget)
          = LoadOf(groups[g], budget) + (budget[groups[o][j]] - budget[groups[g][i]])
    <3>1. LoadOf([groups[g] EXCEPT ![i] = groups[o][j]], budget)
            = LoadOf(groups[g], budget) + (budget[groups[o][j]] - budget[groups[g][i]])
      BY <1>8, <1>12, <2>1, LoadReplace
    <3> QED
      BY ONLY <1>11, <3>1
  <2>3. LoadOf(new[o], budget)
          = LoadOf(groups[o], budget) + (budget[groups[g][i]] - budget[groups[o][j]])
    <3>1. LoadOf([groups[o] EXCEPT ![j] = groups[g][i]], budget)
            = LoadOf(groups[o], budget) + (budget[groups[g][i]] - budget[groups[o][j]])
      BY <1>8, <1>12, <2>1, LoadReplace
    <3> QED
      BY ONLY <1>11, <3>1
  <2>4. /\ loads[g] = LoadOf(groups[g], budget) /\ loads[o] = LoadOf(groups[o], budget)
        /\ loads[g] \in Int /\ loads[o] \in Int
    BY <1>1, <1>8
  <2> QED
    BY ONLY <1>13, <2>2, <2>3, <2>4
<1>15. /\ changed \in [Groups -> Int]
       /\ changed[g] = loads[g] + gain /\ changed[o] = loads[o] - gain
       /\ \A h \in Groups \ {g, o} : changed[h] = loads[h]
  <2>1. gain \in Int
    BY <1>13
  <2> QED
    BY ONLY <1>1, <1>8, <1>10, <2>1, SMTT(30)
<1>16. \A h \in Groups : changed[h] = LoadOf(new[h], budget)
  <2> TAKE h \in Groups
  <2>1. CASE h \in {g, o}
    BY <1>14, <1>15, <2>1
  <2>2. CASE h \notin {g, o}
    BY <1>1, <1>11, <1>15, <2>2
  <2> QED
    BY <2>1, <2>2
<1>17. \A h \in Groups : Len(new[h]) = capacity[h + 1]
  BY ONLY <1>1, <1>11
<1> DEFINE b == [groups |-> new, loads |-> changed]
<1>18. b \in Assigned
  BY ONLY <1>11, <1>15 DEF Assigned, Placing
<1>19. Filled(b, capacity, budget)
  <2>1. b.groups = new /\ b.loads = changed
    OBVIOUS
  <2> HIDE DEF b
  <2> QED
    BY ONLY <1>11, <1>16, <1>17, <1>18, <2>1 DEF Filled
<1> QED
  BY <1>4, <1>19

\* The eight exchanges.
ExchangeAll(budget, b) ==
  FoldLeft(LAMBDA a, n : Exchange(a, budget), b, [n \in 1 .. 8 |-> n])

\* Eight exchanges stay in a set an exchange stays in.
LEMMA ExchangeFold ==
  ASSUME NEW budget, NEW V, NEW b \in V, \A a \in V : Exchange(a, budget) \in V
  PROVE  ExchangeAll(budget, b) \in V
<1> DEFINE P == 1 .. 8
           F == [z \in P \X V |-> Exchange(z[2], budget)]
           Step(it) == [t \in SUBSET P |->
                          IF t = {} THEN b ELSE Exchange(it[t \ {Max(t)}], budget)]
           iter == CHOOSE it : it = Step(it)
<1>1. DOMAIN [n \in P |-> n] = P
  OBVIOUS
<1>2. ExchangeAll(budget, b) = iter[P]
  BY <1>1 DEF ExchangeAll, FoldLeft, MapThenFoldSet
<1>3. \A k \in P : \A v \in V : /\ F[<<k, v>>] = Exchange(v, budget)
                                /\ F[<<k, v>>] \in V
  OBVIOUS
<1> HIDE DEF F
<1>4. Closed(P, V, F)
  BY <1>3 DEF Closed
<1>5. PICK g : FoldsLeft(P, V, b, F, g)
  <2>1. P = 1 .. 8 /\ 8 \in Nat
    OBVIOUS
  <2> HIDE DEF P
  <2>2. \E g : FoldsLeft(P, V, b, F, g)
    BY <1>4, <2>1, FoldPositions
  <2> QED
    BY <2>2
<1>6. \A t \in SUBSET P : t # {} => g[t] = Exchange(g[t \ {Max(t)}], budget)
  BY <1>3, <1>5, MaxPosition DEF FoldsLeft
<1>7. g = Step(g)
  BY <1>5, <1>6 DEF FoldsLeft
<1>8. iter = Step(iter)
  BY <1>7
<1> HIDE DEF iter
<1>9. /\ iter[{}] = b
      /\ \A t \in SUBSET P : t # {} => iter[t] = Exchange(iter[t \ {Max(t)}], budget)
  BY <1>8
<1> DEFINE B == {n \in 0 .. 8 : iter[1 .. n] \in V}
<1>10. 0 \in B
  <2>1. 1 .. 0 = {} /\ 0 \in 0 .. 8
    OBVIOUS
  <2> QED
    BY <1>9, <2>1
<1>11. \A n \in 0 .. 8 - 1 : n \in B => n + 1 \in B
  <2> TAKE n \in 0 .. 8 - 1
  <2> HAVE n \in B
  <2>1. 1 .. n + 1 \in SUBSET P /\ n + 1 \in 0 .. 8 /\ n + 1 \in Nat /\ n + 1 # 0
    OBVIOUS
  <2>2. Max(1 .. n + 1) = n + 1 /\ (1 .. n + 1) \ {n + 1} = 1 .. (n + 1) - 1
        /\ 1 .. n + 1 # {}
    BY <2>1, MaxOfPrefix
  <2>3. 1 .. (n + 1) - 1 = 1 .. n
    OBVIOUS
  <2>4. iter[1 .. n + 1] = Exchange(iter[1 .. n], budget)
    <3> HIDE DEF P
    <3> QED
      BY ONLY <1>9, <2>1, <2>2, <2>3
  <2> QED
    BY <2>1, <2>4
<1>12. 8 \in B
  <2>1. 8 \in Nat /\ 8 \in 0 .. 8
    OBVIOUS
  <2> HIDE DEF B
  <2> QED
    BY <1>10, <1>11, <2>1, Induct
<1> QED
  BY <1>2, <1>12

\* assign_dimensions ends with a full assignment.
LEMMA AssignmentFilled ==
  ASSUME NEW pairs, Capacity(GroupCapacities(pairs)), NEW budget \in [Dims -> Int]
  PROVE  Filled(Assignment(pairs, budget), GroupCapacities(pairs), budget)
<1> DEFINE capacity == GroupCapacities(pairs)
           empty == [groups |-> [g \in Groups |-> <<>>],
                     loads |-> [g \in Groups |-> 0]]
           b == PlaceAll(capacity, budget, empty, Descending(budget))
           V == {a \in Assigned : Filled(a, capacity, budget)}
<1>1. Assignment(pairs, budget) = ExchangeAll(budget, b)
  BY DEF Assignment, ExchangeAll, PlaceAll
<1> HIDE DEF capacity
<1>2. Capacity(capacity)
  BY DEF capacity
<1>3. Placed(b, Dims, D, capacity, budget)
  BY <1>2, AllPlaced
<1> HIDE DEF b
<1>4. Filled(b, capacity, budget)
  BY <1>2, <1>3, PlacedFilled
<1>5. b \in V
  BY <1>4 DEF Filled
<1>6. \A a \in V : Exchange(a, budget) \in V
  <2> TAKE a \in V
  <2>1. Filled(Exchange(a, budget), capacity, budget)
    BY <1>2, ExchangeStep
  <2> QED
    BY <2>1 DEF Filled
<1> HIDE DEF V
<1>7. ExchangeAll(budget, b) \in V
  BY <1>5, <1>6, ExchangeFold
<1> QED
  BY <1>1, <1>7 DEF V, capacity

(***************************************************************************)
(* plan_paired_capacities.                                                 *)
(***************************************************************************)
\* Capacities of the pairs of groups that add up to half the coordinates.
Paired(cap) ==
  /\ cap \in [1 .. Pairs -> 1 .. Maximum]
  /\ SumFunctionOnSet(cap, 1 .. Pairs) = D \div 2

\* The sizes in terms of the pairs.
LEMMA PairSizes ==
  /\ Pairs \in Nat \ {0} /\ M = 2 * Pairs
  /\ D \div 2 \in Nat \ {0} /\ D = 2 * (D \div 2) /\ Pairs <= D \div 2
  /\ IsFiniteSet(1 .. Pairs) /\ Cardinality(1 .. Pairs) = Pairs
  /\ Maximum \in Int
<1>1. D \in Nat \ {0} /\ M \in 2 .. D /\ D % 2 = 0 /\ M % 2 = 0
  BY LayoutAssumption
<1>2. /\ Pairs \in Nat \ {0} /\ M = 2 * Pairs
      /\ D \div 2 \in Nat \ {0} /\ D = 2 * (D \div 2) /\ Pairs <= D \div 2
  BY <1>1 DEF Pairs
<1>3. IsFiniteSet(1 .. Pairs) /\ Cardinality(1 .. Pairs) = Pairs
  <2> HIDE DEF Pairs
  <2> QED
    BY <1>2, FS_Interval
<1>4. Maximum \in Int
  BY <1>1, LayoutAssumption DEF Maximum
<1> QED
  BY <1>2, <1>3, <1>4

\* Rounding up: what one more than a whole quotient leaves room for.
LEMMA RoundedUp ==
  ASSUME NEW m \in Nat \ {0}, NEW q \in Nat, NEW r \in Nat, r < m
  PROVE  /\ (q * m + r + m - 1) \div m \in Int
         /\ q <= (q * m + r + m - 1) \div m
         /\ r > 0 => q + 1 <= (q * m + r + m - 1) \div m
<1>1. CASE r = 0
  <2>1. q * m \in Nat
    OBVIOUS
  <2>2. m - 1 \in 0 .. m - 1 /\ q * m + r + m - 1 = q * m + (m - 1)
    BY <1>1, <2>1
  <2>3. (q * m + (m - 1)) \div m = q
    BY <2>2, Split
  <2> QED
    BY <1>1, <2>2, <2>3
<1>2. CASE r > 0
  <2>1. q * m \in Nat /\ (q + 1) * m = q * m + m /\ q + 1 \in Nat
    OBVIOUS
  <2>2. r - 1 \in 0 .. m - 1 /\ q * m + r + m - 1 = (q + 1) * m + (r - 1)
    BY <1>2, <2>1
  <2>3. ((q + 1) * m + (r - 1)) \div m = q + 1
    BY <2>1, <2>2, Split
  <2> QED
    BY <1>2, <2>1, <2>2, <2>3
<1> QED
  BY <1>1, <1>2

\* The capacities planning starts from add up to half the coordinates, and none
\* is zero or too wide.
LEMMA InitialPaired == Paired(InitialCapacities)
<1> DEFINE d == D \div 2
           base == d \div Pairs
           larger == d % Pairs
           cap == InitialCapacities
           A == 1 .. Pairs - larger
           B == Pairs - larger + 1 .. Pairs
<1>1. Pairs \in Nat \ {0} /\ d \in Nat \ {0} /\ Pairs <= d /\ D = 2 * d /\ M = 2 * Pairs
  BY PairSizes
<1>2. \A i \in 1 .. Pairs : cap[i] = IF i > Pairs - larger THEN base + 1 ELSE base
  BY DEF InitialCapacities
<1>3. DOMAIN cap = 1 .. Pairs /\ cap = [i \in 1 .. Pairs |-> cap[i]]
  BY DEF InitialCapacities
<1> HIDE DEF d
<1>4. base \in Nat /\ larger \in 0 .. Pairs - 1 /\ d = base * Pairs + larger
  BY <1>1, Whole
<1>5. base # 0
  <2>1. base = 0 => base * Pairs = 0
    BY <1>1
  <2> HIDE DEF base, larger
  <2> QED
    BY <1>1, <1>4, <2>1
<1> HIDE DEF base, larger, cap
<1>6. base <= Maximum /\ (larger > 0 => base + 1 <= Maximum)
  <2>1. CASE Widest = 0 \/ Widest \in (D + M - 1) \div M .. D
    <3> DEFINE r == 2 * larger
               up == (base * M + r + M - 1) \div M
    <3>1. M \in Nat \ {0} /\ r \in Nat /\ r < M
      BY <1>1, <1>4
    <3>2. base * M = 2 * (base * Pairs) /\ base * Pairs \in Nat
      BY <1>1, <1>4
    <3>3. D + M - 1 = base * M + r + M - 1
      <4> DEFINE x == base * Pairs
                 y == base * M
      <4>1. y = 2 * x /\ x \in Nat /\ d = x + larger
        BY <1>4, <3>2
      <4> HIDE DEF x, y
      <4>2. D + M - 1 = y + r + M - 1
        BY <1>1, <1>4, <4>1
      <4> QED
        BY <4>2 DEF y
    <3> HIDE DEF r
    <3>4. up \in Int /\ base <= up /\ (r > 0 => base + 1 <= up)
      BY <1>4, <3>1, RoundedUp
    <3>5. (D + M - 1) \div M = up
      BY <3>3
    <3> HIDE DEF up
    <3>6. Maximum \in Int /\ up <= Maximum
      BY <2>1, <3>4, <3>5, PairSizes DEF Maximum
    <3>7. larger > 0 => r > 0
      BY <1>4 DEF r
    <3> QED
      BY ONLY <1>4, <3>4, <3>6, <3>7
  <2> QED
    BY <2>1, LayoutAssumption
<1>7. cap \in [1 .. Pairs -> 1 .. Maximum]
  <2>1. \A i \in 1 .. Pairs : cap[i] \in 1 .. Maximum
    <3> TAKE i \in 1 .. Pairs
    <3>1. i > Pairs - larger => larger > 0
      BY <1>1, <1>4
    <3> QED
      BY <1>2, <1>4, <1>5, <1>6, <3>1, PairSizes
  <2> QED
    BY <1>3, <2>1
<1>8. /\ IsFiniteSet(A) /\ Cardinality(A) = Pairs - larger
      /\ IsFiniteSet(B) /\ Cardinality(B) = larger
      /\ A \cap B = {} /\ A \cup B = 1 .. Pairs
  <2>1. Pairs \in Int /\ Pairs - larger \in Int /\ Pairs - larger + 1 \in Int /\ 1 \in Int
    BY <1>1, <1>4
  <2>2. /\ IsFiniteSet(A)
        /\ Cardinality(A) = IF 1 > Pairs - larger THEN 0 ELSE Pairs - larger - 1 + 1
    BY <2>1, FS_Interval
  <2>3. /\ IsFiniteSet(B)
        /\ Cardinality(B) = IF Pairs - larger + 1 > Pairs THEN 0
                            ELSE Pairs - (Pairs - larger + 1) + 1
    BY <2>1, FS_Interval
  <2>4. A \cap B = {} /\ A \cup B = 1 .. Pairs
    BY <1>1, <1>4
  <2> QED
    BY <1>1, <1>4, <2>2, <2>3, <2>4
<1>9. \A i \in A : cap[i] = base
  BY <1>1, <1>2, <1>4
<1>10. \A i \in B : cap[i] = base + 1
  BY <1>1, <1>2, <1>4
<1> HIDE DEF A, B
<1>11. Numbers(cap, A) /\ SumFunctionOnSet(cap, A) = base * (Pairs - larger)
  <2>1. base \in Int
    BY <1>4
  <2> QED
    BY <1>8, <1>9, <2>1, SumConstant
<1>12. Numbers(cap, B) /\ SumFunctionOnSet(cap, B) = (base + 1) * larger
  <2>1. base + 1 \in Int
    BY <1>4
  <2> QED
    BY <1>8, <1>10, <2>1, SumConstant
<1>13. SumFunctionOnSet(cap, 1 .. Pairs)
         = base * (Pairs - larger) + (base + 1) * larger
  <2>1. SumFunctionOnSet(cap, A \cup B)
          = SumFunctionOnSet(cap, A) + SumFunctionOnSet(cap, B)
    BY ONLY <1>8, <1>11, <1>12, SumUnion
  <2> QED
    BY ONLY <1>8, <1>11, <1>12, <2>1
<1>14. base * (Pairs - larger) + (base + 1) * larger = base * Pairs + larger
  BY <1>1, <1>4
<1> QED
  BY <1>4, <1>7, <1>13, <1>14 DEF Paired, d, cap

\* A transfer moves a unit of capacity and sorts.
LEMMA TrialPaired ==
  ASSUME NEW cap, Paired(cap), NEW t \in Transfers(cap)
  PROVE  Paired(Trial(cap, t))
<1> DEFINE P == 1 .. Pairs
           from == t[1]
           to == t[2]
           less == [cap EXCEPT ![from] = @ - 1]
           mid == [less EXCEPT ![to] = @ + 1]
<1>1. /\ from \in P /\ to \in P /\ from # to
      /\ cap[from] > 1 /\ cap[to] < Maximum
  BY DEF Transfers
<1>2. /\ cap \in [P -> 1 .. Maximum] /\ SumFunctionOnSet(cap, P) = D \div 2
      /\ Pairs \in Nat /\ IsFiniteSet(P) /\ D \div 2 \in Int /\ Maximum \in Int
  BY PairSizes DEF Paired
<1>3. Trial(cap, t) = Ascending(mid)
  <2>1. mid = [cap EXCEPT ![from] = @ - 1, ![to] = @ + 1]
    BY <1>1, <1>2
  <2> QED
    BY <2>1 DEF Trial
<1> HIDE DEF from, to
<1>4. /\ less \in [P -> 1 .. Maximum] /\ less[from] = cap[from] - 1
      /\ \A i \in P \ {from} : less[i] = cap[i]
  <2>1. cap[from] - 1 \in 1 .. Maximum
    BY <1>1, <1>2
  <2> QED
    BY <1>1, <1>2, <2>1
<1> HIDE DEF less
<1>5. /\ mid \in [P -> 1 .. Maximum] /\ mid[to] = less[to] + 1
      /\ \A i \in P \ {to} : mid[i] = less[i]
  <2>1. less[to] + 1 \in 1 .. Maximum
    BY <1>1, <1>2, <1>4, SMTT(30)
  <2> QED
    BY <1>1, <1>4, <2>1
<1> HIDE DEF mid
<1>6. /\ Numbers(mid, P) /\ SumFunctionOnSet(mid, P) = D \div 2
  <2>1. Numbers(cap, P)
    BY <1>2 DEF Numbers
  <2>2. less[from] = cap[from] + (-1) /\ -1 \in Int /\ 1 \in Int
    BY <1>1, <1>2, <1>4
  <2> HIDE DEF P
  <2>3. /\ Numbers(less, P)
        /\ SumFunctionOnSet(less, P) = SumFunctionOnSet(cap, P) + (-1)
    BY ONLY <1>1, <1>4, <2>1, <2>2, SumBump
  <2>4. /\ Numbers(mid, P)
        /\ SumFunctionOnSet(mid, P) = SumFunctionOnSet(less, P) + 1
    BY ONLY <1>1, <1>5, <2>2, <2>3, SumBump
  <2>5. SumFunctionOnSet(cap, P) \in Int
    BY <1>2
  <2> QED
    BY ONLY <1>2, <2>3, <2>4, <2>5
<1>7. PICK p \in [P -> P] :
        /\ \A i, j \in P : p[i] = p[j] => i = j
        /\ \A k \in P : \E i \in P : p[i] = k
        /\ Ascending(mid) = [i \in P |-> mid[p[i]]]
  <2>1. mid \in [1 .. Pairs -> Int] /\ Pairs \in Nat
    BY <1>2, <1>5
  <2>2. \E p \in [1 .. Pairs -> 1 .. Pairs] :
          /\ \A i, j \in 1 .. Pairs : p[i] = p[j] => i = j
          /\ \A k \in 1 .. Pairs : \E i \in 1 .. Pairs : p[i] = k
          /\ Ascending(mid) = [i \in 1 .. Pairs |-> mid[p[i]]]
          /\ \A i, j \in 1 .. Pairs : i < j => mid[p[i]] <= mid[p[j]]
    BY ONLY <2>1, AscendingOrder
  <2> QED
    BY <2>2
<1> DEFINE new == Ascending(mid)
<1>8. new \in [P -> 1 .. Maximum] /\ \A i \in P : new[i] = mid[p[i]]
  BY <1>5, <1>7
<1> HIDE DEF new, P
<1>9. SumFunctionOnSet(new, P) = SumFunctionOnSet(mid, P)
  <2>1. \A i \in P : p[i] \in P /\ mid[p[i]] \in Int /\ new[i] = mid[p[i]]
    BY <1>5, <1>7, <1>8
  <2> QED
    <3>1. Renames(P, P, p, mid, new)
      BY ONLY <1>2, <1>7, <2>1 DEF Renames
    <3> QED
      BY ONLY <3>1, SumRename
<1> QED
  BY <1>3, <1>6, <1>8, <1>9 DEF Paired, P, new

\* The first of some pairs of numbers.
LEMMA FirstPair ==
  ASSUME NEW S, IsFiniteSet(S), S # {},
         \A x \in S : \E a, b \in Int : x = <<a, b>>
  PROVE  \E x \in S : \A y \in S \ {x} : Earlier(x, y)
<1> DEFINE Less(x, y) == \/ x[1] < y[1]
                         \/ x[1] = y[1] /\ x[2] < y[2]
           R == {p \in S \X S : Less(p[1], p[2])}
<1>1. \A x \in S : x[1] \in Int /\ x[2] \in Int /\ x = <<x[1], x[2]>>
  OBVIOUS
<1>2. \A x, y \in S : <<x, y>> \in R <=> Less(x, y)
  OBVIOUS
<1> HIDE DEF R
<1>3. \A x \in S : <<x, x>> \notin R
  BY <1>1, <1>2
<1>4. \A x, y, z \in S : <<x, y>> \in R /\ <<y, z>> \in R => <<x, z>> \in R
  BY <1>1, <1>2
<1>5. \A x, y \in S : x # y => <<x, y>> \in R \/ <<y, x>> \in R
  <2> TAKE x, y \in S
  <2> HAVE x # y
  <2>1. x[1] # y[1] \/ x[2] # y[2]
    BY <1>1
  <2> QED
    BY <1>1, <1>2, <2>1
<1>6. PICK x \in S : \A y \in S \ {x} : <<x, y>> \in R
  <2>1. IsFiniteSet(S) /\ S # {}
    OBVIOUS
  <2>2. \E x \in S : \A y \in S \ {x} : <<x, y>> \in R
    BY ONLY <1>3, <1>4, <1>5, <2>1, FirstInOrder
  <2> QED
    BY <2>2
<1>7. ASSUME NEW y \in S, Less(x, y) PROVE Earlier(x, y)
  <2>1. DOMAIN x = 1 .. 2
    BY <1>1
  <2>2. 1 \in 1 .. 2 /\ 2 \in 1 .. 2
    OBVIOUS
  <2>3. 1 .. 1 - 1 = {} /\ 1 .. 2 - 1 = {1}
    OBVIOUS
  <2> QED
    BY <1>7, <2>1, <2>2, <2>3 DEF Earlier
<1> QED
  BY <1>2, <1>6, <1>7

\* A pass of the hill climb makes a transfer.
LEMMA PassPaired ==
  ASSUME NEW cap, Paired(cap), NEW budget, Improving(cap, budget) # {}
  PROVE  Paired(Trial(cap, CHOOSE t \in Improving(cap, budget) :
                             \A u \in Improving(cap, budget) \ {t} : Earlier(t, u)))
<1> DEFINE best == Improving(cap, budget)
<1>1. best \subseteq Transfers(cap)
  BY DEF Improving
<1> HIDE DEF best
<1>2. best # {}
  BY DEF best
<1>3. IsFiniteSet(best) /\ \A x \in best : \E a, b \in Int : x = <<a, b>>
  <2>1. best \subseteq (1 .. Pairs) \X (1 .. Pairs)
    BY <1>1 DEF Transfers
  <2>2. IsFiniteSet((1 .. Pairs) \X (1 .. Pairs))
    BY PairSizes, FS_Product
  <2> QED
    BY <2>1, <2>2, FS_Subset
<1>4. \E x \in best : \A y \in best \ {x} : Earlier(x, y)
  BY ONLY <1>2, <1>3, FirstPair
<1>5. (CHOOSE t \in best : \A u \in best \ {t} : Earlier(t, u)) \in best
  BY <1>4
<1> QED
  BY <1>1, <1>5, TrialPaired DEF best

\* Capacities of the groups: they add up, ascend, and come in pairs.
Regular(c) ==
  /\ Capacity(c)
  /\ \A i, j \in 1 .. M : i < j => c[i] <= c[j]
  /\ \A k \in 1 .. Pairs : c[2 * k - 1] = c[2 * k]

\* Sequences are functions on their positions.
LEMMA FunctionSeq ==
  ASSUME NEW T, NEW n \in Nat, NEW s \in [1 .. n -> T]
  PROVE  s \in Seq(T) /\ Len(s) = n /\ DOMAIN s = 1 .. n
OBVIOUS

\* A sequence is a function on the numbers up to its length.
LEMMA SeqFunction ==
  ASSUME NEW T, NEW s \in Seq(T)
  PROVE  s \in [1 .. Len(s) -> T] /\ Len(s) \in Nat
OBVIOUS

\* Every pair gives two groups of its capacity: sorted, the capacities come in
\* equal neighbours 2k - 1 and 2k, ascend, and add up to D.
LEMMA GroupCapacitiesRegular ==
  ASSUME NEW cap, Paired(cap)
  PROVE  Regular(GroupCapacities(cap))
<1> DEFINE P == 1 .. Pairs
           s == cap \o cap
           c == GroupCapacities(cap)
           shift == [i \in P |-> Pairs + i]
           Q == {shift[i] : i \in P}
<1>1. /\ Pairs \in Nat \ {0} /\ M = 2 * Pairs /\ M \in Nat /\ D = 2 * (D \div 2)
      /\ D \div 2 \in Int /\ IsFiniteSet(P)
  BY PairSizes
<1>2. cap \in [P -> 1 .. Maximum] /\ SumFunctionOnSet(cap, P) = D \div 2
  BY DEF Paired
<1>3. /\ s \in [1 .. M -> 1 .. Maximum]
      /\ \A i \in P : s[i] = cap[i] /\ s[Pairs + i] = cap[i]
  <2>1. cap \in Seq(1 .. Maximum) /\ Len(cap) = Pairs
    <3>1. cap \in [1 .. Pairs -> 1 .. Maximum] /\ Pairs \in Nat
      BY <1>1, <1>2
    <3> QED
      BY ONLY <3>1, FunctionSeq
  <2>2. s \in Seq(1 .. Maximum) /\ Len(s) = M
    <3> HIDE DEF Maximum, Pairs
    <3> QED
      BY <1>1, <2>1
  <2>3. \A i \in P : s[i] = cap[i] /\ s[Pairs + i] = cap[i]
    <3> HIDE DEF Maximum, Pairs
    <3> QED
      BY <1>1, <2>1
  <2>4. s \in [1 .. M -> 1 .. Maximum]
    <3>1. s \in [1 .. Len(s) -> 1 .. Maximum]
      BY ONLY <2>2, SeqFunction
    <3> QED
      BY ONLY <2>2, <3>1
  <2> QED
    BY <2>3, <2>4
<1> HIDE DEF s
<1>4. PICK p \in [1 .. M -> 1 .. M] :
        /\ \A i, j \in 1 .. M : p[i] = p[j] => i = j
        /\ \A k \in 1 .. M : \E i \in 1 .. M : p[i] = k
        /\ c = [i \in 1 .. M |-> s[p[i]]]
        /\ \A i, j \in 1 .. M : i < j => s[p[i]] <= s[p[j]]
  <2>1. s \in [1 .. M -> Int] /\ M \in Nat
    BY <1>1, <1>3
  <2>2. \E p \in [1 .. M -> 1 .. M] :
          /\ \A i, j \in 1 .. M : p[i] = p[j] => i = j
          /\ \A k \in 1 .. M : \E i \in 1 .. M : p[i] = k
          /\ Ascending(s) = [i \in 1 .. M |-> s[p[i]]]
          /\ \A i, j \in 1 .. M : i < j => s[p[i]] <= s[p[j]]
    BY ONLY <2>1, AscendingOrder
  <2>3. c = Ascending(s)
    BY DEF GroupCapacities, s
  <2> QED
    BY <2>2, <2>3
<1> HIDE DEF c
<1>5. c \in [1 .. M -> 1 .. Maximum] /\ \A i \in 1 .. M : c[i] = s[p[i]]
  BY <1>3, <1>4
<1>6. \A i, j \in 1 .. M : i < j => c[i] <= c[j]
  BY <1>4, <1>5
<1>7. /\ \A i \in P : shift[i] = Pairs + i
      /\ \A i, j \in P : shift[i] = shift[j] => i = j
      /\ P \cap Q = {} /\ P \cup Q = 1 .. M /\ Q \subseteq 1 .. M
      /\ P \subseteq 1 .. M
  <2>1. \A x : x \in Q <=> \E i \in P : x = Pairs + i
    OBVIOUS
  <2> HIDE DEF Q
  <2>2. P \cap Q = {} /\ Q \subseteq 1 .. M /\ P \subseteq 1 .. M
    <3>1. \A x \in P : x \in 1 .. M
      BY <1>1
    <3>2. \A x \in Q : x \in 1 .. M /\ x \notin P
      <4> TAKE x \in Q
      <4>1. PICK i \in P : x = Pairs + i
        BY <2>1
      <4> HIDE DEF Pairs
      <4> QED
        BY ONLY <1>1, <4>1
    <3> HIDE DEF P
    <3> QED
      BY ONLY <3>1, <3>2
  <2>3. \A x \in 1 .. M : x \in P \cup Q
    <3> TAKE x \in 1 .. M
    <3>1. CASE x > Pairs
      <4>1. x - Pairs \in P /\ x = Pairs + (x - Pairs)
        BY <1>1, <3>1
      <4> QED
        BY <2>1, <4>1
    <3>2. CASE x <= Pairs
      BY <1>1, <3>2
    <3> QED
      BY <1>1, <3>1, <3>2
  <2>4. P \cup Q = 1 .. M
    BY ONLY <2>2, <2>3
  <2>5. \A i, j \in P : shift[i] = shift[j] => i = j
    BY <1>1
  <2>6. \A i \in P : shift[i] = Pairs + i
    OBVIOUS
  <2> QED
    BY ONLY <2>2, <2>4, <2>5, <2>6
<1> HIDE DEF shift
<1>8. IsFiniteSet(Q) /\ Cardinality(Q) = Cardinality(P)
  <2> DEFINE T == P
  <2>1. \A x, y \in T : shift[x] = shift[y] => x = y
    BY <1>7
  <2>2. Q = {shift[x] : x \in T} /\ T = P
    OBVIOUS
  <2>4. IsFiniteSet(T)
    BY <1>1
  <2> HIDE DEF T, Q
  <2>3. /\ IsFiniteSet({shift[x] : x \in T})
        /\ Cardinality({shift[x] : x \in T}) = Cardinality(T)
    BY <2>1, <2>4, ImageSize
  <2> QED
    BY ONLY <2>2, <2>3
<1>9. Numbers(s, 1 .. M) /\ SumFunctionOnSet(s, 1 .. M) = D
  <2>1. Numbers(cap, P)
    BY <1>1, <1>2 DEF Numbers
  <2>2. Numbers(s, P) /\ SumFunctionOnSet(s, P) = SumFunctionOnSet(cap, P)
    BY <1>3, <2>1, SumSame
  <2>3. Numbers(s, Q) /\ SumFunctionOnSet(cap, P) = SumFunctionOnSet(s, Q)
    <3>1. Renames(P, Q, shift, s, cap)
      <4>1. \A i \in P : s[shift[i]] = cap[i] /\ cap[i] \in Int
        BY <1>2, <1>3, <1>7
      <4> QED
        BY <1>1, <1>7, <4>1 DEF Renames
    <3> QED
      BY <3>1, SumRename
  <2> HIDE DEF P, Q
  <2>4. SumFunctionOnSet(s, P \cup Q) = SumFunctionOnSet(s, P) + SumFunctionOnSet(s, Q)
        /\ Numbers(s, P \cup Q)
    BY ONLY <1>7, <2>2, <2>3, SumUnion
  <2>5. SumFunctionOnSet(s, P) = D \div 2 /\ SumFunctionOnSet(s, Q) = D \div 2
    BY ONLY <1>2, <2>2, <2>3
  <2>6. SumFunctionOnSet(s, P \cup Q) = D
    BY ONLY <1>1, <2>4, <2>5
  <2>7. P \cup Q = 1 .. M
    BY <1>7
  <2> QED
    BY ONLY <2>4, <2>6, <2>7
<1>10. SumFunctionOnSet(c, 1 .. M) = D /\ Numbers(c, 1 .. M)
  <2>1. Renames(1 .. M, 1 .. M, p, s, c)
    <3>1. IsFiniteSet(1 .. M)
      BY <1>9 DEF Numbers
    <3>2. \A i \in 1 .. M : p[i] \in 1 .. M /\ s[p[i]] \in Int /\ c[i] = s[p[i]]
      BY <1>3, <1>4, <1>5
    <3> QED
      BY <1>4, <3>1, <3>2 DEF Renames
  <2> QED
    BY <1>9, <2>1, SumRename
<1>11. Capacity(c)
  <2> DEFINE next == [g \in Groups |-> g + 1]
             e == [g \in Groups |-> c[g + 1]]
  <2>1. Groups = 0 .. M - 1 /\ IsFiniteSet(Groups)
    BY GroupsFinite DEF Groups
  <2>2. Renames(Groups, 1 .. M, next, c, e)
    <3>1. \A g \in Groups : next[g] = g + 1 /\ next[g] \in 1 .. M /\ e[g] = c[next[g]]
      BY <1>1, <2>1
    <3>2. \A x \in 1 .. M : x - 1 \in Groups /\ next[x - 1] = x
      BY <1>1, <2>1
    <3> HIDE DEF next, e
    <3>3. \A x, y \in Groups : next[x] = next[y] => x = y
      BY <1>1, <2>1, <3>1
    <3>4. \A x \in 1 .. M : c[x] \in Int
      BY <1>5
    <3> QED
      BY <2>1, <3>1, <3>2, <3>3, <3>4 DEF Renames
  <2> HIDE DEF next
  <2>3. SumFunctionOnSet(e, Groups) = D
    <3> HIDE DEF e
    <3> QED
      BY <1>10, <2>2, SumRename
  <2> QED
    BY <1>5, <2>3 DEF Capacity
<1>12. ASSUME NEW k \in P PROVE c[2 * k - 1] = c[2 * k]
  <2> DEFINE v == c[2 * k - 1]
             K == {i \in P : cap[i] <= v}
             L == {shift[i] : i \in K}
             S == {i \in 1 .. M : s[i] <= v}
             C == {i \in 1 .. M : c[i] <= v}
  <2>1. /\ 2 * k - 1 \in 1 .. M /\ 2 * k \in 1 .. M /\ 2 * k - 1 < 2 * k
        /\ k \in Nat
    BY <1>1
  <2>2. SUFFICES ASSUME v < c[2 * k] PROVE FALSE
    <3>1. v \in Int /\ c[2 * k] \in Int /\ v <= c[2 * k]
      BY <1>5, <1>6, <2>1
    <3> QED
      BY <3>1
  <2>3. v \in Int
    BY <1>5, <2>1
  <2>4. C = 1 .. 2 * k - 1
    <3>1. \A i \in 1 .. M : i <= 2 * k - 1 => c[i] <= v
      <4> TAKE i \in 1 .. M
      <4> HAVE i <= 2 * k - 1
      <4>1. CASE i = 2 * k - 1
        BY <2>3, <4>1
      <4>2. CASE i < 2 * k - 1
        BY <1>6, <2>1, <4>2
      <4> QED
        BY <2>1, <4>1, <4>2
    <3>2. \A i \in 1 .. M : i > 2 * k - 1 => c[i] > v
      <4> TAKE i \in 1 .. M
      <4> HAVE i > 2 * k - 1
      <4>0. c[i] \in Int /\ c[2 * k] \in Int
        BY <1>5, <2>1
      <4>1. c[2 * k] <= c[i]
        <5>1. CASE i = 2 * k
          BY <4>0, <5>1
        <5>2. CASE i > 2 * k
          BY <1>6, <2>1, <5>2
        <5> QED
          BY <2>1, <5>1, <5>2
      <4> HIDE DEF v
      <4> QED
        BY <2>2, <2>3, <4>0, <4>1
    <3>3. \A i \in 1 .. M : c[i] \in Int
      BY <1>5
    <3> HIDE DEF v
    <3>4. \A i \in 1 .. M : c[i] <= v <=> i <= 2 * k - 1
      <4> TAKE i \in 1 .. M
      <4>1. c[i] \in Int
        BY <3>3
      <4>2. i <= 2 * k - 1 => c[i] <= v
        BY <3>1
      <4>3. i > 2 * k - 1 => c[i] > v
        BY <3>2
      <4>4. i \in Int /\ 2 * k - 1 \in Int
        BY <1>1, <2>1
      <4> QED
        BY ONLY <2>3, <4>1, <4>2, <4>3, <4>4
    <3>5. 1 .. 2 * k - 1 = {i \in 1 .. M : i <= 2 * k - 1}
      <4> DEFINE n == 2 * k - 1
      <4>1. n \in Int /\ n <= M /\ M \in Int
        BY <1>1, <2>1
      <4> HIDE DEF n
      <4>2. 1 .. n = {i \in 1 .. M : i <= n}
        BY ONLY <4>1
      <4> QED
        BY <4>2 DEF n
    <3> QED
      BY ONLY <3>4, <3>5
  <2> HIDE DEF v
  <2>5. IsFiniteSet(C) /\ Cardinality(C) = 2 * k - 1
    <3>1. 1 \in Int /\ 2 * k - 1 \in Int /\ ~(1 > 2 * k - 1) /\ 2 * k - 1 - 1 + 1 = 2 * k - 1
      BY <2>1
    <3> DEFINE x == 2 * k - 1
    <3> HIDE DEF x
    <3>2. IsFiniteSet(1 .. x) /\ Cardinality(1 .. x) = x
      BY <3>1, FS_Interval DEF x
    <3> HIDE DEF C
    <3> QED
      BY <2>4, <3>2 DEF x
  <2>6. S = {p[i] : i \in C}
    <3>1. \A i \in C : p[i] \in S
      BY <1>4, <1>5
    <3>2. \A x \in S : \E i \in C : p[i] = x
      BY <1>4, <1>5
    <3> HIDE DEF C, S
    <3> QED
      BY <3>1, <3>2
  <2>7. Cardinality(S) = 2 * k - 1
    <3>1. \A x, y \in C : p[x] = p[y] => x = y
      BY <1>4
    <3> HIDE DEF C, S
    <3>2. Cardinality({p[i] : i \in C}) = Cardinality(C)
      BY <2>5, <3>1, ImageSize
    <3> QED
      BY <2>5, <2>6, <3>2
  <2>8. S = K \cup L /\ K \cap L = {} /\ K \subseteq P
    <3>1. \A x \in S : x \in K \cup L
      <4> TAKE x \in S
      <4>1. CASE x \in P
        BY <1>3, <4>1
      <4>2. CASE x \in Q
        <5>1. PICK i \in P : x = shift[i]
          BY <4>2
        <5>2. s[x] = cap[i]
          BY <1>3, <1>7, <5>1
        <5>3. i \in K
          BY <5>2
        <5> QED
          BY <5>1, <5>3
      <4> QED
        BY <1>7, <4>1, <4>2
    <3>2. \A i \in K : i \in S
      BY <1>3, <1>7
    <3>3. \A i \in K : shift[i] \in S
      BY <1>3, <1>7
    <3>4. L \subseteq Q
      OBVIOUS
    <3>5. \A x \in L : \E i \in K : x = shift[i]
      OBVIOUS
    <3>6. L \subseteq S
      <4> HIDE DEF L, S, K
      <4> QED
        BY <3>3, <3>5
    <3> QED
      BY <1>7, <3>1, <3>2, <3>4, <3>6
  <2>9. /\ IsFiniteSet(K) /\ Cardinality(K) \in Nat
        /\ IsFiniteSet(L) /\ Cardinality(L) = Cardinality(K)
    <3>1. IsFiniteSet(K) /\ Cardinality(K) \in Nat
      <4> HIDE DEF K
      <4> QED
        BY <1>1, <2>8, FS_Subset, FS_CardinalityType
    <3>2. \A x, y \in K : shift[x] = shift[y] => x = y
      BY <1>7
    <3> HIDE DEF K
    <3> QED
      BY <3>1, <3>2, ImageSize
  <2> HIDE DEF K, L, S
  <2>10. Cardinality(S) = Cardinality(K) + Cardinality(L) - Cardinality(K \cap L)
    BY <2>8, <2>9, FS_Union
  <2>11. Cardinality(K \cap L) = 0
    BY <2>8, FS_EmptySet
  <2> QED
    BY <2>1, <2>7, <2>9, <2>10, <2>11
<1> QED
  BY <1>6, <1>11, <1>12 DEF Regular, c

(***************************************************************************)
(* build_buckets.                                                          *)
(***************************************************************************)
\* Groups that hold every coordinate once, one to four of them each, in pairs of
\* one width.
Arranged(groups) ==
  /\ Placing(groups, Dims)
  /\ \A g \in Groups : Len(groups[g]) \in 1 .. 4
  /\ \A k \in 0 .. Pairs - 1 : Len(groups[2 * k]) = Len(groups[2 * k + 1])

\* Groups filled to such capacities hold every coordinate once, and the groups
\* 2k and 2k + 1 have one width.
LEMMA FilledArranged ==
  ASSUME NEW c, Regular(c), NEW budget, NEW a, Filled(a, c, budget)
  PROVE  Arranged(a.groups)
<1>1. /\ Placing(a.groups, Dims)
      /\ \A g \in Groups : Len(a.groups[g]) = c[g + 1]
  BY DEF Filled
<1>2. /\ Groups = 0 .. M - 1 /\ M = 2 * Pairs /\ Pairs \in Nat \ {0} /\ M \in Nat
      /\ Maximum \in Int /\ Maximum <= 4
  BY PairSizes, CornersAssumption DEF Groups
<1>3. \A g \in Groups : Len(a.groups[g]) \in 1 .. 4
  <2> TAKE g \in Groups
  <2>1. g + 1 \in 1 .. M
    BY <1>2
  <2>2. c[g + 1] \in 1 .. Maximum
    BY <2>1 DEF Regular, Capacity
  <2>3. Len(a.groups[g]) = c[g + 1]
    BY <1>1
  <2> HIDE DEF Maximum
  <2> QED
    BY ONLY <1>2, <2>2, <2>3
<1>4. ASSUME NEW k \in 0 .. Pairs - 1
      PROVE  Len(a.groups[2 * k]) = Len(a.groups[2 * k + 1])
  <2>1. 2 * k \in Groups /\ 2 * k + 1 \in Groups /\ k + 1 \in 1 .. Pairs /\ k \in Int
    BY <1>2
  <2>2. c[2 * (k + 1) - 1] = c[2 * (k + 1)]
    BY <2>1 DEF Regular
  <2>3. 2 * (k + 1) - 1 = 2 * k + 1 /\ 2 * (k + 1) = (2 * k + 1) + 1
    BY <2>1
  <2> QED
    BY <1>1, <2>1, <2>2, <2>3
<1> QED
  BY <1>1, <1>3, <1>4 DEF Arranged

\* The first group starts a bucket, and every start is even.
LEMMA StartsEven ==
  ASSUME NEW groups, Arranged(groups)
  PROVE  /\ Starts(groups) \subseteq Groups /\ 0 \in Starts(groups)
         /\ IsFiniteSet(Starts(groups))
         /\ \A g \in Starts(groups) \cup {M} : g \in Nat /\ g % 2 = 0
<1>1. /\ Groups = 0 .. M - 1 /\ M = 2 * Pairs /\ Pairs \in Nat \ {0} /\ M \in Nat \ {0}
  BY PairSizes DEF Groups
<1>2. Starts(groups) \subseteq Groups /\ 0 \in Starts(groups)
  BY <1>1 DEF Starts
<1>3. IsFiniteSet(Starts(groups))
  BY <1>2, GroupsFinite, FS_Subset
<1>4. ASSUME NEW g \in Starts(groups) PROVE g \in Nat /\ g % 2 = 0
  <2>1. g \in Nat /\ g < M
    BY <1>1, <1>2
  <2>2. SUFFICES ASSUME g % 2 # 0 PROVE FALSE
    BY <2>1
  <2> DEFINE k == g \div 2
  <2>3. g = 2 * k + 1 /\ k \in Nat
    BY <2>1, <2>2
  <2> HIDE DEF k
  <2>4. k \in 0 .. Pairs - 1
    BY <1>1, <2>1, <2>3
  <2>5. Len(groups[2 * k]) = Len(groups[2 * k + 1])
    BY <2>4 DEF Arranged
  <2>6. g # 0 /\ g - 1 = 2 * k
    BY <2>3
  <2> QED
    BY <2>3, <2>5, <2>6 DEF Starts
<1>5. M \in Nat /\ M % 2 = 0
  BY LayoutAssumption
<1> QED
  BY <1>2, <1>3, <1>4, <1>5

\* A bucket ends at the next start; its groups have one width.
BucketEnd(groups, first) == Min({g \in Starts(groups) \cup {M} : g > first})

\* A bucket ends at an even group, and its groups have one width.
LEMMA BucketRange ==
  ASSUME NEW groups, Arranged(groups), NEW first \in Starts(groups)
  PROVE  /\ BucketEnd(groups, first) \in first + 1 .. M
         /\ BucketEnd(groups, first) \in Starts(groups) \cup {M}
         /\ BucketEnd(groups, first) % 2 = 0
         /\ \A g \in Starts(groups) : g > first => BucketEnd(groups, first) <= g
         /\ \A m \in first .. BucketEnd(groups, first) - 1 :
              m \in Groups /\ Len(groups[m]) = Len(groups[first])
<1> DEFINE S == {g \in Starts(groups) \cup {M} : g > first}
           end == BucketEnd(groups, first)
<1>1. /\ Starts(groups) \subseteq Groups /\ IsFiniteSet(Starts(groups))
      /\ \A g \in Starts(groups) \cup {M} : g \in Nat /\ g % 2 = 0
      /\ Groups = 0 .. M - 1 /\ M \in Nat \ {0}
  BY StartsEven, DimsFinite DEF Groups
<1>2. first \in Nat /\ first < M
  BY <1>1
<1>3. end \in S /\ \A g \in S : end <= g
  <2>1. IsFiniteSet(Starts(groups) \cup {M})
    BY <1>1, FS_AddElement
  <2>2. IsFiniteSet(S)
    BY <2>1, FS_Subset
  <2>3. S # {} /\ S \subseteq Int
    BY <1>1, <1>2
  <2>4. end = Min(S)
    BY DEF BucketEnd
  <2> HIDE DEF S, end
  <2> QED
    BY <2>2, <2>3, <2>4, MinNumber
<1> HIDE DEF end
<1>4. end \in Nat /\ end > first /\ end % 2 = 0 /\ end <= M
  BY <1>1, <1>2, <1>3
<1> DEFINE B == {n \in 0 .. end - 1 - first : Len(groups[first + n]) = Len(groups[first])}
<1>5. \A n \in 0 .. end - 1 - first : n \in B
  <2> DEFINE N == end - 1 - first
  <2>1. N \in Nat
    BY <1>2, <1>4
  <2>2. 0 \in B
    BY <1>2, <1>4
  <2>3. ASSUME NEW n \in 0 .. N - 1, n \in B PROVE n + 1 \in B
    <3> DEFINE g == first + (n + 1)
    <3>1. g \in Nat /\ g > first /\ g < end /\ g - 1 = first + n /\ n + 1 \in 0 .. N
      BY <1>2, <1>4
    <3>2. g \in Groups /\ g # 0
      BY <1>1, <1>2, <1>4, <3>1
    <3>3. g \notin Starts(groups)
      BY <1>1, <1>3, <1>4, <3>1
    <3>4. Len(groups[g]) = Len(groups[g - 1])
      BY <3>2, <3>3 DEF Starts
    <3>5. Len(groups[first + n]) = Len(groups[first])
      BY <2>3
    <3> HIDE DEF g
    <3>6. Len(groups[g]) = Len(groups[first])
      BY ONLY <3>1, <3>4, <3>5
    <3> QED
      BY <3>1, <3>6 DEF g
  <2> HIDE DEF B
  <2>4. \A n \in 0 .. N - 1 : n \in B => n + 1 \in B
    BY <2>3
  <2> HIDE DEF N
  <2>5. \A n \in 0 .. N : n \in B
    BY ONLY <2>1, <2>2, <2>4, Induct
  <2> QED
    BY <2>5 DEF N
<1>6. ASSUME NEW m \in first .. end - 1
      PROVE  m \in Groups /\ Len(groups[m]) = Len(groups[first])
  <2>1. m - first \in 0 .. end - 1 - first /\ first + (m - first) = m
    BY <1>2, <1>4
  <2>2. m \in Groups
    BY <1>1, <1>2, <1>4
  <2> QED
    BY <1>5, <2>1, <2>2
<1> QED
  BY <1>1, <1>2, <1>3, <1>4, <1>6 DEF end

\* Bucket b holds as many groups as it counts, from its first one on, in order.
Holds(b, groups) ==
  /\ b.first \in Nat /\ b.offset \in Nat /\ b.first = 2 * b.offset
  /\ b.count \in Nat \ {0} /\ b.count % 2 = 0 /\ b.width \in 1 .. 4
  /\ \A s \in 0 .. b.count - 1 : /\ b.first + s \in Groups
                                 /\ Len(groups[b.first + s]) = b.width
  /\ b.dimensions \in [1 .. b.width * b.count -> Dims]
  /\ \A s \in 0 .. b.count - 1 : \A k \in 1 .. b.width :
       b.dimensions[s * b.width + k] = groups[b.first + s][k]

\* The place of coordinate k of group s in a bucket of groups of width w.
LEMMA PlaceInBucket ==
  ASSUME NEW w \in Nat \ {0}, NEW n \in Nat, NEW s \in 0 .. n - 1, NEW k \in 1 .. w
  PROVE  /\ s * w + k \in 1 .. w * n
         /\ (s * w + k - 1) \div w = s
         /\ ((s * w + k - 1) % w) + 1 = k
<1>1. s \in Nat /\ k - 1 \in 0 .. w - 1
  OBVIOUS
<1>2. (s * w + (k - 1)) \div w = s /\ (s * w + (k - 1)) % w = k - 1
  BY <1>1, Split
<1>3. s * w \in Nat /\ s * w + k - 1 = s * w + (k - 1)
  BY <1>1
<1>4. s * w + w <= w * n
  <2>1. PICK r \in Nat : n = s + 1 + r
    <3>1. n - s - 1 \in Nat /\ n = s + 1 + (n - s - 1)
      OBVIOUS
    <3> QED
      BY <3>1
  <2>2. w * n = s * w + w + w * r /\ w * r \in Nat
    BY <1>1, <2>1
  <2> DEFINE x == s * w
             y == w * n
             z == w * r
  <2>3. x \in Nat /\ y = x + w + z /\ z \in Nat
    BY <1>3, <2>2
  <2> HIDE DEF x, y, z
  <2>4. x + w <= y
    BY <2>3
  <2> QED
    BY <2>4 DEF x, y
<1>5. s * w + k \in 1 .. w * n
  <2> DEFINE x == s * w
             y == w * n
  <2>1. x \in Nat /\ x + w <= y /\ y \in Int
    BY <1>3, <1>4
  <2> HIDE DEF x, y
  <2>2. x + k \in 1 .. y
    BY <2>1
  <2> QED
    BY <2>2 DEF x, y
<1> QED
  BY <1>2, <1>3, <1>5

\* Every place of a bucket is that of a coordinate of a group.
LEMMA PlaceOfBucket ==
  ASSUME NEW w \in Nat \ {0}, NEW n \in Nat, NEW x \in 1 .. w * n
  PROVE  \E s \in 0 .. n - 1, k \in 1 .. w : x = s * w + k
<1> DEFINE s == (x - 1) \div w
           r == (x - 1) % w
<1>1. w * n \in Nat /\ w * n = n * w
  OBVIOUS
<1>2. x - 1 \in Nat /\ x - 1 < n * w
  BY <1>1
<1>3. s \in Nat /\ r \in 0 .. w - 1 /\ x - 1 = s * w + r /\ s * w \in Nat
  <2>1. s \in Nat /\ r \in 0 .. w - 1 /\ x - 1 = s * w + r
    BY <1>2, Whole
  <2> HIDE DEF s, r
  <2>2. s * w \in Nat
    BY <2>1
  <2> QED
    BY <2>1, <2>2
<1>4. s < n
  BY <1>2, BelowProduct
<1> DEFINE y == s * w
<1> HIDE DEF s, r
<1>5. x = y + (r + 1)
  <2>1. y \in Nat /\ x - 1 = y + r
    BY <1>3
  <2> HIDE DEF y
  <2> QED
    BY <1>2, <1>3, <2>1
<1>6. s \in 0 .. n - 1 /\ r + 1 \in 1 .. w
  BY <1>3, <1>4
<1> QED
  BY <1>5, <1>6

\* build_buckets makes such buckets.
LEMMA BucketHolds ==
  ASSUME NEW groups, Arranged(groups), NEW first \in Starts(groups)
  PROVE  /\ Holds(Bucket(groups, first), groups)
         /\ Bucket(groups, first).first = first
         /\ Bucket(groups, first).count = BucketEnd(groups, first) - first
<1> DEFINE end == BucketEnd(groups, first)
           width == Len(groups[first])
           count == end - first
           f == [x \in 1 .. width * count |->
                   groups[first + (x - 1) \div width][((x - 1) % width) + 1]]
           b == Bucket(groups, first)
<1>1. b = [width |-> width, count |-> count, first |-> first, offset |-> first \div 2,
           dimensions |-> f]
  BY DEF Bucket, BucketEnd
<1>2. /\ first \in Groups /\ first \in Nat /\ first % 2 = 0 /\ M \in Nat
      /\ Groups \subseteq Nat
  BY StartsEven, GroupsFinite, DimsFinite
<1>3. /\ end \in first + 1 .. M /\ end % 2 = 0
      /\ \A m \in first .. end - 1 : m \in Groups /\ Len(groups[m]) = width
  BY BucketRange
<1>4. /\ groups \in [Groups -> Seq(Dims)]
      /\ \A g \in Groups : Len(groups[g]) \in 1 .. 4
  BY DEF Arranged, Placing
<1>5. /\ b.width = width /\ b.count = count /\ b.first = first
      /\ b.offset = first \div 2 /\ b.dimensions = f
  BY <1>1
<1> HIDE DEF b, end
<1>6. width \in 1 .. 4
  BY <1>2, <1>4
<1> HIDE DEF width
<1>7. count \in Nat \ {0} /\ count % 2 = 0 /\ first = 2 * (first \div 2)
      /\ first \div 2 \in Nat
  BY <1>2, <1>3
<1>8. \A s \in 0 .. count - 1 : first + s \in Groups /\ Len(groups[first + s]) = width
  <2> TAKE s \in 0 .. count - 1
  <2>1. first + s \in first .. end - 1
    BY <1>2, <1>3
  <2> QED
    BY <1>3, <2>1
<1>9. \A s \in 0 .. count - 1 : \A k \in 1 .. width : groups[first + s][k] \in Dims
  <2> TAKE s \in 0 .. count - 1
  <2> TAKE k \in 1 .. width
  <2>1. groups[first + s] \in Seq(Dims) /\ Len(groups[first + s]) = width
    BY <1>4, <1>8
  <2> QED
    BY <2>1
<1> HIDE DEF count
<1>10. /\ DOMAIN f = 1 .. width * count
       /\ \A s \in 0 .. count - 1 : \A k \in 1 .. width :
            f[s * width + k] = groups[first + s][k]
  <2>1. DOMAIN f = 1 .. width * count
    OBVIOUS
  <2>2. \A x \in 1 .. width * count :
          f[x] = groups[first + (x - 1) \div width][((x - 1) % width) + 1]
    OBVIOUS
  <2> HIDE DEF f
  <2>3. ASSUME NEW s \in 0 .. count - 1, NEW k \in 1 .. width
        PROVE  f[s * width + k] = groups[first + s][k]
    <3> DEFINE x == s * width + k
    <3>1. width \in Nat \ {0} /\ count \in Nat
      BY <1>6, <1>7
    <3>2. /\ x \in 1 .. width * count
          /\ (x - 1) \div width = s /\ ((x - 1) % width) + 1 = k
      BY <3>1, PlaceInBucket
    <3> HIDE DEF x
    <3>3. f[x] = groups[first + s][k]
      BY <2>2, <3>2
    <3> QED
      BY <3>3 DEF x
  <2> QED
    BY <2>1, <2>3
<1> HIDE DEF f
<1>11. f \in [1 .. width * count -> Dims]
  <2>1. \A x \in 1 .. width * count : f[x] \in Dims
    <3> TAKE x \in 1 .. width * count
    <3>0. width \in Nat \ {0} /\ count \in Nat
      BY <1>6, <1>7
    <3>1. PICK s \in 0 .. count - 1, k \in 1 .. width : x = s * width + k
      BY ONLY <3>0, x \in 1 .. width * count, PlaceOfBucket
    <3> QED
      BY <1>9, <1>10, <3>1
  <2>2. f = [x \in DOMAIN f |-> f[x]]
    BY DEF f
  <2> QED
    BY <1>10, <2>1, <2>2
<1>12. Holds(b, groups)
  BY ONLY <1>2, <1>5, <1>6, <1>7, <1>8, <1>10, <1>11 DEF Holds
<1> QED
  BY <1>5, <1>12 DEF b, count, end

\* Buckets that hold all groups, each in one of them.
InBucket(b, m) == m - b.first \in 0 .. b.count - 1
Cover(buckets, groups) ==
  /\ \E n \in Nat : DOMAIN buckets = 1 .. n
  /\ \A i \in DOMAIN buckets : Holds(buckets[i], groups)
  /\ \A m \in Groups : \E i \in DOMAIN buckets : InBucket(buckets[i], m)
  /\ \A i, j \in DOMAIN buckets : \A m \in Groups :
       InBucket(buckets[i], m) /\ InBucket(buckets[j], m) => i = j

\* build_buckets: the buckets of arranged groups hold each group once, at the
\* byte its number says.
LEMMA BucketsCover ==
  ASSUME NEW groups, Arranged(groups)
  PROVE  Cover(Buckets(groups), groups)
<1> DEFINE starts == Starts(groups)
           n == Cardinality(starts)
           key == [g \in starts |-> g]
           at == [i \in 1 .. n |-> Sorted(starts, key, i)]
           b == Buckets(groups)
<1>1. /\ starts \subseteq Groups /\ 0 \in starts /\ IsFiniteSet(starts)
      /\ Groups = 0 .. M - 1 /\ M \in Nat \ {0} /\ starts \subseteq Int
  BY StartsEven, DimsFinite DEF Groups
<1>2. b = [i \in 1 .. n |-> Bucket(groups, Sorted(starts, key, i))]
  BY DEF Buckets
<1> HIDE DEF starts
<1>3. \A x \in starts : key[x] = x /\ key[x] \in Int
  BY <1>1
<1> HIDE DEF key
<1>4. /\ n \in Nat
      /\ \A i \in 1 .. n : at[i] \in starts
      /\ \A i, j \in 1 .. n : i < j => key[at[i]] <= key[at[j]]
      /\ \A i, j \in 1 .. n : at[i] = at[j] => i = j
      /\ \A x \in starts : \E i \in 1 .. n : at[i] = x
  <2>1. \A x \in starts : key[x] \in Int
    BY <1>3
  <2>2. /\ n \in Nat
        /\ \A i \in 1 .. n : Sorted(starts, key, i) \in starts
        /\ \A i, j \in 1 .. n :
             i < j => /\ key[Sorted(starts, key, i)] <= key[Sorted(starts, key, j)]
                      /\ key[Sorted(starts, key, i)] = key[Sorted(starts, key, j)]
                           => Sorted(starts, key, i) < Sorted(starts, key, j)
        /\ \A i, j \in 1 .. n :
             Sorted(starts, key, i) = Sorted(starts, key, j) => i = j
        /\ \A x \in starts : \E i \in 1 .. n : Sorted(starts, key, i) = x
    BY <1>1, <2>1, SortedOrder
  <2>3. \A i \in 1 .. n : at[i] = Sorted(starts, key, i)
    OBVIOUS
  <2> HIDE DEF at, n
  <2> QED
    BY ONLY <2>2, <2>3
<1>5. DOMAIN b = 1 .. n /\ \A i \in 1 .. n : b[i] = Bucket(groups, at[i])
  BY <1>2
<1> HIDE DEF n, at, b
<1>6. \A i \in 1 .. n : /\ Holds(b[i], groups) /\ b[i].first = at[i]
                        /\ b[i].count = BucketEnd(groups, at[i]) - at[i]
  <2> TAKE i \in 1 .. n
  <2>1. at[i] \in Starts(groups)
    BY <1>4 DEF starts
  <2> QED
    BY <1>5, <2>1, BucketHolds
<1>7. \A i \in 1 .. n :
        /\ BucketEnd(groups, at[i]) \in at[i] + 1 .. M
        /\ BucketEnd(groups, at[i]) \in starts \cup {M}
        /\ \A g \in starts : g > at[i] => BucketEnd(groups, at[i]) <= g
  BY <1>4, BucketRange DEF starts
<1>8. \A i \in 1 .. n : \A m \in Groups :
        InBucket(b[i], m) <=> at[i] <= m /\ m < BucketEnd(groups, at[i])
  <2> TAKE i \in 1 .. n
  <2> TAKE m \in Groups
  <2> DEFINE end == BucketEnd(groups, at[i])
  <2>1. at[i] \in Int /\ end \in Int /\ m \in Int
    <3>1. at[i] \in starts /\ end \in at[i] + 1 .. M
      BY <1>4, <1>7
    <3> HIDE DEF end
    <3>2. at[i] \in Int
      BY <1>1, <3>1
    <3>3. end \in Int
      BY <1>1, <3>1, <3>2
    <3>4. m \in Int
      BY <1>1
    <3> QED
      BY <3>2, <3>3, <3>4
  <2>2. b[i].first = at[i] /\ b[i].count = end - at[i]
    BY <1>6
  <2> HIDE DEF end
  <2>3. InBucket(b[i], m) <=> at[i] <= m /\ m < end
    BY ONLY <2>1, <2>2 DEF InBucket
  <2> QED
    BY <2>3 DEF end
<1>9. ASSUME NEW m \in Groups PROVE \E i \in DOMAIN b : InBucket(b[i], m)
  <2> DEFINE F == {g \in starts : g <= m}
  <2>1. F \subseteq 0 .. M /\ F # {} /\ M \in Nat
    <3>1. 0 <= m
      BY <1>1
    <3>2. 0 \in F
      BY <1>1, <3>1
    <3>3. \A g \in F : g \in 0 .. M
      BY <1>1
    <3> HIDE DEF F
    <3> QED
      BY <1>1, <3>2, <3>3
  <2>2. PICK s \in F : \A y \in F : y <= s
    <3> HIDE DEF F
    <3> QED
      BY ONLY <2>1, GreatestNat
  <2>3. PICK i \in 1 .. n : at[i] = s
    BY <1>4, <2>2
  <2> DEFINE end == BucketEnd(groups, at[i])
  <2>4. end \in at[i] + 1 .. M /\ end \in starts \cup {M}
    BY <1>7
  <2> HIDE DEF end
  <2>5. m < end
    <3>1. SUFFICES ASSUME end <= m PROVE FALSE
      BY <1>1, <1>4, <2>4
    <3>2. end \in starts
      BY <1>1, <2>4, <3>1
    <3>3. end \in F
      BY <3>1, <3>2
    <3> QED
      BY <1>1, <1>4, <2>2, <2>3, <2>4, <3>3
  <2>6. InBucket(b[i], m)
    BY <1>8, <2>2, <2>3, <2>5 DEF end
  <2> QED
    BY <1>5, <2>6
<1>10. ASSUME NEW i \in DOMAIN b, NEW j \in DOMAIN b, NEW m \in Groups,
              InBucket(b[i], m), InBucket(b[j], m)
       PROVE  i = j
  <2> DEFINE x == at[i]
             y == at[j]
             endx == BucketEnd(groups, x)
             endy == BucketEnd(groups, y)
  <2>1. i \in 1 .. n /\ j \in 1 .. n
    BY <1>5
  <2>2. x <= m /\ m < endx /\ y <= m /\ m < endy
    BY <1>8, <1>10, <2>1
  <2>3. /\ x \in starts /\ y \in starts
        /\ y > x => endx <= y
        /\ x > y => endy <= x
        /\ endx \in x + 1 .. M /\ endy \in y + 1 .. M
    BY <1>4, <1>7, <2>1
  <2> HIDE DEF x, y
  <2>4. x \in Int /\ y \in Int /\ m \in Int
    BY <1>1, <2>3
  <2> HIDE DEF endx, endy
  <2>5. x = y
    BY <1>1, <2>2, <2>3, <2>4
  <2> QED
    BY <1>4, <2>1, <2>5 DEF x, y
<1> QED
  BY <1>4, <1>5, <1>6, <1>9, <1>10 DEF Cover, b

\* The coordinates of a group in its bucket are those of the group.
LEMMA CoordinatesHeld ==
  ASSUME NEW groups \in [Groups -> Seq(Dims)], NEW b, Holds(b, groups),
         NEW s \in 0 .. b.count - 1
  PROVE  Coordinates(b, s) = groups[b.first + s]
<1> DEFINE w == b.width
           f == b.dimensions
           t == groups[b.first + s]
           n == b.count
<1>1. /\ w \in 1 .. 4 /\ n \in Nat \ {0} /\ b.first + s \in Groups
      /\ Len(t) = w /\ f \in [1 .. w * n -> Dims] /\ s \in Nat
      /\ \A k \in 1 .. w : f[s * w + k] = t[k]
  BY DEF Holds
<1>2. t \in Seq(Dims)
  BY <1>1
<1>3. Coordinates(b, s) = SubSeq(f, s * w + 1, (s + 1) * w)
  BY DEF Coordinates
<1> HIDE DEF w, f, t, n
<1> DEFINE x == s * w
<1>4. x \in Nat /\ (s + 1) * w = x + w /\ s * w + 1 = x + 1
  BY <1>1
<1>5. \A k \in 1 .. w : f[x + k] = t[k]
  BY <1>1
<1>6. Coordinates(b, s) = SubSeq(f, x + 1, x + w)
  BY <1>3, <1>4
<1> HIDE DEF x
<1>7. SubSeq(f, x + 1, x + w) = [i \in 1 .. w |-> f[x + i]]
  <2> DEFINE a == x + 1
             e == x + w
             u == SubSeq(f, a, e)
  <2>1. a \in Int /\ e \in Int /\ a <= e /\ e - a + 1 = w /\ w \in Nat
    BY <1>1, <1>4
  <2>2. \A i \in 1 .. w : a + i - 1 = x + i
    BY <1>1, <1>4
  <2>3. \A i \in a .. e : f[i] \in Dims
    <3> TAKE i \in a .. e
    <3>1. i - x \in 1 .. w /\ x + (i - x) = i
      BY <1>1, <1>4
    <3>2. f[i] = t[i - x]
      BY <1>5, <3>1
    <3> QED
      BY <1>1, <1>2, <3>1, <3>2
  <2> HIDE DEF a, e
  <2>4. /\ u \in Seq(Dims) /\ Len(u) = w
        /\ \A i \in 1 .. w : u[i] = f[a + i - 1]
    BY <2>1, <2>3, SubSeqProperties
  <2> HIDE DEF u
  <2>5. u \in [1 .. w -> Dims]
    <3>1. u \in [1 .. Len(u) -> Dims]
      BY <2>4, SeqFunction
    <3> QED
      BY ONLY <2>4, <3>1
  <2>6. \A i \in 1 .. w : u[i] = f[x + i]
    BY <2>2, <2>4
  <2>7. u = [i \in 1 .. w |-> f[x + i]]
    BY ONLY <2>5, <2>6
  <2> QED
    BY <2>7 DEF u, a, e
<1>8. t = [i \in 1 .. w |-> t[i]]
  BY <1>1, <1>2
<1> QED
  BY <1>5, <1>6, <1>7, <1>8 DEF t

\* A nibble of a code codes the coordinates of its group.
LEMMA NibbleGroup ==
  ASSUME NEW groups \in [Groups -> Seq(Dims)], Cover(layout.buckets, groups),
         NEW m \in Groups
  PROVE  InByteRange(m) = groups[m]
<1> DEFINE B == layout.buckets
           i == CHOOSE i \in DOMAIN B : m - 2 * B[i].offset \in 0 .. B[i].count - 1
           b == B[i]
<1>1. InByteRange(m) = Coordinates(b, m - 2 * b.offset)
  BY DEF InByteRange
<1>2. \A j \in DOMAIN B : Holds(B[j], groups)
  BY DEF Cover
<1>3. \A j \in DOMAIN B : B[j].first = 2 * B[j].offset
  BY <1>2 DEF Holds
<1>4. \E j \in DOMAIN B : m - B[j].first \in 0 .. B[j].count - 1
  BY DEF Cover, InBucket
<1>5. i \in DOMAIN B /\ m - 2 * b.offset \in 0 .. b.count - 1
  <2> HIDE DEF B
  <2>1. \E j \in DOMAIN B : m - 2 * B[j].offset \in 0 .. B[j].count - 1
    BY <1>3, <1>4
  <2> QED
    BY <2>1
<1> HIDE DEF i, B
<1>6. Holds(b, groups) /\ b.first = 2 * b.offset
  BY <1>2, <1>3, <1>5
<1>7. Coordinates(b, m - 2 * b.offset) = groups[b.first + (m - 2 * b.offset)]
  BY <1>5, <1>6, CoordinatesHeld
<1>8. b.first + (m - 2 * b.offset) = m
  <2>1. m \in Nat /\ b.first \in Nat /\ b.offset \in Nat
    BY <1>6, GroupsFinite DEF Holds
  <2> QED
    BY <1>6, <2>1
<1> QED
  BY <1>1, <1>7, <1>8

(***************************************************************************)
(* The checks of train and read.                                           *)
(***************************************************************************)
\* A place of a bucket is that of a coordinate of one of its groups.
LEMMA BucketPlace ==
  ASSUME NEW groups \in [Groups -> Seq(Dims)], NEW b, Holds(b, groups),
         NEW x \in DOMAIN b.dimensions
  PROVE  \E s \in 0 .. b.count - 1, k \in 1 .. b.width :
           /\ x = s * b.width + k /\ b.dimensions[x] = groups[b.first + s][k]
           /\ b.first + s \in Groups /\ k \in DOMAIN groups[b.first + s]
           /\ InBucket(b, b.first + s)
<1> DEFINE w == b.width
           n == b.count
<1>1. /\ w \in Nat \ {0} /\ n \in Nat /\ x \in 1 .. w * n /\ b.first \in Nat
  BY DEF Holds
<1>2. PICK s \in 0 .. n - 1, k \in 1 .. w : x = s * w + k
  BY <1>1, PlaceOfBucket
<1>3. /\ b.dimensions[x] = groups[b.first + s][k]
      /\ b.first + s \in Groups /\ Len(groups[b.first + s]) = w
  BY <1>2 DEF Holds
<1>4. k \in DOMAIN groups[b.first + s]
  BY <1>3
<1>5. InBucket(b, b.first + s)
  BY <1>1 DEF InBucket
<1> QED
  BY <1>2, <1>3, <1>4, <1>5

\* A coordinate of a group has its place in the bucket of the group.
LEMMA PlaceInGroup ==
  ASSUME NEW groups \in [Groups -> Seq(Dims)], NEW b, Holds(b, groups),
         NEW m \in Groups, InBucket(b, m), NEW k \in DOMAIN groups[m]
  PROVE  \E x \in DOMAIN b.dimensions : b.dimensions[x] = groups[m][k]
<1> DEFINE w == b.width
           n == b.count
           s == m - b.first
<1>1. w \in Nat \ {0} /\ n \in Nat /\ b.first \in Nat /\ m \in Nat
  BY GroupsFinite, SMTT(30) DEF Holds
<1>2. s \in 0 .. n - 1 /\ b.first + s = m
  BY <1>1 DEF InBucket
<1> HIDE DEF s
<1>3. k \in 1 .. w
  BY <1>2, SMTT(30) DEF Holds
<1>4. s * w + k \in 1 .. w * n
  BY <1>1, <1>2, <1>3, PlaceInBucket
<1>5. b.dimensions[s * w + k] = groups[m][k]
  BY <1>2, <1>3 DEF Holds
<1>6. DOMAIN b.dimensions = 1 .. w * n
  BY DEF Holds
<1> QED
  BY <1>4, <1>5, <1>6

\* The buckets count the groups.
LEMMA CountsAdd ==
  ASSUME NEW groups, NEW buckets, Cover(buckets, groups)
  PROVE  SumFunction([i \in DOMAIN buckets |-> buckets[i].count \div 2]) = M \div 2
<1> DEFINE I == DOMAIN buckets
           X == [i \in I |-> buckets[i].first .. buckets[i].first + buckets[i].count - 1]
           f == [p \in PairsOf(I, X) |-> 1]
           line == [i \in I |-> [m \in X[i] |-> 1]]
           row == [i \in I |-> buckets[i].count]
           half == [i \in I |-> buckets[i].count \div 2]
           one == [g \in Groups |-> 1]
           e == [p \in PairsOf(I, X) |-> p[2]]
<1>1. IsFiniteSet(I)
  <2>1. PICK n \in Nat : I = 1 .. n
    BY DEF Cover
  <2> HIDE DEF I
  <2>2. 1 \in Int /\ n \in Int
    OBVIOUS
  <2> QED
    BY <2>1, <2>2, FS_Interval
<1>2. \A i \in I : /\ buckets[i].first \in Nat /\ buckets[i].count \in Nat \ {0}
                   /\ buckets[i].count % 2 = 0
                   /\ \A s \in 0 .. buckets[i].count - 1 : buckets[i].first + s \in Groups
  BY DEF Cover, Holds
<1>3. /\ \A m \in Groups : \E i \in I : InBucket(buckets[i], m)
      /\ \A i, j \in I : \A m \in Groups :
           InBucket(buckets[i], m) /\ InBucket(buckets[j], m) => i = j
      /\ Groups \subseteq Nat /\ IsFiniteSet(Groups) /\ Cardinality(Groups) = M
      /\ M \in Nat
  BY GroupsFinite, DimsFinite DEF Cover
<1> HIDE DEF I
<1>4. \A i \in I : \A m \in X[i] : m \in Groups /\ InBucket(buckets[i], m)
  <2> TAKE i \in I
  <2> TAKE m \in X[i]
  <2>1. /\ buckets[i].first \in Nat /\ buckets[i].count \in Nat
        /\ m \in buckets[i].first .. buckets[i].first + buckets[i].count - 1
    BY <1>2
  <2>2. m - buckets[i].first \in 0 .. buckets[i].count - 1
        /\ buckets[i].first + (m - buckets[i].first) = m
    BY <2>1
  <2>3. buckets[i].first + (m - buckets[i].first) \in Groups
    BY <1>2, <2>2
  <2> QED
    BY <2>2, <2>3 DEF InBucket
<1>5. \A i \in I : \A m \in Groups : InBucket(buckets[i], m) => m \in X[i]
  <2> TAKE i \in I
  <2> TAKE m \in Groups
  <2> HAVE InBucket(buckets[i], m)
  <2>1. /\ buckets[i].first \in Nat /\ buckets[i].count \in Nat
        /\ m - buckets[i].first \in 0 .. buckets[i].count - 1 /\ m \in Nat
    BY <1>2, <1>3 DEF InBucket
  <2>2. m \in buckets[i].first .. buckets[i].first + buckets[i].count - 1
    BY <2>1
  <2> QED
    BY <2>2
<1>6. \A i \in I : IsFiniteSet(X[i]) /\ Cardinality(X[i]) = row[i] /\ row[i] \in Int
  <2> TAKE i \in I
  <2> DEFINE a == buckets[i].first
             c == buckets[i].count
  <2>1. a \in Nat /\ c \in Nat \ {0}
    BY <1>2
  <2>2. X[i] = a .. a + c - 1 /\ row[i] = c
    OBVIOUS
  <2> HIDE DEF a, c, X, row
  <2>3. a \in Int /\ a + c - 1 \in Int /\ ~(a > a + c - 1) /\ a + c - 1 - a + 1 = c
    BY <2>1
  <2>4. IsFiniteSet(a .. a + c - 1) /\ Cardinality(a .. a + c - 1) = c
    <3> DEFINE y == a + c - 1
    <3>1. a \in Int /\ y \in Int /\ ~(a > y) /\ y - a + 1 = c
      BY ONLY <2>1
    <3> HIDE DEF y
    <3>2. IsFiniteSet(a .. y) /\ Cardinality(a .. y) = IF a > y THEN 0 ELSE y - a + 1
      BY <3>1, FS_Interval
    <3> QED
      BY <3>1, <3>2 DEF y
  <2> QED
    BY <2>1, <2>2, <2>4
<1>7. \A i \in I : \A m \in X[i] : <<i, m>> \in PairsOf(I, X)
  BY DEF PairsOf
<1>8. \A p \in PairsOf(I, X) : p[1] \in I /\ p[2] \in X[p[1]] /\ p = <<p[1], p[2]>>
  <2> HIDE DEF X
  <2> TAKE p \in PairsOf(I, X)
  <2>1. PICK i \in I : p \in {<<i, x>> : x \in X[i]}
    BY DEF PairsOf
  <2>2. PICK x \in X[i] : p = <<i, x>>
    BY <2>1
  <2> QED
    BY <2>2
<1>9. /\ \A p \in PairsOf(I, X) : f[p] = 1 /\ e[p] = p[2]
      /\ \A i \in I : \A m \in X[i] : line[i][m] = 1
      /\ \A i \in I : half[i] = buckets[i].count \div 2 /\ row[i] = buckets[i].count
      /\ \A g \in Groups : one[g] = 1
      /\ DOMAIN half = I /\ 1 \in Int
  OBVIOUS
<1>10. SumFunction(half) = SumFunctionOnSet(half, I)
  BY DEF SumFunction
<1> HIDE DEF f, e, line, half, row, one, X
<1>11. Lines(I, X, f, line, row)
  <2>1. ASSUME NEW i \in I PROVE row[i] = SumFunctionOnSet(line[i], X[i])
    <3>1. SumFunctionOnSet(line[i], X[i]) = 1 * Cardinality(X[i])
      BY <1>6, <1>9, SumConstant
    <3> QED
      BY <1>6, <3>1
  <2>2. \A i \in I : \A m \in X[i] : f[<<i, m>>] \in Int /\ line[i][m] = f[<<i, m>>]
    BY <1>7, <1>9
  <2> QED
    BY <1>1, <1>6, <2>1, <2>2 DEF Lines
<1>12. /\ Numbers(f, PairsOf(I, X)) /\ Numbers(row, I)
       /\ SumFunctionOnSet(f, PairsOf(I, X)) = SumFunctionOnSet(row, I)
  BY <1>11, SumRows
<1>13. Renames(PairsOf(I, X), Groups, e, one, f)
  <2>1. \A p \in PairsOf(I, X) :
          e[p] \in Groups /\ one[e[p]] \in Int /\ f[p] = one[e[p]]
    BY <1>4, <1>8, <1>9
  <2>2. \A p, q \in PairsOf(I, X) : e[p] = e[q] => p = q
    <3> TAKE p, q \in PairsOf(I, X)
    <3> HAVE e[p] = e[q]
    <3>1. p[2] = q[2]
      BY <1>9
    <3>2. p[1] = q[1]
      BY <1>3, <1>4, <1>8, <3>1
    <3> QED
      BY <1>8, <3>1, <3>2
  <2>3. \A m \in Groups : \E p \in PairsOf(I, X) : e[p] = m
    <3> TAKE m \in Groups
    <3>1. PICK i \in I : InBucket(buckets[i], m)
      BY <1>3
    <3>2. <<i, m>> \in PairsOf(I, X)
      BY <1>5, <1>7, <3>1
    <3>3. e[<<i, m>>] = m
      BY <1>9, <3>2
    <3> QED
      BY <3>2, <3>3
  <2>4. IsFiniteSet(PairsOf(I, X))
    BY <1>12 DEF Numbers
  <2> QED
    BY <2>1, <2>2, <2>3, <2>4 DEF Renames
<1>14. SumFunctionOnSet(row, I) = M
  <2>1. SumFunctionOnSet(f, PairsOf(I, X)) = SumFunctionOnSet(one, Groups)
    BY <1>13, SumRename
  <2>2. SumFunctionOnSet(one, Groups) = 1 * Cardinality(Groups)
    BY <1>3, <1>9, SumConstant
  <2> QED
    BY <1>3, <1>12, <2>1, <2>2
<1>15. Numbers(half, I) /\ \A i \in I : row[i] = 2 * half[i]
  <2>1. \A i \in I : half[i] \in Int /\ row[i] = 2 * half[i]
    <3> TAKE i \in I
    <3>1. buckets[i].count \in Nat /\ buckets[i].count % 2 = 0
      BY <1>2
    <3> QED
      BY <1>9, <3>1
  <2> QED
    BY <1>1, <2>1 DEF Numbers
<1>16. SumFunctionOnSet(row, I) = 2 * SumFunctionOnSet(half, I)
       /\ SumFunctionOnSet(half, I) \in Int
  <2>1. 2 \in Int
    OBVIOUS
  <2> QED
    BY <1>15, <2>1, SumScale, SumType
<1>17. SumFunction(half) = M \div 2
  BY <1>10, <1>14, <1>16, PairSizes
<1> QED
  BY <1>17 DEF half, I

\* Such buckets pass validate_layout: even counts, every coordinate once, and
\* M \div 2 bytes in all.
LEMMA CoverValid ==
  ASSUME NEW groups, Arranged(groups), NEW buckets, Cover(buckets, groups)
  PROVE  Valid(buckets)
<1> DEFINE I == DOMAIN buckets
           places == UNION {{<<i, x>> : x \in DOMAIN buckets[i].dimensions} : i \in I}
           dimension == [p \in places |-> buckets[p[1]].dimensions[p[2]]]
<1>1. /\ groups \in [Groups -> Seq(Dims)]
      /\ \A g \in Groups : \A x \in DOMAIN groups[g] : groups[g][x] \in Dims
      /\ \A j \in Dims : \E g \in Groups : \E x \in DOMAIN groups[g] : groups[g][x] = j
      /\ Placing(groups, Dims)
  BY DEF Arranged, Placing
<1>2. /\ \A i \in I : Holds(buckets[i], groups)
      /\ \A m \in Groups : \E i \in I : InBucket(buckets[i], m)
      /\ \A i, j \in I : \A m \in Groups :
           InBucket(buckets[i], m) /\ InBucket(buckets[j], m) => i = j
  BY DEF Cover
<1>3. \A p \in places : /\ p[1] \in I /\ p[2] \in DOMAIN buckets[p[1]].dimensions
                        /\ p = <<p[1], p[2]>>
  OBVIOUS
<1>4. \A i \in I : \A x \in DOMAIN buckets[i].dimensions : <<i, x>> \in places
  OBVIOUS
<1> HIDE DEF places
<1>5. /\ DOMAIN dimension = places
      /\ \A p \in places : dimension[p] = buckets[p[1]].dimensions[p[2]]
  OBVIOUS
<1> HIDE DEF dimension, I
<1>6. ASSUME NEW p \in places, NEW q \in places, dimension[p] = dimension[q]
      PROVE  p = q
  <2> DEFINE b == buckets[p[1]]
             c == buckets[q[1]]
  <2>1. Holds(b, groups) /\ Holds(c, groups)
    BY <1>2, <1>3
  <2>2. p[2] \in DOMAIN b.dimensions /\ q[2] \in DOMAIN c.dimensions
    BY <1>3
  <2>10. dimension[p] = b.dimensions[p[2]] /\ dimension[q] = c.dimensions[q[2]]
    BY <1>5
  <2> HIDE DEF b, c
  <2>3. PICK s \in 0 .. b.count - 1, k \in 1 .. b.width :
          /\ p[2] = s * b.width + k /\ b.dimensions[p[2]] = groups[b.first + s][k]
          /\ b.first + s \in Groups /\ k \in DOMAIN groups[b.first + s]
          /\ InBucket(b, b.first + s)
    BY <1>1, <2>1, <2>2, BucketPlace
  <2>4. PICK r \in 0 .. c.count - 1, l \in 1 .. c.width :
          /\ q[2] = r * c.width + l /\ c.dimensions[q[2]] = groups[c.first + r][l]
          /\ c.first + r \in Groups /\ l \in DOMAIN groups[c.first + r]
          /\ InBucket(c, c.first + r)
    BY <1>1, <2>1, <2>2, BucketPlace
  <2>5. groups[b.first + s][k] = groups[c.first + r][l]
    BY <1>6, <2>3, <2>4, <2>10
  <2>6. b.first + s = c.first + r /\ k = l
    <3> DEFINE g == b.first + s
               o == c.first + r
    <3>1. /\ g \in Groups /\ o \in Groups
          /\ k \in DOMAIN groups[g] /\ l \in DOMAIN groups[o]
          /\ groups[g][k] = groups[o][l] /\ Placing(groups, Dims)
      BY <1>1, <2>3, <2>4, <2>5
    <3> HIDE DEF g, o
    <3>2. g = o /\ k = l
      BY <3>1, PlacedOnce
    <3> QED
      BY <3>2 DEF g, o
  <2>7. p[1] = q[1] /\ b = c
    BY <1>2, <1>3, <2>3, <2>4, <2>6 DEF b, c
  <2>8. s = r
    <3>1. b.first \in Nat /\ c.first \in Nat /\ b.first = c.first
      BY <2>1, <2>7 DEF Holds
    <3>2. s \in Int /\ r \in Int
      BY <2>1 DEF Holds
    <3> HIDE DEF b, c
    <3> QED
      BY ONLY <2>6, <3>1, <3>2
  <2>9. p[2] = q[2]
    BY <2>3, <2>4, <2>6, <2>7, <2>8
  <2> QED
    BY <1>3, <2>7, <2>9
<1>7. IsInjective(dimension)
  BY <1>5, <1>6 DEF IsInjective
<1>8. Range(dimension) = Dims
  <2>1. \A p \in places : dimension[p] \in Dims
    <3> TAKE p \in places
    <3>1. buckets[p[1]].dimensions \in
            [1 .. buckets[p[1]].width * buckets[p[1]].count -> Dims]
      BY <1>2, <1>3 DEF Holds
    <3>2. p[2] \in DOMAIN buckets[p[1]].dimensions
      BY <1>3
    <3>3. buckets[p[1]].dimensions[p[2]] \in Dims
      BY ONLY <3>1, <3>2
    <3> QED
      BY <1>5, <3>3
  <2>2. \A j \in Dims : \E p \in places : dimension[p] = j
    <3> TAKE j \in Dims
    <3>1. PICK g \in Groups : \E x \in DOMAIN groups[g] : groups[g][x] = j
      BY <1>1
    <3>2. PICK k \in DOMAIN groups[g] : groups[g][k] = j
      BY <3>1
    <3>3. PICK i \in I : InBucket(buckets[i], g)
      BY <1>2
    <3>4. PICK x \in DOMAIN buckets[i].dimensions :
            buckets[i].dimensions[x] = groups[g][k]
      <4> DEFINE b == buckets[i]
      <4>1. Holds(b, groups) /\ InBucket(b, g)
        BY <1>2, <3>3
      <4> HIDE DEF b
      <4>2. \E x \in DOMAIN b.dimensions : b.dimensions[x] = groups[g][k]
        <5>1. groups \in [Groups -> Seq(Dims)]
          BY <1>1
        <5> QED
          BY <4>1, <5>1, PlaceInGroup
      <4> QED
        BY <4>2 DEF b
    <3>5. <<i, x>> \in places /\ dimension[<<i, x>>] = j
      BY <1>4, <1>5, <3>2, <3>4
    <3> QED
      BY <3>5
  <2> QED
    BY <1>5, <2>1, <2>2 DEF Range
<1>9. \A i \in I : buckets[i].count % 2 = 0
  BY <1>2 DEF Holds
<1>10. SumFunction([i \in DOMAIN buckets |-> buckets[i].count \div 2]) = M \div 2
  BY CountsAdd
<1> QED
  BY <1>7, <1>8, <1>9, <1>10 DEF Valid, dimension, places, I

\* What train makes of an uneven grouping and read makes again.
UnevenSound(l, h) ==
  /\ l = [groups |-> l.groups, loads |-> l.loads, budgets |-> Budgets(h),
          buckets |-> Buckets(l.groups)]
  /\ Arranged(l.groups)
  /\ LoadsPreserved(l.groups, l.loads, l.budgets)

\* The checks at the end of training pass.
LEMMA TrainPasses ==
  ASSUME heights \in Profiles, Paired(capacities)
  PROVE  UnevenSound(UnevenLayout, heights) /\ TrainAccepts(UnevenLayout)
<1> DEFINE budget == Budgets(heights)
           a == Assignment(capacities, budget)
           c == GroupCapacities(capacities)
           l == UnevenLayout
<1>1. l = [groups |-> a.groups, loads |-> a.loads, budgets |-> budget,
           buckets |-> Buckets(a.groups)]
  BY DEF UnevenLayout
<1>2. budget \in [Dims -> Int] /\ SumFunction(budget) = M * Target
  <2>1. PICK L \in Int : /\ Budgets(heights) = Above(heights, L)
                         /\ Budgets(heights) \in [Dims -> Nat]
                         /\ SumFunction(Budgets(heights)) = M * Target
    BY BudgetsAbove
  <2> QED
    BY <2>1
<1> HIDE DEF budget, l
<1>3. Regular(c)
  BY GroupCapacitiesRegular
<1>4. Filled(a, c, budget)
  <2>1. Capacity(c)
    BY <1>3 DEF Regular
  <2> QED
    BY <1>2, <2>1, AssignmentFilled
<1> HIDE DEF a, c
<1>5. Arranged(a.groups)
  BY <1>3, <1>4, FilledArranged
<1>6. /\ a.loads \in [Groups -> Int] /\ a.groups \in [Groups -> Seq(Dims)]
      /\ \A g \in Groups : a.loads[g] = LoadOf(a.groups[g], budget)
      /\ Placing(a.groups, Dims)
  BY <1>4 DEF Filled, Assigned
<1>7. /\ l.groups = a.groups /\ l.loads = a.loads /\ l.budgets = budget
      /\ l.buckets = Buckets(a.groups)
  BY <1>1
<1>8. LoadsPreserved(l.groups, l.loads, l.budgets)
  BY <1>6, <1>7, LoadsAre
<1>9. SumFunction(l.loads) = SumFunction(l.budgets)
  <2>1. SumFunction(budget) = SumFunctionOnSet(budget, Dims)
    BY <1>2, SumOverDims
  <2>2. SumFunction(a.loads) = SumFunctionOnSet(a.loads, Groups)
    BY <1>6 DEF SumFunction
  <2>3. SumFunctionOnSet(a.loads, Groups) = SumFunctionOnSet(budget, Dims)
    <3>2. \A j \in Dims : budget[j] \in Int
      BY <1>2
    <3> QED
      BY <1>6, <3>2, SumPlaced
  <2> QED
    BY <1>7, <2>1, <2>2, <2>3
<1>10. Valid(l.buckets)
  BY <1>5, <1>7, BucketsCover, CoverValid
<1>11. UnevenSound(l, heights)
  BY <1>1, <1>5, <1>7, <1>8 DEF UnevenSound, budget
<1>12. TrainAccepts(l)
  BY <1>2, <1>7, <1>8, <1>9, <1>10 DEF TrainAccepts
<1> QED
  BY <1>11, <1>12 DEF l

\* What read makes of what write wrote is what was written, and it is accepted.
LEMMA ReadPasses ==
  ASSUME NEW l, NEW h, UnevenSound(l, h), grouping = "Uneven"
  PROVE  ReadBack(Written(l)) = l /\ ReadAccepts(Written(l), l)
<1> DEFINE w == Written(l)
<1>1. /\ w.groups = l.groups /\ w.loads = l.loads /\ w.budgets = l.budgets
      /\ w.buckets = Written(l).buckets
  BY DEF Written
<1> HIDE DEF w
<1>2. /\ l = [groups |-> l.groups, loads |-> l.loads, budgets |-> Budgets(h),
              buckets |-> Buckets(l.groups)]
      /\ Arranged(l.groups) /\ LoadsPreserved(l.groups, l.loads, l.budgets)
      /\ l.budgets = Budgets(h) /\ l.buckets = Buckets(l.groups)
  BY DEF UnevenSound
<1>3. ReadBack(w) = [groups |-> w.groups, loads |-> w.loads, budgets |-> w.budgets,
                     buckets |-> Buckets(w.groups)]
  BY DEF ReadBack
<1>4. ReadBack(w) = l
  BY ONLY <1>1, <1>2, <1>3
<1>5. \A g \in Groups : w.groups[g] # <<>>
  <2> TAKE g \in Groups
  <2>1. Len(l.groups[g]) \in 1 .. 4
    BY <1>2 DEF Arranged
  <2>2. w.groups[g] = l.groups[g]
    BY <1>1
  <2> QED
    BY <2>1, <2>2
<1>6. Widest <= D
  BY LayoutAssumption
<1>7. Valid(l.buckets)
  BY <1>2, BucketsCover, CoverValid
<1> QED
  BY <1>1, <1>2, <1>4, <1>5, <1>6, <1>7 DEF ReadAccepts, w

\* The groups of the one product quantizer of a uniform grouping.
UniformGroups ==
  [m \in Groups |-> [k \in 1 .. D \div M |-> m * (D \div M) + k - 1]]

\* The uniform layout is one such bucket, of D \div M coordinates a group.
LEMMA UniformCover ==
  ASSUME D % M = 0
  PROVE  Arranged(UniformGroups) /\ Cover(UniformLayout.buckets, UniformGroups)
<1> DEFINE w == D \div M
           U == UniformGroups
<1>1. D \in Nat \ {0} /\ M \in Nat \ {0} /\ M % 2 = 0 /\ M <= D
  BY LayoutAssumption
<1>2. w \in Nat /\ D = w * M
  BY <1>1, Whole
<1> HIDE DEF w
<1>3. w # 0
  <2>1. w = 0 => w * M = 0
    BY <1>1
  <2> QED
    BY <1>1, <1>2, <2>1
<1>4. w <= 4
  <2> DEFINE up == (w * M + 0 + M - 1) \div M
  <2>1. up \in Int /\ w <= up
    <3>1. 0 \in Nat /\ 0 < M
      BY <1>1
    <3> QED
      BY <1>1, <1>2, <3>1, RoundedUp
  <2>2. (D + M - 1) \div M = up
    <3>1. w * M + 0 + M - 1 = D + M - 1
      BY <1>1, <1>2
    <3> QED
      BY <3>1
  <2> HIDE DEF up
  <2>3. Maximum \in Int /\ up <= Maximum
    <3>1. Widest = 0 \/ Widest \in up .. D
      BY <2>2, LayoutAssumption
    <3> QED
      BY <1>1, <2>1, <2>2, <3>1 DEF Maximum
  <2> HIDE DEF Maximum
  <2> QED
    BY <1>2, <2>1, <2>3, CornersAssumption
<1>5. Groups = 0 .. M - 1 /\ Dims = 0 .. D - 1
  BY DEF Groups, Dims
<1>6. /\ \A m \in Groups : U[m] = [k \in 1 .. w |-> m * w + k - 1]
      /\ DOMAIN U = Groups
  BY DEF UniformGroups, w
<1> DEFINE V(m, k) == m * w + k - 1
<1>7. \A m \in Groups : /\ DOMAIN U[m] = 1 .. w
                        /\ \A k \in 1 .. w : U[m][k] = V(m, k)
  <2> TAKE m \in Groups
  <2>1. U[m] = [k \in 1 .. w |-> V(m, k)]
    BY <1>6
  <2> HIDE DEF V, U
  <2> QED
    BY ONLY <2>1
<1>8. \A m \in Groups : \A k \in 1 .. w :
        V(m, k) \in Dims /\ V(m, k) \div w = m /\ (V(m, k) % w) + 1 = k
  <2> TAKE m \in Groups
  <2> TAKE k \in 1 .. w
  <2> DEFINE x == m * w + k
  <2>1. w \in Nat \ {0} /\ M \in Nat /\ m \in 0 .. M - 1
    BY <1>1, <1>2, <1>3, <1>5
  <2>2. x \in 1 .. w * M /\ (x - 1) \div w = m /\ ((x - 1) % w) + 1 = k
    BY ONLY <2>1, k \in 1 .. w, PlaceInBucket
  <2> HIDE DEF x
  <2>3. x - 1 \in Dims
    BY <1>1, <1>2, <1>5, <2>2
  <2>4. V(m, k) = x - 1
    <3> DEFINE p == m * w
    <3>1. p \in Int /\ k \in Int
      BY <2>1
    <3>2. V(m, k) = p + k - 1 /\ x = p + k
      BY DEF V, x
    <3> HIDE DEF p
    <3> QED
      BY ONLY <3>1, <3>2
  <2> QED
    BY ONLY <2>2, <2>3, <2>4
<1> HIDE DEF V
<1>9. \A m \in Groups : U[m] \in Seq(Dims) /\ Len(U[m]) = w
  <2> TAKE m \in Groups
  <2>1. \A k \in 1 .. w : U[m][k] \in Dims
    BY <1>7, <1>8
  <2>2. U[m] = [k \in 1 .. w |-> U[m][k]]
    BY <1>6, <1>7
  <2>3. U[m] \in [1 .. w -> Dims]
    BY <2>1, <2>2
  <2> QED
    BY ONLY <1>2, <2>3, FunctionSeq
<1>10. U \in [Groups -> Seq(Dims)]
  <2>1. U = [m \in Groups |-> U[m]]
    BY DEF UniformGroups
  <2> HIDE DEF U
  <2> QED
    BY <1>9, <2>1
<1> HIDE DEF U
<1>11. Placing(U, Dims)
  <2>1. \A g \in Groups : \A x \in DOMAIN U[g] : U[g][x] \in Dims
    <3> TAKE g \in Groups
    <3> TAKE x \in DOMAIN U[g]
    <3>1. x \in 1 .. w /\ U[g][x] = V(g, x)
      BY <1>7
    <3>2. V(g, x) \in Dims
      BY ONLY <3>1, <1>8, g \in Groups
    <3> QED
      BY ONLY <3>1, <3>2
  <2>2. \A j \in Dims : \E g \in Groups : \E x \in DOMAIN U[g] : U[g][x] = j
    <3> TAKE j \in Dims
    <3>1. w \in Nat \ {0} /\ M \in Nat /\ j + 1 \in 1 .. w * M /\ j \in Int
      BY <1>1, <1>2, <1>3, <1>5
    <3>2. PICK g \in 0 .. M - 1, k \in 1 .. w : j + 1 = g * w + k
      BY ONLY <3>1, PlaceOfBucket
    <3>3. g \in Groups /\ k \in DOMAIN U[g] /\ U[g][k] = V(g, k)
      BY <1>5, <1>7, <3>2
    <3>4. V(g, k) = j
      <4> DEFINE p == g * w
      <4>1. p \in Int /\ j + 1 = p + k
        BY <3>1, <3>2
      <4>2. V(g, k) = p + k - 1
        BY DEF V
      <4> HIDE DEF p
      <4> QED
        BY <3>1, <4>1, <4>2
    <3> QED
      BY <3>3, <3>4
  <2>3. \A g, o \in Groups : \A x \in DOMAIN U[g] : \A y \in DOMAIN U[o] :
          U[g][x] = U[o][y] => g = o /\ x = y
    <3> TAKE g, o \in Groups
    <3> TAKE x \in DOMAIN U[g]
    <3> TAKE y \in DOMAIN U[o]
    <3> HAVE U[g][x] = U[o][y]
    <3>1. /\ x \in 1 .. w /\ y \in 1 .. w
          /\ U[g][x] = V(g, x) /\ U[o][y] = V(o, y)
      BY <1>7
    <3>2. /\ (U[g][x]) \div w = g /\ ((U[g][x]) % w) + 1 = x
          /\ (U[o][y]) \div w = o /\ ((U[o][y]) % w) + 1 = y
      BY <1>8, <3>1
    <3> QED
      BY <3>2
  <2> QED
    BY <1>10, <2>1, <2>2, <2>3 DEF Placing
<1>12. Arranged(U)
  <2>1. \A g \in Groups : Len(U[g]) \in 1 .. 4
    <3>1. w \in 1 .. 4
      BY <1>2, <1>3, <1>4
    <3> QED
      BY <1>9, <3>1
  <2>2. \A k \in 0 .. Pairs - 1 : 2 * k \in Groups /\ 2 * k + 1 \in Groups
    BY <1>5, PairSizes
  <2> QED
    BY <1>9, <1>11, <2>1, <2>2 DEF Arranged
<1> DEFINE B == UniformLayout.buckets
           b == [width |-> w, count |-> M, first |-> 0, offset |-> 0,
                 dimensions |-> [i \in 1 .. D |-> i - 1]]
<1>13. B = <<b>>
  BY DEF UniformLayout, w
<1> HIDE DEF B
<1>13a. /\ b.width = w /\ b.count = M /\ b.first = 0 /\ b.offset = 0
        /\ b.dimensions = [i \in 1 .. D |-> i - 1]
  OBVIOUS
<1> HIDE DEF b
<1>13b. DOMAIN B = {1} /\ B[1] = b
  BY <1>13
<1>14. /\ DOMAIN b.dimensions = 1 .. w * M
       /\ \A i \in 1 .. w * M : b.dimensions[i] = i - 1 /\ i - 1 \in Dims
  <2>1. DOMAIN b.dimensions = 1 .. D
    BY <1>13a
  <2>2. \A i \in 1 .. D : b.dimensions[i] = i - 1
    BY <1>13a
  <2>3. \A i \in 1 .. D : i - 1 \in Dims
    BY <1>1, <1>5
  <2>4. w * M = D
    BY <1>2
  <2> QED
    BY ONLY <2>1, <2>2, <2>3, <2>4
<1>15. b.dimensions \in [1 .. w * M -> Dims]
  <2>1. b.dimensions = [i \in 1 .. D |-> b.dimensions[i]]
    BY <1>13a
  <2> QED
    BY <1>2, <1>14, <2>1
<1>16. \A s \in 0 .. M - 1 : \A k \in 1 .. w :
         b.dimensions[s * w + k] = U[0 + s][k]
  <2> TAKE s \in 0 .. M - 1
  <2> TAKE k \in 1 .. w
  <2>1. w \in Nat \ {0} /\ M \in Nat
    BY <1>1, <1>2, <1>3
  <2>2. s * w + k \in 1 .. w * M
    BY ONLY <2>1, s \in 0 .. M - 1, k \in 1 .. w, PlaceInBucket
  <2>3. 0 + s = s /\ s \in Groups
    BY <1>5
  <2> DEFINE x == s * w + k
  <2>4. V(s, k) = x - 1
    <3> DEFINE p == s * w
    <3>1. p \in Int /\ k \in Int
      BY <2>1
    <3>2. V(s, k) = p + k - 1 /\ x = p + k
      BY DEF V
    <3> HIDE DEF p
    <3> QED
      BY ONLY <3>1, <3>2
  <2>5. b.dimensions[x] = x - 1
    BY <1>14, <2>2
  <2> HIDE DEF x
  <2>6. b.dimensions[x] = U[s][k]
    BY <1>7, <2>3, <2>4, <2>5
  <2> QED
    BY <2>3, <2>6 DEF x
<1>17. \A s \in 0 .. M - 1 : 0 + s \in Groups /\ Len(U[0 + s]) = w
  <2> TAKE s \in 0 .. M - 1
  <2>1. 0 + s = s /\ s \in Groups
    BY <1>5
  <2> QED
    BY <1>9, <2>1
<1>18. Holds(b, U)
  <2>1. w \in 1 .. 4 /\ 0 \in Nat /\ 0 = 2 * 0
    BY <1>2, <1>3, <1>4
  <2>2. /\ b.first \in Nat /\ b.offset \in Nat /\ b.first = 2 * b.offset
        /\ b.count \in Nat \ {0} /\ b.count % 2 = 0 /\ b.width \in 1 .. 4
    BY ONLY <1>1, <1>13a, <2>1
  <2>3. \A s \in 0 .. b.count - 1 : /\ b.first + s \in Groups
                                    /\ Len(U[b.first + s]) = b.width
    BY ONLY <1>13a, <1>17
  <2>4. b.dimensions \in [1 .. b.width * b.count -> Dims]
    BY ONLY <1>13a, <1>15
  <2>5. \A s \in 0 .. b.count - 1 : \A k \in 1 .. b.width :
          b.dimensions[s * b.width + k] = U[b.first + s][k]
    BY ONLY <1>13a, <1>16
  <2> QED
    BY ONLY <2>2, <2>3, <2>4, <2>5 DEF Holds
<1>19. \A m \in Groups : InBucket(b, m)
  <2> TAKE m \in Groups
  <2>1. m - 0 \in 0 .. M - 1
    BY <1>1, <1>5
  <2> QED
    BY <1>13a, <2>1 DEF InBucket
<1>20. Cover(B, U)
  <2>1. DOMAIN B = 1 .. 1 /\ 1 \in Nat
    BY <1>13b
  <2>2. \A i \in DOMAIN B : B[i] = b
    BY <1>13b
  <2> QED
    BY <1>13b, <1>18, <1>19, <2>1, <2>2 DEF Cover
<1> QED
  BY <1>12, <1>20 DEF B, U

(***************************************************************************)
(* compute_codes, decode and compute_inner_prod_table.                     *)
(***************************************************************************)
\* The corners a nibble codes.
Power(k) == 2^(k - 1)

\* The weights of the bits of a nibble.
LEMMA Powers == Power(1) = 1 /\ Power(2) = 2 /\ Power(3) = 4 /\ Power(4) = 8
BY DEF Power

\* The bits of a nibble are read back from it.
LEMMA CornerBits ==
  ASSUME NEW a \in {0, 1}, NEW b \in {0, 1}, NEW c \in {0, 1}, NEW d \in {0, 1},
         NEW code, code = a + 2 * b + 4 * c + 8 * d
  PROVE  /\ code \in 0 .. 15
         /\ Corner(code, 1) = a /\ Corner(code, 2) = b
         /\ Corner(code, 3) = c /\ Corner(code, 4) = d
<1>1. code \in 0 .. 15
  OBVIOUS
<1>2. /\ (code \div 1) % 2 = a /\ (code \div 2) % 2 = b
      /\ (code \div 4) % 2 = c /\ (code \div 8) % 2 = d
  <2>1. (code \div 1) % 2 = a
    OBVIOUS
  <2>2. (code \div 2) % 2 = b
    OBVIOUS
  <2>3. (code \div 4) % 2 = c
    OBVIOUS
  <2>4. (code \div 8) % 2 = d
    OBVIOUS
  <2> QED
    BY ONLY <2>1, <2>2, <2>3, <2>4
<1> QED
  BY ONLY <1>1, <1>2, Powers DEF Corner, Power

\* A bit of a nibble is 0 or 1.
LEMMA CornerBit ==
  ASSUME NEW code \in 0 .. 15, NEW k \in 1 .. 4
  PROVE  Corner(code, k) \in {0, 1}
<1>1. CASE k = 1
  BY <1>1, Powers DEF Corner, Power
<1>2. CASE k = 2
  BY <1>2, Powers DEF Corner, Power
<1>3. CASE k = 3
  BY <1>3, Powers DEF Corner, Power
<1>4. CASE k = 4
  BY <1>4, Powers DEF Corner, Power
<1> QED
  BY <1>1, <1>2, <1>3, <1>4

\* Bits weighted by their places make a nibble that has them at their places.
Weighted(n, v, f) ==
  \A k \in 1 .. n : v[k] \in {0, 1} /\ f[k] = v[k] * Power(k)

\* Up to four weighted bits make a nibble that has them as its bits.
LEMMA NibbleOfBits ==
  ASSUME NEW n \in 1 .. 4, NEW v, NEW f, Weighted(n, v, f)
  PROVE  /\ SumFunctionOnSet(f, 1 .. n) \in 0 .. 15
         /\ \A k \in 1 .. n : Corner(SumFunctionOnSet(f, 1 .. n), k) = v[k]
<1> DEFINE w == [k \in 1 .. 4 |-> IF k <= n THEN v[k] ELSE 0]
           S(k) == SumFunctionOnSet(f, 1 .. k)
           W(k) == (IF k >= 1 THEN w[1] ELSE 0) + (IF k >= 2 THEN 2 * w[2] ELSE 0)
                     + (IF k >= 3 THEN 4 * w[3] ELSE 0)
                     + (IF k >= 4 THEN 8 * w[4] ELSE 0)
<1>1. \A k \in 1 .. 4 : w[k] \in {0, 1} /\ (k <= n => w[k] = v[k])
                        /\ (k > n => w[k] = 0)
  BY DEF Weighted
<1> HIDE DEF w
<1>2. /\ f[1] = w[1] /\ (n >= 2 => f[2] = 2 * w[2])
      /\ (n >= 3 => f[3] = 4 * w[3]) /\ (n >= 4 => f[4] = 8 * w[4])
  <2>1. f[1] = w[1]
    <3>1. 1 <= n => w[1] = v[1] /\ v[1] \in {0, 1} /\ f[1] = v[1] * Power(1)
      BY <1>1 DEF Weighted
    <3> QED
      BY <3>1, Powers
  <2>2. n >= 2 => f[2] = 2 * w[2]
    <3>1. 2 <= n => w[2] = v[2] /\ v[2] \in {0, 1} /\ f[2] = v[2] * Power(2)
      BY <1>1 DEF Weighted
    <3> QED
      BY <3>1, Powers
  <2>3. n >= 3 => f[3] = 4 * w[3]
    <3>1. 3 <= n => w[3] = v[3] /\ v[3] \in {0, 1} /\ f[3] = v[3] * Power(3)
      BY <1>1 DEF Weighted
    <3> QED
      BY <3>1, Powers
  <2>4. n >= 4 => f[4] = 8 * w[4]
    <3>1. 4 <= n => w[4] = v[4] /\ v[4] \in {0, 1} /\ f[4] = v[4] * Power(4)
      BY <1>1 DEF Weighted
    <3> QED
      BY <3>1, Powers
  <2> QED
    BY <2>1, <2>2, <2>3, <2>4
<1>3. /\ f[1] \in Int /\ (n >= 2 => f[2] \in Int)
      /\ (n >= 3 => f[3] \in Int) /\ (n >= 4 => f[4] \in Int)
  BY <1>1, <1>2
<1>4. S(0) = 0
  <2>1. 1 .. 0 = {}
    OBVIOUS
  <2> QED
    BY <2>1, SumEmpty
<1>5. \A k \in 0 .. 3 : k < n => S(k + 1) = f[k + 1] + S(k)
  <2> SUFFICES ASSUME NEW k \in 0 .. 3, k < n PROVE S(k + 1) = f[k + 1] + S(k)
    OBVIOUS
  <2>1. \A i \in 1 .. k + 1 : f[i] \in Int
    BY <1>3
  <2> QED
    BY <2>1, SumNext
<1> HIDE DEF S
<1>6. /\ S(1) = f[1] + S(0) /\ (n >= 2 => S(2) = f[2] + S(1))
      /\ (n >= 3 => S(3) = f[3] + S(2)) /\ (n >= 4 => S(4) = f[4] + S(3))
  <2>1. S(0 + 1) = f[0 + 1] + S(0)
    BY <1>5
  <2>2. n >= 2 => S(1 + 1) = f[1 + 1] + S(1)
    BY <1>5
  <2>3. n >= 3 => S(2 + 1) = f[2 + 1] + S(2)
    BY <1>5
  <2>4. n >= 4 => S(3 + 1) = f[3 + 1] + S(3)
    BY <1>5
  <2> QED
    BY <2>1, <2>2, <2>3, <2>4
<1>7. S(n) = w[1] + 2 * w[2] + 4 * w[3] + 8 * w[4]
  BY <1>1, <1>2, <1>4, <1>6
<1>8. /\ S(n) \in 0 .. 15
      /\ Corner(S(n), 1) = w[1] /\ Corner(S(n), 2) = w[2]
      /\ Corner(S(n), 3) = w[3] /\ Corner(S(n), 4) = w[4]
  BY <1>1, <1>7, CornerBits
<1>9. \A k \in 1 .. n : Corner(S(n), k) = v[k]
  BY <1>1, <1>8
<1> QED
  BY <1>8, <1>9 DEF S

\* The nibble of a group of coordinates.
GroupCode(s, x) == SumFunction([k \in DOMAIN s |-> x[s[k]] * 2^(k - 1)])

\* The nibble of a group has the coordinates of the vector as its bits.
LEMMA GroupCoded ==
  ASSUME NEW s \in Seq(Dims), Len(s) \in 1 .. 4, NEW x \in [Dims -> {0, 1}]
  PROVE  /\ GroupCode(s, x) \in 0 .. 15
         /\ \A k \in DOMAIN s : Corner(GroupCode(s, x), k) = x[s[k]]
<1> DEFINE f == [k \in DOMAIN s |-> x[s[k]] * 2^(k - 1)]
           v == [k \in DOMAIN s |-> x[s[k]]]
           n == Len(s)
<1>1. n \in 1 .. 4 /\ DOMAIN s = 1 .. n /\ DOMAIN f = 1 .. n
  OBVIOUS
<1>2. \A k \in 1 .. n : v[k] = x[s[k]] /\ v[k] \in {0, 1} /\ f[k] = v[k] * 2^(k - 1)
  BY <1>1
<1>3. GroupCode(s, x) = SumFunctionOnSet(f, 1 .. n)
  BY <1>1 DEF GroupCode, SumFunction
<1> HIDE DEF f, v, n
<1>4. /\ SumFunctionOnSet(f, 1 .. n) \in 0 .. 15
      /\ \A k \in 1 .. n : Corner(SumFunctionOnSet(f, 1 .. n), k) = v[k]
  <2>1. Weighted(n, v, f)
    BY <1>2 DEF Weighted, Power
  <2> QED
    BY <1>1, <2>1, NibbleOfBits
<1> QED
  BY <1>1, <1>2, <1>3, <1>4

\* A code is made of such nibbles.
LEMMA FlatCodeNibbles ==
  ASSUME NEW groups, Arranged(groups), Cover(layout.buckets, groups),
         NEW x \in [Dims -> {0, 1}]
  PROVE  /\ FlatCode(x) \in [Groups -> 0 .. 15]
         /\ \A m \in Groups : FlatCode(x)[m] = GroupCode(groups[m], x)
<1>1. FlatCode(x) = [m \in Groups |-> GroupCode(InByteRange(m), x)]
  BY DEF FlatCode, GroupCode
<1>2. /\ groups \in [Groups -> Seq(Dims)]
      /\ \A m \in Groups : Len(groups[m]) \in 1 .. 4
  BY DEF Arranged, Placing
<1>3. \A m \in Groups : InByteRange(m) = groups[m]
  BY <1>2, NibbleGroup
<1>4. \A m \in Groups : GroupCode(groups[m], x) \in 0 .. 15
  BY <1>2, GroupCoded
<1>5. \A m \in Groups : FlatCode(x)[m] = GroupCode(groups[m], x)
  BY <1>1, <1>3
<1> QED
  BY <1>1, <1>4, <1>5

\* Decoding a code gives what was coded.
LEMMA CodeRestored ==
  ASSUME NEW groups, Arranged(groups), Cover(layout.buckets, groups),
         NEW x \in [Dims -> {0, 1}]
  PROVE  Decoded(FlatCode(x)) = x
<1> DEFINE code == FlatCode(x)
           home(j) == CHOOSE g \in Groups : Contains(InByteRange(g), j)
           place(j) == CHOOSE i \in DOMAIN InByteRange(home(j)) :
                         InByteRange(home(j))[i] = j
<1>1. /\ groups \in [Groups -> Seq(Dims)] /\ Placing(groups, Dims)
      /\ \A m \in Groups : Len(groups[m]) \in 1 .. 4
  BY DEF Arranged, Placing
<1>2. \A m \in Groups : /\ InByteRange(m) = groups[m] /\ groups[m] \in Seq(Dims)
                        /\ DOMAIN groups[m] = 1 .. Len(groups[m])
  BY <1>1, NibbleGroup
<1>3. \A m \in Groups : code[m] = GroupCode(groups[m], x)
  BY FlatCodeNibbles
<1>4. Decoded(code) = [j \in Dims |-> Corner(code[home(j)], place(j))]
  BY DEF Decoded
<1> HIDE DEF code
<1>5. \A j \in Dims : Corner(code[home(j)], place(j)) = x[j]
  <2> TAKE j \in Dims
  <2>1. PICK g \in Groups : \E i \in DOMAIN groups[g] : groups[g][i] = j
    BY <1>1 DEF Placing
  <2>2. PICK i \in DOMAIN groups[g] : groups[g][i] = j
    BY <2>1
  <2>3. \E o \in Groups : Contains(InByteRange(o), j)
    BY <1>2, <2>2 DEF Contains
  <2>4. home(j) \in Groups /\ Contains(InByteRange(home(j)), j)
    BY <2>3
  <2> HIDE DEF home
  <2>5. \E k \in DOMAIN InByteRange(home(j)) : InByteRange(home(j))[k] = j
    BY <1>2, <2>4 DEF Contains
  <2>6. /\ place(j) \in DOMAIN InByteRange(home(j))
        /\ InByteRange(home(j))[place(j)] = j
    BY <2>5
  <2> HIDE DEF place
  <2>7. place(j) \in DOMAIN groups[home(j)] /\ groups[home(j)][place(j)] = j
    BY <1>2, <2>4, <2>6
  <2>8. Corner(GroupCode(groups[home(j)], x), place(j)) = x[groups[home(j)][place(j)]]
    BY <1>1, <1>2, <2>4, <2>7, GroupCoded
  <2> QED
    BY <1>3, <2>4, <2>7, <2>8
<1> HIDE DEF home, place
<1>6. x = [j \in Dims |-> x[j]]
  OBVIOUS
<1> QED
  BY <1>4, <1>5, <1>6 DEF code

\* A row of a table is filled from the coordinates of its group.
LEMMA RowCoordinates ==
  ASSUME NEW groups \in [Groups -> Seq(Dims)], NEW buckets, Cover(buckets, groups),
         NEW m \in Groups, NEW i \in DOMAIN buckets,
         m - buckets[i].first \in 0 .. buckets[i].count - 1
  PROVE  Coordinates(buckets[i], m - buckets[i].first) = groups[m]
<1> DEFINE b == buckets[i]
<1>1. Holds(b, groups)
  BY DEF Cover
<1>2. m - b.first \in 0 .. b.count - 1
  OBVIOUS
<1> HIDE DEF b
<1>3. Coordinates(b, m - b.first) = groups[b.first + (m - b.first)]
  BY <1>1, <1>2, CoordinatesHeld
<1>4. b.first + (m - b.first) = m
  <2>1. m \in Nat /\ b.first \in Nat
    BY <1>1, GroupsFinite DEF Holds
  <2> QED
    BY <2>1
<1> QED
  BY <1>3, <1>4 DEF b

\* The row of the table for a group.
TableRow(s, q) ==
  [code \in 0 .. 15 |-> SumFunction([k \in DOMAIN s |-> q[s[k]] * Corner(code, k)])]

\* y has the products that an entry of a row adds up.
Products(s, q, code, y) ==
  \A k \in DOMAIN s : y[s[k]] = q[s[k]] * Corner(code, k)

\* An entry of the table is an integer, and the load of the products.
LEMMA TableRowType ==
  ASSUME NEW s \in Seq(Dims), Len(s) \in 1 .. 4, NEW q \in [Dims -> Int],
         NEW code \in 0 .. 15
  PROVE  /\ TableRow(s, q)[code] \in Int
         /\ \A y : Products(s, q, code, y) => TableRow(s, q)[code] = LoadOf(s, y)
<1> DEFINE f == [k \in DOMAIN s |-> q[s[k]] * Corner(code, k)]
           n == Len(s)
<1>1. n \in 1 .. 4 /\ DOMAIN s = 1 .. n /\ \A k \in 1 .. n : s[k] \in Dims
  OBVIOUS
<1>2. DOMAIN f = DOMAIN s /\ \A k \in DOMAIN s : f[k] = q[s[k]] * Corner(code, k)
  OBVIOUS
<1>3. TableRow(s, q)[code] = SumFunction(f)
  BY DEF TableRow
<1>4. \A k \in DOMAIN s : f[k] \in Int
  <2> TAKE k \in DOMAIN s
  <2>1. q[s[k]] \in Int /\ k \in 1 .. 4
    BY <1>1
  <2>2. Corner(code, k) \in {0, 1}
    BY <2>1, CornerBit
  <2> QED
    BY <1>2, <2>1, <2>2
<1>5. Numbers(f, DOMAIN s)
  <2>1. IsFiniteSet(1 .. n)
    BY <1>1, FS_Interval
  <2> QED
    BY <1>1, <1>4, <2>1 DEF Numbers
<1>6. SumFunction(f) = SumFunctionOnSet(f, DOMAIN s)
  BY <1>2 DEF SumFunction
<1> HIDE DEF f
<1>7. TableRow(s, q)[code] \in Int
  BY <1>3, <1>5, <1>6, SumType
<1>8. ASSUME NEW y, Products(s, q, code, y)
      PROVE  TableRow(s, q)[code] = LoadOf(s, y)
  <2> DEFINE e == [k \in DOMAIN s |-> y[s[k]]]
  <2>1. DOMAIN e = DOMAIN s /\ \A k \in DOMAIN s : e[k] = f[k]
    BY <1>2, <1>8 DEF Products
  <2>2. LoadOf(s, y) = SumFunctionOnSet(e, DOMAIN e)
    BY DEF LoadOf, SumFunction
  <2> HIDE DEF e
  <2>3. SumFunctionOnSet(e, DOMAIN s) = SumFunctionOnSet(f, DOMAIN s)
    BY <1>5, <2>1, SumSame
  <2> QED
    BY <1>3, <1>6, <2>1, <2>2, <2>3
<1> QED
  BY <1>7, <1>8

\* An entry of the table is the load of the products that it adds up.
LEMMA TableRowLoad ==
  ASSUME NEW s \in Seq(Dims), Len(s) \in 1 .. 4, NEW q \in [Dims -> Int],
         NEW code \in 0 .. 15, NEW y, Products(s, q, code, y)
  PROVE  TableRow(s, q)[code] = LoadOf(s, y)
BY TableRowType

\* compute_inner_prod_table: row m of the table is that of group m, whichever
\* bucket wrote it.
LEMMA DotTableRows ==
  ASSUME NEW groups, Arranged(groups), Cover(layout.buckets, groups),
         NEW q \in [Dims -> Int]
  PROVE  /\ DotTable(q) \in [Groups -> [0 .. 15 -> Int]]
         /\ \A m \in Groups : DotTable(q)[m] = TableRow(groups[m], q)
<1> DEFINE B == layout.buckets
           at(m) == CHOOSE i \in DOMAIN B : m - B[i].first \in 0 .. B[i].count - 1
           dims(m) == Coordinates(B[at(m)], m - B[at(m)].first)
<1>1. /\ groups \in [Groups -> Seq(Dims)]
      /\ \A m \in Groups : Len(groups[m]) \in 1 .. 4 /\ groups[m] \in Seq(Dims)
  BY DEF Arranged, Placing
<1>2. DotTable(q) = [m \in Groups |-> TableRow(dims(m), q)]
  BY DEF DotTable, TableRow
<1>3. \A m \in Groups : dims(m) = groups[m]
  <2> TAKE m \in Groups
  <2>1. \E i \in DOMAIN B : m - B[i].first \in 0 .. B[i].count - 1
    BY DEF Cover, InBucket
  <2>2. at(m) \in DOMAIN B /\ m - B[at(m)].first \in 0 .. B[at(m)].count - 1
    BY <2>1
  <2> HIDE DEF at
  <2> QED
    BY <1>1, <2>2, RowCoordinates
<1> HIDE DEF dims
<1>4. \A m \in Groups : DotTable(q)[m] = TableRow(groups[m], q)
  BY <1>2, <1>3
<1>5. \A m \in Groups : TableRow(groups[m], q) \in [0 .. 15 -> Int]
  <2> TAKE m \in Groups
  <2> DEFINE r == TableRow(groups[m], q)
  <2>1. \A c \in 0 .. 15 : r[c] \in Int
    BY <1>1, TableRowType
  <2>2. r = [c \in 0 .. 15 |-> r[c]]
    BY DEF TableRow
  <2> HIDE DEF r
  <2>3. r \in [0 .. 15 -> Int]
    BY <2>1, <2>2
  <2> QED
    BY <2>3 DEF r
<1>6. DotTable(q) = [m \in Groups |-> DotTable(q)[m]]
  BY <1>2
<1> QED
  BY <1>4, <1>5, <1>6

\* The entries a code selects add up to the product with what it codes.
LEMMA DotOfCode ==
  ASSUME NEW groups, Arranged(groups), Cover(layout.buckets, groups),
         NEW q \in [Dims -> Int], NEW x \in [Dims -> {0, 1}], NEW row,
         \A m \in Groups : row[m] = DotTable(q)[m][FlatCode(x)[m]],
         NEW e \in [Dims -> Int], \A j \in Dims : e[j] = q[j] * x[j]
  PROVE  /\ Numbers(row, Groups)
         /\ SumFunctionOnSet(row, Groups) = SumFunctionOnSet(e, Dims)
<1>1. /\ Placing(groups, Dims) /\ groups \in [Groups -> Seq(Dims)]
      /\ \A m \in Groups : Len(groups[m]) \in 1 .. 4 /\ groups[m] \in Seq(Dims)
  BY DEF Arranged, Placing
<1>2. \A j \in Dims : e[j] = q[j] * x[j]
  OBVIOUS
<1>3. \A m \in Groups : row[m] = LoadOf(groups[m], e)
  <2> TAKE m \in Groups
  <2> DEFINE s == groups[m]
             c == GroupCode(s, x)
  <2>1. s \in Seq(Dims) /\ Len(s) \in 1 .. 4
    BY <1>1
  <2>2. FlatCode(x)[m] = c /\ DotTable(q)[m] = TableRow(s, q)
    BY FlatCodeNibbles, DotTableRows
  <2> HIDE DEF s
  <2>3. c \in 0 .. 15 /\ \A k \in DOMAIN s : Corner(c, k) = x[s[k]]
    BY <2>1, GroupCoded
  <2> HIDE DEF c
  <2>4. \A k \in DOMAIN s : e[s[k]] = q[s[k]] * Corner(c, k)
    <3> TAKE k \in DOMAIN s
    <3>1. s[k] \in Dims
      BY <2>1
    <3> QED
      BY <1>2, <2>3, <3>1
  <2>5. TableRow(s, q)[c] = LoadOf(s, e)
    <3>1. Products(s, q, c, e)
      BY <2>4 DEF Products
    <3>2. c \in 0 .. 15
      BY <2>3
    <3> QED
      BY <2>1, <3>1, <3>2, TableRowLoad, SMTT(30)
  <2> QED
    BY <2>2, <2>5 DEF s
<1>4. \A j \in Dims : e[j] \in Int
  OBVIOUS
<1> QED
  <2>1. Placing(groups, Dims)
    BY <1>1
  <2> QED
    BY ONLY <2>1, <1>3, <1>4, SumPlaced

(***************************************************************************)
(* The places of rows in the tiles.                                        *)
(***************************************************************************)
\* The sizes of a tile in terms of its quarters and of the pairs of groups.
LEMMA TileSizes ==
  \E k, p \in Nat \ {0} :
    /\ Half = 2 * k /\ Tile = 4 * k /\ Half \div 2 = k
    /\ Subquantizers = 2 * p /\ Subquantizers \div 2 = p /\ TileBytes = p * Tile
    /\ TileBytes \in Nat \ {0} /\ CodeGroups = 0 .. 2 * p - 1
<1>1. PICK k \in Nat \ {0} : Half = 2 * k
  BY TileAssumption
<1>2. PICK p \in Nat \ {0} : Subquantizers = 2 * p
  BY TileAssumption
<1>3. Half \div 2 = k /\ Tile = 4 * k /\ Subquantizers \div 2 = p
  BY <1>1, <1>2 DEF Tile
<1>4. TileBytes = p * Tile /\ p * Tile \in Nat \ {0}
  BY <1>3 DEF TileBytes
<1> QED
  BY <1>1, <1>2, <1>3, <1>4 DEF CodeGroups

\* A code knows its place: of the nibble of row i and group m, the tables of
\* the packer say row i and group m, and it lies in the tile of the row.
LEMMA NibblePlace ==
  ASSUME NEW i \in Nat, NEW m \in CodeGroups
  PROVE  /\ Nibble(i, m) \in Nat
         /\ RowAt(Nibble(i, m)) = i /\ GroupAt(Nibble(i, m)) = m
         /\ (Nibble(i, m) \div 2) \div TileBytes = i \div Tile
<1>1. PICK k, p \in Nat \ {0} :
        /\ Half = 2 * k /\ Tile = 4 * k /\ Half \div 2 = k
        /\ Subquantizers = 2 * p /\ Subquantizers \div 2 = p
        /\ TileBytes = p * Tile
        /\ TileBytes \in Nat \ {0} /\ CodeGroups = 0 .. 2 * p - 1
  BY TileSizes
<1> DEFINE q == i \div Tile
           t == i % Tile
           h == t \div Half
           l == t % Half
           g == m \div 2
           e == m % 2
           b == IF l < k THEN 2 * l ELSE 2 * (l - k) + 1
           r == g * Tile + (e * Half + b)
           c == q * TileBytes + r
<1>2. q \in Nat /\ t \in 0 .. Tile - 1 /\ i = q * Tile + t
  <2>1. Tile \in Nat \ {0}
    BY <1>1
  <2> QED
    BY <2>1, Whole
<1>3. h \in {0, 1} /\ l \in 0 .. Half - 1 /\ t = h * Half + l
  <2>1. t \in 0 .. 4 * k - 1
    BY <1>1, <1>2
  <2> HIDE DEF t
  <2> QED
    BY <1>1, <2>1
<1>4. g \in 0 .. p - 1 /\ e \in {0, 1} /\ m = 2 * g + e
  BY <1>1
<1>5. i % Half = l
  <2>1. i = (2 * q + h) * Half + l
    <3> HIDE DEF q, t, h, l
    <3>1. q * Tile = (2 * q) * Half
      BY <1>1, <1>2
    <3>2. CASE h = 0
      BY <1>1, <1>2, <1>3, <3>1, <3>2
    <3>3. CASE h = 1
      <4>1. (2 * q + 1) * Half = (2 * q) * Half + Half
        BY <1>1, <1>2
      <4> QED
        BY <1>1, <1>2, <1>3, <3>1, <3>3, <4>1
    <3> QED
      BY <1>3, <3>2, <3>3
  <2> HIDE DEF q, t, h, l
  <2>2. 2 * q + h \in Nat /\ Half \in Nat \ {0}
    BY <1>1, <1>2, <1>3
  <2> QED
    BY <1>3, <2>1, <2>2, Split
<1>6. b \in 0 .. Half - 1 /\ (b % 2) * k + b \div 2 = l
  <2> HIDE DEF l
  <2>1. CASE l < k
    <3>1. b = 2 * l /\ b % 2 = 0 /\ b \div 2 = l
      BY <1>1, <1>3, <2>1
    <3> QED
      BY <1>1, <1>3, <2>1, <3>1
  <2>2. CASE ~(l < k)
    <3>1. b = 2 * (l - k) + 1
      BY <2>2
    <3>2. PICK d \in Nat : d = l - k
      BY <1>1, <1>3, <2>2
    <3>3. (2 * d + 1) % 2 = 1 /\ (2 * d + 1) \div 2 = d
      OBVIOUS
    <3> HIDE DEF b
    <3> QED
      BY <1>1, <1>3, <2>2, <3>1, <3>2, <3>3
  <2> QED
    BY <2>1, <2>2
<1> HIDE DEF q, t, h, l, g, e, b
<1>7. Nibble(i, m) = 2 * c + h
  <2>1. Nibble(i, m) = 2 * (q * TileBytes + g * Tile + e * Half + b) + h
    BY <1>1, <1>5 DEF Nibble, q, t, h, l, g, e, b
  <2>2. /\ q * TileBytes \in Int /\ g * Tile \in Int /\ e * Half \in Int
        /\ b \in Int /\ h \in Int
    BY <1>1, <1>2, <1>3, <1>4, <1>6
  <2> QED
    BY <2>1, <2>2
<1>8. e * Half + b \in 0 .. Tile - 1
  BY <1>1, <1>4, <1>6
<1>9. r \in 0 .. TileBytes - 1
  <2>1. g * Tile + (Tile - 1) < p * Tile
    BY <1>1, <1>4
  <2> QED
    BY <1>1, <1>4, <1>8, <2>1
<1>10. r \div Tile = g /\ r % Tile = e * Half + b
  <2>1. g \in Nat /\ Tile \in Nat \ {0}
    BY <1>1, <1>4
  <2> QED
    BY <1>8, <2>1, Split
<1>11. (e * Half + b) \div Half = e
  BY <1>1, <1>4, <1>6
<1>12. r \in Nat /\ c \in Nat /\ c \div TileBytes = q /\ c % TileBytes = r
  <2> HIDE DEF r
  <2>1. TileBytes \in Nat \ {0} /\ q \in Nat /\ r \in 0 .. TileBytes - 1
    BY <1>1, <1>2, <1>9
  <2>2. c \div TileBytes = q /\ c % TileBytes = r
    BY <2>1, Split
  <2> QED
    BY <2>1, <2>2
<1>13. c % Half = b
  <2>1. c = (2 * (q * p + g) + e) * Half + b
    <3>1. q * TileBytes = (2 * (q * p)) * Half
      BY <1>1, <1>2
    <3>2. g * Tile = (2 * g) * Half
      BY <1>1, <1>4
    <3> DEFINE x == q * p
    <3>3. x \in Nat
      BY <1>1, <1>2
    <3> HIDE DEF x
    <3>4. (2 * (x + g) + e) * Half = (2 * x) * Half + (2 * g) * Half + e * Half
      BY <1>1, <1>4, <3>3
    <3>5. (2 * x) * Half \in Int /\ (2 * g) * Half \in Int /\ e * Half \in Int
      BY <1>1, <1>4, <3>3
    <3> QED
      BY <1>6, <3>1, <3>2, <3>4, <3>5 DEF x
  <2>2. 2 * (q * p + g) + e \in Nat /\ Half \in Nat \ {0}
    BY <1>1, <1>2, <1>4
  <2> HIDE DEF c
  <2> QED
    BY <1>6, <2>1, <2>2, Split
<1> HIDE DEF c, r
<1>14. (2 * c + h) \div 2 = c /\ (2 * c + h) % 2 = h /\ 2 * c + h \in Nat
  BY <1>3, <1>12
<1>15. RowAt(Nibble(i, m)) = i
  <2>1. RowAt(Nibble(i, m)) = q * Tile + h * Half + (b % 2) * k + b \div 2
    BY <1>1, <1>7, <1>12, <1>13, <1>14 DEF RowAt
  <2> QED
    BY <1>1, <1>2, <1>3, <1>6, <2>1
<1>16. GroupAt(Nibble(i, m)) = m
  <2>1. GroupAt(Nibble(i, m)) = 2 * g + e
    BY <1>7, <1>10, <1>11, <1>12, <1>14 DEF GroupAt
  <2> QED
    BY <1>4, <2>1
<1> QED
  BY <1>7, <1>12, <1>14, <1>15, <1>16 DEF q

\* Every nibble belongs to a row and a group, and lies in the tile of the row.
LEMMA NibbleOwner ==
  ASSUME NEW a \in Nat
  PROVE  /\ RowAt(a) \in Nat /\ GroupAt(a) \in CodeGroups
         /\ RowAt(a) \div Tile = (a \div 2) \div TileBytes
<1>1. PICK k, p \in Nat \ {0} :
        /\ Half = 2 * k /\ Tile = 4 * k /\ Half \div 2 = k
        /\ Subquantizers = 2 * p /\ Subquantizers \div 2 = p
        /\ TileBytes = p * Tile
        /\ TileBytes \in Nat \ {0} /\ CodeGroups = 0 .. 2 * p - 1
  BY TileSizes
<1> DEFINE c == a \div 2
           h == a % 2
           q == c \div TileBytes
           r == c % TileBytes
           b == c % Half
<1>2. c \in Nat /\ h \in {0, 1}
  OBVIOUS
<1> HIDE DEF c, h
<1>3. q \in Nat /\ r \in 0 .. TileBytes - 1
  BY <1>1, <1>2, Whole
<1>4. b \in 0 .. 2 * k - 1
  BY <1>1, <1>2, Whole, SMTT(30)
<1> HIDE DEF q, r, b
<1>5. h * Half + (b % 2) * k + b \div 2 \in 0 .. Tile - 1
  <2>1. b % 2 \in {0, 1} /\ b \div 2 \in 0 .. k - 1
    BY <1>4
  <2> QED
    BY <1>1, <1>2, <2>1
<1> DEFINE s == h * Half + (b % 2) * k + b \div 2
<1> HIDE DEF s
<1>6. RowAt(a) = q * Tile + s
  <2>1. RowAt(a) = q * Tile + h * Half + (b % 2) * k + b \div 2
    BY <1>1 DEF RowAt, c, h, q, b
  <2>2. q * Tile \in Int /\ h * Half \in Int /\ (b % 2) * k \in Int /\ b \div 2 \in Int
    BY <1>1, <1>2, <1>3, <1>4
  <2> QED
    BY <2>1, <2>2 DEF s
<1>7. RowAt(a) \in Nat /\ RowAt(a) \div Tile = q
  <2>1. s \in 0 .. Tile - 1 /\ Tile \in Nat \ {0}
    BY <1>1, <1>5 DEF s
  <2>2. (q * Tile + s) \div Tile = q
    BY <1>3, <2>1, Split
  <2>3. q * Tile + s \in Nat
    BY <1>3, <2>1
  <2> QED
    BY <1>6, <2>2, <2>3
<1>8. GroupAt(a) \in CodeGroups
  <2> DEFINE g == r \div Tile
             x == r % Tile
  <2>1. GroupAt(a) = 2 * g + x \div Half
    BY DEF GroupAt, c, r
  <2>2. g \in Nat /\ x \in 0 .. 4 * k - 1
    <3>1. r \in Nat /\ Tile \in Nat \ {0}
      BY <1>1, <1>3
    <3>2. r \div Tile \in Nat /\ r % Tile \in 0 .. Tile - 1
      BY <3>1, Whole
    <3> QED
      BY <1>1, <3>2
  <2>3. g < p
    <3>1. r < p * Tile /\ r \in Nat /\ Tile \in Nat \ {0}
      BY <1>1, <1>3
    <3> QED
      BY <3>1, BelowProduct
  <2> HIDE DEF g, x
  <2>4. x \div Half \in {0, 1}
    BY <1>1, <2>2
  <2> QED
    BY <1>1, <2>1, <2>2, <2>3, <2>4
<1> QED
  BY <1>7, <1>8 DEF q, c

\* A byte of metadata knows its place as well.
LEMMA MetadataPlace ==
  ASSUME NEW i \in Nat, NEW p \in Planes
  PROVE  /\ MetadataByte(i, p) \in Nat
         /\ MetadataRow(MetadataByte(i, p)) = i /\ Plane(MetadataByte(i, p)) = p
         /\ MetadataByte(i, p) \div (3 * Tile) = i \div Tile
<1>1. Tile \in Nat \ {0} /\ 3 * Tile \in Nat \ {0}
  BY TileSizes
<1> DEFINE q == i \div Tile
           r == i % Tile
           s == p * Tile + r
           a == q * (3 * Tile) + s
<1>2. q \in Nat /\ r \in 0 .. Tile - 1 /\ i = q * Tile + r
  BY <1>1, Whole
<1> HIDE DEF q, r
<1>3. p \in {0, 1, 2}
  BY DEF Planes
<1>4. s \in 0 .. 3 * Tile - 1 /\ s \div Tile = p /\ s % Tile = r
  BY <1>1, <1>2, <1>3
<1>5. MetadataByte(i, p) = a
  <2>1. MetadataByte(i, p) = q * 3 * Tile + p * Tile + r
    BY DEF MetadataByte, q, r
  <2>2. q * 3 * Tile = q * (3 * Tile)
    BY <1>1, <1>2
  <2>3. q * (3 * Tile) \in Int /\ p * Tile \in Int
    BY <1>1, <1>2, <1>3
  <2> QED
    BY <1>2, <2>1, <2>2, <2>3
<1>6. a \in Nat /\ a \div (3 * Tile) = q /\ a % (3 * Tile) = s
  <2> HIDE DEF s
  <2>1. a \div (3 * Tile) = q /\ a % (3 * Tile) = s
    BY <1>1, <1>2, <1>4, Split
  <2>2. a \in Nat
    BY <1>1, <1>2, <1>4
  <2> QED
    BY <2>1, <2>2
<1>7. a % Tile = r
  <2>1. a = (3 * q + p) * Tile + r
    <3>1. q * (3 * Tile) = (3 * q) * Tile
      BY <1>1, <1>2
    <3>2. (3 * q + p) * Tile = (3 * q) * Tile + p * Tile
      BY <1>1, <1>2, <1>3
    <3>3. (3 * q) * Tile \in Int /\ p * Tile \in Int
      BY <1>1, <1>2, <1>3
    <3> QED
      BY <1>2, <3>1, <3>2, <3>3
  <2>2. 3 * q + p \in Nat
    BY <1>2, <1>3
  <2> HIDE DEF a
  <2> QED
    BY <1>1, <1>2, <2>1, <2>2, Split
<1> HIDE DEF a, s
<1> QED
  BY <1>2, <1>4, <1>5, <1>6, <1>7 DEF MetadataRow, Plane, q

\* Every metadata byte is that of a row and a plane, in the tile of its row.
LEMMA MetadataOwner ==
  ASSUME NEW a \in Nat
  PROVE  /\ MetadataRow(a) \in Nat /\ Plane(a) \in Planes
         /\ MetadataRow(a) \div Tile = a \div (3 * Tile)
<1>1. Tile \in Nat \ {0} /\ 3 * Tile \in Nat \ {0}
  BY TileSizes
<1> DEFINE q == a \div (3 * Tile)
           r == a % (3 * Tile)
           s == a % Tile
<1>2. q \in Nat /\ r \in 0 .. 3 * Tile - 1
  BY <1>1, Whole
<1>3. s \in 0 .. Tile - 1
  BY <1>1, Whole
<1>4. MetadataRow(a) = q * Tile + s /\ Plane(a) = r \div Tile
  BY DEF MetadataRow, Plane
<1> HIDE DEF q, r, s
<1>5. (q * Tile + s) \div Tile = q /\ q * Tile + s \in Nat
  BY <1>1, <1>2, <1>3, Split
<1>6. r \div Tile \in {0, 1, 2}
  <2>1. r < 3 * Tile /\ r \in Nat /\ 3 \in Nat
    BY <1>1, <1>2
  <2>2. r \div Tile < 3 /\ r \div Tile \in Nat
    BY <1>1, <2>1, BelowProduct, Whole
  <2> QED
    BY <2>2
<1> QED
  BY <1>4, <1>5, <1>6 DEF Planes, q

\* The rows of t tiles are those whose nibbles and bytes t tiles have.
LEMMA InTiles ==
  ASSUME NEW t \in Nat, NEW i \in Nat
  PROVE  /\ \A m \in CodeGroups :
              i < t * Tile <=> Nibble(i, m) \in 0 .. 2 * TileBytes * t - 1
         /\ \A p \in Planes :
              i < t * Tile <=> MetadataByte(i, p) \in 0 .. 3 * Tile * t - 1
<1>1. /\ Tile \in Nat \ {0} /\ 3 * Tile \in Nat \ {0}
      /\ TileBytes \in Nat \ {0}
  BY TileSizes
<1>2. i < t * Tile <=> i \div Tile < t
  BY <1>1, BelowProduct
<1>3. ASSUME NEW m \in CodeGroups
      PROVE  i < t * Tile <=> Nibble(i, m) \in 0 .. 2 * TileBytes * t - 1
  <2> DEFINE a == Nibble(i, m)
  <2>1. a \in Nat /\ (a \div 2) \div TileBytes = i \div Tile
    BY NibblePlace
  <2> HIDE DEF a
  <2>2. a \div 2 \in Nat
    BY <2>1
  <2>3. a \div 2 < t * TileBytes <=> (a \div 2) \div TileBytes < t
    BY <1>1, <2>2, BelowProduct
  <2>4. t * TileBytes \in Nat /\ 2 * TileBytes * t = 2 * (t * TileBytes)
    BY <1>1
  <2>5. a < 2 * (t * TileBytes) <=> a \div 2 < t * TileBytes
    BY <2>1, <2>4
  <2> QED
    BY <1>2, <2>1, <2>3, <2>4, <2>5 DEF a
<1>4. ASSUME NEW p \in Planes
      PROVE  i < t * Tile <=> MetadataByte(i, p) \in 0 .. 3 * Tile * t - 1
  <2> DEFINE a == MetadataByte(i, p)
  <2>1. a \in Nat /\ a \div (3 * Tile) = i \div Tile
    BY MetadataPlace
  <2> HIDE DEF a
  <2>2. a < t * (3 * Tile) <=> a \div (3 * Tile) < t
    BY <1>1, <2>1, BelowProduct
  <2>3. 3 * Tile * t = t * (3 * Tile) /\ t * (3 * Tile) \in Nat
    BY <1>1
  <2> QED
    BY <1>2, <2>1, <2>2, <2>3 DEF a
<1> QED
  BY <1>3, <1>4

(***************************************************************************)
(* What the three updates of the buffers do to the lanes.                  *)
(***************************************************************************)
\* What a lane holds.
LaneType == [code: [CodeGroups -> 0 .. 15], metadata: [Planes -> 0 .. 255]]

\* Buffers of t tiles.
Shaped(l, t) ==
  l \in [size: Nat, codes: [0 .. 2 * TileBytes * t - 1 -> 0 .. 15],
            metadata: [0 .. 3 * Tile * t - 1 -> 0 .. 255]]

\* The numbers of an interval, and what they are numbers of.
LEMMA FiniteInterval ==
  ASSUME NEW n \in Nat, NEW S \in SUBSET (0 .. n - 1)
  PROVE  IsFiniteSet(S) /\ Cardinality(S) \in 0 .. n
<1>1. 0 \in Int /\ n - 1 \in Int
  OBVIOUS
<1>2. IsFiniteSet(0 .. n - 1) /\ Cardinality(0 .. n - 1) = n
  BY <1>1, FS_Interval
<1>3. IsFiniteSet(S) /\ Cardinality(S) <= Cardinality(0 .. n - 1)
  BY <1>2, FS_Subset
<1>4. Cardinality(S) \in Nat
  BY <1>3, FS_CardinalityType
<1> QED
  BY <1>2, <1>3, <1>4

\* A lane holds nibbles and bytes.
LEMMA LaneTyped ==
  ASSUME NEW l, NEW t \in Nat, Shaped(l, t), NEW i \in 0 .. t * Tile - 1
  PROVE  LaneAt(l, i) \in LaneType
<1>1. i \in Nat /\ i < t * Tile
  BY TileSizes
<1>2. \A m \in CodeGroups : l.codes[Nibble(i, m)] \in 0 .. 15
  BY <1>1, InTiles DEF Shaped
<1>3. \A p \in Planes : l.metadata[MetadataByte(i, p)] \in 0 .. 255
  BY <1>1, InTiles DEF Shaped
<1> QED
  BY <1>2, <1>3 DEF LaneAt, CodeAt, MetadataAt, LaneType

\* Lanes are equal when their nibbles and bytes are.
LEMMA LaneOf ==
  ASSUME NEW l, NEW i, NEW lane \in LaneType,
         \A m \in CodeGroups : l.codes[Nibble(i, m)] = lane.code[m],
         \A p \in Planes : l.metadata[MetadataByte(i, p)] = lane.metadata[p]
  PROVE  LaneAt(l, i) = lane
<1>1. CodeAt(l, i) = lane.code
  BY DEF CodeAt, LaneType
<1>2. MetadataAt(l, i) = lane.metadata
  BY DEF MetadataAt, LaneType
<1> QED
  BY <1>1, <1>2 DEF LaneAt, LaneType

\* The room n rows need: whole tiles, no more than a larger number needs.
LEMMA PaddedTiles ==
  ASSUME NEW n \in Nat
  PROVE  \E t \in Nat : /\ Padded(n) = t * Tile /\ Padded(n) \div Tile = t
                        /\ n <= t * Tile
                        /\ \A k \in Nat : n <= k => t <= Padded(k) \div Tile
<1>1. Tile \in Nat \ {0}
  BY TileSizes
<1> DEFINE up(k) == (k + Tile - 1) \div Tile
<1>2. \A k \in Nat : up(k) \in Nat /\ Padded(k) \div Tile = up(k)
  <2> TAKE k \in Nat
  <2>1. up(k) \in Nat
    BY <1>1, Whole
  <2> HIDE DEF up
  <2>2. Padded(k) = up(k) * Tile + 0
    BY <1>1, <2>1 DEF Padded, up
  <2> QED
    BY <1>1, <2>1, <2>2, Split
<1>3. n <= up(n) * Tile
  BY <1>1
<1>4. \A k \in Nat : n <= k => up(n) <= up(k)
  BY <1>1
<1> QED
  BY <1>2, <1>3, <1>4 DEF Padded

\* Resizing keeps the lanes that stay and adds empty ones.
LEMMA ResizedLanes ==
  ASSUME NEW l, NEW t \in Nat, Shaped(l, t), NEW n \in Nat,
         NEW u \in Nat, Padded(n) = u * Tile, Padded(n) \div Tile = u
  PROVE  /\ Shaped(Resized(l, n), u) /\ Resized(l, n).size = l.size
         /\ \A i \in 0 .. u * Tile - 1 :
              LaneAt(Resized(l, n), i)
                = IF i < t * Tile THEN LaneAt(l, i) ELSE EmptyLane
<1> DEFINE new == Resized(l, n)
           codes == [a \in 0 .. 2 * TileBytes * u - 1 |->
                       IF a \in DOMAIN l.codes THEN l.codes[a] ELSE 0]
           metadata == [a \in 0 .. 3 * Padded(n) - 1 |->
                          IF a \in DOMAIN l.metadata THEN l.metadata[a]
                          ELSE 255]
<1>1. Tile \in Nat \ {0} /\ TileBytes \in Nat \ {0}
  BY TileSizes
<1>0. /\ l.codes \in [0 .. 2 * TileBytes * t - 1 -> 0 .. 15]
      /\ l.metadata \in [0 .. 3 * Tile * t - 1 -> 0 .. 255]
      /\ l.size \in Nat
  BY DEF Shaped
<1>2. new = [size |-> l.size, codes |-> codes, metadata |-> metadata]
  <2>1. DOMAIN l = {"size", "codes", "metadata"}
    BY DEF Shaped
  <2>2. /\ new.size = l.size /\ new.codes = codes /\ new.metadata = metadata
        /\ DOMAIN new = DOMAIN l
    BY <2>1 DEF Resized
  <2>3. new = [x \in DOMAIN l |-> new[x]]
    BY DEF Resized
  <2> HIDE DEF new, codes, metadata
  <2> QED
    BY <2>1, <2>2, <2>3
<1>3. 3 * Padded(n) = 3 * Tile * u
  BY <1>1
<1>4. codes \in [0 .. 2 * TileBytes * u - 1 -> 0 .. 15]
  <2>1. \A a \in DOMAIN l.codes : l.codes[a] \in 0 .. 15
    BY <1>0
  <2>2. 0 \in 0 .. 15
    OBVIOUS
  <2> QED
    BY <2>1, <2>2
<1>5. metadata \in [0 .. 3 * Tile * u - 1 -> 0 .. 255]
  <2>1. \A a \in DOMAIN l.metadata : l.metadata[a] \in 0 .. 255
    BY <1>0
  <2>2. 255 \in 0 .. 255
    OBVIOUS
  <2> QED
    BY <1>3, <2>1, <2>2
<1>6. Shaped(new, u) /\ new.size = l.size
  <2> HIDE DEF new, codes, metadata
  <2> QED
    BY <1>0, <1>2, <1>4, <1>5 DEF Shaped
<1>7. ASSUME NEW i \in 0 .. u * Tile - 1
      PROVE  LaneAt(new, i)
               = IF i < t * Tile THEN LaneAt(l, i) ELSE EmptyLane
  <2>1. i \in Nat /\ i < u * Tile
    BY <1>1
  <2>2. \A m \in CodeGroups : Nibble(i, m) \in 0 .. 2 * TileBytes * u - 1
    BY <2>1, InTiles
  <2>3. \A p \in Planes : MetadataByte(i, p) \in 0 .. 3 * Tile * u - 1
    BY <2>1, InTiles
  <2>4. \A m \in CodeGroups :
          new.codes[Nibble(i, m)]
            = IF Nibble(i, m) \in 0 .. 2 * TileBytes * t - 1
              THEN l.codes[Nibble(i, m)] ELSE 0
    <3>1. new.codes = codes /\ DOMAIN l.codes = 0 .. 2 * TileBytes * t - 1
      BY <1>0, <1>2
    <3> HIDE DEF new
    <3> QED
      BY <2>2, <3>1
  <2>5. \A p \in Planes :
          new.metadata[MetadataByte(i, p)]
            = IF MetadataByte(i, p) \in 0 .. 3 * Tile * t - 1
              THEN l.metadata[MetadataByte(i, p)] ELSE 255
    <3>1. /\ new.metadata = metadata
          /\ DOMAIN l.metadata = 0 .. 3 * Tile * t - 1
      BY <1>0, <1>2
    <3> HIDE DEF new
    <3> QED
      BY <1>3, <2>3, <3>1
  <2> HIDE DEF new
  <2>6. CASE i < t * Tile
    <3>1. \A m \in CodeGroups : new.codes[Nibble(i, m)] = l.codes[Nibble(i, m)]
      BY <2>1, <2>4, <2>6, InTiles
    <3>2. \A p \in Planes :
            new.metadata[MetadataByte(i, p)] = l.metadata[MetadataByte(i, p)]
      BY <2>1, <2>5, <2>6, InTiles
    <3> QED
      BY <2>6, <3>1, <3>2 DEF LaneAt, CodeAt, MetadataAt
  <2>7. CASE ~(i < t * Tile)
    <3>1. \A m \in CodeGroups : new.codes[Nibble(i, m)] = 0
      BY <2>1, <2>4, <2>7, InTiles
    <3>2. \A p \in Planes : new.metadata[MetadataByte(i, p)] = 255
      BY <2>1, <2>5, <2>7, InTiles
    <3> QED
      BY <2>7, <3>1, <3>2 DEF LaneAt, CodeAt, MetadataAt, EmptyLane
  <2> QED
    BY <2>6, <2>7
<1> QED
  BY <1>6, <1>7

\* ORing into a clear nibble stores, and nothing ever exceeds a nibble.
LEMMA NibbleOred ==
  /\ \A x, y : NibbleOr(x, y) \in 0 .. 15
  /\ \A c \in 0 .. 15 : NibbleOr(0, c) = c
<1>1. ASSUME NEW x, NEW y PROVE NibbleOr(x, y) \in 0 .. 15
  <2> DEFINE either(w) == IF 1 \in {(x \div w) % 2, (y \div w) % 2} THEN w ELSE 0
  <2>1. /\ either(1) \in {0, 1} /\ either(2) \in {0, 2}
        /\ either(4) \in {0, 4} /\ either(8) \in {0, 8}
    OBVIOUS
  <2>2. NibbleOr(x, y) = either(1) + either(2) + either(4) + either(8)
    BY DEF NibbleOr
  <2> HIDE DEF either
  <2> QED
    BY <2>1, <2>2
<1>2. ASSUME NEW c \in 0 .. 15 PROVE NibbleOr(0, c) = c
  <2>1. \A w \in {1, 2, 4, 8} : (0 \div w) % 2 = 0
    OBVIOUS
  <2> DEFINE bit(w) == (c \div w) % 2
             either(w) == IF 1 \in {(0 \div w) % 2, bit(w)} THEN w ELSE 0
  <2>2. /\ bit(1) \in {0, 1} /\ bit(2) \in {0, 1}
        /\ bit(4) \in {0, 1} /\ bit(8) \in {0, 1}
        /\ c = bit(1) + 2 * bit(2) + 4 * bit(4) + 8 * bit(8)
    OBVIOUS
  <2>3. NibbleOr(0, c) = either(1) + either(2) + either(4) + either(8)
    BY DEF NibbleOr
  <2> HIDE DEF bit
  <2>4. /\ either(1) = bit(1) /\ either(2) = 2 * bit(2)
        /\ either(4) = 4 * bit(4) /\ either(8) = 8 * bit(8)
    BY <2>1, <2>2
  <2> HIDE DEF either
  <2> QED
    BY <2>2, <2>3, <2>4
<1> QED
  BY <1>1, <1>2

\* Appending to clear lanes puts the new lanes there and nothing elsewhere.
LEMMA AppendedLanes ==
  ASSUME NEW l, NEW t \in Nat, Shaped(l, t),
         NEW lane, DOMAIN lane \subseteq 0 .. t * Tile - 1,
         \A i \in DOMAIN lane : lane[i] \in LaneType,
         LanesEmpty(l, DOMAIN lane)
  PROVE  /\ Shaped(Appended(l, lane), t)
         /\ Appended(l, lane).size = l.size + Cardinality(DOMAIN lane)
         /\ \A i \in 0 .. t * Tile - 1 :
              LaneAt(Appended(l, lane), i)
                = IF i \in DOMAIN lane THEN lane[i] ELSE LaneAt(l, i)
<1> DEFINE new == Appended(l, lane)
           codes == [a \in DOMAIN l.codes |->
                       IF RowAt(a) \in DOMAIN lane
                       THEN NibbleOr(l.codes[a],
                                     lane[RowAt(a)].code[GroupAt(a)])
                       ELSE l.codes[a]]
           metadata == [a \in DOMAIN l.metadata |->
                          IF MetadataRow(a) \in DOMAIN lane
                          THEN lane[MetadataRow(a)].metadata[Plane(a)]
                          ELSE l.metadata[a]]
<1>1. Tile \in Nat \ {0} /\ TileBytes \in Nat \ {0}
  BY TileSizes
<1>2. new = [size |-> l.size + Cardinality(DOMAIN lane), codes |-> codes,
             metadata |-> metadata]
  BY DEF Appended
<1>0. /\ l.codes \in [0 .. 2 * TileBytes * t - 1 -> 0 .. 15]
      /\ l.metadata \in [0 .. 3 * Tile * t - 1 -> 0 .. 255]
      /\ l.size \in Nat
  BY DEF Shaped
<1>3. codes \in [0 .. 2 * TileBytes * t - 1 -> 0 .. 15]
  <2>1. ASSUME NEW a \in DOMAIN l.codes PROVE codes[a] \in 0 .. 15
    <3>1. l.codes[a] \in 0 .. 15
      BY <1>0
    <3>2. NibbleOr(l.codes[a], lane[RowAt(a)].code[GroupAt(a)]) \in 0 .. 15
      BY NibbleOred
    <3> QED
      BY <3>1, <3>2
  <2> QED
    BY <1>0, <2>1
<1>4. metadata \in [0 .. 3 * Tile * t - 1 -> 0 .. 255]
  <2> SUFFICES ASSUME NEW a \in 0 .. 3 * Tile * t - 1
               PROVE  metadata[a] \in 0 .. 255
    BY <1>0
  <2>1. Plane(a) \in Planes
    <3>1. a \in Nat
      OBVIOUS
    <3> QED
      BY <3>1, MetadataOwner
  <2>2. MetadataRow(a) \in DOMAIN lane =>
          lane[MetadataRow(a)].metadata[Plane(a)] \in 0 .. 255
    BY <2>1 DEF LaneType
  <2>3. metadata[a] = IF MetadataRow(a) \in DOMAIN lane
                      THEN lane[MetadataRow(a)].metadata[Plane(a)]
                      ELSE l.metadata[a]
    BY <1>0
  <2>4. l.metadata[a] \in 0 .. 255
    <3> DEFINE K == 0 .. 3 * Tile * t - 1
    <3>1. l.metadata \in [K -> 0 .. 255] /\ a \in K
      BY <1>0
    <3> HIDE DEF K
    <3> QED
      BY ONLY <3>1
  <2> QED
    BY ONLY <2>2, <2>3, <2>4
<1>5. Shaped(new, t) /\ new.size = l.size + Cardinality(DOMAIN lane)
  <2> HIDE DEF new, codes, metadata
  <2>1. Cardinality(DOMAIN lane) \in Nat
    <3>1. t * Tile \in Nat
      BY <1>1
    <3> QED
      BY <3>1, FiniteInterval
  <2> QED
    BY <1>0, <1>2, <1>3, <1>4, <2>1 DEF Shaped
<1>6. ASSUME NEW i \in 0 .. t * Tile - 1
      PROVE  LaneAt(new, i)
               = IF i \in DOMAIN lane THEN lane[i] ELSE LaneAt(l, i)
  <2>1. i \in Nat /\ i < t * Tile
    BY <1>1
  <2>2. \A m \in CodeGroups : Nibble(i, m) \in DOMAIN l.codes
    BY <2>1, InTiles DEF Shaped
  <2>3. \A p \in Planes : MetadataByte(i, p) \in DOMAIN l.metadata
    BY <2>1, InTiles DEF Shaped
  <2>4. \A m \in CodeGroups :
          new.codes[Nibble(i, m)]
            = IF i \in DOMAIN lane
              THEN NibbleOr(l.codes[Nibble(i, m)], lane[i].code[m])
              ELSE l.codes[Nibble(i, m)]
    BY <1>2, <2>1, <2>2, NibblePlace
  <2>5. \A p \in Planes :
          new.metadata[MetadataByte(i, p)]
            = IF i \in DOMAIN lane THEN lane[i].metadata[p]
              ELSE l.metadata[MetadataByte(i, p)]
    BY <1>2, <2>1, <2>3, MetadataPlace
  <2> HIDE DEF new
  <2>6. CASE i \in DOMAIN lane
    <3>1. CodeAt(l, i) = [m \in CodeGroups |-> 0]
      BY <2>6 DEF LanesEmpty, LaneAt, EmptyLane
    <3>2. \A m \in CodeGroups : l.codes[Nibble(i, m)] = 0
      BY <3>1 DEF CodeAt
    <3>3. lane[i] \in LaneType
      BY <2>6
    <3>4. \A m \in CodeGroups : new.codes[Nibble(i, m)] = lane[i].code[m]
      BY <2>4, <2>6, <3>2, <3>3, NibbleOred DEF LaneType
    <3> QED
      BY <2>5, <2>6, <3>3, <3>4, LaneOf
  <2>7. CASE i \notin DOMAIN lane
    BY <2>4, <2>5, <2>7 DEF LaneAt, CodeAt, MetadataAt
  <2> QED
    BY <2>6, <2>7
<1> QED
  BY <1>5, <1>6

\* Every hole has a row that fills it.
LEMMA SourceExists ==
  ASSUME NEW size \in Nat, NEW erased \in SUBSET (0 .. size - 1),
         NEW hole \in Holes(size, erased)
  PROVE  Source(size, erased, hole) \in (0 .. size - 1) \ erased
<1> DEFINE kept == Kept(size, erased)
           past == {i \in 0 .. size - 1 : i >= kept}
           tail == past \ erased
           holes == Holes(size, erased)
           before == {i \in holes : i < hole}
           later == {r \in tail \X tail : r[1] > r[2]}
<1>1. /\ IsFiniteSet(erased) /\ IsFiniteSet(past) /\ IsFiniteSet(tail)
      /\ IsFiniteSet(holes)
  <2>1. /\ past \in SUBSET (0 .. size - 1) /\ tail \in SUBSET (0 .. size - 1)
        /\ holes \in SUBSET (0 .. size - 1)
    BY DEF Holes
  <2> HIDE DEF past, tail, holes
  <2> QED
    BY <2>1, FiniteInterval
<1>2. Cardinality(erased) \in 0 .. size
  BY FiniteInterval
<1>3. kept \in 0 .. size /\ Cardinality(past) = Cardinality(erased)
  <2>1. kept \in 0 .. size
    BY <1>2 DEF Kept
  <2>2. past = kept .. size - 1
    BY <2>1
  <2>3. kept \in Int /\ size - 1 \in Int /\ kept = size - Cardinality(erased)
    BY <2>1 DEF Kept
  <2>4. Cardinality(kept .. size - 1)
          = IF kept > size - 1 THEN 0 ELSE (size - 1) - kept + 1
    <3> HIDE DEF kept
    <3> QED
      BY <2>3, FS_Interval
  <2> HIDE DEF kept, past
  <2> QED
    BY <1>2, <2>1, <2>2, <2>3, <2>4
<1>4. Cardinality(tail) = Cardinality(holes)
  <2> DEFINE both == past \cap erased
  <2>2. holes = erased \ past
    <3>1. \A i \in erased : i \in 0 .. size - 1 /\ (i < kept <=> ~(i >= kept))
      BY <1>3
    <3> HIDE DEF kept
    <3> QED
      BY <3>1 DEF Holes, kept
  <2>5. erased \cap past = both /\ past \cap erased = both /\ tail = past \ erased
    OBVIOUS
  <2> HIDE DEF past, holes, tail, both
  <2>1. Cardinality(tail) = Cardinality(past) - Cardinality(both)
    <3>1. Cardinality(past \ erased) = Cardinality(past) - Cardinality(past \cap erased)
      BY ONLY <1>1, FS_Difference
    <3> QED
      BY ONLY <2>5, <3>1
  <2>3. Cardinality(holes) = Cardinality(erased) - Cardinality(both)
    BY <1>1, <2>2, <2>5, FS_Difference
  <2> QED
    BY <1>3, <2>1, <2>3
<1>5. Cardinality(before) \in 0 .. Cardinality(tail) - 1
  <2>1. before \subseteq holes \ {hole}
    BY <1>3 DEF Holes
  <2>2. Cardinality(before) <= Cardinality(holes \ {hole})
    BY <1>1, <2>1, FS_Subset
  <2>3. Cardinality(holes \ {hole}) = Cardinality(holes) - 1
    BY <1>1, FS_RemoveElement
  <2>4. Cardinality(before) \in Nat
    BY <1>1, FS_Subset, FS_CardinalityType
  <2> HIDE DEF before, holes, tail
  <2> QED
    BY <1>4, <2>2, <2>3, <2>4
<1>6. \E x \in tail : Rank(tail, later, x) = Cardinality(before)
  <2>1. \A x \in tail : <<x, x>> \notin later
    OBVIOUS
  <2>2. \A x, y, z \in tail :
          <<x, y>> \in later /\ <<y, z>> \in later => <<x, z>> \in later
    OBVIOUS
  <2>3. \A x, y \in tail : x # y => <<x, y>> \in later \/ <<y, x>> \in later
    OBVIOUS
  <2> HIDE DEF tail, later, before
  <2>4. \A n \in 0 .. Cardinality(tail) - 1 :
          \E x \in tail : Rank(tail, later, x) = n
    BY <1>1, <2>1, <2>2, <2>3, Ranks
  <2> QED
    BY <1>5, <2>4
<1>7. \A x \in tail : Rank(tail, later, x) = Cardinality({j \in tail : j > x})
  <2> TAKE x \in tail
  <2>1. {j \in tail : <<j, x>> \in later} = {j \in tail : j > x}
    OBVIOUS
  <2> QED
    BY <2>1 DEF Rank
<1>8. Source(size, erased, hole)
        = CHOOSE i \in tail : Cardinality({j \in tail : j > i}) = Cardinality(before)
  BY DEF Source
<1>9. Source(size, erased, hole) \in tail
  <2> HIDE DEF tail, before
  <2> QED
    BY <1>6, <1>7, <1>8
<1> QED
  BY <1>9

\* Erasing rewrites the tiles it touches, and every row it changes is in one.
LEMMA ErasedLanes ==
  ASSUME NEW l, NEW t \in Nat, Shaped(l, t),
         l.size <= t * Tile, NEW erased \in SUBSET (0 .. l.size - 1)
  PROVE  /\ Shaped(Erased(l, erased), t)
         /\ Erased(l, erased).size = Kept(l.size, erased)
         /\ \A i \in 0 .. t * Tile - 1 :
              LaneAt(Erased(l, erased), i) = Rewritten(l, erased, i)
<1> DEFINE new == Erased(l, erased)
           kept == Kept(l.size, erased)
           tiles == TouchedTiles(l.size, erased)
           rows == UNION {s * Tile .. s * Tile + Tile - 1 : s \in tiles}
           lane == [i \in rows |-> Rewritten(l, erased, i)]
           codes == [a \in DOMAIN l.codes |->
                       IF RowAt(a) \in rows
                       THEN lane[RowAt(a)].code[GroupAt(a)]
                       ELSE l.codes[a]]
           metadata == [a \in DOMAIN l.metadata |->
                          IF MetadataRow(a) \in rows
                          THEN lane[MetadataRow(a)].metadata[Plane(a)]
                          ELSE l.metadata[a]]
<1>1. Tile \in Nat \ {0} /\ TileBytes \in Nat \ {0}
  BY TileSizes
<1>2. new = [size |-> kept, codes |-> codes, metadata |-> metadata]
  BY DEF Erased
<1>0. /\ l.codes \in [0 .. 2 * TileBytes * t - 1 -> 0 .. 15]
      /\ l.metadata \in [0 .. 3 * Tile * t - 1 -> 0 .. 255]
      /\ l.size \in Nat
  BY DEF Shaped
<1>3. kept \in 0 .. l.size
  <2>1. Cardinality(erased) \in 0 .. l.size
    BY <1>0, FiniteInterval
  <2> QED
    BY <1>0, <2>1 DEF Kept
<1>4. \A i \in 0 .. t * Tile - 1 : Rewritten(l, erased, i) \in LaneType
  <2> TAKE i \in 0 .. t * Tile - 1
  <2>1. LaneAt(l, i) \in LaneType
    BY LaneTyped
  <2>2. EmptyLane \in LaneType
    BY DEF EmptyLane, LaneType
  <2>3. i \in Holes(l.size, erased) =>
          LaneAt(l, Source(l.size, erased, i)) \in LaneType
    <3> SUFFICES ASSUME i \in Holes(l.size, erased)
                 PROVE  LaneAt(l, Source(l.size, erased, i)) \in LaneType
      OBVIOUS
    <3>1. Source(l.size, erased, i) \in 0 .. l.size - 1
      BY <1>0, SourceExists
    <3>2. Source(l.size, erased, i) \in 0 .. t * Tile - 1
      BY <1>0, <1>1, <3>1
    <3> QED
      BY <3>2, LaneTyped
  <2> QED
    BY <2>1, <2>2, <2>3 DEF Rewritten
<1>5. \A s \in tiles : s \in 0 .. t - 1
  <2> TAKE s \in tiles
  <2>1. s \in Nat /\ \E x \in 0 .. l.size - 1 : s <= x \div Tile
    <3>1. CASE s \in {i \div Tile : i \in Holes(l.size, erased)}
      <4>1. PICK i \in Holes(l.size, erased) : s = i \div Tile
        BY <3>1
      <4>2. i \in 0 .. l.size - 1
        BY DEF Holes
      <4>3. i \div Tile \in Nat
        <5>1. i \in Nat
          BY <4>2
        <5> QED
          BY <1>1, <5>1, Whole
      <4> QED
        BY <4>1, <4>2, <4>3
    <3>2. CASE s \in (kept \div Tile) .. ((l.size - 1) \div Tile)
      <4>1. kept \div Tile \in Nat
        BY <1>1, <1>3, Whole
      <4>2. l.size # 0
        <5> SUFFICES ASSUME l.size = 0 PROVE FALSE
          OBVIOUS
        <5>1. kept = 0
          BY <1>3
        <5>2. 0 \div Tile = 0 /\ (0 - 1) \div Tile = -1
          BY <1>1
        <5> QED
          BY <3>2, <5>1, <5>2
      <4>3. l.size - 1 \in 0 .. l.size - 1
        BY <1>0, <4>2
      <4>4. (l.size - 1) \div Tile \in Nat
        BY <1>1, <4>3, Whole
      <4> QED
        BY <3>2, <4>1, <4>3, <4>4
    <3> QED
      BY <3>1, <3>2 DEF TouchedTiles
  <2>2. PICK x \in 0 .. l.size - 1 : s <= x \div Tile
    BY <2>1
  <2>3. x \in Nat /\ x < t * Tile
    BY <1>0, <1>1
  <2>4. x \div Tile < t /\ x \div Tile \in Nat
    BY <1>1, <2>3, BelowProduct, Whole
  <2> QED
    BY <2>1, <2>2, <2>4
<1>6. rows \subseteq 0 .. t * Tile - 1
  <2> SUFFICES ASSUME NEW s \in tiles, NEW i \in s * Tile .. s * Tile + Tile - 1
               PROVE  i \in 0 .. t * Tile - 1
    OBVIOUS
  <2>1. s \in 0 .. t - 1
    BY <1>5
  <2>2. (s + 1) * Tile <= t * Tile /\ (s + 1) * Tile = s * Tile + Tile
        /\ s * Tile \in Nat
    BY <1>1, <2>1
  <2> QED
    BY <1>1, <2>1, <2>2
<1>7. ASSUME NEW i \in 0 .. t * Tile - 1, i \notin rows
      PROVE  Rewritten(l, erased, i) = LaneAt(l, i)
  <2>1. i \in Nat
    BY <1>1
  <2>2. i \div Tile \notin tiles
    <3>1. /\ i \div Tile \in Nat /\ i % Tile \in 0 .. Tile - 1
          /\ i = (i \div Tile) * Tile + (i % Tile)
      BY <1>1, <2>1, Whole
    <3>2. i \in (i \div Tile) * Tile .. (i \div Tile) * Tile + Tile - 1
      BY <1>1, <3>1
    <3> QED
      BY <1>7, <3>2
  <2>3. i \notin Holes(l.size, erased)
    BY <2>2 DEF TouchedTiles
  <2>4. ~(i \in kept .. l.size - 1)
    <3> SUFFICES ASSUME i \in kept .. l.size - 1 PROVE FALSE
      OBVIOUS
    <3>1. kept \div Tile <= i \div Tile /\ i \div Tile <= (l.size - 1) \div Tile
      <4>1. \A x, y \in Nat : x <= y => x \div Tile <= y \div Tile
        BY <1>1
      <4>2. kept \in Nat /\ l.size - 1 \in Nat
        BY <1>0, <1>3
      <4> QED
        BY <1>3, <2>1, <4>1, <4>2
    <3>2. /\ i \div Tile \in Int /\ kept \div Tile \in Int
          /\ (l.size - 1) \div Tile \in Int
      BY <1>0, <1>1, <1>3, <2>1
    <3> QED
      BY <2>2, <3>1, <3>2 DEF TouchedTiles
  <2> QED
    BY <2>3, <2>4 DEF Rewritten
<1> HIDE DEF rows
<1>8. codes \in [0 .. 2 * TileBytes * t - 1 -> 0 .. 15]
  <2> SUFFICES ASSUME NEW a \in 0 .. 2 * TileBytes * t - 1
               PROVE  codes[a] \in 0 .. 15
    BY <1>0
  <2>1. GroupAt(a) \in CodeGroups
    <3>1. a \in Nat
      OBVIOUS
    <3> QED
      BY <3>1, NibbleOwner
  <2>2. RowAt(a) \in rows =>
          Rewritten(l, erased, RowAt(a)).code[GroupAt(a)] \in 0 .. 15
    <3>1. RowAt(a) \in rows => Rewritten(l, erased, RowAt(a)) \in LaneType
      BY <1>4, <1>6
    <3> QED
      BY ONLY <2>1, <3>1 DEF LaneType
  <2>3. codes[a] = IF RowAt(a) \in rows
                   THEN Rewritten(l, erased, RowAt(a)).code[GroupAt(a)]
                   ELSE l.codes[a]
    BY <1>0, <1>6
  <2>4. l.codes[a] \in 0 .. 15
    <3> DEFINE K == 0 .. 2 * TileBytes * t - 1
    <3>1. l.codes \in [K -> 0 .. 15] /\ a \in K
      BY <1>0
    <3> HIDE DEF K
    <3> QED
      BY ONLY <3>1
  <2> QED
    BY ONLY <2>2, <2>3, <2>4
<1>9. metadata \in [0 .. 3 * Tile * t - 1 -> 0 .. 255]
  <2> SUFFICES ASSUME NEW a \in 0 .. 3 * Tile * t - 1
               PROVE  metadata[a] \in 0 .. 255
    BY <1>0
  <2>1. Plane(a) \in Planes
    <3>1. a \in Nat
      OBVIOUS
    <3> QED
      BY <3>1, MetadataOwner
  <2>2. MetadataRow(a) \in rows =>
          Rewritten(l, erased, MetadataRow(a)).metadata[Plane(a)] \in 0 .. 255
    <3>1. MetadataRow(a) \in rows => Rewritten(l, erased, MetadataRow(a)) \in LaneType
      BY <1>4, <1>6
    <3> QED
      BY ONLY <2>1, <3>1 DEF LaneType
  <2>3. metadata[a] = IF MetadataRow(a) \in rows
                      THEN Rewritten(l, erased, MetadataRow(a)).metadata[Plane(a)]
                      ELSE l.metadata[a]
    BY <1>0, <1>6
  <2>4. l.metadata[a] \in 0 .. 255
    BY <1>0
  <2> QED
    BY ONLY <2>2, <2>3, <2>4
<1>10. Shaped(new, t) /\ new.size = kept
  <2> HIDE DEF new, codes, metadata
  <2> QED
    <3>1. kept \in Nat
      BY <1>0, <1>3
    <3> HIDE DEF kept
    <3> QED
      BY <1>2, <1>8, <1>9, <3>1 DEF Shaped
<1>11. ASSUME NEW i \in 0 .. t * Tile - 1
       PROVE  LaneAt(new, i) = Rewritten(l, erased, i)
  <2>1. i \in Nat /\ i < t * Tile
    BY <1>1
  <2>2. \A m \in CodeGroups : Nibble(i, m) \in DOMAIN l.codes
    BY <2>1, InTiles DEF Shaped
  <2>3. \A p \in Planes : MetadataByte(i, p) \in DOMAIN l.metadata
    BY <2>1, InTiles DEF Shaped
  <2>4. \A m \in CodeGroups :
          new.codes[Nibble(i, m)]
            = IF i \in rows THEN Rewritten(l, erased, i).code[m]
              ELSE l.codes[Nibble(i, m)]
    BY <1>2, <2>1, <2>2, NibblePlace
  <2>5. \A p \in Planes :
          new.metadata[MetadataByte(i, p)]
            = IF i \in rows THEN Rewritten(l, erased, i).metadata[p]
              ELSE l.metadata[MetadataByte(i, p)]
    BY <1>2, <2>1, <2>3, MetadataPlace
  <2> HIDE DEF new
  <2>6. CASE i \in rows
    <3>1. Rewritten(l, erased, i) \in LaneType
      BY <1>4
    <3> QED
      BY <2>4, <2>5, <2>6, <3>1, LaneOf
  <2>7. CASE i \notin rows
    <3>1. LaneAt(new, i) = LaneAt(l, i)
      BY <2>4, <2>5, <2>7 DEF LaneAt, CodeAt, MetadataAt
    <3> QED
      BY <1>7, <2>7, <3>1
  <2> QED
    BY <2>6, <2>7
<1> QED
  BY <1>10, <1>11

(***************************************************************************)
(* The kernels.                                                            *)
(***************************************************************************)
\* The groups of a code are Subquantizers numbers.
LEMMA CodeGroupsFinite ==
  /\ IsFiniteSet(CodeGroups) /\ Cardinality(CodeGroups) = Subquantizers
  /\ CodeGroups # {} /\ Subquantizers \in Nat \ {0}
<1>1. Subquantizers \in Nat \ {0}
  BY TileAssumption
<1>2. IsFiniteSet(0 .. Subquantizers - 1)
      /\ Cardinality(0 .. Subquantizers - 1) = Subquantizers
  <2> DEFINE n == Subquantizers - 1
  <2>1. n \in Int /\ 0 \in Int /\ n - 0 + 1 = Subquantizers /\ n >= 0
    BY <1>1
  <2> HIDE DEF n
  <2>2. IsFiniteSet(0 .. n) /\ (0 <= n => Cardinality(0 .. n) = n - 0 + 1)
    BY <2>1, FS_Interval
  <2> QED
    BY <2>1, <2>2 DEF n
<1>3. 0 \in CodeGroups
  BY <1>1 DEF CodeGroups
<1> QED
  BY <1>1, <1>2, <1>3 DEF CodeGroups

\* The table entries that the code of row i selects.
Selects(l, lut, i, row) ==
  \A m \in CodeGroups :
    row[m] \in Int /\ row[m] = lut[m][l.codes[Nibble(i, m)]]

\* The scalar kernel adds up the entries the codes of a row select.
LEMMA ScalarDotSum ==
  ASSUME NEW l, NEW lut, NEW i, NEW row, Selects(l, lut, i, row)
  PROVE  /\ Numbers(row, CodeGroups)
         /\ ScalarDot(l, lut, i) = SumFunctionOnSet(row, CodeGroups)
<1> DEFINE e == [m \in CodeGroups |-> lut[m][l.codes[Nibble(i, m)]]]
<1>1. DOMAIN e = CodeGroups /\ \A m \in CodeGroups : e[m] = row[m]
  BY DEF Selects
<1>2. ScalarDot(l, lut, i) = SumFunctionOnSet(e, DOMAIN e)
  BY DEF ScalarDot, SumFunction
<1> HIDE DEF e
<1>3. Numbers(row, CodeGroups)
  BY CodeGroupsFinite DEF Numbers, Selects
<1>4. SumFunctionOnSet(e, CodeGroups) = SumFunctionOnSet(row, CodeGroups)
  BY <1>1, <1>3, SumSame
<1> QED
  BY <1>1, <1>2, <1>3, <1>4

\* The two nibbles the AVX-512 kernel adds for a pair of groups are the codes of
\* the row it restores the sum to.
LEMMA NibblePair ==
  ASSUME NEW i \in Nat, NEW m \in CodeGroups, m % 2 = 0, NEW pair, NEW j, NEW high,
         pair = (i \div Tile) * TileBytes + (m \div 2) * Tile,
         j = SequentialOrder(i % Half), high = (i % Tile) \div Half
  PROVE  /\ m + 1 \in CodeGroups
         /\ 2 * (pair + j) + high = Nibble(i, m)
         /\ 2 * (pair + Half + j) + high = Nibble(i, m + 1)
<1>1. PICK k, p \in Nat \ {0} :
        /\ Half = 2 * k /\ Tile = 4 * k /\ Half \div 2 = k
        /\ Subquantizers = 2 * p /\ Subquantizers \div 2 = p
        /\ TileBytes = p * Tile
        /\ TileBytes \in Nat \ {0} /\ CodeGroups = 0 .. 2 * p - 1
  BY TileSizes
<1>2. m + 1 \in CodeGroups /\ (m + 1) \div 2 = m \div 2 /\ (m + 1) % 2 = 1
  <2>1. m \in 0 .. 2 * p - 1 /\ p \in Nat
    BY <1>1
  <2>2. m + 1 \in 0 .. 2 * p - 1
    BY ONLY <2>1, m % 2 = 0
  <2>3. (m + 1) \div 2 = m \div 2 /\ (m + 1) % 2 = 1
    BY ONLY <2>1, m % 2 = 0
  <2> QED
    BY <1>1, <2>2, <2>3
<1> DEFINE a == (i \div Tile) * TileBytes
           g == (m \div 2) * Tile
           byte(l) == IF l < Half \div 2 THEN 2 * l ELSE 2 * (l - Half \div 2) + 1
<1>3. /\ Nibble(i, m)
           = 2 * (a + g + (m % 2) * Half + byte(i % Half)) + (i % Tile) \div Half
      /\ Nibble(i, m + 1)
           = 2 * (a + ((m + 1) \div 2) * Tile + ((m + 1) % 2) * Half + byte(i % Half))
               + (i % Tile) \div Half
  BY DEF Nibble
<1>4. j = byte(i % Half)
  BY DEF SequentialOrder
<1>5. a \in Int /\ g \in Int /\ Half \in Int
  <2>1. i \div Tile \in Int
    BY <1>1
  <2>2. m \div 2 \in Int
    BY <1>1
  <2> QED
    BY <1>1, <2>1, <2>2
<1>6. j \in Int /\ high \in Int
  <2>1. i % Half \in Int
    BY <1>1
  <2> DEFINE l == i % Half
  <2> HIDE DEF l
  <2>2. byte(l) \in Int
    BY <1>1, <2>1 DEF l
  <2>3. i % Tile \in Int /\ (i % Tile) \div Half \in Int
    BY <1>1
  <2> QED
    BY <1>4, <2>2, <2>3 DEF l
<1> HIDE DEF a, g, byte
<1>7. Nibble(i, m) = 2 * (a + g + 0 * Half + j) + high
  BY <1>3, <1>4
<1>8. Nibble(i, m + 1) = 2 * (a + g + 1 * Half + j) + high
  BY <1>2, <1>3, <1>4 DEF g
<1>9. pair = a + g
  BY DEF a, g
<1> QED
  BY ONLY <1>2, <1>5, <1>6, <1>7, <1>8, <1>9

\* The AVX-512 kernel adds up the same entries: its lane order brings every sum
\* back to the row it belongs to.
LEMMA Avx512DotSum ==
  ASSUME NEW l, NEW lut, NEW i \in Nat, NEW row, Selects(l, lut, i, row)
  PROVE  /\ Numbers(row, CodeGroups)
         /\ Avx512Dot(l, lut, i) = SumFunctionOnSet(row, CodeGroups)
<1> DEFINE Even == {g \in CodeGroups : g % 2 = 0}
           Odd == {g \in CodeGroups : g % 2 = 1}
           j == SequentialOrder(i % Half)
           high == (i % Tile) \div Half
           pair(m) == (i \div Tile) * TileBytes + (m \div 2) * Tile
           e == [m \in Even |-> lut[m][l.codes[2 * (pair(m) + j) + high]]
                                  + lut[m + 1][l.codes[2 * (pair(m) + Half + j) + high]]]
           next == [m \in Even |-> m + 1]
           odd == [m \in Even |-> row[m + 1]]
<1>1. Avx512Dot(l, lut, i) = SumFunctionOnSet(e, DOMAIN e)
  BY DEF Avx512Dot, HalfTileSum, SumFunction
<1>2. DOMAIN e = Even
  OBVIOUS
<1>3. \A m \in Even : m + 1 \in CodeGroups /\ e[m] = row[m] + row[m + 1]
  <2> TAKE m \in Even
  <2>1. m \in CodeGroups /\ m % 2 = 0
    OBVIOUS
  <2>2. /\ m + 1 \in CodeGroups
        /\ 2 * (pair(m) + j) + high = Nibble(i, m)
        /\ 2 * (pair(m) + Half + j) + high = Nibble(i, m + 1)
    BY <2>1, NibblePair
  <2>3. e[m] = lut[m][l.codes[2 * (pair(m) + j) + high]]
                 + lut[m + 1][l.codes[2 * (pair(m) + Half + j) + high]]
    OBVIOUS
  <2> HIDE DEF e, pair, j, high
  <2>4. e[m] = lut[m][l.codes[Nibble(i, m)]] + lut[m + 1][l.codes[Nibble(i, m + 1)]]
    BY ONLY <2>2, <2>3
  <2> QED
    BY <2>1, <2>2, <2>4, SMTT(30) DEF Selects
<1> HIDE DEF e, j, high, pair
<1>4. Numbers(row, CodeGroups)
  BY CodeGroupsFinite DEF Numbers, Selects
<1>5. Numbers(row, Even) /\ Numbers(row, Odd)
  <2>1. IsFiniteSet(Even) /\ IsFiniteSet(Odd)
    <3>1. Even \subseteq CodeGroups /\ Odd \subseteq CodeGroups
      OBVIOUS
    <3> QED
      BY <3>1, CodeGroupsFinite, FS_Subset
  <2> QED
    BY <1>4, <2>1 DEF Numbers
<1>6. Even \cap Odd = {} /\ Even \cup Odd = CodeGroups
  <2>1. CodeGroups \subseteq Nat
    BY CodeGroupsFinite DEF CodeGroups
  <2>2. \A m \in Nat : m % 2 = 0 \/ m % 2 = 1
    OBVIOUS
  <2>3. Even \cap Odd = {}
    OBVIOUS
  <2>4. Even \cup Odd \subseteq CodeGroups
    OBVIOUS
  <2>5. \A m \in CodeGroups : m \in Even \cup Odd
    BY <2>1, <2>2
  <2> QED
    BY ONLY <2>3, <2>4, <2>5
<1>7. SumFunctionOnSet(row, CodeGroups)
        = SumFunctionOnSet(row, Even) + SumFunctionOnSet(row, Odd)
  <2> HIDE DEF Even, Odd
  <2> QED
    BY <1>5, <1>6, SumUnion
<1>8. Renames(Even, Odd, next, row, odd)
  <2>1. IsFiniteSet(Even)
    BY <1>5 DEF Numbers
  <2>1a. CodeGroups \subseteq Nat
    BY CodeGroupsFinite DEF CodeGroups
  <2>2. \A m \in Even : next[m] = m + 1 /\ odd[m] = row[m + 1] /\ m \in Nat
    BY <2>1a
  <2>3. \A m \in Even : m + 1 \in Odd /\ row[m + 1] \in Int
    <3> TAKE m \in Even
    <3>1. m \in Nat /\ m % 2 = 0 /\ m + 1 \in CodeGroups
      BY <1>3, <2>2
    <3>2. (m + 1) % 2 = 1
      BY <3>1
    <3> QED
      BY <3>1, <3>2 DEF Selects
  <2>4. \A z \in Odd : \E m \in Even : next[m] = z
    <3> TAKE z \in Odd
    <3>1. z \in Nat /\ z \in CodeGroups /\ z % 2 = 1
      BY <2>1a
    <3>2. z - 1 \in CodeGroups /\ (z - 1) % 2 = 0
      BY <3>1, CodeGroupsFinite DEF CodeGroups
    <3>3. z - 1 \in Even /\ (z - 1) + 1 = z
      BY <3>1, <3>2
    <3> QED
      BY <2>2, <3>3
  <2> HIDE DEF Even, Odd, next, odd
  <2>5. \A m \in Even : /\ next[m] \in Odd /\ row[next[m]] \in Int
                        /\ odd[m] = row[next[m]]
    BY <2>2, <2>3
  <2>6. \A m, n \in Even : next[m] = next[n] => m = n
    BY <2>2
  <2> QED
    BY <2>1, <2>4, <2>5, <2>6 DEF Renames
<1>9. /\ Numbers(odd, Even)
      /\ SumFunctionOnSet(odd, Even) = SumFunctionOnSet(row, Odd)
  BY <1>8, SumRename
<1>10. \A m \in Even : e[m] = row[m] + odd[m]
  BY <1>3
<1> HIDE DEF Even, Odd, odd
<1>11. SumFunctionOnSet(e, Even)
         = SumFunctionOnSet(row, Even) + SumFunctionOnSet(odd, Even)
  BY <1>5, <1>9, <1>10, SumPlus
<1> QED
  BY <1>1, <1>2, <1>4, <1>7, <1>9, <1>11

(***************************************************************************)
(* The portable path.                                                      *)
(***************************************************************************)
\* The entries of a row of a table.
Entries(r) == {r[c] : c \in 0 .. 15}

\* An entry of a table row lies at most the span of the row above its least.
LEMMA EntriesNumbers ==
  ASSUME NEW r \in [0 .. 15 -> Int]
  PROVE  /\ Min(Entries(r)) \in Int /\ Span(r) \in Nat
         /\ \A c \in 0 .. 15 : r[c] - Min(Entries(r)) \in 0 .. Span(r)
<1> DEFINE S == Entries(r)
<1>1. IsFiniteSet(S)
  <2>1. IsFiniteSet(0 .. 15)
    <3>1. 0 \in Int /\ 15 \in Int
      OBVIOUS
    <3> QED
      BY <3>1, FS_Interval
  <2> QED
    BY <2>1, ImageFinite DEF Entries
<1>2. S # {} /\ S \subseteq Int /\ \A c \in 0 .. 15 : r[c] \in S
  BY DEF Entries
<1>3. Span(r) = Max(S) - Min(S)
  BY DEF Span, Entries
<1> HIDE DEF S
<1>4. Min(S) \in S /\ \A y \in S : Min(S) <= y
  BY <1>1, <1>2, MinNumber
<1>5. Max(S) \in S /\ \A y \in S : y <= Max(S)
  BY <1>1, <1>2, MaxNumber
<1>6. \A c \in 0 .. 15 : r[c] - Min(S) \in 0 .. (Max(S) - Min(S))
  <2> TAKE c \in 0 .. 15
  <2>1. /\ r[c] \in Int /\ Min(S) \in Int /\ Max(S) \in Int
        /\ Min(S) <= r[c] /\ r[c] <= Max(S)
    BY <1>2, <1>4, <1>5
  <2> QED
    BY <2>1
<1>7. Min(S) \in Int /\ Max(S) - Min(S) \in Nat
  <2>1. Min(S) \in Int /\ Max(S) \in Int /\ Min(S) <= Max(S)
    BY <1>2, <1>4, <1>5
  <2> QED
    BY ONLY <2>1
<1> QED
  BY <1>3, <1>6, <1>7 DEF S

\* The widest row of a table, and what is taken off a row.
WidestSpan(lut) == Max({Span(lut[m]) : m \in CodeGroups})
Least(lut) == [m \in CodeGroups |-> Min(Entries(lut[m]))]

\* An entry lies at most the widest span above the least of its row.
LEMMA LutNumbers ==
  ASSUME NEW lut \in [CodeGroups -> [0 .. 15 -> Int]]
  PROVE  /\ WidestSpan(lut) \in Nat
         /\ \A m \in CodeGroups :
              /\ Least(lut)[m] \in Int
              /\ \A c \in 0 .. 15 : lut[m][c] - Least(lut)[m] \in 0 .. WidestSpan(lut)
<1> DEFINE S == {Span(lut[m]) : m \in CodeGroups}
<1>1. \A m \in CodeGroups :
        /\ Least(lut)[m] = Min(Entries(lut[m])) /\ Least(lut)[m] \in Int
        /\ Span(lut[m]) \in Nat
        /\ \A c \in 0 .. 15 : lut[m][c] - Least(lut)[m] \in 0 .. Span(lut[m])
  <2> TAKE m \in CodeGroups
  <2>1. Least(lut)[m] = Min(Entries(lut[m]))
    BY DEF Least
  <2>2. lut[m] \in [0 .. 15 -> Int]
    OBVIOUS
  <2> QED
    BY <2>1, <2>2, EntriesNumbers
<1>2. IsFiniteSet(S)
  <2> DEFINE e == [m \in CodeGroups |-> Span(lut[m])]
  <2>1. S = {e[m] : m \in CodeGroups}
    OBVIOUS
  <2> HIDE DEF e, S
  <2> QED
    BY <2>1, CodeGroupsFinite, ImageFinite
<1>3. S # {} /\ S \subseteq Nat /\ \A m \in CodeGroups : Span(lut[m]) \in S
  BY <1>1, CodeGroupsFinite
<1>4. WidestSpan(lut) = Max(S)
  BY DEF WidestSpan
<1> HIDE DEF S
<1>5. Max(S) \in S /\ \A y \in S : y <= Max(S)
  <2>1. S \subseteq Int
    BY <1>3
  <2> QED
    BY <1>2, <1>3, <2>1, MaxNumber
<1>6. Max(S) \in Nat /\ \A m \in CodeGroups : Span(lut[m]) <= Max(S)
  BY <1>3, <1>5
<1>7. \A m \in CodeGroups :
        \A c \in 0 .. 15 : lut[m][c] - Least(lut)[m] \in 0 .. Max(S)
  <2> TAKE m \in CodeGroups
  <2> TAKE c \in 0 .. 15
  <2>1. /\ lut[m][c] - Least(lut)[m] \in 0 .. Span(lut[m])
        /\ Span(lut[m]) \in Nat /\ Span(lut[m]) <= Max(S) /\ Max(S) \in Nat
    BY <1>1, <1>6
  <2> QED
    BY ONLY <2>1
<1> QED
  BY <1>1, <1>4, <1>6, <1>7

\* A byte is its entry in 1/255 of the span, to half a step.
Byte(span, x) == IF span = 0 THEN 0 ELSE (2 * 255 * x + span) \div (2 * span)

\* A byte within half a step of an entry.
NearByte(span, x, byte) ==
  /\ byte \in 0 .. 255
  /\ 2 * span * byte - 510 * x <= span
  /\ 510 * x - 2 * span * byte <= span

\* A byte tells its entry.
LEMMA ByteNear ==
  ASSUME NEW span \in Nat, NEW x \in Nat, x <= span
  PROVE  NearByte(span, x, Byte(span, x))
<1> SUFFICES /\ Byte(span, x) \in 0 .. 255
             /\ 2 * span * Byte(span, x) - 510 * x <= span
             /\ 510 * x - 2 * span * Byte(span, x) <= span
  BY DEF NearByte
<1>1. CASE span = 0
  BY <1>1 DEF Byte
<1>2. CASE span # 0
  <2> DEFINE a == 510 * x + span
             n == 2 * span
             v == a \div n
             r == a % n
  <2>1. a \in Nat /\ n \in Nat \ {0}
    BY <1>2
  <2>2. v \in Nat /\ r \in 0 .. n - 1 /\ a = v * n + r
    <3> HIDE DEF a, n
    <3> QED
      BY <2>1, Whole
  <2>3. Byte(span, x) = v
    <3>1. 2 * 255 * x + span = a
      OBVIOUS
    <3> QED
      BY <1>2, <3>1 DEF Byte
  <2> HIDE DEF v, r
  <2>4. v <= 255
    <3>1. v >= 256 => v * n >= 256 * n
      BY <2>1, <2>2
    <3>2. a < 256 * n
      BY <1>2
    <3> HIDE DEF a
    <3>3. v * n \in Int
      BY <2>1, <2>2
    <3> DEFINE z == v * n
    <3> HIDE DEF z
    <3> QED
      BY <2>1, <2>2, <3>1, <3>2, <3>3 DEF z
  <2>5. 2 * span * v = v * n
    BY <2>2
  <2> DEFINE z == v * n
  <2>6. z \in Int /\ a = z + r /\ 2 * span * v = z
    BY <2>1, <2>2, <2>5
  <2> HIDE DEF z
  <2>7. z - 510 * x <= span /\ 510 * x - z <= span
    BY <2>2, <2>6
  <2> QED
    BY <2>2, <2>3, <2>4, <2>6, <2>7
<1> QED
  BY <1>1, <1>2

\* quantize_lut writes the bytes of all entries.
LEMMA QuantizedTable ==
  ASSUME NEW lut
  PROVE  /\ QuantizeLut(lut).span = WidestSpan(lut)
         /\ QuantizeLut(lut).bias = SumFunction(Least(lut))
         /\ \A m \in CodeGroups : \A c \in 0 .. 15 :
              QuantizeLut(lut).values[m][c]
                = Byte(WidestSpan(lut), lut[m][c] - Least(lut)[m])
<1> DEFINE span == WidestSpan(lut)
           least == Least(lut)
<1>1. QuantizeLut(lut)
        = [span |-> span, bias |-> SumFunction(least),
           values |-> [m \in CodeGroups |-> [c \in 0 .. 15 |->
                         IF span = 0 THEN 0
                         ELSE (2 * 255 * (lut[m][c] - least[m]) + span)
                                \div (2 * span)]]]
  BY DEF QuantizeLut, WidestSpan, Least, Entries
<1> HIDE DEF span, least
<1>2. QuantizeLut(lut)
        = [span |-> span, bias |-> SumFunction(least),
           values |-> [m \in CodeGroups |-> [c \in 0 .. 15 |->
                         Byte(span, lut[m][c] - least[m])]]]
  BY <1>1 DEF Byte
<1> QED
  BY <1>2 DEF span, least

\* The codes of a row are nibbles.
Nibbles(l, i) == \A m \in CodeGroups : l.codes[Nibble(i, m)] \in 0 .. 15
\* 255 times a sum is near dot: within half a step for each group.
NearDot(dot, total, span) ==
  /\ dot \in Int /\ total \in Int
  /\ 2 * (dot - 255 * total) <= Subquantizers * span
  /\ 2 * (255 * total - dot) <= Subquantizers * span

\* The sum over the bytes misses that over the entries by half a step for each
\* group, and does not overflow its 16 bits.
LEMMA QuantizedDotNear ==
  ASSUME NEW lut \in [CodeGroups -> [0 .. 15 -> Int]], Subquantizers <= 257,
         NEW l, NEW i, Nibbles(l, i),
         NEW row, Selects(l, lut, i, row), NEW total,
         total = SumFunctionOnSet(row, CodeGroups)
  PROVE  /\ QuantizeLut(lut).span \in Nat
         /\ NearDot(QuantizedDot(l, QuantizeLut(lut), i), total,
                    QuantizeLut(lut).span)
<1> USE DEF Nibbles
<1> DEFINE span == WidestSpan(lut)
           least == Least(lut)
           code(m) == l.codes[Nibble(i, m)]
           byte == [m \in CodeGroups |-> Byte(span, row[m] - least[m])]
           top == [m \in CodeGroups |-> 255]
           zero == [m \in CodeGroups |-> 0]
           step == [m \in CodeGroups |-> span]
           up == [m \in CodeGroups |-> 2 * span * byte[m]]
           down == [m \in CodeGroups |-> (-510) * row[m]]
           off == [m \in CodeGroups |-> 510 * least[m]]
           part == [m \in CodeGroups |-> down[m] + off[m]]
           miss == [m \in CodeGroups |-> up[m] + part[m]]
           back == [m \in CodeGroups |-> (-1) * miss[m]]
           S(f) == SumFunctionOnSet(f, CodeGroups)
           sum == S(byte)
           bias == S(least)
<1>1. span \in Nat
  BY LutNumbers
<1>2. \A m \in CodeGroups : /\ least[m] \in Int /\ row[m] \in Int
                            /\ row[m] - least[m] \in 0 .. span
  <2> TAKE m \in CodeGroups
  <2>1. code(m) \in 0 .. 15 /\ row[m] = lut[m][code(m)] /\ row[m] \in Int
    BY DEF Selects
  <2> HIDE DEF code
  <2> QED
    BY <2>1, LutNumbers
<1>3. DOMAIN least = CodeGroups
  BY DEF Least
<1>0. \A m \in CodeGroups : l.codes[Nibble(i, m)] \in 0 .. 15
  OBVIOUS
<1> HIDE DEF span, least, Nibbles
<1>4. \A m \in CodeGroups :
        /\ byte[m] \in 0 .. 255
        /\ 2 * span * byte[m] - 510 * (row[m] - least[m]) <= span
        /\ 510 * (row[m] - least[m]) - 2 * span * byte[m] <= span
  <2> TAKE m \in CodeGroups
  <2>1. byte[m] = Byte(span, row[m] - least[m])
    OBVIOUS
  <2>2. row[m] - least[m] \in 0 .. span
    BY <1>2
  <2> DEFINE x == row[m] - least[m]
  <2> HIDE DEF byte
  <2>3. byte[m] = Byte(span, x) /\ x \in 0 .. span
    BY <2>1, <2>2
  <2> HIDE DEF x
  <2>4. NearByte(span, x, Byte(span, x))
    <3>1. span \in Nat /\ x \in Nat /\ x <= span
      BY <1>1, <2>3
    <3> QED
      BY ONLY <3>1, ByteNear
  <2> QED
    BY ONLY <2>3, <2>4 DEF x, NearByte
<1>5. DOMAIN byte = CodeGroups
  OBVIOUS
<1> HIDE DEF byte
<1>6. /\ \A m \in CodeGroups : top[m] = 255 /\ zero[m] = 0 /\ step[m] = span
      /\ \A m \in CodeGroups : /\ up[m] = 2 * span * byte[m]
                               /\ down[m] = (-510) * row[m]
                               /\ off[m] = 510 * least[m]
      /\ \A m \in CodeGroups : part[m] = down[m] + off[m]
      /\ \A m \in CodeGroups : miss[m] = up[m] + part[m]
      /\ \A m \in CodeGroups : back[m] = (-1) * miss[m]
  OBVIOUS
<1> HIDE DEF top, zero, step, up, down, off, part, miss, back
<1>7. Numbers(byte, CodeGroups) /\ Numbers(row, CodeGroups) /\ Numbers(least, CodeGroups)
  <2>1. \A m \in CodeGroups : byte[m] \in Int
    <3>1. \A m \in CodeGroups : byte[m] \in 0 .. 255
      BY ONLY <1>4
    <3> QED
      BY ONLY <3>1
  <2>2. \A m \in CodeGroups : row[m] \in Int /\ least[m] \in Int
    BY <1>2
  <2> QED
    BY ONLY <2>1, <2>2, CodeGroupsFinite DEF Numbers
<1>8. /\ Numbers(top, CodeGroups) /\ S(top) = 255 * Subquantizers
  <2> DEFINE c == 255
  <2>1. c \in Int /\ \A m \in CodeGroups : top[m] = c
    BY <1>6
  <2> HIDE DEF c
  <2>2. IsFiniteSet(CodeGroups) /\ Cardinality(CodeGroups) = Subquantizers
    BY CodeGroupsFinite
  <2>3. Numbers(top, CodeGroups) /\ S(top) = c * Cardinality(CodeGroups)
    BY ONLY <2>1, <2>2, SumConstant
  <2> QED
    BY ONLY <2>2, <2>3 DEF c
<1>9. /\ Numbers(zero, CodeGroups) /\ S(zero) = 0
  <2>0. 0 \in Int /\ \A m \in CodeGroups : zero[m] = 0
    BY <1>6
  <2>1. S(zero) = 0 * Cardinality(CodeGroups) /\ Numbers(zero, CodeGroups)
    BY ONLY <2>0, CodeGroupsFinite, SumConstant
  <2> QED
    BY <2>1, CodeGroupsFinite
<1>10. /\ Numbers(step, CodeGroups) /\ S(step) = span * Subquantizers
  <2>1. span \in Int /\ \A m \in CodeGroups : step[m] = span
    BY <1>1, <1>6
  <2>2. Numbers(step, CodeGroups) /\ S(step) = span * Cardinality(CodeGroups)
    BY ONLY <2>1, CodeGroupsFinite, SumConstant
  <2> QED
    BY ONLY <2>2, CodeGroupsFinite
<1>11. sum \in Nat /\ sum <= 65535
  <2>1. S(byte) <= S(top)
    <3>1. \A m \in CodeGroups : byte[m] <= top[m]
      <4>1. \A m \in CodeGroups : byte[m] \in 0 .. 255 /\ top[m] = 255
        BY <1>4, <1>6
      <4> QED
        BY ONLY <4>1
    <3> QED
      BY <1>7, <1>8, <3>1, SumBound
  <2>2. S(zero) <= S(byte)
    <3>1. \A m \in CodeGroups : zero[m] <= byte[m]
      <4>1. \A m \in CodeGroups : byte[m] \in 0 .. 255 /\ zero[m] = 0
        BY <1>4, <1>6
      <4> QED
        BY ONLY <4>1
    <3> QED
      BY <1>7, <1>9, <3>1, SumBound
  <2>3. S(byte) \in Int
    BY <1>7, SumType
  <2>4. /\ S(top) = 255 * Subquantizers /\ S(zero) = 0
        /\ Subquantizers \in Nat /\ Subquantizers <= 257
    BY <1>8, <1>9, CodeGroupsFinite
  <2> DEFINE a == S(byte)
             b == S(top)
             z == S(zero)
  <2>5. a \in Int /\ z <= a /\ a <= b /\ z = 0 /\ b = 255 * Subquantizers
    BY <2>1, <2>2, <2>3, <2>4
  <2> HIDE DEF a, b, z
  <2>6. a \in Nat /\ a <= 65535
    BY ONLY <2>4, <2>5
  <2> QED
    BY <2>6 DEF a
<1>12. Numbers(up, CodeGroups) /\ S(up) = (2 * span) * sum
  <2> DEFINE c == 2 * span
  <2>1. c \in Int /\ \A m \in CodeGroups : up[m] = c * byte[m]
    BY <1>1, <1>6
  <2> HIDE DEF c
  <2>2. Numbers(byte, CodeGroups)
    BY <1>7
  <2>3. Numbers(up, CodeGroups) /\ S(up) = c * S(byte)
    BY ONLY <2>1, <2>2, SumScale
  <2> QED
    BY <2>3 DEF c
<1>13. Numbers(down, CodeGroups) /\ S(down) = (-510) * S(row)
  <2> DEFINE c == -510
  <2>1. c \in Int /\ \A m \in CodeGroups : down[m] = c * row[m]
    BY <1>6
  <2> HIDE DEF c
  <2>2. Numbers(row, CodeGroups)
    BY <1>7
  <2>3. Numbers(down, CodeGroups) /\ S(down) = c * S(row)
    BY ONLY <2>1, <2>2, SumScale
  <2> QED
    BY <2>3 DEF c
<1>14. Numbers(off, CodeGroups) /\ S(off) = 510 * bias
  <2> DEFINE c == 510
  <2>1. c \in Int /\ \A m \in CodeGroups : off[m] = c * least[m]
    BY <1>6
  <2> HIDE DEF c
  <2>2. Numbers(least, CodeGroups)
    BY <1>7
  <2>3. Numbers(off, CodeGroups) /\ S(off) = c * S(least)
    BY ONLY <2>1, <2>2, SumScale
  <2> QED
    BY <2>3 DEF c
<1>15. Numbers(part, CodeGroups) /\ S(part) = S(down) + S(off)
  <2>1. \A m \in CodeGroups : part[m] = down[m] + off[m]
    BY <1>6
  <2> QED
    BY ONLY <1>13, <1>14, <2>1, SumPlus
<1>16. Numbers(miss, CodeGroups) /\ S(miss) = S(up) + S(part)
  <2>1. \A m \in CodeGroups : miss[m] = up[m] + part[m]
    BY <1>6
  <2> QED
    BY ONLY <1>12, <1>15, <2>1, SumPlus
<1>17. Numbers(back, CodeGroups) /\ S(back) = (-1) * S(miss)
  <2> DEFINE c == -1
  <2>1. c \in Int /\ \A m \in CodeGroups : back[m] = c * miss[m]
    BY <1>6
  <2> HIDE DEF c
  <2>2. Numbers(miss, CodeGroups)
    BY <1>16
  <2>3. Numbers(back, CodeGroups) /\ S(back) = c * S(miss)
    BY ONLY <2>1, <2>2, SumScale
  <2> QED
    BY <2>3 DEF c
<1>18. \A m \in CodeGroups : miss[m] <= step[m] /\ back[m] <= step[m]
  <2> TAKE m \in CodeGroups
  <2> DEFINE z == 2 * span * byte[m]
  <2>1. z \in Int
    <3> DEFINE y == byte[m]
    <3>1. byte[m] \in 0 .. 255
      BY <1>4
    <3>2. y \in Int /\ span \in Int /\ z = (2 * span) * y
      BY <1>1, <3>1
    <3> HIDE DEF y, z
    <3>3. (2 * span) * y \in Int
      BY ONLY <3>2
    <3> QED
      BY <3>2, <3>3
  <2>2. z - 510 * (row[m] - least[m]) <= span /\ 510 * (row[m] - least[m]) - z <= span
    BY <1>4
  <2>3. up[m] = z
    BY <1>6
  <2> HIDE DEF z
  <2>4. row[m] \in Int /\ least[m] \in Int
    BY <1>2
  <2> QED
    BY <1>1, <1>6, <2>1, <2>2, <2>3, <2>4
<1>19. S(miss) <= S(step) /\ S(back) <= S(step)
  BY <1>10, <1>16, <1>17, <1>18, SumBound
<1>20. /\ S(row) \in Int /\ bias \in Int /\ S(miss) \in Int /\ S(up) \in Int
       /\ S(part) \in Int /\ S(down) \in Int /\ S(off) \in Int
  BY <1>7, <1>12, <1>13, <1>14, <1>15, <1>16, SumType
<1> DEFINE bytes == QuantizeLut(lut)
           dot == QuantizedDot(l, bytes, i)
<1>21. bytes.span = span /\ bytes.bias = bias
  <2>1. bytes.span = span /\ bytes.bias = SumFunction(least)
    BY QuantizedTable DEF span, least
  <2> QED
    BY <1>3, <2>1 DEF SumFunction
<1>22. dot = 255 * bias + span * (sum % 65536)
  <2> DEFINE e == [m \in CodeGroups |-> bytes.values[m][code(m)]]
  <2>1. dot = 255 * bytes.bias + bytes.span * (SumFunctionOnSet(e, DOMAIN e) % 65536)
    BY DEF QuantizedDot, SumFunction
  <2>2. DOMAIN e = CodeGroups /\ \A m \in CodeGroups : e[m] = byte[m]
    <3>1. DOMAIN e = CodeGroups
      OBVIOUS
    <3>2. \A m \in CodeGroups : e[m] = byte[m]
      <4> TAKE m \in CodeGroups
      <4>1. e[m] = bytes.values[m][code(m)]
        OBVIOUS
      <4>2. code(m) \in 0 .. 15 /\ row[m] = lut[m][code(m)]
        BY <1>0 DEF Selects
      <4> HIDE DEF code, e, bytes
      <4>3. bytes.values[m][code(m)] = Byte(span, lut[m][code(m)] - least[m])
        BY <4>2, QuantizedTable DEF bytes, span, least
      <4>4. byte[m] = Byte(span, row[m] - least[m])
        BY DEF byte
      <4> QED
        BY <4>1, <4>2, <4>3, <4>4
    <3> QED
      BY <3>1, <3>2
  <2> HIDE DEF e, bytes, dot
  <2>3. SumFunctionOnSet(e, CodeGroups) = SumFunctionOnSet(byte, CodeGroups)
    BY <1>7, <2>2, SumSame
  <2> QED
    BY <1>21, <2>1, <2>2, <2>3
<1>23. dot = 255 * bias + span * sum
  <2>1. sum % 65536 = sum
    <3> HIDE DEF sum
    <3> QED
      BY <1>11
  <2> QED
    BY <1>22, <2>1
<1> DEFINE p == span * sum
<1>24. p \in Int /\ S(up) = 2 * p
  <2>1. span \in Int /\ sum \in Int
    BY <1>1, <1>11
  <2> DEFINE a == sum
             b == S(up)
  <2>2. a \in Int /\ b = (2 * span) * a /\ p = span * a
    BY <1>12, <2>1
  <2> HIDE DEF a, b, p
  <2>3. (2 * span) * a = 2 * (span * a) /\ span * a \in Int
    BY ONLY <2>1, <2>2
  <2>4. p \in Int /\ b = 2 * p
    BY ONLY <2>2, <2>3
  <2> QED
    BY <2>4 DEF b
<1>25. dot = 255 * bias + p
  BY <1>23
<1> DEFINE q == span * Subquantizers
<1>26. q \in Int /\ S(step) = q /\ Subquantizers * span = q
  BY <1>1, <1>10, CodeGroupsFinite
<1>27. total = S(row)
  OBVIOUS
<1> HIDE DEF p, q, S, sum, bias, dot, bytes
<1>28. dot \in Int /\ total \in Int
  BY <1>20, <1>24, <1>25, <1>27
<1>29. 2 * (dot - 255 * total) <= q /\ 2 * (255 * total - dot) <= q
  BY <1>13, <1>14, <1>15, <1>16, <1>17, <1>19, <1>20, <1>24, <1>25, <1>26, <1>27
<1> QED
  BY <1>1, <1>21, <1>26, <1>28, <1>29 DEF dot, bytes, NearDot

(***************************************************************************)
(* The metadata bytes are honest for every vector, at every border of the  *)
(* learned ranges.                                                         *)
(***************************************************************************)
\* std::min and std::max of the quantizers are taken of two numbers.
LEMMA MinOfTwo ==
  ASSUME NEW a \in Int, NEW b \in Int
  PROVE  Min({a, b}) = IF a <= b THEN a ELSE b
<1>1. CASE a <= b
  <2>1. \A x \in {a, b} : (\A y \in {a, b} : x <= y) <=> x = a
    BY <1>1
  <2> QED  BY <1>1, <2>1 DEF Min
<1>2. CASE ~(a <= b)
  <2>1. \A x \in {a, b} : (\A y \in {a, b} : x <= y) <=> x = b
    BY <1>2
  <2> QED  BY <1>2, <2>1 DEF Min
<1> QED  BY <1>1, <1>2

\* quantize_linear: the sentinel, or a code that decodes to the value within
\* half a step.
LEMMA LinearCode ==
  ASSUME NEW value \in Nat
  PROVE  /\ QuantizeLinear(value) \in 0 .. 255
         /\ QuantizeLinear(value) # 255
              => Near(Dequantized(QuantizeLinear(value)), value)
<1>1. Min({254, (value + 2) \div 4})
        = IF 254 <= (value + 2) \div 4 THEN 254 ELSE (value + 2) \div 4
  BY MinOfTwo
<1> QED  BY <1>1 DEF QuantizeLinear, Dequantized, Near, LearnedMaximum

\* quantize_error_upper: the code is a byte and never understates the error.
LEMMA ErrorCode ==
  ASSUME NEW error \in Nat
  PROVE  /\ QuantizeErrorUpper(error) \in 0 .. 255
         /\ 4 * QuantizeErrorUpper(error) >= Min({error, 4 * 255})
<1>1. Min({error, 4 * 255}) \in 0 .. 4 * 255
  <2> DEFINE most == 4 * 255
  <2>1. most \in Int /\ most >= 0
    OBVIOUS
  <2> HIDE DEF most
  <2>2. Min({error, most}) = IF error <= most THEN error ELSE most
    BY <2>1, MinOfTwo
  <2>3. Min({error, most}) \in 0 .. most
    BY <2>1, <2>2
  <2> QED  BY <2>3 DEF most
<1> DEFINE e == Min({error, 4 * 255})
<1> HIDE DEF e
<1>2. e \in 0 .. 4 * 255
  BY <1>1 DEF e
<1>3. (e + 3) \div 4 \in 0 .. 255 /\ 4 * ((e + 3) \div 4) >= e
  BY <1>2
<1> QED  BY <1>3 DEF QuantizeErrorUpper, e

\* Whatever a vector is, encode writes bytes from which both scan paths get the
\* same, and either a flag or a magnitude right to half a step with an error
\* bound that is not too small.
THEOREM EncodedHonest ==
  ASSUME NEW v, v.norm \in Nat, v.scale \in Nat, v.error \in Nat,
         NEW kind \in {"SquaredL2", "InnerProduct", "Cosine"}
  PROVE  Honest(v, Encoded(v, kind), kind)
<1> DEFINE bytes == Encoded(v, kind)
           scaled == HasScale(v, kind)
<1>1. /\ bytes[0] = QuantizeLinear(v.norm)
      /\ bytes[1] = IF scaled THEN QuantizeLinear(v.scale) ELSE 255
      /\ bytes[2] = IF scaled THEN QuantizeErrorUpper(v.error) ELSE 255
  BY DEF Encoded
<1> HIDE DEF bytes, scaled
<1>2. /\ bytes[0] # 255 => Near(Dequantized(bytes[0]), v.norm)
      /\ bytes[1] # 255 => Near(Dequantized(bytes[1]), v.scale)
  BY <1>1, LinearCode
<1>3. bytes[1] # 255 => 4 * bytes[2] >= Min({v.error, 4 * 255})
  BY <1>1, ErrorCode
<1> DEFINE m == DecodeMetadata(bytes, kind)
<1>4. m = Avx512Metadata(bytes, kind)
  BY DEF DecodeMetadata, Avx512Metadata
<1>5. /\ m.norm = Dequantized(bytes[0]) /\ m.scale = Dequantized(bytes[1])
      /\ m.error = 4 * bytes[2]
      /\ ~m.overflow => bytes[1] # 255 /\ (kind = "Cosine" \/ bytes[0] # 255)
  BY DEF DecodeMetadata
<1> HIDE DEF m
<1>6. m.overflow \/ /\ kind = "Cosine" \/ Near(m.norm, v.norm)
                    /\ Near(m.scale, v.scale)
                    /\ m.error >= Min({v.error, 4 * 255})
  <2>1. CASE m.overflow
    BY <2>1
  <2>2. CASE ~m.overflow
    <3>1. bytes[1] # 255 /\ (kind = "Cosine" \/ bytes[0] # 255)
      BY <1>5, <2>2
    <3>2. kind = "Cosine" \/ Near(m.norm, v.norm)
      BY <1>2, <1>5, <3>1
    <3>3. Near(m.scale, v.scale)
      BY <1>2, <1>5, <3>1
    <3>4. m.error >= Min({v.error, 4 * 255})
      BY <1>3, <1>5, <3>1
    <3> QED  BY <3>2, <3>3, <3>4
  <2> QED  BY <2>1, <2>2
<1> QED  BY <1>4, <1>6 DEF Honest, m, bytes

(***************************************************************************)
(* The inductive invariant.                                                *)
(***************************************************************************)
\* The quantizer: while it is planned the capacities add up; once it is trained
\* the layout is what train makes and read makes again of what write wrote.
QuantizerSound ==
  /\ grouping \in Groupings /\ passes \in 0 .. 16
  /\ phase \in {"planning", "trained"}
  /\ grouping = "Uneven" => heights \in Profiles
  /\ phase = "planning" => /\ layout = NoLayout /\ model = {}
                           /\ grouping = "Uneven" => Paired(capacities)
                           /\ grouping # "Uneven" => capacities = <<>>
  /\ phase = "trained" => /\ capacities = <<>> /\ model \subseteq {Written(layout)}
                          /\ grouping = "Uneven" => UnevenSound(layout, heights)
                          /\ grouping # "Uneven" => layout = UniformLayout

\* What encode writes for a vector.
RowLane(v) == [code |-> FlatCode(v.bits), metadata |-> Encoded(v, metric)]

\* The buffers are t tiles, and every lane is that of its row or empty.
Holding(l, h, t) ==
  /\ Shaped(l, t) /\ t <= Padded(MaxRows) \div Tile
  /\ l.size <= t * Tile /\ l.size <= MaxRows
  /\ DOMAIN h = 0 .. l.size - 1 /\ \A i \in 0 .. l.size - 1 : h[i] \in Vector
  /\ \A i \in 0 .. t * Tile - 1 :
       LaneAt(l, i) = IF i < l.size THEN RowLane(h[i]) ELSE EmptyLane

\* The list holds its rows, and none before the quantizer is trained.
RowsSound ==
  /\ metric \in Metrics
  /\ phase = "planning" => list.size = 0
  /\ \E t \in Nat : Holding(list, held, t)

\* The inductive invariant.
CodeInv == QuantizerSound /\ RowsSound

\* A trained quantizer has groups that its buckets hold.
LEMMA TrainedCover ==
  ASSUME QuantizerSound, phase = "trained"
  PROVE  \E groups : Arranged(groups) /\ Cover(layout.buckets, groups)
<1>1. CASE grouping = "Uneven"
  <2>1. UnevenSound(layout, heights)
    BY <1>1 DEF QuantizerSound
  <2>2. layout.buckets = Buckets(layout.groups) /\ Arranged(layout.groups)
    BY <2>1 DEF UnevenSound
  <2>3. Cover(layout.buckets, layout.groups)
    BY <2>2, BucketsCover
  <2> QED
    BY <2>2, <2>3
<1>2. CASE grouping # "Uneven"
  <2>1. layout = UniformLayout /\ grouping \in Groupings
    BY <1>2 DEF QuantizerSound
  <2>2. D % M = 0
    BY <1>2, <2>1, CodePathAssumption
  <2>3. Arranged(UniformGroups) /\ Cover(UniformLayout.buckets, UniformGroups)
    BY <2>2, UniformCover
  <2> QED
    BY <2>1, <2>3
<1> QED
  BY <1>1, <1>2

\* The groups of the code are the groups of the buffers.
LEMMA GroupsAgree == CodeGroups = Groups /\ Planes = 0 .. 2
<1>1. CodeGroups = Groups
  BY CodePathAssumption DEF CodeGroups, Groups
<1>2. Planes = 0 .. 2
  BY DEF Planes
<1> QED
  BY <1>1, <1>2

\* What is written for a vector fits the lanes.
LEMMA RowLaneType ==
  ASSUME QuantizerSound, phase = "trained", NEW v \in Vector
  PROVE  RowLane(v) \in LaneType
<1>1. PICK groups : Arranged(groups) /\ Cover(layout.buckets, groups)
  BY TrainedCover
<1>2. v.bits \in [Dims -> {0, 1}] /\ v.norm \in Nat /\ v.scale \in Nat /\ v.error \in Nat
  BY DEF Vector
<1>3. FlatCode(v.bits) \in [CodeGroups -> 0 .. 15]
  BY <1>1, <1>2, FlatCodeNibbles, GroupsAgree
<1>4. Encoded(v, metric) \in [Planes -> 0 .. 255]
  <2> DEFINE e == Encoded(v, metric)
  <2>1. e = [p \in 0 .. 2 |-> e[p]]
    BY DEF Encoded
  <2>2. /\ e[0] = QuantizeLinear(v.norm)
        /\ e[1] = IF HasScale(v, metric) THEN QuantizeLinear(v.scale) ELSE 255
        /\ e[2] = IF HasScale(v, metric) THEN QuantizeErrorUpper(v.error) ELSE 255
    BY DEF Encoded
  <2> HIDE DEF e
  <2>3. e[0] \in 0 .. 255 /\ e[1] \in 0 .. 255 /\ e[2] \in 0 .. 255
    <3>1. QuantizeLinear(v.norm) \in 0 .. 255 /\ QuantizeLinear(v.scale) \in 0 .. 255
      BY <1>2, LinearCode
    <3>2. QuantizeErrorUpper(v.error) \in 0 .. 255
      BY <1>2, ErrorCode
    <3>3. 255 \in 0 .. 255
      OBVIOUS
    <3> QED
      BY ONLY <2>2, <3>1, <3>2, <3>3
  <2>4. \A p \in 0 .. 2 : e[p] \in 0 .. 255
    BY <2>3
  <2>5. e \in [0 .. 2 -> 0 .. 255]
    BY <2>1, <2>4
  <2> QED
    BY <2>5, GroupsAgree DEF e
<1> QED
  BY <1>3, <1>4 DEF RowLane, LaneType

\* A new quantizer and an empty list satisfy the invariant.
LEMMA InitSound == ASSUME Init PROVE CodeInv
<1>1. QuantizerSound
  <2>1. grouping = "Uneven" => Paired(capacities) /\ heights \in Profiles
    BY InitialPaired DEF Init
  <2>2. /\ grouping \in Groupings /\ passes \in 0 .. 16
        /\ phase = "planning" /\ layout = NoLayout /\ model = {}
        /\ grouping # "Uneven" => capacities = <<>>
    BY DEF Init
  <2> QED
    BY <2>1, <2>2 DEF QuantizerSound
<1>2. list = NoRows /\ held = <<>> /\ metric \in Metrics
  BY DEF Init
<1>3. /\ NoRows.size = 0 /\ NoRows.codes = <<>> /\ NoRows.metadata = <<>>
      /\ NoRows = [size |-> 0, codes |-> <<>>, metadata |-> <<>>]
  BY DEF NoRows
<1>4. PICK k, p \in Nat \ {0} :
        /\ Half = 2 * k /\ Tile = 4 * k /\ Half \div 2 = k
        /\ Subquantizers = 2 * p /\ Subquantizers \div 2 = p
        /\ TileBytes = p * Tile
        /\ TileBytes \in Nat \ {0} /\ CodeGroups = 0 .. 2 * p - 1
  BY TileSizes
<1>5. Shaped(NoRows, 0)
  <2>1. 0 .. 2 * TileBytes * 0 - 1 = {} /\ 0 .. 3 * Tile * 0 - 1 = {}
    BY <1>4
  <2>2. \A S : <<>> \in [{} -> S]
    OBVIOUS
  <2> QED
    BY <1>3, <2>1, <2>2 DEF Shaped
<1>6. 0 * Tile = 0 /\ 0 <= Padded(MaxRows) \div Tile /\ 0 \in Nat
  <2>1. MaxRows \in Nat
    BY CodePathAssumption
  <2>2. PICK t \in Nat : Padded(MaxRows) \div Tile = t
    BY <2>1, PaddedTiles
  <2> QED
    BY <1>4, <2>2
<1>7. Holding(list, held, 0)
  <2>1. 0 .. 0 - 1 = {} /\ DOMAIN <<>> = {} /\ 0 <= MaxRows
    BY CodePathAssumption
  <2> QED
    BY <1>2, <1>3, <1>5, <1>6, <2>1 DEF Holding
<1>8. RowsSound
  BY <1>2, <1>3, <1>6, <1>7 DEF RowsSound
<1> QED
  BY <1>1, <1>8 DEF CodeInv

(***************************************************************************)
(* The quantizer.                                                          *)
(***************************************************************************)
\* A pass of the hill climb moves a unit of capacity between two pairs.
LEMMA PlanPassSound ==
  ASSUME QuantizerSound, PlanPass
  PROVE  QuantizerSound' /\ phase' = "planning" /\ phase = "planning"
<1> DEFINE best == Improving(capacities, Budgets(heights))
           next == Trial(capacities, CHOOSE t \in best :
                                       \A u \in best \ {t} : Earlier(t, u))
<1>1. /\ phase = "planning" /\ grouping = "Uneven" /\ passes < 16
      /\ best # {} /\ capacities' = next
      /\ passes' = passes + 1 /\ grouping' = grouping /\ heights' = heights
      /\ phase' = phase /\ layout' = layout /\ model' = model
  BY DEF PlanPass
<1>2. Paired(capacities)
  BY <1>1 DEF QuantizerSound
<1>3. Paired(next)
  BY <1>1, <1>2, PassPaired
<1> HIDE DEF best, next
<1>4. Paired(capacities')
  BY <1>1, <1>3
<1>5. Paired(capacities)'
  BY <1>4 DEF Paired
<1>6. passes' \in 0 .. 16
  BY <1>1 DEF QuantizerSound
<1> QED
  BY <1>1, <1>5, <1>6 DEF QuantizerSound

\* Training ends with a layout that passes every check.
LEMMA TrainSound ==
  ASSUME QuantizerSound, Train
  PROVE  QuantizerSound' /\ phase' = "trained" /\ phase = "planning"
<1>1. /\ phase = "planning" /\ capacities' = <<>> /\ passes' = 0
      /\ grouping' = grouping /\ heights' = heights /\ model' = model
  BY DEF Train
<1>2. model = {} /\ grouping \in Groupings /\ (grouping = "Uneven" => heights \in Profiles)
  BY <1>1 DEF QuantizerSound
<1>3. CASE grouping = "Uneven"
  <2>1. layout' = UnevenLayout
        /\ phase' = IF TrainAccepts(layout') THEN "trained" ELSE "refused"
    BY <1>3 DEF Train
  <2>2. UnevenSound(UnevenLayout, heights) /\ TrainAccepts(UnevenLayout)
    BY <1>1, <1>3, TrainPasses DEF QuantizerSound
  <2>3. phase' = "trained" /\ UnevenSound(layout', heights')
    BY <1>1, <2>1, <2>2
  <2>4. UnevenSound(layout, heights)'
    BY <2>3 DEF UnevenSound
  <2> QED
    BY <1>1, <1>2, <1>3, <2>3, <2>4 DEF QuantizerSound
<1>4. CASE grouping # "Uneven"
  <2>1. layout' = UniformLayout /\ phase' = "trained"
    BY <1>4 DEF Train
  <2>2. UniformLayout' = UniformLayout
    BY DEF UniformLayout
  <2> QED
    BY <1>1, <1>2, <1>4, <2>1, <2>2 DEF QuantizerSound
<1> QED
  BY <1>3, <1>4

\* Writing changes the model alone.
LEMMA WriteSound ==
  ASSUME QuantizerSound, Write
  PROVE  QuantizerSound' /\ UNCHANGED <<phase, layout>>
<1>1. /\ phase = "trained" /\ model' = {Written(layout)}
      /\ grouping' = grouping /\ heights' = heights /\ capacities' = capacities
      /\ passes' = passes /\ phase' = phase /\ layout' = layout
  BY DEF Write
<1>2. Written(layout)' = Written(layout)
  BY <1>1 DEF Written
<1>3. UnevenSound(layout, heights)' <=> UnevenSound(layout, heights)
  BY <1>1 DEF UnevenSound
<1>4. UniformLayout' = UniformLayout
  BY DEF UniformLayout
<1> QED
  BY <1>1, <1>2, <1>3, <1>4 DEF QuantizerSound

\* Reading gives the layout back that was written.
LEMMA ReadSound ==
  ASSUME QuantizerSound, Read
  PROVE  QuantizerSound' /\ UNCHANGED <<phase, layout>> /\ phase = "trained"
<1>1. /\ phase = "trained" /\ model' = {}
      /\ grouping' = grouping /\ heights' = heights /\ capacities' = capacities
      /\ passes' = passes
  BY DEF Read
<1>2. PICK w \in model :
        /\ layout' = ReadBack(w)
        /\ phase' = IF ReadAccepts(w, layout') THEN "trained" ELSE "refused"
  BY DEF Read
<1>3. w = Written(layout)
  BY <1>1 DEF QuantizerSound
<1>4. layout' = layout /\ phase' = "trained"
  <2>1. CASE grouping = "Uneven"
    <3>1. UnevenSound(layout, heights)
      BY <1>1, <2>1 DEF QuantizerSound
    <3>2. ReadBack(Written(layout)) = layout /\ ReadAccepts(Written(layout), layout)
      BY <2>1, <3>1, ReadPasses
    <3> QED
      BY <1>2, <1>3, <3>2
  <2>2. CASE grouping # "Uneven"
    <3>1. grouping = "Uniform" /\ layout = UniformLayout
      BY <1>1, <2>2, CodePathAssumption DEF QuantizerSound
    <3> QED
      BY <1>2, <3>1 DEF ReadBack, ReadAccepts
  <2> QED
    BY <2>1, <2>2
<1>5. UnevenSound(layout, heights)' <=> UnevenSound(layout, heights)
  BY <1>1, <1>4 DEF UnevenSound
<1>6. UniformLayout' = UniformLayout
  BY DEF UniformLayout
<1> QED
  BY <1>1, <1>4, <1>5, <1>6 DEF QuantizerSound

(***************************************************************************)
(* The rows.                                                               *)
(***************************************************************************)
\* What is written for a vector depends on the layout and the metric alone.
LEMMA RowLaneSame ==
  ASSUME layout' = layout, metric' = metric
  PROVE  \A v : RowLane(v)' = RowLane(v)
<1>1. \A m : InByteRange(m)' = InByteRange(m)
  BY DEF InByteRange, Coordinates
<1>2. \A x : FlatCode(x)' = FlatCode(x)
  BY <1>1 DEF FlatCode
<1> QED
  BY <1>2 DEF RowLane

\* What the tiles hold depends on the layout and the metric alone.
LEMMA HoldingSame ==
  ASSUME layout' = layout, metric' = metric, NEW t, NEW l, NEW h
  PROVE  Holding(l, h, t)' <=> Holding(l, h, t)
<1>1. \A v : RowLane(v)' = RowLane(v)
  BY RowLaneSame
<1> QED
  BY <1>1 DEF Holding

\* While no row is held, nothing depends on the layout.
LEMMA HoldingNothing ==
  ASSUME NEW t, NEW l, NEW h, l.size = 0, Holding(l, h, t)
  PROVE  Holding(l, h, t)'
<1>1. \A i \in 0 .. t * Tile - 1 : ~(i < l.size) => LaneAt(l, i) = EmptyLane
  BY DEF Holding
<1>2. \A i \in 0 .. t * Tile - 1 : ~(i < l.size)
  OBVIOUS
<1> QED
  BY <1>1, <1>2 DEF Holding

\* A number of tiles is a number.
LEMMA TilesNumbers ==
  ASSUME NEW t \in Nat
  PROVE  Tile \in Nat \ {0} /\ t * Tile \in Nat
<1>1. Tile \in Nat \ {0}
  <2>1. PICK k, p \in Nat \ {0} :
          /\ Half = 2 * k /\ Tile = 4 * k /\ Half \div 2 = k
          /\ Subquantizers = 2 * p /\ Subquantizers \div 2 = p
          /\ TileBytes = p * Tile
          /\ TileBytes \in Nat \ {0} /\ CodeGroups = 0 .. 2 * p - 1
    BY TileSizes
  <2> QED
    BY <2>1
<1> QED
  BY <1>1

\* The room for rows that are not too many.
LEMMA RoomFor ==
  ASSUME NEW n \in Nat, n <= MaxRows
  PROVE  \E u \in Nat : /\ Padded(n) = u * Tile /\ Padded(n) \div Tile = u
                        /\ n <= u * Tile /\ u <= Padded(MaxRows) \div Tile
<1>1. MaxRows \in Nat
  BY CodePathAssumption
<1> QED
  BY <1>1, PaddedTiles

\* Giving the buffers the size that their rows need, or more rows will need,
\* keeps what they hold.
LEMMA ResizedHolding ==
  ASSUME NEW l, NEW h, NEW t \in Nat, Holding(l, h, t), NEW n \in Nat,
         l.size <= n, n <= MaxRows
  PROVE  \E u \in Nat : n <= u * Tile /\ Holding(Resized(l, n), h, u)
<1>1. PICK u \in Nat : /\ Padded(n) = u * Tile /\ Padded(n) \div Tile = u
                       /\ n <= u * Tile /\ u <= Padded(MaxRows) \div Tile
  BY RoomFor
<1>0. MaxRows \in Nat
  BY CodePathAssumption
<1> DEFINE g == Resized(l, n)
<1>2. /\ Shaped(l, t) /\ l.size <= t * Tile /\ l.size <= MaxRows
      /\ DOMAIN h = 0 .. l.size - 1 /\ \A i \in 0 .. l.size - 1 : h[i] \in Vector
      /\ \A i \in 0 .. t * Tile - 1 :
           LaneAt(l, i) = IF i < l.size THEN RowLane(h[i]) ELSE EmptyLane
  BY DEF Holding
<1>3. /\ Shaped(g, u) /\ g.size = l.size
      /\ \A i \in 0 .. u * Tile - 1 :
           LaneAt(g, i) = IF i < t * Tile THEN LaneAt(l, i) ELSE EmptyLane
  BY <1>1, <1>2, ResizedLanes
<1> HIDE DEF g
<1>4. l.size \in Nat /\ t * Tile \in Nat /\ u * Tile \in Nat
  <2>1. l.size \in Nat
    BY <1>2 DEF Shaped
  <2> QED
    BY <2>1, TilesNumbers
<1>5. \A i \in 0 .. u * Tile - 1 :
        LaneAt(g, i) = IF i < g.size THEN RowLane(h[i]) ELSE EmptyLane
  <2> DEFINE a == t * Tile
             b == u * Tile
  <2>1. a \in Nat /\ b \in Nat /\ l.size <= a
    BY <1>2, <1>4
  <2>2. \A i \in 0 .. a - 1 :
          LaneAt(l, i) = IF i < l.size THEN RowLane(h[i]) ELSE EmptyLane
    BY <1>2
  <2>3. \A i \in 0 .. b - 1 :
          LaneAt(g, i) = IF i < a THEN LaneAt(l, i) ELSE EmptyLane
    BY <1>3
  <2> HIDE DEF a, b
  <2>4. \A i \in 0 .. b - 1 :
          LaneAt(g, i) = IF i < g.size THEN RowLane(h[i]) ELSE EmptyLane
    <3> TAKE i \in 0 .. b - 1
    <3>1. CASE i < a
      BY <1>3, <2>1, <2>2, <2>3, <3>1
    <3>2. CASE ~(i < a)
      <4>1. ~(i < l.size)
        BY <1>4, <2>1, <3>2
      <4> QED
        BY <1>3, <2>3, <3>2, <4>1
    <3> QED
      BY <3>1, <3>2
  <2> QED
    BY <2>4 DEF b
<1>6. g.size <= u * Tile /\ g.size <= MaxRows
  BY <1>0, <1>1, <1>2, <1>3, <1>4
<1>7. Holding(g, h, u)
  BY <1>1, <1>2, <1>3, <1>5, <1>6 DEF Holding
<1> QED
  BY <1>1, <1>7 DEF g

\* Rows appended where the lanes are empty.
LEMMA AppendedHolding ==
  ASSUME QuantizerSound, phase = "trained", NEW l, NEW h, NEW t \in Nat,
         Holding(l, h, t), NEW n \in Nat, l.size <= n, n <= t * Tile, n <= MaxRows,
         NEW row, \A i \in l.size .. n - 1 : row[i] \in Vector
  PROVE  /\ LanesEmpty(l, l.size .. n - 1)
         /\ Holding(Appended(l, [i \in l.size .. n - 1 |-> RowLane(row[i])]),
                    [i \in 0 .. n - 1 |->
                       IF i \in l.size .. n - 1 THEN row[i] ELSE h[i]], t)
<1> DEFINE new == l.size .. n - 1
           lane == [i \in new |-> RowLane(row[i])]
           g == Appended(l, lane)
           k == [i \in 0 .. n - 1 |-> IF i \in new THEN row[i] ELSE h[i]]
           a == t * Tile
<1>1. /\ Shaped(l, t) /\ t <= Padded(MaxRows) \div Tile /\ l.size <= a
      /\ DOMAIN h = 0 .. l.size - 1 /\ \A i \in 0 .. l.size - 1 : h[i] \in Vector
      /\ \A i \in 0 .. a - 1 :
           LaneAt(l, i) = IF i < l.size THEN RowLane(h[i]) ELSE EmptyLane
  BY DEF Holding
<1>2. l.size \in Nat /\ a \in Nat /\ n <= a
  <2>1. l.size \in Nat
    BY <1>1 DEF Shaped
  <2> QED
    BY <2>1, TilesNumbers
<1> HIDE DEF a
<1>3. new \subseteq 0 .. a - 1 /\ \A i \in new : ~(i < l.size)
  BY <1>2
<1>4. LanesEmpty(l, new)
  BY <1>1, <1>3 DEF LanesEmpty
<1>5. DOMAIN lane = new /\ \A i \in new : lane[i] = RowLane(row[i])
  OBVIOUS
<1>6. \A i \in new : RowLane(row[i]) \in LaneType
  BY RowLaneType
<1>7. Cardinality(new) = n - l.size
  <2> DEFINE y == n - 1
             x == l.size
  <2>1. x \in Int /\ y \in Int
    BY <1>2
  <2> HIDE DEF x, y
  <2>2. Cardinality(x .. y) = IF x > y THEN 0 ELSE y - x + 1
    BY <2>1, FS_Interval
  <2> QED
    BY <1>2, <2>2 DEF x, y
<1>8. \A i \in 0 .. n - 1 : k[i] = IF i < l.size THEN h[i] ELSE row[i]
  BY <1>2
<1>9. DOMAIN k = 0 .. n - 1
  OBVIOUS
<1>9a. \A i \in 0 .. n - 1 : i \in new <=> ~(i < l.size)
  BY <1>2
<1> HIDE DEF lane, k
<1>10. /\ Shaped(g, t) /\ g.size = l.size + Cardinality(new)
       /\ \A i \in 0 .. a - 1 :
            LaneAt(g, i) = IF i \in new THEN lane[i] ELSE LaneAt(l, i)
  <2>1. DOMAIN lane \subseteq 0 .. t * Tile - 1
    BY <1>3, <1>5 DEF a
  <2>2. \A i \in DOMAIN lane : lane[i] \in LaneType
    BY <1>5, <1>6
  <2>3. LanesEmpty(l, DOMAIN lane)
    BY <1>4, <1>5
  <2>4. /\ Shaped(Appended(l, lane), t)
        /\ Appended(l, lane).size = l.size + Cardinality(DOMAIN lane)
        /\ \A i \in 0 .. t * Tile - 1 :
             LaneAt(Appended(l, lane), i)
               = IF i \in DOMAIN lane THEN lane[i] ELSE LaneAt(l, i)
    BY <1>1, <2>1, <2>2, <2>3, AppendedLanes
  <2> QED
    BY <1>5, <2>4 DEF a
<1> HIDE DEF g
<1>11. g.size = n
  BY <1>2, <1>7, <1>10
<1>12. \A i \in 0 .. n - 1 : k[i] \in Vector
  <2> TAKE i \in 0 .. n - 1
  <2>1. CASE i < l.size
    BY <1>1, <1>2, <1>8, <2>1
  <2>2. CASE ~(i < l.size)
    BY <1>8, <1>9a, <2>2
  <2> QED
    BY <2>1, <2>2
<1>13. \A i \in 0 .. a - 1 :
         LaneAt(g, i) = IF i < g.size THEN RowLane(k[i]) ELSE EmptyLane
  <2> TAKE i \in 0 .. a - 1
  <2>1. CASE i < l.size
    <3>1. i \notin new /\ i \in 0 .. n - 1
      BY <1>2, <2>1
    <3>2. k[i] = h[i] /\ i < g.size
      BY <1>2, <1>8, <1>11, <2>1, <3>1
    <3> QED
      BY <1>1, <1>10, <2>1, <3>1, <3>2
  <2>2. CASE ~(i < l.size) /\ i < n
    <3>1. i \in new /\ i \in 0 .. n - 1
      BY <1>2, <2>2
    <3>2. k[i] = row[i] /\ i < g.size
      BY <1>8, <1>11, <2>2, <3>1
    <3> QED
      BY <1>5, <1>10, <3>1, <3>2
  <2>3. CASE ~(i < n)
    <3>1. i \notin new /\ ~(i < l.size) /\ ~(i < g.size)
      BY <1>2, <1>11, <2>3
    <3> QED
      BY <1>1, <1>10, <3>1
  <2> QED
    BY <2>1, <2>2, <2>3
<1>14. Holding(g, k, t)
  <2>1. g.size <= t * Tile /\ g.size <= MaxRows
    BY <1>2, <1>11 DEF a
  <2> QED
    BY <1>1, <1>9, <1>10, <1>11, <1>12, <1>13, <2>1 DEF Holding, a
<1> QED
  BY <1>4, <1>14 DEF g, lane, k

\* Rows erased and moved.
LEMMA ErasedHolding ==
  ASSUME NEW l, NEW h, NEW t \in Nat, Holding(l, h, t),
         NEW erased \in SUBSET (0 .. l.size - 1)
  PROVE  Holding(Erased(l, erased),
                 [i \in 0 .. Kept(l.size, erased) - 1 |->
                    IF i \in erased THEN h[Source(l.size, erased, i)] ELSE h[i]], t)
<1> DEFINE n == l.size
           kept == Kept(l.size, erased)
           g == Erased(l, erased)
           k == [i \in 0 .. kept - 1 |->
                   IF i \in erased THEN h[Source(n, erased, i)] ELSE h[i]]
           a == t * Tile
<1>1. /\ Shaped(l, t) /\ t <= Padded(MaxRows) \div Tile /\ n <= a /\ n <= MaxRows
      /\ DOMAIN h = 0 .. n - 1 /\ \A i \in 0 .. n - 1 : h[i] \in Vector
      /\ \A i \in 0 .. a - 1 :
           LaneAt(l, i) = IF i < n THEN RowLane(h[i]) ELSE EmptyLane
  BY DEF Holding
<1>2. n \in Nat /\ a \in Nat
  <2>1. n \in Nat
    BY <1>1 DEF Shaped
  <2> QED
    BY <2>1, TilesNumbers
<1>3. kept \in 0 .. n
  <2>1. IsFiniteSet(erased) /\ Cardinality(erased) \in 0 .. n
    <3> HIDE DEF n
    <3>1. erased \in SUBSET (0 .. n - 1)
      BY DEF n
    <3> QED
      BY <1>2, <3>1, FiniteInterval
  <2>2. kept = n - Cardinality(erased)
    BY DEF Kept
  <2> HIDE DEF n, kept
  <2> QED
    BY <1>2, <2>1, <2>2
<1>4. /\ Shaped(g, t) /\ g.size = kept
      /\ \A i \in 0 .. a - 1 : LaneAt(g, i) = Rewritten(l, erased, i)
  BY <1>1, ErasedLanes
<1>5. \A i \in 0 .. kept - 1 : i \in erased =>
        /\ Source(n, erased, i) \in 0 .. n - 1
        /\ i \in Holes(n, erased)
  <2> SUFFICES ASSUME NEW i \in 0 .. kept - 1, i \in erased
               PROVE  Source(n, erased, i) \in 0 .. n - 1 /\ i \in Holes(n, erased)
    OBVIOUS
  <2>1. i \in Holes(n, erased)
    BY <1>3 DEF Holes
  <2>2. erased \in SUBSET (0 .. n - 1)
    OBVIOUS
  <2> HIDE DEF n, kept
  <2>3. Source(n, erased, i) \in (0 .. n - 1) \ erased
    BY <1>2, <2>1, <2>2, SourceExists
  <2> QED
    BY <2>1, <2>3
<1>6. \A i \in 0 .. a - 1 :
        Rewritten(l, erased, i)
          = IF i \in kept .. n - 1 THEN EmptyLane
            ELSE IF i \in Holes(n, erased) THEN LaneAt(l, Source(n, erased, i))
            ELSE LaneAt(l, i)
  BY DEF Rewritten
<1>7. \A i \in Holes(n, erased) : i \in erased /\ i < kept
  BY DEF Holes
<1>7a. \A i \in erased : i \in 0 .. n - 1
  OBVIOUS
<1>8. /\ DOMAIN k = 0 .. kept - 1
      /\ \A i \in 0 .. kept - 1 :
           k[i] = IF i \in erased THEN h[Source(n, erased, i)] ELSE h[i]
  OBVIOUS
<1> HIDE DEF n, kept, g, k, a
<1>9. \A i \in 0 .. kept - 1 : k[i] \in Vector
  <2> TAKE i \in 0 .. kept - 1
  <2>1. i \in 0 .. n - 1
    BY <1>2, <1>3
  <2> QED
    BY <1>1, <1>5, <1>8, <2>1
<1>10. \A i \in 0 .. a - 1 :
         LaneAt(g, i) = IF i < g.size THEN RowLane(k[i]) ELSE EmptyLane
  <2> TAKE i \in 0 .. a - 1
  <2>1. CASE i < kept /\ i \in erased
    <3>1. i \in 0 .. kept - 1 /\ i \in Holes(n, erased) /\ i \notin kept .. n - 1
      BY <1>3, <1>5, <2>1
    <3>2. LaneAt(g, i) = LaneAt(l, Source(n, erased, i))
      BY <1>4, <1>6, <3>1
    <3>3. Source(n, erased, i) \in 0 .. n - 1
      BY <1>5, <2>1, <3>1
    <3> DEFINE s == Source(n, erased, i)
    <3> HIDE DEF s
    <3>4. s \in 0 .. a - 1 /\ s < n
      BY <1>1, <1>2, <3>3 DEF s
    <3>5. LaneAt(l, s) = RowLane(h[s])
      BY <1>1, <3>4
    <3>6. k[i] = h[s]
      BY <1>8, <2>1, <3>1 DEF s
    <3> QED
      BY <1>4, <2>1, <3>2, <3>5, <3>6 DEF s
  <2>2. CASE i < kept /\ i \notin erased
    <3>1. i \in 0 .. kept - 1 /\ i \notin Holes(n, erased) /\ i \notin kept .. n - 1
      BY <1>3, <1>7, <2>2
    <3>2. LaneAt(g, i) = LaneAt(l, i)
      BY <1>4, <1>6, <3>1
    <3>3. i < n
      BY <1>2, <1>3, <2>2
    <3> QED
      BY <1>1, <1>4, <1>8, <2>2, <3>1, <3>2, <3>3
  <2>3. CASE ~(i < kept) /\ i < n
    <3>1. i \in kept .. n - 1
      BY <1>2, <1>3, <2>3
    <3> QED
      BY <1>4, <1>6, <2>3, <3>1
  <2>4. CASE ~(i < n)
    <3>1. i \notin kept .. n - 1 /\ i \notin erased /\ ~(i < kept)
      BY <1>2, <1>3, <1>7a, <2>4
    <3>2. i \notin Holes(n, erased)
      BY <1>7, <3>1
    <3> QED
      BY <1>1, <1>4, <1>6, <2>4, <3>1, <3>2
  <2> QED
    BY <2>1, <2>2, <2>3, <2>4
<1>11. Holding(g, k, t)
  <2>1. g.size <= t * Tile /\ g.size <= MaxRows
    BY <1>1, <1>2, <1>3, <1>4, CodePathAssumption DEF a
  <2> QED
    BY <1>1, <1>4, <1>8, <1>9, <1>10, <2>1 DEF Holding, a
<1> QED
  BY <1>11 DEF g, k, n, kept

(***************************************************************************)
(* The steps.                                                              *)
(***************************************************************************)
\* The quantizer is sound as long as nothing of it changes.
LEMMA QuantizerSame ==
  ASSUME QuantizerSound, UNCHANGED quantizerVars
  PROVE  QuantizerSound'
<1>1. /\ grouping' = grouping /\ heights' = heights /\ capacities' = capacities
      /\ passes' = passes /\ phase' = phase /\ layout' = layout /\ model' = model
  BY DEF quantizerVars
<1>2. /\ UnevenSound(layout, heights)' <=> UnevenSound(layout, heights)
      /\ Written(layout)' = Written(layout) /\ UniformLayout' = UniformLayout
      /\ Paired(capacities)' <=> Paired(capacities)
  BY <1>1 DEF UnevenSound, Written, UniformLayout, Paired
<1> QED
  BY <1>1, <1>2 DEF QuantizerSound

\* Planning and training come before the first row.
LEMMA LearnKeeps == ASSUME CodeInv, Learn PROVE CodeInv'
<1>1. /\ QuantizerSound /\ RowsSound /\ metric' = metric /\ list' = list
      /\ held' = held
  BY DEF CodeInv, Learn, listVars
<1>2. QuantizerSound' /\ phase = "planning"
  BY <1>1, PlanPassSound, TrainSound DEF Learn
<1>3. list.size = 0
  BY <1>1, <1>2 DEF RowsSound
<1>4. PICK t \in Nat : Holding(list, held, t)
  BY <1>1 DEF RowsSound
<1>5. Holding(list, held, t)'
  BY <1>1, <1>3, <1>4, HoldingNothing
<1> QED
  BY <1>1, <1>2, <1>3, <1>5 DEF CodeInv, RowsSound

\* Writing the quantizer leaves the rows alone.
LEMMA SaveKeeps == ASSUME CodeInv, Save PROVE CodeInv'
<1>1. /\ QuantizerSound /\ RowsSound /\ metric' = metric /\ list' = list
      /\ held' = held
  BY DEF CodeInv, Save, listVars
<1>2. QuantizerSound' /\ phase' = phase /\ layout' = layout
  BY <1>1, WriteSound DEF Save
<1>3. PICK t \in Nat : Holding(list, held, t)
  BY <1>1 DEF RowsSound
<1>4. Holding(list, held, t)'
  BY <1>1, <1>2, <1>3, HoldingSame
<1> QED
  BY <1>1, <1>2, <1>4 DEF CodeInv, RowsSound

\* The rows of a list survive a reload: the layout is the same, and the tiles
\* are those the rows need.
LEMMA ReloadKeeps == ASSUME CodeInv, Reload PROVE CodeInv'
<1>1. /\ QuantizerSound /\ RowsSound /\ metric' = metric /\ held' = held
      /\ list' = Resized(list, list.size)
  BY DEF CodeInv, Reload
<1>2. QuantizerSound' /\ phase' = phase /\ layout' = layout /\ phase = "trained"
  BY <1>1, ReadSound DEF Reload
<1>3. PICK t \in Nat : Holding(list, held, t)
  BY <1>1 DEF RowsSound
<1>4. list.size \in Nat /\ list.size <= MaxRows
  <2>1. list.size \in Nat
    BY <1>3 DEF Holding, Shaped
  <2>2. list.size <= MaxRows
    BY <1>3 DEF Holding
  <2> QED
    BY <2>1, <2>2
<1>5. PICK u \in Nat : Holding(Resized(list, list.size), held, u)
  BY <1>3, <1>4, ResizedHolding
<1>6. Holding(list, held, u)'
  BY <1>1, <1>2, <1>5, HoldingSame
<1> QED
  BY <1>1, <1>2, <1>6 DEF CodeInv, RowsSound

\* An insertion finds its lanes empty and writes the codes of its rows there.
LEMMA InsertBatchKeeps ==
  ASSUME CodeInv, NEW batch \in Batches, InsertBatch(batch)
  PROVE  CodeInv'
<1> DEFINE n == list.size + Len(batch)
           new == list.size .. n - 1
           grown == Resized(list, n)
           row == [i \in new |-> batch[i - list.size + 1]]
           lane == [i \in new |-> [code |-> FlatCode(row[i].bits),
                                   metadata |-> Encoded(row[i], metric)]]
<1>1. /\ phase = "trained" /\ updates < MaxUpdates /\ n <= MaxRows
      /\ IF LanesEmpty(grown, new)
         THEN /\ list' = Appended(grown, lane)
              /\ held' = [i \in 0 .. n - 1 |-> IF i \in new THEN row[i] ELSE held[i]]
              /\ UNCHANGED phase
         ELSE /\ list' = grown /\ phase' = "refused"
              /\ UNCHANGED held
      /\ UNCHANGED <<grouping, heights, capacities, passes, layout, model, metric>>
  BY DEF InsertBatch
<1>2. QuantizerSound /\ metric \in Metrics
  BY DEF CodeInv, RowsSound
<1>3. PICK t \in Nat : Holding(list, held, t)
  BY DEF CodeInv, RowsSound
<1>4. batch \in Seq(Vector)
  BY CodePathAssumption
<1>5. list.size \in Nat /\ Len(batch) \in Nat
  BY <1>3, <1>4 DEF Holding, Shaped
<1>6. n \in Nat /\ list.size <= n
  BY <1>5
<1>7. \A i \in new : row[i] \in Vector
  <2> TAKE i \in new
  <2>1. i - list.size + 1 \in 1 .. Len(batch)
    BY <1>5
  <2>2. batch[i - list.size + 1] \in Vector
    BY <1>4, <2>1
  <2> QED
    BY <2>2
<1>8. lane = [i \in new |-> RowLane(row[i])]
  BY DEF RowLane
<1>9. PICK u \in Nat : n <= u * Tile /\ Holding(grown, held, u)
  <2> HIDE DEF n
  <2> QED
    BY <1>1, <1>3, <1>6, ResizedHolding
<1>10. grown.size = list.size
  BY DEF Resized
<1> HIDE DEF n, grown, row, lane
<1>11. /\ LanesEmpty(grown, new)
       /\ Holding(Appended(grown, lane),
                  [i \in 0 .. n - 1 |-> IF i \in new THEN row[i] ELSE held[i]], u)
  <2> DEFINE g == grown
             h == held
  <2>1. g.size = list.size /\ Holding(g, h, u) /\ g.size <= n /\ n <= u * Tile
    BY <1>6, <1>9, <1>10
  <2> HIDE DEF g, h
  <2>2. /\ LanesEmpty(g, g.size .. n - 1)
        /\ Holding(Appended(g, [i \in g.size .. n - 1 |-> RowLane(row[i])]),
                   [i \in 0 .. n - 1 |->
                      IF i \in g.size .. n - 1 THEN row[i] ELSE h[i]], u)
    <3>1. \A i \in g.size .. n - 1 : row[i] \in Vector
      BY <1>7, <2>1
    <3> QED
      BY <1>1, <1>2, <1>6, <2>1, <3>1, AppendedHolding
  <2>3. g.size .. n - 1 = new
    BY <2>1
  <2> HIDE DEF new
  <2> QED
    BY <1>8, <2>2, <2>3 DEF g, h
<1>12. /\ list' = Appended(grown, lane) /\ phase' = phase
       /\ held' = [i \in 0 .. n - 1 |-> IF i \in new THEN row[i] ELSE held[i]]
       /\ layout' = layout /\ metric' = metric
  BY <1>1, <1>11
<1>13. QuantizerSound'
  <2>1. UNCHANGED quantizerVars
    BY <1>1, <1>12 DEF quantizerVars
  <2> QED
    BY <1>2, <2>1, QuantizerSame
<1>14. Holding(list, held, u)'
  <2>1. Holding(list', held', u)
    BY <1>11, <1>12
  <2> QED
    BY <1>12, <2>1, HoldingSame
<1> QED
  BY <1>1, <1>2, <1>12, <1>13, <1>14 DEF CodeInv, RowsSound

\* An erasure moves the rows from the end into the holes and empties the lanes
\* past the new end.
LEMMA EraseBatchKeeps ==
  ASSUME CodeInv, NEW erased, EraseBatch(erased)
  PROVE  CodeInv'
<1> DEFINE h == [i \in 0 .. Kept(list.size, erased) - 1 |->
                   IF i \in erased THEN held[Source(list.size, erased, i)]
                   ELSE held[i]]
<1>1. /\ phase = "trained" /\ erased \subseteq DOMAIN held
      /\ list' = Erased(list, erased) /\ held' = h
      /\ UNCHANGED <<quantizerVars, metric>>
  BY DEF EraseBatch
<1>2. QuantizerSound /\ metric \in Metrics
  BY DEF CodeInv, RowsSound
<1>3. PICK t \in Nat : Holding(list, held, t)
  BY DEF CodeInv, RowsSound
<1>4. DOMAIN held = 0 .. list.size - 1
  BY <1>3 DEF Holding
<1>5. erased \in SUBSET (0 .. list.size - 1)
  BY <1>1, <1>4
<1>6. Holding(Erased(list, erased), h, t)
  BY <1>3, <1>5, ErasedHolding
<1> HIDE DEF h
<1>7. Holding(list', held', t)
  BY <1>1, <1>6
<1>8. layout' = layout /\ metric' = metric /\ phase' = phase
  BY <1>1 DEF quantizerVars
<1>9. Holding(list, held, t)'
  BY <1>7, <1>8, HoldingSame
<1>10. QuantizerSound'
  BY <1>1, <1>2, QuantizerSame
<1> QED
  BY <1>1, <1>2, <1>8, <1>9, <1>10 DEF CodeInv, RowsSound

\* Every step keeps the invariant.
LEMMA CodeNext == ASSUME CodeInv, [Next]_vars PROVE CodeInv'
<1>1. CASE Learn
  BY <1>1, LearnKeeps
<1>2. CASE Save
  BY <1>2, SaveKeeps
<1>3. CASE Reload
  BY <1>3, ReloadKeeps
<1>4. CASE \E batch \in Batches : InsertBatch(batch)
  BY <1>4, InsertBatchKeeps
<1>5. CASE \E n \in 1 .. MaxErased :
             \E erased \in kSubset(n, 0 .. list.size - 1) : EraseBatch(erased)
  BY <1>5, EraseBatchKeeps
<1>6. CASE UNCHANGED vars
  <2>1. /\ UNCHANGED quantizerVars /\ metric' = metric /\ list' = list
        /\ held' = held
    BY <1>6 DEF vars
  <2>2. layout' = layout /\ phase' = phase
    BY <2>1 DEF quantizerVars
  <2>3. QuantizerSound /\ RowsSound
    BY DEF CodeInv
  <2>4. QuantizerSound'
    BY <2>1, <2>3, QuantizerSame
  <2>5. PICK t \in Nat : Holding(list, held, t)
    BY <2>3 DEF RowsSound
  <2>6. Holding(list, held, t)'
    BY <2>1, <2>2, <2>5, HoldingSame
  <2> QED
    BY <2>1, <2>2, <2>3, <2>4, <2>6 DEF CodeInv, RowsSound
<1> QED
  BY <1>1, <1>2, <1>3, <1>4, <1>5, <1>6 DEF Next

\* The inductive invariant always holds.
THEOREM CodePathInvariant == Spec => []CodeInv
<1>1. Init => CodeInv
  BY InitSound
<1>2. CodeInv /\ [Next]_vars => CodeInv'
  BY CodeNext
<1> QED
  BY <1>1, <1>2, PTL DEF Spec

(***************************************************************************)
(* What the inductive invariant says of a row.                             *)
(***************************************************************************)
\* The tiles behind the rows of the list.
LEMMA RowsHeld ==
  ASSUME CodeInv
  PROVE  /\ list.size \in Nat /\ metric \in Metrics
         /\ phase = "planning" => list.size = 0
         /\ phase \in {"planning", "trained"}
         /\ \A i \in Rows :
              /\ i \in Nat /\ held[i] \in Vector /\ phase = "trained"
              /\ LaneAt(list, i) = RowLane(held[i])
<1>1. QuantizerSound /\ RowsSound
  BY DEF CodeInv
<1>2. PICK t \in Nat : Holding(list, held, t)
  BY <1>1 DEF RowsSound
<1>3. list.size \in Nat
  BY <1>2 DEF Holding, Shaped
<1>4. phase \in {"planning", "trained"}
  BY <1>1 DEF QuantizerSound
<1>5. metric \in Metrics /\ (phase = "planning" => list.size = 0)
  BY <1>1 DEF RowsSound
<1>6. \A i \in Rows :
        /\ i \in Nat /\ held[i] \in Vector /\ phase = "trained"
        /\ LaneAt(list, i) = RowLane(held[i])
  <2> TAKE i \in Rows
  <2>1. i \in Nat /\ i \in 0 .. list.size - 1 /\ i < list.size /\ list.size # 0
    BY <1>3 DEF Rows
  <2>2. phase = "trained"
    BY <1>4, <1>5, <2>1
  <2>3. held[i] \in Vector
    BY <1>2, <2>1 DEF Holding
  <2>4. i \in 0 .. t * Tile - 1
    <3> DEFINE a == t * Tile
    <3>1. a \in Nat /\ list.size <= a
      BY <1>2, TilesNumbers DEF Holding
    <3> HIDE DEF a
    <3>2. i \in 0 .. a - 1
      BY <1>3, <2>1, <3>1
    <3> QED
      BY <3>2 DEF a
  <2>5. LaneAt(list, i) = RowLane(held[i])
    BY <1>2, <2>1, <2>4 DEF Holding
  <2> QED
    BY <2>1, <2>2, <2>3, <2>5
<1> QED
  BY <1>3, <1>4, <1>5, <1>6

\* The code of a row is that of its vector, and so is its metadata.
LEMMA RowWritten ==
  ASSUME CodeInv, NEW i \in Rows
  PROVE  /\ CodeAt(list, i) = FlatCode(held[i].bits)
         /\ MetadataAt(list, i) = Encoded(held[i], metric)
         /\ held[i].bits \in [Dims -> {0, 1}]
         /\ held[i].norm \in Nat /\ held[i].scale \in Nat /\ held[i].error \in Nat
<1>1. held[i] \in Vector /\ LaneAt(list, i) = RowLane(held[i])
  BY RowsHeld
<1>2. /\ LaneAt(list, i).code = CodeAt(list, i)
      /\ LaneAt(list, i).metadata = MetadataAt(list, i)
  BY DEF LaneAt
<1>3. /\ RowLane(held[i]).code = FlatCode(held[i].bits)
      /\ RowLane(held[i]).metadata = Encoded(held[i], metric)
  BY DEF RowLane
<1>4. /\ held[i].bits \in [Dims -> {0, 1}]
      /\ held[i].norm \in Nat /\ held[i].scale \in Nat /\ held[i].error \in Nat
  BY <1>1 DEF Vector
<1> QED
  BY <1>1, <1>2, <1>3, <1>4

(***************************************************************************)
(* The invariants.                                                         *)
(***************************************************************************)
\* The tiles give the type invariant.
LEMMA CodeTyped == CodeInv => TypeOK
<1> SUFFICES ASSUME CodeInv PROVE TypeOK
  OBVIOUS
<1>1. QuantizerSound /\ RowsSound
  BY DEF CodeInv
<1>2. phase \in {"planning", "trained", "refused"} /\ passes \in 0 .. 16
  BY <1>1 DEF QuantizerSound
<1>3. capacities \in Seq(Nat)
  <2>1. CASE phase = "planning" /\ grouping = "Uneven"
    <3>1. Paired(capacities)
      BY <1>1, <2>1 DEF QuantizerSound
    <3>2. capacities \in [1 .. Pairs -> Nat] /\ Pairs \in Nat
      BY <3>1, PairSizes DEF Paired
    <3> QED
      BY <3>2, FunctionSeq
  <2>2. CASE ~(phase = "planning" /\ grouping = "Uneven")
    <3>1. capacities = <<>>
      BY <1>1, <2>2 DEF QuantizerSound
    <3> QED
      BY <3>1
  <2> QED
    BY <2>1, <2>2
<1>4. PICK t \in Nat : Holding(list, held, t)
  BY <1>1 DEF RowsSound
<1>5. /\ DOMAIN held = 0 .. list.size - 1
      /\ list.size <= t * Tile /\ t <= Padded(MaxRows) \div Tile
      /\ Shaped(list, t)
  BY <1>4 DEF Holding
<1>6. t \in 0 .. Padded(MaxRows) \div Tile
  <2>1. MaxRows \in Nat
    BY CodePathAssumption
  <2>2. PICK u \in Nat : Padded(MaxRows) \div Tile = u
    BY <2>1, PaddedTiles
  <2> QED
    BY <1>5, <2>2
<1>7. /\ list.codes \in [0 .. 2 * TileBytes * t - 1 -> 0 .. 15]
      /\ list.metadata \in [0 .. 3 * Tile * t - 1 -> 0 .. 255]
  BY <1>5 DEF Shaped
<1>8. /\ DOMAIN list.codes = 0 .. 2 * TileBytes * t - 1
      /\ DOMAIN list.metadata = 0 .. 3 * Tile * t - 1
      /\ \A a \in DOMAIN list.codes : list.codes[a] \in 0 .. 15
      /\ \A a \in DOMAIN list.metadata : list.metadata[a] \in 0 .. 255
  <2> DEFINE A == 0 .. 2 * TileBytes * t - 1
             B == 0 .. 3 * Tile * t - 1
             C == 0 .. 15
             E == 0 .. 255
  <2>1. list.codes \in [A -> C] /\ list.metadata \in [B -> E]
    BY <1>7
  <2> HIDE DEF A, B, C, E
  <2>2. DOMAIN list.codes = A /\ DOMAIN list.metadata = B
    BY ONLY <2>1
  <2>3. /\ \A a \in DOMAIN list.codes : list.codes[a] \in C
        /\ \A a \in DOMAIN list.metadata : list.metadata[a] \in E
    BY ONLY <2>1
  <2> QED
    BY ONLY <2>2, <2>3 DEF A, B, C, E
<1> QED
  BY <1>2, <1>3, <1>5, <1>6, <1>8 DEF TypeOK

\* The buffers stay whole tiles of nibbles and bytes, whatever is planned,
\* written, read back, inserted and erased.
THEOREM CodePathTypeOK == Spec => []TypeOK
  BY CodePathInvariant, CodeTyped, PTL

\* The invariant has no refused state.
LEMMA CodeAccepted == CodeInv => NeverRefused
  BY DEF CodeInv, QuantizerSound, NeverRefused

\* No training, no reading back and no insertion is refused: every layout the
\* planner can end with has even buckets that hold each coordinate once, and
\* keeps the loads; every row past the end has an empty lane.
THEOREM CodePathNeverRefused == Spec => []NeverRefused
  BY CodePathInvariant, CodeAccepted, PTL

\* The budgets are what stands above one level, and add up.
LEMMA CodeBudgets == CodeInv => BudgetsOptimal
<1> SUFFICES ASSUME CodeInv, layout.budgets # <<>> PROVE BudgetsOptimal
  BY DEF BudgetsOptimal
<1>1. QuantizerSound
  BY DEF CodeInv
<1>2. phase = "trained" /\ grouping = "Uneven"
  <2>1. phase \in {"planning", "trained"}
    BY <1>1 DEF QuantizerSound
  <2>2. CASE phase = "planning"
    BY <1>1, <2>2 DEF QuantizerSound, NoLayout
  <2>3. CASE phase = "trained" /\ grouping # "Uneven"
    BY <1>1, <2>3 DEF QuantizerSound, UniformLayout
  <2> QED
    BY <2>1, <2>2, <2>3
<1>3. heights \in Profiles /\ UnevenSound(layout, heights)
  BY <1>1, <1>2 DEF QuantizerSound
<1>4. heights \in [Dims -> Int]
  BY <1>3, LayoutAssumption
<1> DEFINE b == layout.budgets
<1>5. b = Budgets(heights)
  <2>1. layout = [groups |-> layout.groups, loads |-> layout.loads,
                  budgets |-> Budgets(heights), buckets |-> Buckets(layout.groups)]
    BY <1>3 DEF UnevenSound
  <2> QED
    BY <2>1
<1> HIDE DEF b
<1>6. PICK L \in Int : /\ b = Above(heights, L) /\ b \in [Dims -> Nat]
                       /\ SumFunction(b) = M * Target
  BY <1>3, <1>5, BudgetsAbove
<1>7. \A j \in Dims : /\ heights[j] \in Int
                      /\ b[j] = IF heights[j] > L THEN heights[j] - L ELSE 0
  BY <1>4, <1>6 DEF Above
<1>8. \A i, j \in Dims :
        b[i] > 0 => IF b[j] > 0 THEN heights[i] - b[i] = heights[j] - b[j]
                    ELSE heights[j] <= heights[i] - b[i]
  <2> TAKE i, j \in Dims
  <2>1. /\ heights[i] \in Int
        /\ b[i] = IF heights[i] > L THEN heights[i] - L ELSE 0
    BY <1>7
  <2>2. /\ heights[j] \in Int
        /\ b[j] = IF heights[j] > L THEN heights[j] - L ELSE 0
    BY <1>7
  <2> DEFINE x == heights[i]
             y == heights[j]
             p == b[i]
             q == b[j]
  <2>3. /\ x \in Int /\ y \in Int /\ L \in Int
        /\ p = (IF x > L THEN x - L ELSE 0) /\ q = (IF y > L THEN y - L ELSE 0)
    BY <1>6, <2>1, <2>2
  <2> HIDE DEF x, y, p, q
  <2>4. p > 0 => IF q > 0 THEN x - p = y - q ELSE y <= x - p
    BY ONLY <2>3
  <2> QED
    BY <2>4 DEF x, y, p, q
<1> QED
  BY <1>6, <1>8 DEF BudgetsOptimal, b

\* The bit budgets of a trained quantizer are the reverse water-filling of the
\* training set, for every profile.
THEOREM CodePathBudgetsOptimal == Spec => []BudgetsOptimal
  BY CodePathInvariant, CodeBudgets, PTL

\* The code of a row is that of its vector, and decoding restores it.
LEMMA CodeRestores == CodeInv => CodesRestore
<1> SUFFICES ASSUME CodeInv, NEW i \in Rows
             PROVE  Decoded(CodeAt(list, i)) = held[i].bits
  BY DEF CodesRestore
<1>1. QuantizerSound /\ phase = "trained"
  BY RowsHeld DEF CodeInv
<1>2. PICK groups : Arranged(groups) /\ Cover(layout.buckets, groups)
  BY <1>1, TrainedCover
<1>3. CodeAt(list, i) = FlatCode(held[i].bits) /\ held[i].bits \in [Dims -> {0, 1}]
  BY RowWritten
<1>4. Decoded(FlatCode(held[i].bits)) = held[i].bits
  BY <1>2, <1>3, CodeRestored
<1> QED
  BY <1>3, <1>4

\* Whatever layout was planned, in whatever tiles a row was packed and moved,
\* and whether or not the quantizer has been read back, decoding gives the
\* vector that was encoded.
THEOREM CodePathCodesRestore == Spec => []CodesRestore
  BY CodePathInvariant, CodeRestores, PTL

\* The bytes of a row are those of its vector, which are honest.
LEMMA CodeHonest == CodeInv => MetadataHonest
<1> SUFFICES ASSUME CodeInv, NEW i \in Rows
             PROVE  Honest(held[i], MetadataAt(list, i), metric)
  BY DEF MetadataHonest
<1>1. MetadataAt(list, i) = Encoded(held[i], metric)
  BY RowWritten
<1>2. held[i].norm \in Nat /\ held[i].scale \in Nat /\ held[i].error \in Nat
  BY RowWritten
<1>3. metric \in {"SquaredL2", "InnerProduct", "Cosine"}
  BY RowsHeld, CodePathAssumption
<1> QED
  BY <1>1, <1>2, <1>3, EncodedHonest

\* The metadata of every row stays flagged or right, wherever updates move it.
THEOREM CodePathMetadataHonest == Spec => []MetadataHonest
  BY CodePathInvariant, CodeHonest, PTL

\* Every kernel finds the entries of the row's code; they add up to the inner
\* product.
LEMMA RowDots ==
  ASSUME CodeInv, NEW i \in Rows, NEW q \in Queries, NEW lut, lut = DotTable(q),
         NEW dot, dot = SumFunction([j \in Dims |-> q[j] * held[i].bits[j]])
  PROVE  /\ dot \in Int
         /\ ScalarDot(list, lut, i) = dot /\ Avx512Dot(list, lut, i) = dot
         /\ QuantizeLut(lut).span \in Nat
         /\ QuantizedDot(list, QuantizeLut(lut), i) \in Int
         /\ 2 * (QuantizedDot(list, QuantizeLut(lut), i) - 255 * dot)
              <= M * QuantizeLut(lut).span
         /\ 2 * (255 * dot - QuantizedDot(list, QuantizeLut(lut), i))
              <= M * QuantizeLut(lut).span
<1> DEFINE x == held[i].bits
           e == [j \in Dims |-> q[j] * x[j]]
           code == FlatCode(x)
           row == [m \in Groups |-> lut[m][code[m]]]
<1>1. i \in Nat /\ phase = "trained" /\ QuantizerSound
  BY RowsHeld DEF CodeInv
<1>2. PICK groups : Arranged(groups) /\ Cover(layout.buckets, groups)
  BY <1>1, TrainedCover
<1>3. q \in [Dims -> Int] /\ x \in [Dims -> {0, 1}]
  BY RowWritten, CodePathAssumption
<1>4. CodeAt(list, i) = code
  BY RowWritten
<1>5. lut \in [Groups -> [0 .. 15 -> Int]]
  BY <1>2, <1>3, DotTableRows
<1> HIDE DEF x
<1>6. code \in [Groups -> 0 .. 15]
  BY <1>2, <1>3, FlatCodeNibbles
<1>7. e \in [Dims -> Int] /\ \A j \in Dims : e[j] = q[j] * x[j]
  <2>1. \A j \in Dims : q[j] * x[j] \in Int
    <3> TAKE j \in Dims
    <3>1. q[j] \in Int /\ x[j] \in Int
      BY <1>3
    <3> QED
      BY <3>1
  <2> QED
    BY <2>1
<1>8. \A m \in Groups : row[m] = DotTable(q)[m][FlatCode(x)[m]]
  OBVIOUS
<1> HIDE DEF e, row
<1>9. Numbers(row, Groups) /\ SumFunctionOnSet(row, Groups) = SumFunctionOnSet(e, Dims)
  BY <1>2, <1>3, <1>7, <1>8, DotOfCode
<1>10. dot = SumFunctionOnSet(e, Dims) /\ dot \in Int
  <2>1. dot = SumFunction(e)
    BY DEF e, x
  <2> QED
    BY <1>7, <2>1, SumOverDims
<1> HIDE DEF code
<1>11. \A m \in CodeGroups : list.codes[Nibble(i, m)] = code[m]
  BY <1>4 DEF CodeAt
<1>12. \A m \in CodeGroups : row[m] \in Int /\ row[m] = lut[m][code[m]]
  <2>1. \A m \in Groups : row[m] = lut[m][code[m]]
    BY DEF row
  <2>2. \A m \in Groups : row[m] \in Int
    BY <1>9 DEF Numbers
  <2> QED
    BY <2>1, <2>2, GroupsAgree
<1>13. Selects(list, lut, i, row)
  BY <1>11, <1>12 DEF Selects
<1>14. dot = SumFunctionOnSet(row, CodeGroups)
  BY <1>9, <1>10, GroupsAgree
<1>15. ScalarDot(list, lut, i) = dot /\ Avx512Dot(list, lut, i) = dot
  BY <1>1, <1>13, <1>14, ScalarDotSum, Avx512DotSum
<1>16. /\ lut \in [CodeGroups -> [0 .. 15 -> Int]]
       /\ \A m \in CodeGroups : list.codes[Nibble(i, m)] \in 0 .. 15
  BY <1>5, <1>6, <1>11, GroupsAgree
<1>17. Subquantizers = M /\ Subquantizers <= 257
  BY CodePathAssumption
<1>18. /\ QuantizeLut(lut).span \in Nat
       /\ QuantizedDot(list, QuantizeLut(lut), i) \in Int
       /\ 2 * (QuantizedDot(list, QuantizeLut(lut), i) - 255 * dot)
            <= Subquantizers * QuantizeLut(lut).span
       /\ 2 * (255 * dot - QuantizedDot(list, QuantizeLut(lut), i))
            <= Subquantizers * QuantizeLut(lut).span
  <2> DEFINE l == list
  <2>1. /\ lut \in [CodeGroups -> [0 .. 15 -> Int]] /\ Subquantizers <= 257
        /\ Selects(l, lut, i, row) /\ dot = SumFunctionOnSet(row, CodeGroups)
    BY <1>13, <1>14, <1>16, <1>17
  <2>2. Nibbles(l, i)
    BY <1>16 DEF Nibbles
  <2> HIDE DEF l
  <2>3. /\ QuantizeLut(lut).span \in Nat
        /\ NearDot(QuantizedDot(l, QuantizeLut(lut), i), dot, QuantizeLut(lut).span)
    BY ONLY <2>1, <2>2, QuantizedDotNear
  <2> QED
    BY <2>3 DEF l, NearDot
<1> QED
  BY <1>10, <1>15, <1>17, <1>18

\* The sums of all kernels are the inner product, or near it.
LEMMA CodeDots == CodeInv => DotsExact
<1> SUFFICES ASSUME CodeInv, NEW q \in Queries, NEW i \in Rows,
                    NEW avx512 \in BOOLEAN,
                    NEW mode \in {"Auto", "ExactFloat", "ScalarFloat",
                                  "QuantizedUint8"}
             PROVE  2 * Distance(Dot255(list, DotTable(q),
                                        QuantizeLut(DotTable(q)), i, mode, avx512),
                                 255 * SumFunction([j \in Dims |->
                                                      q[j] * held[i].bits[j]]))
                      <= IF ChooseMode(mode, avx512) = "QuantizedUint8"
                         THEN M * QuantizeLut(DotTable(q)).span ELSE 0
  BY DEF DotsExact
<1> DEFINE lut == DotTable(q)
           dot == SumFunction([j \in Dims |-> q[j] * held[i].bits[j]])
           bound == M * QuantizeLut(lut).span
           near == QuantizedDot(list, QuantizeLut(lut), i)
           given == Dot255(list, lut, QuantizeLut(lut), i, mode, avx512)
<1>1. /\ dot \in Int
      /\ ScalarDot(list, lut, i) = dot /\ Avx512Dot(list, lut, i) = dot
      /\ near \in Int
      /\ 2 * (near - 255 * dot) <= bound /\ 2 * (255 * dot - near) <= bound
  BY RowDots
<1>2. CASE ChooseMode(mode, avx512) = "QuantizedUint8"
  <2>1. given = near
    BY <1>2 DEF Dot255
  <2> HIDE DEF lut, dot, bound, near, given
  <2>2. 2 * Distance(given, 255 * dot) <= bound
    BY <1>1, <2>1 DEF Distance
  <2> QED
    BY <1>2, <2>2 DEF lut, dot, bound, given
<1>3. CASE ChooseMode(mode, avx512) # "QuantizedUint8"
  <2>1. \/ given = 255 * Avx512Dot(list, lut, i)
        \/ given = 255 * ScalarDot(list, lut, i)
    BY <1>3 DEF Dot255
  <2> HIDE DEF lut, dot, bound, near, given
  <2>2. given = 255 * dot
    BY <1>1, <2>1
  <2>3. 2 * Distance(given, 255 * dot) <= 0
    BY <1>1, <2>2 DEF Distance
  <2> QED
    BY <1>3, <2>3 DEF lut, dot, given
<1> QED
  BY <1>2, <1>3

\* Every row gets the inner product of the query with its decoded vector from
\* the float kernels, and from the byte kernel the same to half a step of the
\* table for each group; the 16-bit sums of the bytes never wrap.
THEOREM CodePathDotsExact == Spec => []DotsExact
  BY CodePathInvariant, CodeDots, PTL
=============================================================================

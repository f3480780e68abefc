----------------------------- MODULE OrderLemmas -----------------------------
(***************************************************************************)
(* Lemmas that the proofs of several modules need: induction over numbers  *)
(* and finite sets, ranks under a strict order, sums, folds and quotients, *)
(* stated with sets and functions for what the library states with         *)
(* operators.                                                              *)
(***************************************************************************)
EXTENDS Integers, Sequences, FiniteSetsExt, FiniteSetTheorems, TLAPS

\* Every nonempty set of natural numbers has a least element.
LEMMA LeastNat ==
  ASSUME NEW T, T \subseteq Nat, T # {}
  PROVE  \E x \in T : \A y \in T : x <= y
<1>1. PICK x \in T : \A y \in T : <<y, x>> \notin OpToRel(<, Nat)
  BY NatLessThanWellFounded, WFMin
<1>2. \A y \in T : ~(y < x)
  BY <1>1 DEF OpToRel
<1>3. QED
  BY <1>2

\* A set that holds 0 and every successor up to N holds all of 0 .. N.
LEMMA Induct ==
  ASSUME NEW B, NEW N \in Nat, 0 \in B,
         \A n \in 0 .. N - 1 : n \in B => n + 1 \in B
  PROVE  \A n \in 0 .. N : n \in B
<1> DEFINE T == {n \in 0 .. N : n \notin B}
<1> SUFFICES ASSUME T # {} PROVE FALSE
  OBVIOUS
<1>0. T \subseteq Nat
  OBVIOUS
<1>1. PICK x \in T : \A y \in T : x <= y
  <2> HIDE DEF T
  <2>1. QED
    BY <1>0, LeastNat
<1>2. x # 0 /\ x - 1 \in 0 .. N - 1 /\ x - 1 \in B
  BY <1>1
<1>3. QED
  BY <1>1, <1>2

\* Every nonempty set of numbers below a bound has a greatest element.
LEMMA GreatestNat ==
  ASSUME NEW N \in Nat, NEW T, T \subseteq 0 .. N, T # {}
  PROVE  \E x \in T : \A y \in T : y <= x
<1> DEFINE U == {N - x : x \in T}
<1>1. U \subseteq Nat /\ U # {}
  <2>1. \A x \in T : N - x \in Nat
    OBVIOUS
  <2>2. PICK x \in T : TRUE
    OBVIOUS
  <2>3. N - x \in U
    OBVIOUS
  <2>4. QED
    BY <2>1, <2>3
<1>2. PICK u \in U : \A v \in U : u <= v
  BY <1>1, LeastNat
<1>3. PICK x \in T : u = N - x
  BY <1>2
<1>4. \A y \in T : N - x <= N - y
  BY <1>2, <1>3
<1>5. QED
  BY <1>3, <1>4

\* An initial segment is as long as it is large.
LEMMA PrefixLength ==
  ASSUME NEW N \in Nat, NEW K, K \subseteq 1 .. N,
         \A k \in K : \A j \in 1 .. k : j \in K
  PROVE  /\ K = 1 .. Cardinality(K)
         /\ Cardinality(K) \in 0 .. N
<1>1. CASE K = {}
  <2>1. Cardinality(K) = 0 /\ 1 .. 0 = {}
    BY <1>1, FS_EmptySet
  <2>2. QED
    BY <1>1, <2>1
<1>2. CASE K # {}
  <2>1. K \subseteq 0 .. N
    OBVIOUS
  <2>2. PICK m \in K : \A k \in K : k <= m
    BY <1>2, <2>1, GreatestNat
  <2>3. m \in 1 .. N /\ \A j \in 1 .. m : j \in K
    BY <2>2
  <2>4. K = 1 .. m
    <3>1. \A k \in K : k \in 1 .. m
      BY <2>2, <2>3
    <3>2. QED
      BY <2>3, <3>1
  <2>5. Cardinality(1 .. m) = m
    <3>1. 1 \in Int /\ m \in Int /\ ~(1 > m) /\ m - 1 + 1 = m
      BY <2>3
    <3>2. QED
      BY <3>1, FS_Interval
  <2>6. QED
    BY <2>3, <2>4, <2>5
<1>3. QED
  BY <1>1, <1>2

\* The number of elements that precede x.
Rank(S, R, x) == Cardinality({y \in S : <<y, x>> \in R})

\* Under a strict total order the ranks are 0 .. Cardinality(S) - 1, each taken
\* once and in order.
LEMMA Ranks ==
  ASSUME NEW S, IsFiniteSet(S), NEW R,
         \A x \in S : <<x, x>> \notin R,
         \A x, y, z \in S : <<x, y>> \in R /\ <<y, z>> \in R => <<x, z>> \in R,
         \A x, y \in S : x # y => <<x, y>> \in R \/ <<y, x>> \in R
  PROVE  /\ Cardinality(S) \in Nat
         /\ \A x \in S : Rank(S, R, x) \in 0 .. Cardinality(S) - 1
         /\ \A x, y \in S : <<x, y>> \in R <=> Rank(S, R, x) < Rank(S, R, y)
         /\ \A x, y \in S : Rank(S, R, x) = Rank(S, R, y) => x = y
         /\ \A n \in 0 .. Cardinality(S) - 1 : \E x \in S : Rank(S, R, x) = n
<1> DEFINE Low(x) == {y \in S : <<y, x>> \in R}
           r == [x \in S |-> Cardinality(Low(x))]
           n == Cardinality(S)
<1>1. n \in Nat
  BY FS_CardinalityType
<1>2. \A x \in S : r[x] \in 0 .. n - 1
  <2> TAKE x \in S
  <2>1. Low(x) \in SUBSET S /\ Low(x) # S
    OBVIOUS
  <2>2. Cardinality(Low(x)) <= n /\ n # Cardinality(Low(x))
        /\ IsFiniteSet(Low(x))
    BY <2>1, FS_Subset
  <2>3. Cardinality(Low(x)) \in Nat
    BY <2>2, FS_CardinalityType
  <2>4. QED
    BY <1>1, <2>2, <2>3
<1>3. \A x, y \in S : <<x, y>> \in R => r[x] < r[y]
  <2> TAKE x, y \in S
  <2> HAVE <<x, y>> \in R
  <2>1. Low(x) \in SUBSET Low(y) /\ Low(x) # Low(y) /\ Low(y) \in SUBSET S
    OBVIOUS
  <2>2. IsFiniteSet(Low(y))
    BY <2>1, FS_Subset
  <2>3. Cardinality(Low(x)) <= Cardinality(Low(y))
        /\ Cardinality(Low(y)) # Cardinality(Low(x))
    BY <2>1, <2>2, FS_Subset
  <2>4. r[x] \in Int /\ r[y] \in Int
    BY <1>1, <1>2
  <2>5. QED
    BY <2>3, <2>4
<1>3a. r \in [S -> 0 .. n - 1]
  BY <1>2
<1>3b. \A x \in S : r[x] = Rank(S, R, x)
  BY DEF Rank
<1> HIDE DEF r
<1>3c. \A x, y \in S : r[x] \in Int /\ r[y] \in Int
  BY <1>1, <1>3a
<1>4. \A x, y \in S : r[x] = r[y] => x = y
  <2> SUFFICES ASSUME NEW x \in S, NEW y \in S, r[x] = r[y], x # y PROVE FALSE
    OBVIOUS
  <2>1. <<x, y>> \in R \/ <<y, x>> \in R
    OBVIOUS
  <2>2. r[x] < r[y] \/ r[y] < r[x]
    BY <1>3, <2>1
  <2>3. QED
    BY <1>3c, <2>2
<1>5. \A x, y \in S : <<x, y>> \in R <=> r[x] < r[y]
  <2> SUFFICES ASSUME NEW x \in S, NEW y \in S, r[x] < r[y], <<x, y>> \notin R
               PROVE  FALSE
    BY <1>3
  <2>1. r[x] \in Int /\ r[y] \in Int
    BY <1>3c
  <2>2. x # y
    BY <2>1
  <2>3. <<y, x>> \in R
    BY <2>2
  <2>4. r[y] < r[x]
    BY <1>3, <2>3
  <2>5. QED
    BY <2>1, <2>4
<1>6. r \in Injection(S, 0 .. n - 1)
  BY <1>3a, <1>4 DEF Injection, IsInjective
<1>7. IsFiniteSet(0 .. n - 1) /\ Cardinality(0 .. n - 1) = n
  <2>1. 0 \in Int /\ n - 1 \in Int
    BY <1>1
  <2>2. QED
    BY <1>1, <2>1, FS_Interval
<1>8. r \in Surjection(S, 0 .. n - 1)
  BY <1>6, <1>7, FS_Injection
<1>9. \A k \in 0 .. n - 1 : \E x \in S : r[x] = k
  BY <1>8 DEF Surjection
<1>10. QED
  BY <1>1, <1>3a, <1>3b, <1>4, <1>5, <1>9

\* c names an element of every subset, F maps an element and a value to a value,
\* and g folds every subset, from b on, in the order c gives.
Choice(S, c) == \A s \in SUBSET S : s # {} => c[s] \in s
Closed(S, V, F) == \A x \in S : \A v \in V : F[<<x, v>>] \in V
FoldsAll(S, V, b, F, c, g) ==
  /\ g \in [SUBSET S -> V]
  /\ g[{}] = b
  /\ \A s \in SUBSET S : s # {} => g[s] = F[<<c[s], g[s \ {c[s]}]>>]

\* A fold of a finite set is well defined: for a choice c, a step F and a first
\* value b there is a function that folds every subset.
LEMMA FoldDefined ==
  ASSUME NEW S, IsFiniteSet(S), NEW V, NEW b \in V, NEW F, NEW c,
         Choice(S, c), Closed(S, V, F)
  PROVE  \E g : FoldsAll(S, V, b, F, c, g)
<1> DEFINE Small(n) == {s \in SUBSET S : Cardinality(s) <= n}
           Folds(n, g) ==
             /\ g \in [Small(n) -> V]
             /\ g[{}] = b
             /\ \A s \in Small(n) : s # {} => g[s] = F[<<c[s], g[s \ {c[s]}]>>]
           B == {n \in Nat : \E g : Folds(n, g)}
<1> USE DEF Choice, Closed
<1>0. \A s \in SUBSET S : IsFiniteSet(s) /\ Cardinality(s) \in Nat
                           /\ Cardinality(s) <= Cardinality(S)
  BY FS_Subset, FS_CardinalityType
<1>1. Cardinality(S) \in Nat
  BY FS_CardinalityType
<1>2. \A n \in Nat : {} \in Small(n)
  BY FS_EmptySet
<1>3. 0 \in B
  <2> DEFINE g == [s \in Small(0) |-> b]
  <2>1. \A s \in Small(0) : s = {}
    BY <1>0, FS_EmptySet
  <2>2. Folds(0, g)
    BY <1>2, <2>1
  <2> HIDE DEF g, Folds
  <2>3. QED
    BY <2>2
<1>4. \A n \in 0 .. Cardinality(S) - 1 : n \in B => n + 1 \in B
  <2> SUFFICES ASSUME NEW n \in Nat, n \in B PROVE n + 1 \in B
    BY <1>1
  <2>0. PICK g : Folds(n, g)
    OBVIOUS
  <2> DEFINE h == [s \in Small(n + 1) |->
                     IF s \in Small(n) THEN g[s] ELSE F[<<c[s], g[s \ {c[s]}]>>]]
  <2>1. \A s \in Small(n + 1) : s # {} =>
          c[s] \in S /\ s \ {c[s]} \in Small(n)
    <3> TAKE s \in Small(n + 1)
    <3> HAVE s # {}
    <3>1. c[s] \in s
      OBVIOUS
    <3>2. Cardinality(s \ {c[s]}) = Cardinality(s) - 1
      BY <1>0, <3>1, FS_RemoveElement
    <3>3. Cardinality(s) - 1 <= n
      BY <1>0
    <3>4. QED
      BY <3>1, <3>2, <3>3
  <2>2. \A s \in Small(n) : s \in Small(n + 1)
    BY <1>0
  <2>3. \A s \in Small(n + 1) : s # {} => h[s] = F[<<c[s], g[s \ {c[s]}]>>]
    BY <2>0
  <2>4. \A s \in Small(n) : h[s] = g[s]
    BY <2>2
  <2>5. \A s \in Small(n + 1) : h[s] \in V
    <3> TAKE s \in Small(n + 1)
    <3>1. CASE s \in Small(n)
      BY <2>0, <2>4, <3>1
    <3>2. CASE s \notin Small(n)
      <4>1. s # {}
        BY <1>2, <3>2
      <4>2. g[s \ {c[s]}] \in V /\ c[s] \in S
        BY <2>0, <2>1, <4>1
      <4>3. F[<<c[s], g[s \ {c[s]}]>>] \in V
        BY <4>2
      <4>4. h[s] = F[<<c[s], g[s \ {c[s]}]>>]
        BY <2>3, <4>1
      <4>5. QED
        BY <4>3, <4>4
    <3>3. QED
      BY <3>1, <3>2
  <2>6. h \in [Small(n + 1) -> V]
    BY <2>5
  <2>7. h[{}] = b
    BY <1>2, <2>0, <2>4
  <2>8. \A s \in Small(n + 1) : s # {} => h[s] = F[<<c[s], h[s \ {c[s]}]>>]
    BY <2>1, <2>3, <2>4
  <2> HIDE DEF h
  <2>9. Folds(n + 1, h)
    BY <2>6, <2>7, <2>8
  <2> HIDE DEF Folds
  <2>10. QED
    BY <2>9
<1>5. Cardinality(S) \in B
  <2> HIDE DEF B
  <2>1. QED
    BY <1>1, <1>3, <1>4, Induct
<1>6. PICK g : Folds(Cardinality(S), g)
  BY <1>5
<1>7. Small(Cardinality(S)) = SUBSET S
  BY <1>0
<1>8. QED
  BY <1>6, <1>7 DEF FoldsAll

\* Of the elements of S, n have a rank below n.
LEMMA RankPrefix ==
  ASSUME NEW S, IsFiniteSet(S), NEW R,
         \A x \in S : <<x, x>> \notin R,
         \A x, y, z \in S : <<x, y>> \in R /\ <<y, z>> \in R => <<x, z>> \in R,
         \A x, y \in S : x # y => <<x, y>> \in R \/ <<y, x>> \in R,
         NEW n \in 0 .. Cardinality(S)
  PROVE  /\ IsFiniteSet({x \in S : Rank(S, R, x) < n})
         /\ Cardinality({x \in S : Rank(S, R, x) < n}) = n
<1> DEFINE P == {x \in S : Rank(S, R, x) < n}
           f == [x \in P |-> Rank(S, R, x)]
<1>1. /\ Cardinality(S) \in Nat
      /\ \A x \in S : Rank(S, R, x) \in 0 .. Cardinality(S) - 1
      /\ \A x, y \in S : Rank(S, R, x) = Rank(S, R, y) => x = y
      /\ \A m \in 0 .. Cardinality(S) - 1 : \E x \in S : Rank(S, R, x) = m
  BY Ranks
<1>2. n \in Nat /\ \A m \in 0 .. n - 1 : m \in 0 .. Cardinality(S) - 1 /\ m < n
  BY <1>1
<1>3. \A x \in P : Rank(S, R, x) \in 0 .. n - 1
  BY <1>1, <1>2
<1>4. \A m \in 0 .. n - 1 : \E x \in P : f[x] = m
  <2> TAKE m \in 0 .. n - 1
  <2>1. PICK x \in S : Rank(S, R, x) = m
    BY <1>1, <1>2
  <2>2. x \in P
    BY <1>2, <2>1
  <2>3. QED
    BY <2>1, <2>2
<1>5. f \in [P -> 0 .. n - 1]
  BY <1>3
<1>6. \A x, y \in P : f[x] = f[y] => x = y
  BY <1>1
<1> HIDE DEF f, P
<1>7. f \in Bijection(P, 0 .. n - 1)
  BY <1>4, <1>5, <1>6 DEF Bijection, Injection, Surjection, IsInjective
<1>8. IsFiniteSet(P)
  <2>1. P \subseteq S
    BY DEF P
  <2>2. QED
    BY <2>1, FS_Subset
<1>9. Cardinality(0 .. n - 1) = n
  <2>1. 0 \in Int /\ n - 1 \in Int
    BY <1>2
  <2>2. QED
    BY <1>2, <2>1, FS_Interval
<1>10. QED
  BY <1>7, <1>8, <1>9, FS_Bijection DEF P, ExistsBijection

(***************************************************************************)
(* Sums of SumFunctionOnSet.  The recursive function behind it takes the   *)
(* elements of a set in an order of its own, which the sum does not tell.  *)
(***************************************************************************)
\* What holds of {} and, of a set, whenever it holds of the set less any one of
\* its elements, holds of every subset.
LEMMA FiniteInduct ==
  ASSUME NEW S, IsFiniteSet(S), NEW B, {} \in B,
         \A s \in SUBSET S : s # {} /\ (\A x \in s : s \ {x} \in B) => s \in B
  PROVE  \A s \in SUBSET S : s \in B
<1> DEFINE N == Cardinality(S)
           G == {n \in 0 .. N : \A s \in SUBSET S : Cardinality(s) = n => s \in B}
<1>1. N \in Nat /\ \A s \in SUBSET S : IsFiniteSet(s) /\ Cardinality(s) \in 0 .. N
  <2>1. N \in Nat
    BY FS_CardinalityType
  <2>2. \A s \in SUBSET S : IsFiniteSet(s) /\ Cardinality(s) <= N
    BY FS_Subset
  <2> QED
    BY <2>1, <2>2, FS_CardinalityType
<1>2. 0 \in G
  <2>1. \A s \in SUBSET S : Cardinality(s) = 0 => s \in B
    BY <1>1, FS_EmptySet
  <2> QED
    BY <1>1, <2>1
<1>3. \A n \in 0 .. N - 1 : n \in G => n + 1 \in G
  <2> SUFFICES ASSUME NEW n \in 0 .. N - 1,
                      \A s \in SUBSET S : Cardinality(s) = n => s \in B,
                      NEW s \in SUBSET S, Cardinality(s) = n + 1
               PROVE  s \in B
    BY <1>1
  <2>1. s # {}
    <3>1. Cardinality({}) = 0 /\ n + 1 # 0
      BY <1>1, FS_EmptySet
    <3> QED
      BY <3>1
  <2>2. \A x \in s : Cardinality(s \ {x}) = n
    <3>1. \A x \in s : Cardinality(s \ {x}) = Cardinality(s) - 1
      BY <1>1, FS_RemoveElement
    <3> QED
      BY <3>1
  <2>3. \A x \in s : s \ {x} \in B
    BY <2>2
  <2> QED
    BY <2>1, <2>3
<1>4. \A n \in 0 .. N : n \in G
  <2> HIDE DEF G, N
  <2> QED
    BY <1>1, <1>2, <1>3, Induct
<1> QED
  BY <1>1, <1>4

\* Numbers at the elements of a finite set.
Numbers(f, S) == IsFiniteSet(S) /\ \A x \in S : f[x] \in Int

\* g sums f over every subset of S.
Chosen(s) == CHOOSE x \in s : TRUE
Sums(f, S, g) ==
  /\ g \in [SUBSET S -> Int]
  /\ g[{}] = 0
  /\ \A s \in SUBSET S : s # {} => g[s] = f[Chosen(s)] + g[s \ {Chosen(s)}]

\* The element CHOOSE takes of a set is in it.
LEMMA ChosenIn == ASSUME NEW s, s # {} PROVE Chosen(s) \in s
BY DEF Chosen

\* A sum is the value of such a function.
LEMMA SumDefined ==
  ASSUME NEW f, NEW S, Numbers(f, S)
  PROVE  \E g : Sums(f, S, g) /\ SumFunctionOnSet(f, S) = g[S]
<1> DEFINE F == [z \in S \X Int |-> f[z[1]] + z[2]]
           c == [s \in SUBSET S |-> Chosen(s)]
           Step(it) == [s \in SUBSET S |->
                          IF s = {} THEN 0
                          ELSE f[Chosen(s)] + it[s \ {Chosen(s)}]]
           iter == CHOOSE it : it = Step(it)
<1>1. SumFunctionOnSet(f, S) = iter[S]
  BY DEF SumFunctionOnSet, FoldFunctionOnSet, MapThenFoldSet, Chosen
<1>2. \A s \in SUBSET S : s # {} => c[s] = Chosen(s) /\ Chosen(s) \in s
  BY ChosenIn
<1>3. \A x \in S, v \in Int : F[<<x, v>>] = f[x] + v /\ F[<<x, v>>] \in Int
  BY DEF Numbers
<1> HIDE DEF F, c
<1>4. Choice(S, c) /\ Closed(S, Int, F) /\ 0 \in Int /\ IsFiniteSet(S)
  BY <1>2, <1>3 DEF Choice, Closed, Numbers
<1>5. PICK g : FoldsAll(S, Int, 0, F, c, g)
  BY <1>4, FoldDefined
<1>6. \A s \in SUBSET S : s # {} => g[s] = f[Chosen(s)] + g[s \ {Chosen(s)}]
  <2> TAKE s \in SUBSET S
  <2> HAVE s # {}
  <2>1. g[s] = F[<<c[s], g[s \ {c[s]}]>>] /\ c[s] = Chosen(s) /\ Chosen(s) \in S
        /\ g[s \ {c[s]}] \in Int
    BY <1>2, <1>5 DEF FoldsAll
  <2> QED
    BY <1>3, <2>1
<1>7. g = Step(g)
  BY <1>5, <1>6 DEF FoldsAll
<1>8. iter = Step(iter)
  BY <1>7
<1> HIDE DEF iter
<1>9. /\ iter = [s \in SUBSET S |-> iter[s]] /\ iter[{}] = 0
      /\ \A s \in SUBSET S : s # {} =>
           iter[s] = f[Chosen(s)] + iter[s \ {Chosen(s)}]
  BY <1>8
<1>10. \A s \in SUBSET S : iter[s] \in Int
  <2> DEFINE B == {s \in SUBSET S : iter[s] \in Int}
  <2>1. {} \in B
    BY <1>9
  <2>2. ASSUME NEW s \in SUBSET S, s # {}, \A x \in s : s \ {x} \in B
        PROVE  s \in B
    <3>1. Chosen(s) \in s /\ f[Chosen(s)] \in Int
      BY <2>2, ChosenIn DEF Numbers
    <3>2. iter[s \ {Chosen(s)}] \in Int
      BY <2>2, <3>1
    <3>3. iter[s] = f[Chosen(s)] + iter[s \ {Chosen(s)}]
      BY <1>9, <2>2
    <3> QED
      BY <3>1, <3>2, <3>3
  <2> HIDE DEF B
  <2>3. \A s \in SUBSET S : s \in B
    BY <1>4, <2>1, <2>2, FiniteInduct
  <2> QED
    BY <2>3 DEF B
<1>11. Sums(f, S, iter)
  BY <1>9, <1>10 DEF Sums
<1> QED
  BY <1>1, <1>11

\* Two such functions of numbers that agree, agree.
LEMMA SumsAgree ==
  ASSUME NEW f, NEW S, Numbers(f, S), NEW g, Sums(f, S, g),
         NEW e, NEW T \in SUBSET S, NEW h, Sums(e, T, h),
         \A x \in T : e[x] = f[x]
  PROVE  \A s \in SUBSET T : g[s] = h[s]
<1> DEFINE B == {s \in SUBSET T : g[s] = h[s]}
<1>1. {} \in B
  BY DEF Sums
<1>2. ASSUME NEW s \in SUBSET T, s # {}, \A x \in s : s \ {x} \in B
      PROVE  s \in B
  <2>1. Chosen(s) \in s /\ s \in SUBSET S
    BY <1>2, ChosenIn
  <2>2. g[s \ {Chosen(s)}] = h[s \ {Chosen(s)}]
    BY <1>2, <2>1
  <2>3. e[Chosen(s)] = f[Chosen(s)]
    BY <2>1
  <2>4. g[s] = f[Chosen(s)] + g[s \ {Chosen(s)}]
        /\ h[s] = e[Chosen(s)] + h[s \ {Chosen(s)}]
    BY <1>2, <2>1 DEF Sums
  <2> QED
    BY <2>2, <2>3, <2>4
<1>3. IsFiniteSet(T)
  BY FS_Subset DEF Numbers
<1>4. \A s \in SUBSET T : s \in B
  <2> HIDE DEF B
  <2> QED
    BY <1>1, <1>2, <1>3, FiniteInduct
<1> QED
  BY <1>4

\* In such a function any element may be taken out.
LEMMA SumsRemove ==
  ASSUME NEW f, NEW S, Numbers(f, S), NEW g, Sums(f, S, g)
  PROVE  \A s \in SUBSET S : \A x \in s : g[s] = f[x] + g[s \ {x}]
<1> DEFINE B == {s \in SUBSET S : \A x \in s : g[s] = f[x] + g[s \ {x}]}
<1>1. {} \in B
  OBVIOUS
<1>2. ASSUME NEW s \in SUBSET S, s # {}, \A x \in s : s \ {x} \in B
      PROVE  s \in B
  <2> SUFFICES ASSUME NEW x \in s PROVE g[s] = f[x] + g[s \ {x}]
    OBVIOUS
  <2> DEFINE p == Chosen(s)
  <2>1. p \in s /\ g[s] = f[p] + g[s \ {p}]
    BY <1>2, ChosenIn DEF Sums
  <2> HIDE DEF p
  <2>2. CASE x = p
    BY <2>1, <2>2
  <2>3. CASE x # p
    <3>1. s \ {p} \in B /\ x \in s \ {p} /\ s \ {x} \in B /\ p \in s \ {x}
      BY <1>2, <2>1, <2>3
    <3> DEFINE r == g[(s \ {p}) \ {x}]
    <3>2. (s \ {p}) \ {x} = (s \ {x}) \ {p}
      OBVIOUS
    <3>3. g[s \ {p}] = f[x] + r /\ g[s \ {x}] = f[p] + r
      BY <3>1, <3>2
    <3>4. f[x] \in Int /\ f[p] \in Int /\ r \in Int
      BY <2>1 DEF Numbers, Sums
    <3> HIDE DEF r
    <3> QED
      BY <2>1, <3>3, <3>4
  <2> QED
    BY <2>2, <2>3
<1>3. \A s \in SUBSET S : s \in B
  <2> HIDE DEF B
  <2> QED
    BY <1>1, <1>2, FiniteInduct DEF Numbers
<1> QED
  BY <1>3

\* A sum over nothing is 0; a sum is a number, and any element may be taken out.
LEMMA SumEmpty == ASSUME NEW f PROVE SumFunctionOnSet(f, {}) = 0
<1>1. Numbers(f, {})
  BY FS_EmptySet DEF Numbers
<1> QED
  BY <1>1, SumDefined DEF Sums

\* A sum of integers is an integer.
LEMMA SumType ==
  ASSUME NEW f, NEW S, Numbers(f, S)
  PROVE  SumFunctionOnSet(f, S) \in Int
<1>1. PICK g : Sums(f, S, g) /\ SumFunctionOnSet(f, S) = g[S]
  BY SumDefined
<1> QED
  BY <1>1 DEF Sums

\* Any summand may be taken out first.
LEMMA SumRemove ==
  ASSUME NEW f, NEW S, Numbers(f, S), NEW x \in S
  PROVE  /\ Numbers(f, S \ {x})
         /\ SumFunctionOnSet(f, S) = f[x] + SumFunctionOnSet(f, S \ {x})
<1>1. Numbers(f, S \ {x})
  BY FS_Subset DEF Numbers
<1>2. PICK g : Sums(f, S, g) /\ SumFunctionOnSet(f, S) = g[S]
  BY SumDefined
<1>3. PICK h : Sums(f, S \ {x}, h)
               /\ SumFunctionOnSet(f, S \ {x}) = h[S \ {x}]
  BY <1>1, SumDefined
<1>4. g[S \ {x}] = h[S \ {x}]
  <2>1. S \ {x} \in SUBSET S
    OBVIOUS
  <2>2. \A s \in SUBSET (S \ {x}) : g[s] = h[s]
    BY <1>2, <1>3, <2>1, SumsAgree
  <2> QED
    BY <2>2
<1>5. g[S] = f[x] + g[S \ {x}]
  BY <1>2, SumsRemove
<1> QED
  BY <1>1, <1>2, <1>3, <1>4, <1>5

\* Sums of the same numbers are the same.
LEMMA SumSame ==
  ASSUME NEW f, NEW S, Numbers(f, S), NEW e, \A x \in S : e[x] = f[x]
  PROVE  Numbers(e, S) /\ SumFunctionOnSet(e, S) = SumFunctionOnSet(f, S)
<1>1. Numbers(e, S)
  BY DEF Numbers
<1>2. PICK g : Sums(f, S, g) /\ SumFunctionOnSet(f, S) = g[S]
  BY SumDefined
<1>3. PICK h : Sums(e, S, h) /\ SumFunctionOnSet(e, S) = h[S]
  BY <1>1, SumDefined
<1>4. g[S] = h[S]
  BY <1>2, <1>3, SumsAgree
<1> QED
  BY <1>1, <1>2, <1>3, <1>4

\* One element more.
LEMMA SumAdd ==
  ASSUME NEW f, NEW S, Numbers(f, S), NEW x, x \notin S, f[x] \in Int
  PROVE  /\ Numbers(f, S \cup {x})
         /\ SumFunctionOnSet(f, S \cup {x}) = f[x] + SumFunctionOnSet(f, S)
<1>1. Numbers(f, S \cup {x})
  BY FS_AddElement DEF Numbers
<1>2. (S \cup {x}) \ {x} = S
  OBVIOUS
<1> QED
  BY <1>1, <1>2, SumRemove

\* Sums over two disjoint sets.
LEMMA SumUnion ==
  ASSUME NEW f, NEW S, NEW T, Numbers(f, S), Numbers(f, T), S \cap T = {}
  PROVE  /\ Numbers(f, S \cup T)
         /\ SumFunctionOnSet(f, S \cup T)
              = SumFunctionOnSet(f, S) + SumFunctionOnSet(f, T)
<1> DEFINE B == {s \in SUBSET T : SumFunctionOnSet(f, S \cup s)
                   = SumFunctionOnSet(f, S) + SumFunctionOnSet(f, s)}
<1>0. \A s \in SUBSET T : Numbers(f, s) /\ Numbers(f, S \cup s)
  BY FS_Subset, FS_Union DEF Numbers
<1>1. {} \in B
  <2>1. SumFunctionOnSet(f, {}) = 0 /\ S \cup {} = S
    BY SumEmpty
  <2>2. SumFunctionOnSet(f, S) \in Int
    BY SumType
  <2> QED
    BY <2>1, <2>2
<1>2. ASSUME NEW s \in SUBSET T, s # {}, \A x \in s : s \ {x} \in B
      PROVE  s \in B
  <2>1. PICK x \in s : TRUE
    BY <1>2
  <2>2. (S \cup s) \ {x} = S \cup (s \ {x})
    BY <2>1
  <2>3. SumFunctionOnSet(f, s) = f[x] + SumFunctionOnSet(f, s \ {x})
    <3>1. Numbers(f, s)
      BY <1>0
    <3> QED
      BY <2>1, <3>1, SumRemove
  <2>4. SumFunctionOnSet(f, S \cup s) = f[x] + SumFunctionOnSet(f, S \cup (s \ {x}))
    BY <1>0, <2>1, <2>2, SumRemove
  <2>5. SumFunctionOnSet(f, S \cup (s \ {x}))
          = SumFunctionOnSet(f, S) + SumFunctionOnSet(f, s \ {x})
    BY <1>2, <2>1
  <2>6. /\ SumFunctionOnSet(f, S) \in Int /\ f[x] \in Int
        /\ SumFunctionOnSet(f, s \ {x}) \in Int
    BY <1>0, <2>1, SumType DEF Numbers
  <2> QED
    BY <2>3, <2>4, <2>5, <2>6
<1>3. IsFiniteSet(T)
  BY DEF Numbers
<1>4. \A s \in SUBSET T : s \in B
  <2> HIDE DEF B
  <2> QED
    BY <1>1, <1>2, <1>3, FiniteInduct
<1> QED
  BY <1>0, <1>4

\* Sums of sums, of no more, and of multiples.
LEMMA SumPlus ==
  ASSUME NEW S, NEW f, NEW e, NEW h, Numbers(f, S), Numbers(e, S),
         \A x \in S : h[x] = f[x] + e[x]
  PROVE  /\ Numbers(h, S)
         /\ SumFunctionOnSet(h, S)
              = SumFunctionOnSet(f, S) + SumFunctionOnSet(e, S)
<1> DEFINE B == {s \in SUBSET S : SumFunctionOnSet(h, s)
                   = SumFunctionOnSet(f, s) + SumFunctionOnSet(e, s)}
<1>0. \A s \in SUBSET S : Numbers(f, s) /\ Numbers(e, s) /\ Numbers(h, s)
  BY FS_Subset DEF Numbers
<1>1. {} \in B
  BY SumEmpty
<1>2. ASSUME NEW s \in SUBSET S, s # {}, \A x \in s : s \ {x} \in B
      PROVE  s \in B
  <2>1. PICK x \in s : TRUE
    BY <1>2
  <2>2. Numbers(f, s) /\ Numbers(e, s) /\ Numbers(h, s) /\ x \in S
    BY <1>0, <2>1
  <2>3. /\ SumFunctionOnSet(h, s) = h[x] + SumFunctionOnSet(h, s \ {x})
        /\ SumFunctionOnSet(f, s) = f[x] + SumFunctionOnSet(f, s \ {x})
        /\ SumFunctionOnSet(e, s) = e[x] + SumFunctionOnSet(e, s \ {x})
    BY <2>1, <2>2, SumRemove
  <2>4. SumFunctionOnSet(h, s \ {x})
          = SumFunctionOnSet(f, s \ {x}) + SumFunctionOnSet(e, s \ {x})
    BY <1>2, <2>1
  <2>5. /\ f[x] \in Int /\ e[x] \in Int /\ h[x] = f[x] + e[x]
        /\ SumFunctionOnSet(f, s \ {x}) \in Int
        /\ SumFunctionOnSet(e, s \ {x}) \in Int
    <3>1. s \ {x} \in SUBSET S
      OBVIOUS
    <3>2. Numbers(f, s \ {x}) /\ Numbers(e, s \ {x})
      BY <1>0, <3>1
    <3> QED
      BY <2>2, <3>2, SumType DEF Numbers
  <2> QED
    BY <2>3, <2>4, <2>5
<1>3. IsFiniteSet(S)
  BY DEF Numbers
<1>4. \A s \in SUBSET S : s \in B
  <2> HIDE DEF B
  <2> QED
    BY <1>1, <1>2, <1>3, FiniteInduct
<1> QED
  BY <1>0, <1>4

\* Smaller summands have the smaller sum.
LEMMA SumBound ==
  ASSUME NEW S, NEW f, NEW e, Numbers(f, S), Numbers(e, S),
         \A x \in S : f[x] <= e[x]
  PROVE  SumFunctionOnSet(f, S) <= SumFunctionOnSet(e, S)
<1> DEFINE B == {s \in SUBSET S :
                   SumFunctionOnSet(f, s) <= SumFunctionOnSet(e, s)}
<1>0. \A s \in SUBSET S : Numbers(f, s) /\ Numbers(e, s)
  BY FS_Subset DEF Numbers
<1>1. {} \in B
  <2>1. SumFunctionOnSet(f, {}) = 0 /\ SumFunctionOnSet(e, {}) = 0
    BY SumEmpty
  <2> QED
    BY <2>1
<1>2. ASSUME NEW s \in SUBSET S, s # {}, \A x \in s : s \ {x} \in B
      PROVE  s \in B
  <2>1. PICK x \in s : TRUE
    BY <1>2
  <2>2. Numbers(f, s) /\ Numbers(e, s) /\ x \in S
    BY <1>0, <2>1
  <2>3. /\ SumFunctionOnSet(f, s) = f[x] + SumFunctionOnSet(f, s \ {x})
        /\ SumFunctionOnSet(e, s) = e[x] + SumFunctionOnSet(e, s \ {x})
    BY <2>1, <2>2, SumRemove
  <2>4. SumFunctionOnSet(f, s \ {x}) <= SumFunctionOnSet(e, s \ {x})
    BY <1>2, <2>1
  <2>5. /\ f[x] \in Int /\ e[x] \in Int /\ f[x] <= e[x]
        /\ SumFunctionOnSet(f, s \ {x}) \in Int
        /\ SumFunctionOnSet(e, s \ {x}) \in Int
    <3>1. s \ {x} \in SUBSET S
      OBVIOUS
    <3>2. Numbers(f, s \ {x}) /\ Numbers(e, s \ {x})
      BY <1>0, <3>1
    <3> QED
      BY <2>2, <3>2, SumType DEF Numbers
  <2> QED
    BY <2>3, <2>4, <2>5
<1>3. IsFiniteSet(S)
  BY DEF Numbers
<1>4. \A s \in SUBSET S : s \in B
  <2> HIDE DEF B
  <2> QED
    BY <1>1, <1>2, <1>3, FiniteInduct
<1> QED
  BY <1>4

\* A common factor may be taken out of a sum.
LEMMA SumScale ==
  ASSUME NEW S, NEW f, NEW c \in Int, NEW h, Numbers(f, S),
         \A x \in S : h[x] = c * f[x]
  PROVE  /\ Numbers(h, S)
         /\ SumFunctionOnSet(h, S) = c * SumFunctionOnSet(f, S)
<1> DEFINE B == {s \in SUBSET S :
                   SumFunctionOnSet(h, s) = c * SumFunctionOnSet(f, s)}
<1>0. \A s \in SUBSET S : Numbers(f, s) /\ Numbers(h, s)
  BY FS_Subset DEF Numbers
<1>1. {} \in B
  <2>1. SumFunctionOnSet(f, {}) = 0 /\ SumFunctionOnSet(h, {}) = 0
    BY SumEmpty
  <2> QED
    BY <2>1
<1>2. ASSUME NEW s \in SUBSET S, s # {}, \A x \in s : s \ {x} \in B
      PROVE  s \in B
  <2>1. PICK x \in s : TRUE
    BY <1>2
  <2>2. Numbers(f, s) /\ Numbers(h, s) /\ x \in S
    BY <1>0, <2>1
  <2> DEFINE r == SumFunctionOnSet(f, s \ {x})
  <2>3. /\ SumFunctionOnSet(h, s) = h[x] + SumFunctionOnSet(h, s \ {x})
        /\ SumFunctionOnSet(f, s) = f[x] + r
    BY <2>1, <2>2, SumRemove
  <2>4. SumFunctionOnSet(h, s \ {x}) = c * r
    BY <1>2, <2>1
  <2>5. f[x] \in Int /\ h[x] = c * f[x] /\ r \in Int
    <3>1. s \ {x} \in SUBSET S
      OBVIOUS
    <3>2. Numbers(f, s \ {x})
      BY <1>0, <3>1
    <3> QED
      BY <2>2, <3>2, SumType DEF Numbers
  <2> HIDE DEF r
  <2>6. c * (f[x] + r) = c * f[x] + c * r
    BY <2>5
  <2> QED
    BY <2>3, <2>4, <2>5, <2>6
<1>3. IsFiniteSet(S)
  BY DEF Numbers
<1>4. \A s \in SUBSET S : s \in B
  <2> HIDE DEF B
  <2> QED
    BY <1>1, <1>2, <1>3, FiniteInduct
<1> QED
  BY <1>0, <1>4

\* A sum under other names of the elements.
Renames(A, T, e, f, h) ==
  /\ IsFiniteSet(A)
  /\ \A x \in A : e[x] \in T /\ f[e[x]] \in Int /\ h[x] = f[e[x]]
  /\ \A x, y \in A : e[x] = e[y] => x = y
  /\ \A z \in T : \E x \in A : e[x] = z

\* Summing over other names of the elements gives the same.
LEMMA SumRename ==
  ASSUME NEW A, NEW T, NEW e, NEW f, NEW h, Renames(A, T, e, f, h)
  PROVE  /\ Numbers(f, T) /\ Numbers(h, A)
         /\ SumFunctionOnSet(h, A) = SumFunctionOnSet(f, T)
<1> SUFFICES ASSUME IsFiniteSet(A),
                    \A x \in A : e[x] \in T /\ f[e[x]] \in Int /\ h[x] = f[e[x]],
                    \A x, y \in A : e[x] = e[y] => x = y,
                    \A z \in T : \E x \in A : e[x] = z
             PROVE  /\ Numbers(f, T) /\ Numbers(h, A)
                    /\ SumFunctionOnSet(h, A) = SumFunctionOnSet(f, T)
  BY DEF Renames
<1> DEFINE Image(s) == {e[x] : x \in s}
           B == {s \in SUBSET A : /\ IsFiniteSet(Image(s))
                                  /\ SumFunctionOnSet(h, s)
                                       = SumFunctionOnSet(f, Image(s))}
<1>0. \A s \in SUBSET A : Numbers(h, s)
  BY FS_Subset DEF Numbers
<1>1. {} \in B
  <2>1. Image({}) = {}
    OBVIOUS
  <2> QED
    BY <2>1, SumEmpty, FS_EmptySet
<1>2. ASSUME NEW s \in SUBSET A, s # {}, \A x \in s : s \ {x} \in B
      PROVE  s \in B
  <2>1. PICK x \in s : TRUE
    BY <1>2
  <2>2. Image(s) = Image(s \ {x}) \cup {e[x]} /\ e[x] \notin Image(s \ {x})
    BY <2>1
  <2>3. /\ IsFiniteSet(Image(s \ {x}))
        /\ SumFunctionOnSet(h, s \ {x}) = SumFunctionOnSet(f, Image(s \ {x}))
    BY <1>2, <2>1
  <2>4. Numbers(f, Image(s \ {x})) /\ f[e[x]] \in Int
    BY <2>1, <2>3 DEF Numbers
  <2> DEFINE I == Image(s \ {x})
  <2> HIDE DEF I
  <2>5. /\ Numbers(f, I \cup {e[x]})
        /\ SumFunctionOnSet(f, I \cup {e[x]}) = f[e[x]] + SumFunctionOnSet(f, I)
    BY <2>2, <2>4, SumAdd DEF I
  <2>6. SumFunctionOnSet(h, s) = h[x] + SumFunctionOnSet(h, s \ {x})
    <3>1. Numbers(h, s)
      BY <1>0
    <3> QED
      BY <2>1, <3>1, SumRemove
  <2>7. IsFiniteSet(Image(s))
    BY <2>2, <2>5 DEF Numbers, I
  <2>8. h[x] = f[e[x]]
    BY <2>1
  <2>9. SumFunctionOnSet(h, s) = SumFunctionOnSet(f, Image(s))
    BY <2>2, <2>3, <2>5, <2>6, <2>8 DEF I
  <2> QED
    BY <2>7, <2>9
<1>4. \A s \in SUBSET A : s \in B
  <2> HIDE DEF B
  <2> QED
    BY <1>1, <1>2, FiniteInduct
<1>5. Image(A) = T
  OBVIOUS
<1>6. IsFiniteSet(T) /\ SumFunctionOnSet(h, A) = SumFunctionOnSet(f, T)
  BY <1>4, <1>5
<1>7. \A z \in T : f[z] \in Int
  OBVIOUS
<1> QED
  BY <1>0, <1>6, <1>7 DEF Numbers

\* A sum over pairs is the sum of the sums of its rows.
PairsOf(I, X) == UNION {{<<i, x>> : x \in X[i]} : i \in I}

\* Line i has the values of f with i, and row[i] is its sum.
Lines(I, X, f, line, row) ==
  /\ IsFiniteSet(I)
  /\ \A i \in I : /\ IsFiniteSet(X[i])
                  /\ \A x \in X[i] : /\ f[<<i, x>>] \in Int
                                     /\ line[i][x] = f[<<i, x>>]
                  /\ row[i] = SumFunctionOnSet(line[i], X[i])

\* A sum over pairs is the sum, over the first parts, of the sums of the lines.
LEMMA SumRows ==
  ASSUME NEW I, NEW X, NEW f, NEW line, NEW row, Lines(I, X, f, line, row)
  PROVE  /\ Numbers(f, PairsOf(I, X)) /\ Numbers(row, I)
         /\ SumFunctionOnSet(f, PairsOf(I, X)) = SumFunctionOnSet(row, I)
<1> DEFINE B == {s \in SUBSET I : /\ Numbers(f, PairsOf(s, X))
                                  /\ SumFunctionOnSet(f, PairsOf(s, X))
                                       = SumFunctionOnSet(row, s)}
           places(i) == {<<i, x>> : x \in X[i]}
<1>1. \A i \in I : Numbers(f, places(i)) /\ SumFunctionOnSet(f, places(i)) = row[i]
  <2> TAKE i \in I
  <2> DEFINE e == [x \in X[i] |-> <<i, x>>]
             h == line[i]
  <2>1. /\ \A x \in X[i] : e[x] \in places(i) /\ f[e[x]] \in Int /\ h[x] = f[e[x]]
        /\ \A x, y \in X[i] : e[x] = e[y] => x = y
        /\ \A z \in places(i) : \E x \in X[i] : e[x] = z
    BY DEF Lines
  <2>2. IsFiniteSet(X[i]) /\ row[i] = SumFunctionOnSet(h, X[i])
    BY DEF Lines
  <2> HIDE DEF e, h, places
  <2> QED
    BY <2>1, <2>2, SumRename DEF Renames
<1>2. Numbers(row, I)
  <2>1. \A i \in I : row[i] \in Int
    <3> HIDE DEF places
    <3> QED
      BY <1>1, SumType
  <2> QED
    BY <2>1 DEF Numbers, Lines
<1>3. {} \in B
  <2>1. PairsOf({}, X) = {}
    BY DEF PairsOf
  <2> QED
    BY <2>1, SumEmpty, FS_EmptySet DEF Numbers
<1>4. ASSUME NEW s \in SUBSET I, s # {}, \A i \in s : s \ {i} \in B
      PROVE  s \in B
  <2>1. PICK i \in s : TRUE
    BY <1>4
  <2>2. /\ PairsOf(s, X) = PairsOf(s \ {i}, X) \cup places(i)
        /\ PairsOf(s \ {i}, X) \cap places(i) = {}
    BY <2>1 DEF PairsOf
  <2>3. Numbers(f, places(i)) /\ SumFunctionOnSet(f, places(i)) = row[i]
    BY <1>1, <2>1
  <2>4. /\ Numbers(f, PairsOf(s \ {i}, X))
        /\ SumFunctionOnSet(f, PairsOf(s \ {i}, X)) = SumFunctionOnSet(row, s \ {i})
    BY <1>4, <2>1
  <2> HIDE DEF places
  <2>5. /\ Numbers(f, PairsOf(s, X))
        /\ SumFunctionOnSet(f, PairsOf(s, X))
             = SumFunctionOnSet(f, PairsOf(s \ {i}, X)) + row[i]
    <3> DEFINE P == PairsOf(s \ {i}, X)
               Q == places(i)
    <3>1. Numbers(f, P) /\ Numbers(f, Q) /\ P \cap Q = {}
      BY <2>2, <2>3, <2>4
    <3>2. PairsOf(s, X) = P \cup Q
      BY <2>2
    <3> HIDE DEF P, Q
    <3>3. /\ Numbers(f, P \cup Q)
          /\ SumFunctionOnSet(f, P \cup Q)
               = SumFunctionOnSet(f, P) + SumFunctionOnSet(f, Q)
      BY <3>1, SumUnion
    <3> QED
      BY <2>3, <3>2, <3>3 DEF P, Q
  <2>6. Numbers(row, s)
    BY <1>2, FS_Subset DEF Numbers
  <2>7. /\ SumFunctionOnSet(row, s) = row[i] + SumFunctionOnSet(row, s \ {i})
        /\ Numbers(row, s \ {i})
    BY <2>1, <2>6, SumRemove
  <2>8. row[i] \in Int /\ SumFunctionOnSet(row, s \ {i}) \in Int
    BY <2>1, <2>6, <2>7, SumType DEF Numbers
  <2> QED
    BY <2>4, <2>5, <2>7, <2>8
<1>5. \A s \in SUBSET I : s \in B
  <2> HIDE DEF B
  <2> QED
    BY <1>3, <1>4, FiniteInduct DEF Lines
<1> QED
  BY <1>2, <1>5

\* Sums over the first positions of a sequence.
LEMMA SumNext ==
  ASSUME NEW n \in Nat, NEW f, \A i \in 1 .. n + 1 : f[i] \in Int
  PROVE  /\ Numbers(f, 1 .. n + 1) /\ Numbers(f, 1 .. n)
         /\ SumFunctionOnSet(f, 1 .. n + 1)
              = f[n + 1] + SumFunctionOnSet(f, 1 .. n)
<1>1. (1 .. n + 1) \ {n + 1} = 1 .. n /\ n + 1 \in 1 .. n + 1
  OBVIOUS
<1>2. Numbers(f, 1 .. n + 1)
  <2>1. 1 \in Int /\ n + 1 \in Int
    OBVIOUS
  <2> QED
    BY <2>1, FS_Interval DEF Numbers
<1> QED
  BY <1>1, <1>2, SumRemove

\* A sum of ones counts, and a sum of constants multiplies.
LEMMA SumConstant ==
  ASSUME NEW S, IsFiniteSet(S), NEW c \in Int, NEW f, \A x \in S : f[x] = c
  PROVE  Numbers(f, S) /\ SumFunctionOnSet(f, S) = c * Cardinality(S)
<1> DEFINE B == {s \in SUBSET S : SumFunctionOnSet(f, s) = c * Cardinality(s)}
<1>0. \A s \in SUBSET S : Numbers(f, s) /\ IsFiniteSet(s)
  BY FS_Subset DEF Numbers
<1>1. {} \in B
  <2>1. SumFunctionOnSet(f, {}) = 0 /\ Cardinality({}) = 0
    BY SumEmpty, FS_EmptySet
  <2> QED
    BY <2>1
<1>2. ASSUME NEW s \in SUBSET S, s # {}, \A x \in s : s \ {x} \in B
      PROVE  s \in B
  <2>1. PICK x \in s : TRUE
    BY <1>2
  <2>2. Numbers(f, s) /\ f[x] = c /\ IsFiniteSet(s)
    BY <1>0, <2>1
  <2>3. SumFunctionOnSet(f, s) = f[x] + SumFunctionOnSet(f, s \ {x})
    BY <2>1, <2>2, SumRemove
  <2>4. SumFunctionOnSet(f, s \ {x}) = c * Cardinality(s \ {x})
    BY <1>2, <2>1
  <2> DEFINE n == Cardinality(s)
  <2>5. Cardinality(s \ {x}) = n - 1 /\ n \in Nat
    BY <2>1, <2>2, FS_RemoveElement, FS_CardinalityType
  <2> HIDE DEF n
  <2>6. c * (n - 1) = c * n - c
    BY <2>5
  <2>7. SumFunctionOnSet(f, s) = c * n
    BY <2>2, <2>3, <2>4, <2>5, <2>6
  <2> QED
    BY <2>7 DEF n
<1>4. \A s \in SUBSET S : s \in B
  <2> HIDE DEF B
  <2> QED
    BY <1>1, <1>2, FiniteInduct
<1> QED
  BY <1>0, <1>4

\* The greatest element of a set of positions.
LEMMA MaxPosition ==
  ASSUME NEW N \in Nat, NEW T \in SUBSET (1 .. N), T # {}
  PROVE  Max(T) \in T /\ \A y \in T : y <= Max(T)
<1>1. T \subseteq 0 .. N
  OBVIOUS
<1>2. \E x \in T : \A y \in T : x >= y
  BY <1>1, GreatestNat
<1>3. Max(T) \in T /\ \A y \in T : Max(T) >= y
  BY <1>2 DEF Max
<1>4. QED
  BY <1>1, <1>3

\* The greatest position of an initial segment is its length.
LEMMA MaxOfPrefix ==
  ASSUME NEW n \in Nat, n # 0
  PROVE  /\ Max(1 .. n) = n
         /\ (1 .. n) \ {n} = 1 .. n - 1
         /\ 1 .. n # {}
<1>1. n \in 1 .. n /\ 1 .. n \in SUBSET (1 .. n)
  OBVIOUS
<1>2. Max(1 .. n) \in 1 .. n /\ n <= Max(1 .. n)
  BY <1>1, MaxPosition
<1>3. QED
  BY <1>1, <1>2

\* g folds the positions from 1 on, each after those before it.
FoldsLeft(D, V, b, F, g) ==
  /\ g \in [SUBSET D -> V]
  /\ g[{}] = b
  /\ \A s \in SUBSET D : s # {} => g[s] = F[<<Max(s), g[s \ {Max(s)}]>>]

\* A fold over the positions of a sequence is well defined.
LEMMA FoldPositions ==
  ASSUME NEW N \in Nat, NEW D, D = 1 .. N, NEW V, NEW b \in V, NEW F,
         Closed(D, V, F)
  PROVE  \E g : FoldsLeft(D, V, b, F, g)
<1> DEFINE c == [s \in SUBSET D |-> Max(s)]
<1>1. IsFiniteSet(D)
  BY FS_Interval
<1>2. \A s \in SUBSET D : s # {} => c[s] = Max(s) /\ Max(s) \in s
  BY MaxPosition
<1>3. Choice(D, c)
  BY <1>2 DEF Choice
<1> HIDE DEF c
<1>5. PICK g : FoldsAll(D, V, b, F, c, g)
  BY <1>1, <1>3, FoldDefined
<1>6. \A s \in SUBSET D : s # {} => g[s] = F[<<Max(s), g[s \ {Max(s)}]>>]
  BY <1>2, <1>5 DEF FoldsAll
<1>7. QED
  BY <1>5, <1>6 DEF FoldsAll, FoldsLeft

(***************************************************************************)
(* Quotients, and first elements of finite sets.                           *)
(***************************************************************************)
\* Quotient and remainder of a number that is put together from them.
LEMMA Split ==
  ASSUME NEW n \in Nat \ {0}, NEW q \in Nat, NEW r \in 0 .. n - 1
  PROVE  (q * n + r) \div n = q /\ (q * n + r) % n = r
OBVIOUS

\* A number is put together from its quotient and remainder.
LEMMA Whole ==
  ASSUME NEW n \in Nat \ {0}, NEW a \in Nat
  PROVE  /\ a \div n \in Nat /\ a % n \in 0 .. n - 1
         /\ a = (a \div n) * n + (a % n)
<1>1. a \div n \in Nat
  OBVIOUS
<1>2. a % n \in 0 .. n - 1
  OBVIOUS
<1>3. a = (a \div n) * n + (a % n)
  OBVIOUS
<1> QED
  BY <1>1, <1>2, <1>3

\* Numbers below q wholes are those whose quotient is below q.
LEMMA BelowProduct ==
  ASSUME NEW n \in Nat \ {0}, NEW q \in Nat, NEW a \in Nat
  PROVE  a < q * n <=> a \div n < q
OBVIOUS

\* Under a strict total order a finite set has a first element.
LEMMA FirstInOrder ==
  ASSUME NEW S, IsFiniteSet(S), S # {}, NEW R,
         \A x \in S : <<x, x>> \notin R,
         \A x, y, z \in S : <<x, y>> \in R /\ <<y, z>> \in R => <<x, z>> \in R,
         \A x, y \in S : x # y => <<x, y>> \in R \/ <<y, x>> \in R
  PROVE  \E x \in S : \A y \in S \ {x} : <<x, y>> \in R
<1>1. /\ Cardinality(S) \in Nat
      /\ \A x \in S : Rank(S, R, x) \in 0 .. Cardinality(S) - 1
      /\ \A x, y \in S : Rank(S, R, x) = Rank(S, R, y) => x = y
      /\ \A x, y \in S : <<x, y>> \in R <=> Rank(S, R, x) < Rank(S, R, y)
      /\ \A n \in 0 .. Cardinality(S) - 1 : \E x \in S : Rank(S, R, x) = n
  BY Ranks
<1>2. Cardinality(S) # 0
  BY FS_EmptySet
<1>3. PICK x \in S : Rank(S, R, x) = 0
  BY <1>1, <1>2
<1>4. \A y \in S \ {x} : Rank(S, R, x) < Rank(S, R, y)
  BY <1>1, <1>3
<1> QED
  BY <1>1, <1>4

\* A finite set of numbers has a least one and a greatest one.
LEMMA MinNumber ==
  ASSUME NEW S, IsFiniteSet(S), S # {}, S \subseteq Int
  PROVE  Min(S) \in S /\ \A y \in S : Min(S) <= y
<1> DEFINE R == {r \in S \X S : r[1] < r[2]}
<1>1. \A x, y \in S : <<x, y>> \in R <=> x < y
  OBVIOUS
<1> HIDE DEF R
<1>2. /\ \A x \in S : <<x, x>> \notin R
      /\ \A x, y, z \in S : <<x, y>> \in R /\ <<y, z>> \in R => <<x, z>> \in R
      /\ \A x, y \in S : x # y => <<x, y>> \in R \/ <<y, x>> \in R
  BY <1>1
<1>3. \E x \in S : \A y \in S \ {x} : <<x, y>> \in R
  BY <1>2, FirstInOrder
<1>4. \E x \in S : \A y \in S : x <= y
  <2>1. PICK x \in S : \A y \in S \ {x} : <<x, y>> \in R
    BY <1>3
  <2>2. ASSUME NEW y \in S PROVE x <= y
    <3>1. x \in Int /\ y \in Int
      OBVIOUS
    <3>2. CASE y # x
      <4>1. <<x, y>> \in R
        BY <2>1, <3>2
      <4>2. x < y
        BY <1>1, <4>1
      <4> QED
        BY <3>1, <4>2
    <3> QED
      BY <3>1, <3>2
  <2> QED
    BY <2>2
<1> QED
  BY <1>4 DEF Min

\* A finite set of integers has a greatest element.
LEMMA MaxNumber ==
  ASSUME NEW S, IsFiniteSet(S), S # {}, S \subseteq Int
  PROVE  Max(S) \in S /\ \A y \in S : y <= Max(S)
<1> DEFINE R == {r \in S \X S : r[1] > r[2]}
<1>1. \A x, y \in S : <<x, y>> \in R <=> x > y
  OBVIOUS
<1> HIDE DEF R
<1>2. /\ \A x \in S : <<x, x>> \notin R
      /\ \A x, y, z \in S : <<x, y>> \in R /\ <<y, z>> \in R => <<x, z>> \in R
      /\ \A x, y \in S : x # y => <<x, y>> \in R \/ <<y, x>> \in R
  BY <1>1
<1>3. \E x \in S : \A y \in S \ {x} : <<x, y>> \in R
  BY <1>2, FirstInOrder
<1>4. \E x \in S : \A y \in S : x >= y
  <2>1. PICK x \in S : \A y \in S \ {x} : <<x, y>> \in R
    BY <1>3
  <2>2. ASSUME NEW y \in S PROVE x >= y
    <3>1. x \in Int /\ y \in Int
      OBVIOUS
    <3>2. CASE y # x
      <4>1. <<x, y>> \in R
        BY <2>1, <3>2
      <4>2. x > y
        BY <1>1, <4>1
      <4> QED
        BY <3>1, <4>2
    <3> QED
      BY <3>1, <3>2
  <2> QED
    BY <2>2
<1>5. Max(S) \in S /\ \A y \in S : Max(S) >= y
  BY <1>4 DEF Max
<1> QED
  BY <1>5

\* What the elements of a finite set are mapped to is finite.
LEMMA ImageFinite ==
  ASSUME NEW A, IsFiniteSet(A), NEW e
  PROVE  IsFiniteSet({e[x] : x \in A})
<1> DEFINE T == {e[x] : x \in A}
           f == [x \in A |-> e[x]]
<1>1. f \in [A -> T] /\ \A y \in T : \E x \in A : f[x] = y
  OBVIOUS
<1> HIDE DEF T, f
<1>2. f \in Surjection(A, T)
  BY <1>1 DEF Surjection
<1>3. IsFiniteSet(T)
  BY <1>2, FS_Surjection
<1> QED
  BY <1>3 DEF T
=============================================================================

-------------------------- MODULE AioRefiner_proofs --------------------------
(***************************************************************************)
(* What refine() promises for every request, queue depth and limit of open *)
(* files, whatever the kernel does: the plans read the candidates, each    *)
(* operation has its slot and its file until it is complete, the next call *)
(* finds nothing of this one, and what is returned is exact.  The invariant *)
(* follows a plan from the window to a slot, through the kernel and the    *)
(* completion queue to the heap: a slot is in one of these places, its buffer *)
(* holds the pages of its plan from the completion on, and the heap has the *)
(* best of the plans that are through.                                     *)
(***************************************************************************)
EXTENDS AioRefiner, OrderLemmas

\* The order of the places is a strict total order.
LEMMA PlaceOrder ==
  /\ \A x \in Nat \X Nat : ~Before(x, x)
  /\ \A x, y, z \in Nat \X Nat : Before(x, y) /\ Before(y, z) => Before(x, z)
  /\ \A x, y \in Nat \X Nat : x # y => Before(x, y) \/ Before(y, x)
BY DEF Before

\* The candidates are sorted: each once, in the order of their places.
LEMMA SortedPlaces ==
  ASSUME NEW c, c \subseteq Nat \X Nat, IsFiniteSet(c)
  PROVE  /\ Cardinality(c) \in Nat
         /\ Sorted(c, Before) \in [1 .. Cardinality(c) -> c]
         /\ \A j, k \in 1 .. Cardinality(c) :
              j < k => Before(Sorted(c, Before)[j], Sorted(c, Before)[k])
         /\ \A x \in c : \E k \in 1 .. Cardinality(c) : Sorted(c, Before)[k] = x
<1> DEFINE R == {p \in c \X c : Before(p[1], p[2])}
           N == Cardinality(c)
           s == Sorted(c, Before)
<1>1. \A x, y \in c : <<x, y>> \in R <=> Before(x, y)
  OBVIOUS
<1>2. /\ \A x \in c : <<x, x>> \notin R
      /\ \A x, y, z \in c : <<x, y>> \in R /\ <<y, z>> \in R => <<x, z>> \in R
      /\ \A x, y \in c : x # y => <<x, y>> \in R \/ <<y, x>> \in R
  <2> HIDE DEF R
  <2>1. QED
    BY <1>1, PlaceOrder
<1>3. \A x \in c : Cardinality({y \in c : Before(y, x)}) = Rank(c, R, x)
  <2> TAKE x \in c
  <2>1. {y \in c : Before(y, x)} = {y \in c : <<y, x>> \in R}
    BY <1>1
  <2>2. QED
    BY <2>1 DEF Rank
<1> HIDE DEF R
<1>4. /\ N \in Nat
      /\ \A x \in c : Rank(c, R, x) \in 0 .. N - 1
      /\ \A x, y \in c : <<x, y>> \in R <=> Rank(c, R, x) < Rank(c, R, y)
      /\ \A n \in 0 .. N - 1 : \E x \in c : Rank(c, R, x) = n
      /\ \A x, y \in c : Rank(c, R, x) = Rank(c, R, y) => x = y
  BY <1>2, Ranks
<1>5. \A n \in 1 .. N : s[n] \in c /\ Rank(c, R, s[n]) = n - 1
  <2> TAKE n \in 1 .. N
  <2>1. s[n] = CHOOSE x \in c : Cardinality({y \in c : Before(y, x)}) = n - 1
    BY DEF Sorted
  <2>2. n - 1 \in 0 .. N - 1
    BY <1>4
  <2>3. \E x \in c : Cardinality({y \in c : Before(y, x)}) = n - 1
    BY <1>3, <1>4, <2>2
  <2>4. s[n] \in c /\ Cardinality({y \in c : Before(y, s[n])}) = n - 1
    BY <2>1, <2>3
  <2>5. QED
    BY <1>3, <2>4
<1>6. s \in [1 .. N -> c]
  <2>1. s = [n \in 1 .. N |-> CHOOSE x \in c : Cardinality({y \in c : Before(y, x)}) = n - 1]
    BY Zenon DEF Sorted
  <2>2. s = [n \in 1 .. N |-> s[n]]
    BY <2>1
  <2> HIDE DEF s
  <2>3. QED
    BY <1>5, <2>2
<1> HIDE DEF s
<1>7. \A j, k \in 1 .. N : j < k => Before(s[j], s[k])
  <2> TAKE j, k \in 1 .. N
  <2> HAVE j < k
  <2>1. Rank(c, R, s[j]) < Rank(c, R, s[k])
    BY <1>4, <1>5
  <2>2. QED
    BY <1>1, <1>4, <1>5, <2>1
<1>8. \A x \in c : \E k \in 1 .. N : s[k] = x
  <2> TAKE x \in c
  <2>1. Rank(c, R, x) + 1 \in 1 .. N
    BY <1>4
  <2>2. Rank(c, R, s[Rank(c, R, x) + 1]) = Rank(c, R, x)
    BY <1>4, <1>5, <2>1
  <2>3. QED
    BY <1>4, <1>5, <2>1, <2>2
<1>9. QED
  BY <1>4, <1>6, <1>7, <1>8 DEF s

(***************************************************************************)
(* build_read_plans.                                                       *)
(***************************************************************************)
\* Multiplication keeps the order.
LEMMA Multiples ==
  ASSUME NEW r \in Nat
  PROVE  \A m, n \in Int : m <= n => m * r <= n * r
<1> TAKE m, n \in Int
<1> HAVE m <= n
<1>1. n - m \in Nat /\ (n - m) * r >= 0
  OBVIOUS
<1>2. n * r = m * r + (n - m) * r
  OBVIOUS
<1>3. QED
  BY <1>1, <1>2

\* Division with remainder.
LEMMA Division ==
  ASSUME NEW r \in Nat \ {0}, NEW n \in Nat
  PROVE  \E d \in Nat : \E m \in 0 .. r - 1 :
           d = n \div r /\ m = n % r /\ n = d * r + m
<1>1. n \div r \in Nat /\ n % r \in 0 .. r - 1
  OBVIOUS
<1>2. r * (n \div r) + (n % r) = n
  BY Z3
<1>3. PICK d \in Nat, m \in Nat :
        m \in 0 .. r - 1 /\ d = n \div r /\ m = n % r /\ r * d + m = n
  BY <1>1, <1>2
<1>4. r * d = d * r
  OBVIOUS
<1>5. QED
  BY <1>3, <1>4

\* There is one quotient.
LEMMA Quotient ==
  ASSUME NEW R \in Nat \ {0}, NEW n \in Nat, NEW q \in Int, NEW r \in 0 .. R - 1,
         n = q * R + r
  PROVE  n \div R = q
<1>1. PICK d \in Nat, m \in Nat :
        m \in 0 .. R - 1 /\ d = n \div R /\ n = d * R + m
  BY Division
<1>2. R \in Nat /\ d * R \in Int /\ q * R \in Int
      /\ (d + 1) * R = d * R + R /\ (q + 1) * R = q * R + R
  BY <1>1
<1>3. ~(d < q)
  <2> SUFFICES ASSUME d < q PROVE FALSE
    OBVIOUS
  <2>1. (d + 1) * R <= q * R
    <3>1. d + 1 \in Int /\ d + 1 <= q
      BY <1>1
    <3>2. QED
      BY <1>2, <3>1, Multiples
  <2>2. QED
    BY <1>1, <1>2, <2>1
<1>4. ~(q < d)
  <2> SUFFICES ASSUME q < d PROVE FALSE
    OBVIOUS
  <2>1. (q + 1) * R <= d * R
    <3>1. d \in Int /\ q + 1 \in Int /\ q + 1 <= d
      BY <1>1
    <3>2. QED
      BY <1>2, <3>1, Multiples
  <2>2. QED
    BY <1>1, <1>2, <2>1
<1>5. QED
  BY <1>1, <1>3, <1>4

\* Pages are natural numbers.
LEMMA PageType ==
  ASSUME NEW x \in Nat \X Nat
  PROVE  Page(x) \in Nat
BY AioConstants DEF Page

\* Pages follow the order of the places.
LEMMA PagesInOrder ==
  ASSUME NEW m \in Nat, NEW n \in Nat, m <= n
  PROVE  m \div RecordsPerPage <= n \div RecordsPerPage
<1> DEFINE R == RecordsPerPage
<1>1. R \in Nat \ {0}
  BY AioConstants
<1> HIDE DEF R
<1>2. PICK d \in Nat, e \in Nat :
        e \in 0 .. R - 1 /\ d = m \div R /\ m = d * R + e
  BY <1>1, Division
<1>3. PICK q \in Nat, r \in Nat :
        r \in 0 .. R - 1 /\ q = n \div R /\ n = q * R + r
  BY <1>1, Division
<1> SUFFICES ASSUME q < d PROVE FALSE
  BY <1>2, <1>3 DEF R
<1>4. (q + 1) * R <= d * R
  <2>1. d \in Int /\ q + 1 \in Int /\ q + 1 <= d
    BY <1>2, <1>3
  <2>2. QED
    BY <1>1, <2>1, Multiples
<1>5. R \in Nat /\ d * R \in Int /\ q * R \in Int /\ (q + 1) * R = q * R + R
  BY <1>1
<1>6. QED
  BY <1>2, <1>3, <1>4, <1>5

\* The request for the pages from first on, with the items to take from them.
Plan == [list : Nat, first : Nat, pages : Nat \ {0}, items : SUBSET Int]

\* The items of a plan lie on its pages, and each page has one.
WholePlan(p) ==
  /\ p.items \subseteq 0 .. p.pages * RecordsPerPage - 1
  /\ \A g \in p.first .. LastPage(p) :
       \E i \in p.items : p.first + i \div RecordsPerPage = g

\* Plan q begins behind plan p, and could not have been merged with it.
Behind(p, q) ==
  p.list < q.list \/ (p.list = q.list /\ LastPage(p) + 1 < q.first)

\* The plans read the places X, no less and no more.
Built(plans, X) ==
  /\ plans \in Seq(Plan)
  /\ \A k \in 1 .. Len(plans) : WholePlan(plans[k])
  /\ \A j, k \in 1 .. Len(plans) : j < k => Behind(plans[j], plans[k])
  /\ \A k \in 1 .. Len(plans) : \A i \in plans[k].items : BytesAt(plans[k], i) \in X
  /\ \A y \in X : \E k \in 1 .. Len(plans) : \E i \in plans[k].items :
       BytesAt(plans[k], i) = y

\* The last page to be read is that of place y.
EndsAt(plans, y) ==
  plans # <<>> /\ y[1] = Last(plans).list /\ Page(y) = LastPage(Last(plans))

\* The item of place x in a request that begins at page g.
ItemOf(x, g) == (Page(x) - g) * RecordsPerPage + (x[2] % RecordsPerPage)

\* An item is where the record is, and on the page of the record.
LEMMA ItemFacts ==
  ASSUME NEW x \in Nat \X Nat, NEW g \in Nat, g <= Page(x)
  PROVE  /\ Page(x) \in Nat /\ ItemOf(x, g) \in Nat
         /\ g * RecordsPerPage + ItemOf(x, g) = x[2]
         /\ g + ItemOf(x, g) \div RecordsPerPage = Page(x)
         /\ ItemOf(x, g) <= (Page(x) - g + 1) * RecordsPerPage - 1
<1> DEFINE R == RecordsPerPage
           s == x[2]
<1>1. R \in Nat \ {0} /\ s \in Nat
  BY AioConstants
<1>2. Page(x) = s \div R /\ ItemOf(x, g) = (Page(x) - g) * R + (s % R)
  BY DEF Page, ItemOf
<1> HIDE DEF R, s
<1>2a. PICK d \in Nat, r \in Nat :
        r \in 0 .. R - 1 /\ d = s \div R /\ r = s % R /\ s = d * R + r
  BY <1>1, Division
<1>3. Page(x) = d /\ ItemOf(x, g) = (d - g) * R + r
  BY <1>2, <1>2a
<1>4. PICK q \in Nat : q = d - g /\ d = g + q
  BY <1>3
<1>5. R \in Nat /\ q * R \in Nat /\ g * R \in Nat /\ d * R = g * R + q * R
      /\ (q + 1) * R = q * R + R
  BY <1>1, <1>4
<1>6. ItemOf(x, g) = q * R + r /\ ItemOf(x, g) \in Nat
  BY <1>2a, <1>3, <1>4, <1>5
<1>7. ItemOf(x, g) \div R = q
  <2>1. q \in Int
    OBVIOUS
  <2>2. QED
    BY <1>1, <1>2a, <1>6, <2>1, Quotient
<1>8. g * R + ItemOf(x, g) = s /\ ItemOf(x, g) <= (q + 1) * R - 1
  <2> DEFINE a == q * R
             b == g * R
             e == d * R
             f == (q + 1) * R
  <2>1. /\ a \in Nat /\ b \in Nat /\ e = b + a /\ f = a + R /\ R \in Nat
        /\ ItemOf(x, g) = a + r /\ s = e + r
    BY <1>2a, <1>5, <1>6
  <2> HIDE DEF a, b, e, f
  <2>2. b + ItemOf(x, g) = s /\ ItemOf(x, g) <= f - 1
    BY <1>2a, <2>1
  <2>3. QED
    BY <2>2 DEF b, f
<1>9. QED
  BY <1>2a, <1>3, <1>4, <1>6, <1>7, <1>8 DEF R, s
\* A location that needs no request of its own.
Joins(plans, x) ==
  /\ plans # <<>> /\ Last(plans).list = x[1]
  /\ Page(x) = LastPage(Last(plans)) \/ Page(x) = LastPage(Last(plans)) + 1

\* The last request with place x, and a request for it alone.
Grown(p, x) == [list |-> p.list, first |-> p.first, pages |-> Page(x) - p.first + 1,
                items |-> p.items \cup {ItemOf(x, p.first)}]
Fresh(x) == [list |-> x[1], first |-> Page(x), pages |-> 1,
             items |-> {ItemOf(x, Page(x))}]

\* A plan is its four fields.
LEMMA PlanFields ==
  ASSUME NEW p \in Plan
  PROVE  \E l \in Nat, f \in Nat, m \in Nat \ {0}, i \in SUBSET Int :
           p = [list |-> l, first |-> f, pages |-> m, items |-> i]
BY DEF Plan

\* A location is added to the last request, which now ends at its page, or
\* opens a request.
LEMMA AddLocationCases ==
  ASSUME NEW plans \in Seq(Plan), NEW x \in Nat \X Nat
  PROVE  AddLocation(plans, x) =
           IF Joins(plans, x)
           THEN [plans EXCEPT ![Len(plans)] = Grown(Last(plans), x)]
           ELSE Append(plans, Fresh(x))
<1> DEFINE n == Len(plans)
           p == plans[n]
<1>1. Page(x) \in Nat
  BY PageType
<1>2. CASE plans # <<>> /\ (SamePage(Last(plans), x) \/ Adjacent(Last(plans), x))
  <2>1. n \in 1 .. Len(plans) /\ Last(plans) = p /\ p \in Plan
    BY <1>2 DEF Last
  <2>2. PICK l \in Nat, f \in Nat, m \in Nat \ {0}, i \in SUBSET Int :
          p = [list |-> l, first |-> f, pages |-> m, items |-> i]
    BY <2>1, PlanFields
  <2>3. /\ l = x[1]
        /\ Page(x) = f + m - 1 \/ Page(x) = f + m
        /\ Joins(plans, x)
    BY <1>1, <1>2, <2>1, <2>2 DEF SamePage, Adjacent, LastPage, Joins
  <2> DEFINE grown == [plans EXCEPT ![n] = [list |-> l, first |-> f,
                                           pages |-> Page(x) - f + 1, items |-> i]]
  <2>4. PlanFor(plans, x) = grown
    <3>1. CASE SamePage(Last(plans), x)
      <4>1. Page(x) - f + 1 = m
        BY <1>1, <2>1, <2>2, <3>1 DEF SamePage, LastPage
      <4>2. grown = plans
        BY <2>2, <4>1
      <4>3. QED
        BY <1>2, <3>1, <4>2 DEF PlanFor
    <3>2. CASE ~SamePage(Last(plans), x)
      <4>1. Page(x) - f + 1 = m + 1
        BY <1>1, <1>2, <2>1, <2>2, <3>2 DEF Adjacent, LastPage
      <4>2. PlanFor(plans, x) = [plans EXCEPT ![n].pages = @ + 1]
        BY <1>2, <3>2 DEF PlanFor
      <4>3. [p EXCEPT !.pages = @ + 1]
              = [list |-> l, first |-> f, pages |-> m + 1, items |-> i]
        BY <2>2
      <4>4. QED
        BY <4>1, <4>2, <4>3
    <3>3. QED
      BY <3>1, <3>2
  <2>5. /\ Len(grown) = n /\ Last(grown) = grown[n]
        /\ grown[n] = [list |-> l, first |-> f, pages |-> Page(x) - f + 1, items |-> i]
    BY <2>1 DEF Last
  <2>6. AddLocation(plans, x) = [grown EXCEPT ![n].items = @ \cup {ItemOf(x, f)}]
    <3>1. Last(grown).first = f
      BY <2>5
    <3> HIDE DEF grown
    <3>2. QED
      BY <2>4, <2>5, <3>1 DEF AddLocation, ItemOf
  <2>7. [grown[n] EXCEPT !.items = @ \cup {ItemOf(x, f)}] = Grown(p, x)
    <3> HIDE DEF grown
    <3>1. [grown[n] EXCEPT !.items = @ \cup {ItemOf(x, f)}]
            = [list |-> l, first |-> f, pages |-> Page(x) - f + 1,
               items |-> i \cup {ItemOf(x, f)}]
      <4> DEFINE u == i \cup {ItemOf(x, f)}
                 d == Page(x) - f + 1
      <4>1. grown[n].items \cup {ItemOf(x, f)} = u
        BY <2>5
      <4>2. grown[n] = [list |-> l, first |-> f, pages |-> d, items |-> i]
        BY <2>5
      <4> HIDE DEF u, d
      <4>3. [grown[n] EXCEPT !.items = u]
              = [list |-> l, first |-> f, pages |-> d, items |-> u]
        BY <4>2
      <4>4. QED
        BY <4>1, <4>3 DEF u, d
    <3>2. p.list = l /\ p.first = f /\ p.items = i
      BY <2>2
    <3> HIDE DEF p
    <3>3. QED
      BY <3>1, <3>2 DEF Grown
  <2>8. [grown EXCEPT ![n] = Grown(p, x)] = [plans EXCEPT ![n] = Grown(p, x)]
    BY <2>1
  <2>9. QED
    BY <2>1, <2>3, <2>6, <2>7, <2>8
<1>3. CASE ~(plans # <<>> /\ (SamePage(Last(plans), x) \/ Adjacent(Last(plans), x)))
  <2> DEFINE q == [list |-> x[1], first |-> Page(x), pages |-> 1, items |-> {}]
             grown == Append(plans, q)
  <2>1. PlanFor(plans, x) = grown
    BY <1>3 DEF PlanFor
  <2>2. /\ Len(grown) = n + 1 /\ grown[n + 1] = q /\ Last(grown) = q
        /\ DOMAIN grown = 1 .. n + 1 /\ \A k \in 1 .. n : grown[k] = plans[k]
    BY DEF Last
  <2>3. AddLocation(plans, x) =
          [grown EXCEPT ![n + 1].items = @ \cup {ItemOf(x, Page(x))}]
    <3>1. Last(grown).first = Page(x)
      BY <2>2
    <3> HIDE DEF grown
    <3>2. QED
      BY <2>1, <2>2, <3>1 DEF AddLocation, ItemOf
  <2>4. [grown[n + 1] EXCEPT !.items = @ \cup {ItemOf(x, Page(x))}] = Fresh(x)
    <3> DEFINE u == {ItemOf(x, Page(x))}
    <3> HIDE DEF grown
    <3>1. grown[n + 1].items \cup u = u
      BY <2>2
    <3> HIDE DEF u
    <3>2. [grown[n + 1] EXCEPT !.items = u]
            = [list |-> x[1], first |-> Page(x), pages |-> 1, items |-> u]
      BY <2>2
    <3>3. QED
      BY <3>1, <3>2 DEF Fresh, u
  <2>5. [grown EXCEPT ![n + 1] = Fresh(x)] = Append(plans, Fresh(x))
    <3>1. n \in Nat /\ DOMAIN Append(plans, Fresh(x)) = 1 .. n + 1
          /\ \A k \in 1 .. n : Append(plans, Fresh(x))[k] = plans[k]
          /\ Append(plans, Fresh(x))[n + 1] = Fresh(x)
      OBVIOUS
    <3>2. Append(plans, Fresh(x)) = [k \in 1 .. n + 1 |-> Append(plans, Fresh(x))[k]]
      <4> DEFINE T == {plans[k] : k \in 1 .. n} \cup {Fresh(x)}
                 fresh == Append(plans, Fresh(x))
      <4>1. fresh \in Seq(T) /\ Len(fresh) = n + 1
        OBVIOUS
      <4> HIDE DEF T, fresh
      <4>2. fresh = [k \in 1 .. n + 1 |-> fresh[k]]
        BY <4>1
      <4>3. QED
        BY <4>2 DEF fresh
    <3> DEFINE fresh == Append(plans, Fresh(x))
    <3> HIDE DEF grown, fresh
    <3>3. \A k \in 1 .. n + 1 : fresh[k] = IF k = n + 1 THEN Fresh(x) ELSE grown[k]
      BY <2>2, <3>1 DEF fresh
    <3>4. QED
      BY <2>2, <3>2, <3>3 DEF fresh
  <2>6. ~Joins(plans, x)
    BY <1>3 DEF Joins, SamePage, Adjacent
  <2>7. QED
    BY <2>2, <2>3, <2>4, <2>5, <2>6
<1>4. QED
  BY <1>2, <1>3
\* A request for one place is whole and reads it.
LEMMA FreshPlan ==
  ASSUME NEW x \in Nat \X Nat
  PROVE  /\ Fresh(x) \in Plan /\ WholePlan(Fresh(x))
         /\ Fresh(x).list = x[1] /\ Fresh(x).first = Page(x)
         /\ LastPage(Fresh(x)) = Page(x)
         /\ \E i \in Fresh(x).items : TRUE
         /\ \A i \in Fresh(x).items : BytesAt(Fresh(x), i) = x
<1> DEFINE i == ItemOf(x, Page(x))
<1>1. Page(x) \in Nat
  BY PageType
<1>2. /\ i \in Nat /\ Page(x) * RecordsPerPage + i = x[2]
      /\ Page(x) + i \div RecordsPerPage = Page(x)
      /\ i <= (Page(x) - Page(x) + 1) * RecordsPerPage - 1
  BY <1>1, ItemFacts
<1>3. i \in 0 .. 1 * RecordsPerPage - 1
  <2>1. Page(x) - Page(x) + 1 = 1
    BY <1>1
  <2>2. QED
    BY <1>2, <2>1, AioConstants
<1>4. /\ Fresh(x).list = x[1] /\ Fresh(x).first = Page(x) /\ Fresh(x).pages = 1
      /\ Fresh(x).items = {i}
  BY DEF Fresh
<1> HIDE DEF i
<1>5. Fresh(x) \in Plan
  BY <1>1, <1>2, <1>4 DEF Fresh, Plan
<1>6. LastPage(Fresh(x)) = Page(x)
  BY <1>1, <1>4 DEF LastPage
<1>7. WholePlan(Fresh(x))
  BY <1>1, <1>2, <1>3, <1>4, <1>6 DEF WholePlan
<1>8. BytesAt(Fresh(x), i) = x
  BY <1>2, <1>4 DEF BytesAt
<1>9. QED
  BY <1>4, <1>5, <1>6, <1>7, <1>8

\* A whole request stays whole when a place on its last page, or on the page
\* behind it, is added.
LEMMA GrownPlan ==
  ASSUME NEW x \in Nat \X Nat, NEW p \in Plan, WholePlan(p), p.list = x[1],
         Page(x) = LastPage(p) \/ Page(x) = LastPage(p) + 1
  PROVE  /\ Grown(p, x) \in Plan /\ WholePlan(Grown(p, x))
         /\ Grown(p, x).list = x[1] /\ Grown(p, x).first = p.first
         /\ LastPage(Grown(p, x)) = Page(x)
         /\ \A i \in p.items : i \in Grown(p, x).items
         /\ \A i \in Grown(p, x).items :
              i \in p.items \/ BytesAt(Grown(p, x), i) = x
         /\ \E i \in Grown(p, x).items : BytesAt(Grown(p, x), i) = x
         /\ \A i : BytesAt(Grown(p, x), i) = BytesAt(p, i)
<1> DEFINE g == Grown(p, x)
           i == ItemOf(x, p.first)
           m == Page(x) - p.first + 1
<1>1. /\ p.first \in Nat /\ p.pages \in Nat \ {0} /\ p.list \in Nat
      /\ p.items \in SUBSET Int
  BY DEF Plan
<1>2. Page(x) \in Nat /\ p.first <= Page(x) /\ m \in Nat \ {0} /\ p.pages <= m
      /\ p.first + m - 1 = Page(x)
  BY <1>1, PageType DEF LastPage
<1>3. /\ i \in Nat /\ p.first * RecordsPerPage + i = x[2]
      /\ p.first + i \div RecordsPerPage = Page(x)
      /\ i <= m * RecordsPerPage - 1
  BY <1>1, <1>2, ItemFacts
<1>4. /\ g.list = p.list /\ g.first = p.first /\ g.pages = m
      /\ g.items = p.items \cup {i}
  BY DEF Grown
<1>5. g = [list |-> p.list, first |-> p.first, pages |-> m, items |-> p.items \cup {i}]
  BY DEF Grown
<1> HIDE DEF g, i, m
<1>6. g \in Plan
  BY <1>1, <1>2, <1>3, <1>5 DEF Plan
<1>7. LastPage(g) = Page(x)
  BY <1>1, <1>2, <1>4 DEF LastPage
<1>8. WholePlan(g)
  <2>1. p.pages * RecordsPerPage <= m * RecordsPerPage
    <3>1. RecordsPerPage \in Nat /\ p.pages \in Int /\ m \in Int
      BY <1>1, <1>2, AioConstants
    <3>2. QED
      BY <1>2, <3>1, Multiples
  <2>2. p.pages * RecordsPerPage \in Int /\ m * RecordsPerPage \in Int
    BY <1>1, <1>2, AioConstants
  <2>3. \A j \in p.items : j \in 0 .. m * RecordsPerPage - 1
    BY <2>1, <2>2 DEF WholePlan
  <2>4. i \in 0 .. m * RecordsPerPage - 1
    BY <1>3, <2>2
  <2>5. \A h \in p.first .. Page(x) :
          \E j \in g.items : p.first + j \div RecordsPerPage = h
    <3> TAKE h \in p.first .. Page(x)
    <3>1. CASE h = Page(x)
      BY <1>3, <1>4, <3>1
    <3>2. CASE h # Page(x)
      <4>1. h \in p.first .. LastPage(p)
        BY <1>1, <1>2, <3>2 DEF LastPage
      <4>2. QED
        BY <1>4, <4>1 DEF WholePlan
    <3>3. QED
      BY <3>1, <3>2
  <2>6. QED
    BY <1>4, <1>7, <2>3, <2>4, <2>5 DEF WholePlan
<1>9. \A j : BytesAt(g, j) = BytesAt(p, j)
  BY <1>4 DEF BytesAt
<1>10. BytesAt(g, i) = x
  BY <1>3, <1>4 DEF BytesAt
<1>11. QED
  BY <1>4, <1>6, <1>7, <1>8, <1>9, <1>10 DEF g
\* A page of a whole request is not before its first one.
LEMMA WholePlanPages ==
  ASSUME NEW p \in Plan
  PROVE  /\ p.list \in Nat /\ p.first \in Nat /\ LastPage(p) \in Nat
         /\ p.first <= LastPage(p)
BY DEF Plan, LastPage

\* Adding a place behind all the others keeps the requests exact.
LEMMA BuiltStep ==
  ASSUME NEW plans, NEW X, Built(plans, X), NEW x \in Nat \X Nat,
         plans = <<>> \/ \E y \in Nat \X Nat : EndsAt(plans, y) /\ Before(y, x)
  PROVE  /\ Built(AddLocation(plans, x), X \cup {x})
         /\ EndsAt(AddLocation(plans, x), x)
<1> DEFINE n == Len(plans)
           q == AddLocation(plans, x)
<1>1. plans \in Seq(Plan) /\ n \in Nat /\ \A k \in 1 .. n : plans[k] \in Plan
  BY DEF Built
<1>2. CASE Joins(plans, x)
  <2> DEFINE p == plans[n]
             g == Grown(p, x)
  <2>1. n \in 1 .. n /\ Last(plans) = p /\ p \in Plan /\ WholePlan(p)
    BY <1>1, <1>2 DEF Joins, Last, Built
  <2>2. /\ g \in Plan /\ WholePlan(g)
        /\ g.list = x[1] /\ g.list = p.list /\ g.first = p.first
        /\ LastPage(g) = Page(x)
        /\ \A i \in p.items : i \in g.items
        /\ \A i \in g.items : i \in p.items \/ BytesAt(g, i) = x
        /\ \E i \in g.items : BytesAt(g, i) = x
        /\ \A i : BytesAt(g, i) = BytesAt(p, i)
    BY <1>2, <2>1, GrownPlan DEF Joins
  <2>3. q = [plans EXCEPT ![n] = g]
    BY <1>1, <1>2, <2>1, AddLocationCases
  <2> HIDE DEF g
  <2>4. /\ q \in Seq(Plan) /\ Len(q) = n /\ q[n] = g
        /\ \A k \in 1 .. n : k # n => q[k] = plans[k]
    BY <1>1, <2>1, <2>2, <2>3
  <2> HIDE DEF q
  <2>5. \A k \in 1 .. n : WholePlan(q[k])
    BY <2>2, <2>4 DEF Built
  <2>6. \A j, k \in 1 .. n : j < k => Behind(q[j], q[k])
    <3> TAKE j, k \in 1 .. n
    <3> HAVE j < k
    <3>1. j # n /\ Behind(plans[j], plans[k])
      BY DEF Built
    <3>2. q[j] = plans[j] /\ q[k].list = plans[k].list /\ q[k].first = plans[k].first
      BY <2>2, <2>4, <3>1
    <3>3. QED
      BY <3>1, <3>2 DEF Behind
  <2>7. \A k \in 1 .. n : \A i \in q[k].items : BytesAt(q[k], i) \in X \cup {x}
    <3> TAKE k \in 1 .. n
    <3>1. CASE k = n
      BY <2>1, <2>2, <2>4, <3>1 DEF Built
    <3>2. CASE k # n
      BY <2>4, <3>2 DEF Built
    <3>3. QED
      BY <3>1, <3>2
  <2>8. \A y \in X \cup {x} : \E k \in 1 .. n : \E i \in q[k].items :
          BytesAt(q[k], i) = y
    <3>1. \A k \in 1 .. n : \A i \in plans[k].items :
            i \in q[k].items /\ BytesAt(q[k], i) = BytesAt(plans[k], i)
      BY <2>2, <2>4
    <3>2. \A y \in X : \E k \in 1 .. n : \E i \in plans[k].items :
            BytesAt(plans[k], i) = y
      BY DEF Built
    <3>3. \A y \in X : \E k \in 1 .. n : \E i \in q[k].items : BytesAt(q[k], i) = y
      BY <3>1, <3>2
    <3>4. \E i \in q[n].items : BytesAt(q[n], i) = x
      BY <2>2, <2>4
    <3>5. QED
      BY <2>1, <3>3, <3>4
  <2>9. EndsAt(q, x)
    BY <2>1, <2>2, <2>4 DEF EndsAt, Last
  <2>10. QED
    BY <2>4, <2>5, <2>6, <2>7, <2>8, <2>9 DEF Built, q
<1>3. CASE ~Joins(plans, x)
  <2> DEFINE g == Fresh(x)
  <2>1. /\ g \in Plan /\ WholePlan(g) /\ g.list = x[1] /\ g.first = Page(x)
        /\ LastPage(g) = Page(x) /\ \E i \in g.items : TRUE
        /\ \A i \in g.items : BytesAt(g, i) = x
    BY FreshPlan
  <2>2. q = Append(plans, g)
    BY <1>1, <1>3, AddLocationCases
  <2> HIDE DEF g
  <2>3. /\ q \in Seq(Plan) /\ Len(q) = n + 1 /\ q[n + 1] = g
        /\ \A k \in 1 .. n : q[k] = plans[k]
    BY <1>1, <2>1, <2>2
  <2> HIDE DEF q
  <2>4. \A k \in 1 .. n + 1 : k = n + 1 \/ k \in 1 .. n
    BY <1>1
  <2>5. \A k \in 1 .. n + 1 : WholePlan(q[k])
    BY <2>1, <2>3, <2>4 DEF Built
  <2>6. \A j \in 1 .. n : Behind(plans[j], g)
    <3> TAKE j \in 1 .. n
    <3>1. plans # <<>> /\ n \in 1 .. n /\ Last(plans) = plans[n]
      BY <1>1 DEF Last
    <3>2. PICK y \in Nat \X Nat : EndsAt(plans, y) /\ Before(y, x)
      BY <3>1
    <3> DEFINE p == plans[n]
    <3>3. /\ p.list \in Nat /\ p.first \in Nat /\ LastPage(p) \in Nat
          /\ p.first <= LastPage(p) /\ Page(x) \in Nat /\ x[1] \in Nat
          /\ LastPage(plans[j]) \in Nat /\ plans[j].list \in Nat
      BY <1>1, <3>1, WholePlanPages, PageType
    <3>4. p.list < x[1] \/ (p.list = x[1] /\ LastPage(p) <= Page(x))
      <4>1. p.list = y[1] /\ LastPage(p) = Page(y)
        BY <3>1, <3>2 DEF EndsAt
      <4>2. y[2] <= x[2] => Page(y) <= Page(x)
        BY PagesInOrder DEF Page
      <4>3. y[1] < x[1] \/ (y[1] = x[1] /\ y[2] <= x[2])
        BY <3>2 DEF Before
      <4>4. QED
        BY <4>1, <4>2, <4>3
    <3>5. Behind(p, g)
      <4>1. CASE p.list = x[1]
        <5>1. LastPage(p) # Page(x) /\ LastPage(p) + 1 # Page(x)
          BY <1>3, <3>1, <4>1 DEF Joins
        <5>2. LastPage(p) <= Page(x)
          BY <3>3, <3>4, <4>1
        <5>3. QED
          BY <2>1, <3>3, <4>1, <5>1, <5>2, SMTT(30) DEF Behind
      <4>2. CASE p.list # x[1]
        BY <2>1, <3>4, <4>2 DEF Behind
      <4>3. QED
        BY <4>1, <4>2
    <3>6. CASE j = n
      BY <3>5, <3>6
    <3>7. CASE j # n
      <4>1. Behind(plans[j], p)
        BY <1>1, <3>7 DEF Built
      <4>2. g.list \in Nat /\ g.first \in Nat
        BY <2>1, WholePlanPages
      <4>3. /\ plans[j].list < p.list \/ (plans[j].list = p.list
                                           /\ LastPage(plans[j]) + 1 < p.first)
            /\ p.list < g.list \/ (p.list = g.list /\ LastPage(p) + 1 < g.first)
        BY <3>5, <4>1 DEF Behind
      <4> DEFINE a == plans[j].list
                 b == p.list
                 c == g.list
                 r == LastPage(plans[j])
                 f == p.first
                 t == LastPage(p)
                 h == g.first
      <4>3a. /\ a \in Nat /\ b \in Nat /\ c \in Nat /\ r \in Nat /\ f \in Nat
             /\ t \in Nat /\ h \in Nat /\ f <= t
             /\ a < b \/ (a = b /\ r + 1 < f)
             /\ b < c \/ (b = c /\ t + 1 < h)
        BY <3>3, <4>2, <4>3
      <4> HIDE DEF a, b, c, r, f, t, h
      <4>3b. a < c \/ (a = c /\ r + 1 < h)
        BY <4>3a
      <4>4. plans[j].list < g.list \/ (plans[j].list = g.list
                                         /\ LastPage(plans[j]) + 1 < g.first)
        BY <4>3b DEF a, c, r, h
      <4>5. QED
        BY <4>4 DEF Behind
    <3>8. QED
      BY <3>6, <3>7
  <2>7. \A j, k \in 1 .. n + 1 : j < k => Behind(q[j], q[k])
    <3> TAKE j, k \in 1 .. n + 1
    <3> HAVE j < k
    <3>1. j \in 1 .. n
      BY <1>1
    <3>2. CASE k = n + 1
      BY <2>3, <2>6, <3>1, <3>2
    <3>3. CASE k \in 1 .. n
      BY <2>3, <3>1, <3>3 DEF Built
    <3>4. QED
      BY <2>4, <3>2, <3>3
  <2>8. \A k \in 1 .. n + 1 : \A i \in q[k].items : BytesAt(q[k], i) \in X \cup {x}
    BY <2>1, <2>3, <2>4 DEF Built
  <2>9. \A y \in X \cup {x} : \E k \in 1 .. n + 1 : \E i \in q[k].items :
          BytesAt(q[k], i) = y
    <3>1. \A y \in X : \E k \in 1 .. n : \E i \in q[k].items : BytesAt(q[k], i) = y
      BY <2>3 DEF Built
    <3>2. \E i \in q[n + 1].items : BytesAt(q[n + 1], i) = x
      BY <2>1, <2>3
    <3>3. n + 1 \in 1 .. n + 1 /\ \A k \in 1 .. n : k \in 1 .. n + 1
      BY <1>1
    <3>4. QED
      BY <3>1, <3>2, <3>3
  <2>10. EndsAt(q, x)
    <3>1. q # <<>> /\ Last(q) = g
      BY <1>1, <2>3 DEF Last
    <3>2. QED
      BY <2>1, <3>1 DEF EndsAt
  <2>11. QED
    BY <2>3, <2>5, <2>7, <2>8, <2>9, <2>10 DEF Built, q
<1>4. QED
  BY <1>2, <1>3
\* Whatever plans there are, adding a location leaves plans.
LEMMA AddLocationType ==
  ASSUME NEW plans \in Seq(Plan), NEW x \in Nat \X Nat
  PROVE  AddLocation(plans, x) \in Seq(Plan)
<1>1. \A g \in Nat : ItemOf(x, g) \in Int
  <2> TAKE g \in Nat
  <2>1. Page(x) - g \in Int /\ RecordsPerPage \in Nat \ {0} /\ x[2] \in Nat
    BY PageType, AioConstants
  <2>2. x[2] % RecordsPerPage \in Int
    BY <2>1
  <2> DEFINE a == Page(x) - g
             b == x[2] % RecordsPerPage
  <2> HIDE DEF a, b
  <2>3. a * RecordsPerPage + b \in Int
    BY <2>1, <2>2 DEF a, b
  <2>4. QED
    BY <2>3 DEF ItemOf, a, b
<1>2. CASE Joins(plans, x)
  <2> DEFINE n == Len(plans)
             p == plans[n]
             m == Page(x) - p.first + 1
             i == p.items \cup {ItemOf(x, p.first)}
  <2>1. n \in 1 .. Len(plans) /\ Last(plans) = p /\ p \in Plan
    BY <1>2 DEF Joins, Last
  <2>2. p.list \in Nat /\ p.first \in Nat /\ p.pages \in Nat \ {0} /\ p.items \subseteq Int
    BY <2>1 DEF Plan
  <2>3. m \in Nat \ {0}
    <3>1. Page(x) = LastPage(p) \/ Page(x) = LastPage(p) + 1
      BY <1>2, <2>1 DEF Joins
    <3>2. LastPage(p) = p.first + p.pages - 1
      BY DEF LastPage
    <3> DEFINE f == p.first
               d == p.pages
               h == Page(x)
    <3>3. f \in Nat /\ d \in Nat \ {0} /\ (h = f + d - 1 \/ h = f + d - 1 + 1)
      BY <2>2, <3>1, <3>2
    <3> HIDE DEF f, d, h
    <3>4. h - f + 1 \in Nat \ {0}
      BY <3>3
    <3>5. QED
      BY <3>4 DEF f, h
  <2>4. i \in SUBSET Int
    BY <1>1, <2>2
  <2>5. Grown(p, x) = [list |-> p.list, first |-> p.first, pages |-> m, items |-> i]
    BY DEF Grown
  <2> HIDE DEF m, i, p
  <2>6. Grown(p, x) \in Plan
    BY <2>2, <2>3, <2>4, <2>5 DEF Plan
  <2>7. AddLocation(plans, x) = [plans EXCEPT ![n] = Grown(p, x)]
    BY <1>2, <2>1, AddLocationCases
  <2>8. QED
    BY <2>1, <2>6, <2>7
<1>3. CASE ~Joins(plans, x)
  BY <1>3, AddLocationCases, FreshPlan
<1>4. QED
  BY <1>2, <1>3

\* The fold of build_read_plans goes location by location.
LEMMA PlansFold ==
  ASSUME NEW N \in Nat, NEW s \in [1 .. N -> Nat \X Nat]
  PROVE  \E f : /\ f[0] = <<>>
                /\ \A n \in 1 .. N : f[n] = AddLocation(f[n - 1], s[n])
                /\ FoldLeft(AddLocation, <<>>, s) = f[N]
<1> DEFINE D == 1 .. N
           V == Seq(Plan)
           F == [z \in D \X V |-> AddLocation(z[2], s[z[1]])]
           Step(it) == [t \in SUBSET D |->
                          IF t = {} THEN <<>>
                          ELSE AddLocation(it[t \ {Max(t)}], s[Max(t)])]
           iter == CHOOSE it : it = Step(it)
<1>1. DOMAIN s = D
  OBVIOUS
<1>2. FoldLeft(AddLocation, <<>>, s) = iter[D]
  BY <1>1 DEF FoldLeft, MapThenFoldSet
<1>3. \A k \in D : \A v \in V : F[<<k, v>>] = AddLocation(v, s[k]) /\ F[<<k, v>>] \in V
  BY AddLocationType
<1>3a. <<>> \in V
  OBVIOUS
<1> HIDE DEF F, V
<1>4. Closed(D, V, F)
  BY <1>3 DEF Closed
<1>5. PICK g : FoldsLeft(D, V, <<>>, F, g)
  <2>1. D = 1 .. N
    OBVIOUS
  <2> HIDE DEF D
  <2>2. QED
    BY <1>3a, <1>4, <2>1, FoldPositions
<1>6. \A t \in SUBSET D : t # {} => g[t] = AddLocation(g[t \ {Max(t)}], s[Max(t)])
  BY <1>3, <1>5, MaxPosition DEF FoldsLeft
<1>7. g = Step(g)
  BY <1>5, <1>6 DEF FoldsLeft
<1>8. iter = Step(iter)
  BY <1>7
<1> HIDE DEF iter
<1>9. iter[{}] = <<>> /\ \A t \in SUBSET D : t # {} =>
                            iter[t] = AddLocation(iter[t \ {Max(t)}], s[Max(t)])
  BY <1>8
<1> DEFINE f == [n \in 0 .. N |-> iter[1 .. n]]
<1>10. f[0] = <<>>
  <2>1. 1 .. 0 = {} /\ 0 \in 0 .. N
    OBVIOUS
  <2>2. QED
    BY <1>9, <2>1
<1>11. \A n \in 1 .. N : f[n] = AddLocation(f[n - 1], s[n])
  <2> TAKE n \in 1 .. N
  <2>1. 1 .. n \in SUBSET D /\ n \in 0 .. N /\ n - 1 \in 0 .. N
    OBVIOUS
  <2>2. Max(1 .. n) = n /\ (1 .. n) \ {n} = 1 .. n - 1 /\ 1 .. n # {}
    <3>1. n \in Nat /\ n # 0
      OBVIOUS
    <3>2. QED
      BY <3>1, MaxOfPrefix
  <2> HIDE DEF D
  <2>3. QED
    BY <1>9, <2>1, <2>2
<1>12. f[N] = iter[D]
  OBVIOUS
<1>13. QED
  BY <1>2, <1>10, <1>11, <1>12

\* build_read_plans reads exactly the places it was given.
LEMMA PlansBuilt ==
  ASSUME NEW c, c \subseteq Nat \X Nat, IsFiniteSet(c)
  PROVE  Built(BuildReadPlans(c), c)
<1> DEFINE N == Cardinality(c)
           s == Sorted(c, Before)
           X(n) == {s[k] : k \in 1 .. n}
<1>1. /\ N \in Nat /\ s \in [1 .. N -> c] /\ s \in [1 .. N -> Nat \X Nat]
      /\ \A j, k \in 1 .. N : j < k => Before(s[j], s[k])
      /\ \A x \in c : \E k \in 1 .. N : s[k] = x
  BY SortedPlaces
<1> HIDE DEF N, s
<1>2. PICK f : /\ f[0] = <<>>
               /\ \A n \in 1 .. N : f[n] = AddLocation(f[n - 1], s[n])
               /\ FoldLeft(AddLocation, <<>>, s) = f[N]
  BY <1>1, PlansFold
<1> DEFINE B == {n \in 0 .. N : /\ Built(f[n], X(n))
                                /\ IF n = 0 THEN f[n] = <<>> ELSE EndsAt(f[n], s[n])}
<1>3. 0 \in B
  <2>1. X(0) = {} /\ <<>> \in Seq(Plan) /\ Len(<<>>) = 0
    OBVIOUS
  <2>2. Built(<<>>, {})
    BY <2>1 DEF Built
  <2>3. 0 \in 0 .. N /\ Built(f[0], X(0)) /\ f[0] = <<>>
    <3>1. X(0) = {} /\ f[0] = <<>> /\ 0 \in 0 .. N
      BY <1>1, <1>2, <2>1
    <3> HIDE DEF X
    <3>2. QED
      BY <2>2, <3>1
  <2> HIDE DEF X
  <2>4. QED
    BY <2>3
<1>4. \A n \in 0 .. N - 1 : n \in B => n + 1 \in B
  <2> SUFFICES ASSUME NEW n \in 0 .. N - 1, Built(f[n], X(n)),
                      IF n = 0 THEN f[n] = <<>> ELSE EndsAt(f[n], s[n])
               PROVE  n + 1 \in B
    OBVIOUS
  <2>1. n \in Nat /\ n + 1 \in 1 .. N /\ n + 1 \in 0 .. N /\ n + 1 # 0
        /\ n + 1 - 1 = n /\ (n # 0 => n \in 1 .. N /\ n < n + 1)
    BY <1>1
  <2>2. f[n + 1] = AddLocation(f[n], s[n + 1]) /\ s[n + 1] \in Nat \X Nat
    <3>1. f[n + 1] = AddLocation(f[n + 1 - 1], s[n + 1])
      BY <1>2, <2>1
    <3>2. QED
      BY <1>1, <2>1, <3>1
  <2>3. f[n] = <<>> \/ \E y \in Nat \X Nat : EndsAt(f[n], y) /\ Before(y, s[n + 1])
    BY <1>1, <2>1
  <2>4. X(n + 1) = X(n) \cup {s[n + 1]}
    <3>1. 1 .. n + 1 = (1 .. n) \cup {n + 1}
      BY <2>1
    <3>2. QED
      BY <3>1
  <2> HIDE DEF X
  <2>5. Built(f[n + 1], X(n + 1)) /\ EndsAt(f[n + 1], s[n + 1])
    BY <2>2, <2>3, <2>4, BuiltStep
  <2>6. QED
    BY <2>1, <2>5
<1>5. N \in B
  <2> HIDE DEF B
  <2>1. \A n \in 0 .. N : n \in B
    BY <1>1, <1>3, <1>4, Induct
  <2>2. QED
    BY <1>1, <2>1
<1>6. X(N) = c
  BY <1>1
<1>7. Built(f[N], c)
  BY <1>5, <1>6
<1>8. QED
  BY <1>2, <1>7 DEF BuildReadPlans, s

(***************************************************************************)
(* distinct_lists.                                                         *)
(***************************************************************************)
\* distinct_lists, one plan.
AddList(ls, l) == IF ls # <<>> /\ Last(ls) = l THEN ls ELSE Append(ls, l)

\* `lists` are the lists of the plans, each once and in order.
Listed(plans, lists) ==
  /\ lists \in Seq(Nat)
  /\ \A j, k \in 1 .. Len(lists) : j < k => lists[j] < lists[k]
  /\ \A k \in 1 .. Len(plans) : \E j \in 1 .. Len(lists) : plans[k].list = lists[j]

\* The fold of distinct_lists goes plan by plan.
LEMMA ListsFold ==
  ASSUME NEW plans \in Seq(Plan)
  PROVE  \E f : /\ f[0] = <<>>
                /\ \A n \in 1 .. Len(plans) : f[n] = AddList(f[n - 1], plans[n].list)
                /\ DistinctLists(plans) = f[Len(plans)]
<1> DEFINE N == Len(plans)
           D == 1 .. N
           V == Seq(Nat)
           F == [z \in D \X V |-> AddList(z[2], plans[z[1]].list)]
           Step(it) == [t \in SUBSET D |->
                          IF t = {} THEN <<>>
                          ELSE AddList(it[t \ {Max(t)}], plans[Max(t)].list)]
           iter == CHOOSE it : it = Step(it)
<1>1. DOMAIN plans = D /\ N \in Nat
  OBVIOUS
<1>2. DistinctLists(plans) = iter[D]
  BY <1>1 DEF DistinctLists, FoldLeft, MapThenFoldSet, AddList
<1>3. \A k \in D : \A v \in V :
        F[<<k, v>>] = AddList(v, plans[k].list) /\ F[<<k, v>>] \in V
  <2>1. \A k \in D : plans[k].list \in Nat
    <3>1. \A k \in D : plans[k] \in Plan
      OBVIOUS
    <3>2. QED
      BY <3>1 DEF Plan
  <2> TAKE k \in D
  <2> TAKE v \in V
  <2>2. F[<<k, v>>] = AddList(v, plans[k].list)
    OBVIOUS
  <2> HIDE DEF F
  <2>3. AddList(v, plans[k].list) \in V
    BY <2>1 DEF AddList
  <2>4. QED
    BY <2>2, <2>3
<1>3a. <<>> \in V
  OBVIOUS
<1> HIDE DEF F, V
<1>4. Closed(D, V, F)
  BY <1>3 DEF Closed
<1>5. PICK g : FoldsLeft(D, V, <<>>, F, g)
  <2>1. D = 1 .. N
    OBVIOUS
  <2> HIDE DEF D, N
  <2>2. QED
    BY <1>1, <1>3a, <1>4, <2>1, FoldPositions
<1>6. \A t \in SUBSET D : t # {} => g[t] = AddList(g[t \ {Max(t)}], plans[Max(t)].list)
  BY <1>1, <1>3, <1>5, MaxPosition DEF FoldsLeft
<1>7. g = Step(g)
  BY <1>5, <1>6 DEF FoldsLeft
<1>8. iter = Step(iter)
  BY <1>7
<1> HIDE DEF iter
<1>9. iter[{}] = <<>> /\ \A t \in SUBSET D : t # {} =>
                            iter[t] = AddList(iter[t \ {Max(t)}], plans[Max(t)].list)
  BY <1>8
<1> DEFINE f == [n \in 0 .. N |-> iter[1 .. n]]
<1>10. f[0] = <<>>
  <2>1. 1 .. 0 = {} /\ 0 \in 0 .. N
    OBVIOUS
  <2>2. QED
    BY <1>9, <2>1
<1>11. \A n \in 1 .. N : f[n] = AddList(f[n - 1], plans[n].list)
  <2> TAKE n \in 1 .. N
  <2>1. 1 .. n \in SUBSET D /\ n \in 0 .. N /\ n - 1 \in 0 .. N
    OBVIOUS
  <2>2. Max(1 .. n) = n /\ (1 .. n) \ {n} = 1 .. n - 1 /\ 1 .. n # {}
    <3>1. n \in Nat /\ n # 0
      OBVIOUS
    <3>2. QED
      BY <3>1, MaxOfPrefix
  <2> HIDE DEF D
  <2>3. QED
    BY <1>9, <2>1, <2>2
<1>12. f[N] = iter[D]
  BY <1>1
<1>13. QED
  BY <1>2, <1>10, <1>11, <1>12

\* A greater last element keeps a sequence increasing.
LEMMA Increasing ==
  ASSUME NEW v \in Seq(Nat), NEW x \in Nat,
         \A j, k \in 1 .. Len(v) : j < k => v[j] < v[k],
         v = <<>> \/ (v[Len(v)] \in Nat /\ v[Len(v)] < x)
  PROVE  LET w == Append(v, x)
         IN  /\ w \in Seq(Nat) /\ Len(w) = Len(v) + 1 /\ Len(v) \in Nat
             /\ \A j \in 1 .. Len(v) : w[j] = v[j]
             /\ w[Len(v) + 1] = x /\ w # <<>>
             /\ \A j, k \in 1 .. Len(w) : j < k => w[j] < w[k]
<1> DEFINE w == Append(v, x)
           m == Len(v)
<1>1. /\ w \in Seq(Nat) /\ Len(w) = m + 1 /\ m \in Nat
      /\ \A j \in 1 .. m : w[j] = v[j] /\ v[j] \in Nat
      /\ w[m + 1] = x /\ w # <<>>
  OBVIOUS
<1>2. \A j \in 1 .. m : v[j] < x
  <2> TAKE j \in 1 .. m
  <2>1. v # <<>> /\ m \in 1 .. m /\ (j < m \/ j = m)
    BY <1>1
  <2>2. QED
    BY <1>1, <2>1
<1> HIDE DEF w, m
<1>3. \A j, k \in 1 .. m + 1 : j < k => w[j] < w[k]
  <2> TAKE j, k \in 1 .. m + 1
  <2> HAVE j < k
  <2>1. j \in 1 .. m /\ (k \in 1 .. m \/ k = m + 1)
    BY <1>1
  <2>2. QED
    BY <1>1, <1>2, <2>1 DEF m
<1>4. QED
  BY <1>1, <1>3 DEF w, m

\* The lists of plans in order, each once.
LEMMA ListsOfPlans ==
  ASSUME NEW plans \in Seq(Plan),
         \A j, k \in 1 .. Len(plans) : j < k => Behind(plans[j], plans[k])
  PROVE  Listed(plans, DistinctLists(plans))
<1> DEFINE N == Len(plans)
           l(k) == plans[k].list
           Good(n, v) ==
             /\ v \in Seq(Nat)
             /\ \A j, k \in 1 .. Len(v) : j < k => v[j] < v[k]
             /\ \A k \in 1 .. n : \E j \in 1 .. Len(v) : l(k) = v[j]
             /\ IF n = 0 THEN v = <<>> ELSE v # <<>> /\ v[Len(v)] = l(n)
<1>1. N \in Nat /\ \A k \in 1 .. N : l(k) \in Nat
  <2>1. N \in Nat /\ \A k \in 1 .. N : plans[k] \in Plan
    OBVIOUS
  <2>2. QED
    BY <2>1 DEF Plan
<1>2. \A k \in 1 .. N - 1 : l(k) <= l(k + 1)
  <2> TAKE k \in 1 .. N - 1
  <2>1. k \in 1 .. N /\ k + 1 \in 1 .. N /\ k < k + 1
    BY <1>1
  <2>2. Behind(plans[k], plans[k + 1])
    BY <2>1
  <2>3. QED
    BY <1>1, <2>1, <2>2 DEF Behind
<1>3. PICK f : /\ f[0] = <<>>
               /\ \A n \in 1 .. N : f[n] = AddList(f[n - 1], l(n))
               /\ DistinctLists(plans) = f[N]
  BY ListsFold
<1> DEFINE B == {n \in 0 .. N : Good(n, f[n])}
<1> HIDE DEF l, N
<1>4. 0 \in B
  <2>1. Good(0, <<>>)
    OBVIOUS
  <2>2. 0 \in 0 .. N /\ f[0] = <<>>
    BY <1>1, <1>3
  <2> HIDE DEF Good
  <2>3. QED
    BY <2>1, <2>2
<1>5. \A n \in 0 .. N - 1 : n \in B => n + 1 \in B
  <2> SUFFICES ASSUME NEW n \in 0 .. N - 1, Good(n, f[n])
               PROVE  n + 1 \in B
    OBVIOUS
  <2> DEFINE v == f[n]
             w == f[n + 1]
  <2>1. n \in Nat /\ n + 1 \in 1 .. N /\ n + 1 \in 0 .. N /\ n + 1 # 0
        /\ n + 1 - 1 = n /\ (n # 0 => n \in 1 .. N - 1)
    BY <1>1
  <2>2. w = AddList(v, l(n + 1))
    <3>1. f[n + 1] = AddList(f[n + 1 - 1], l(n + 1))
      BY <1>3, <2>1
    <3>2. QED
      BY <2>1, <3>1
  <2>3. l(n + 1) \in Nat /\ v \in Seq(Nat)
    BY <1>1, <2>1
  <2>4. CASE v # <<>> /\ v[Len(v)] = l(n + 1)
    <3>1. w = v
      BY <2>2, <2>4 DEF AddList, Last
    <3>2. \A k \in 1 .. n + 1 : \E j \in 1 .. Len(v) : l(k) = v[j]
      <4>1. \A k \in 1 .. n + 1 : k \in 1 .. n \/ k = n + 1
        BY <2>1
      <4>2. Len(v) \in 1 .. Len(v)
        BY <2>3, <2>4
      <4>3. QED
        BY <2>4, <4>1, <4>2
    <3>3. Good(n + 1, w)
      BY <2>1, <2>4, <3>1, <3>2
    <3>4. QED
      BY <2>1, <3>3
  <2>5. CASE ~(v # <<>> /\ v[Len(v)] = l(n + 1))
    <3> DEFINE m == Len(v)
    <3>1. w = Append(v, l(n + 1))
      BY <2>2, <2>5 DEF AddList, Last
    <3>2. v = <<>> \/ (n # 0 /\ v[m] = l(n))
      BY <2>1
    <3>3. v = <<>> \/ (v[m] \in Nat /\ v[m] < l(n + 1))
      <4>1. CASE v # <<>>
        <5>1. l(n) <= l(n + 1) /\ l(n) \in Nat
          BY <1>1, <1>2, <2>1, <3>2, <4>1
        <5>2. QED
          BY <2>3, <2>5, <3>2, <4>1, <5>1
      <4>2. QED
        BY <4>1
    <3>4. \A j, k \in 1 .. m : j < k => v[j] < v[k]
      OBVIOUS
    <3>5. /\ w \in Seq(Nat) /\ Len(w) = m + 1 /\ m \in Nat
          /\ \A j \in 1 .. m : w[j] = v[j]
          /\ w[m + 1] = l(n + 1) /\ w # <<>>
          /\ \A j, k \in 1 .. Len(w) : j < k => w[j] < w[k]
      <4> HIDE DEF v, w
      <4>1. QED
        BY <2>3, <3>1, <3>3, <3>4, Increasing
    <3>5a. \A k \in 1 .. n + 1 : \E j \in 1 .. m + 1 : l(k) = w[j]
      <4>1. \A k \in 1 .. n + 1 : k \in 1 .. n \/ k = n + 1
        BY <2>1
      <4>2. m + 1 \in 1 .. m + 1 /\ \A j \in 1 .. m : j \in 1 .. m + 1
        BY <3>5, SMTT(30)
      <4>3. \A k \in 1 .. n : \E j \in 1 .. m : l(k) = v[j]
        OBVIOUS
      <4> HIDE DEF v, w
      <4>4. QED
        BY <3>5, <4>1, <4>2, <4>3
    <3>6. Good(n + 1, w)
      BY <2>1, <3>5, <3>5a
    <3>7. QED
      BY <2>1, <3>6
  <2>6. QED
    BY <2>4, <2>5
<1>6. N \in B
  <2> HIDE DEF B
  <2>1. \A n \in 0 .. N : n \in B
    BY <1>1, <1>4, <1>5, Induct
  <2>2. QED
    BY <1>1, <2>1
<1>7. Good(N, f[N])
  BY <1>6
<1>8. QED
  BY <1>3, <1>7 DEF Listed, l, N

(***************************************************************************)
(* What the plans read.                                                    *)
(***************************************************************************)
\* The fields of a whole plan.
LEMMA PlanTypes ==
  ASSUME NEW p \in Plan, WholePlan(p)
  PROVE  /\ p.list \in Nat /\ p.first \in Nat /\ p.pages \in Nat \ {0}
         /\ p.items \subseteq 0 .. p.pages * RecordsPerPage - 1
         /\ p.items \subseteq Nat
         /\ LastPage(p) = p.first + p.pages - 1
BY AioConstants DEF Plan, WholePlan, LastPage

\* An item lies on one of the pages of its plan.
LEMMA ItemPage ==
  ASSUME NEW p \in Plan, WholePlan(p), NEW i \in p.items
  PROVE  /\ i \div RecordsPerPage \in 0 .. p.pages - 1
         /\ p.first * RecordsPerPage + i <= (LastPage(p) + 1) * RecordsPerPage - 1
<1> DEFINE R == RecordsPerPage
           m == p.pages
           f == p.first
<1>1. /\ R \in Nat \ {0} /\ m \in Nat \ {0} /\ f \in Nat /\ i \in Nat
      /\ i <= m * R - 1 /\ LastPage(p) + 1 = f + m
  <2>1. /\ p.first \in Nat /\ p.pages \in Nat \ {0}
        /\ LastPage(p) = p.first + p.pages - 1
        /\ i \in 0 .. p.pages * RecordsPerPage - 1 /\ i \in Nat
    BY PlanTypes
  <2>2. LastPage(p) + 1 = p.first + p.pages
    BY <2>1
  <2>3. QED
    BY <2>1, <2>2, AioConstants
<1> HIDE DEF R, m, f
<1>2. PICK d \in Nat, e \in 0 .. R - 1 : d = i \div R /\ i = d * R + e
  <2>1. R \in Nat \ {0} /\ i \in Nat
    BY <1>1
  <2>2. \E d \in Nat : \E e \in 0 .. R - 1 : d = i \div R /\ e = i % R /\ i = d * R + e
    BY <2>1, Division
  <2>3. QED
    BY <2>1, <2>2
<1>3. d < m
  <2> SUFFICES ASSUME m <= d PROVE FALSE
    BY <1>1
  <2>1. m * R <= d * R
    BY <1>1, Multiples
  <2>2. m * R \in Nat /\ d * R \in Nat
    BY <1>1
  <2>3. QED
    BY <1>1, <1>2, <2>1, <2>2
<1>4. f * R + i <= (f + m) * R - 1
  <2>1. (f + m) * R = f * R + m * R /\ f * R \in Nat /\ m * R \in Nat
    BY <1>1
  <2> DEFINE a == f * R
             b == m * R
             c == (f + m) * R
  <2>2. c = a + b /\ a \in Nat /\ b \in Nat /\ i <= b - 1
    BY <1>1, <2>1
  <2> HIDE DEF a, b, c
  <2>3. a + i <= c - 1
    BY <1>1, <2>2
  <2>4. QED
    BY <2>3 DEF a, c
<1>5. QED
  BY <1>1, <1>2, <1>3, <1>4 DEF R, m, f

\* Two plans have no record in common.
LEMMA PlansDisjoint ==
  ASSUME NEW p \in Plan, NEW q \in Plan, WholePlan(p), WholePlan(q), Behind(p, q),
         NEW i \in p.items, NEW j \in q.items
  PROVE  BytesAt(p, i) # BytesAt(q, j)
<1> DEFINE R == RecordsPerPage
           a == p.first * R
           l == LastPage(p) + 1
           b == l * R
           c == q.first * R
<1> SUFFICES ASSUME BytesAt(p, i) = BytesAt(q, j) PROVE FALSE
  OBVIOUS
<1>1. p.list = q.list /\ a + i = c + j
  BY DEF BytesAt
<1>2. /\ R \in Nat /\ p.first \in Nat /\ q.first \in Nat /\ l \in Nat
      /\ i \in Nat /\ j \in Nat /\ p.list \in Nat
  BY PlanTypes, AioConstants
<1>3. l < q.first /\ l <= q.first
  BY <1>1, <1>2 DEF Behind
<1>4. b <= c
  <2>1. l \in Int /\ q.first \in Int
    BY <1>2
  <2> HIDE DEF R, l
  <2>2. QED
    BY <1>2, <1>3, <2>1, Multiples
<1>5. a + i <= b - 1
  BY ItemPage
<1>6. a \in Nat /\ b \in Nat /\ c \in Nat
  <2> HIDE DEF R, l
  <2>1. QED
    BY <1>2
<1> HIDE DEF a, b, c
<1>7. QED
  BY <1>1, <1>2, <1>4, <1>5, <1>6

\* Requests that read X are exact.
LEMMA BuiltExact ==
  ASSUME NEW plans, NEW X, IsFiniteSet(X), Built(plans, X)
  PROVE  LET used == UNION {{k} \X plans[k].items : k \in DOMAIN plans}
         IN  /\ {BytesAt(plans[x[1]], x[2]) : x \in used} = X
             /\ Cardinality(used) = Cardinality(X)
             /\ \A j, k \in DOMAIN plans :
                  j < k /\ plans[j].list = plans[k].list =>
                    LastPage(plans[j]) + 1 < plans[k].first
             /\ \A k \in DOMAIN plans :
                  {plans[k].first + (i \div RecordsPerPage) : i \in plans[k].items}
                    = plans[k].first .. LastPage(plans[k])
<1> DEFINE N == Len(plans)
           used == UNION {{k} \X plans[k].items : k \in 1 .. N}
           At(x) == BytesAt(plans[x[1]], x[2])
           f == [x \in used |-> At(x)]
<1>1. /\ DOMAIN plans = 1 .. N /\ N \in Nat
      /\ \A k \in 1 .. N : plans[k] \in Plan /\ WholePlan(plans[k])
  BY DEF Built
<1>2. /\ \A x \in used : x[1] \in 1 .. N /\ x[2] \in plans[x[1]].items
                         /\ x = <<x[1], x[2]>>
      /\ \A k \in 1 .. N : \A i \in plans[k].items : <<k, i>> \in used
  OBVIOUS
<1> HIDE DEF used
<1>3. \A x \in used : At(x) \in X
  BY <1>2 DEF Built
<1>4. \A y \in X : \E x \in used : At(x) = y
  <2> TAKE y \in X
  <2>1. PICK k \in 1 .. N : \E i \in plans[k].items : BytesAt(plans[k], i) = y
    BY DEF Built
  <2>2. PICK i \in plans[k].items : BytesAt(plans[k], i) = y
    BY <2>1
  <2>3. <<k, i>> \in used /\ At(<<k, i>>) = y
    BY <1>2, <2>2
  <2>4. QED
    BY <2>3
<1>5. \A x, y \in used : At(x) = At(y) => x = y
  <2> SUFFICES ASSUME NEW x \in used, NEW y \in used, At(x) = At(y) PROVE x = y
    OBVIOUS
  <2> DEFINE j == x[1]
             k == y[1]
  <2>1. /\ j \in 1 .. N /\ k \in 1 .. N
        /\ x[2] \in plans[j].items /\ y[2] \in plans[k].items
    BY <1>2
  <2>2. CASE j < k
    <3>1. Behind(plans[j], plans[k])
      BY <2>1, <2>2 DEF Built
    <3>2. QED
      BY <1>1, <2>1, <3>1, PlansDisjoint
  <2>3. CASE k < j
    <3>1. Behind(plans[k], plans[j])
      BY <2>1, <2>3 DEF Built
    <3>2. QED
      BY <1>1, <2>1, <3>1, PlansDisjoint
  <2>4. CASE j = k
    <3> DEFINE a == plans[j].first * RecordsPerPage
    <3>1. a \in Nat /\ x[2] \in Nat /\ y[2] \in Nat
      <4>1. plans[j].first \in Nat /\ RecordsPerPage \in Nat
        BY <1>1, <2>1, PlanTypes, AioConstants
      <4>2. plans[j].items \subseteq Nat
        BY <1>1, <2>1, PlanTypes
      <4>3. QED
        BY <2>1, <2>4, <4>1, <4>2
    <3>2. a + x[2] = a + y[2]
      BY <2>4 DEF BytesAt
    <3> HIDE DEF a
    <3>3. x[2] = y[2]
      BY <3>1, <3>2
    <3>4. QED
      BY <1>2, <2>4, <3>3
  <2>5. QED
    <3>1. j < k \/ k < j \/ j = k
      BY <2>1
    <3>2. QED
      BY <2>2, <2>3, <2>4, <3>1
<1>6. Cardinality(used) = Cardinality(X)
  <2>1. f \in Injection(used, X)
    BY <1>3, <1>5 DEF Injection, IsInjective
  <2>2. f \in Surjection(used, X)
    BY <1>3, <1>4 DEF Surjection
  <2> HIDE DEF f
  <2>3. QED
    BY <2>1, <2>2, FS_Injection
<1>7. {BytesAt(plans[x[1]], x[2]) : x \in used} = X
  BY <1>3, <1>4
<1>8. \A j, k \in 1 .. N : j < k /\ plans[j].list = plans[k].list =>
        LastPage(plans[j]) + 1 < plans[k].first
  <2> SUFFICES ASSUME NEW j \in 1 .. N, NEW k \in 1 .. N, j < k,
                      plans[j].list = plans[k].list
               PROVE  LastPage(plans[j]) + 1 < plans[k].first
    OBVIOUS
  <2>1. Behind(plans[j], plans[k]) /\ plans[k].list \in Nat
    BY <1>1, PlanTypes DEF Built
  <2>2. QED
    BY <2>1 DEF Behind
<1>9. ASSUME NEW k \in 1 .. N
      PROVE  {plans[k].first + (i \div RecordsPerPage) : i \in plans[k].items}
               = plans[k].first .. LastPage(plans[k])
  <2> DEFINE p == plans[k]
  <2>1. p \in Plan /\ WholePlan(p)
    BY <1>1
  <2>2. /\ p.first \in Nat /\ p.pages \in Nat \ {0}
        /\ LastPage(p) = p.first + p.pages - 1
    BY <2>1, PlanTypes
  <2>3. \A i \in p.items : i \div RecordsPerPage \in 0 .. p.pages - 1
    BY <2>1, ItemPage
  <2>4. \A i \in p.items : p.first + (i \div RecordsPerPage) \in p.first .. LastPage(p)
    BY <2>2, <2>3
  <2>5. \A g \in p.first .. LastPage(p) :
          \E i \in p.items : p.first + (i \div RecordsPerPage) = g
    BY <2>1 DEF WholePlan
  <2> HIDE DEF p
  <2>6. {p.first + (i \div RecordsPerPage) : i \in p.items} = p.first .. LastPage(p)
    BY <2>4, <2>5
  <2>7. QED
    BY <2>6 DEF p
<1>10. QED
  BY <1>1, <1>6, <1>7, <1>8, <1>9 DEF used

(***************************************************************************)
(* Sequences without a repetition.                                         *)
(***************************************************************************)
Elements(q) == {q[k] : k \in 1 .. Len(q)}
FirstOf(q, n) == {q[k] : k \in 1 .. n}
Distinct(q) == \A j, k \in 1 .. Len(q) : q[j] = q[k] => j = k

\* The slots of a sequence of completions.
SlotOf(q) == [k \in 1 .. Len(q) |-> q[k].slot]
Event == [slot : Nat, good : BOOLEAN]

\* What is cut off a sequence has none of what stays.
LEMMA CutSequence ==
  ASSUME NEW S, NEW q \in Seq(S), Distinct(q), NEW n \in 0 .. Len(q)
  PROVE  LET p == SubSeq(q, 1, n)
             r == SubSeq(q, n + 1, Len(q))
         IN  /\ p \in Seq(S) /\ r \in Seq(S) /\ Distinct(p) /\ Distinct(r)
             /\ Len(p) = n /\ Len(r) = Len(q) - n
             /\ Elements(p) = FirstOf(q, n)
             /\ Elements(q) = Elements(p) \cup Elements(r)
             /\ Elements(p) \cap Elements(r) = {}
<1> DEFINE p == SubSeq(q, 1, n)
           r == SubSeq(q, n + 1, Len(q))
           L == Len(q)
<1>1. L \in Nat /\ n \in Nat /\ n <= L
  OBVIOUS
<1>2. /\ p \in Seq(S) /\ Len(p) = n /\ \A k \in 1 .. n : p[k] = q[k]
  OBVIOUS
<1>3. /\ r \in Seq(S) /\ Len(r) = L - n /\ \A k \in 1 .. L - n : r[k] = q[n + k]
  OBVIOUS
<1>4. \A j, k \in 1 .. L : q[j] = q[k] => j = k
  BY DEF Distinct
<1> HIDE DEF p, r, L
<1>5. Distinct(p)
  BY <1>1, <1>2, <1>4 DEF Distinct
<1>6. Distinct(r)
  <2>1. \A j, k \in 1 .. L - n : r[j] = r[k] => j = k
    <3> TAKE j, k \in 1 .. L - n
    <3>1. n + j \in 1 .. L /\ n + k \in 1 .. L /\ j \in Nat /\ k \in Nat
      BY <1>1
    <3>2. QED
      BY <1>1, <1>3, <1>4, <3>1
  <2>2. QED
    BY <1>3, <2>1 DEF Distinct
<1>7. Elements(p) = {q[k] : k \in 1 .. n} /\ Elements(r) = {q[n + k] : k \in 1 .. L - n}
  BY <1>2, <1>3, SMTT(30) DEF Elements
<1>8. Elements(q) = Elements(p) \cup Elements(r)
  <2>1. \A k \in 1 .. L : k \in 1 .. n \/ (k - n \in 1 .. L - n /\ k = n + (k - n))
    BY <1>1
  <2>2. (\A k \in 1 .. n : k \in 1 .. L) /\ (\A k \in 1 .. L - n : n + k \in 1 .. L)
    BY <1>1
  <2>3. Elements(q) = {q[k] : k \in 1 .. L}
    BY DEF Elements, L
  <2>4. \A y \in Elements(q) : y \in Elements(p) \/ y \in Elements(r)
    BY <1>7, <2>1, <2>3
  <2>5. QED
    BY <1>7, <2>2, <2>3, <2>4
<1>9. Elements(p) \cap Elements(r) = {}
  <2>1. \A j \in 1 .. n : \A k \in 1 .. L - n : q[j] # q[n + k]
    <3> TAKE j \in 1 .. n
    <3> TAKE k \in 1 .. L - n
    <3>1. j \in 1 .. L /\ n + k \in 1 .. L /\ j # n + k
      BY <1>1
    <3>2. QED
      BY <1>4, <3>1
  <2>2. QED
    BY <1>7, <2>1
<1>10. QED
  BY <1>2, <1>3, <1>5, <1>6, <1>7, <1>8, <1>9 DEF p, r, L, FirstOf

\* The same for one element, at either end.
LEMMA AppendSequence ==
  ASSUME NEW S, NEW q \in Seq(S), Distinct(q), NEW x \in S, x \notin Elements(q)
  PROVE  LET r == Append(q, x)
         IN  /\ r \in Seq(S) /\ Distinct(r) /\ Len(r) = Len(q) + 1
             /\ Elements(r) = Elements(q) \cup {x}
<1> DEFINE r == Append(q, x)
           L == Len(q)
<1>1. /\ r \in Seq(S) /\ Len(r) = L + 1 /\ L \in Nat
      /\ (\A k \in 1 .. L : r[k] = q[k]) /\ r[L + 1] = x
  OBVIOUS
<1>2. /\ \A j, k \in 1 .. L : q[j] = q[k] => j = k
      /\ \A k \in 1 .. L : q[k] # x
      /\ Elements(q) = {q[k] : k \in 1 .. L}
  BY DEF Distinct, Elements
<1> HIDE DEF r, L
<1>3. \A k \in 1 .. L + 1 : k \in 1 .. L \/ k = L + 1
  BY <1>1
<1>3a. L + 1 \in 1 .. L + 1 /\ \A k \in 1 .. L : k \in 1 .. L + 1
  BY <1>1
<1>4. Distinct(r)
  BY <1>1, <1>2, <1>3 DEF Distinct
<1>5. Elements(r) = Elements(q) \cup {x}
  <2>1. Elements(r) = {r[k] : k \in 1 .. L + 1}
    BY <1>1 DEF Elements
  <2>2. QED
    BY <1>1, <1>2, <1>3, <1>3a, <2>1
<1>6. QED
  BY <1>1, <1>4, <1>5 DEF r, L

\* The same for the element at its head.
LEMMA TailSequence ==
  ASSUME NEW S, NEW q \in Seq(S), Distinct(q), q # <<>>
  PROVE  /\ Tail(q) \in Seq(S) /\ Distinct(Tail(q)) /\ Len(Tail(q)) = Len(q) - 1
         /\ Head(q) \in S /\ Head(q) \in Elements(q)
         /\ Elements(Tail(q)) = Elements(q) \ {Head(q)}
<1>1. PICK n \in 0 .. Len(q) : n = 1
  OBVIOUS
<1>2. Tail(q) = SubSeq(q, n + 1, Len(q))
  BY <1>1
<1>3. /\ Tail(q) \in Seq(S) /\ Distinct(Tail(q)) /\ Len(Tail(q)) = Len(q) - n
      /\ Elements(SubSeq(q, 1, n)) = FirstOf(q, n)
      /\ Elements(q) = Elements(SubSeq(q, 1, n)) \cup Elements(Tail(q))
      /\ Elements(SubSeq(q, 1, n)) \cap Elements(Tail(q)) = {}
  <2> DEFINE h == SubSeq(q, 1, n)
             r == SubSeq(q, n + 1, Len(q))
  <2>1. r \in Seq(S) /\ Distinct(r)
    BY CutSequence
  <2>2. Len(r) = Len(q) - n
    BY CutSequence
  <2>3. Elements(h) = FirstOf(q, n)
    BY CutSequence
  <2>4. Elements(q) = Elements(h) \cup Elements(r)
    BY CutSequence
  <2>5. Elements(h) \cap Elements(r) = {}
    BY CutSequence
  <2> HIDE DEF r
  <2>6. QED
    BY <1>2, <2>1, <2>2, <2>3, <2>4, <2>5 DEF r
<1>4. FirstOf(q, n) = {Head(q)} /\ Head(q) \in S
  BY <1>1 DEF FirstOf
<1>5. QED
  BY <1>1, <1>3, <1>4

\* The slots of a part of a queue.
LEMMA CutSlots ==
  ASSUME NEW q \in Seq(Event), NEW n \in 0 .. Len(q)
  PROVE  /\ SlotOf(q) \in Seq(Nat) /\ Len(SlotOf(q)) = Len(q)
         /\ SlotOf(SubSeq(q, 1, n)) = SubSeq(SlotOf(q), 1, n)
         /\ SlotOf(SubSeq(q, n + 1, Len(q))) = SubSeq(SlotOf(q), n + 1, Len(SlotOf(q)))
         /\ SubSeq(q, 1, n) \in Seq(Event)
         /\ SubSeq(q, n + 1, Len(q)) \in Seq(Event)
         /\ Len(SubSeq(q, 1, n)) = n /\ Len(SubSeq(q, n + 1, Len(q))) = Len(q) - n
<1> DEFINE L == Len(q)
           p == SubSeq(q, 1, n)
           r == SubSeq(q, n + 1, L)
           t == SlotOf(q)
<1>1. /\ L \in Nat /\ n \in Nat /\ n <= L
      /\ p \in Seq(Event) /\ r \in Seq(Event) /\ Len(p) = n /\ Len(r) = L - n
      /\ \A k \in 1 .. n : p[k] = q[k]
      /\ \A k \in 1 .. L - n : r[k] = q[n + k]
  OBVIOUS
<1>2. t \in Seq(Nat) /\ Len(t) = L /\ \A k \in 1 .. L : t[k] = q[k].slot
  <2>1. \A k \in 1 .. L : q[k].slot \in Nat
    <3>1. \A k \in 1 .. L : q[k] \in Event
      OBVIOUS
    <3>2. QED
      BY <3>1 DEF Event
  <2>2. t = [k \in 1 .. L |-> q[k].slot]
    BY DEF SlotOf
  <2> HIDE DEF t
  <2>3. t \in Seq(Nat) /\ Len(t) = L
    BY <1>1, <2>1, <2>2
  <2>4. QED
    BY <2>2, <2>3
<1>3. SlotOf(p) = SubSeq(t, 1, n)
  <2>1. SubSeq(t, 1, n) = [k \in 1 .. n |-> t[k]]
    BY <1>1, <1>2
  <2>2. SlotOf(p) = [k \in 1 .. n |-> p[k].slot]
    BY <1>1 DEF SlotOf
  <2> HIDE DEF p, t
  <2>3. \A k \in 1 .. n : p[k].slot = t[k]
    BY <1>1, <1>2
  <2>4. QED
    BY <2>1, <2>2, <2>3
<1>4. SlotOf(r) = SubSeq(t, n + 1, L)
  <2>1. SubSeq(t, n + 1, L) = [k \in 1 .. L - n |-> t[n + k]]
    BY <1>1, <1>2
  <2>2. SlotOf(r) = [k \in 1 .. L - n |-> r[k].slot]
    BY <1>1 DEF SlotOf
  <2> HIDE DEF r, t
  <2>3. \A k \in 1 .. L - n : r[k].slot = t[n + k]
    <3>1. \A k \in 1 .. L - n : n + k \in 1 .. L
      BY <1>1
    <3>2. QED
      BY <1>1, <1>2, <3>1
  <2>4. QED
    BY <2>1, <2>2, <2>3
<1>5. QED
  BY <1>1, <1>2, <1>3, <1>4

\* The slots of a queue with one more completion.
LEMMA AppendSlot ==
  ASSUME NEW q \in Seq(Event), NEW e \in Event
  PROVE  /\ SlotOf(Append(q, e)) = Append(SlotOf(q), e.slot)
         /\ Append(q, e) \in Seq(Event)
<1> DEFINE L == Len(q)
           p == Append(q, e)
           t == SlotOf(q)
           u == SlotOf(p)
<1>1. /\ L \in Nat /\ p \in Seq(Event) /\ Len(p) = L + 1 /\ p[L + 1] = e
      /\ \A k \in 1 .. L : p[k] = q[k]
  OBVIOUS
<1>2. t \in Seq(Nat) /\ Len(t) = L /\ \A k \in 1 .. L : t[k] = q[k].slot
  <2>1. \A k \in 1 .. L : q[k].slot \in Nat
    <3>1. \A k \in 1 .. L : q[k] \in Event
      OBVIOUS
    <3>2. QED
      BY <3>1 DEF Event
  <2>2. t = [k \in 1 .. L |-> q[k].slot]
    BY DEF SlotOf
  <2> HIDE DEF t
  <2>3. t \in Seq(Nat) /\ Len(t) = L
    BY <1>1, <2>1, <2>2
  <2>4. QED
    BY <2>2, <2>3
<1>3. u = [k \in 1 .. L + 1 |-> p[k].slot]
  BY <1>1 DEF SlotOf
<1>4. Append(t, e.slot) = [k \in 1 .. L + 1 |-> IF k = L + 1 THEN e.slot ELSE t[k]]
  BY <1>2
<1> HIDE DEF p, t, u
<1>5. \A k \in 1 .. L + 1 : p[k].slot = IF k = L + 1 THEN e.slot ELSE t[k]
  <2>1. \A k \in 1 .. L + 1 : k = L + 1 \/ k \in 1 .. L
    BY <1>1
  <2>2. QED
    BY <1>1, <1>2, <2>1
<1>6. u = Append(t, e.slot)
  BY <1>3, <1>4, <1>5
<1>7. QED
  BY <1>1, <1>6 DEF p, t, u

(***************************************************************************)
(* The inductive invariant of the refiner.                                 *)
(***************************************************************************)
PlanIndex == 1 .. Len(call.plans)

\* The slots of the operations the kernel executes, of the completions queued
\* and of those fetched, and of the requests that wait to be submitted.
Working == {op.slot : op \in kernel}
Queued == Elements(SlotOf(ready))
Fetched == Elements(SlotOf(events))
Waiting == Elements(submissions)
Busy == (Working \cup Queued) \cup (Fetched \cup Waiting)

\* The thread is in refine_aio, or in a window at all.
InAio == pc \in {"submit", "wait", "process"}
InWindow == InAio \/ pc = "blocking"

\* The domains of the variables.
Domains ==
  /\ pc \in {"idle", "open", "blocking", "submit", "wait", "process", "close",
             "catch", "catchClose", "rethrow"}
  /\ window \in [list_begin : Nat, list_end : Nat,
                 plan_begin : Nat, plan_end : Nat]
  /\ next_plan \in Nat /\ offered \in Nat /\ inflight \in Nat /\ context \in Nat
  /\ submissions \in Seq(Nat)
  /\ events \in Seq(Event) /\ ready \in Seq(Event)
  /\ kernel \subseteq [slot : Nat, plan : Nat] /\ IsFiniteSet(kernel)

\* What refine() was called with, what it made of it, and the context it got.
Called ==
  /\ call.candidates \in Requests \cup {{}}
  /\ pc = "idle" => call.plans = <<>>
  /\ pc # "idle" => /\ call.candidates \in Requests
                    /\ call.depth \in Nat \ {0} /\ call.limit \in Nat \ {0}
                    /\ Built(call.plans, call.candidates)
                    /\ Listed(call.plans, call.lists)
                    /\ result = <<>>
  /\ pc \notin {"idle", "catchClose", "rethrow"} =>
       (call.depth > 1 => call.depth <= context)

\* The first p plans are those of the first e lists.
Covers(p, e) ==
  \A k \in PlanIndex : k <= p <=> \E j \in 1 .. e : call.plans[k].list = call.lists[j]

\* The windows cut the plans and the lists at the same places, and the files
\* that are open are those of the window.
Windows ==
  /\ pc # "idle" =>
       /\ window.list_begin <= window.list_end
       /\ window.list_end <= Len(call.lists)
       /\ window.plan_begin <= window.plan_end
       /\ window.plan_end <= Len(call.plans)
       /\ Covers(window.plan_begin, window.list_begin)
       /\ Covers(window.plan_end, window.list_end)
  /\ InWindow => /\ window.plan_begin < next_plan
                 /\ next_plan <= window.plan_end + 1
  /\ InWindow \/ pc = "close" \/ kernel # {} =>
       files = {call.lists[j] : j \in window.list_begin + 1 .. window.list_end}
  /\ pc \in {"idle", "open", "rethrow"} => files = {}

\* The kernel and the completion queue hold different slots, and are empty
\* outside the part of a call that uses them.
Queues ==
  /\ \A o1, o2 \in kernel : o1.slot = o2.slot => o1 = o2
  /\ Distinct(SlotOf(ready))
  /\ Working \cap Queued = {}
  /\ Working \cup Queued \subseteq 1 .. call.depth
  /\ \A op \in kernel : op.plan \in window.plan_begin + 1 .. window.plan_end
  /\ kernel # {} \/ ready # <<>> => (InAio \/ pc = "catch") /\ call.depth > 1

\* A slot of refine_aio is in one place at most.
Placed ==
  /\ ~InAio => slots = <<>> /\ submissions = <<>> /\ events = <<>>
  /\ InAio =>
       /\ call.depth > 1
       /\ slots \in [1 .. call.depth -> [plan : Nat, bytes : Nat]]
       /\ Distinct(SlotOf(events)) /\ Distinct(submissions)
       /\ (Fetched \cup Waiting) \cap (Working \cup Queued) = {}
       /\ Fetched \cap Waiting = {}
       /\ Fetched \cup Waiting \subseteq 1 .. call.depth

\* An operation is that of its slot, and when it is complete its slot's buffer
\* holds the pages of its slot's plan.
Filled ==
  InAio => /\ \A op \in kernel : slots[op.slot].plan = op.plan
           /\ \A s \in Queued \cup Fetched : slots[s].plan = slots[s].bytes
           /\ \A s \in 1 .. call.depth : /\ slots[s].plan <= Len(call.plans)
                                         /\ slots[s].bytes <= Len(call.plans)

\* The plans in work are among those prepared, each in one slot, and there is
\* work while a plan of the window is left.
Assigned ==
  InAio =>
    /\ \A s \in Busy : slots[s].plan \in window.plan_begin + 1 .. next_plan - 1
    /\ \A s, t \in Busy : slots[s].plan = slots[t].plan => s = t
    /\ next_plan <= window.plan_end => Busy # {}

\* inflight counts the operations that were submitted and not yet processed.
Counted ==
  /\ pc = "submit" => /\ events = <<>>
                      /\ inflight + offered
                           = Cardinality(kernel) + Len(ready) + Len(submissions)
  /\ pc = "wait" => /\ events = <<>> /\ submissions = <<>> /\ offered = 0
                    /\ inflight = Cardinality(kernel) + Len(ready)
  /\ pc = "process" => /\ offered = 0
                       /\ inflight = Cardinality(kernel) + Len(ready) + Len(events)

-----------------------------------------------------------------------------
\* The actions that keep what the call was asked and got.
KeepsCall ==
  \/ OpenFiles \/ BlockingRead \/ BlockingDone
  \/ Submit \/ SubmitDone \/ GetEvents \/ ProcessEvent \/ BadEvent
  \/ EventsDone \/ WaitDone \/ CloseFiles \/ CatchClose
  \/ CallFailure \/ KernelCompletes

\* No call at first.
LEMMA CalledInit == Init => Called
BY AioConstants DEF Init, Called, NoCall

\* Among others, they do not begin or end a call.
LEMMA KeepsCallFacts ==
  ASSUME KeepsCall, Called
  PROVE  /\ call' = call /\ result' = result /\ context' = context
         /\ pc = "idle" => pc' = "idle"
         /\ pc # "idle" => pc' # "idle"
         /\ pc \in {"idle", "catchClose", "rethrow"} =>
              pc' \in {"idle", "catchClose", "rethrow"}
BY DEF KeepsCall, OpenFiles, BlockingRead, BlockingDone, Submit, SubmitDone, GetEvents,
       ProcessEvent, BadEvent, EventsDone, WaitDone, CloseFiles, CatchClose, CallFailure,
       OpenFails, BlockingFails, AioThrows, LeaveAio, KernelCompletes, callVars, kernelVars

\* Called is inductive.
LEMMA CalledStep ==
  ASSUME Domains, Called, Next
  PROVE  Called'
<1>1. CASE StartCall
  <2>1. PICK c \in Requests, o \in Options :
          /\ call' = [candidates |-> c, depth |-> o[1], limit |-> o[2],
                      plans |-> BuildReadPlans(c),
                      lists |-> DistinctLists(BuildReadPlans(c))]
          /\ context' = Acquired(o[1])
    BY <1>1 DEF StartCall
  <2>2. pc' = "open" /\ result' = <<>>
    BY <1>1 DEF StartCall
  <2>3. Built(BuildReadPlans(c), c)
    BY AioConstants, PlansBuilt
  <2>4. Listed(BuildReadPlans(c), DistinctLists(BuildReadPlans(c)))
    BY <2>3, ListsOfPlans DEF Built
  <2>5. o[1] \in Nat \ {0} /\ o[2] \in Nat \ {0}
    <3>1. o \in (Nat \ {0}) \X Nat /\ o[2] >= o[1]
      BY AioConstants
    <3>2. QED
      BY <3>1
  <2>6. o[1] > 1 => o[1] <= context'
    BY <2>1, <2>5 DEF Acquired, Domains
  <2>7. QED
    BY <2>1, <2>2, <2>3, <2>4, <2>5, <2>6 DEF Called
<1>2. CASE AcquireFails \/ ThreadEnds
  BY <1>2 DEF AcquireFails, ThreadEnds, Called, callVars
<1>3. CASE KeepsCall
  BY <1>3, KeepsCallFacts DEF Called
<1>4. CASE ReturnTopK \/ Rethrow
  <2>1. pc' = "idle" /\ (call' = [NoCall EXCEPT !.candidates = call.candidates]
                         \/ call' = [NoCall EXCEPT !.candidates = {}])
    BY <1>4 DEF ReturnTopK, Rethrow, EndCall
  <2>2. call'.plans = <<>> /\ call'.candidates \in Requests \cup {{}}
    BY <2>1 DEF NoCall, Called
  <2>3. QED
    BY <2>1, <2>2 DEF Called
<1>5. CASE CatchDestroy
  BY <1>5 DEF CatchDestroy, Called, callVars
<1>6. QED
  BY <1>1, <1>2, <1>3, <1>4, <1>5 DEF Next, CallStep, KeepsCall

(***************************************************************************)
(* open_files: the windows.                                                *)
(***************************************************************************)
\* Where the plans end that the first lists have.
LEMMA CoveredPrefix ==
  ASSUME NEW plans \in Seq(Plan), NEW lists, Listed(plans, lists),
         \A j, k \in 1 .. Len(plans) : j < k => Behind(plans[j], plans[k]),
         NEW end \in 1 .. Len(lists)
  PROVE  LET K == {k \in DOMAIN plans : plans[k].list <= lists[end]}
         IN  /\ Cardinality(K) \in 0 .. Len(plans)
             /\ \A k \in 1 .. Len(plans) :
                  k <= Cardinality(K) <=> \E j \in 1 .. end : plans[k].list = lists[j]
<1> DEFINE N == Len(plans)
           L == Len(lists)
           l(k) == plans[k].list
           K == {k \in 1 .. N : l(k) <= lists[end]}
<1>1. N \in Nat /\ \A k \in 1 .. N : l(k) \in Nat
  <2>1. N \in Nat /\ \A k \in 1 .. N : plans[k] \in Plan
    OBVIOUS
  <2>2. QED
    BY <2>1 DEF Plan
<1>2. DOMAIN plans = 1 .. N
  OBVIOUS
<1>3. /\ L \in Nat /\ \A j \in 1 .. L : lists[j] \in Nat
      /\ \A j, k \in 1 .. L : j < k => lists[j] < lists[k]
      /\ \A k \in 1 .. N : \E j \in 1 .. L : l(k) = lists[j]
  BY DEF Listed
<1>4. \A j, k \in 1 .. N : j < k => l(j) <= l(k)
  <2> TAKE j, k \in 1 .. N
  <2> HAVE j < k
  <2>1. Behind(plans[j], plans[k])
    OBVIOUS
  <2>2. QED
    BY <1>1, <2>1 DEF Behind
<1> HIDE DEF N, L, l
<1>5. \A k \in K : \A j \in 1 .. k : j \in K
  <2> TAKE k \in K
  <2> TAKE j \in 1 .. k
  <2>1. k \in 1 .. N /\ j \in 1 .. N /\ (j < k \/ j = k) /\ end \in 1 .. L
    BY <1>1 DEF L
  <2>2. l(j) <= l(k) /\ l(j) \in Nat /\ l(k) \in Nat /\ lists[end] \in Nat
    BY <1>1, <1>3, <1>4, <2>1
  <2>3. QED
    BY <2>1, <2>2
<1>6. K = 1 .. Cardinality(K) /\ Cardinality(K) \in 0 .. N
  <2>1. K \subseteq 1 .. N
    OBVIOUS
  <2> HIDE DEF K
  <2>2. QED
    BY <1>1, <1>5, <2>1, PrefixLength
<1>7. \A k \in 1 .. N : k \in K <=> \E j \in 1 .. end : l(k) = lists[j]
  <2> TAKE k \in 1 .. N
  <2>1. PICK j \in 1 .. L : l(k) = lists[j]
    BY <1>3
  <2>2. /\ end \in 1 .. L /\ lists[end] \in Nat /\ lists[j] \in Nat /\ L \in Nat
        /\ \A i \in 1 .. end : i \in 1 .. L /\ lists[i] <= lists[end]
    <3>1. end \in 1 .. L /\ L \in Nat
      BY <1>3 DEF L
    <3>2. \A i \in 1 .. end : i \in 1 .. L /\ (i < end \/ i = end)
      BY <3>1
    <3>3. QED
      BY <1>3, <3>1, <3>2
  <2>3. CASE j <= end
    <3>1. j \in 1 .. end
      BY <2>2, <2>3
    <3>2. QED
      BY <2>1, <2>2, <3>1
  <2>4. CASE end < j
    <3>1. lists[end] < lists[j]
      BY <1>3, <2>2, <2>4
    <3>2. ~(l(k) <= lists[end])
      BY <2>1, <2>2, <3>1
    <3>3. QED
      BY <2>2, <3>2
  <2>5. QED
    BY <2>2, <2>3, <2>4
<1>8. \A k \in 1 .. N : k \in K <=> k <= Cardinality(K)
  <2> HIDE DEF K
  <2>1. QED
    BY <1>1, <1>6
<1>9. QED
  BY <1>2, <1>6, <1>7, <1>8 DEF N, l

\* The types of what a call in progress has made.
LEMMA CallTypes ==
  ASSUME Called, pc # "idle"
  PROVE  /\ call.plans \in Seq(Plan) /\ call.lists \in Seq(Nat)
         /\ Len(call.plans) \in Nat /\ Len(call.lists) \in Nat
         /\ call.depth \in Nat \ {0} /\ call.limit \in Nat \ {0}
         /\ PlanIndex \subseteq Nat
         /\ \A k \in PlanIndex : call.plans[k] \in Plan /\ WholePlan(call.plans[k])
BY DEF Called, Built, Listed, PlanIndex

\* The next window begins where the last one ended, and is not empty.
LEMMA NextWindowFacts ==
  ASSUME Domains, Called, Windows, pc # "idle", window.list_end < Len(call.lists)
  PROVE  /\ NextWindow \in [list_begin : Nat, list_end : Nat,
                            plan_begin : Nat, plan_end : Nat]
         /\ NextWindow.list_begin = window.list_end
         /\ NextWindow.plan_begin = window.plan_end
         /\ window.list_end < NextWindow.list_end
         /\ NextWindow.list_end <= Len(call.lists)
         /\ window.plan_end <= NextWindow.plan_end
         /\ NextWindow.plan_end <= Len(call.plans)
         /\ Covers(NextWindow.plan_end, NextWindow.list_end)
<1> DEFINE end == LowerOf(Len(call.lists), window.list_end + call.limit)
           K == {k \in DOMAIN call.plans : call.plans[k].list <= call.lists[end]}
           b == window.list_end
           p == window.plan_end
           c == Cardinality(K)
<1>1. b \in Nat /\ p \in Nat /\ p <= Len(call.plans) /\ Covers(p, b)
  BY DEF Domains, Windows
<1>2. /\ Len(call.plans) \in Nat /\ Len(call.lists) \in Nat
      /\ call.limit \in Nat \ {0}
  BY CallTypes
<1>3. end \in 1 .. Len(call.lists) /\ b < end
  BY <1>1, <1>2 DEF LowerOf
<1> HIDE DEF end
<1>4. /\ call.plans \in Seq(Plan) /\ Listed(call.plans, call.lists)
      /\ \A j, k \in 1 .. Len(call.plans) : j < k => Behind(call.plans[j], call.plans[k])
  BY DEF Called, Built
<1>5. /\ c \in 0 .. Len(call.plans)
      /\ \A k \in 1 .. Len(call.plans) :
           k <= c <=> \E j \in 1 .. end : call.plans[k].list = call.lists[j]
  BY <1>3, <1>4, CoveredPrefix
<1>6. NextWindow = [list_begin |-> b, list_end |-> end, plan_begin |-> p, plan_end |-> c]
  BY DEF NextWindow, end
<1> HIDE DEF c, b, p
<1>7. p <= c
  <2> SUFFICES ASSUME c < p PROVE FALSE
    BY <1>1, <1>5
  <2>1. p \in PlanIndex /\ p <= p
    BY <1>1, <1>2, <1>5 DEF PlanIndex
  <2>2. PICK j \in 1 .. b : call.plans[p].list = call.lists[j]
    BY <1>1, <2>1 DEF Covers
  <2>3. j \in 1 .. end
    BY <1>1, <1>3
  <2>4. p <= c
    BY <1>5, <2>1, <2>2, <2>3 DEF PlanIndex
  <2>5. QED
    BY <1>1, <1>5, <2>4
<1>8. Covers(c, end)
  BY <1>5 DEF Covers, PlanIndex
<1>9. end \in Nat /\ c \in Nat /\ end <= Len(call.lists) /\ c <= Len(call.plans)
  BY <1>2, <1>3, <1>5
<1>10. QED
  BY <1>1, <1>3, <1>6, <1>7, <1>8, <1>9 DEF b, p

\* The actions that leave the window, its plans and its files alone.
KeepsWindow ==
  \/ BlockingDone \/ Submit \/ SubmitDone \/ GetEvents \/ BadEvent \/ EventsDone
  \/ WaitDone \/ CallFailure \/ KernelCompletes \/ CatchDestroy

\* Among others, they do not begin or end a window, but for "close".
LEMMA KeepsWindowFacts ==
  ASSUME KeepsWindow
  PROVE  /\ window' = window /\ next_plan' = next_plan /\ files' = files
         /\ call' = call
         /\ pc' \in {"idle", "open"} => pc' = pc
         /\ pc' = "rethrow" => pc \in {"open", "rethrow"}
         /\ pc = "idle" => pc' = "idle"
         /\ InWindow' => InWindow
         /\ pc' = "close" => pc = "close" \/ InWindow
         /\ kernel' # {} => kernel # {} \/ InWindow
<1>1. CASE BlockingDone
  BY <1>1 DEF BlockingDone, InWindow, InAio, callVars, kernelVars
<1>2. CASE Submit
  BY <1>2 DEF Submit, InWindow, InAio, callVars
<1>3. CASE SubmitDone
  BY <1>3 DEF SubmitDone, InWindow, InAio, callVars, kernelVars
<1>4. CASE GetEvents
  BY <1>4 DEF GetEvents, InWindow, InAio, callVars
<1>5. CASE BadEvent
  BY <1>5 DEF BadEvent, LeaveAio, InWindow, InAio, callVars, kernelVars
<1>6. CASE EventsDone
  BY <1>6 DEF EventsDone, InWindow, InAio, callVars, kernelVars
<1>7. CASE WaitDone
  BY <1>7 DEF WaitDone, InWindow, InAio, callVars, kernelVars
<1>8. CASE OpenFails
  BY <1>8 DEF OpenFails, InWindow, InAio, callVars, kernelVars
<1>9. CASE BlockingFails
  BY <1>9 DEF BlockingFails, InWindow, InAio, callVars, kernelVars
<1>10. CASE AioThrows
  BY <1>10 DEF AioThrows, LeaveAio, InWindow, InAio, callVars, kernelVars
<1>11. CASE KernelCompletes
  BY <1>11 DEF KernelCompletes, InWindow, InAio, callVars
<1>12. CASE CatchDestroy
  BY <1>12 DEF CatchDestroy, ResetContext, InWindow, InAio, callVars
<1>13. QED
  BY <1>1, <1>2, <1>3, <1>4, <1>5, <1>6, <1>7, <1>8, <1>9, <1>10, <1>11, <1>12
     DEF KeepsWindow, CallFailure

\* No window at first.
LEMMA WindowsInit == Init => Windows
BY DEF Init, Windows, InWindow, InAio

\* Windows is inductive.
LEMMA WindowsStep ==
  ASSUME Domains, Called, Windows, Queues, Next
  PROVE  Windows'
<1>1. CASE StartCall
  <2>1. pc = "idle" /\ pc' = "open" /\ window' = NoWindow /\ files' = files /\ kernel' = kernel
    BY <1>1 DEF StartCall
  <2>2. files' = {} /\ kernel' = {} /\ ~InWindow'
    BY <2>1 DEF Windows, Queues, InWindow, InAio
  <2>3. Called'
    BY CalledStep
  <2>4. Len(call.lists)' \in Nat /\ Len(call.plans)' \in Nat
    BY <2>1, <2>3 DEF Called, Built, Listed
  <2>5. Covers(0, 0)'
    <3>1. \A k \in PlanIndex' : ~(k <= 0)
      BY <2>4 DEF PlanIndex
    <3>2. 1 .. 0 = {}
      OBVIOUS
    <3>3. QED
      BY <3>1, <3>2 DEF Covers
  <2>6. QED
    BY <2>1, <2>2, <2>4, <2>5 DEF Windows, NoWindow, Covers
<1>2. CASE AcquireFails \/ ThreadEnds
  <2>1. /\ pc' = "idle" /\ pc = "idle" /\ files' = files /\ kernel' = kernel
    BY <1>2 DEF AcquireFails, ThreadEnds, callVars
  <2>2. QED
    BY <2>1 DEF Windows, Queues, InWindow, InAio
<1>3. CASE OpenFiles
  <2>1. /\ pc = "open" /\ window.list_end < Len(call.lists) /\ window' = NextWindow
        /\ files' = {call.lists[k] :
                       k \in (NextWindow.list_begin + 1) .. NextWindow.list_end}
        /\ call' = call
        /\ \/ pc' = "blocking" /\ next_plan' = NextWindow.plan_begin + 1
           \/ /\ pc' = "submit"
              /\ next_plan' = NextWindow.plan_begin
                   + LowerOf(call.depth, NextWindow.plan_end - NextWindow.plan_begin) + 1
    BY <1>3 DEF OpenFiles
  <2> DEFINE b == NextWindow.plan_begin
             e == NextWindow.plan_end
  <2>2. /\ b \in Nat /\ e \in Nat /\ b <= e /\ call.depth \in Nat
        /\ NextWindow.list_begin \in Nat /\ NextWindow.list_end \in Nat
        /\ NextWindow.list_begin <= NextWindow.list_end
        /\ NextWindow.list_end <= Len(call.lists) /\ e <= Len(call.plans)
        /\ Covers(e, NextWindow.list_end) /\ Covers(b, NextWindow.list_begin)
    <3>1. Covers(window.plan_end, window.list_end) /\ window.list_end \in Nat
      BY <2>1 DEF Windows, Domains
    <3>2. call.depth \in Nat
      BY <2>1, CallTypes
    <3>3. QED
      BY <2>1, <3>1, <3>2, NextWindowFacts
  <2>3. b < next_plan' /\ next_plan' <= e + 1
    BY <2>1, <2>2 DEF LowerOf
  <2>4. \A p, j : Covers(p, j)' <=> Covers(p, j)
    BY <2>1 DEF Covers, PlanIndex
  <2>5. pc' \notin {"idle", "open", "rethrow", "close"}
    BY <2>1
  <2>6. QED
    BY <2>1, <2>2, <2>3, <2>4, <2>5 DEF Windows
<1>4. CASE ReturnTopK \/ Rethrow
  <2>1. /\ pc \in {"open", "rethrow"} /\ pc' = "idle" /\ files' = files
        /\ kernel' \subseteq kernel
    BY <1>4 DEF ReturnTopK, Rethrow, EndCall, ResetContext, kernelVars
  <2>2. QED
    BY <2>1 DEF Windows, Queues, InWindow, InAio
<1>5. CASE BlockingRead \/ ProcessEvent
  <2>1. /\ pc' = pc /\ window' = window /\ files' = files /\ kernel' = kernel
        /\ call' = call
        /\ next_plan' = next_plan \/ (next_plan <= window.plan_end
                                       /\ next_plan' = next_plan + 1)
    BY <1>5 DEF BlockingRead, ProcessEvent, kernelVars
  <2>2. window.plan_end \in Nat /\ window.plan_begin \in Nat /\ next_plan \in Nat
    BY DEF Domains
  <2>3. InWindow' => window'.plan_begin < next_plan' /\ next_plan' <= window'.plan_end + 1
    BY <2>1, <2>2 DEF Windows, InWindow, InAio
  <2>4. \A p, j : Covers(p, j)' <=> Covers(p, j)
    BY <2>1 DEF Covers, PlanIndex
  <2>5. QED
    BY <2>1, <2>3, <2>4 DEF Windows, InWindow, InAio
<1>6. CASE CloseFiles \/ CatchClose
  <2>1. /\ pc \in {"close", "catchClose"} /\ pc' \in {"open", "catch", "rethrow"}
        /\ files' = {} /\ window' = window /\ kernel' = kernel /\ call' = call
    BY <1>6 DEF CloseFiles, CatchClose, kernelVars
  <2>2. kernel = {}
    BY <2>1 DEF Queues, InAio
  <2>3. \A p, j : Covers(p, j)' <=> Covers(p, j)
    BY <2>1 DEF Covers, PlanIndex
  <2>4. QED
    BY <2>1, <2>2, <2>3 DEF Windows, InWindow, InAio
<1>7. CASE KeepsWindow
  <2>1. \A p, j : Covers(p, j)' <=> Covers(p, j)
    BY <1>7, KeepsWindowFacts DEF Covers, PlanIndex
  <2>2. QED
    BY <1>7, <2>1, KeepsWindowFacts DEF Windows
<1>8. QED
  BY <1>1, <1>2, <1>3, <1>4, <1>5, <1>6, <1>7 DEF Next, CallStep, KeepsWindow

(***************************************************************************)
(* Completions and requests move from one queue to the next.               *)
(***************************************************************************)
\* The slots of a queue without its oldest completion.
LEMMA TailSlots ==
  ASSUME NEW q \in Seq(Event), q # <<>>
  PROVE  /\ Tail(q) \in Seq(Event) /\ Len(Tail(q)) = Len(q) - 1
         /\ Head(q) \in Event
         /\ SlotOf(q) # <<>> /\ SlotOf(q) \in Seq(Nat)
         /\ SlotOf(Tail(q)) = Tail(SlotOf(q))
         /\ Head(SlotOf(q)) = Head(q).slot
<1> DEFINE t == SlotOf(q)
<1>1. PICK n \in 0 .. Len(q) : n = 1
  OBVIOUS
<1>2. t \in Seq(Nat) /\ Len(t) = Len(q)
  BY CutSlots
<1>3. SlotOf(SubSeq(q, n + 1, Len(q))) = SubSeq(t, n + 1, Len(t))
  BY CutSlots
<1>4. t[1] = q[1].slot
  BY DEF SlotOf
<1> HIDE DEF t
<1>5. Tail(q) = SubSeq(q, n + 1, Len(q)) /\ Tail(t) = SubSeq(t, n + 1, Len(t))
  BY <1>1, <1>2
<1>6. SlotOf(Tail(q)) = Tail(t)
  BY <1>3, <1>5
<1>7. Tail(q) \in Seq(Event) /\ Len(Tail(q)) = Len(q) - 1 /\ Head(q) \in Event
  OBVIOUS
<1>8. t # <<>> /\ Head(t) = Head(q).slot
  BY <1>2, <1>4
<1>9. QED
  BY <1>2, <1>6, <1>7, <1>8 DEF t

\* The kernel finishes an operation.
LEMMA KernelMove ==
  ASSUME Domains, Queues, NEW op \in kernel, NEW good \in BOOLEAN,
         kernel' = kernel \ {op},
         ready' = Append(ready, [slot |-> op.slot, good |-> good])
  PROVE  /\ op \in [slot : Nat, plan : Nat]
         /\ IsFiniteSet(kernel')
         /\ Cardinality(kernel') = Cardinality(kernel) - 1
         /\ ready' \in Seq(Event) /\ Len(ready') = Len(ready) + 1
         /\ Distinct(SlotOf(ready))'
         /\ op.slot \in Working /\ op.slot \notin Queued
         /\ Working' = Working \ {op.slot}
         /\ Queued' = Queued \cup {op.slot}
<1> DEFINE e == [slot |-> op.slot, good |-> good]
<1>1. op \in [slot : Nat, plan : Nat] /\ e \in Event /\ e.slot = op.slot
  BY DEF Domains, Event
<1>2. op.slot \in Working /\ op.slot \notin Queued
  BY DEF Working, Queues
<1>3. IsFiniteSet(kernel') /\ Cardinality(kernel') = Cardinality(kernel) - 1
  BY FS_RemoveElement DEF Domains
<1>4. Working' = Working \ {op.slot}
  BY DEF Working, Queues
<1> HIDE DEF e
<1>5. ready' = Append(ready, e) /\ ready \in Seq(Event)
  BY DEF e, Domains
<1>6. SlotOf(ready') = Append(SlotOf(ready), e.slot) /\ ready' \in Seq(Event)
  BY <1>1, <1>5, AppendSlot
<1>7. SlotOf(ready) \in Seq(Nat) /\ Distinct(SlotOf(ready)) /\ e.slot \in Nat
      /\ e.slot \notin Elements(SlotOf(ready))
  <2>1. 0 \in 0 .. Len(ready)
    BY <1>5
  <2>2. SlotOf(ready) \in Seq(Nat)
    BY <1>5, <2>1, CutSlots
  <2>3. QED
    BY <1>1, <1>2, <2>2 DEF Queues, Queued
<1>8. /\ Distinct(SlotOf(ready'))
      /\ Elements(SlotOf(ready')) = Elements(SlotOf(ready)) \cup {e.slot}
  <2> DEFINE q == SlotOf(ready)
             x == e.slot
  <2> HIDE DEF q, x
  <2>1. q \in Seq(Nat) /\ Distinct(q) /\ x \in Nat /\ x \notin Elements(q)
    BY <1>7 DEF q, x
  <2>2. Distinct(Append(q, x)) /\ Elements(Append(q, x)) = Elements(q) \cup {x}
    BY <2>1, AppendSequence
  <2>3. QED
    BY <1>6, <2>2 DEF q, x
<1>9. Len(ready') = Len(ready) + 1
  BY <1>5
<1>10. QED
  BY <1>1, <1>2, <1>3, <1>4, <1>6, <1>8, <1>9 DEF Queued

\* A sequence has as many elements as it is long.
LEMMA CountFirst ==
  ASSUME NEW q \in Seq(Nat), Distinct(q), NEW n \in 0 .. Len(q)
  PROVE  IsFiniteSet(FirstOf(q, n)) /\ Cardinality(FirstOf(q, n)) = n
<1> DEFINE f == [k \in 1 .. n |-> q[k]]
<1>1. n \in Nat /\ \A k \in 1 .. n : k \in 1 .. Len(q)
  OBVIOUS
<1>2. \A j, k \in 1 .. n : q[j] = q[k] => j = k
  BY <1>1 DEF Distinct
<1>3. f \in Bijection(1 .. n, FirstOf(q, n))
  BY <1>2 DEF Bijection, Injection, Surjection, IsInjective, FirstOf
<1> HIDE DEF f
<1>4. IsFiniteSet(1 .. n) /\ Cardinality(1 .. n) = n
  <2>1. 1 \in Int /\ n \in Int /\ (1 > n => n = 0) /\ n - 1 + 1 = n
    BY <1>1
  <2>2. QED
    BY <2>1, FS_Interval
<1>5. ExistsBijection(1 .. n, FirstOf(q, n))
  BY <1>3 DEF ExistsBijection
<1>6. QED
  BY <1>4, <1>5, FS_Bijection

\* io_submit accepts some of the requests.
LEMMA SubmitMove ==
  ASSUME Domains, Queues, Placed, pc = "submit",
         NEW n \in 1 .. Len(submissions),
         kernel' = kernel \cup {[slot |-> s, plan |-> slots[s].plan] :
                                  s \in {submissions[k] : k \in 1 .. n}},
         submissions' = SubSeq(submissions, n + 1, Len(submissions))
  PROVE  /\ kernel' \subseteq [slot : Nat, plan : Nat] /\ IsFiniteSet(kernel')
         /\ Cardinality(kernel') = Cardinality(kernel) + n
         /\ submissions' \in Seq(Nat) /\ Len(submissions') = Len(submissions) - n
         /\ Distinct(submissions')
         /\ \A o1, o2 \in kernel' : o1.slot = o2.slot => o1 = o2
         /\ \E T \in SUBSET Waiting :
              /\ Waiting' = Waiting \ T
              /\ Working' = Working \cup T
              /\ kernel' = kernel \cup {[slot |-> s, plan |-> slots[s].plan] : s \in T}
<1> DEFINE T == FirstOf(submissions, n)
           News == {[slot |-> s, plan |-> slots[s].plan] : s \in T}
<1>1. /\ submissions \in Seq(Nat) /\ n \in 0 .. Len(submissions) /\ n \in Nat
      /\ Distinct(submissions) /\ IsFiniteSet(kernel)
  BY DEF Domains, Placed, InAio
<1>2. /\ submissions' \in Seq(Nat) /\ Distinct(submissions')
      /\ Len(submissions') = Len(submissions) - n
      /\ Waiting = T \cup Waiting' /\ T \cap Waiting' = {}
  <2> DEFINE p == SubSeq(submissions, 1, n)
             r == SubSeq(submissions, n + 1, Len(submissions))
  <2>1. r \in Seq(Nat) /\ Distinct(r)
    BY <1>1, CutSequence
  <2>2. Len(r) = Len(submissions) - n
    BY <1>1, CutSequence
  <2>3. Elements(p) = T
    BY <1>1, CutSequence
  <2>4. Elements(submissions) = Elements(p) \cup Elements(r)
    BY <1>1, CutSequence
  <2>5. Elements(p) \cap Elements(r) = {}
    BY <1>1, CutSequence
  <2>6. submissions' = r
    OBVIOUS
  <2> HIDE DEF p, r, T
  <2>7. QED
    BY <2>1, <2>2, <2>3, <2>4, <2>5, <2>6 DEF Waiting
<1>3. kernel' = kernel \cup News
  BY DEF FirstOf
<1>4. IsFiniteSet(T) /\ Cardinality(T) = n
  BY <1>1, CountFirst
<1> HIDE DEF T
<1>5. T \subseteq 1 .. call.depth /\ T \cap Working = {} /\ T \subseteq Waiting
  BY <1>2 DEF Placed, InAio
<1>6. \A s \in T : s \in Nat /\ slots[s].plan \in Nat
  <2>1. slots \in [1 .. call.depth -> [plan : Nat, bytes : Nat]]
    BY DEF Placed, InAio
  <2>2. QED
    BY <1>5, <2>1
<1>7. News \subseteq [slot : Nat, plan : Nat] /\ \A o \in News : o.slot \in T
  BY <1>6
<1>8. \A o1, o2 \in News : o1.slot = o2.slot => o1 = o2
  OBVIOUS
<1>9. IsFiniteSet(News) /\ Cardinality(News) = n
  <2> DEFINE f == [s \in T |-> [slot |-> s, plan |-> slots[s].plan]]
  <2>1. f \in Bijection(T, News)
    BY DEF Bijection, Injection, Surjection, IsInjective
  <2>2. ExistsBijection(T, News)
    BY <2>1 DEF ExistsBijection
  <2>3. QED
    BY <1>4, <2>2, FS_Bijection
<1>10. Working' = Working \cup T
  <2>1. \A s \in T : \E o \in News : o.slot = s
    <3> TAKE s \in T
    <3>1. [slot |-> s, plan |-> slots[s].plan] \in News
      OBVIOUS
    <3>2. QED
      BY <3>1
  <2> HIDE DEF News
  <2>2. QED
    BY <1>3, <1>7, <2>1 DEF Working
<1>11. kernel \cap News = {}
  BY <1>5, <1>7 DEF Working
<1>12. IsFiniteSet(kernel') /\ Cardinality(kernel') = Cardinality(kernel) + n
  <2> HIDE DEF News
  <2>1. /\ IsFiniteSet(kernel \cup News)
        /\ Cardinality(kernel \cup News)
             = Cardinality(kernel) + Cardinality(News) - Cardinality(kernel \cap News)
    BY <1>1, <1>9, FS_Union
  <2>2. Cardinality(kernel) \in Nat /\ Cardinality(kernel \cap News) = 0
    BY <1>1, <1>11, FS_CardinalityType, FS_EmptySet
  <2> DEFINE a == Cardinality(kernel)
             b == Cardinality(kernel \cap News)
             c == Cardinality(kernel \cup News)
  <2>3. a \in Nat /\ b = 0 /\ c = a + n - b
    BY <1>9, <2>1, <2>2
  <2> HIDE DEF a, b, c
  <2>4. c = a + n
    BY <1>1, <2>3
  <2>5. QED
    BY <1>3, <2>1, <2>4 DEF a, c
<1>13. \A o1, o2 \in kernel' : o1.slot = o2.slot => o1 = o2
  <2>1. \A o1 \in kernel : \A o2 \in News : o1.slot # o2.slot
    BY <1>5, <1>7 DEF Working
  <2> HIDE DEF News
  <2>2. QED
    BY <1>3, <1>8, <2>1 DEF Queues
<1>14. kernel' \subseteq [slot : Nat, plan : Nat]
  BY <1>3, <1>7 DEF Domains
<1>15. Waiting' = Waiting \ T
  BY <1>2
<1>16. QED
  BY <1>2, <1>3, <1>5, <1>10, <1>12, <1>13, <1>14, <1>15

\* io_getevents delivers some of the completions.
LEMMA EventsMove ==
  ASSUME Domains, Queues, NEW n \in 1 .. Len(ready),
         events' = SubSeq(ready, 1, n),
         ready' = SubSeq(ready, n + 1, Len(ready))
  PROVE  /\ ready' \in Seq(Event) /\ events' \in Seq(Event)
         /\ Len(ready) = Len(ready') + Len(events')
         /\ Distinct(SlotOf(ready')) /\ Distinct(SlotOf(events'))
         /\ Queued = Queued' \cup Fetched' /\ Queued' \cap Fetched' = {}
<1> DEFINE q == SlotOf(ready)
           p == SubSeq(q, 1, n)
           r == SubSeq(q, n + 1, Len(q))
<1>1. ready \in Seq(Event) /\ n \in 0 .. Len(ready) /\ Distinct(q) /\ Len(ready) \in Nat
  BY DEF Domains, Queues
<1>2. q \in Seq(Nat) /\ Len(q) = Len(ready) /\ SlotOf(events') = p
  BY <1>1, CutSlots
<1>3. SlotOf(ready') = r
  BY <1>1, CutSlots
<1>4. /\ events' \in Seq(Event) /\ ready' \in Seq(Event)
      /\ Len(events') = n /\ Len(ready') = Len(ready) - n
  BY <1>1, CutSlots
<1> HIDE DEF q
<1>5. Distinct(p) /\ Distinct(r)
  BY <1>1, <1>2, CutSequence
<1>6. Elements(q) = Elements(p) \cup Elements(r)
  BY <1>1, <1>2, CutSequence
<1>7. Elements(p) \cap Elements(r) = {}
  BY <1>1, <1>2, CutSequence
<1> HIDE DEF p, r
<1>8. Queued = Queued' \cup Fetched' /\ Queued' \cap Fetched' = {}
  BY <1>2, <1>3, <1>6, <1>7 DEF Queued, Fetched, q
<1>9. Len(ready) = Len(ready') + Len(events')
  BY <1>1, <1>4
<1>10. QED
  BY <1>2, <1>3, <1>4, <1>5, <1>8, <1>9

\* A completion is processed, and its slot prepared again or left.
LEMMA ProcessMove ==
  ASSUME Domains, Placed, pc = "process", events # <<>>, events' = Tail(events),
         \/ submissions' = submissions
         \/ submissions' = Append(submissions, Head(events).slot)
  PROVE  LET s == Head(events).slot
         IN  /\ events' \in Seq(Event) /\ submissions' \in Seq(Nat)
             /\ Len(events') = Len(events) - 1
             /\ Distinct(SlotOf(events')) /\ Distinct(submissions')
             /\ s \in Fetched /\ Fetched' = Fetched \ {s} /\ s \notin Waiting
             /\ submissions' = submissions => Waiting' = Waiting
             /\ submissions' # submissions => Waiting' = Waiting \cup {s}
<1> DEFINE s == Head(events).slot
<1>1. /\ events \in Seq(Event) /\ submissions \in Seq(Nat)
      /\ Distinct(SlotOf(events)) /\ Distinct(submissions)
  BY DEF Domains, Placed, InAio
<1>2. /\ events' \in Seq(Event) /\ Len(events') = Len(events) - 1
      /\ SlotOf(events) # <<>> /\ SlotOf(events) \in Seq(Nat)
      /\ SlotOf(events') = Tail(SlotOf(events))
      /\ Head(SlotOf(events)) = s
  BY <1>1, TailSlots
<1>3. /\ Distinct(SlotOf(events')) /\ s \in Nat /\ s \in Fetched
      /\ Fetched' = Fetched \ {s}
  <2> DEFINE q == SlotOf(events)
  <2>1. /\ q \in Seq(Nat) /\ Distinct(q) /\ q # <<>>
        /\ SlotOf(events') = Tail(q) /\ Head(q) = s
    BY <1>1, <1>2
  <2> HIDE DEF q, s
  <2>2. /\ Distinct(Tail(q)) /\ Head(q) \in Nat /\ Head(q) \in Elements(q)
        /\ Elements(Tail(q)) = Elements(q) \ {Head(q)}
    BY <2>1, TailSequence
  <2>3. QED
    BY <2>1, <2>2 DEF Fetched, q
<1>4. s \notin Waiting
  BY <1>3 DEF Placed, InAio
<1> HIDE DEF s
<1>5. CASE submissions' = submissions
  BY <1>1, <1>2, <1>3, <1>4, <1>5 DEF Waiting, s
<1>6. CASE submissions' = Append(submissions, s) /\ submissions' # submissions
  <2> DEFINE r == Append(submissions, s)
  <2>1. r \in Seq(Nat) /\ Distinct(r)
    BY <1>1, <1>3, <1>4, AppendSequence DEF Waiting
  <2>2. Elements(r) = Elements(submissions) \cup {s}
    BY <1>1, <1>3, <1>4, AppendSequence DEF Waiting
  <2>3. submissions' = r
    BY <1>6
  <2> HIDE DEF r
  <2>4. Waiting' = Waiting \cup {s}
    BY <2>2, <2>3 DEF Waiting
  <2>5. QED
    BY <1>2, <1>3, <1>4, <1>6, <2>1, <2>3, <2>4 DEF s
<1>7. QED
  BY <1>5, <1>6 DEF s

(***************************************************************************)
(* What the kernel and the completion queue hold.                          *)
(***************************************************************************)
\* An empty sequence has no elements.
LEMMA NoElements ==
  /\ Elements(<<>>) = {} /\ Distinct(<<>>)
  /\ Elements(SlotOf(<<>>)) = {} /\ Distinct(SlotOf(<<>>))
<1>1. SlotOf(<<>>) = <<>> /\ Len(<<>>) = 0 /\ 1 .. 0 = {}
  BY DEF SlotOf
<1>2. Elements(<<>>) = {} /\ Distinct(<<>>)
  BY <1>1 DEF Elements, Distinct
<1>3. QED
  BY <1>1, <1>2

\* Outside the part of a call that uses them there is nothing in the queues.
LEMMA QuietQueues ==
  ASSUME Queues, (~InAio /\ pc # "catch") \/ ~(call.depth > 1)
  PROVE  kernel = {} /\ ready = <<>> /\ Working = {} /\ Queued = {}
BY NoElements DEF Queues, Working, Queued

\* A context that was reset holds nothing.
LEMMA NoQueues ==
  ASSUME kernel' = {}, ready' = <<>>
  PROVE  Queues'
<1>1. Working' = {} /\ Queued' = {} /\ Distinct(SlotOf(ready'))
  BY NoElements DEF Working, Queued
<1>2. QED
  BY <1>1 DEF Queues

\* When refine_aio has nothing in flight, nothing is.
LEMMA NothingInFlight ==
  ASSUME Domains, Counted, pc = "wait", inflight = 0
  PROVE  kernel = {} /\ ready = <<>> /\ events = <<>> /\ submissions = <<>>
<1>1. Cardinality(kernel) \in Nat /\ Len(ready) \in Nat /\ IsFiniteSet(kernel)
  BY FS_CardinalityType DEF Domains
<1>2. Cardinality(kernel) + Len(ready) = 0
  BY DEF Counted
<1>3. Cardinality(kernel) = 0 /\ Len(ready) = 0
  BY <1>1, <1>2
<1>4. kernel = {}
  BY <1>1, <1>3, FS_EmptySet
<1>5. ready = <<>>
  BY <1>3 DEF Domains
<1>6. QED
  BY <1>4, <1>5 DEF Counted

\* The actions before, after and beside the transport.
Apart ==
  \/ StartCall \/ AcquireFails \/ ThreadEnds \/ OpenFails \/ ReturnTopK
  \/ BlockingRead \/ BlockingDone \/ BlockingFails \/ CloseFiles \/ CatchClose

\* They leave the queues and the slots alone.
LEMMA ApartFacts ==
  ASSUME Apart
  PROVE  /\ ~InAio /\ ~InAio' /\ pc # "catch"
         /\ slots' = slots /\ submissions' = submissions /\ offered' = offered
         /\ events' = events /\ inflight' = inflight
         /\ kernel' = kernel /\ ready' = ready
BY DEF Apart, StartCall, AcquireFails, ThreadEnds, OpenFails, ReturnTopK, EndCall,
       BlockingRead, BlockingDone, BlockingFails, CloseFiles, CatchClose, InAio,
       aioVars, kernelVars

\* The context is reset.
Resets == CatchDestroy \/ Rethrow

\* They run outside refine_aio, and drop what the kernel held.
LEMMA ResetsFacts ==
  ASSUME Resets, Queues
  PROVE  /\ ~InAio /\ ~InAio'
         /\ slots' = slots /\ submissions' = submissions /\ offered' = offered
         /\ events' = events /\ inflight' = inflight
         /\ kernel' = {} /\ ready' = <<>>
<1>1. /\ ~InAio /\ ~InAio' /\ ResetContext
      /\ slots' = slots /\ submissions' = submissions /\ offered' = offered
      /\ events' = events /\ inflight' = inflight
  BY DEF Resets, CatchDestroy, Rethrow, EndCall, InAio, aioVars
<1>2. kernel' = {} /\ ready' = <<>>
  <2>1. CASE call.depth > 1
    BY <1>1, <2>1 DEF ResetContext
  <2>2. CASE ~(call.depth > 1)
    BY <1>1, <2>2, QuietQueues DEF ResetContext
  <2>3. QED
    BY <2>1, <2>2
<1>3. QED
  BY <1>1, <1>2

\* refine_aio is left by an exception.
Leaves == BadEvent \/ AioThrows

\* The slots go, the operations of the kernel stay.
LEMMA LeavesFacts ==
  ASSUME Leaves
  PROVE  /\ InAio /\ pc' = "catch" /\ ~InAio'
         /\ slots' = <<>> /\ submissions' = <<>> /\ offered' = 0 /\ events' = <<>>
         /\ inflight' = 0 /\ kernel' = kernel /\ ready' = ready
         /\ call' = call /\ window' = window
BY DEF Leaves, BadEvent, AioThrows, LeaveAio, InAio, callVars, kernelVars

\* Every step is one of these.
LEMMA StepKinds ==
  ASSUME Next
  PROVE  \/ Apart \/ Resets \/ Leaves \/ OpenFiles
         \/ Submit \/ SubmitDone \/ GetEvents \/ ProcessEvent \/ EventsDone
         \/ WaitDone \/ KernelCompletes
BY DEF Next, CallStep, CallFailure, Apart, Resets, Leaves

\* Empty queues at first.
LEMMA QueuesInit == Init => Queues
<1>1. ASSUME Init PROVE Working = {} /\ Queued = {} /\ Distinct(SlotOf(ready))
  BY <1>1, NoElements DEF Init, Working, Queued
<1>2. QED
  BY <1>1 DEF Init, Queues

\* Queues is inductive.
LEMMA QueuesStep ==
  ASSUME Domains, Called, Windows, Queues, Placed, Assigned, Counted, Next
  PROVE  Queues'
<1>1. CASE Apart
  BY <1>1, ApartFacts, QuietQueues, NoQueues
<1>2. CASE Resets
  BY <1>2, ResetsFacts, NoQueues
<1>3. CASE Leaves
  <2>1. Working' = Working /\ Queued' = Queued
    BY <1>3, LeavesFacts DEF Working, Queued
  <2>2. QED
    BY <1>3, <2>1, LeavesFacts DEF Queues
<1>4. CASE OpenFiles
  <2>1. pc = "open" /\ kernel' = kernel /\ ready' = ready
    BY <1>4 DEF OpenFiles, kernelVars
  <2>2. QED
    BY <2>1, QuietQueues, NoQueues DEF InAio
<1>5. CASE Submit
  <2>1. PICK n \in 1 .. Len(submissions) :
          /\ kernel' = kernel \cup {[slot |-> s, plan |-> slots[s].plan] :
                                      s \in {submissions[k] : k \in 1 .. n}}
          /\ submissions' = SubSeq(submissions, n + 1, Len(submissions))
    BY <1>5 DEF Submit
  <2>2. /\ pc = "submit" /\ pc' = pc /\ call' = call /\ window' = window
        /\ ready' = ready
    BY <1>5 DEF Submit, callVars
  <2>3. \A o1, o2 \in kernel' : o1.slot = o2.slot => o1 = o2
    BY <2>1, <2>2, SubmitMove
  <2>4. PICK T \in SUBSET Waiting :
          /\ Working' = Working \cup T
          /\ kernel' = kernel \cup {[slot |-> s, plan |-> slots[s].plan] : s \in T}
    BY <2>1, <2>2, SubmitMove
  <2>5. Queued' = Queued /\ InAio /\ InAio' /\ InWindow
    BY <2>2 DEF Queued, InAio, InWindow
  <2>6. /\ T \cap Queued = {} /\ T \subseteq 1 .. call.depth /\ call.depth > 1
        /\ \A s \in T : slots[s].plan \in window.plan_begin + 1 .. window.plan_end
    <3>1. window.plan_begin \in Nat /\ window.plan_end \in Nat /\ next_plan \in Nat
          /\ next_plan <= window.plan_end + 1
      BY <2>5 DEF Domains, Windows
    <3>2. \A s \in T : slots[s].plan \in window.plan_begin + 1 .. next_plan - 1
      BY <2>5 DEF Assigned, Busy
    <3>3. QED
      BY <2>5, <3>1, <3>2 DEF Placed
  <2>7. \A op \in kernel' : op.plan \in window.plan_begin + 1 .. window.plan_end
    BY <2>4, <2>6 DEF Queues
  <2>8. QED
    BY <2>2, <2>3, <2>4, <2>5, <2>6, <2>7 DEF Queues
<1>6. CASE GetEvents
  <2>1. PICK n \in 1 .. Len(ready) :
          /\ events' = SubSeq(ready, 1, n)
          /\ ready' = SubSeq(ready, n + 1, Len(ready))
    <3>1. PICK n \in 1 .. LowerOf(Len(ready), call.depth) :
            /\ events' = SubSeq(ready, 1, n)
            /\ ready' = SubSeq(ready, n + 1, Len(ready))
      BY <1>6 DEF GetEvents
    <3>2. n \in 1 .. Len(ready)
      <4>1. call.depth \in Int
        BY <1>6 DEF GetEvents, Called
      <4>2. QED
        BY <4>1 DEF LowerOf, Domains
    <3>3. QED
      BY <3>1, <3>2
  <2>2. /\ pc = "wait" /\ pc' = "process" /\ call' = call /\ window' = window
        /\ kernel' = kernel
    BY <1>6 DEF GetEvents, callVars
  <2>3. Distinct(SlotOf(ready')) /\ Queued' \subseteq Queued
    BY <2>1, EventsMove
  <2>4. Working' = Working /\ InAio /\ InAio'
    BY <2>2 DEF Working, InAio
  <2>5. ready' # <<>> => ready # <<>>
    BY <2>1
  <2>6. QED
    BY <2>2, <2>3, <2>4, <2>5 DEF Queues
<1>7. CASE SubmitDone \/ ProcessEvent \/ EventsDone
  <2>1. /\ InAio /\ InAio' /\ kernel' = kernel /\ ready' = ready
        /\ call' = call /\ window' = window
    BY <1>7 DEF SubmitDone, ProcessEvent, EventsDone, InAio, callVars, kernelVars
  <2>2. Working' = Working /\ Queued' = Queued
    BY <2>1 DEF Working, Queued
  <2>3. QED
    BY <2>1, <2>2 DEF Queues
<1>8. CASE WaitDone
  <2>1. pc = "wait" /\ inflight = 0 /\ kernel' = kernel /\ ready' = ready
    BY <1>8 DEF WaitDone, kernelVars
  <2>2. QED
    BY <2>1, NothingInFlight, NoQueues
<1>9. CASE KernelCompletes
  <2>1. PICK op \in kernel, good \in BOOLEAN :
          /\ kernel' = kernel \ {op}
          /\ ready' = Append(ready, [slot |-> op.slot, good |-> good])
    BY <1>9 DEF KernelCompletes
  <2>2. pc' = pc /\ call' = call /\ window' = window
    BY <1>9 DEF KernelCompletes, callVars
  <2>3. /\ Distinct(SlotOf(ready))'
        /\ op.slot \in Working /\ op.slot \notin Queued
        /\ Working' = Working \ {op.slot}
        /\ Queued' = Queued \cup {op.slot}
    BY <2>1, KernelMove
  <2>4. (InAio \/ pc = "catch") /\ call.depth > 1
    BY DEF Queues
  <2>5. QED
    BY <2>1, <2>2, <2>3, <2>4 DEF Queues, InAio
<1>10. QED
  BY <1>1, <1>2, <1>3, <1>4, <1>5, <1>6, <1>7, <1>8, <1>9, StepKinds

(***************************************************************************)
(* What refine_aio holds.                                                  *)
(***************************************************************************)
\* The window opens: the first plans are prepared in the first slots.
LEMMA OpenFacts ==
  ASSUME Domains, Called, Windows, Queues, Placed, OpenFiles, pc' = "submit"
  PROVE  \E initial \in 0 .. call.depth :
           /\ call' = call /\ call.depth \in Nat \ {0} /\ call.depth > 1
           /\ window' = NextWindow /\ kernel' = {} /\ ready' = <<>> /\ events' = <<>>
           /\ Working' = {} /\ Queued' = {} /\ Fetched' = {}
           /\ Distinct(SlotOf(events'))
           /\ initial = LowerOf(call.depth, NextWindow.plan_end - NextWindow.plan_begin)
           /\ next_plan' = NextWindow.plan_begin + initial + 1
           /\ slots' = [k \in 1 .. call.depth |->
                          [plan |-> IF k <= initial
                                    THEN NextWindow.plan_begin + k ELSE 0,
                           bytes |-> 0]]
           /\ submissions' \in Seq(Nat) /\ Distinct(submissions')
           /\ Len(submissions') = initial
           /\ Waiting' = 1 .. initial
           /\ inflight' = 0 /\ offered' = initial
<1> DEFINE b == NextWindow.plan_begin
           e == NextWindow.plan_end
           initial == LowerOf(call.depth, e - b)
<1>1. /\ pc = "open" /\ window.list_end < Len(call.lists) /\ call' = call
      /\ window' = NextWindow /\ events' = events /\ inflight' = 0
      /\ kernel' = kernel /\ ready' = ready /\ call.depth # 1
      /\ next_plan' = b + initial + 1
      /\ slots' = [k \in 1 .. call.depth |->
                     [plan |-> IF k <= initial THEN b + k ELSE 0, bytes |-> 0]]
      /\ submissions' = [k \in 1 .. initial |-> k] /\ offered' = initial
  BY DEF OpenFiles, kernelVars
<1>2. kernel = {} /\ ready = <<>> /\ events = <<>>
  BY <1>1, QuietQueues DEF InAio, Placed
<1>3. /\ Working' = {} /\ Queued' = {} /\ Fetched' = {} /\ Distinct(SlotOf(events'))
  BY <1>1, <1>2, NoElements DEF Working, Queued, Fetched
<1>4. b \in Nat /\ e \in Nat /\ b <= e /\ call.depth \in Nat \ {0}
  BY <1>1, NextWindowFacts, CallTypes
<1>5. initial \in 0 .. call.depth
  BY <1>4 DEF LowerOf
<1> HIDE DEF initial, b, e
<1>6. /\ submissions' \in Seq(Nat) /\ Distinct(submissions')
      /\ Len(submissions') = initial /\ Waiting' = 1 .. initial
  <2>1. initial \in Nat
    BY <1>4, <1>5
  <2>2. /\ submissions' \in Seq(Nat) /\ Len(submissions') = initial
        /\ \A k \in 1 .. initial : submissions'[k] = k
    BY <1>1, <2>1
  <2>3. Elements(submissions') = 1 .. initial
    BY <2>2 DEF Elements
  <2>4. QED
    BY <2>2, <2>3 DEF Waiting, Distinct
<1>7. call.depth > 1
  BY <1>1, <1>4
<1>8. QED
  BY <1>1, <1>2, <1>3, <1>4, <1>5, <1>6, <1>7 DEF initial, b, e

\* What a completion that is processed changes.
LEMMA ProcessFacts ==
  ASSUME Domains, Placed, ProcessEvent
  PROVE  LET s == Head(events).slot
         IN  /\ pc = "process" /\ pc' = pc /\ InAio /\ InAio' /\ InWindow
             /\ events # <<>> /\ events' = Tail(events)
             /\ call' = call /\ window' = window
             /\ kernel' = kernel /\ ready' = ready /\ offered' = offered
             /\ inflight' = inflight - 1
             /\ Working' = Working /\ Queued' = Queued
             /\ events' \in Seq(Event) /\ submissions' \in Seq(Nat)
             /\ Len(events') = Len(events) - 1
             /\ Distinct(SlotOf(events')) /\ Distinct(submissions')
             /\ s \in Fetched /\ Fetched' = Fetched \ {s} /\ s \notin Waiting
             /\ s \in 1 .. call.depth /\ s \notin Working /\ s \notin Queued
             /\ heap' = ProcessPlan(heap, call.plans[slots[s].plan],
                                    call.plans[slots[s].bytes])
             /\ IF next_plan <= window.plan_end
                THEN /\ slots' = [slots EXCEPT ![s].plan = next_plan]
                     /\ next_plan' = next_plan + 1
                     /\ Waiting' = Waiting \cup {s}
                ELSE /\ slots' = slots /\ next_plan' = next_plan
                     /\ Waiting' = Waiting
<1> DEFINE s == Head(events).slot
<1>1. /\ pc = "process" /\ pc' = pc /\ events # <<>> /\ events' = Tail(events)
      /\ call' = call /\ window' = window
      /\ kernel' = kernel /\ ready' = ready /\ offered' = offered
      /\ inflight' = inflight - 1
      /\ heap' = ProcessPlan(heap, call.plans[slots[s].plan], call.plans[slots[s].bytes])
      /\ IF next_plan <= window.plan_end
         THEN /\ slots' = [slots EXCEPT ![s].plan = next_plan]
              /\ submissions' = Append(submissions, s)
              /\ next_plan' = next_plan + 1
         ELSE slots' = slots /\ submissions' = submissions /\ next_plan' = next_plan
  BY DEF ProcessEvent, kernelVars
<1>2. /\ events' \in Seq(Event) /\ submissions' \in Seq(Nat)
      /\ Len(events') = Len(events) - 1
      /\ Distinct(SlotOf(events')) /\ Distinct(submissions')
      /\ s \in Fetched /\ Fetched' = Fetched \ {s} /\ s \notin Waiting
      /\ submissions' = submissions => Waiting' = Waiting
      /\ submissions' # submissions => Waiting' = Waiting \cup {s}
  BY <1>1, ProcessMove
<1>3. submissions # Append(submissions, s)
  BY DEF Domains
<1> HIDE DEF s
<1>4. Working' = Working /\ Queued' = Queued /\ InAio /\ InAio' /\ InWindow
  BY <1>1 DEF Working, Queued, InAio, InWindow
<1>5. s \in 1 .. call.depth /\ s \notin Working /\ s \notin Queued
  BY <1>2, <1>4 DEF Placed
<1>6. QED
  BY <1>1, <1>2, <1>3, <1>4, <1>5 DEF s

\* No slots at first.
LEMMA PlacedInit == Init => Placed
BY DEF Init, Placed, InAio

\* Placed is inductive.
LEMMA PlacedStep ==
  ASSUME Domains, Called, Windows, Queues, Placed, Counted, Next
  PROVE  Placed'
<1>1. CASE Apart
  BY <1>1, ApartFacts DEF Placed
<1>2. CASE Resets
  BY <1>2, ResetsFacts DEF Placed
<1>3. CASE Leaves
  BY <1>3, LeavesFacts DEF Placed
<1>4. CASE OpenFiles
  <2>1. CASE pc' = "submit"
    <3>1. PICK initial \in 0 .. call.depth :
           /\ call' = call /\ call.depth \in Nat \ {0} /\ call.depth > 1
           /\ Working' = {} /\ Queued' = {} /\ Fetched' = {}
           /\ Distinct(SlotOf(events'))
           /\ slots' = [k \in 1 .. call.depth |->
                          [plan |-> IF k <= initial
                                    THEN NextWindow.plan_begin + k ELSE 0,
                           bytes |-> 0]]
           /\ Distinct(submissions')
           /\ Waiting' = 1 .. initial
      BY <1>4, <2>1, OpenFacts
    <3>2. InAio' /\ 1 .. initial \subseteq 1 .. call.depth
      BY <2>1, <3>1 DEF InAio
    <3>3. NextWindow.plan_begin \in Nat
      BY <1>4, NextWindowFacts DEF OpenFiles
    <3>4. slots' \in [1 .. call.depth -> [plan : Nat, bytes : Nat]]
      BY <3>1, <3>3
    <3>5. QED
      BY <3>1, <3>2, <3>4 DEF Placed
  <2>2. CASE pc' # "submit"
    <3>1. /\ ~InAio /\ ~InAio' /\ slots' = slots /\ submissions' = submissions
          /\ events' = events
      BY <1>4, <2>2 DEF OpenFiles, InAio
    <3>2. QED
      BY <3>1 DEF Placed
  <2>3. QED
    BY <2>1, <2>2
<1>5. CASE Submit
  <2>1. PICK n \in 1 .. Len(submissions) :
          /\ kernel' = kernel \cup {[slot |-> s, plan |-> slots[s].plan] :
                                      s \in {submissions[k] : k \in 1 .. n}}
          /\ submissions' = SubSeq(submissions, n + 1, Len(submissions))
    BY <1>5 DEF Submit
  <2>2. /\ pc = "submit" /\ pc' = pc /\ call' = call /\ slots' = slots
        /\ events' = events /\ ready' = ready
    BY <1>5 DEF Submit, callVars
  <2>3. Distinct(submissions')
    BY <2>1, <2>2, SubmitMove
  <2>4. PICK T \in SUBSET Waiting : Waiting' = Waiting \ T /\ Working' = Working \cup T
    BY <2>1, <2>2, SubmitMove
  <2>5. Queued' = Queued /\ Fetched' = Fetched /\ InAio /\ InAio'
    BY <2>2 DEF Queued, Fetched, InAio
  <2>6. QED
    BY <2>2, <2>3, <2>4, <2>5 DEF Placed
<1>6. CASE GetEvents
  <2>1. PICK n \in 1 .. Len(ready) :
          /\ events' = SubSeq(ready, 1, n)
          /\ ready' = SubSeq(ready, n + 1, Len(ready))
    <3>1. PICK n \in 1 .. LowerOf(Len(ready), call.depth) :
            /\ events' = SubSeq(ready, 1, n)
            /\ ready' = SubSeq(ready, n + 1, Len(ready))
      BY <1>6 DEF GetEvents
    <3>2. n \in 1 .. Len(ready)
      <4>1. call.depth \in Int
        BY <1>6 DEF GetEvents, Called
      <4>2. QED
        BY <4>1 DEF LowerOf, Domains
    <3>3. QED
      BY <3>1, <3>2
  <2>2. /\ pc = "wait" /\ pc' = "process" /\ call' = call /\ slots' = slots
        /\ submissions' = submissions /\ kernel' = kernel
    BY <1>6 DEF GetEvents, callVars
  <2>3. /\ Distinct(SlotOf(events'))
        /\ Queued = Queued' \cup Fetched' /\ Queued' \cap Fetched' = {}
    BY <2>1, EventsMove
  <2>4. Working' = Working /\ Waiting' = Waiting /\ Waiting = {} /\ InAio /\ InAio'
    BY <2>2, NoElements DEF Working, Waiting, InAio, Counted
  <2>5. Fetched' \subseteq 1 .. call.depth /\ Fetched' \cap Working = {}
    BY <2>3, <2>4 DEF Queues
  <2>6. QED
    BY <2>2, <2>3, <2>4, <2>5 DEF Placed
<1>7. CASE ProcessEvent
  <2> DEFINE s == Head(events).slot
  <2>1. /\ InAio /\ InAio' /\ call' = call
        /\ Working' = Working /\ Queued' = Queued
        /\ Distinct(SlotOf(events')) /\ Distinct(submissions')
        /\ s \in Fetched /\ Fetched' = Fetched \ {s} /\ s \notin Waiting
        /\ s \in 1 .. call.depth
        /\ Waiting' = Waiting \/ Waiting' = Waiting \cup {s}
        /\ slots' = slots \/ slots' = [slots EXCEPT ![s].plan = next_plan]
    BY <1>7, ProcessFacts
  <2> HIDE DEF s
  <2>2. slots \in [1 .. call.depth -> [plan : Nat, bytes : Nat]] /\ next_plan \in Nat
    BY <2>1 DEF Placed, Domains
  <2>3. slots' \in [1 .. call.depth -> [plan : Nat, bytes : Nat]]
    BY <2>1, <2>2
  <2>4. QED
    BY <2>1, <2>3 DEF Placed
<1>8. CASE SubmitDone \/ EventsDone
  <2>1. /\ InAio /\ InAio' /\ kernel' = kernel /\ ready' = ready /\ call' = call
        /\ slots' = slots /\ submissions' = submissions /\ events' = events
    BY <1>8 DEF SubmitDone, EventsDone, InAio, callVars, kernelVars
  <2>2. Working' = Working /\ Queued' = Queued /\ Fetched' = Fetched /\ Waiting' = Waiting
    BY <2>1 DEF Working, Queued, Fetched, Waiting
  <2>3. QED
    BY <2>1, <2>2 DEF Placed
<1>9. CASE WaitDone
  <2>1. /\ pc = "wait" /\ inflight = 0 /\ pc' = "close" /\ slots' = <<>>
        /\ submissions' = submissions /\ events' = events
    BY <1>9 DEF WaitDone
  <2>2. QED
    BY <2>1, NothingInFlight DEF Placed, InAio
<1>10. CASE KernelCompletes
  <2>1. PICK op \in kernel, good \in BOOLEAN :
          /\ kernel' = kernel \ {op}
          /\ ready' = Append(ready, [slot |-> op.slot, good |-> good])
          /\ slots' = IF op.slot \in DOMAIN slots
                      THEN [slots EXCEPT ![op.slot].bytes = op.plan] ELSE slots
    BY <1>10 DEF KernelCompletes
  <2>2. /\ pc' = pc /\ call' = call /\ submissions' = submissions /\ events' = events
    BY <1>10 DEF KernelCompletes, callVars
  <2>3. /\ op.slot \in Working
        /\ Working' = Working \ {op.slot}
        /\ Queued' = Queued \cup {op.slot}
        /\ op \in [slot : Nat, plan : Nat]
    BY <2>1, KernelMove
  <2>4. Fetched' = Fetched /\ Waiting' = Waiting
    BY <2>2 DEF Fetched, Waiting
  <2>5. CASE InAio
    <3>1. slots \in [1 .. call.depth -> [plan : Nat, bytes : Nat]]
      BY <2>5 DEF Placed
    <3>2. slots' \in [1 .. call.depth -> [plan : Nat, bytes : Nat]]
      BY <2>1, <2>3, <3>1
    <3>3. QED
      BY <2>2, <2>3, <2>4, <2>5, <3>2 DEF Placed, InAio
  <2>6. CASE ~InAio
    <3>1. slots = <<>>
      BY <2>6 DEF Placed
    <3>2. DOMAIN slots = {}
      BY <3>1
    <3>3. slots' = <<>>
      BY <2>1, <3>1, <3>2
    <3>4. QED
      BY <2>2, <2>6, <3>3 DEF Placed, InAio
  <2>7. QED
    BY <2>5, <2>6
<1>11. QED
  BY <1>1, <1>2, <1>3, <1>4, <1>5, <1>6, <1>7, <1>8, <1>9, <1>10, StepKinds

(***************************************************************************)
(* What is in the slots, and how many there are.                           *)
(***************************************************************************)
\* io_submit and io_getevents, with what they move.
LEMMA SubmitFacts ==
  ASSUME Domains, Queues, Placed, Submit
  PROVE  \E n \in 1 .. Len(submissions) : \E T \in SUBSET Waiting :
           /\ pc = "submit" /\ pc' = pc /\ InAio /\ InAio'
           /\ call' = call /\ window' = window /\ next_plan' = next_plan
           /\ slots' = slots /\ offered' = offered /\ events' = events
           /\ inflight' = inflight /\ ready' = ready
           /\ Queued' = Queued /\ Fetched' = Fetched
           /\ Waiting' = Waiting \ T /\ Working' = Working \cup T
           /\ kernel' = kernel \cup {[slot |-> s, plan |-> slots[s].plan] : s \in T}
           /\ kernel' \subseteq [slot : Nat, plan : Nat] /\ IsFiniteSet(kernel')
           /\ Cardinality(kernel') = Cardinality(kernel) + n
           /\ submissions' \in Seq(Nat)
           /\ Len(submissions') = Len(submissions) - n
<1>1. PICK n \in 1 .. Len(submissions) :
        /\ kernel' = kernel \cup {[slot |-> s, plan |-> slots[s].plan] :
                                    s \in {submissions[k] : k \in 1 .. n}}
        /\ submissions' = SubSeq(submissions, n + 1, Len(submissions))
  BY DEF Submit
<1>2. /\ pc = "submit" /\ pc' = pc
      /\ call' = call /\ window' = window /\ next_plan' = next_plan
      /\ slots' = slots /\ offered' = offered /\ events' = events
      /\ inflight' = inflight /\ ready' = ready
  BY DEF Submit, callVars
<1>3. /\ kernel' \subseteq [slot : Nat, plan : Nat] /\ IsFiniteSet(kernel')
      /\ Cardinality(kernel') = Cardinality(kernel) + n
      /\ submissions' \in Seq(Nat) /\ Len(submissions') = Len(submissions) - n
  BY <1>1, <1>2, SubmitMove
<1>4. PICK T \in SUBSET Waiting :
           /\ Waiting' = Waiting \ T /\ Working' = Working \cup T
           /\ kernel' = kernel \cup {[slot |-> s, plan |-> slots[s].plan] : s \in T}
  BY <1>1, <1>2, SubmitMove
<1>5. InAio /\ InAio' /\ Queued' = Queued /\ Fetched' = Fetched
  BY <1>2 DEF InAio, Queued, Fetched
<1>6. QED
  BY <1>2, <1>3, <1>4, <1>5

\* io_getevents moves completions from the queue to the events.
LEMMA EventsFacts ==
  ASSUME Domains, Called, Queues, Counted, GetEvents
  PROVE  /\ pc = "wait" /\ pc' = "process" /\ InAio /\ InAio'
         /\ call' = call /\ window' = window /\ next_plan' = next_plan
         /\ slots' = slots /\ offered' = offered /\ inflight' = inflight
         /\ submissions' = submissions /\ kernel' = kernel
         /\ ready' \in Seq(Event) /\ events' \in Seq(Event)
         /\ Len(ready) = Len(ready') + Len(events')
         /\ Queued = Queued' \cup Fetched' /\ Fetched = {}
         /\ Working' = Working /\ Waiting' = Waiting
<1>1. PICK n \in 1 .. Len(ready) :
        /\ events' = SubSeq(ready, 1, n)
        /\ ready' = SubSeq(ready, n + 1, Len(ready))
  <2>1. PICK n \in 1 .. LowerOf(Len(ready), call.depth) :
          /\ events' = SubSeq(ready, 1, n)
          /\ ready' = SubSeq(ready, n + 1, Len(ready))
    BY DEF GetEvents
  <2>2. call.depth \in Int
    BY DEF GetEvents, Called
  <2>3. n \in 1 .. Len(ready)
    BY <2>2 DEF LowerOf, Domains
  <2>4. QED
    BY <2>1, <2>3
<1>2. /\ pc = "wait" /\ pc' = "process"
      /\ call' = call /\ window' = window /\ next_plan' = next_plan
      /\ slots' = slots /\ offered' = offered /\ inflight' = inflight
      /\ submissions' = submissions /\ kernel' = kernel
  BY DEF GetEvents, callVars
<1>3. /\ ready' \in Seq(Event) /\ events' \in Seq(Event)
      /\ Len(ready) = Len(ready') + Len(events')
      /\ Queued = Queued' \cup Fetched'
  BY <1>1, EventsMove
<1>4. Fetched = {} /\ InAio /\ InAio' /\ Working' = Working /\ Waiting' = Waiting
  BY <1>2, NoElements DEF Counted, Fetched, InAio, Working, Waiting
<1>5. QED
  BY <1>2, <1>3, <1>4

\* The kernel finishes an operation while refine_aio waits for it.
LEMMA KernelFacts ==
  ASSUME Domains, Windows, Queues, Placed, KernelCompletes
  PROVE  \E op \in kernel :
           /\ pc' = pc /\ (InAio' <=> InAio)
           /\ call' = call /\ window' = window /\ next_plan' = next_plan
           /\ offered' = offered /\ inflight' = inflight
           /\ submissions' = submissions /\ events' = events
           /\ kernel' = kernel \ {op} /\ IsFiniteSet(kernel')
           /\ Cardinality(kernel') = Cardinality(kernel) - 1
           /\ ready' \in Seq(Event) /\ Len(ready') = Len(ready) + 1
           /\ op \in [slot : Nat, plan : Nat]
           /\ op.slot \in Working /\ op.slot \in 1 .. call.depth
           /\ Working' = Working \ {op.slot} /\ Queued' = Queued \cup {op.slot}
           /\ Fetched' = Fetched /\ Waiting' = Waiting
           /\ InAio => slots' = [slots EXCEPT ![op.slot].bytes = op.plan]
           /\ op.plan <= Len(call.plans)
<1>1. PICK op \in kernel, good \in BOOLEAN :
        /\ kernel' = kernel \ {op}
        /\ ready' = Append(ready, [slot |-> op.slot, good |-> good])
        /\ slots' = IF op.slot \in DOMAIN slots
                    THEN [slots EXCEPT ![op.slot].bytes = op.plan] ELSE slots
  BY DEF KernelCompletes
<1>2. /\ pc' = pc /\ call' = call /\ window' = window /\ next_plan' = next_plan
      /\ offered' = offered /\ inflight' = inflight
      /\ submissions' = submissions /\ events' = events
  BY DEF KernelCompletes, callVars
<1>3. /\ op \in [slot : Nat, plan : Nat] /\ IsFiniteSet(kernel')
      /\ Cardinality(kernel') = Cardinality(kernel) - 1
      /\ ready' \in Seq(Event) /\ Len(ready') = Len(ready) + 1
      /\ op.slot \in Working /\ Working' = Working \ {op.slot}
      /\ Queued' = Queued \cup {op.slot}
  BY <1>1, KernelMove
<1>4. Fetched' = Fetched /\ Waiting' = Waiting /\ (InAio' <=> InAio)
  BY <1>2 DEF Fetched, Waiting, InAio
<1>5. op.slot \in 1 .. call.depth
  BY <1>3 DEF Queues
<1>6. InAio => slots' = [slots EXCEPT ![op.slot].bytes = op.plan]
  BY <1>1, <1>5 DEF Placed
<1>7. op.plan <= Len(call.plans)
  <2>1. /\ op.plan \in window.plan_begin + 1 .. window.plan_end
        /\ pc # "idle" /\ window.plan_end \in Nat /\ window.plan_begin \in Nat
    BY DEF Queues, InAio, Domains
  <2>2. window.plan_end <= Len(call.plans)
    BY <2>1 DEF Windows
  <2>3. QED
    BY <1>3, <2>1, <2>2
<1>8. QED
  BY <1>1, <1>2, <1>3, <1>4, <1>5, <1>6, <1>7

\* Nothing to count at first.
LEMMA CountedInit == Init => Counted
BY DEF Init, Counted

\* Counted is inductive.
LEMMA CountedStep ==
  ASSUME Domains, Called, Windows, Queues, Placed, Counted, Next
  PROVE  Counted'
<1>1. CASE Apart \/ Resets \/ Leaves
  <2>1. ~InAio'
    BY <1>1, ApartFacts, ResetsFacts, LeavesFacts
  <2>2. QED
    BY <2>1 DEF Counted, InAio
<1>2. CASE OpenFiles
  <2>1. CASE pc' = "submit"
    <3>1. PICK initial \in 0 .. call.depth :
            /\ kernel' = {} /\ ready' = <<>> /\ events' = <<>>
            /\ Len(submissions') = initial /\ inflight' = 0 /\ offered' = initial
      BY <1>2, <2>1, OpenFacts
    <3>2. Cardinality(kernel') = 0 /\ Len(ready') = 0
      BY <3>1, FS_EmptySet
    <3>3. QED
      BY <2>1, <3>1, <3>2 DEF Counted
  <2>2. CASE pc' # "submit"
    BY <1>2, <2>2 DEF OpenFiles, Counted
  <2>3. QED
    BY <2>1, <2>2
<1>3. CASE WaitDone
  BY <1>3 DEF WaitDone, Counted
<1>4. /\ Cardinality(kernel) \in Nat /\ Len(ready) \in Nat /\ Len(submissions) \in Nat
      /\ Len(events) \in Nat /\ inflight \in Nat /\ offered \in Nat
  BY FS_CardinalityType DEF Domains
<1>5. CASE Submit
  <2>1. PICK n \in 1 .. Len(submissions) :
           /\ pc = "submit" /\ pc' = pc /\ offered' = offered /\ events' = events
           /\ inflight' = inflight /\ ready' = ready
           /\ Cardinality(kernel') = Cardinality(kernel) + n
           /\ Len(submissions') = Len(submissions) - n
    BY <1>5, SubmitFacts
  <2> DEFINE a == Cardinality(kernel)
             b == Len(ready)
             c == Len(submissions)
  <2>2. inflight + offered = a + b + c /\ n \in Nat
    BY <2>1 DEF Counted
  <2>3. Cardinality(kernel') = a + n /\ Len(ready') = b /\ Len(submissions') = c - n
    BY <2>1
  <2> HIDE DEF a, b, c
  <2>4. inflight' + offered' = Cardinality(kernel') + Len(ready') + Len(submissions')
    <3>1. a \in Nat /\ b \in Nat /\ c \in Nat
      BY <1>4 DEF a, b, c
    <3>2. a + b + c = (a + n) + b + (c - n)
      BY <2>2, <3>1
    <3>3. QED
      BY <2>1, <2>2, <2>3, <3>2
  <2>5. QED
    BY <2>1, <2>4 DEF Counted
<1>6. CASE SubmitDone
  <2>1. /\ pc = "submit" /\ pc' = "wait" /\ submissions = <<>> /\ submissions' = <<>>
        /\ inflight' = inflight + offered /\ offered' = 0 /\ events' = events
        /\ kernel' = kernel /\ ready' = ready
    BY <1>6 DEF SubmitDone, kernelVars
  <2>2. Len(submissions) = 0
    BY <2>1
  <2>3. inflight' = Cardinality(kernel) + Len(ready)
    BY <1>4, <2>1, <2>2 DEF Counted
  <2>4. QED
    BY <2>1, <2>3 DEF Counted
<1>7. CASE GetEvents
  <2>1. /\ pc = "wait" /\ pc' = "process" /\ offered' = offered /\ inflight' = inflight
        /\ kernel' = kernel /\ Len(ready) = Len(ready') + Len(events')
        /\ ready' \in Seq(Event) /\ events' \in Seq(Event)
    BY <1>7, EventsFacts
  <2>2. inflight = Cardinality(kernel) + Len(ready) /\ offered = 0
    BY <2>1 DEF Counted
  <2>3. Len(ready') \in Nat /\ Len(events') \in Nat
    BY <2>1
  <2>4. inflight' = Cardinality(kernel') + Len(ready') + Len(events')
    BY <1>4, <2>1, <2>2, <2>3
  <2>5. QED
    BY <2>1, <2>2, <2>4 DEF Counted
<1>8. CASE ProcessEvent
  <2>1. /\ pc = "process" /\ pc' = pc /\ offered' = offered /\ inflight' = inflight - 1
        /\ kernel' = kernel /\ ready' = ready /\ Len(events') = Len(events) - 1
    BY <1>8, ProcessFacts
  <2>2. inflight = Cardinality(kernel) + Len(ready) + Len(events) /\ offered = 0
    BY <2>1 DEF Counted
  <2>3. inflight' = Cardinality(kernel') + Len(ready') + Len(events')
    BY <1>4, <2>1, <2>2
  <2>4. QED
    BY <2>1, <2>2, <2>3 DEF Counted
<1>9. CASE EventsDone
  <2>1. /\ pc = "process" /\ events = <<>> /\ events' = events
        /\ pc' = IF submissions = <<>> THEN "wait" ELSE "submit"
        /\ offered' = Len(submissions) /\ submissions' = submissions
        /\ inflight' = inflight /\ kernel' = kernel /\ ready' = ready
    BY <1>9 DEF EventsDone, kernelVars
  <2>2. inflight = Cardinality(kernel) + Len(ready)
    <3>1. Len(events) = 0
      BY <2>1
    <3>2. QED
      BY <1>4, <2>1, <3>1 DEF Counted
  <2>3. CASE submissions = <<>>
    <3>1. Len(submissions) = 0
      BY <2>3
    <3>2. QED
      BY <2>1, <2>2, <2>3, <3>1 DEF Counted
  <2>4. CASE submissions # <<>>
    <3>1. inflight' + offered' = Cardinality(kernel') + Len(ready') + Len(submissions')
      BY <2>1, <2>2
    <3>2. QED
      BY <2>1, <2>4, <3>1 DEF Counted
  <2>5. QED
    BY <2>3, <2>4
<1>10. CASE KernelCompletes
  <2>1. /\ pc' = pc /\ offered' = offered /\ inflight' = inflight
        /\ submissions' = submissions /\ events' = events
        /\ Cardinality(kernel') = Cardinality(kernel) - 1
        /\ Len(ready') = Len(ready) + 1
    BY <1>10, KernelFacts
  <2>2. Cardinality(kernel') + Len(ready') = Cardinality(kernel) + Len(ready)
    BY <1>4, <2>1
  <2>3. QED
    BY <2>1, <2>2 DEF Counted
<1>11. QED
  BY <1>1, <1>2, <1>3, <1>5, <1>6, <1>7, <1>8, <1>9, <1>10, StepKinds

\* No operation at first.
LEMMA FilledInit == Init => Filled
BY DEF Init, Filled, InAio

\* Filled is inductive.
LEMMA FilledStep ==
  ASSUME Domains, Called, Windows, Queues, Placed, Filled, Counted, Next
  PROVE  Filled'
<1>1. CASE ~InAio'
  BY <1>1 DEF Filled
<1>2. CASE OpenFiles /\ pc' = "submit"
  <2>1. PICK initial \in 0 .. call.depth :
          /\ call' = call /\ call.depth \in Nat \ {0}
          /\ kernel' = {} /\ Queued' = {} /\ Fetched' = {}
          /\ initial = LowerOf(call.depth, NextWindow.plan_end - NextWindow.plan_begin)
          /\ slots' = [k \in 1 .. call.depth |->
                         [plan |-> IF k <= initial
                                   THEN NextWindow.plan_begin + k ELSE 0,
                          bytes |-> 0]]
    BY <1>2, OpenFacts
  <2> DEFINE b == NextWindow.plan_begin
             e == NextWindow.plan_end
             L == Len(call.plans)
  <2>2. b \in Nat /\ e \in Nat /\ b <= e /\ e <= L /\ L \in Nat
    BY <1>2, NextWindowFacts, CallTypes DEF OpenFiles, Windows
  <2>3. \A s \in 1 .. call.depth : slots'[s].bytes = 0 /\
          (slots'[s].plan = 0 \/ (s <= initial /\ slots'[s].plan = b + s))
    BY <2>1
  <2> HIDE DEF b, e, L
  <2>4. initial <= e - b
    BY <2>1, <2>2 DEF LowerOf, b, e
  <2>5. \A s \in 1 .. call.depth : slots'[s].plan <= L /\ slots'[s].bytes <= L
    <3> TAKE s \in 1 .. call.depth
    <3> DEFINE v == slots'[s].plan
               w == slots'[s].bytes
    <3>0. call.depth \in Nat
      BY <2>1
    <3>1. s \in Nat /\ initial \in Nat
      BY <3>0
    <3>1a. w = 0 /\ (v = 0 \/ (s <= initial /\ v = b + s))
      BY <2>3
    <3> HIDE DEF v, w
    <3>2. v <= L /\ w <= L
      BY <2>2, <2>4, <3>1, <3>1a
    <3>3. QED
      BY <3>2 DEF v, w
  <2>6. QED
    BY <2>1, <2>5 DEF Filled, L
<1>3. CASE Submit
  <2>1. PICK T \in SUBSET Waiting :
          /\ call' = call /\ slots' = slots /\ Queued' = Queued /\ Fetched' = Fetched
          /\ kernel' = kernel \cup {[slot |-> s, plan |-> slots[s].plan] : s \in T}
          /\ InAio
    BY <1>3, SubmitFacts
  <2>2. \A op \in kernel' : slots'[op.slot].plan = op.plan
    BY <2>1 DEF Filled
  <2>3. QED
    BY <2>1, <2>2 DEF Filled
<1>4. CASE GetEvents
  <2>1. /\ call' = call /\ slots' = slots /\ kernel' = kernel /\ InAio
        /\ Queued = Queued' \cup Fetched'
    BY <1>4, EventsFacts
  <2>2. QED
    BY <2>1 DEF Filled
<1>5. CASE ProcessEvent
  <2> DEFINE s == Head(events).slot
  <2>1. /\ InAio /\ InWindow /\ call' = call /\ kernel' = kernel
        /\ Queued' = Queued /\ Fetched' = Fetched \ {s}
        /\ s \in 1 .. call.depth /\ s \notin Working /\ s \notin Queued
        /\ \/ slots' = slots
           \/ next_plan <= window.plan_end /\ slots' = [slots EXCEPT ![s].plan = next_plan]
    BY <1>5, ProcessFacts
  <2>1a. pc # "idle"
    BY <1>5 DEF ProcessEvent
  <2> HIDE DEF s
  <2>2. slots \in [1 .. call.depth -> [plan : Nat, bytes : Nat]]
    BY <2>1 DEF Placed
  <2>3. CASE slots' = slots
    BY <2>1, <2>3 DEF Filled
  <2>4. CASE next_plan <= window.plan_end /\ slots' = [slots EXCEPT ![s].plan = next_plan]
    <3>1. \A t \in 1 .. call.depth : t # s => slots'[t] = slots[t]
      BY <2>2, <2>4
    <3>2. slots'[s].plan = next_plan /\ slots'[s].bytes = slots[s].bytes
      BY <2>1, <2>2, <2>4
    <3>3. \A op \in kernel : op.slot \in Working /\ op.slot \in 1 .. call.depth
      BY DEF Working, Queues
    <3>4. \A op \in kernel' : slots'[op.slot].plan = op.plan
      BY <2>1, <3>1, <3>3 DEF Filled
    <3>5. \A t \in Queued' \cup Fetched' : slots'[t].plan = slots'[t].bytes
      <4>1. Queued \cup Fetched \subseteq 1 .. call.depth
        BY <2>1 DEF Placed, Queues
      <4>2. QED
        BY <2>1, <3>1, <4>1 DEF Filled
    <3>6. next_plan <= Len(call.plans)
      <4>1. window.plan_end \in Nat /\ next_plan \in Nat /\ Len(call.plans) \in Nat
            /\ window.plan_end <= Len(call.plans)
        BY <2>1a, CallTypes DEF Domains, Windows
      <4>2. QED
        BY <2>4, <4>1
    <3>7. \A t \in 1 .. call.depth : /\ slots'[t].plan <= Len(call.plans)
                                     /\ slots'[t].bytes <= Len(call.plans)
      BY <2>1, <3>1, <3>2, <3>6 DEF Filled
    <3>8. QED
      BY <2>1, <3>4, <3>5, <3>7 DEF Filled
  <2>5. QED
    BY <2>1, <2>3, <2>4
<1>6. CASE SubmitDone \/ EventsDone
  <2>1. /\ InAio /\ kernel' = kernel /\ ready' = ready /\ call' = call
        /\ slots' = slots /\ events' = events
    BY <1>6 DEF SubmitDone, EventsDone, InAio, callVars, kernelVars
  <2>2. Queued' = Queued /\ Fetched' = Fetched
    BY <2>1 DEF Queued, Fetched
  <2>3. QED
    BY <2>1, <2>2 DEF Filled
<1>7. CASE KernelCompletes /\ InAio
  <2>1. PICK op \in kernel :
          /\ call' = call /\ kernel' = kernel \ {op}
          /\ op \in [slot : Nat, plan : Nat] /\ op.slot \in 1 .. call.depth
          /\ Queued' = Queued \cup {op.slot} /\ Fetched' = Fetched
          /\ slots' = [slots EXCEPT ![op.slot].bytes = op.plan]
          /\ op.plan <= Len(call.plans)
    BY <1>7, KernelFacts
  <2>2. slots \in [1 .. call.depth -> [plan : Nat, bytes : Nat]]
    BY <1>7 DEF Placed
  <2>3. \A t \in 1 .. call.depth : t # op.slot => slots'[t] = slots[t]
    BY <2>1, <2>2
  <2>4. slots'[op.slot].plan = slots[op.slot].plan /\ slots'[op.slot].bytes = op.plan
    BY <2>1, <2>2
  <2>5. \A o \in kernel' : slots'[o.slot].plan = o.plan
    <3>1. \A o \in kernel : o.slot \in 1 .. call.depth /\ slots[o.slot].plan = o.plan
      BY <1>7 DEF Filled, Queues, Working
    <3>2. QED
      BY <2>1, <2>3, <2>4, <3>1
  <2>6. \A t \in Queued' \cup Fetched' : slots'[t].plan = slots'[t].bytes
    <3>1. \A t \in Queued \cup Fetched : t \in 1 .. call.depth /\
                                          slots[t].plan = slots[t].bytes
      BY <1>7 DEF Filled, Queues, Placed
    <3>2. slots[op.slot].plan = op.plan
      BY <1>7, <2>1 DEF Filled
    <3>3. op.slot \notin Queued \cup Fetched
      BY <1>7, <2>1 DEF Queues, Placed, Working
    <3>4. QED
      BY <2>1, <2>3, <2>4, <3>1, <3>2, <3>3
  <2>7. \A t \in 1 .. call.depth : /\ slots'[t].plan <= Len(call.plans)
                                   /\ slots'[t].bytes <= Len(call.plans)
    BY <1>7, <2>1, <2>3, <2>4 DEF Filled
  <2>8. QED
    BY <2>1, <2>5, <2>6, <2>7 DEF Filled
<1>8. QED
  <2>1. CASE Apart \/ Resets \/ Leaves
    BY <1>1, <2>1, ApartFacts, ResetsFacts, LeavesFacts
  <2>2. CASE OpenFiles
    BY <1>1, <1>2, <2>2 DEF OpenFiles, InAio
  <2>3. CASE WaitDone
    BY <1>1, <2>3 DEF WaitDone, InAio
  <2>4. CASE KernelCompletes
    BY <1>1, <1>7, <2>4 DEF KernelCompletes, InAio
  <2>5. QED
    BY <1>3, <1>4, <1>5, <1>6, <2>1, <2>2, <2>3, <2>4, StepKinds

(***************************************************************************)
(* The plans in work.                                                      *)
(***************************************************************************)
\* No plan in work at first.
LEMMA AssignedInit == Init => Assigned
BY DEF Init, Assigned, InAio

\* Assigned is inductive.
LEMMA AssignedStep ==
  ASSUME Domains, Called, Windows, Queues, Placed, Assigned, Counted, Next
  PROVE  Assigned'
<1>1. CASE ~InAio'
  BY <1>1 DEF Assigned
<1>2. CASE OpenFiles /\ pc' = "submit"
  <2>1. PICK initial \in 0 .. call.depth :
          /\ call' = call /\ call.depth \in Nat \ {0} /\ call.depth > 1
          /\ window' = NextWindow
          /\ Working' = {} /\ Queued' = {} /\ Fetched' = {}
          /\ initial = LowerOf(call.depth, NextWindow.plan_end - NextWindow.plan_begin)
          /\ next_plan' = NextWindow.plan_begin + initial + 1
          /\ slots' = [k \in 1 .. call.depth |->
                         [plan |-> IF k <= initial
                                   THEN NextWindow.plan_begin + k ELSE 0,
                          bytes |-> 0]]
          /\ Waiting' = 1 .. initial
    BY <1>2, OpenFacts
  <2> DEFINE b == NextWindow.plan_begin
             e == NextWindow.plan_end
             d == call.depth
  <2>2. b \in Nat /\ e \in Nat /\ b <= e
    BY <1>2, NextWindowFacts DEF OpenFiles
  <2>3. Busy' = 1 .. initial
    BY <2>1 DEF Busy
  <2>4. \A s \in 1 .. initial : s \in 1 .. d /\ s <= initial /\ s \in Nat
    BY <2>1
  <2>5. \A s \in 1 .. initial : slots'[s].plan = b + s
    BY <2>1, <2>4
  <2>6. d \in Nat \ {0} /\ d > 1 /\ initial = LowerOf(d, e - b) /\ next_plan' = b + initial + 1
    BY <2>1
  <2> HIDE DEF b, e, d
  <2>7. initial \in Nat /\ next_plan' - 1 = b + initial
    BY <2>2, <2>6 DEF LowerOf
  <2>8. \A s \in Busy' : slots'[s].plan \in b + 1 .. next_plan' - 1
    BY <2>2, <2>3, <2>4, <2>5, <2>7
  <2>9. \A s, t \in Busy' : slots'[s].plan = slots'[t].plan => s = t
    BY <2>2, <2>3, <2>4, <2>5
  <2>10. next_plan' <= e => Busy' # {}
    <3> HAVE next_plan' <= e
    <3>1. initial = d
      BY <2>2, <2>6, <2>7 DEF LowerOf
    <3>2. 1 \in 1 .. initial
      BY <2>6, <3>1
    <3>3. QED
      BY <2>3, <3>2
  <2>11. window'.plan_begin = b /\ window'.plan_end = e
    BY <2>1 DEF b, e
  <2>12. QED
    BY <2>8, <2>9, <2>10, <2>11 DEF Assigned
<1>3. CASE Submit
  <2>1. PICK T \in SUBSET Waiting :
          /\ window' = window /\ next_plan' = next_plan /\ slots' = slots /\ InAio
          /\ Queued' = Queued /\ Fetched' = Fetched
          /\ Waiting' = Waiting \ T /\ Working' = Working \cup T
    BY <1>3, SubmitFacts
  <2>2. Busy' = Busy
    BY <2>1 DEF Busy
  <2>3. QED
    BY <2>1, <2>2 DEF Assigned
<1>4. CASE GetEvents
  <2>1. /\ window' = window /\ next_plan' = next_plan /\ slots' = slots /\ InAio
        /\ Queued = Queued' \cup Fetched' /\ Fetched = {}
        /\ Working' = Working /\ Waiting' = Waiting
    BY <1>4, EventsFacts
  <2>2. Busy' = Busy
    BY <2>1 DEF Busy
  <2>3. QED
    BY <2>1, <2>2 DEF Assigned
<1>5. CASE ProcessEvent
  <2> DEFINE s == Head(events).slot
  <2>1. /\ InAio /\ InWindow /\ call' = call /\ window' = window
        /\ Working' = Working /\ Queued' = Queued
        /\ s \in Fetched /\ Fetched' = Fetched \ {s} /\ s \notin Waiting
        /\ s \in 1 .. call.depth /\ s \notin Working /\ s \notin Queued
        /\ IF next_plan <= window.plan_end
           THEN /\ slots' = [slots EXCEPT ![s].plan = next_plan]
                /\ next_plan' = next_plan + 1
                /\ Waiting' = Waiting \cup {s}
           ELSE /\ slots' = slots /\ next_plan' = next_plan
                /\ Waiting' = Waiting
    BY <1>5, ProcessFacts
  <2> HIDE DEF s
  <2>2. /\ slots \in [1 .. call.depth -> [plan : Nat, bytes : Nat]]
        /\ next_plan \in Nat /\ window.plan_begin \in Nat
        /\ window.plan_begin < next_plan
    BY <2>1 DEF Placed, Domains, Windows
  <2>3. Busy \subseteq 1 .. call.depth
    BY <2>1 DEF Busy, Placed, Queues
  <2>4. CASE next_plan <= window.plan_end
    <3>1. Busy' = Busy /\ s \in Busy
      BY <2>1, <2>4 DEF Busy
    <3>2. slots'[s].plan = next_plan
      BY <2>1, <2>2, <2>4
    <3>3. \A t \in 1 .. call.depth : t # s => slots'[t] = slots[t]
      BY <2>1, <2>2, <2>4
    <3>4. \A t \in Busy : t # s =>
            /\ slots'[t].plan = slots[t].plan
            /\ slots[t].plan \in window.plan_begin + 1 .. next_plan - 1
      BY <2>1, <2>3, <3>3 DEF Assigned
    <3>5. \A t \in Busy : slots'[t].plan \in window.plan_begin + 1 .. next_plan
      <4> TAKE t \in Busy
      <4> DEFINE v == slots[t].plan
      <4>1. CASE t = s
        BY <2>2, <3>2, <4>1
      <4>2. CASE t # s
        <5>1. slots'[t].plan = v /\ v \in window.plan_begin + 1 .. next_plan - 1
          BY <3>4, <4>2
        <5> HIDE DEF v
        <5>2. QED
          BY <2>2, <5>1
      <4>3. QED
        BY <4>1, <4>2
    <3>6. \A t \in Busy : t # s => slots'[t].plan # next_plan
      <4> TAKE t \in Busy
      <4> HAVE t # s
      <4> DEFINE v == slots[t].plan
      <4>1. slots'[t].plan = v /\ v \in window.plan_begin + 1 .. next_plan - 1
        BY <3>4
      <4> HIDE DEF v
      <4>2. QED
        BY <2>2, <4>1
    <3>7. \A t, u \in Busy : slots'[t].plan = slots'[u].plan => t = u
      BY <2>1, <3>2, <3>4, <3>6 DEF Assigned
    <3>8. next_plan' - 1 = next_plan
      BY <2>1, <2>2, <2>4
    <3>9. QED
      BY <2>1, <3>1, <3>5, <3>7, <3>8 DEF Assigned
  <2>5. CASE ~(next_plan <= window.plan_end)
    <3>1. Busy' \subseteq Busy /\ slots' = slots /\ next_plan' = next_plan
      BY <2>1, <2>5 DEF Busy
    <3>2. QED
      BY <2>1, <2>5, <3>1 DEF Assigned
  <2>6. QED
    BY <2>4, <2>5
<1>6. CASE SubmitDone \/ EventsDone
  <2>1. /\ InAio /\ kernel' = kernel /\ ready' = ready /\ window' = window
        /\ slots' = slots /\ events' = events /\ submissions' = submissions
        /\ next_plan' = next_plan
    BY <1>6 DEF SubmitDone, EventsDone, InAio, callVars, kernelVars
  <2>2. Busy' = Busy
    BY <2>1 DEF Busy, Working, Queued, Fetched, Waiting
  <2>3. QED
    BY <2>1, <2>2 DEF Assigned
<1>7. CASE KernelCompletes /\ InAio
  <2>1. PICK op \in kernel :
          /\ window' = window /\ next_plan' = next_plan
          /\ op.slot \in Working /\ op.slot \in 1 .. call.depth
          /\ Working' = Working \ {op.slot} /\ Queued' = Queued \cup {op.slot}
          /\ Fetched' = Fetched /\ Waiting' = Waiting
          /\ slots' = [slots EXCEPT ![op.slot].bytes = op.plan]
    BY <1>7, KernelFacts
  <2>2. Busy' = Busy
    BY <2>1 DEF Busy
  <2>3. slots \in [1 .. call.depth -> [plan : Nat, bytes : Nat]]
    BY <1>7 DEF Placed
  <2>4. \A t \in 1 .. call.depth : slots'[t].plan = slots[t].plan
    BY <2>1, <2>3
  <2>5. Busy \subseteq 1 .. call.depth
    BY <1>7 DEF Busy, Placed, Queues
  <2>6. \A t \in Busy : slots'[t].plan = slots[t].plan
    BY <2>4, <2>5
  <2>7. QED
    BY <1>7, <2>1, <2>2, <2>6 DEF Assigned
<1>8. QED
  <2>1. CASE Apart \/ Resets \/ Leaves
    BY <1>1, <2>1, ApartFacts, ResetsFacts, LeavesFacts
  <2>2. CASE OpenFiles
    BY <1>1, <1>2, <2>2 DEF OpenFiles, InAio
  <2>3. CASE WaitDone
    BY <1>1, <2>3 DEF WaitDone, InAio
  <2>4. CASE KernelCompletes
    BY <1>1, <1>7, <2>4 DEF KernelCompletes, InAio
  <2>5. QED
    BY <1>3, <1>4, <1>5, <1>6, <2>1, <2>2, <2>3, <2>4, StepKinds

\* The domains of the initial values.
LEMMA DomainsInit == Init => Domains
BY FS_EmptySet DEF Init, Domains, NoWindow

\* Domains is inductive.
LEMMA DomainsStep ==
  ASSUME Domains, Called, Windows, Queues, Placed, Counted, Next
  PROVE  Domains'
<1> DEFINE PCs == {"idle", "open", "blocking", "submit", "wait", "process", "close",
                   "catch", "catchClose", "rethrow"}
           W == [list_begin : Nat, list_end : Nat, plan_begin : Nat, plan_end : Nat]
<1>1. pc' \in PCs
  BY DEF Domains, Next, CallStep, CallFailure, StartCall, AcquireFails, ThreadEnds,
         OpenFiles, ReturnTopK, EndCall, BlockingRead, BlockingDone, Submit, SubmitDone,
         GetEvents, ProcessEvent, BadEvent, LeaveAio, EventsDone, WaitDone, CloseFiles,
         CatchDestroy, CatchClose, Rethrow, OpenFails, BlockingFails, AioThrows,
         KernelCompletes
<1>2. window' \in W /\ next_plan' \in Nat
  <2>1. NoWindow \in W /\ window \in W /\ next_plan \in Nat
    BY DEF NoWindow, Domains
  <2>2. CASE OpenFiles
    <3>1. NextWindow \in W /\ NextWindow.plan_begin \in Nat /\ NextWindow.plan_end \in Nat
          /\ NextWindow.plan_begin <= NextWindow.plan_end /\ call.depth \in Nat
      BY <2>2, NextWindowFacts, CallTypes DEF OpenFiles
    <3> DEFINE b == NextWindow.plan_begin
               i == LowerOf(call.depth, NextWindow.plan_end - b)
    <3>2. i \in Nat /\ b \in Nat
      BY <3>1 DEF LowerOf
    <3>3. window' = NextWindow /\ (next_plan' = b + 1 \/ next_plan' = b + i + 1)
      BY <2>2 DEF OpenFiles
    <3> HIDE DEF b, i
    <3>4. QED
      BY <3>1, <3>2, <3>3
  <2>3. CASE ~OpenFiles
    <3>1. /\ window' = window \/ window' = NoWindow
          /\ next_plan' = next_plan \/ next_plan' = 0 \/ next_plan' = next_plan + 1
      BY <2>3 DEF Next, CallStep, CallFailure, StartCall, AcquireFails, ThreadEnds,
         ReturnTopK, EndCall, BlockingRead, BlockingDone, Submit, SubmitDone,
         GetEvents, ProcessEvent, BadEvent, LeaveAio, EventsDone, WaitDone, CloseFiles,
         CatchDestroy, CatchClose, Rethrow, OpenFails, BlockingFails, AioThrows,
         KernelCompletes, callVars
    <3>2. QED
      BY <2>1, <3>1
  <2>4. QED
    BY <2>2, <2>3
<1>3. context' \in Nat
  <2>1. context \in Nat /\ \A o \in Options : o[1] \in Nat
    <3>1. \A o \in Options : o \in (Nat \ {0}) \X Nat
      BY AioConstants
    <3>2. QED
      BY <3>1 DEF Domains
  <2>2. context' = context \/ context' = 0 \/ \E o \in Options : context' = o[1]
    BY DEF Next, CallStep, CallFailure, StartCall, Acquired, AcquireFails, ThreadEnds,
         OpenFiles, ReturnTopK, BlockingRead, BlockingDone, Submit, SubmitDone,
         GetEvents, ProcessEvent, BadEvent, LeaveAio, EventsDone, WaitDone, CloseFiles,
         CatchDestroy, CatchClose, Rethrow, ResetContext, OpenFails, BlockingFails,
         AioThrows, KernelCompletes, kernelVars
  <2>3. QED
    BY <2>1, <2>2
<1>4. /\ kernel' \subseteq [slot : Nat, plan : Nat] /\ IsFiniteSet(kernel')
      /\ ready' \in Seq(Event) /\ events' \in Seq(Event) /\ submissions' \in Seq(Nat)
      /\ inflight' \in Nat /\ offered' \in Nat
  <2>1. /\ kernel \subseteq [slot : Nat, plan : Nat] /\ IsFiniteSet(kernel)
        /\ ready \in Seq(Event) /\ events \in Seq(Event) /\ submissions \in Seq(Nat)
        /\ inflight \in Nat /\ offered \in Nat
        /\ Len(submissions) \in Nat /\ IsFiniteSet({})
        /\ <<>> \in Seq(Event) /\ <<>> \in Seq(Nat)
    BY FS_EmptySet DEF Domains
  <2>2. CASE Apart
    BY <2>1, <2>2, ApartFacts
  <2>3. CASE Resets
    BY <2>1, <2>3, ResetsFacts
  <2>4. CASE Leaves
    BY <2>1, <2>4, LeavesFacts
  <2>5. CASE OpenFiles
    <3>1. CASE pc' = "submit"
      <4>1. /\ kernel' = {} /\ ready' = <<>> /\ events' = <<>>
            /\ submissions' \in Seq(Nat) /\ inflight' = 0
            /\ \E initial \in 0 .. call.depth : offered' = initial
        BY <2>5, <3>1, OpenFacts
      <4>2. offered' \in Nat
        BY <4>1
      <4>3. QED
        BY <2>1, <4>1, <4>2
    <3>2. CASE pc' # "submit"
      BY <2>1, <2>5, <3>2 DEF OpenFiles, kernelVars
    <3>3. QED
      BY <3>1, <3>2
  <2>6. CASE Submit
    BY <2>1, <2>6, SubmitFacts
  <2>7. CASE SubmitDone \/ EventsDone
    <3>1. /\ kernel' = kernel /\ ready' = ready /\ events' = events
          /\ submissions' = submissions
          /\ inflight' = inflight \/ inflight' = inflight + offered
          /\ offered' = 0 \/ offered' = Len(submissions)
      BY <2>7 DEF SubmitDone, EventsDone, kernelVars
    <3>2. QED
      BY <2>1, <3>1
  <2>8. CASE GetEvents
    BY <2>1, <2>8, EventsFacts
  <2>9. CASE ProcessEvent
    <3>1. /\ pc = "process" /\ events # <<>> /\ inflight' = inflight - 1
          /\ kernel' = kernel /\ ready' = ready /\ offered' = offered
          /\ events' \in Seq(Event) /\ submissions' \in Seq(Nat)
      BY <2>9, ProcessFacts
    <3>2. /\ inflight = Cardinality(kernel) + Len(ready) + Len(events)
          /\ Cardinality(kernel) \in Nat /\ Len(ready) \in Nat
          /\ Len(events) \in Nat \ {0}
      BY <2>1, <3>1, FS_CardinalityType DEF Counted
    <3>3. inflight' \in Nat
      BY <3>1, <3>2
    <3>4. QED
      BY <2>1, <3>1, <3>3
  <2>10. CASE WaitDone
    BY <2>1, <2>10 DEF WaitDone, kernelVars
  <2>11. CASE KernelCompletes
    BY <2>1, <2>11, KernelFacts
  <2>12. QED
    BY <2>2, <2>3, <2>4, <2>5, <2>6, <2>7, <2>8, <2>9, <2>10, <2>11, StepKinds
<1>5. QED
  BY <1>1, <1>2, <1>3, <1>4 DEF Domains

(***************************************************************************)
(* Folds over sets, for what a fold keeps.                                 *)
(***************************************************************************)
\* What holds of {} and, with an element more, of every subset.
LEMMA SubsetInduct ==
  ASSUME NEW S, IsFiniteSet(S), NEW c, Choice(S, c), NEW B, {} \in B,
         \A s \in SUBSET S : s # {} /\ s \ {c[s]} \in B => s \in B
  PROVE  \A s \in SUBSET S : s \in B
<1> DEFINE N == Cardinality(S)
           G == {n \in 0 .. N : \A s \in SUBSET S : Cardinality(s) = n => s \in B}
<1>1. N \in Nat /\ \A s \in SUBSET S : IsFiniteSet(s) /\ Cardinality(s) \in 0 .. N
  <2>1. N \in Nat
    BY FS_CardinalityType
  <2>2. \A s \in SUBSET S : IsFiniteSet(s) /\ Cardinality(s) <= N
    BY FS_Subset
  <2>3. QED
    BY <2>1, <2>2, FS_CardinalityType
<1>2. 0 \in G
  <2>1. \A s \in SUBSET S : Cardinality(s) = 0 => s \in B
    BY <1>1, FS_EmptySet
  <2>2. QED
    BY <1>1, <2>1
<1>3. \A n \in 0 .. N - 1 : n \in G => n + 1 \in G
  <2> SUFFICES ASSUME NEW n \in 0 .. N - 1,
                      \A s \in SUBSET S : Cardinality(s) = n => s \in B,
                      NEW s \in SUBSET S, Cardinality(s) = n + 1
               PROVE  s \in B
    BY <1>1
  <2>1. s # {}
    <3>1. Cardinality({}) = 0 /\ n + 1 # 0
      BY <1>1, FS_EmptySet
    <3>2. QED
      BY <3>1
  <2>2. c[s] \in s
    BY <2>1 DEF Choice
  <2>3. Cardinality(s \ {c[s]}) = n
    <3>1. Cardinality(s \ {c[s]}) = Cardinality(s) - 1
      BY <1>1, <2>2, FS_RemoveElement
    <3>2. QED
      BY <3>1
  <2>4. s \ {c[s]} \in B
    BY <2>3
  <2>5. QED
    BY <2>1, <2>4
<1>4. \A n \in 0 .. N : n \in G
  <2> HIDE DEF G, N
  <2>1. QED
    BY <1>1, <1>2, <1>3, Induct
<1>5. QED
  BY <1>1, <1>4

\* A step of the fold leads from J to J.
Leads(S, V, F, c, J) ==
  \A s \in SUBSET S : \A v \in V :
    s # {} /\ <<s \ {c[s]}, v>> \in J => <<s, F[<<c[s], v>>]>> \in J

\* What a fold keeps: J relates the subsets to what is folded from them.
LEMMA FoldKeeps ==
  ASSUME NEW S, IsFiniteSet(S), NEW V, NEW b, NEW F, NEW c, NEW g,
         Choice(S, c), FoldsAll(S, V, b, F, c, g),
         NEW J, <<{}, b>> \in J, Leads(S, V, F, c, J)
  PROVE  <<S, g[S]>> \in J
<1> DEFINE B == {s \in SUBSET S : <<s, g[s]>> \in J}
<1>1. {} \in B
  BY DEF FoldsAll
<1>2. \A s \in SUBSET S : s # {} /\ s \ {c[s]} \in B => s \in B
  <2> TAKE s \in SUBSET S
  <2> HAVE s # {} /\ s \ {c[s]} \in B
  <2> DEFINE v == g[s \ {c[s]}]
  <2>1. <<s \ {c[s]}, v>> \in J /\ v \in V /\ g[s] = F[<<c[s], v>>]
    BY DEF FoldsAll
  <2> HIDE DEF v
  <2>2. <<s, F[<<c[s], v>>]>> \in J
    BY <2>1 DEF Leads
  <2>3. QED
    BY <2>1, <2>2
<1>3. \A s \in SUBSET S : s \in B
  <2> HIDE DEF B
  <2>1. QED
    BY <1>1, <1>2, SubsetInduct
<1>4. QED
  BY <1>3

(***************************************************************************)
(* exact_top.                                                              *)
(***************************************************************************)
Neighbors == Int \X Nat \X Nat

\* The order of the neighbors is a strict total order.
LEMMA BetterOrder ==
  /\ \A m \in Neighbors : ~Better(m, m)
  /\ \A l, m, n \in Neighbors : Better(l, m) /\ Better(m, n) => Better(l, n)
  /\ \A m, n \in Neighbors : m # n => Better(m, n) \/ Better(n, m)
BY DEF Better, Neighbors

\* h holds the best of N, TopK of them or all.
IsBest(h, N) ==
  /\ h \subseteq N /\ IsFiniteSet(h) /\ Cardinality(h) <= TopK
  /\ h # N => Cardinality(h) = TopK
  /\ \A w \in h, m \in N \ h : Better(w, m)

\* A set of neighbors has one that is worse than the others.
LEMMA Worst ==
  ASSUME NEW H, H \subseteq Neighbors, IsFiniteSet(H), H # {}
  PROVE  \E z \in H : /\ {m \in H : \E w \in H : Better(m, w)} = H \ {z}
                      /\ \A w \in H : w # z => Better(w, z)
<1> DEFINE R == {p \in H \X H : Better(p[1], p[2])}
           N == Cardinality(H)
<1>1. \A x, y \in H : <<x, y>> \in R <=> Better(x, y)
  OBVIOUS
<1> HIDE DEF R
<1>2. /\ \A x \in H : <<x, x>> \notin R
      /\ \A x, y, z \in H : <<x, y>> \in R /\ <<y, z>> \in R => <<x, z>> \in R
      /\ \A x, y \in H : x # y => <<x, y>> \in R \/ <<y, x>> \in R
  BY <1>1, BetterOrder
<1>3. /\ N \in Nat
      /\ \A x \in H : Rank(H, R, x) \in 0 .. N - 1
      /\ \A x, y \in H : <<x, y>> \in R <=> Rank(H, R, x) < Rank(H, R, y)
      /\ \A n \in 0 .. N - 1 : \E x \in H : Rank(H, R, x) = n
      /\ \A x, y \in H : Rank(H, R, x) = Rank(H, R, y) => x = y
  BY <1>2, Ranks
<1>4. N - 1 \in 0 .. N - 1
  <2>1. N # 0
    BY FS_EmptySet
  <2>2. QED
    BY <1>3, <2>1
<1>5. PICK z \in H : Rank(H, R, z) = N - 1
  BY <1>3, <1>4
<1>6. \A w \in H : w # z => Better(w, z)
  <2> TAKE w \in H
  <2> HAVE w # z
  <2>1. Rank(H, R, w) \in 0 .. N - 1 /\ Rank(H, R, w) # N - 1
    BY <1>3, <1>5
  <2>2. Rank(H, R, w) < Rank(H, R, z)
    BY <1>3, <1>5, <2>1
  <2>3. QED
    BY <1>1, <1>3, <2>2
<1>7. \A w \in H : ~Better(z, w)
  <2>1. \A w \in H : Better(w, z) => ~Better(z, w)
    BY BetterOrder
  <2>2. QED
    BY <1>6, <2>1, BetterOrder
<1>8. {m \in H : \E w \in H : Better(m, w)} = H \ {z}
  BY <1>6, <1>7
<1>9. QED
  BY <1>6, <1>8

\* Inserting a neighbor keeps the best.
LEMMA InsertBest ==
  ASSUME NEW N, N \subseteq Neighbors, NEW n \in Neighbors, NEW h, IsBest(h, N)
  PROVE  /\ IsBest(InsertExact(h, n), N \cup {n})
         /\ InsertExact(h, n) \subseteq h \cup {n}
<1> DEFINE H == h \cup {n}
           K == {m \in H : \E w \in H : Better(m, w)}
<1>1. /\ h \subseteq N /\ IsFiniteSet(h) /\ Cardinality(h) \in Nat /\ TopK \in Nat
      /\ Cardinality(h) <= TopK
  BY FS_CardinalityType, AioConstants DEF IsBest
<1>2. IsFiniteSet(H) /\ Cardinality(H) = IF n \in h THEN Cardinality(h)
                                         ELSE Cardinality(h) + 1
  BY <1>1, FS_AddElement
<1>3. InsertExact(h, n) = IF Cardinality(H) <= TopK THEN H ELSE K
  BY DEF InsertExact
<1>4. CASE n \in h
  <2>1. InsertExact(h, n) = h /\ N \cup {n} = N
    BY <1>1, <1>2, <1>3, <1>4
  <2>2. QED
    BY <2>1
<1>5. CASE n \notin h /\ Cardinality(h) < TopK
  <2>1. h = N
    BY <1>1, <1>5 DEF IsBest
  <2>2. InsertExact(h, n) = H /\ Cardinality(H) <= TopK
    BY <1>1, <1>2, <1>3, <1>5
  <2>3. QED
    BY <1>2, <2>1, <2>2 DEF IsBest
<1>6. CASE n \notin h /\ Cardinality(h) = TopK
  <2>1. InsertExact(h, n) = K /\ Cardinality(H) = TopK + 1
    BY <1>1, <1>2, <1>3, <1>6
  <2>2. H \subseteq Neighbors /\ H # {}
    BY <1>1
  <2>3. PICK z \in H : K = H \ {z} /\ \A w \in H : w # z => Better(w, z)
    BY <1>2, <2>2, Worst
  <2> HIDE DEF K
  <2>4. IsFiniteSet(K) /\ Cardinality(K) = TopK
    <3>1. IsFiniteSet(H \ {z}) /\ Cardinality(H \ {z}) = Cardinality(H) - 1
      BY <1>2, FS_RemoveElement
    <3>2. QED
      BY <1>1, <2>1, <2>3, <3>1
  <2>5. \A w \in K : \A m \in (N \cup {n}) \ K : Better(w, m)
    <3> TAKE w \in K
    <3> TAKE m \in (N \cup {n}) \ K
    <3>1. CASE m = z
      BY <2>3, <3>1
    <3>2. CASE m # z
      <4>1. m \in N \ h /\ m \in Neighbors /\ w \in Neighbors
        BY <2>2, <2>3, <3>2
      <4>2. CASE w \in h
        BY <4>1, <4>2 DEF IsBest
      <4>3. CASE w = n
        <5>1. n # z /\ z \in h
          BY <2>3, <4>3
        <5>2. Better(n, z) /\ Better(z, m) /\ z \in Neighbors
          BY <2>2, <2>3, <4>1, <5>1 DEF IsBest
        <5>3. QED
          BY <4>1, <4>3, <5>2, BetterOrder
      <4>4. QED
        BY <2>3, <4>2, <4>3
    <3>3. QED
      BY <3>1, <3>2
  <2>6. K \subseteq N \cup {n} /\ K \subseteq H
    BY <1>1, <2>3
  <2>7. QED
    BY <1>1, <2>1, <2>4, <2>5, <2>6 DEF IsBest
<1>7. QED
  BY <1>1, <1>4, <1>5, <1>6

\* The neighbors that the items of a plan are.
NeighborsOf(p) == {Neighbor(BytesAt(p, i)) : i \in p.items}

\* A plan's records are inserted one by one, in whatever order.
LEMMA PlanBest ==
  ASSUME NEW N, N \subseteq Neighbors, NEW p, IsFiniteSet(p.items),
         NeighborsOf(p) \subseteq Neighbors, NEW h, IsBest(h, N)
  PROVE  IsBest(ProcessPlan(h, p, p), N \cup NeighborsOf(p))
<1> DEFINE S == p.items
           X(i) == Neighbor(BytesAt(p, i))
           V == SUBSET Neighbors
           F == [z \in S \X V |-> InsertExact(z[2], X(z[1]))]
           c == [s \in SUBSET S |-> CHOOSE x \in s : TRUE]
           Step(it) == [s \in SUBSET S |->
                          IF s = {} THEN h
                          ELSE InsertExact(it[s \ {CHOOSE x \in s : TRUE}],
                                           X(CHOOSE x \in s : TRUE))]
           iter == CHOOSE it : it = Step(it)
           Got(s) == N \cup {X(i) : i \in s}
           J == {q \in (SUBSET S) \X V : IsBest(q[2], Got(q[1]))}
<1>1. ProcessPlan(h, p, p) = iter[S]
  BY DEF ProcessPlan, FoldSet, MapThenFoldSet
<1>2. \A i \in S : X(i) \in Neighbors
  BY DEF NeighborsOf
<1>3. \A s \in SUBSET S : s # {} => c[s] \in s /\ c[s] = CHOOSE x \in s : TRUE
  OBVIOUS
<1>4. Choice(S, c)
  BY <1>3 DEF Choice
<1>5. \A i \in S : \A v \in V : /\ F[<<i, v>>] = InsertExact(v, X(i))
                                /\ F[<<i, v>>] \in V
  <2> TAKE i \in S
  <2> TAKE v \in V
  <2>1. F[<<i, v>>] = InsertExact(v, X(i))
    OBVIOUS
  <2>2. X(i) \in Neighbors
    BY <1>2
  <2> HIDE DEF F, X
  <2>3. InsertExact(v, X(i)) \subseteq Neighbors
    BY <2>2 DEF InsertExact
  <2>4. QED
    BY <2>1, <2>3
<1>6. h \in V
  BY DEF IsBest
<1> HIDE DEF F, V, X, c
<1>7. Closed(S, V, F)
  BY <1>5 DEF Closed
<1>8. PICK g : FoldsAll(S, V, h, F, c, g)
  <2> HIDE DEF S
  <2>1. IsFiniteSet(S)
    BY DEF S
  <2>2. QED
    BY <1>4, <1>6, <1>7, <2>1, FoldDefined
<1>9. g = Step(g)
  <2>1. g = [s \in SUBSET S |-> g[s]] /\ g[{}] = h
    BY <1>8 DEF FoldsAll
  <2>2. \A s \in SUBSET S : s # {} =>
          g[s] = InsertExact(g[s \ {CHOOSE x \in s : TRUE}], X(CHOOSE x \in s : TRUE))
    <3> TAKE s \in SUBSET S
    <3> HAVE s # {}
    <3>1. g[s] = F[<<c[s], g[s \ {c[s]}]>>] /\ g[s \ {c[s]}] \in V
      BY <1>8 DEF FoldsAll
    <3>2. c[s] \in S /\ c[s] = CHOOSE x \in s : TRUE
      BY <1>3
    <3>3. QED
      BY <1>5, <3>1, <3>2
  <2>3. QED
    BY <2>1, <2>2
<1>10. iter = Step(iter)
  BY <1>9
<1> HIDE DEF iter
<1>11. FoldsAll(S, V, h, F, c, iter)
  <2>1. iter[{}] = h /\ iter = [s \in SUBSET S |-> iter[s]]
    BY <1>10
  <2>2. \A s \in SUBSET S : s # {} => iter[s] = InsertExact(iter[s \ {c[s]}], X(c[s]))
    BY <1>3, <1>10
  <2>3. \A s \in SUBSET S : iter[s] \in V
    <3> DEFINE B == {s \in SUBSET S : iter[s] \in V}
    <3>1. {} \in B
      BY <1>6, <2>1
    <3>2. \A s \in SUBSET S : s # {} /\ s \ {c[s]} \in B => s \in B
      <4> TAKE s \in SUBSET S
      <4> HAVE s # {} /\ s \ {c[s]} \in B
      <4> DEFINE v == iter[s \ {c[s]}]
      <4>1. c[s] \in S /\ v \in V /\ iter[s] = InsertExact(v, X(c[s]))
        BY <1>3, <2>2
      <4> HIDE DEF v
      <4>2. F[<<c[s], v>>] = InsertExact(v, X(c[s])) /\ F[<<c[s], v>>] \in V
        BY <1>5, <4>1
      <4>3. QED
        BY <4>1, <4>2
    <3>3. IsFiniteSet(S)
      OBVIOUS
    <3> HIDE DEF B, S
    <3>4. \A s \in SUBSET S : s \in B
      BY <1>4, <3>1, <3>2, <3>3, SubsetInduct
    <3>5. QED
      BY <3>4 DEF B
  <2>4. \A s \in SUBSET S : s # {} => iter[s] = F[<<c[s], iter[s \ {c[s]}]>>]
    <3> TAKE s \in SUBSET S
    <3> HAVE s # {}
    <3>1. c[s] \in S /\ iter[s \ {c[s]}] \in V
      BY <1>3, <2>3
    <3>2. QED
      BY <1>5, <2>2, <3>1
  <2>5. QED
    BY <2>1, <2>3, <2>4 DEF FoldsAll
<1>12. <<{}, h>> \in J
  <2>1. Got({}) = N
    OBVIOUS
  <2>2. {} \in SUBSET S /\ h \in V
    BY <1>6
  <2> HIDE DEF Got
  <2>3. QED
    BY <2>1, <2>2
<1>13. \A s \in SUBSET S : \A v \in V :
         s # {} /\ <<s \ {c[s]}, v>> \in J => <<s, F[<<c[s], v>>]>> \in J
  <2> SUFFICES ASSUME NEW s \in SUBSET S, NEW v \in V, s # {},
                      IsBest(v, Got(s \ {c[s]}))
               PROVE  <<s, F[<<c[s], v>>]>> \in J
    OBVIOUS
  <2> DEFINE r == s \ {c[s]}
             x == X(c[s])
             G == Got(r)
  <2>1. c[s] \in s /\ c[s] \in S /\ r \in SUBSET S
    BY <1>3
  <2>2. IsBest(v, G)
    OBVIOUS
  <2>3. F[<<c[s], v>>] = InsertExact(v, x) /\ F[<<c[s], v>>] \in V
    BY <1>5, <2>1
  <2>4. Got(s) = G \cup {x} /\ G \subseteq Neighbors /\ x \in Neighbors
    BY <1>2, <2>1
  <2> HIDE DEF x, r, G
  <2>5. IsBest(InsertExact(v, x), G \cup {x})
    BY <2>2, <2>4, InsertBest
  <2>6. IsBest(F[<<c[s], v>>], Got(s))
    BY <2>3, <2>4, <2>5
  <2> HIDE DEF Got
  <2>7. QED
    BY <2>3, <2>6
<1>14. <<S, iter[S]>> \in J
  <2>1. IsFiniteSet(S)
    OBVIOUS
  <2> HIDE DEF S, J
  <2>2. Leads(S, V, F, c, J)
    BY <1>13 DEF Leads
  <2>3. QED
    BY <1>4, <1>11, <1>12, <2>1, <2>2, FoldKeeps
<1>15. Got(S) = N \cup NeighborsOf(p)
  BY DEF NeighborsOf, X
<1>16. IsBest(iter[S], Got(S))
  <2> HIDE DEF Got
  <2>1. QED
    BY <1>14
<1>17. QED
  BY <1>1, <1>15, <1>16

(***************************************************************************)
(* What the heap holds.                                                    *)
(***************************************************************************)
\* The candidates that the plans P read, and their neighbors.
ReadBy(P) ==
  {y \in call.candidates :
     \E k \in P \cap PlanIndex : \E i \in call.plans[k].items :
       BytesAt(call.plans[k], i) = y}
Found(P) == {Neighbor(y) : y \in ReadBy(P)}

\* The plans whose records have been offered to the heap.
Done ==
  IF InAio THEN (1 .. next_plan - 1) \ {slots[s].plan : s \in Busy}
  ELSE IF pc = "blocking" THEN 1 .. next_plan - 1
  ELSE 1 .. window.plan_end

\* The heap holds the best of the records read so far.
Kept == InWindow \/ pc \in {"open", "close"} => IsBest(heap, Found(Done))

\* The candidates are places of records with a distance.
LEMMA CandidateTypes ==
  ASSUME Called, pc # "idle"
  PROVE  /\ call.candidates \subseteq Nat \X Nat /\ IsFiniteSet(call.candidates)
         /\ Cardinality(call.candidates) >= TopK
         /\ \A y \in call.candidates : Neighbor(y) \in Neighbors
<1>1. call.candidates \in Requests
  BY DEF Called
<1>2. /\ call.candidates \subseteq Nat \X Nat /\ IsFiniteSet(call.candidates)
      /\ Cardinality(call.candidates) >= TopK
      /\ \A y \in call.candidates : Distance(y) \in Int
  BY <1>1, AioConstants
<1>3. \A y \in call.candidates : Neighbor(y) \in Neighbors
  BY <1>2 DEF Neighbor, Neighbors
<1>4. QED
  BY <1>2, <1>3

\* A plan adds its items.
LEMMA FoundWith ==
  ASSUME Called, pc # "idle", NEW P, NEW k \in PlanIndex
  PROVE  /\ Found(P) \subseteq Neighbors
         /\ NeighborsOf(call.plans[k]) \subseteq Neighbors
         /\ IsFiniteSet(call.plans[k].items)
         /\ Found(P \cup {k}) = Found(P) \cup NeighborsOf(call.plans[k])
<1> DEFINE p == call.plans[k]
<1>1. \A i \in p.items : BytesAt(p, i) \in call.candidates
  BY DEF Called, Built, PlanIndex
<1>2. Found(P) \subseteq Neighbors /\ NeighborsOf(p) \subseteq Neighbors
  BY <1>1, CandidateTypes DEF Found, ReadBy, NeighborsOf
<1>3. IsFiniteSet(p.items)
  <2>1. p \in Plan /\ WholePlan(p)
    BY CallTypes
  <2>2. p.pages \in Nat /\ p.items \subseteq 0 .. p.pages * RecordsPerPage - 1
    BY <2>1, PlanTypes
  <2> DEFINE m == p.pages * RecordsPerPage - 1
  <2>3. m \in Int
    BY <2>2, AioConstants
  <2> HIDE DEF m
  <2>4. IsFiniteSet(0 .. m)
    BY <2>3, FS_Interval
  <2>5. QED
    BY <2>2, <2>4, FS_Subset DEF m
<1>4. ReadBy(P \cup {k}) = ReadBy(P) \cup {BytesAt(p, i) : i \in p.items}
  <2>1. (P \cup {k}) \cap PlanIndex = (P \cap PlanIndex) \cup {k}
    OBVIOUS
  <2>2. \A y : y \in ReadBy(P \cup {k}) <=>
                 y \in ReadBy(P) \/ \E i \in p.items : BytesAt(p, i) = y
    BY <1>1, <2>1 DEF ReadBy
  <2> HIDE DEF p
  <2>3. QED
    BY <2>2
<1>5. Found(P \cup {k}) = Found(P) \cup NeighborsOf(p)
  <2> HIDE DEF p
  <2>1. QED
    BY <1>4 DEF Found, NeighborsOf
<1>6. QED
  BY <1>2, <1>3, <1>5

\* All the plans read all the candidates.
LEMMA FoundAll ==
  ASSUME Called, pc # "idle", NEW P, PlanIndex \subseteq P
  PROVE  Found(P) = {Neighbor(y) : y \in call.candidates}
<1>1. \A y \in call.candidates : \E k \in PlanIndex : \E i \in call.plans[k].items :
        BytesAt(call.plans[k], i) = y
  BY DEF Called, Built, PlanIndex
<1>2. P \cap PlanIndex = PlanIndex
  OBVIOUS
<1>3. ReadBy(P) = call.candidates
  BY <1>1, <1>2 DEF ReadBy
<1>4. QED
  BY <1>3 DEF Found

\* What is left to show when the call goes on.
LEMMA KeptNext ==
  ASSUME call' = call, NEW D, Done' = D, IsBest(heap', Found(D))
  PROVE  Kept'
BY DEF Kept, Found, ReadBy, PlanIndex

\* No window at first.
LEMMA KeptInit == Init => Kept
BY DEF Init, Kept, InWindow, InAio

\* Kept is inductive.
LEMMA KeptStep ==
  ASSUME Domains, Called, Windows, Queues, Placed, Filled, Assigned, Counted, Kept, Next
  PROVE  Kept'
<1>0. window.plan_begin \in Nat /\ window.plan_end \in Nat /\ next_plan \in Nat
  BY DEF Domains
<1>1. CASE ~InWindow' /\ pc' \notin {"open", "close"}
  BY <1>1 DEF Kept
<1>2. CASE StartCall
  <2>1. pc' = "open" /\ window' = NoWindow /\ heap' = {}
    BY <1>2 DEF StartCall
  <2>2. Done' = {}
    <3>1. ~InAio' /\ pc' # "blocking" /\ window'.plan_end = 0
      BY <2>1 DEF InAio, NoWindow
    <3>2. 1 .. 0 = {}
      OBVIOUS
    <3>3. QED
      BY <3>1, <3>2 DEF Done
  <2>3. Found(Done)' = {}
    BY <2>2 DEF Found, ReadBy
  <2>4. IsBest({}, {})
    <3>1. IsFiniteSet({}) /\ Cardinality({}) = 0 /\ 0 <= TopK
      BY FS_EmptySet, AioConstants
    <3>2. QED
      BY <3>1 DEF IsBest
  <2>5. IsBest(heap, Found(Done))'
    BY <2>1, <2>3, <2>4
  <2>6. QED
    BY <2>5 DEF Kept
<1>3. CASE OpenFiles
  <2>1. /\ pc = "open" /\ window.list_end < Len(call.lists) /\ call' = call
        /\ heap' = heap /\ window' = NextWindow
    BY <1>3 DEF OpenFiles
  <2> DEFINE b == NextWindow.plan_begin
  <2>2. Done = 1 .. b /\ b \in Nat /\ IsBest(heap, Found(Done))
    BY <2>1, NextWindowFacts DEF Done, InAio, Kept
  <2>3. CASE pc' = "blocking"
    <3>1. next_plan' = b + 1
      BY <1>3, <2>3 DEF OpenFiles
    <3> HIDE DEF b
    <3>2. next_plan' - 1 = b /\ ~InAio'
      BY <2>2, <2>3, <3>1 DEF InAio
    <3>3. Done' = 1 .. next_plan' - 1
      BY <2>3, <3>2 DEF Done
    <3>4. Done' = 1 .. b
      BY <3>2, <3>3
    <3>5. QED
      BY <2>1, <2>2, <3>4, KeptNext
  <2>4. CASE pc' = "submit"
    <3>1. PICK initial \in 0 .. call.depth :
            /\ call.depth \in Nat \ {0}
            /\ Working' = {} /\ Queued' = {} /\ Fetched' = {} /\ Waiting' = 1 .. initial
            /\ next_plan' = b + initial + 1
            /\ slots' = [k \in 1 .. call.depth |->
                           [plan |-> IF k <= initial THEN b + k ELSE 0, bytes |-> 0]]
      BY <1>3, <2>4, OpenFacts
    <3>2. initial \in Nat /\ next_plan' - 1 = b + initial /\ InAio'
      BY <2>2, <2>4, <3>1 DEF InAio
    <3>3. \A s \in 1 .. initial : s \in Nat /\ slots'[s].plan = b + s
      <4> TAKE s \in 1 .. initial
      <4>1. s \in 1 .. call.depth /\ s <= initial /\ s \in Nat
        BY <3>1
      <4>2. QED
        BY <3>1, <4>1
    <3>4. Busy' = 1 .. initial
      BY <3>1 DEF Busy
    <3> HIDE DEF b
    <3>5. {slots'[s].plan : s \in Busy'} = b + 1 .. b + initial
      <4>1. \A s \in 1 .. initial : b + s \in b + 1 .. b + initial
        BY <2>2, <3>2
      <4>2. \A v \in b + 1 .. b + initial : v - b \in 1 .. initial /\ v = b + (v - b)
        BY <2>2, <3>2
      <4> DEFINE P == {slots'[s].plan : s \in 1 .. initial}
      <4>3. \A v \in P : v \in b + 1 .. b + initial
        BY <3>3, <4>1
      <4>4. \A v \in b + 1 .. b + initial : v \in P
        <5> TAKE v \in b + 1 .. b + initial
        <5>1. PICK s \in 1 .. initial : v = b + s
          BY <4>2
        <5>2. slots'[s].plan = v
          BY <3>3, <5>1
        <5>3. QED
          BY <5>2
      <4> HIDE DEF P
      <4>5. P = b + 1 .. b + initial
        BY <4>3, <4>4
      <4>6. QED
        BY <3>4, <4>5 DEF P
    <3>6. Done' = (1 .. next_plan' - 1) \ {slots'[s].plan : s \in Busy'}
      BY <3>2 DEF Done
    <3>7. (1 .. b + initial) \ (b + 1 .. b + initial) = 1 .. b
      BY <2>2, <3>2
    <3>8. Done' = 1 .. b
      BY <3>2, <3>5, <3>6, <3>7
    <3>9. QED
      BY <2>1, <2>2, <3>8, KeptNext
  <2>5. QED
    BY <1>3, <2>3, <2>4 DEF OpenFiles
<1>4. CASE BlockingRead
  <2>1. /\ pc = "blocking" /\ pc' = pc /\ call' = call /\ next_plan <= window.plan_end
        /\ heap' = ProcessPlan(heap, call.plans[next_plan], call.plans[next_plan])
        /\ next_plan' = next_plan + 1
    BY <1>4 DEF BlockingRead
  <2>2. ~InAio /\ ~InAio' /\ InWindow
    BY <2>1 DEF InAio, InWindow
  <2>3. next_plan \in PlanIndex
    <3>1. window.plan_end <= Len(call.plans) /\ window.plan_begin < next_plan
      BY <2>1, <2>2 DEF Windows
    <3>2. Len(call.plans) \in Nat
      BY <2>1, CallTypes
    <3>3. QED
      BY <1>0, <2>1, <3>1, <3>2 DEF PlanIndex
  <2> DEFINE D == 1 .. next_plan - 1
             p == call.plans[next_plan]
  <2>4. Done = D /\ Done' = D \cup {next_plan}
    <3>1. next_plan' - 1 = next_plan /\ 1 .. next_plan = D \cup {next_plan}
      BY <1>0, <2>1, <2>3 DEF PlanIndex
    <3>2. QED
      BY <2>1, <2>2, <3>1 DEF Done
  <2>5. IsBest(heap, Found(D))
    BY <2>2, <2>4 DEF Kept
  <2>6. /\ Found(D) \subseteq Neighbors /\ NeighborsOf(p) \subseteq Neighbors
        /\ IsFiniteSet(p.items) /\ Found(D \cup {next_plan}) = Found(D) \cup NeighborsOf(p)
    BY <2>1, <2>3, FoundWith
  <2> HIDE DEF D, p
  <2>7. IsBest(ProcessPlan(heap, p, p), Found(D) \cup NeighborsOf(p))
    BY <2>5, <2>6, PlanBest
  <2>8. QED
    BY <2>1, <2>4, <2>6, <2>7, KeptNext DEF p
<1>5. CASE BlockingDone
  <2>1. /\ pc = "blocking" /\ pc' = "close" /\ next_plan > window.plan_end
        /\ call' = call /\ heap' = heap /\ window' = window
    BY <1>5 DEF BlockingDone, callVars
  <2>2. ~InAio /\ ~InAio' /\ InWindow
    BY <2>1 DEF InAio, InWindow
  <2>3. next_plan - 1 = window.plan_end
    BY <1>0, <2>1, <2>2 DEF Windows
  <2>4. Done' = Done /\ IsBest(heap, Found(Done))
    BY <2>1, <2>2, <2>3 DEF Done, Kept
  <2>5. QED
    BY <2>1, <2>4, KeptNext
<1>6. CASE Submit \/ GetEvents \/ (KernelCompletes /\ InAio) \/ SubmitDone \/ EventsDone
  <2>1. /\ InAio /\ InAio' /\ InWindow /\ call' = call /\ heap' = heap
        /\ next_plan' = next_plan
    BY <1>6 DEF Submit, GetEvents, KernelCompletes, SubmitDone, EventsDone, InAio, InWindow,
                callVars
  <2>2. Busy' = Busy /\ \A s \in Busy : slots'[s].plan = slots[s].plan
    <3>1. CASE Submit
      <4>1. PICK T \in SUBSET Waiting :
              /\ slots' = slots /\ Queued' = Queued /\ Fetched' = Fetched
              /\ Waiting' = Waiting \ T /\ Working' = Working \cup T
        BY <3>1, SubmitFacts
      <4>2. QED
        BY <4>1 DEF Busy
    <3>2. CASE GetEvents
      <4>1. /\ slots' = slots /\ Queued = Queued' \cup Fetched' /\ Fetched = {}
            /\ Working' = Working /\ Waiting' = Waiting
        BY <3>2, EventsFacts
      <4>2. QED
        BY <4>1 DEF Busy
    <3>3. CASE KernelCompletes
      <4>1. PICK op \in kernel :
              /\ op.slot \in Working /\ op.slot \in 1 .. call.depth
              /\ Working' = Working \ {op.slot} /\ Queued' = Queued \cup {op.slot}
              /\ Fetched' = Fetched /\ Waiting' = Waiting
              /\ slots' = [slots EXCEPT ![op.slot].bytes = op.plan]
        BY <2>1, <3>3, KernelFacts
      <4>2. slots \in [1 .. call.depth -> [plan : Nat, bytes : Nat]]
        BY <2>1 DEF Placed
      <4>3. \A t \in 1 .. call.depth : slots'[t].plan = slots[t].plan
        BY <4>1, <4>2
      <4>4. Busy \subseteq 1 .. call.depth
        BY <2>1 DEF Busy, Placed, Queues
      <4>5. Busy' = Busy
        BY <4>1 DEF Busy
      <4>6. QED
        BY <4>3, <4>4, <4>5
    <3>4. CASE SubmitDone \/ EventsDone
      BY <3>4 DEF SubmitDone, EventsDone, Busy, Working, Queued, Fetched, Waiting, kernelVars
    <3>5. QED
      BY <1>6, <3>1, <3>2, <3>3, <3>4
  <2>3. Done' = Done
    BY <2>1, <2>2 DEF Done
  <2>4. IsBest(heap, Found(Done))
    BY <2>1 DEF Kept
  <2>5. QED
    BY <2>1, <2>3, <2>4, KeptNext
<1>7. CASE ProcessEvent
  <2> DEFINE s == Head(events).slot
             k == slots[s].plan
             p == call.plans[k]
  <2>1. /\ pc = "process" /\ InAio /\ InAio' /\ InWindow
        /\ call' = call /\ window' = window
        /\ Working' = Working /\ Queued' = Queued
        /\ s \in Fetched /\ Fetched' = Fetched \ {s} /\ s \notin Waiting
        /\ s \in 1 .. call.depth /\ s \notin Working /\ s \notin Queued
        /\ heap' = ProcessPlan(heap, p, call.plans[slots[s].bytes])
        /\ IF next_plan <= window.plan_end
           THEN /\ slots' = [slots EXCEPT ![s].plan = next_plan]
                /\ next_plan' = next_plan + 1
                /\ Waiting' = Waiting \cup {s}
           ELSE /\ slots' = slots /\ next_plan' = next_plan
                /\ Waiting' = Waiting
    BY <1>7, ProcessFacts
  <2> HIDE DEF s
  <2>2. slots \in [1 .. call.depth -> [plan : Nat, bytes : Nat]]
    BY <2>1 DEF Placed
  <2>3. s \in Busy /\ Busy \subseteq 1 .. call.depth
    BY <2>1 DEF Busy, Placed, Queues
  <2>4. /\ k \in 1 .. next_plan - 1 /\ k \in PlanIndex /\ slots[s].bytes = k
    <3>1. k \in window.plan_begin + 1 .. next_plan - 1 /\ slots[s].bytes = k
      BY <2>1, <2>3 DEF Assigned, Filled
    <3>2. next_plan <= window.plan_end + 1 /\ window.plan_end <= Len(call.plans)
      BY <2>1 DEF Windows
    <3>3. Len(call.plans) \in Nat
      BY <2>1, CallTypes
    <3> HIDE DEF k
    <3>4. k \in 1 .. next_plan - 1
      BY <1>0, <3>1
    <3>5. k \in PlanIndex
      BY <1>0, <3>1, <3>2, <3>3 DEF PlanIndex
    <3>6. QED
      BY <3>1, <3>4, <3>5 DEF k
  <2>5. \A t \in Busy : t # s => slots[t].plan # k
    BY <2>1, <2>3 DEF Assigned
  <2>6. \A t \in Busy : slots[t].plan \in 1 .. next_plan - 1
    <3> TAKE t \in Busy
    <3> DEFINE v == slots[t].plan
    <3>1. v \in window.plan_begin + 1 .. next_plan - 1
      BY <2>1 DEF Assigned
    <3> HIDE DEF v
    <3>2. v \in 1 .. next_plan - 1
      BY <1>0, <3>1
    <3>3. QED
      BY <3>2 DEF v
  <2> DEFINE U == {slots[t].plan : t \in Busy}
             N == 1 .. next_plan - 1
  <2>7. Done = N \ U /\ k \in U
    BY <2>1, <2>3 DEF Done
  <2>8. Done' = Done \cup {k}
    <3>1. CASE next_plan <= window.plan_end
      <4>1. Busy' = Busy
        BY <2>1, <3>1 DEF Busy
      <4>2. /\ slots'[s].plan = next_plan
            /\ \A t \in Busy : t # s => slots'[t].plan = slots[t].plan
        BY <2>1, <2>2, <2>3, <3>1
      <4>3. {slots'[t].plan : t \in Busy'} = (U \ {k}) \cup {next_plan}
        BY <2>3, <2>5, <4>1, <4>2
      <4>4. 1 .. next_plan' - 1 = N \cup {next_plan} /\ next_plan \notin N
        <5>1. next_plan' - 1 = next_plan
          BY <1>0, <2>1, <3>1
        <5>2. next_plan \in Nat /\ next_plan # 0
          BY <1>0, <2>4
        <5>3. QED
          BY <5>1, <5>2
      <4>5. Done' = (1 .. next_plan' - 1) \ {slots'[t].plan : t \in Busy'}
        BY <2>1 DEF Done
      <4>6. k \in N
        BY <2>4
      <4> HIDE DEF N, U, k
      <4>7. QED
        BY <2>7, <4>3, <4>4, <4>5, <4>6
    <3>2. CASE ~(next_plan <= window.plan_end)
      <4>1. Busy' = Busy \ {s} /\ slots' = slots /\ next_plan' = next_plan
        BY <2>1, <3>2 DEF Busy
      <4>2. {slots'[t].plan : t \in Busy'} = U \ {k}
        BY <2>3, <2>5, <4>1
      <4>3. Done' = N \ {slots'[t].plan : t \in Busy'}
        BY <2>1, <4>1 DEF Done
      <4>4. k \in N
        BY <2>4
      <4> HIDE DEF N, U, k
      <4>5. QED
        BY <2>7, <4>2, <4>3, <4>4
    <3>3. QED
      BY <3>1, <3>2
  <2>9. IsBest(heap, Found(Done))
    BY <2>1 DEF Kept
  <2>10. /\ Found(Done) \subseteq Neighbors /\ NeighborsOf(p) \subseteq Neighbors
         /\ IsFiniteSet(p.items) /\ Found(Done \cup {k}) = Found(Done) \cup NeighborsOf(p)
    BY <2>1, <2>4, FoundWith
  <2>11. heap' = ProcessPlan(heap, p, p)
    BY <2>1, <2>4
  <2> HIDE DEF p, k
  <2>12. IsBest(ProcessPlan(heap, p, p), Found(Done) \cup NeighborsOf(p))
    BY <2>9, <2>10, PlanBest
  <2>13. QED
    BY <2>1, <2>8, <2>10, <2>11, <2>12, KeptNext
<1>8. CASE WaitDone
  <2>1. /\ pc = "wait" /\ pc' = "close" /\ inflight = 0
        /\ call' = call /\ heap' = heap /\ window' = window
    BY <1>8 DEF WaitDone, callVars
  <2>2. InAio /\ ~InAio' /\ InWindow
    BY <2>1 DEF InAio, InWindow
  <2>3. Busy = {}
    BY <2>1, NothingInFlight, NoElements DEF Busy, Working, Queued, Fetched, Waiting
  <2>4. next_plan - 1 = window.plan_end
    BY <1>0, <2>2, <2>3 DEF Windows, Assigned
  <2>5. Done' = Done /\ IsBest(heap, Found(Done))
    BY <2>1, <2>2, <2>3, <2>4 DEF Done, Kept
  <2>6. QED
    BY <2>1, <2>5, KeptNext
<1>9. CASE CloseFiles
  <2>1. /\ pc = "close" /\ pc' \in {"open", "catch"}
        /\ call' = call /\ heap' = heap /\ window' = window
    BY <1>9 DEF CloseFiles
  <2>2. Done' = Done /\ IsBest(heap, Found(Done))
    BY <2>1 DEF Done, Kept, InAio
  <2>3. QED
    BY <2>1, <2>2, KeptNext
<1>10. QED
  <2>1. CASE Leaves \/ Resets
    BY <1>1, <2>1 DEF Leaves, Resets, BadEvent, AioThrows, LeaveAio, CatchDestroy, Rethrow,
                      EndCall, InWindow, InAio
  <2>2. CASE AcquireFails \/ ThreadEnds \/ OpenFails \/ ReturnTopK \/ BlockingFails
             \/ CatchClose
    BY <1>1, <2>2 DEF AcquireFails, ThreadEnds, OpenFails, ReturnTopK, EndCall,
                      BlockingFails, CatchClose, InWindow, InAio
  <2>3. CASE KernelCompletes /\ ~InAio
    <3>1. pc = "catch" /\ pc' = pc
      BY <2>3 DEF KernelCompletes, Queues
    <3>2. QED
      BY <1>1, <3>1 DEF InWindow, InAio
  <2>4. QED
    BY <1>2, <1>3, <1>4, <1>5, <1>6, <1>7, <1>8, <1>9, <2>1, <2>2, <2>3, StepKinds
       DEF Apart

(***************************************************************************)
(* What the call returns.                                                  *)
(***************************************************************************)
\* The heap is sorted: each neighbor once, the best first.
LEMMA SortedNeighbors ==
  ASSUME NEW H, H \subseteq Neighbors, IsFiniteSet(H)
  PROVE  /\ Cardinality(H) \in Nat
         /\ Sorted(H, Better) \in [1 .. Cardinality(H) -> H]
         /\ \A j, k \in 1 .. Cardinality(H) :
              j < k => Better(Sorted(H, Better)[j], Sorted(H, Better)[k])
         /\ \A x \in H : \E k \in 1 .. Cardinality(H) : Sorted(H, Better)[k] = x
<1> DEFINE R == {p \in H \X H : Better(p[1], p[2])}
           N == Cardinality(H)
           s == Sorted(H, Better)
<1>1. \A x, y \in H : <<x, y>> \in R <=> Better(x, y)
  OBVIOUS
<1>2. /\ \A x \in H : <<x, x>> \notin R
      /\ \A x, y, z \in H : <<x, y>> \in R /\ <<y, z>> \in R => <<x, z>> \in R
      /\ \A x, y \in H : x # y => <<x, y>> \in R \/ <<y, x>> \in R
  <2> HIDE DEF R
  <2>1. QED
    BY <1>1, BetterOrder
<1>3. \A x \in H : Cardinality({y \in H : Better(y, x)}) = Rank(H, R, x)
  <2> TAKE x \in H
  <2>1. {y \in H : Better(y, x)} = {y \in H : <<y, x>> \in R}
    BY <1>1
  <2>2. QED
    BY <2>1 DEF Rank
<1> HIDE DEF R
<1>4. /\ N \in Nat
      /\ \A x \in H : Rank(H, R, x) \in 0 .. N - 1
      /\ \A x, y \in H : <<x, y>> \in R <=> Rank(H, R, x) < Rank(H, R, y)
      /\ \A n \in 0 .. N - 1 : \E x \in H : Rank(H, R, x) = n
      /\ \A x, y \in H : Rank(H, R, x) = Rank(H, R, y) => x = y
  BY <1>2, Ranks
<1>5. \A n \in 1 .. N : s[n] \in H /\ Rank(H, R, s[n]) = n - 1
  <2> TAKE n \in 1 .. N
  <2>1. s[n] = CHOOSE x \in H : Cardinality({y \in H : Better(y, x)}) = n - 1
    BY DEF Sorted
  <2>2. n - 1 \in 0 .. N - 1
    BY <1>4
  <2>3. \E x \in H : Cardinality({y \in H : Better(y, x)}) = n - 1
    BY <1>3, <1>4, <2>2
  <2>4. s[n] \in H /\ Cardinality({y \in H : Better(y, s[n])}) = n - 1
    BY <2>1, <2>3
  <2>5. QED
    BY <1>3, <2>4
<1>6. s \in [1 .. N -> H]
  <2>1. s = [n \in 1 .. N |-> CHOOSE x \in H : Cardinality({y \in H : Better(y, x)}) = n - 1]
    BY Zenon DEF Sorted
  <2>2. s = [n \in 1 .. N |-> s[n]]
    BY <2>1
  <2> HIDE DEF s
  <2>3. QED
    BY <1>5, <2>2
<1> HIDE DEF s
<1>7. \A j, k \in 1 .. N : j < k => Better(s[j], s[k])
  <2> TAKE j, k \in 1 .. N
  <2> HAVE j < k
  <2>1. Rank(H, R, s[j]) < Rank(H, R, s[k])
    BY <1>4, <1>5
  <2>2. QED
    BY <1>1, <1>4, <1>5, <2>1
<1>8. \A x \in H : \E k \in 1 .. N : s[k] = x
  <2> TAKE x \in H
  <2>1. Rank(H, R, x) + 1 \in 1 .. N
    BY <1>4
  <2>2. Rank(H, R, s[Rank(H, R, x) + 1]) = Rank(H, R, x)
    BY <1>4, <1>5, <2>1
  <2>3. QED
    BY <1>4, <1>5, <2>1, <2>2
<1>9. QED
  BY <1>4, <1>6, <1>7, <1>8 DEF s

\* r lists the TopK best of N in order.
Delivers(r, N) ==
  LET kept == {r[k] : k \in DOMAIN r}
  IN  /\ Len(r) = TopK /\ kept \subseteq N
      /\ \A j, k \in DOMAIN r : j < k => Better(r[j], r[k])
      /\ \A m \in N \ kept : Better(r[TopK], m)

\* Sorting the TopK best of a large enough set delivers them in order.
LEMMA SortedBest ==
  ASSUME NEW N, N \subseteq Neighbors, IsFiniteSet(N), TopK <= Cardinality(N),
         NEW h, IsBest(h, N)
  PROVE  Delivers(Sorted(h, Better), N)
<1> DEFINE r == Sorted(h, Better)
           kept == {r[k] : k \in DOMAIN r}
<1>1. /\ h \subseteq N /\ IsFiniteSet(h) /\ Cardinality(h) <= TopK
      /\ h # N => Cardinality(h) = TopK
      /\ \A w \in h, m \in N \ h : Better(w, m)
  BY DEF IsBest
<1>2. Cardinality(h) = TopK /\ TopK \in Nat \ {0}
  <2>1. Cardinality(h) \in Nat
    BY <1>1, FS_CardinalityType
  <2>2. QED
    BY <1>1, <2>1, AioConstants
<1>3. /\ r \in [1 .. TopK -> h]
      /\ \A j, k \in 1 .. TopK : j < k => Better(r[j], r[k])
      /\ \A x \in h : \E k \in 1 .. TopK : r[k] = x
  <2>1. h \subseteq Neighbors
    BY <1>1
  <2>2. /\ r \in [1 .. Cardinality(h) -> h]
        /\ \A j, k \in 1 .. Cardinality(h) : j < k => Better(r[j], r[k])
        /\ \A x \in h : \E k \in 1 .. Cardinality(h) : r[k] = x
    BY <1>1, <2>1, SortedNeighbors
  <2>3. QED
    BY <1>2, <2>2
<1> HIDE DEF r
<1>4. DOMAIN r = 1 .. TopK /\ kept = h
  BY <1>3
<1>5. Len(r) = TopK
  <2>1. r \in Seq(h)
    BY <1>2, <1>3
  <2>2. QED
    BY <1>2, <1>4, <2>1
<1>6. r[TopK] \in h
  BY <1>2, <1>3
<1>7. QED
  BY <1>1, <1>3, <1>4, <1>5, <1>6 DEF r, Delivers

\* As many neighbors as candidates.
LEMMA CandidateNeighbors ==
  ASSUME Called, pc # "idle"
  PROVE  LET N == {Neighbor(y) : y \in call.candidates}
         IN  N \subseteq Neighbors /\ IsFiniteSet(N) /\ TopK <= Cardinality(N)
<1> DEFINE C == call.candidates
           N == {Neighbor(y) : y \in C}
           f == [y \in C |-> Neighbor(y)]
<1>1. /\ C \subseteq Nat \X Nat /\ IsFiniteSet(C)
      /\ Cardinality(C) >= TopK
      /\ \A y \in C : Neighbor(y) \in Neighbors
  BY CandidateTypes
<1>2. \A x, y \in C : Neighbor(x) = Neighbor(y) => x = y
  <2>1. \A x, y \in Nat \X Nat : Neighbor(x) = Neighbor(y) => x = y
    BY DEF Neighbor
  <2>2. QED
    BY <1>1, <2>1
<1>3. f \in Bijection(C, N)
  BY <1>2 DEF Bijection, Injection, Surjection, IsInjective
<1> HIDE DEF C, f
<1>4. ExistsBijection(C, N)
  BY <1>3 DEF ExistsBijection
<1>5. N \subseteq Neighbors
  BY <1>1
<1> HIDE DEF N
<1>6. IsFiniteSet(N) /\ Cardinality(N) = Cardinality(C)
  BY <1>1, <1>4, FS_Bijection
<1>7. TopK <= Cardinality(N)
  BY <1>1, <1>6
<1>8. QED
  BY <1>5, <1>6, <1>7 DEF N, C

\* No result at first.
LEMMA ResultInit == Init => ResultExact
BY DEF Init, ResultExact

\* When the windows are through, every plan is.
LEMMA AllDone ==
  ASSUME Domains, Called, Windows, pc = "open", window.list_end = Len(call.lists)
  PROVE  PlanIndex \subseteq Done
<1>1. /\ Listed(call.plans, call.lists) /\ Covers(window.plan_end, window.list_end)
      /\ window.plan_end \in Nat
  BY DEF Called, Windows, Domains
<1>2. \A k \in PlanIndex : \E j \in 1 .. window.list_end : call.plans[k].list = call.lists[j]
  BY <1>1 DEF Listed, PlanIndex
<1>3. \A k \in PlanIndex : k \in Nat /\ 1 <= k /\ k <= window.plan_end
  BY <1>1, <1>2 DEF Covers, PlanIndex
<1>4. Done = 1 .. window.plan_end
  BY DEF Done, InAio
<1>5. QED
  BY <1>1, <1>3, <1>4

\* ResultExact is inductive.
LEMMA ResultStep ==
  ASSUME Domains, Called, Windows, Kept, ResultExact, Next
  PROVE  ResultExact'
<1>1. CASE StartCall
  <2>1. result' = <<>>
    BY <1>1 DEF StartCall
  <2>2. QED
    BY <2>1 DEF ResultExact
<1>2. CASE AcquireFails \/ ThreadEnds \/ CatchDestroy
  <2>1. call' = call /\ result' = result
    BY <1>2 DEF AcquireFails, ThreadEnds, CatchDestroy, callVars
  <2>2. QED
    BY <2>1 DEF ResultExact
<1>3. CASE KeepsCall
  <2>1. call' = call /\ result' = result
    BY <1>3, KeepsCallFacts
  <2>2. QED
    BY <2>1 DEF ResultExact
<1>4. CASE Rethrow
  <2>1. pc = "rethrow" /\ result' = result
    BY <1>4 DEF Rethrow
  <2>2. result' = <<>>
    BY <2>1 DEF Called
  <2>3. QED
    BY <2>2 DEF ResultExact
<1>5. CASE ReturnTopK
  <2> DEFINE N == {Neighbor(y) : y \in call.candidates}
  <2>1. /\ pc = "open" /\ window.list_end = Len(call.lists)
        /\ result' = Sorted(heap, Better)
        /\ call' = [NoCall EXCEPT !.candidates = call.candidates]
    BY <1>5 DEF ReturnTopK, EndCall
  <2>2. call'.candidates = call.candidates
    BY <2>1 DEF NoCall
  <2>3. Found(Done) = N
    <3>1. PlanIndex \subseteq Done
      BY <2>1, AllDone
    <3>2. QED
      BY <2>1, <3>1, FoundAll
  <2>4. IsBest(heap, N)
    BY <2>1, <2>3 DEF Kept
  <2>5. N \subseteq Neighbors /\ IsFiniteSet(N) /\ TopK <= Cardinality(N)
    BY <2>1, CandidateNeighbors
  <2> HIDE DEF N
  <2>6. Delivers(result', N)
    BY <2>1, <2>4, <2>5, SortedBest
  <2>7. N = {Neighbor(y) : y \in call'.candidates}
    BY <2>2 DEF N
  <2>8. QED
    BY <2>6, <2>7 DEF ResultExact, Delivers
<1>6. QED
  BY <1>1, <1>2, <1>3, <1>4, <1>5 DEF Next, CallStep, KeepsCall

-----------------------------------------------------------------------------
(***************************************************************************)
(* The invariant, and what follows from it.                                *)
(***************************************************************************)
IInv ==
  /\ Domains /\ Called /\ Windows /\ Queues /\ Placed /\ Filled
  /\ Assigned /\ Counted /\ Kept /\ ResultExact

\* It holds at first,
LEMMA IInvInit == Init => IInv
BY CalledInit, WindowsInit, QueuesInit, PlacedInit, CountedInit, FilledInit,
   AssignedInit, DomainsInit, KeptInit, ResultInit DEF IInv

\* every step keeps it,
LEMMA IInvNext ==
  ASSUME IInv, Next
  PROVE  IInv'
<1> USE DEF IInv
<1>1. Domains'
  BY DomainsStep
<1>2. Called'
  BY CalledStep
<1>3. Windows'
  BY WindowsStep
<1>4. Queues'
  BY QueuesStep
<1>5. Placed'
  BY PlacedStep
<1>6. Filled'
  BY FilledStep
<1>7. Assigned'
  BY AssignedStep
<1>8. Counted'
  BY CountedStep
<1>9. Kept'
  BY KeptStep
<1>10. ResultExact'
  BY ResultStep
<1>11. QED
  BY <1>1, <1>2, <1>3, <1>4, <1>5, <1>6, <1>7, <1>8, <1>9, <1>10

\* and so does a step that changes nothing.
LEMMA IInvStutters ==
  ASSUME IInv, UNCHANGED vars
  PROVE  IInv'
<1>1. /\ pc' = pc /\ call' = call /\ window' = window /\ next_plan' = next_plan
      /\ files' = files /\ slots' = slots /\ submissions' = submissions
      /\ offered' = offered /\ events' = events /\ inflight' = inflight
      /\ heap' = heap /\ result' = result /\ context' = context
      /\ kernel' = kernel /\ ready' = ready
  BY DEF vars, callVars, aioVars, kernelVars
<1>2. Domains' /\ Called' /\ Counted' /\ ResultExact'
  BY <1>1 DEF IInv, Domains, Called, Counted, ResultExact
<1>3. Windows'
  BY <1>1 DEF IInv, Windows, Covers, PlanIndex, InWindow, InAio
<1>4. Queues' /\ Placed' /\ Filled'
  BY <1>1 DEF IInv, Queues, Placed, Filled, Working, Queued, Fetched, Waiting, InAio
<1>5. Assigned'
  BY <1>1 DEF IInv, Assigned, Busy, Working, Queued, Fetched, Waiting, InAio
<1>6. Kept'
  BY <1>1 DEF IInv, Kept, Found, ReadBy, Done, Busy, Working, Queued, Fetched, Waiting,
              InAio, InWindow, PlanIndex
<1>7. QED
  BY <1>2, <1>3, <1>4, <1>5, <1>6 DEF IInv

\* It always holds.
LEMMA IInvHolds == Spec => []IInv
<1>1. IInv /\ [Next]_vars => IInv'
  BY IInvNext, IInvStutters
<1>2. QED
  BY IInvInit, <1>1, PTL DEF Spec

\* Its consequences: the domains,
LEMMA TypeHolds ==
  ASSUME IInv
  PROVE  TypeOK
<1> USE DEF IInv
<1>1. \A k \in DOMAIN call.plans :
        /\ call.plans[k].pages \in Nat \ {0}
        /\ call.plans[k].items \subseteq 0 .. (call.plans[k].pages * RecordsPerPage - 1)
  <2>1. CASE pc = "idle"
    BY <2>1 DEF Called
  <2>2. CASE pc # "idle"
    <3>1. DOMAIN call.plans = PlanIndex
      BY <2>2, CallTypes DEF PlanIndex
    <3>2. QED
      BY <2>2, <3>1, CallTypes, PlanTypes
  <2>3. QED
    BY <2>1, <2>2
<1>2. /\ \A k \in DOMAIN slots : {slots[k].plan, slots[k].bytes} \subseteq
                                   0 .. Len(call.plans)
      /\ \A k \in DOMAIN submissions : submissions[k] \in DOMAIN slots
  <2>1. CASE ~InAio
    BY <2>1 DEF Placed
  <2>2. CASE InAio
    <3>1. /\ slots \in [1 .. call.depth -> [plan : Nat, bytes : Nat]]
          /\ Waiting \subseteq 1 .. call.depth
          /\ DOMAIN submissions = 1 .. Len(submissions)
      BY <2>2 DEF Placed, Domains
    <3>2. \A k \in 1 .. call.depth : /\ slots[k].plan \in Nat /\ slots[k].bytes \in Nat
                                     /\ slots[k].plan <= Len(call.plans)
                                     /\ slots[k].bytes <= Len(call.plans)
      <4>1. \A k \in 1 .. call.depth : slots[k] \in [plan : Nat, bytes : Nat]
        BY <3>1
      <4>2. QED
        BY <2>2, <4>1 DEF Filled
    <3>3. Len(call.plans) \in Nat
      BY <2>2, CallTypes DEF InAio
    <3>4. DOMAIN slots = 1 .. call.depth
      BY <3>1
    <3>5. \A k \in 1 .. call.depth : /\ slots[k].plan \in 0 .. Len(call.plans)
                                     /\ slots[k].bytes \in 0 .. Len(call.plans)
      BY <3>2, <3>3
    <3>6. \A k \in DOMAIN submissions : submissions[k] \in Waiting
      BY <3>1 DEF Waiting, Elements
    <3>7. QED
      BY <3>1, <3>4, <3>5, <3>6
  <2>3. QED
    BY <2>1, <2>2
<1>3. QED
  BY <1>1, <1>2 DEF TypeOK, Domains, Called

\* the plans of the call,
LEMMA PlansHold ==
  ASSUME IInv
  PROVE  PlansExact
<1>1. CASE pc = "idle"
  BY <1>1 DEF PlansExact
<1>2. CASE pc # "idle"
  <2>1. IsFiniteSet(call.candidates) /\ Built(call.plans, call.candidates)
    BY <1>2, CandidateTypes DEF IInv, Called
  <2>2. QED
    BY <2>1, BuiltExact DEF PlansExact
<1>3. QED
  BY <1>1, <1>2

\* the open files,
LEMMA FilesHold ==
  ASSUME IInv
  PROVE  FilesOutliveReads
<1> SUFFICES ASSUME NEW op \in kernel
             PROVE  call.plans[op.plan].list \in files
  BY DEF FilesOutliveReads
<1>1. /\ op.plan \in window.plan_begin + 1 .. window.plan_end /\ pc # "idle"
      /\ window.plan_begin \in Nat /\ window.plan_end \in Nat
      /\ window.list_begin \in Nat /\ window.list_end \in Nat
  BY DEF IInv, Queues, Domains, InAio
<1>2. /\ window.plan_end <= Len(call.plans) /\ Len(call.plans) \in Nat
      /\ Covers(window.plan_begin, window.list_begin)
      /\ Covers(window.plan_end, window.list_end)
      /\ files = {call.lists[j] : j \in window.list_begin + 1 .. window.list_end}
  BY <1>1, CallTypes DEF IInv, Windows
<1>3. op.plan \in PlanIndex /\ op.plan <= window.plan_end /\ ~(op.plan <= window.plan_begin)
  BY <1>1, <1>2 DEF PlanIndex
<1>4. PICK j \in 1 .. window.list_end : call.plans[op.plan].list = call.lists[j]
  BY <1>2, <1>3 DEF Covers
<1>5. j \notin 1 .. window.list_begin
  BY <1>2, <1>3, <1>4 DEF Covers
<1>6. j \in window.list_begin + 1 .. window.list_end
  BY <1>1, <1>4, <1>5
<1>7. QED
  BY <1>2, <1>4, <1>6

\* what a call leaves behind,
LEMMA ContextHolds ==
  ASSUME IInv
  PROVE  ContextEmptyBetweenCalls
BY DEF IInv, Queues, Windows, InAio, ContextEmptyBetweenCalls

\* Two sequences without a common element.
LEMMA JoinSequences ==
  ASSUME NEW p \in Seq(Nat), NEW q \in Seq(Nat), Distinct(p), Distinct(q),
         Elements(p) \cap Elements(q) = {}
  PROVE  /\ p \o q \in Seq(Nat) /\ Distinct(p \o q)
         /\ Elements(p \o q) = Elements(p) \cup Elements(q)
<1> DEFINE m == Len(p)
           n == Len(q)
           r == p \o q
<1>1. /\ r \in Seq(Nat) /\ Len(r) = m + n /\ m \in Nat /\ n \in Nat
      /\ \A k \in 1 .. m : r[k] = p[k]
      /\ \A k \in 1 .. n : r[m + k] = q[k]
  OBVIOUS
<1>2. /\ \A j, k \in 1 .. m : p[j] = p[k] => j = k
      /\ \A j, k \in 1 .. n : q[j] = q[k] => j = k
      /\ \A j \in 1 .. m : \A k \in 1 .. n : p[j] # q[k]
      /\ Elements(p) = {p[k] : k \in 1 .. m} /\ Elements(q) = {q[k] : k \in 1 .. n}
  <2>1. Elements(p) = {p[k] : k \in 1 .. m} /\ Elements(q) = {q[k] : k \in 1 .. n}
    BY DEF Elements
  <2>2. /\ \A j, k \in 1 .. m : p[j] = p[k] => j = k
        /\ \A j, k \in 1 .. n : q[j] = q[k] => j = k
    BY DEF Distinct
  <2> HIDE DEF m, n
  <2>3. \A j \in 1 .. m : \A k \in 1 .. n : p[j] # q[k]
    BY <2>1
  <2>4. QED
    BY <2>1, <2>2, <2>3
<1> HIDE DEF m, n, r
<1>3. \A k \in 1 .. m + n : k \in 1 .. m \/ (k - m \in 1 .. n /\ k = m + (k - m))
  BY <1>1
<1>4. \A k \in 1 .. m + n :
        \/ k \in 1 .. m /\ r[k] = p[k]
        \/ k - m \in 1 .. n /\ k \notin 1 .. m /\ r[k] = q[k - m]
  <2> TAKE k \in 1 .. m + n
  <2>1. CASE k \in 1 .. m
    BY <1>1, <2>1
  <2>2. CASE k \notin 1 .. m
    <3> DEFINE i == k - m
    <3>1. i \in 1 .. n /\ k = m + i
      BY <1>3, <2>2
    <3> HIDE DEF i
    <3>2. r[k] = q[i]
      BY <1>1, <3>1
    <3>3. QED
      BY <2>2, <3>1, <3>2 DEF i
  <2>3. QED
    BY <2>1, <2>2
<1>5. \A j, k \in 1 .. m + n : r[j] = r[k] => j = k
  <2> SUFFICES ASSUME NEW j \in 1 .. m + n, NEW k \in 1 .. m + n, r[j] = r[k]
               PROVE  j = k
    OBVIOUS
  <2>1. CASE j \in 1 .. m /\ k \in 1 .. m
    BY <1>1, <1>2, <2>1
  <2>2. CASE j \in 1 .. m /\ k \notin 1 .. m
    BY <1>2, <1>4, <2>2
  <2>3. CASE j \notin 1 .. m /\ k \in 1 .. m
    BY <1>2, <1>4, <2>3
  <2>4. CASE j \notin 1 .. m /\ k \notin 1 .. m
    <3>1. j - m = k - m
      BY <1>2, <1>4, <2>4
    <3>2. QED
      BY <1>1, <3>1
  <2>5. QED
    BY <2>1, <2>2, <2>3, <2>4
<1>6. Elements(r) = Elements(p) \cup Elements(q)
  <2>1. Elements(r) = {r[k] : k \in 1 .. m + n}
    BY <1>1 DEF Elements
  <2>2. /\ \A k \in 1 .. m : k \in 1 .. m + n
        /\ \A k \in 1 .. n : m + k \in 1 .. m + n
    BY <1>1
  <2>3. \A y \in Elements(r) : y \in Elements(p) \/ y \in Elements(q)
    BY <1>2, <1>4, <2>1
  <2>4. (\A y \in Elements(p) : y \in Elements(r)) /\ (\A y \in Elements(q) : y \in Elements(r))
    BY <1>1, <1>2, <2>1, <2>2
  <2>5. QED
    BY <2>3, <2>4
<1>7. Distinct(r)
  BY <1>1, <1>5 DEF Distinct
<1>8. QED
  BY <1>1, <1>6, <1>7 DEF r

\* The set of a sequence.
LEMMA ToSetElements ==
  ASSUME NEW q \in Seq(Nat)
  PROVE  ToSet(q) = Elements(q)
<1>1. DOMAIN q = 1 .. Len(q)
  OBVIOUS
<1>2. QED
  BY <1>1 DEF ToSet, Elements

\* The kernel has one operation for a slot.
LEMMA WorkingCount ==
  ASSUME Domains, Queues
  PROVE  IsFiniteSet(Working) /\ Cardinality(Working) = Cardinality(kernel)
<1> DEFINE f == [op \in kernel |-> op.slot]
<1>1. f \in Bijection(kernel, Working)
  BY DEF Bijection, Injection, Surjection, IsInjective, Working, Queues
<1>2. ExistsBijection(kernel, Working) /\ IsFiniteSet(kernel)
  BY <1>1 DEF ExistsBijection, Domains
<1>3. QED
  BY <1>2, FS_Bijection

\* The slots are in one place each.
LEMMA SlotsHold ==
  ASSUME IInv
  PROVE  SlotsExclusive
<1> USE DEF IInv
<1> SUFFICES ASSUME slots # <<>>
             PROVE  SlotsExclusive
  BY DEF SlotsExclusive
<1> DEFINE queued == [k \in DOMAIN ready |-> ready[k].slot]
           fetched == [k \in DOMAIN events |-> events[k].slot]
           waiting == queued \o fetched \o submissions
           busy == {op.slot : op \in kernel}
<1>1. InAio
  BY DEF Placed
<1>2. queued = SlotOf(ready) /\ fetched = SlotOf(events) /\ busy = Working
  BY DEF Domains, SlotOf, Working
<1>3. /\ queued \in Seq(Nat) /\ Distinct(queued) /\ Elements(queued) = Queued
      /\ fetched \in Seq(Nat) /\ Distinct(fetched) /\ Elements(fetched) = Fetched
      /\ submissions \in Seq(Nat) /\ Distinct(submissions)
      /\ Elements(submissions) = Waiting
  <2>1. 0 \in 0 .. Len(ready) /\ 0 \in 0 .. Len(events)
        /\ ready \in Seq(Event) /\ events \in Seq(Event) /\ submissions \in Seq(Nat)
    BY DEF Domains
  <2>2. SlotOf(ready) \in Seq(Nat) /\ SlotOf(events) \in Seq(Nat)
    BY <2>1, CutSlots
  <2>3. QED
    BY <1>1, <1>2, <2>1, <2>2 DEF Queues, Placed, Queued, Fetched, Waiting
<1>4. /\ Queued \cap Fetched = {} /\ (Queued \cup Fetched) \cap Waiting = {}
      /\ Working \cap ((Queued \cup Fetched) \cup Waiting) = {}
  BY <1>1 DEF Placed, Queues
<1> HIDE DEF queued, fetched, busy
<1>5. /\ queued \o fetched \in Seq(Nat) /\ Distinct(queued \o fetched)
      /\ Elements(queued \o fetched) = Queued \cup Fetched
  BY <1>3, <1>4, JoinSequences
<1> DEFINE both == queued \o fetched
<1> HIDE DEF both
<1>6. /\ both \in Seq(Nat) /\ Distinct(both) /\ Elements(both) = Queued \cup Fetched
  BY <1>5 DEF both
<1>7. /\ both \o submissions \in Seq(Nat) /\ Distinct(both \o submissions)
      /\ Elements(both \o submissions) = (Queued \cup Fetched) \cup Waiting
  BY <1>3, <1>4, <1>6, JoinSequences
<1>8. waiting = both \o submissions
  BY DEF both
<1> HIDE DEF waiting
<1>9. /\ waiting \in Seq(Nat) /\ DOMAIN waiting = 1 .. Len(waiting) /\ Distinct(waiting)
      /\ Elements(waiting) = (Queued \cup Fetched) \cup Waiting
  BY <1>7, <1>8
<1>10. IsInjective(waiting)
  BY <1>9 DEF IsInjective, Distinct
<1>11. ToSet(waiting) = Elements(waiting) /\ ToSet(queued) = Queued
  BY <1>3, <1>9, ToSetElements
<1>12. busy \cap ToSet(waiting) = {} /\ Cardinality(busy) = Cardinality(kernel)
  BY <1>2, <1>4, <1>9, <1>11, WorkingCount
<1>13. /\ \A op \in kernel : slots[op.slot].plan = op.plan
       /\ \A s \in ToSet(queued) : slots[s].plan = slots[s].bytes
       /\ pc = "wait" => inflight = Cardinality(kernel) + Len(ready)
  BY <1>1, <1>11 DEF Filled, Counted
<1>14. QED
  BY <1>10, <1>12, <1>13 DEF SlotsExclusive, waiting, queued, fetched, busy

\* They are no more than the context was set up for.
LEMMA CapacityHolds ==
  ASSUME IInv
  PROVE  WithinCapacity
<1> USE DEF IInv
<1>1. CASE kernel = {} /\ ready = <<>>
  <2>1. Cardinality(kernel) = 0 /\ Len(ready) = 0 /\ context \in Nat
    BY <1>1, FS_EmptySet DEF Domains
  <2>2. QED
    BY <2>1 DEF WithinCapacity
<1>2. CASE kernel # {} \/ ready # <<>>
  <2>1. (InAio \/ pc = "catch") /\ call.depth > 1
    BY <1>2 DEF Queues
  <2>2. call.depth \in Nat /\ context \in Nat /\ call.depth <= context
    <3>1. pc # "idle"
      BY <2>1 DEF InAio
    <3>2. call.depth \in Nat \ {0}
      BY <3>1, CallTypes
    <3>3. QED
      BY <2>1, <3>2 DEF Called, Domains, InAio
  <2>3. /\ ready \in Seq(Event) /\ Len(ready) \in Nat
        /\ 0 \in 0 .. Len(ready) /\ Len(ready) \in 0 .. Len(ready)
    BY DEF Domains
  <2>4. SlotOf(ready) \in Seq(Nat) /\ Len(SlotOf(ready)) = Len(ready)
        /\ Distinct(SlotOf(ready))
    BY <2>3, CutSlots DEF Queues
  <2>5. IsFiniteSet(Queued) /\ Cardinality(Queued) = Len(ready)
    <3>1. Queued = FirstOf(SlotOf(ready), Len(ready))
      BY <2>4 DEF Queued, Elements, FirstOf
    <3>2. QED
      BY <2>3, <2>4, <3>1, CountFirst
  <2>6. IsFiniteSet(Working) /\ Cardinality(Working) = Cardinality(kernel)
    BY WorkingCount
  <2>7. Working \cap Queued = {} /\ Working \cup Queued \subseteq 1 .. call.depth
    BY DEF Queues
  <2>8. Cardinality(Working \cup Queued) = Cardinality(kernel) + Len(ready)
    <3>1. Cardinality(Working \cup Queued)
            = Cardinality(Working) + Cardinality(Queued) - Cardinality(Working \cap Queued)
      BY <2>5, <2>6, FS_Union
    <3>2. Cardinality(Working \cap Queued) = 0
      BY <2>7, FS_EmptySet
    <3>3. Cardinality(Working) \in Nat /\ Cardinality(Queued) \in Nat
      BY <2>5, <2>6, FS_CardinalityType
    <3>4. QED
      BY <2>5, <2>6, <3>1, <3>2, <3>3
  <2>9. Cardinality(Working \cup Queued) <= call.depth
    <3>1. IsFiniteSet(1 .. call.depth) /\ Cardinality(1 .. call.depth) = call.depth
      <4>1. 1 \in Int /\ call.depth \in Int /\ ~(1 > call.depth)
            /\ call.depth - 1 + 1 = call.depth
        BY <2>1, <2>2
      <4>2. QED
        BY <4>1, FS_Interval
    <3>2. QED
      BY <2>7, <3>1, FS_Subset
  <2>10. Cardinality(Working \cup Queued) \in Nat
    <3>1. IsFiniteSet(Working \cup Queued)
      BY <2>5, <2>6, FS_Union
    <3>2. QED
      BY <3>1, FS_CardinalityType
  <2>11. QED
    BY <2>2, <2>8, <2>9, <2>10 DEF WithinCapacity
<1>3. QED
  BY <1>1, <1>2

\* Type correctness: plans name pages and items that exist, and a slot a plan
\* of the call.
THEOREM AioTypeCorrect == Spec => []TypeOK
<1>1. IInv => TypeOK
  BY TypeHolds
<1>2. QED
  BY IInvHolds, <1>1, PTL

\* build_read_plans: for every request, the plans read each candidate once, no
\* page twice, and no two adjacent ranges that could have been one read.
THEOREM PlansReadEachCandidateOnce == Spec => []PlansExact
<1>1. IInv => PlansExact
  BY PlansHold
<1>2. QED
  BY IInvHolds, <1>1, PTL

\* refine(): whatever the order of the completions, the split of the batches and
\* the cut into windows, a call that returns delivers the TopK closest in order.
THEOREM ResultsAreExact == Spec => []ResultExact
<1>1. IInv => ResultExact
  BY DEF IInv
<1>2. QED
  BY IInvHolds, <1>1, PTL

\* No descriptor is closed while an operation of the kernel reads from it, also
\* when an exception leaves the window.
THEOREM FilesStayOpen == Spec => []FilesOutliveReads
<1>1. IInv => FilesOutliveReads
  BY FilesHold
<1>2. QED
  BY IInvHolds, <1>1, PTL

\* ThreadLocalAioContext between calls: the context a call finds is empty, also
\* after a call that threw with operations in flight.
THEOREM CallsStartClean == Spec => []ContextEmptyBetweenCalls
<1>1. IInv => ContextEmptyBetweenCalls
  BY ContextHolds
<1>2. QED
  BY IInvHolds, <1>1, PTL

\* refine_aio: a slot is prepared again only when its completion was processed,
\* and inflight counts what the kernel and the queue hold.
THEOREM SlotsAreExclusive == Spec => []SlotsExclusive
<1>1. IInv => SlotsExclusive
  BY SlotsHold
<1>2. QED
  BY IInvHolds, <1>1, PTL

\* The kernel and the queue never hold more than io_setup was asked for, whatever
\* the depths of the calls that shared the context.
THEOREM CapacityIsKept == Spec => []WithinCapacity
<1>1. IInv => WithinCapacity
  BY CapacityHolds
<1>2. QED
  BY IInvHolds, <1>1, PTL
=============================================================================

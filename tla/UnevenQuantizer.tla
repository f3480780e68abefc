--------------------------- MODULE UnevenQuantizer ---------------------------
(***************************************************************************)
(* The direction quantizer (uneven_product_quantizer.cpp): bits are given  *)
(* to the coordinates by reverse water-filling, a hill climb chooses how   *)
(* many coordinates each pair of groups codes, coordinates are balanced    *)
(* over the groups, and groups of one width become a bucket, a whole-byte  *)
(* range of the code with a Faiss product quantizer of its own.  A trained *)
(* quantizer is written and read back.                                     *)
(*                                                                         *)
(* Bit counts are integers, in 1/Unit bits.  Directions have coordinates 0 *)
(* and 1, and a codebook of a group of w <= 4 coordinates has the 2^w      *)
(* corners: codeword c has coordinate k equal to bit k of c.  Sequences    *)
(* and groups are sorted by a number, equal ones in the order of their     *)
(* positions: std::stable_sort, and std::sort where equal ones are alike.  *)
(***************************************************************************)
EXTENDS Integers, SequencesExt

CONSTANTS
  D,          \* d: coordinates of a transformed direction
  M,          \* PQ groups, one nibble of the code each
  Unit,       \* bits are counted in units of 1/Unit
  Widest,     \* max_subspace_dimension; 0: automatic
  Profiles    \* half the log-variances of the coordinates of training sets

Dims == 0 .. D - 1
Groups == 0 .. M - 1
Target == 4 * Unit      \* nbits

ASSUME LayoutAssumption ==
  /\ D \in Nat \ {0} /\ M \in 2 .. D /\ D % 2 = 0 /\ M % 2 = 0
  /\ Unit \in Nat \ {0}
  /\ Widest = 0 \/ Widest \in (D + M - 1) \div M .. D
  /\ Profiles \subseteq [Dims -> Int]

VARIABLES
  grouping,    \* config.grouping
  heights,     \* of the training set
  capacities,  \* paired_capacities while planning
  passes,      \* hill-climbing passes made
  phase,       \* "planning", "trained", "refused"
  layout,      \* subspace_dimensions_, group_bit_loads_, buckets_
  model        \* the state write() has persisted: a set of at most one

quantizerVars == <<grouping, heights, capacities, passes, phase, layout, model>>

\* The i-th of the numbers S when they are sorted by key.
Sorted(S, key, i) ==
  CHOOSE x \in S :
    Cardinality({y \in S : \/ key[y] < key[x]
                           \/ key[y] = key[x] /\ y < x}) = i - 1
Ascending(s) == [i \in DOMAIN s |-> s[Sorted(DOMAIN s, s, i)]]

(***************************************************************************)
(* compute_ideal_bit_budgets: the water level is lowered through the       *)
(* heights until M * nbits bits stand above it.                            *)
(***************************************************************************)
Descending(key) ==
  [i \in 1 .. D |-> Sorted(Dims, [j \in Dims |-> -key[j]], i)]

\* Mutant: the cost of lowering the level forgets the coordinates above it.
LowerOneByOne(water, height) ==
  LET cost == water.level - height
  IN  IF water.spent THEN water
      ELSE IF water.remaining >= cost
      THEN [water EXCEPT !.level = height, !.remaining = @ - cost,
                         !.active = @ + 1]
      ELSE [water EXCEPT !.level = @ - water.remaining \div water.active,
                         !.remaining = 0, !.spent = TRUE]
Lower(water, height) ==
  LET cost == water.active * (water.level - height)
  IN  IF water.spent THEN water
      ELSE IF water.remaining >= cost
      THEN [water EXCEPT !.level = height, !.remaining = @ - cost,
                         !.active = @ + 1]
      ELSE [water EXCEPT !.level = @ - water.remaining \div water.active,
                         !.remaining = 0, !.spent = TRUE]

WaterLevel(h) ==
  LET order == Descending(h)
      water == FoldLeft(Lower,
                 [level |-> h[order[1]], remaining |-> M * Target,
                  active |-> 1, spent |-> FALSE],
                 [i \in 1 .. D - 1 |-> h[order[i + 1]]])
  IN  water.level - water.remaining \div D

Above(h, level) == [j \in Dims |-> IF h[j] > level THEN h[j] - level ELSE 0]
Budgets(h) == Above(h, WaterLevel(h))

\* The code keeps bits as doubles: in the unit of the model, the bits of a code
\* fill every profile down to a whole level.
ASSUME LevelAssumption ==
  \A h \in Profiles : \E j \in Dims, n \in 0 .. M * Target :
    SumFunction(Above(h, h[j] - n)) = M * Target

(***************************************************************************)
(* assign_dimensions: widest demand first, each into the lightest group    *)
(* that has room; then up to eight best exchanges.  Groups are numbered by *)
(* ascending capacity, so the lower number is also the smaller group.      *)
(***************************************************************************)
GroupCapacities(pairs) == Ascending(pairs \o pairs)

Place(a, dim, capacity, budget) ==
  LET open == {g \in Groups : Len(a.groups[g]) < capacity[g + 1]}
      best == CHOOSE g \in open : \A o \in open \ {g} :
                \/ a.loads[g] < a.loads[o]
                \/ a.loads[g] = a.loads[o] /\ g < o
  IN  [groups |-> [a.groups EXCEPT ![best] = Append(@, dim)],
       loads |-> [a.loads EXCEPT ![best] = @ + budget[dim]]]

\* <<a, b, i, j>>: position i of group a is exchanged with position j of b.
Exchanges(groups) ==
  UNION {UNION {{<<a, b, i, j>> : i \in DOMAIN groups[a],
                                  j \in DOMAIN groups[b]} : b \in a + 1 .. M - 1} :
           a \in Groups}
Gain(a, x, budget) ==
  budget[a.groups[x[2]][x[4]]] - budget[a.groups[x[1]][x[3]]]
\* The change of the sum of squared loads.
Delta(a, x, budget) ==
  2 * Gain(a, x, budget)
    * (a.loads[x[1]] - a.loads[x[2]] + Gain(a, x, budget))
Earlier(x, y) ==
  \E n \in DOMAIN x : x[n] < y[n] /\ \A k \in 1 .. n - 1 : x[k] = y[k]

Exchange(a, budget) ==
  LET delta == [x \in Exchanges(a.groups) |-> Delta(a, x, budget)]
      least == Min({delta[x] : x \in DOMAIN delta})
      found == {x \in DOMAIN delta : delta[x] = least}
      x == CHOOSE y \in found : \A z \in found \ {y} : Earlier(y, z)
  IN  IF least >= 0 THEN a
      ELSE [groups |-> [a.groups EXCEPT ![x[1]][x[3]] = a.groups[x[2]][x[4]],
                                        ![x[2]][x[4]] = a.groups[x[1]][x[3]]],
            loads |-> [a.loads EXCEPT ![x[1]] = @ + Gain(a, x, budget),
                                      ![x[2]] = @ - Gain(a, x, budget)]]

Assignment(pairs, budget) ==
  LET empty == [groups |-> [g \in Groups |-> <<>>],
                loads |-> [g \in Groups |-> 0]]
      capacity == GroupCapacities(pairs)
      placed == FoldLeft(LAMBDA a, dim : Place(a, dim, capacity, budget),
                         empty, Descending(budget))
  IN  FoldLeft(LAMBDA a, n : Exchange(a, budget), placed, [n \in 1 .. 8 |-> n])

\* The score, up to its constant divisor.
Score(pairs, budget) ==
  LET loads == Assignment(pairs, budget).loads
  IN  SumFunction([g \in Groups |->
                     (loads[g] - Target) * (loads[g] - Target)])

(***************************************************************************)
(* plan_paired_capacities: a unit of capacity moves from one pair to       *)
(* another as long as the best such transfer lowers the score.             *)
(***************************************************************************)
Pairs == M \div 2
InitialCapacities ==
  LET base == (D \div 2) \div Pairs
      larger == (D \div 2) % Pairs
  IN  [i \in 1 .. Pairs |-> IF i > Pairs - larger THEN base + 1 ELSE base]
Maximum == IF Widest = 0 THEN (D + M - 1) \div M + 2 ELSE Widest

\* A nibble tells the corners of a group apart.
ASSUME CornersAssumption == Maximum <= 4

\* The first pair of a capacity gives, the first other pair of one receives.
Transfers(cap) ==
  {t \in (1 .. Pairs) \X (1 .. Pairs) :
     LET from == t[1]  to == t[2]
     IN  /\ from # to
         /\ \A k \in 1 .. from - 1 : cap[k] # cap[from]
         /\ \A k \in 1 .. to - 1 : cap[k] = cap[to] => k = from
         /\ cap[from] > 1 /\ cap[to] < Maximum
         /\ cap[to] # cap[from] - 1}
Trial(cap, t) == Ascending([cap EXCEPT ![t[1]] = @ - 1, ![t[2]] = @ + 1])

Improving(cap, budget) ==
  LET score == [t \in Transfers(cap) |-> Score(Trial(cap, t), budget)]
      least == Min({Score(cap, budget)} \cup {score[t] : t \in DOMAIN score})
  IN  IF least = Score(cap, budget) THEN {}
      ELSE {t \in DOMAIN score : score[t] = least}

PlanPass ==
  /\ phase = "planning" /\ grouping = "Uneven" /\ passes < 16
  /\ LET best == Improving(capacities, Budgets(heights))
     IN  /\ best # {}
         /\ capacities' = Trial(capacities,
                CHOOSE t \in best : \A u \in best \ {t} : Earlier(t, u))
  /\ passes' = passes + 1
  /\ UNCHANGED <<grouping, heights, phase, layout, model>>

(***************************************************************************)
(* build_buckets and validate_layout.                                      *)
(***************************************************************************)
Starts(groups) ==
  {g \in Groups : g = 0 \/ Len(groups[g]) # Len(groups[g - 1])}
Bucket(groups, first) ==
  LET end == Min({g \in Starts(groups) \cup {M} : g > first})
      width == Len(groups[first])
  IN  [width |-> width, count |-> end - first, first |-> first,
       offset |-> first \div 2,
       dimensions |-> [x \in 1 .. width * (end - first) |->
                         groups[first + (x - 1) \div width]
                               [((x - 1) % width) + 1]]]
Buckets(groups) ==
  LET starts == Starts(groups)
  IN  [i \in 1 .. Cardinality(starts) |->
         Bucket(groups, Sorted(starts, [g \in starts |-> g], i))]

\* Both build_buckets and validate_layout throw on an odd bucket; an offset in
\* whole bytes needs an even first group.
Valid(buckets) ==
  LET places == UNION {{<<i, x>> : x \in DOMAIN buckets[i].dimensions} :
                         i \in DOMAIN buckets}
      dimension == [p \in places |-> buckets[p[1]].dimensions[p[2]]]
  IN  /\ \A i \in DOMAIN buckets : buckets[i].count % 2 = 0
      /\ IsInjective(dimension) /\ Range(dimension) = Dims
      /\ SumFunction([i \in DOMAIN buckets |-> buckets[i].count \div 2])
           = M \div 2

LoadsPreserved(groups, loads, budget) ==
  \A g \in Groups :
    loads[g] = SumFunction([k \in DOMAIN groups[g] |-> budget[groups[g][k]]])

\* One product quantizer over the whole vector.
UniformLayout ==
  [groups |-> <<>>, loads |-> <<>>, budgets |-> <<>>,
   buckets |-> <<[width |-> D \div M, count |-> M, first |-> 0, offset |-> 0,
                  dimensions |-> [i \in 1 .. D |-> i - 1]]>>]
UnevenLayout ==
  LET budget == Budgets(heights)
      a == Assignment(capacities, budget)
  IN  [groups |-> a.groups, loads |-> a.loads, budgets |-> budget,
       buckets |-> Buckets(a.groups)]
NoLayout == [groups |-> <<>>, loads |-> <<>>, budgets |-> <<>>, buckets |-> <<>>]

TrainAccepts(l) ==
  /\ SumFunction(l.budgets) = M * Target
  /\ Valid(l.buckets)
  /\ SumFunction(l.loads) = SumFunction(l.budgets)
  /\ LoadsPreserved(l.groups, l.loads, l.budgets)

Train ==
  /\ phase = "planning"
  /\ \/ grouping = "Uniform" /\ layout' = UniformLayout /\ phase' = "trained"
     \/ /\ grouping = "Uneven"
        /\ passes = 16 \/ Improving(capacities, Budgets(heights)) = {}
        /\ layout' = UnevenLayout
        /\ phase' = IF TrainAccepts(layout') THEN "trained" ELSE "refused"
  /\ capacities' = <<>> /\ passes' = 0
  /\ UNCHANGED <<grouping, heights, model>>

(***************************************************************************)
(* write and read.  The buckets are written without their coordinates,     *)
(* which follow from the groups.                                           *)
(***************************************************************************)
\* Mutant: the coordinates of a group are written in ascending order.
WrittenSorted(l) ==
  [groups |-> [g \in DOMAIN l.groups |-> Ascending(l.groups[g])],
   loads |-> l.loads, budgets |-> l.budgets,
   buckets |-> [i \in DOMAIN l.buckets |->
                  [width |-> l.buckets[i].width, count |-> l.buckets[i].count,
                   first |-> l.buckets[i].first,
                   offset |-> l.buckets[i].offset]]]
Written(l) ==
  [groups |-> l.groups, loads |-> l.loads, budgets |-> l.budgets,
   buckets |-> [i \in DOMAIN l.buckets |->
                  [width |-> l.buckets[i].width, count |-> l.buckets[i].count,
                   first |-> l.buckets[i].first,
                   offset |-> l.buckets[i].offset]]]

Write ==
  /\ phase = "trained" /\ model = {}
  /\ model' = {Written(layout)}
  /\ UNCHANGED <<grouping, heights, capacities, passes, phase, layout>>

ReadBack(w) ==
  IF grouping = "Uniform" THEN UniformLayout
  ELSE [groups |-> w.groups, loads |-> w.loads, budgets |-> w.budgets,
        buckets |-> Buckets(w.groups)]
ReadAccepts(w, l) ==
  \/ grouping = "Uniform"
  \/ /\ Widest <= D
     /\ \A g \in Groups : w.groups[g] # <<>>
     /\ Valid(l.buckets) /\ Written(l).buckets = w.buckets
     /\ LoadsPreserved(w.groups, w.loads, w.budgets)

\* The object is a new one, read from the model.
Read ==
  /\ phase = "trained"
  /\ \E w \in model :
       /\ layout' = ReadBack(w)
       /\ phase' = IF ReadAccepts(w, layout') THEN "trained" ELSE "refused"
  /\ model' = {}
  /\ UNCHANGED <<grouping, heights, capacities, passes>>

(***************************************************************************)
(* compute_codes, decode and compute_inner_prod_table.  A code is given by *)
(* its M nibbles, two to a byte, the even one in the low half.             *)
(***************************************************************************)
Coordinates(b, subspace) ==
  SubSeq(b.dimensions, subspace * b.width + 1, (subspace + 1) * b.width)
Corner(code, k) == (code \div 2^(k - 1)) % 2

\* Nibble m of a code lies in the byte range of a bucket.
InByteRange(m) ==
  LET i == CHOOSE i \in DOMAIN layout.buckets :
             m - 2 * layout.buckets[i].offset \in 0 .. layout.buckets[i].count - 1
      b == layout.buckets[i]
  IN  Coordinates(b, m - 2 * b.offset)

FlatCode(x) ==
  [m \in Groups |->
     LET dims == InByteRange(m)
     IN  SumFunction([k \in DOMAIN dims |-> x[dims[k]] * 2^(k - 1)])]

Decoded(code) ==
  [j \in Dims |->
     LET m == CHOOSE g \in Groups : Contains(InByteRange(g), j)
         k == CHOOSE i \in DOMAIN InByteRange(m) : InByteRange(m)[i] = j
     IN  Corner(code[m], k)]

\* Row m of a lookup table is written by the bucket that holds group m.
DotTable(q) ==
  [m \in Groups |-> [code \in 0 .. 15 |->
     LET i == CHOOSE i \in DOMAIN layout.buckets :
                m - layout.buckets[i].first \in 0 .. layout.buckets[i].count - 1
         b == layout.buckets[i]
         dims == Coordinates(b, m - b.first)
     IN  SumFunction([k \in DOMAIN dims |-> q[dims[k]] * Corner(code, k)])]]
=============================================================================

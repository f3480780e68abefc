------------------------- MODULE IntervalSelection -------------------------
(***************************************************************************)
(* The candidate selector of the scan (FusedIntervalAccumulator in         *)
(* src/fastscan.cpp, with the fuzzy partition of                           *)
(* src/interval_selection_internal.h).  Blocks of estimates arrive one     *)
(* after another; the selector keeps the K smallest upper endpoints of all *)
(* of them and a reservoir of point estimates that is cut back, to some    *)
(* size between R and 1.5 R, each time it reaches 2 R.                     *)
(*                                                                         *)
(* Floats are small integers with an infinity on each side; their only     *)
(* arithmetic is the one of the interval endpoints.                        *)
(***************************************************************************)
EXTENDS IntervalRule, SequencesExt

CONSTANTS
  Scans,       \* the scans to consider, see ScanParameters
  Iterations   \* the limit of the search for a threshold, 200 in the code

\* rows: ID, estimate and uncertainty of every row of the probed lists;
\* topk_; max_candidates_, 0 for the uncapped mode; whether blocks take the
\* AVX-512 path or the portable one; the most lanes of a block (16 or 32).
ASSUME ScanParameters ==
  /\ Infinity \in Nat \ {0} /\ ZScore \in Nat /\ Iterations \in Nat
  /\ \A s \in Scans :
       /\ s.topk \in Nat \ {0} /\ s.tile \in Nat \ {0}
       /\ s.max_candidates \in Nat
       /\ s.max_candidates = 0 \/ s.max_candidates >= s.topk
       /\ s.avx512 \in BOOLEAN
       /\ IsFiniteSet(s.rows)
       /\ \A r \in s.rows :
            /\ r.id \in Nat
            /\ r.est \in -Infinity .. Infinity /\ r.unc \in 0 .. Infinity
       /\ \A r, q \in s.rows : r.id = q.id => r = q

VARIABLES
  scan,             \* one of Scans
  scanned,          \* history: every row added so far; seen_ is their number
  smallest_uppers,  \* smallest_uppers_: at most TopK endpoints, ascending
  reservoir,        \* estimates_, uncertainties_, ids_ up to reservoir_size_
  admission,        \* has_admission_threshold_ and the threshold
  pc,               \* scanning, finished, or stopped by an exception
  candidates        \* SelectionResult::candidates

vars == <<scan, scanned, smallest_uppers, reservoir, admission, pc, candidates>>

rows == scan.rows
TopK == scan.topk
max_candidates == scan.max_candidates

\* The elements of s that are in S, in their order.
Keep(s, S) ==
  LET kept[k \in 0 .. Len(s)] ==
        IF k = 0 THEN <<>>
        ELSE IF s[k] \in S THEN Append(kept[k - 1], s[k]) ELSE kept[k - 1]
  IN  kept[Len(s)]

(***************************************************************************)
(* find_fuzzy_rank_threshold over the estimates v of a reservoir.          *)
(***************************************************************************)
LessIn(v, t) == Cardinality({k \in DOMAIN v : v[k] < t})
EqualIn(v, t) == Cardinality({k \in DOMAIN v : v[k] = t})

\* std::nth_element: the value of rank q (from 1).
NthElement(v, q) ==
  CHOOSE t \in Range(v) : LessIn(v, t) < q /\ q <= LessIn(v, t) + EqualIn(v, t)

Median3(x, y, z) == NthElement(<<x, y, z>>, 2)

\* sample_fuzzy_threshold: three values strictly between the bounds, in the
\* order of a stride by a large prime.
SampleThreshold(v, lower, upper) ==
  LET strided == [k \in 1 .. Len(v) |-> v[(((k - 1) * 6700417) % Len(v)) + 1]]
      inside == Keep(strided, {x \in Range(v) : lower < x /\ x < upper})
  IN  IF Len(inside) >= 3 THEN Median3(inside[1], inside[2], inside[3])
      ELSE IF inside = <<>> THEN lower ELSE inside[1]

\* One iteration of the search: too few values lie below the threshold, or too
\* many, or there is a size in between to stop at.
SearchStep(v, qMin, qMax, s) ==
  LET less == LessIn(v, s.at)
      few == less <= qMin
      found == IF few THEN less + EqualIn(v, s.at) >= qMin ELSE less <= qMax
      lower == IF few THEN s.at ELSE s.lower
      upper == IF few THEN s.upper ELSE s.at
      next == SampleThreshold(v, lower, upper)
  IN  IF s.state # "search" THEN s
      ELSE IF found THEN [s EXCEPT !.state = "found",
                                   !.output = IF few THEN qMin ELSE less]
      ELSE IF next = lower THEN [s EXCEPT !.state = "gave_up"]
      ELSE [s EXCEPT !.lower = lower, !.upper = upper, !.at = next]

FuzzySearch(v, qMin, qMax) ==
  LET first == [state |-> IF Len(v) < 3 THEN "gave_up" ELSE "search",
                at |-> Median3(v[1], v[(Len(v) \div 2) + 1], v[Len(v)]),
                lower |-> -Infinity, upper |-> Infinity, output |-> 0]
      after[i \in 0 .. Iterations] ==
        IF i = 0 THEN first ELSE SearchStep(v, qMin, qMax, after[i - 1])
  IN  after[Iterations]

FuzzyThreshold(v, qMin, qMax) ==
  LET search == FuzzySearch(v, qMin, qMax)
  IN  IF search.state = "found"
      THEN [at |-> search.at, output |-> search.output]
      ELSE [at |-> NthElement(v, qMin), output |-> qMin]

(***************************************************************************)
(* The reservoir.                                                          *)
(***************************************************************************)
Values(res) == [k \in DOMAIN res |-> res[k].est]

\* Number n of the IDs, and row number n of S in the exact rank order.
NthId(ids, n) == CHOOSE i \in ids : Cardinality({j \in ids : j < i}) = n - 1
NthRanked(S, n) == CHOOSE r \in S : Cardinality({q \in S : Ranked(q, r)}) = n - 1

\* Mutant: the row at the threshold itself is lost.
CompactStrict(res, est, id, includeEqual) ==
  Keep(res, {r \in ToSet(res) : r.est < est \/ (includeEqual /\ r.est = est /\ r.id < id)})

\* compact_threshold: the three planes keep the rows up to (est, id).
Compact(res, est, id, includeEqual) ==
  Keep(res, {r \in ToSet(res) : r.est < est \/ (includeEqual /\ r.est = est /\ r.id <= id)})

NoThreshold == [has |-> FALSE, est |-> Infinity, id |-> 0]

\* Mutant: ties in the estimate are not broken by ID.
AdmitNoTies(adm, r) == ~adm.has \/ r.est < adm.est

Admit(adm, r) == ~adm.has \/ r.est < adm.est
                          \/ (r.est = adm.est /\ r.id < adm.id)

\* A selector state: reservoir, threshold, and whether a logic_error was thrown.
Kept(res, adm, ok) == [res |-> res, adm |-> adm, ok |-> ok]

\* The reservoir cut at the threshold t: keep of its ties stay, those of the
\* lowest IDs.
CutAt(res, t) ==
  LET equal == {r.id : r \in {q \in ToSet(res) : q.est = t.at}}
      keep == t.output - LessIn(Values(res), t.at)
      id == IF keep = 0 THEN 0 ELSE NthId(equal, keep)
      compacted == Compact(res, t.at, id, keep > 0)
  IN  IF keep < 0 \/ keep > Cardinality(equal)
      THEN Kept(res, NoThreshold, FALSE)
      ELSE Kept(compacted, [has |-> TRUE, est |-> t.at, id |-> id],
                Len(compacted) = t.output)

FuzzyShrink(res, qMin, qMax) == CutAt(res, FuzzyThreshold(Values(res), qMin, qMax))

\* Mutant: the reservoir is cut one row too late.
ShrinkIfOverfull(s) ==
  LET fuzzyMax == max_candidates + (max_candidates \div 2)
  IN  IF max_candidates = 0 \/ Len(s.res) <= 2 * max_candidates \/ ~s.ok THEN s
      ELSE FuzzyShrink(s.res, max_candidates, fuzzyMax)

ShrinkIfFull(s) ==
  LET fuzzyMax == max_candidates + (max_candidates \div 2)
  IN  IF max_candidates = 0 \/ Len(s.res) < 2 * max_candidates \/ ~s.ok THEN s
      ELSE FuzzyShrink(s.res, max_candidates, fuzzyMax)

\* add_scalar_block admits row by row; add_16_avx512 masks the whole tile with
\* the threshold it found, appends the survivors and shrinks once.
AdmitRow(s, r) ==
  IF ~Admit(s.adm, r) THEN s
  ELSE ShrinkIfFull(Kept(Append(s.res, r), s.adm, s.ok))

AdmitBlock(s, block) ==
  IF scan.avx512
  THEN LET in == Keep(block, {r \in ToSet(block) : Admit(s.adm, r)})
       IN  IF in = <<>> THEN s
           ELSE ShrinkIfFull(Kept(s.res \o in, s.adm, s.ok))
  ELSE LET after[k \in 0 .. Len(block)] ==
             IF k = 0 THEN s ELSE AdmitRow(after[k - 1], block[k])
       IN  after[Len(block)]

\* update_upper; the heap is a sequence in ascending order, its top the last.
Push(uppers, u) ==
  LET p == Cardinality({k \in DOMAIN uppers : uppers[k] <= u})
  IN  [k \in 1 .. Len(uppers) + 1 |->
         IF k <= p THEN uppers[k] ELSE IF k = p + 1 THEN u ELSE uppers[k - 1]]

UpdateUpper(uppers, r) ==
  IF Len(uppers) < TopK THEN Push(uppers, Upper(r))
  ELSE IF Upper(r) < Last(uppers) THEN Push(Front(uppers), Upper(r))
  ELSE uppers

UpdateUppers(uppers, block) ==
  LET after[k \in 0 .. Len(block)] ==
        IF k = 0 THEN uppers ELSE UpdateUpper(after[k - 1], block[k])
  IN  after[Len(block)]

(***************************************************************************)
(* Actions.                                                                *)
(***************************************************************************)
Init ==
  /\ scan \in Scans
  /\ scanned = {} /\ smallest_uppers = <<>> /\ reservoir = <<>>
  /\ admission = NoThreshold
  /\ pc = "scan" /\ candidates = <<>>

Blocks(n) == {b \in [1 .. n -> rows \ scanned] : IsInjective(b)}

AddBlock ==
  /\ pc = "scan"
  /\ \E n \in 1 .. scan.tile : \E block \in Blocks(n) :
       LET after == AdmitBlock(Kept(reservoir, admission, TRUE), block)
       IN  /\ scanned' = scanned \cup Range(block)
           /\ smallest_uppers' = UpdateUppers(smallest_uppers, block)
           /\ reservoir' = after.res /\ admission' = after.adm
           /\ pc' = IF after.ok THEN "scan" ELSE "logic_error"
  /\ UNCHANGED <<scan, candidates>>

\* Mutant: one row more than the cap survives.
ShrinkShortlistLoose(res, keep) ==
  IF Len(res) <= keep THEN res
  ELSE LET last == NthRanked(ToSet(res), keep + 1)
       IN  Compact(res, last.est, last.id, TRUE)

\* shrink_shortlist: the threshold is the exact rank key number `keep`.
ShrinkShortlist(res, keep) ==
  IF Len(res) <= keep THEN res
  ELSE LET last == NthRanked(ToSet(res), keep)
       IN  Compact(res, last.est, last.id, TRUE)

\* Mutant: a row whose lower endpoint equals the K-th upper one is dropped.
WithinUpperStrict(r, theta) == Lower(r) < theta

\* filter_by_lower; the AVX-512 path subtracts without the special cases of
\* lower(), and a comparison with NaN (infinity - infinity) is false.
WithinUpper(r, theta) ==
  IF scan.avx512 /\ ZScore # 0 /\ r.est = Infinity /\ ZScore * r.unc >= Infinity
  THEN FALSE
  ELSE Lower(r) <= theta

Finish ==
  /\ pc = "scan" /\ Cardinality(scanned) >= TopK
  /\ LET shrunk == IF max_candidates = 0 THEN reservoir
                   ELSE ShrinkShortlist(reservoir, max_candidates)
         theta == Last(smallest_uppers)
         kept == {r \in ToSet(shrunk) : WithinUpper(r, theta)}
     IN  candidates' = [n \in 1 .. Cardinality(kept) |-> NthRanked(kept, n)]
  /\ pc' = "done"
  /\ UNCHANGED <<scan, scanned, smallest_uppers, reservoir, admission>>

Next == AddBlock \/ Finish

Spec == Init /\ [][Next]_vars

-----------------------------------------------------------------------------
(***************************************************************************)
(* Properties.                                                             *)
(***************************************************************************)
\* Every variable stays in its domain, and the arrays within their allocation.
TypeOK ==
  /\ pc \in {"scan", "done", "logic_error"}
  /\ scanned \subseteq rows /\ ToSet(reservoir) \subseteq scanned
  /\ Len(smallest_uppers) <= TopK
  /\ max_candidates # 0 => Len(reservoir) < 2 * max_candidates

\* "It may be stale and too loose, but never too strict": whatever the order
\* of the blocks and wherever the partitions fell, the rows of the true top R
\* of everything scanned are in the reservoir, each once.
NeverTooStrict ==
  /\ IsInjective(reservoir)
  /\ \A r \in scanned :
       Shortlisted(scanned, r, max_candidates) => r \in ToSet(reservoir)

\* "Finds an exact rank prefix whose size is in [q_min, q_max]": neither check
\* on the partition's own arithmetic ever throws.
PartitionSound == pc # "logic_error"

\* The reference for finish(): the top R rows by (estimate, ID) whose lower
\* endpoint does not exceed the K-th smallest of all the upper endpoints.
SelectionExact ==
  pc = "done" =>
    /\ ToSet(candidates) = Candidates(scanned, TopK, max_candidates)
    /\ \A j, k \in DOMAIN candidates :
         j < k => Ranked(candidates[j], candidates[k])

\* select_candidates_locked treats fewer than topk candidates as a logic error:
\* the interval filter never cuts that deep.
AtLeastTopK == pc = "done" => Len(candidates) >= TopK
=============================================================================

------------------------ MODULE MCIntervalSelection ------------------------
(***************************************************************************)
(* Small instances of IntervalSelection: every assignment of the given     *)
(* estimates to the rows, with uncertainties that follow the IDs.          *)
(***************************************************************************)
EXTENDS IntervalSelection

MCInfinity == 100

RowSets(n, estimates, unc(_)) ==
  {{[id |-> i, est |-> e[i], unc |-> unc(i)] : i \in 0 .. (n - 1)} :
     e \in [0 .. (n - 1) -> estimates]}

\* Exact rows, wide ones and one of unbounded uncertainty.
Uncertainty(i) == IF i = 3 THEN MCInfinity ELSE i % 3

FiniteRows == RowSets(5, {1, 2, 4}, Uncertainty)
OverflownRows == RowSets(5, {-MCInfinity, 3, MCInfinity}, Uncertainty)
LongScan == {[id |-> i, est |-> (3 * i) % 7, unc |-> i % 2] : i \in 0 .. 6}

Portable(rowSets, topk, caps) ==
  [rows : rowSets, topk : {topk}, max_candidates : caps,
   avx512 : {FALSE}, tile : {2}]
Avx512(rowSets, topk, caps) ==
  [rows : rowSets, topk : {topk}, max_candidates : caps,
   avx512 : {TRUE}, tile : {3}]

\* Portable scans meet infinite estimates of both signs; the AVX-512 ones are
\* finite.
MCScans == Portable(OverflownRows \cup {LongScan}, 1, {1, 2, 3})
             \cup Avx512(FiniteRows, 2, {0, 2})
=============================================================================

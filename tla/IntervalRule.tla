---------------------------- MODULE IntervalRule ----------------------------
(***************************************************************************)
(* What an estimate with its uncertainty means (DistanceEstimate in        *)
(* include/recastlib/types.h), how the scan ranks rows, and which of them  *)
(* become candidates.  A row is [id, est, unc]; floats are integers with   *)
(* an infinity on each side.                                               *)
(***************************************************************************)
EXTENDS Integers, FiniteSets

CONSTANTS
  Infinity,    \* +infinity
  ZScore       \* z_score

\* A sum of floats: what leaves the finite range is an infinity.
Saturated(x) == IF x > Infinity THEN Infinity
                ELSE IF x < -Infinity THEN -Infinity ELSE x

\* DistanceEstimate::lower and upper; a product that is not finite makes the
\* endpoint infinite or NaN, which is replaced by the same infinity.
Lower(r) ==
  IF ZScore = 0 \/ r.unc = 0 THEN r.est
  ELSE IF ZScore * r.unc >= Infinity THEN -Infinity
  ELSE IF r.est \in {-Infinity, Infinity} THEN r.est
  ELSE Saturated(r.est - ZScore * r.unc)

Upper(r) ==
  IF ZScore = 0 \/ r.unc = 0 THEN r.est
  ELSE IF ZScore * r.unc >= Infinity THEN Infinity
  ELSE IF r.est \in {-Infinity, Infinity} THEN r.est
  ELSE Saturated(r.est + ZScore * r.unc)

Ranked(r, q) == r.est < q.est \/ (r.est = q.est /\ r.id < q.id)

\* Of the rows S: r is in the shortlist of the best `cap` estimates (0 is no
\* cap), and fewer than topk upper endpoints lie below its lower one.
Shortlisted(S, r, cap) ==
  cap = 0 \/ Cardinality({q \in S : Ranked(q, r)}) < cap
Passes(S, r, topk) == Cardinality({q \in S : Upper(q) < Lower(r)}) < topk

Candidates(S, topk, cap) ==
  {r \in S : Shortlisted(S, r, cap) /\ Passes(S, r, topk)}
=============================================================================

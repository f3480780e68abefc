---------------------------- MODULE MCIndexSearch ----------------------------
(***************************************************************************)
(* Searches over two lists: vector c belongs to list 0, b to list 1.  One  *)
(* query probes list 0 first, has exact intervals and finds b and c equally*)
(* far; the other probes list 1 first, its estimates rank b and c the wrong*)
(* way round, and the lane of c, the cleared lane as well, is unbounded.   *)
(***************************************************************************)
EXTENDS IndexSearch

CONSTANTS b, c, lane_b, near, far, r1

MCAssign == [v \in Vecs |-> IF v = b THEN 1 ELSE 0]
MCCode == [v \in Vecs |-> IF v = b THEN lane_b ELSE EmptyLane]
MCRoute == [q \in Queries |-> [k \in Lists |-> IF q = near THEN k ELSE 1 - k]]
MCDistance == [q \in Queries |-> [v \in Vecs \cup {NoVec} |->
                IF q = near THEN 2 ELSE IF v = b THEN 3 ELSE 1]]
MCEstimate == [q \in Queries |-> [x \in Lanes |->
                IF q = near \/ x = lane_b THEN 2 ELSE 5]]
MCUncertainty == [q \in Queries |-> [x \in Lanes |->
  IF q = near THEN 0 ELSE IF x = EmptyLane THEN Infinity ELSE 1]]
=============================================================================

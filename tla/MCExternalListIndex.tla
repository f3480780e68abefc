------------------------ MODULE MCExternalListIndex ------------------------
(***************************************************************************)
(* Small instances of ExternalListIndex: vectors a and c belong to list 0, *)
(* b to list 1, and the code of c is indistinguishable from a cleared lane.*)
(***************************************************************************)
EXTENDS IndexRefinement

CONSTANTS a, b, c, lane_a, lane_b

MCAssign == [v \in Vecs |-> IF v = b THEN 1 ELSE 0]
MCCode == [v \in Vecs |->
             IF v = a THEN lane_a ELSE IF v = b THEN lane_b ELSE EmptyLane]
=============================================================================

---------------------------- MODULE MCCheckpoint ----------------------------
(***************************************************************************)
(* Small instances of Checkpoint.  Nothing in it orders the lists, so they *)
(* are interchangeable.                                                    *)
(***************************************************************************)
EXTENDS Checkpoint, TLC

CONSTANTS t1, t2, l1, l2

ListSymmetry == Permutations({l1, l2})
=============================================================================

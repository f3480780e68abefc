------------------------------ MODULE MCCodePath ------------------------------
(***************************************************************************)
(* Twelve coordinates in six groups.  The profiles make the planner keep   *)
(* the even split, take one pass and take two, with none, one and several  *)
(* exchanges; the vectors sit on the borders of the metadata ranges; an    *)
(* error of 1021 is a distance that rounding has put just past 2.          *)
(***************************************************************************)
EXTENDS CodePath

Profile(h) == [j \in Dims |-> Unit * h[j + 1]]
MCProfiles ==
  {Profile(<<4, 0, 2, 0, 0, 0, 5, 4, 0, 3, 5, 1>>),
   Profile(<<6, 6, 6, 6, 5, 4, 3, 3, 3, 2, 0, 0>>),
   Profile(<<3, 2, 1, 1, 1, 1, 0, 0, 0, 0, 0, 0>>),
   Profile(<<2, 1, 2, 1, 4, 1, 1, 6, 6, 1, 3, 5>>)}

Bits(s) == [j \in Dims |-> IF j \in s THEN 1 ELSE 0]
Plain == [bits |-> Bits({0, 3, 4, 7, 10}), norm |-> 507, scale |-> 1018,
          error |-> 5, flat |-> FALSE]
Long == [bits |-> Bits({1, 2, 4, 8, 9, 11}), norm |-> 1019, scale |-> 2,
         error |-> 1021, flat |-> FALSE]
Scaled == [bits |-> Bits(Dims), norm |-> 1018, scale |-> 1019, error |-> 0,
           flat |-> FALSE]
Zero == [bits |-> Bits({}), norm |-> 0, scale |-> 0, error |-> 0, flat |-> TRUE]

MCBatches ==
  {<<Plain>>, <<Long, Zero, Scaled>>,
   <<Plain, Long, Scaled, Plain, Zero, Long, Scaled, Zero, Plain>>}
MCQueries == {[j \in Dims |-> 2^j], Bits({})}
=============================================================================

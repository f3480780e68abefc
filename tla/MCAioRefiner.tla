---------------------------- MODULE MCAioRefiner ----------------------------
(***************************************************************************)
(* Small instances of AioRefiner: lists of three pages of two rows.        *)
(***************************************************************************)
EXTENDS AioRefiner

Rows == (0 .. 1) \X (0 .. 5)

\* Ties between lists, and an order that follows neither list nor offset.
MCDistance(x) == (x[1] + 2 * x[2]) % 3

\* Every small set of places of two lists, and requests in three lists with
\* more plans than slots and more lists than open files.
MCRequests ==
  {c \in SUBSET Rows : Cardinality(c) \in 2 .. 3} \cup
  { {<<0, 0>>, <<0, 4>>, <<1, 1>>, <<1, 5>>, <<2, 3>>},
    {<<0, 1>>, <<0, 2>>, <<2, 0>>} }
MCOptions == {<<1, 1>>, <<1, 2>>, <<2, 2>>, <<3, 3>>}

FewRequests == { {<<0, 0>>, <<0, 4>>, <<1, 1>>, <<1, 5>>} }
=============================================================================

---------------------------- MODULE AbstractIndex ----------------------------
(***************************************************************************)
(* What ExternalListRecastIndex promises its callers, without files,       *)
(* directory or postings: every list is a set of rows, insert_batch and    *)
(* erase_batch are atomic over all the lists they touch, an insert that    *)
(* fails did nothing, and an erase that fails may cost some lists: those   *)
(* are lost, and nothing more is promised of their rows.                   *)
(***************************************************************************)
EXTENDS Integers

CONSTANTS
  Lists, Ids, IdLimit,
  Vecs,
  Assign           \* the list every vector is routed to

VARIABLES
  rows,            \* the rows <<id, vector>> of every list
  next,            \* the next Logical ID
  lost             \* lists a failed erase has left half-way

vars == <<rows, next, lost>>

Init ==
  /\ rows = [l \in Lists |-> {}]
  /\ next = 0
  /\ lost = {}

KnownIds == {i \in Ids : \E l \in Lists, v \in Vecs : <<i, v>> \in rows[l]}

\* insert_batch returned next, next + 1, ...: every vector is in its list.
Insert(n, vecs) ==
  /\ next + n <= IdLimit
  /\ rows' = [l \in Lists |->
                IF l \in lost THEN {}
                ELSE rows[l] \cup {<<next + i - 1, vecs[i]>> :
                                     i \in {j \in 1 .. n : Assign[vecs[j]] = l}}]
  /\ next' = next + n
  /\ UNCHANGED lost

\* erase_batch returned: exactly the IDs it was given are gone, and it was
\* given no ID the index does not hold, unless it is in a lost list.
Erase(E) ==
  /\ E \subseteq KnownIds \/ lost # {}
  /\ rows' = [l \in Lists |-> {r \in rows[l] : r[1] \notin E}]
  /\ UNCHANGED <<next, lost>>

\* erase_batch threw after it had begun to change the files of the lists L.
EraseFails(L) ==
  /\ lost' = lost \cup L
  /\ rows' = [l \in Lists |-> IF l \in L THEN {} ELSE rows[l]]
  /\ UNCHANGED next

Next ==
  \/ \E n \in 1 .. IdLimit : \E vecs \in [1 .. n -> Vecs] : Insert(n, vecs)
  \/ \E E \in SUBSET Ids : Erase(E)
  \/ \E L \in SUBSET Lists : EraseFails(L)

Spec == Init /\ [][Next]_vars
=============================================================================

--------------------------- MODULE IndexRefinement ---------------------------
(***************************************************************************)
(* ExternalListIndex implements AbstractIndex.  The rows of a list are     *)
(* read from its record file, up to logical_size, the way the exact        *)
(* refinement of a search reads them; only while an erase is overwriting   *)
(* them in place are they what the callers were last told.                 *)
(***************************************************************************)
EXTENDS ExternalListIndex

\* The rows a search that scans list l can return.
RowsOnFile(l) == {<<file[l].rec[s].id, file[l].rec[s].vec>> :
                    s \in 0 .. (lists[l].size - 1)}

\* The rows the callers hold IDs of.
RowsOwed(l) == {<<i, told[i]>> : i \in HeldIn(l)}

IndexRows ==
  [l \in Lists |-> IF l \in torn THEN {}
                   ELSE IF Settled(l) THEN RowsOnFile(l) ELSE RowsOwed(l)]

Abstract == INSTANCE AbstractIndex WITH
              rows <- IndexRows, next <- next_id, lost <- torn

\* Whatever interleaving of file calls and failures an update takes, its
\* callers see an atomic index: a batch over several lists takes effect in all
\* of them in one step or not at all, failed inserts are invisible, IDs are
\* consecutive, and only a failed erase costs lists, those it had begun on.
ImplementsAbstract == Abstract!Spec

-----------------------------------------------------------------------------
\* What a running batch still owes its publication: an insert has a row for
\* every ID it will hand out, and an erase removes IDs the callers hold.
BatchExact ==
  /\ Busy("insert") =>
       /\ plan.count > 0
       /\ \A i \in next_id .. (next_id + plan.count - 1) :
            \E x \in DOMAIN plan.rows : plan.rows[x].id = i
  /\ Busy("erase") => torn # {} \/ \A i \in plan.erased : told[i] # Absent
=============================================================================

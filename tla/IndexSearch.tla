----------------------------- MODULE IndexSearch -----------------------------
(***************************************************************************)
(* Searches of ExternalListRecastIndex beside its updates.  search() holds *)
(* mutex_ shared from its first to its last line: it numbers the rows of   *)
(* the probed lists with consecutive tokens, scans their packed postings,  *)
(* maps the candidates' tokens back to record locations, and reads those   *)
(* records from the list files, which it opens one after another.  Updates *)
(* hold mutex_ exclusively.                                                *)
(*                                                                         *)
(* The selector is the rule IntervalSelection implements, the reads are    *)
(* what AioRefiner implements.                                             *)
(***************************************************************************)
EXTENDS IndexRefinement, IntervalRule

CONSTANTS
  Readers,         \* threads that search
  Queries,         \* query vectors
  Route,           \* router_.route_pq: the lists of a query, nearest first
  Distance,        \* distance_function: of a query to a payload
  Estimate,        \* of a query, from a packed lane
  Uncertainty,     \* likewise
  MaxTopK,         \* bound on topk
  max_candidates   \* 0 for the uncapped mode

ASSUME RouteAssumption ==
  Route \in [Queries -> {p \in [Lists -> Lists] :
                           \A j, k \in Lists : p[j] = p[k] => j = k}]
ASSUME DistanceAssumption ==
  Distance \in [Queries -> [Vecs \cup {NoVec} -> Nat]]
\* The selector takes no z_score that is negative or not finite.
ASSUME EstimateAssumption ==
  /\ Infinity \in Nat \ {0} /\ ZScore \in Nat /\ max_candidates \in Nat
  /\ Estimate \in [Queries -> [Lanes -> -Infinity .. Infinity]]
  /\ Uncertainty \in [Queries -> [Lanes -> 0 .. Infinity]]

\* Intervals that hold: every vector's distance is within those of its lane.
RowOf(q, lane, token) ==
  [id |-> token, est |-> Estimate[q][lane], unc |-> Uncertainty[q][lane]]
ASSUME IntervalAssumption ==
  \A q \in Queries, v \in Vecs :
    /\ Lower(RowOf(q, Code[v], 0)) <= Distance[q][v]
    /\ Distance[q][v] <= Upper(RowOf(q, Code[v], 0))

VARIABLE reader    \* the search every reader is in: the locals of its call

searchVars == <<vars, reader>>

NoSearch == [at |-> "idle", query |-> 0, topk |-> 0, probed |-> {},
             rows |-> {}, candidates |-> {}, unread |-> {}, found |-> {}]

\* shared_mutex: updates exclude searches and each other.
\* Mutant: the lock is given back when the candidates are known.
ExclusiveEarly == \A r \in Readers : reader[r].at # "select"
Exclusive == \A r \in Readers : reader[r].at = "idle"
Shared == phase = "idle"

(***************************************************************************)
(* select_candidates_locked.  Positions of the route count from 0; a span  *)
(* is the token range of a probed list that is not empty.                  *)
(***************************************************************************)
SizeAt(q, k) == lists[Route[q][k]].size
Spans(q, nprobe) == {k \in 0 .. (nprobe - 1) : SizeAt(q, k) # 0}

\* token_base when the lists before position k have been numbered.
SpanBegin(q, k) ==
  Cardinality({x \in Lists \X Slots : x[1] < k /\ x[2] < SizeAt(q, x[1])})
SpanEnd(q, k) == SpanBegin(q, k) + SizeAt(q, k)

\* scan_block_metric visits a list tile by tile; the last tile is cut at the
\* logical size.
Tiles(size) == {t \in Slots : t % BlockSize = 0 /\ t < size}
\* Mutant: the padding of the last tile is scanned too.
ScannedSlotsPadded(size) ==
  UNION {{t + n : n \in 0 .. (BlockSize - 1)} : t \in Tiles(size)}
ScannedSlots(size) ==
  UNION {{t + n : n \in {m \in 0 .. (BlockSize - 1) : m < size - t}} :
           t \in Tiles(size)}

ScannedRows(q, nprobe) ==
  UNION {{RowOf(q, lists[Route[q][k]].lane[s], SpanBegin(q, k) + s) :
            s \in ScannedSlots(SizeAt(q, k))} : k \in Spans(q, nprobe)}

\* std::lower_bound over the ends of the spans.
\* Mutant: a token equal to the end of a span is looked for in it.
SpanOfInclusive(q, nprobe, token) ==
  {k \in Spans(q, nprobe) :
     /\ token <= SpanEnd(q, k)
     /\ \A j \in Spans(q, nprobe) : token <= SpanEnd(q, j) => k <= j}
SpanOf(q, nprobe, token) ==
  {k \in Spans(q, nprobe) :
     /\ token < SpanEnd(q, k)
     /\ \A j \in Spans(q, nprobe) : token < SpanEnd(q, j) => k <= j}

TokenValid(q, nprobe, token) ==
  \E k \in SpanOf(q, nprobe, token) : SpanBegin(q, k) <= token
Located(q, nprobe, token) ==
  LET k == CHOOSE k \in SpanOf(q, nprobe, token) : TRUE
  IN  <<Route[q][k], token - SpanBegin(q, k)>>

\* The request is valid, to the selector's constructor as well, and the 32-bit
\* token space is large enough.
RequestValid(q, nprobe, topk) ==
  /\ active_count >= topk /\ SpanBegin(q, nprobe) >= topk
  /\ max_candidates = 0 \/ max_candidates >= topk
TokensFit(q, nprobe) == SpanBegin(q, nprobe) <= IdLimit

Selected(q, nprobe, topk) ==
  {r.id : r \in Candidates(ScannedRows(q, nprobe), topk, max_candidates)}

\* A search that is refused throws, and has changed nothing.
SelectionAccepted(q, nprobe, topk) ==
  /\ RequestValid(q, nprobe, topk) /\ TokensFit(q, nprobe)
  /\ Cardinality(Selected(q, nprobe, topk)) >= topk
  /\ \A t \in Selected(q, nprobe, topk) : TokenValid(q, nprobe, t)

SearchBegin(r, q, nprobe, topk) ==
  /\ reader[r].at = "idle" /\ Shared
  /\ SelectionAccepted(q, nprobe, topk)
  /\ LET candidates == {Located(q, nprobe, t) : t \in Selected(q, nprobe, topk)}
     IN  reader' = [reader EXCEPT ![r] =
           [at |-> "refine", query |-> q, topk |-> topk,
            probed |-> {Route[q][k] : k \in 0 .. (nprobe - 1)},
            rows |-> ScannedRows(q, nprobe),
            candidates |-> candidates,
            unread |-> {x[1] : x \in candidates}, found |-> {}]]
  /\ UNCHANGED vars

(***************************************************************************)
(* refine: the candidates of one list are read and ranked by their exact   *)
(* distance; a read past the end of the file fails.                        *)
(***************************************************************************)
Nearer(m, n) == m[1] < n[1] \/ (m[1] = n[1] /\ m[2] < n[2])
NearestOf(S, topk) == {n \in S : Cardinality({m \in S : Nearer(m, n)}) < topk}

CandidatesIn(r, l) == {x \in reader[r].candidates : x[1] = l}
ReadsWhole(r, l) == \A x \in CandidatesIn(r, l) : PageOf(x[2]) < file[l].pages

\* Mutant: the best rows are collected list by list.
RefineListAnew(r, l) ==
  /\ reader[r].at = "refine" /\ l \in reader[r].unread /\ ReadsWhole(r, l)
  /\ LET read == {<<Distance[reader[r].query][RecordAt(x).vec], RecordAt(x).id>> :
                    x \in CandidatesIn(r, l)}
     IN  reader' = [reader EXCEPT ![r].unread = @ \ {l},
                                  ![r].found = NearestOf(read, reader[r].topk)]
  /\ UNCHANGED vars

RefineList(r, l) ==
  /\ reader[r].at = "refine" /\ l \in reader[r].unread /\ ReadsWhole(r, l)
  /\ LET read == {<<Distance[reader[r].query][RecordAt(x).vec], RecordAt(x).id>> :
                    x \in CandidatesIn(r, l)}
     IN  reader' = [reader EXCEPT
           ![r].unread = @ \ {l},
           ![r].found = NearestOf(@ \cup read, reader[r].topk)]
  /\ UNCHANGED vars

\* The call returns its neighbors and gives the lock back.
SearchEnd(r) ==
  /\ reader[r].at = "refine" /\ reader[r].unread = {}
  /\ reader' = [reader EXCEPT ![r] = NoSearch]
  /\ UNCHANGED vars

\* A file cannot be opened or read: the call throws.
SearchFails(r) ==
  /\ reader[r].at = "refine" /\ reader[r].unread # {}
  /\ reader' = [reader EXCEPT ![r] = NoSearch]
  /\ UNCHANGED vars

-----------------------------------------------------------------------------
SearchInit == Init /\ reader = [r \in Readers |-> NoSearch]

Update == Exclusive /\ (Insert \/ Erase)

SearchStep(r) ==
  \/ \E q \in Queries, nprobe \in 1 .. NumLists, topk \in 1 .. MaxTopK :
       SearchBegin(r, q, nprobe, topk)
  \/ \E l \in Lists : RefineList(r, l)
  \/ SearchEnd(r)
  \/ SearchFails(r)

SearchNext ==
  \/ (Update \/ UpdateStep \/ UpdateFailure) /\ UNCHANGED reader
  \/ \E r \in Readers : SearchStep(r)

SearchSpec == SearchInit /\ [][SearchNext]_searchVars

\* A thread inside an update keeps running and every system call returns; nothing
\* relies on a call to fail or on a search to come.
FairSearchSpec == SearchSpec /\ WF_searchVars(UpdateStep /\ UNCHANGED reader)

-----------------------------------------------------------------------------
(***************************************************************************)
(* Properties.                                                             *)
(***************************************************************************)
\* The vectors a search could answer with: what the callers were told is in the
\* lists it probes.
Owed(q, probed) ==
  UNION {{<<Distance[q][told[i]], i>> : i \in HeldIn(l)} : l \in probed}
OwedTo(r) == Owed(reader[r].query, reader[r].probed)

Refining(r) == reader[r].at = "refine" /\ reader[r].probed \cap torn = {}

\* The cap on candidates cuts no row off.
Uncapped(r) == max_candidates = 0 \/ Cardinality(reader[r].rows) <= max_candidates

\* While a search runs, whatever updates failed or succeeded before it, the
\* answers it has are rows the callers hold, at their exact distances: no
\* padding lane, residue of a failed insert or erased row is ever an answer.
AnswersOwed ==
  \A r \in Readers : Refining(r) => reader[r].found \subseteq OwedTo(r)

\* The intervals and the tokens lose none of the nearest rows: the location of
\* each of the topk nearest rows of the probed lists is a candidate.
NearestSelected ==
  \A r \in Readers : Refining(r) /\ Uncapped(r) =>
    \A n \in NearestOf(OwedTo(r), reader[r].topk) :
      dir.loc[n[2]] \in reader[r].candidates

\* So a search that returns answers as if it had compared the query with every
\* row of the probed lists at one instant.
SearchExact ==
  \A r \in Readers : Refining(r) /\ Uncapped(r) /\ reader[r].unread = {} =>
    reader[r].found = NearestOf(OwedTo(r), reader[r].topk)

\* None of the internal errors of select_candidates_locked can happen: the rows
\* of the index always fit the 32-bit token space, the selector returns topk
\* candidates, and each of their tokens maps back to a row.  A search that begins
\* beside others finds the index as they did, so that none is under way here.
SelectionNeverThrows ==
  Shared /\ Exclusive =>
    \A q \in Queries, nprobe \in 1 .. NumLists, topk \in 1 .. MaxTopK :
      RequestValid(q, nprobe, topk) => SelectionAccepted(q, nprobe, topk)
=============================================================================

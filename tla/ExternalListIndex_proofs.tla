---------------------- MODULE ExternalListIndex_proofs ----------------------
(***************************************************************************)
(* Proofs about ExternalListIndex, for every number of lists, every page,  *)
(* block and batch size and every set of vectors.                          *)
(*                                                                         *)
(* The first part has the types, the plan of a batch and what a step may   *)
(* never do.  The second shows Agreement: files, directory, postings and   *)
(* callers agree on every list no failed erase has torn.  The argument is  *)
(* the inductive invariant IndexInv: until a commit starts on a list its   *)
(* old rows are served, and from then on its new rows are the planned ones *)
(* where the file and the directory have been written, and still on the    *)
(* todo sets where they have not.  The refinement of AbstractIndex follows *)
(* from it.                                                                *)
(***************************************************************************)
EXTENDS IndexRefinement, OrderLemmas

(***************************************************************************)
(* Arithmetic of pages and blocks.                                         *)
(***************************************************************************)
\* page_count and the page of a row are natural numbers, and a row below n
\* lies on one of the page_count(n) pages.
LEMMA PageArithmetic ==
  /\ \A n \in Nat : PageCount(n) \in Nat
  /\ \A s \in Nat : PageOf(s) \in Nat
  /\ \A s, n \in Nat : s < n => PageOf(s) < PageCount(n)
  /\ \A m, n \in Nat : m <= n => PageCount(m) <= PageCount(n)
BY RecordsPerPageAssumption DEF PageCount, PageOf

\* The slots are natural numbers.
LEMMA SlotsNat == Slots \subseteq Nat
BY RecordsPerPageAssumption, IdLimitAssumption DEF Slots

\* There is a first slot.
LEMMA SlotsNonempty == 0 \in Slots
<1>1. PageCount(IdLimit) * RecordsPerPage >= IdLimit
  BY RecordsPerPageAssumption, IdLimitAssumption DEF PageCount
<1>2. QED
  BY <1>1, RecordsPerPageAssumption, IdLimitAssumption, PageArithmetic DEF Slots

\* round_up returns a capacity that holds the rows.
LEMMA RoundUpBound == \A n \in Nat : RoundUp(n) \in Nat /\ n <= RoundUp(n)
BY BlockSizeAssumption DEF RoundUp

\* A part of a finite set is finite, and is empty just when it counts zero.
LEMMA SubsetCount ==
  ASSUME NEW T, IsFiniteSet(T), NEW S \in SUBSET T
  PROVE  /\ IsFiniteSet(S) /\ Cardinality(S) \in Nat
         /\ Cardinality(S) = 0 <=> S = {}
<1>1. IsFiniteSet(S)
  BY FS_Subset
<1>2. QED
  BY <1>1, FS_EmptySet, FS_CardinalityType

(***************************************************************************)
(* The plans of the two updates.                                           *)
(***************************************************************************)
\* What insert_batch computes before its first effect: how its lists grow, and
\* rows that fill exactly the new slots, under consecutive fresh IDs.
LEMMA InsertPlanFacts ==
  ASSUME PlanInv, NEW n \in 1 .. MaxBatch, NEW vecs \in [1 .. n -> Vecs],
         NEW slot \in [1 .. n -> Slots], IsPlacement(vecs, slot),
         n <= IdLimit - next_id
  PROVE  LET rows == InsertRows(vecs, slot)
             touched == {Assign[vecs[i]] : i \in 1 .. n}
         IN  /\ \A l \in Lists :
                  /\ GrownSize(vecs, l) \in Nat
                  /\ lists[l].size <= GrownSize(vecs, l)
                  /\ GrownSize(vecs, l) = lists[l].size <=> l \notin touched
             /\ DOMAIN rows \subseteq Locations
             /\ \A x \in DOMAIN rows :
                  /\ rows[x] \in Record
                  /\ rows[x].vec \in Vecs /\ Assign[rows[x].vec] = x[1]
                  /\ rows[x].id \in next_id .. (next_id + n - 1)
                  /\ lists[x[1]].size <= x[2] /\ x[2] < GrownSize(vecs, x[1])
             /\ \A x, y \in DOMAIN rows : rows[x].id = rows[y].id => x = y
             /\ \A l \in Lists :
                  \A s \in lists[l].size .. (GrownSize(vecs, l) - 1) :
                    <<l, s>> \in DOMAIN rows
             /\ \A i \in 1 .. n : \E x \in DOMAIN rows :
                  rows[x].id = next_id + i - 1
<1> DEFINE rows == InsertRows(vecs, slot)
           touched == {Assign[vecs[i]] : i \in 1 .. n}
           place(i) == <<Assign[vecs[i]], slot[i]>>
<1>1. /\ n \in Nat /\ DOMAIN vecs = 1 .. n /\ next_id \in 0 .. IdLimit
      /\ IdLimit \in Nat /\ \A l \in Lists : lists[l].size \in Nat
  BY MaxBatchAssumption, IdLimitAssumption DEF PlanInv, TypeOK, MemoryList
<1>2. ASSUME NEW l \in Lists
      PROVE  /\ GrownSize(vecs, l) \in Nat
             /\ lists[l].size <= GrownSize(vecs, l)
             /\ GrownSize(vecs, l) = lists[l].size <=> l \notin touched
  <2> DEFINE mine == {i \in 1 .. n : Assign[vecs[i]] = l}
  <2>1. mine \in SUBSET (1 .. n) /\ (mine = {} <=> l \notin touched)
    OBVIOUS
  <2>2. GrownSize(vecs, l) = lists[l].size + Cardinality(mine)
    BY <1>1 DEF GrownSize
  <2> HIDE DEF mine, touched
  <2>3. IsFiniteSet(1 .. n)
    BY <1>1, FS_Interval
  <2>4. Cardinality(mine) \in Nat /\ (Cardinality(mine) = 0 <=> mine = {})
    BY <2>1, <2>3, SubsetCount
  <2>5. QED
    BY <1>1, <2>1, <2>2, <2>4
<1>3. \A i \in 1 .. n : place(i) \in Locations
  BY AssignAssumption DEF Locations
<1>4. ASSUME NEW i \in 1 .. n, NEW j \in 1 .. n, place(i) = place(j)
      PROVE  i = j
  <2>1. \A p, q \in 1 .. n :
          p < q /\ Assign[vecs[p]] = Assign[vecs[q]] => slot[p] < slot[q]
    BY <1>1 DEF IsPlacement
  <2>2. slot[i] \in Slots /\ slot[j] \in Slots
    OBVIOUS
  <2>3. slot[i] \in Nat /\ slot[j] \in Nat
    BY <2>2, SlotsNat
  <2>4. i \in Nat /\ j \in Nat
    BY <1>1
  <2>5. QED
    BY <1>4, <2>1, <2>3, <2>4
<1>5. DOMAIN rows = {place(i) : i \in 1 .. n}
  BY <1>1 DEF InsertRows
<1>6. ASSUME NEW i \in 1 .. n
      PROVE  /\ rows[place(i)].id = next_id + i - 1
             /\ rows[place(i)].vec = vecs[i] /\ vecs[i] \in Vecs
             /\ rows[place(i)] \in Record
             /\ next_id + i - 1 \in next_id .. (next_id + n - 1)
  <2> DEFINE j == CHOOSE k \in 1 .. n : place(i) = place(k)
  <2>1. j \in 1 .. n /\ place(i) = place(j)
    BY SMTT(30)
  <2>2. j = i
    BY <1>4, <2>1
  <2>3. rows[place(i)] = [id |-> next_id + j - 1, vec |-> vecs[j]]
    BY <1>1, <1>5 DEF InsertRows
  <2> HIDE DEF j, rows
  <2>4. rows[place(i)] = [id |-> next_id + i - 1, vec |-> vecs[i]]
    BY <2>2, <2>3
  <2>5. /\ next_id + i - 1 \in next_id .. (next_id + n - 1)
        /\ next_id + i - 1 \in Ids
    BY <1>1 DEF Ids
  <2>6. QED
    BY <2>4, <2>5 DEF Record
<1>7. \A i \in 1 .. n : place(i)[1] = Assign[vecs[i]] /\ place(i)[2] = slot[i]
  OBVIOUS
<1>8. ASSUME NEW l \in Lists
      PROVE  {slot[i] : i \in {j \in 1 .. n : Assign[vecs[j]] = l}}
               = lists[l].size .. (GrownSize(vecs, l) - 1)
  BY <1>1 DEF IsPlacement
<1>9. ASSUME NEW i \in 1 .. n
      PROVE  /\ lists[Assign[vecs[i]]].size <= slot[i]
             /\ slot[i] < GrownSize(vecs, Assign[vecs[i]])
  <2>1. Assign[vecs[i]] \in Lists
    BY AssignAssumption
  <2>2. slot[i] \in lists[Assign[vecs[i]]].size
                     .. (GrownSize(vecs, Assign[vecs[i]]) - 1)
    BY <1>8, <2>1
  <2>3. QED
    BY <1>1, <1>2, <2>1, <2>2
<1>10. DOMAIN rows \subseteq Locations
  BY <1>3, <1>5
<1> HIDE DEF rows, place
<1>11. ASSUME NEW x \in DOMAIN rows
       PROVE  /\ rows[x] \in Record
              /\ rows[x].vec \in Vecs /\ Assign[rows[x].vec] = x[1]
              /\ rows[x].id \in next_id .. (next_id + n - 1)
              /\ lists[x[1]].size <= x[2] /\ x[2] < GrownSize(vecs, x[1])
  <2>1. PICK i \in 1 .. n : x = place(i)
    BY <1>5
  <2>2. QED
    BY <2>1, <1>6, <1>7, <1>9
<1>12. ASSUME NEW x \in DOMAIN rows, NEW y \in DOMAIN rows,
              rows[x].id = rows[y].id
       PROVE  x = y
  <2>1. PICK i \in 1 .. n : x = place(i)
    BY <1>5
  <2>2. PICK j \in 1 .. n : y = place(j)
    BY <1>5
  <2>3. rows[x].id = next_id + i - 1 /\ rows[y].id = next_id + j - 1
    BY <2>1, <2>2, <1>6
  <2>4. i = j
    BY <2>3, <1>12, <1>1
  <2>5. QED
    BY <2>1, <2>2, <2>4
<1>13. ASSUME NEW l \in Lists,
              NEW s \in lists[l].size .. (GrownSize(vecs, l) - 1)
       PROVE  <<l, s>> \in DOMAIN rows
  <2>1. PICK i \in 1 .. n : Assign[vecs[i]] = l /\ slot[i] = s
    BY <1>8
  <2>2. QED
    BY <2>1, <1>5 DEF place
<1>14. ASSUME NEW i \in 1 .. n
       PROVE  \E x \in DOMAIN rows : rows[x].id = next_id + i - 1
  BY <1>5, <1>6
<1>15. QED
  BY <1>2, <1>10, <1>11, <1>12, <1>13, <1>14 DEF rows, place

\* What erase_batch computes before its first effect: how its lists shrink, and
\* which row moves into which hole.  No row moves twice, none is an erased one,
\* and the directory still names the place each one comes from.
LEMMA ErasePlanFacts ==
  ASSUME PlanInv, NEW E \in SUBSET Ids, EraseAccepted(E),
         NEW from \in [Holes(E) -> Sources(E)], IsMovePlan(E, from)
  PROVE  /\ ErasedLists(E) \subseteq Lists
         /\ \A i \in E : dir.loc[i] \in Locations
         /\ \A l \in Lists :
              /\ ShrunkSize(E, l) \in Nat
              /\ ShrunkSize(E, l) <= lists[l].size
              /\ ShrunkSize(E, l) = lists[l].size <=> l \notin ErasedLists(E)
         /\ \A h \in Holes(E) :
              /\ h \in Locations /\ h[2] < ShrunkSize(E, h[1])
              /\ from[h] \in Sources(E) /\ from[h] \in Locations
              /\ from[h][1] = h[1]
              /\ RecordAt(from[h]) \in Record
              /\ lists[h[1]].lane[from[h][2]] \in Lanes
              /\ dir.loc[RecordAt(from[h]).id] = from[h]
              /\ RecordAt(from[h]).id \notin E
         /\ \A h, g \in Holes(E) :
              RecordAt(from[h]).id = RecordAt(from[g]).id => h = g
<1>1. \A i \in E : dir.loc[i] \in Locations
  BY DEF EraseAccepted, LocatedForErase
<1>2. ErasedLists(E) \subseteq Lists
  BY <1>1 DEF ErasedLists, Locations
<1>3. ASSUME NEW l \in Lists
      PROVE  /\ ShrunkSize(E, l) \in Nat
             /\ ShrunkSize(E, l) <= lists[l].size
             /\ ShrunkSize(E, l) = lists[l].size <=> l \notin ErasedLists(E)
  <2>1. lists[l].size \in Nat
    BY DEF PlanInv, TypeOK, MemoryList
  <2>2. ErasedFrom(E, l) \in SUBSET E
        /\ (ErasedFrom(E, l) = {} <=> l \notin ErasedLists(E))
    BY DEF ErasedFrom, ErasedLists
  <2>3. IsFiniteSet(E)
    <3>1. IsFiniteSet(Ids)
      BY IdLimitAssumption, FS_Interval DEF Ids
    <3>2. QED
      BY <3>1, FS_Subset
  <2>4. /\ Cardinality(ErasedFrom(E, l)) \in Nat
        /\ Cardinality(ErasedFrom(E, l)) = 0 <=> ErasedFrom(E, l) = {}
    BY <2>2, <2>3, SubsetCount
  <2>5. l \in ErasedLists(E) => Cardinality(ErasedFrom(E, l)) <= lists[l].size
    BY DEF EraseAccepted, SlotsDistinct
  <2>6. QED
    BY <2>1, <2>2, <2>4, <2>5 DEF ShrunkSize
<1>4. ASSUME NEW h \in Holes(E)
      PROVE  /\ h \in Locations /\ h[2] < ShrunkSize(E, h[1])
             /\ from[h] \in Sources(E) /\ from[h] \in Locations
             /\ from[h][1] = h[1]
  BY <1>1 DEF Holes, ErasedLocations, Sources, IsMovePlan
<1>5. ASSUME NEW x \in Sources(E)
      PROVE  /\ RecordAt(x) \in Record /\ dir.loc[RecordAt(x).id] = x
             /\ lists[x[1]].lane[x[2]] \in Lanes
             /\ RecordAt(x).id \notin E
  <2>1. x \in Locations /\ x \notin ErasedLocations(E)
    BY DEF Sources
  <2>2. x[1] \in Lists /\ x[2] \in Slots
    BY <2>1 DEF Locations
  <2>3. file[x[1]].rec \in [Slots -> Record] /\ lists[x[1]].lane \in [Slots -> Lanes]
    BY <2>2 DEF PlanInv, TypeOK, ListFile, MemoryList
  <2>4. RecordAt(x) \in Record /\ lists[x[1]].lane[x[2]] \in Lanes
    BY <2>2, <2>3 DEF RecordAt
  <2>5. dir.loc[RecordAt(x).id] = x
    BY DEF EraseAccepted, SourcesConfirmMove
  <2>6. RecordAt(x).id \notin E
    BY <2>1, <2>5 DEF ErasedLocations
  <2>7. QED
    BY <2>4, <2>5, <2>6
<1>6. ASSUME NEW h \in Holes(E), NEW g \in Holes(E), from[h] = from[g]
      PROVE  h = g
  <2>1. h[1] = g[1]
    BY <1>4, <1>6
  <2>2. \A p, q \in Holes(E) :
          p[1] = q[1] /\ p[2] < q[2] => from[p][2] > from[q][2]
    BY DEF IsMovePlan
  <2>3. /\ h = <<h[1], h[2]>> /\ h[2] \in Nat /\ from[h][2] \in Nat
        /\ g = <<g[1], g[2]>> /\ g[2] \in Nat
    BY <1>4, SlotsNat DEF Locations
  <2>4. h[2] = g[2]
    BY <1>6, <2>1, <2>2, <2>3
  <2>5. QED
    BY <2>1, <2>3, <2>4
<1>7. ASSUME NEW h \in Holes(E), NEW g \in Holes(E),
             RecordAt(from[h]).id = RecordAt(from[g]).id
      PROVE  h = g
  <2>1. from[h] = from[g]
    BY <1>4, <1>5, <1>7
  <2>2. QED
    BY <2>1, <1>6
<1>8. ASSUME NEW h \in Holes(E)
      PROVE  /\ RecordAt(from[h]) \in Record
             /\ lists[h[1]].lane[from[h][2]] \in Lanes
             /\ dir.loc[RecordAt(from[h]).id] = from[h]
             /\ RecordAt(from[h]).id \notin E
  <2>1. from[h] \in Sources(E) /\ from[h][1] = h[1]
    BY <1>4
  <2>2. lists[from[h][1]].lane[from[h][2]] \in Lanes
    BY <2>1, <1>5
  <2>3. QED
    BY <2>1, <2>2, <1>5
<1>9. QED
  BY <1>1, <1>2, <1>3, <1>4, <1>7, <1>8

(***************************************************************************)
(* Every write to a record file or to the directory leaves a file.         *)
(***************************************************************************)
\* The record file operators map list files to list files.
LEMMA FileOperators ==
  ASSUME NEW f \in ListFile, NEW n \in Nat, NEW p \in Nat, NEW k \in Slots,
         NEW rows, \A s \in DOMAIN rows : rows[s] \in Record
  PROVE  /\ TruncateFile(f, n) \in ListFile
         /\ WriteAppendPage(f, p, rows) \in ListFile
         /\ TearAppendPage(f, p, rows, k) \in ListFile
         /\ WriteMutatedPage(f, p, rows, n) \in ListFile
         /\ TearMutatedPage(f, p, rows, n, k) \in ListFile
<1>1. /\ f.pages \in Nat /\ f.ragged \in BOOLEAN /\ f.rec \in [Slots -> Record]
      /\ f = [pages |-> f.pages, ragged |-> f.ragged, rec |-> f.rec]
  BY DEF ListFile
<1>2. ZeroRecord \in Record
  BY IdLimitAssumption DEF ZeroRecord, Record, Ids
<1>3. TruncateFile(f, n) \in ListFile
  BY <1>1, <1>2 DEF TruncateFile, ListFile
<1>4. ASSUME NEW r, \A s \in DOMAIN r : r[s] \in Record
      PROVE  WriteAppendPage(f, p, r) \in ListFile
  <2>1. [s \in Slots |-> IF PageOf(s) = p /\ s \in DOMAIN r
                         THEN r[s] ELSE f.rec[s]] \in [Slots -> Record]
    BY <1>1, <1>4
  <2>2. (IF p < f.pages THEN f.pages ELSE p + 1) \in Nat
    BY <1>1
  <2>3. QED
    BY <2>1, <2>2 DEF WriteAppendPage, ListFile
<1>5. TearAppendPage(f, p, rows, k) \in ListFile
  <2> DEFINE r == [s \in {t \in DOMAIN rows : t < k} |-> rows[s]]
  <2>1. \A s \in DOMAIN r : r[s] \in Record
    OBVIOUS
  <2> HIDE DEF r
  <2>2. WriteAppendPage(f, p, r) \in ListFile
    BY <1>4, <2>1
  <2>3. [f EXCEPT !.ragged = TRUE] \in ListFile
    BY <1>1 DEF ListFile
  <2>4. QED
    BY <2>2, <2>3 DEF TearAppendPage, r
<1>6. [s \in Slots |->
         IF PageOf(s) # p THEN f.rec[s]
         ELSE IF s \in DOMAIN rows THEN rows[s]
         ELSE IF s >= n THEN ZeroRecord ELSE f.rec[s]] \in [Slots -> Record]
  BY <1>1, <1>2
<1>7. WriteMutatedPage(f, p, rows, n) \in ListFile
  BY <1>1, <1>6 DEF WriteMutatedPage, ListFile
<1>8. WriteMutatedPage(f, p, rows, n).rec \in [Slots -> Record]
  BY <1>7 DEF ListFile
<1>9. TearMutatedPage(f, p, rows, n, k) \in ListFile
  <2>1. [s \in Slots |-> IF s < k THEN WriteMutatedPage(f, p, rows, n).rec[s]
                         ELSE f.rec[s]] \in [Slots -> Record]
    BY <1>1, <1>8
  <2>2. QED
    BY <1>1, <2>1 DEF TearMutatedPage, ListFile
<1>10. QED
  BY <1>3, <1>4, <1>5, <1>7, <1>9

\* The directory operators map directories to directories.
LEMMA DirectoryOperators ==
  ASSUME NEW d \in Directory, NEW p \in Nat, NEW k \in Ids,
         NEW u, \A i \in DOMAIN u : u[i] \in Locations \cup {Tombstone}
  PROVE  /\ WriteEntryPage(d, p, u) \in Directory
         /\ TearEntryPage(d, p, u, k) \in Directory
<1>1. /\ d.pages \in Nat /\ d.ragged \in BOOLEAN
      /\ d.loc \in [Ids -> Locations \cup {Tombstone}]
      /\ d = [pages |-> d.pages, ragged |-> d.ragged, loc |-> d.loc]
  BY DEF Directory
<1>2. <<0, 0>> \in Locations
  <2>1. 0 \in Lists
    BY NumListsAssumption, IdLimitAssumption DEF Lists
  <2>2. QED
    BY <2>1, SlotsNonempty DEF Locations
<1>3. ASSUME NEW v, \A i \in DOMAIN v : v[i] \in Locations \cup {Tombstone}
      PROVE  WriteEntryPage(d, p, v) \in Directory
  <2>1. [i \in Ids |->
          IF EntryPage(i) = p /\ i \in DOMAIN v THEN v[i]
          ELSE IF d.pages <= EntryPage(i) /\ EntryPage(i) < p THEN <<0, 0>>
          ELSE d.loc[i]] \in [Ids -> Locations \cup {Tombstone}]
    BY <1>1, <1>2, <1>3
  <2>2. (IF p < d.pages THEN d.pages ELSE p + 1) \in Nat
    BY <1>1
  <2>3. QED
    BY <2>1, <2>2 DEF WriteEntryPage, Directory
<1>4. TearEntryPage(d, p, u, k) \in Directory
  <2> DEFINE v == [i \in {j \in DOMAIN u : j < k} |-> u[i]]
  <2>1. \A i \in DOMAIN v : v[i] \in Locations \cup {Tombstone}
    OBVIOUS
  <2> HIDE DEF v
  <2>2. WriteEntryPage(d, p, v) \in Directory
    BY <1>3, <2>1
  <2>3. [d EXCEPT !.ragged = TRUE] \in Directory
    BY <1>1 DEF Directory
  <2>4. QED
    BY <2>2, <2>3 DEF TearEntryPage, v
<1>5. QED
  BY <1>3, <1>4

(***************************************************************************)
(* PlanInv is an invariant.                                                *)
(***************************************************************************)
\* The locals of no batch at all.
LEMMA NoPlanFacts ==
  /\ NoPlan.kind = "none" /\ NoPlan.size \in [Lists -> Int]
  /\ NoPlan.count \in Nat /\ NoPlan.erased = {}
  /\ DOMAIN NoPlan.rows = {} /\ DOMAIN NoPlan.codes = {}
BY DEF NoPlan

\* PlanInv holds in a new index.
LEMMA PlanInvInit == Init => PlanInv
<1> SUFFICES ASSUME Init PROVE PlanInv
  OBVIOUS
<1>1. EmptyFile \in ListFile
  <2>1. ZeroRecord \in Record
    BY IdLimitAssumption DEF ZeroRecord, Record, Ids
  <2>2. QED
    BY <2>1 DEF EmptyFile, ListFile
<1>2. EmptyDirectory \in Directory
  BY DEF EmptyDirectory, Directory
<1>3. TypeOK
  <2>1. lists \in [Lists -> MemoryList]
    BY CodeAssumption DEF Init, MemoryList, Lanes
  <2>2. QED
    BY <1>1, <1>2, <2>1, NoPlanFacts, IdLimitAssumption DEF Init, TypeOK
<1>4. TailLanesEmpty /\ ListsFit
  BY DEF Init, TailLanesEmpty, ListsFit
<1>5. QED
  BY <1>3, <1>4 DEF Init, PlanInv, BatchFits, InsertFits, EraseFits, Busy

\* A step on the file of one list, whatever it writes.
LEMMA PlanInvFile ==
  ASSUME PlanInv, NEW l \in Lists, phase = "records",
         stage[l] \in {"wait", "open"}, UNCHANGED batchVars,
         file' \in [Lists -> ListFile], todo' \in [Lists -> SUBSET Nat],
         NEW at \in {"open", "done", "failed"},
         stage' = [stage EXCEPT ![l] = at],
         begun' = begun \/ (plan.kind = "erase" /\ begun' = begun \cup {l}),
         plan.kind = "erase" /\ at = "done" => l \in begun'
  PROVE  PlanInv'
<1>1. /\ dir' = dir /\ lists' = lists /\ next_id' = next_id
      /\ active_count' = active_count /\ told' = told /\ phase' = phase
      /\ plan' = plan /\ dirTodo' = dirTodo /\ torn' = torn
  BY DEF batchVars, callVars
<1>2. \A k \in Lists : stage'[k] = stage[k] \/ (k = l /\ stage'[k] = at)
  BY DEF PlanInv, TypeOK
<1>3. stage' \in [Lists -> {"none", "wait", "open", "done", "failed"}]
  BY DEF PlanInv, TypeOK
<1>4. TypeOK'
  BY <1>1, <1>3 DEF PlanInv, TypeOK
<1>5. TailLanesEmpty' /\ ListsFit'
  BY <1>1 DEF PlanInv, TailLanesEmpty, ListsFit
<1>6. BatchFits'
  BY <1>1, <1>2 DEF PlanInv, BatchFits, UpdatesDistinct
<1>7. InsertFits'
  BY <1>1 DEF PlanInv, InsertFits, Busy
<1>8. EraseFits'
  <2>1. begun \subseteq begun'
    OBVIOUS
  <2>2. QED
    BY <1>1, <1>2, <2>1 DEF PlanInv, EraseFits, Busy
<1>9. QED
  BY <1>4, <1>5, <1>6, <1>7, <1>8 DEF PlanInv

\* The end of a batch that failed.
LEMMA PlanInvEnd ==
  ASSUME PlanInv, EndBatch, dir' \in Directory, torn' = torn \cup begun,
         UNCHANGED <<file, callVars>>
  PROVE  PlanInv'
<1>1. /\ lists' = lists /\ next_id' = next_id /\ active_count' = active_count
      /\ told' = told /\ file' = file
  BY DEF callVars
<1>2. TypeOK'
  BY <1>1, NoPlanFacts DEF PlanInv, TypeOK, EndBatch
<1>3. TailLanesEmpty' /\ ListsFit'
  BY <1>1 DEF PlanInv, TailLanesEmpty, ListsFit
<1>4. BatchFits' /\ InsertFits' /\ EraseFits'
  BY DEF EndBatch, BatchFits, InsertFits, EraseFits, Busy
<1>5. QED
  BY <1>2, <1>3, <1>4 DEF PlanInv

\* The rows a batch has for one list are records.
LEMMA RowsOfType ==
  ASSUME TypeOK, NEW l \in Lists
  PROVE  \A s \in DOMAIN RowsOf(l) : RowsOf(l)[s] \in Record
BY DEF TypeOK, RowsOf

\* The entries a batch has for the directory are locations or tombstones.
LEMMA DirectoryUpdatesType ==
  ASSUME TypeOK
  PROVE  \A i \in DOMAIN DirectoryUpdates :
           DirectoryUpdates[i] \in Locations \cup {Tombstone}
<1> SUFFICES ASSUME NEW i \in UpdatedIds
             PROVE  DirectoryUpdates[i] \in Locations \cup {Tombstone}
  BY DEF DirectoryUpdates
<1>1. CASE i \in plan.erased
  BY <1>1 DEF DirectoryUpdates
<1>2. CASE i \notin plan.erased
  <2> DEFINE x == CHOOSE y \in DOMAIN plan.rows : plan.rows[y].id = i
  <2>1. \E y \in DOMAIN plan.rows : plan.rows[y].id = i
    BY <1>2 DEF UpdatedIds
  <2>2. x \in DOMAIN plan.rows
    BY <2>1
  <2>3. DirectoryUpdates[i] = x
    BY <1>2 DEF DirectoryUpdates
  <2>4. QED
    BY <2>2, <2>3 DEF TypeOK
<1>3. QED
  BY <1>1, <1>2

\* Every step on a record file preserves PlanInv.
LEMMA PlanInvListStep ==
  ASSUME PlanInv, NEW l \in Lists, ListStep(l) \/ ListFailure(l)
  PROVE  PlanInv'
<1>1. /\ TypeOK /\ file[l] \in ListFile /\ todo[l] \in SUBSET Nat
      /\ lists[l].size \in Nat
  BY DEF PlanInv, TypeOK, MemoryList
<1>2. phase = "records" => plan.size[l] \in Nat
  <2>1. lists[l].capacity \in Nat
    BY DEF PlanInv, TypeOK, MemoryList
  <2>2. QED
    BY <2>1 DEF PlanInv, BatchFits
<1>3. \A s \in DOMAIN RowsOf(l) : RowsOf(l)[s] \in Record
  BY <1>1, RowsOfType
<1>4. ASSUME NEW f \in ListFile, file' = [file EXCEPT ![l] = f]
      PROVE  file' \in [Lists -> ListFile]
  BY <1>1, <1>4 DEF TypeOK
<1>5. ASSUME NEW t \in SUBSET Nat, todo' = [todo EXCEPT ![l] = t]
      PROVE  todo' \in [Lists -> SUBSET Nat]
  BY <1>1, <1>5 DEF TypeOK
<1>6. file \in [Lists -> ListFile] /\ todo \in [Lists -> SUBSET Nat]
  BY <1>1 DEF TypeOK
<1>7. CASE AppendOpen(l)
  <2>1. PageCount(lists[l].size) \in Nat
    BY <1>1, PageArithmetic
  <2>2. TruncateFile(file[l], PageCount(lists[l].size)) \in ListFile
    BY <1>1, <2>1, <1>3, SlotsNonempty, FileOperators
  <2>3. AppendPages(lists[l].size, plan.size[l]) \in SUBSET Nat
    <3>1. PageOf(lists[l].size) \in Nat /\ PageCount(plan.size[l]) \in Nat
      BY <1>1, <1>2, <1>7, PageArithmetic DEF AppendOpen, Working
    <3>2. QED
      BY <3>1 DEF AppendPages
  <2>4. file' \in [Lists -> ListFile] /\ todo' \in [Lists -> SUBSET Nat]
    BY <1>4, <1>5, <1>7, <2>2, <2>3 DEF AppendOpen
  <2>5. QED
    BY <1>7, <2>4, PlanInvFile DEF AppendOpen, Working, Advance
<1>8. CASE AppendPage(l)
  <2>1. PICK p \in todo[l] :
          /\ file' = [file EXCEPT ![l] = WriteAppendPage(@, p, RowsOf(l))]
          /\ todo' = [todo EXCEPT ![l] = @ \ {p}]
    BY <1>8 DEF AppendPage
  <2>2. WriteAppendPage(file[l], p, RowsOf(l)) \in ListFile
    BY <1>1, <1>3, SlotsNonempty, FileOperators
  <2>3. file' \in [Lists -> ListFile] /\ todo' \in [Lists -> SUBSET Nat]
    BY <1>1, <1>6, <2>1, <2>2
  <2>4. stage' = [stage EXCEPT ![l] = "open"]
    BY <1>1, <1>8 DEF AppendPage, Working, TypeOK
  <2>5. QED
    BY <1>8, <2>3, <2>4, PlanInvFile DEF AppendPage, Working
<1>9. CASE AppendTorn(l)
  <2>1. PICK p \in todo[l], j \in Slots :
          file' = [file EXCEPT ![l] = TearAppendPage(@, p, RowsOf(l), j)]
    BY <1>9 DEF AppendTorn
  <2>2. TearAppendPage(file[l], p, RowsOf(l), j) \in ListFile
    BY <1>1, <1>3, FileOperators
  <2>3. file' \in [Lists -> ListFile] /\ todo' = todo
    BY <1>4, <1>9, <2>1, <2>2 DEF AppendTorn
  <2>4. QED
    BY <1>6, <1>9, <2>3, PlanInvFile DEF AppendTorn, Working, Advance
<1>10. CASE AppendClose(l)
  <2>1. PageCount(plan.size[l]) \in Nat
    BY <1>2, <1>10, PageArithmetic DEF AppendClose, Working
  <2>2. TruncateFile(file[l], PageCount(plan.size[l])) \in ListFile
    BY <1>1, <2>1, <1>3, SlotsNonempty, FileOperators
  <2>3. file' \in [Lists -> ListFile] /\ todo' = todo
    BY <1>4, <1>10, <2>2 DEF AppendClose
  <2>4. QED
    BY <1>6, <1>10, <2>3, PlanInvFile DEF AppendClose, Working, Advance
<1>11. CASE CommitOpen(l)
  <2>1. MutationPages(plan.size[l], RowsOf(l)) \in SUBSET Nat
    <3>1. DOMAIN RowsOf(l) \subseteq Nat
      BY SlotsNat DEF RowsOf
    <3>2. \A s \in DOMAIN RowsOf(l) : PageOf(s) \in Nat
      BY <3>1, PageArithmetic
    <3>3. PageOf(plan.size[l]) \in Nat
      BY <1>2, <1>11, PageArithmetic DEF CommitOpen, Working
    <3>4. QED
      BY <3>2, <3>3 DEF MutationPages
  <2>2. file' \in [Lists -> ListFile] /\ todo' \in [Lists -> SUBSET Nat]
    BY <1>5, <1>6, <1>11, <2>1 DEF CommitOpen
  <2>3. QED
    BY <1>11, <2>2, PlanInvFile DEF CommitOpen, Working, Advance
<1>12. CASE CommitPage(l)
  <2>1. PICK p \in todo[l] :
          /\ file' = [file EXCEPT ![l] =
                         WriteMutatedPage(@, p, RowsOf(l), plan.size[l])]
          /\ todo' = [todo EXCEPT ![l] = @ \ {p}]
    BY <1>12 DEF CommitPage
  <2>2. WriteMutatedPage(file[l], p, RowsOf(l), plan.size[l]) \in ListFile
    BY <1>1, <1>2, <1>3, <1>12, SlotsNonempty, FileOperators
       DEF CommitPage, Working
  <2>3. file' \in [Lists -> ListFile] /\ todo' \in [Lists -> SUBSET Nat]
    BY <1>1, <1>6, <2>1, <2>2
  <2>4. stage' = [stage EXCEPT ![l] = "open"]
    BY <1>1, <1>12 DEF CommitPage, Working, TypeOK
  <2>5. QED
    BY <1>12, <2>3, <2>4, PlanInvFile DEF CommitPage, Working
<1>13. CASE CommitTorn(l)
  <2>1. PICK p \in todo[l], j \in Slots :
          file' = [file EXCEPT ![l] =
                     TearMutatedPage(@, p, RowsOf(l), plan.size[l], j)]
    BY <1>13 DEF CommitTorn
  <2>2. TearMutatedPage(file[l], p, RowsOf(l), plan.size[l], j) \in ListFile
    BY <1>1, <1>2, <1>3, <1>13, FileOperators DEF CommitTorn, Working
  <2>3. file' \in [Lists -> ListFile] /\ todo' = todo
    BY <1>4, <1>13, <2>1, <2>2 DEF CommitTorn
  <2>4. QED
    BY <1>6, <1>13, <2>3, PlanInvFile DEF CommitTorn, Working, Advance
<1>14. CASE CommitClose(l)
  <2>1. PageCount(plan.size[l]) \in Nat
    BY <1>2, <1>14, PageArithmetic DEF CommitClose, Working
  <2>2. TruncateFile(file[l], PageCount(plan.size[l])) \in ListFile
    BY <1>1, <2>1, <1>3, SlotsNonempty, FileOperators
  <2>3. file' \in [Lists -> ListFile] /\ todo' = todo
    BY <1>4, <1>14, <2>2 DEF CommitClose
  <2>4. QED
    BY <1>6, <1>14, <2>3, PlanInvFile DEF CommitClose, Working, Advance
<1>15. CASE RecordRefused(l)
  BY <1>6, <1>15, PlanInvFile DEF RecordRefused, Working, Advance
<1>16. CASE RecordCallFails(l)
  BY <1>6, <1>16, PlanInvFile DEF RecordCallFails, Advance
<1>17. QED
  BY <1>7, <1>8, <1>9, <1>10, <1>11, <1>12, <1>13, <1>14, <1>15, <1>16
     DEF ListStep, ListFailure

\* Beginning an insert preserves PlanInv.
LEMMA PlanInvInsert ==
  ASSUME PlanInv, Insert
  PROVE  PlanInv'
<1>1. PICK n \in 1 .. MaxBatch : \E v \in [1 .. n -> Vecs] : InsertBegin(n, v)
  BY DEF Insert
<1>2. PICK vecs \in [1 .. n -> Vecs] : InsertBegin(n, vecs)
  BY <1>1
<1> DEFINE touched == {Assign[vecs[i]] : i \in 1 .. n}
           grown == [l \in Lists |-> GrownSize(vecs, l)]
           reserved == [l \in Lists |-> IF l \in touched
                          THEN Reserve(lists[l], GrownSize(vecs, l))
                          ELSE lists[l]]
<1>3. PICK slot \in [1 .. n -> Slots] :
        /\ IsPlacement(vecs, slot)
        /\ lists' = reserved
        /\ BeginBatch(InsertPlan(vecs, slot), touched)
  BY <1>2, Zenon DEF InsertBegin
<1> DEFINE rows == InsertRows(vecs, slot)
<1>4. /\ n <= IdLimit - next_id /\ phase = "idle"
      /\ file' = file /\ dir' = dir /\ next_id' = next_id
      /\ active_count' = active_count /\ told' = told /\ torn' = torn
  BY <1>2 DEF InsertBegin, IdsLeft
<1>5. ASSUME NEW l \in Lists
      PROVE  /\ grown[l] \in Nat /\ lists[l].size <= grown[l]
             /\ grown[l] = lists[l].size <=> l \notin touched
  <2>1. /\ GrownSize(vecs, l) \in Nat /\ lists[l].size <= GrownSize(vecs, l)
        /\ GrownSize(vecs, l) = lists[l].size <=> l \notin touched
    <3> HIDE DEF grown, reserved, rows
    <3> QED
      BY <1>3, <1>4, InsertPlanFacts
  <2>2. grown[l] = GrownSize(vecs, l)
    OBVIOUS
  <2>3. QED
    BY <2>1, <2>2
<1>6. DOMAIN rows \subseteq Locations
  BY <1>3, <1>4, InsertPlanFacts
<1>7. ASSUME NEW x \in DOMAIN rows
       PROVE  /\ rows[x] \in Record /\ x[1] \in Lists
              /\ rows[x].vec \in Vecs /\ Assign[rows[x].vec] = x[1]
              /\ rows[x].id \in next_id .. (next_id + n - 1)
              /\ lists[x[1]].size <= x[2] /\ x[2] < grown[x[1]]
  <2>1. x[1] \in Lists
    BY <1>6 DEF Locations
  <2>2. /\ rows[x] \in Record
        /\ rows[x].vec \in Vecs /\ Assign[rows[x].vec] = x[1]
        /\ rows[x].id \in next_id .. (next_id + n - 1)
        /\ lists[x[1]].size <= x[2] /\ x[2] < GrownSize(vecs, x[1])
    BY <1>3, <1>4, InsertPlanFacts
  <2>3. QED
    BY <2>1, <2>2
<1>8. \A x, y \in DOMAIN rows : rows[x].id = rows[y].id => x = y
  BY <1>3, <1>4, InsertPlanFacts
<1> HIDE DEF touched, grown, rows
<1>9. /\ phase' = "records" /\ begun' = {}
      /\ stage' = [l \in Lists |-> IF l \in touched THEN "wait" ELSE "none"]
      /\ todo' = [l \in Lists |-> {}]
      /\ plan' = InsertPlan(vecs, slot)
      /\ dirTodo' = {EntryPage(i) : i \in InsertPlan(vecs, slot).erased \cup
             {InsertPlan(vecs, slot).rows[x].id :
                x \in DOMAIN InsertPlan(vecs, slot).rows}}
  BY <1>3 DEF BeginBatch
<1>10. /\ plan'.kind = "insert" /\ plan'.erased = {} /\ plan'.rows = rows
      /\ plan'.size = grown
      /\ plan'.count = n
      /\ plan'.codes = [x \in DOMAIN rows |-> Code[rows[x].vec]]
  <2>1. n \in Nat /\ DOMAIN vecs = 1 .. n
    BY MaxBatchAssumption
  <2>2. Cardinality(1 .. n) = n
    BY <2>1, FS_Interval
  <2>3. QED
    BY <1>9, <2>1, <2>2 DEF InsertPlan, rows, grown
<1>11. \A l \in Lists :
        /\ lists'[l] \in MemoryList
        /\ lists'[l].size = lists[l].size
        /\ lists'[l].size <= lists'[l].capacity
        /\ grown[l] <= lists'[l].capacity
        /\ \A s \in Slots : s >= lists[l].size => lists'[l].lane[s] = EmptyLane
  <2> SUFFICES ASSUME NEW l \in Lists
               PROVE  /\ lists'[l] \in MemoryList
                      /\ lists'[l].size = lists[l].size
                      /\ lists'[l].size <= lists'[l].capacity
                      /\ grown[l] <= lists'[l].capacity
                      /\ \A s \in Slots : s >= lists[l].size =>
                                            lists'[l].lane[s] = EmptyLane
    OBVIOUS
  <2>1. /\ lists[l] \in MemoryList /\ lists[l].size \in Nat
        /\ lists[l].capacity \in Nat /\ lists[l].lane \in [Slots -> Lanes]
        /\ lists[l].size <= lists[l].capacity
        /\ \A s \in Slots : s >= lists[l].size => lists[l].lane[s] = EmptyLane
    BY DEF PlanInv, TypeOK, MemoryList, ListsFit, TailLanesEmpty
  <2>2. CASE l \in touched
    <3> DEFINE lane == [s \in Slots |->
                 IF s < RoundUp(grown[l]) /\ s < lists[l].capacity
                 THEN lists[l].lane[s] ELSE EmptyLane]
    <3>1. lists'[l] = [lists[l] EXCEPT !.capacity = RoundUp(grown[l]),
                                       !.lane = lane]
      BY <1>3, <2>2 DEF Reserve, grown
    <3>2. lane \in [Slots -> Lanes]
      BY <2>1, CodeAssumption DEF Lanes
    <3>3. \A s \in Slots : s >= lists[l].size => lane[s] = EmptyLane
      BY <2>1
    <3> HIDE DEF lane
    <3>4. RoundUp(grown[l]) \in Nat /\ grown[l] <= RoundUp(grown[l])
      <4>1. grown[l] \in Nat
        BY <1>5
      <4>2. QED
        BY <4>1, RoundUpBound
    <3>5. /\ lists'[l].size = lists[l].size /\ lists'[l].lane = lane
          /\ lists'[l].capacity = RoundUp(grown[l])
          /\ lists'[l] = [size |-> lists[l].size, lane |-> lane,
                          capacity |-> RoundUp(grown[l])]
      BY <2>1, <3>1 DEF MemoryList
    <3>6. lists'[l] \in MemoryList
      BY <2>1, <3>2, <3>4, <3>5 DEF MemoryList
    <3>7. QED
      BY <1>5, <2>1, <3>3, <3>4, <3>5, <3>6
  <2>3. CASE l \notin touched
    <3>1. lists'[l] = lists[l]
      BY <1>3, <2>3
    <3>2. QED
      BY <1>5, <2>1, <2>3, <3>1
  <2>4. QED
    BY <2>2, <2>3
<1>12. TypeOK'
  <2>1. lists' \in [Lists -> MemoryList]
    BY <1>3, <1>11
  <2>2. dirTodo' \in SUBSET Nat
    <3>1. \A i \in Ids : EntryPage(i) \in Nat
      BY EntriesPerPageAssumption, IdLimitAssumption DEF EntryPage, Ids
    <3>2. \A x \in DOMAIN rows : rows[x].id \in Ids
      BY <1>7 DEF Record
    <3>3. dirTodo' = {EntryPage(i) : i \in {rows[x].id : x \in DOMAIN rows}}
      BY <1>9, <1>10
    <3>4. QED
      BY <3>1, <3>2, <3>3
  <2>3. \A x \in DOMAIN rows : Code[rows[x].vec] \in Lanes
    BY <1>7, CodeAssumption DEF Lanes
  <2>4. plan'.size \in [Lists -> Int] /\ plan'.count \in Nat
    <3>1. grown \in [Lists -> Nat]
      BY <1>5 DEF grown
    <3>2. QED
      BY <1>10, <3>1, MaxBatchAssumption
  <2>5. /\ DOMAIN plan'.rows \subseteq Locations
        /\ DOMAIN plan'.codes = DOMAIN plan'.rows
        /\ \A x \in DOMAIN plan'.rows : /\ plan'.rows[x] \in Record
                                        /\ plan'.codes[x] \in Lanes
    BY <1>10, <1>6, <1>7, <2>3
  <2>6. QED
    BY <1>4, <1>9, <1>10, <2>1, <2>2, <2>4, <2>5 DEF PlanInv, TypeOK
<1>13. TailLanesEmpty'
  BY <1>11 DEF TailLanesEmpty
<1>14. ListsFit'
  BY <1>4, <1>11 DEF PlanInv, ListsFit
<1>15. BatchFits'
  <2>1. UpdatesDistinct'
    BY <1>10, <1>8 DEF UpdatesDistinct
  <2>2. \A l \in Lists : /\ plan'.size[l] \in 0 .. lists'[l].capacity
                         /\ stage'[l] = "none" <=> plan'.size[l] = lists'[l].size
    <3>1. \A l \in Lists : lists'[l].capacity \in Nat
      BY <1>11 DEF MemoryList
    <3>2. QED
      BY <1>5, <1>9, <1>10, <1>11, <3>1
  <2>3. \A x \in DOMAIN plan'.rows : x[2] < plan'.size[x[1]]
    BY <1>10, <1>7
  <2>4. QED
    BY <1>9, <1>10, <2>1, <2>2, <2>3 DEF BatchFits
<1>16. InsertFits'
  <2>1. next_id' + plan'.count <= IdLimit
    BY <1>4, <1>10, IdLimitAssumption, MaxBatchAssumption DEF PlanInv, TypeOK
  <2>2. \A l \in Lists : lists'[l].size <= plan'.size[l]
    BY <1>5, <1>10, <1>11
  <2>3. \A x \in DOMAIN plan'.rows :
          /\ lists'[x[1]].size <= x[2]
          /\ plan'.rows[x].id \in next_id' .. (next_id' + plan'.count - 1)
          /\ plan'.rows[x].vec \in Vecs /\ Assign[plan'.rows[x].vec] = x[1]
          /\ plan'.codes[x] = Code[plan'.rows[x].vec]
    BY <1>4, <1>10, <1>11, <1>7
  <2>4. QED
    BY <1>9, <1>10, <2>1, <2>2, <2>3 DEF InsertFits
<1>17. EraseFits'
  BY <1>10 DEF EraseFits, Busy
<1>18. QED
  BY <1>12, <1>13, <1>14, <1>15, <1>16, <1>17 DEF PlanInv

\* Beginning an erase preserves PlanInv.
LEMMA PlanInvErase ==
  ASSUME PlanInv, Erase
  PROVE  PlanInv'
<1>1. PICK E \in SUBSET Ids : EraseBegin(E)
  BY DEF Erase
<1>2. /\ phase = "idle" /\ EraseAccepted(E)
      /\ file' = file /\ dir' = dir /\ lists' = lists /\ next_id' = next_id
      /\ active_count' = active_count /\ told' = told /\ torn' = torn
  BY <1>1 DEF EraseBegin, callVars
<1>3. PICK from \in [Holes(E) -> Sources(E)] :
        /\ IsMovePlan(E, from)
        /\ BeginBatch(ErasePlan(E, from), ErasedLists(E))
  BY <1>1 DEF EraseBegin
<1> DEFINE H == Holes(E)
           L == ErasedLists(E)
           rows == [h \in H |-> RecordAt(from[h])]
           shrunk == [l \in Lists |-> ShrunkSize(E, l)]
<1>4. ASSUME NEW l \in Lists
      PROVE  /\ shrunk[l] \in Nat /\ shrunk[l] <= lists[l].size
             /\ shrunk[l] = lists[l].size <=> l \notin L
  BY <1>2, <1>3, ErasePlanFacts
<1>5. ASSUME NEW h \in H
      PROVE  /\ h \in Locations /\ h[1] \in Lists /\ h[2] < shrunk[h[1]]
             /\ rows[h] \in Record
             /\ lists[h[1]].lane[from[h][2]] \in Lanes
             /\ rows[h].id \notin E
  <2>1. /\ h \in Locations /\ h[2] < ShrunkSize(E, h[1])
        /\ RecordAt(from[h]) \in Record
        /\ lists[h[1]].lane[from[h][2]] \in Lanes
        /\ RecordAt(from[h]).id \notin E
    BY <1>2, <1>3, ErasePlanFacts
  <2>2. h[1] \in Lists
    BY <2>1 DEF Locations
  <2>3. QED
    BY <2>1, <2>2
<1>6. \A h, g \in H : rows[h].id = rows[g].id => h = g
  BY <1>2, <1>3, ErasePlanFacts
<1>7. /\ phase' = "records" /\ begun' = {}
      /\ stage' = [l \in Lists |-> IF l \in L THEN "wait" ELSE "none"]
      /\ todo' = [l \in Lists |-> {}]
      /\ plan' = ErasePlan(E, from)
      /\ dirTodo' = {EntryPage(i) : i \in ErasePlan(E, from).erased \cup
             {ErasePlan(E, from).rows[x].id :
                x \in DOMAIN ErasePlan(E, from).rows}}
  BY <1>3 DEF BeginBatch
<1>8. /\ plan'.kind = "erase" /\ plan'.erased = E
      /\ plan'.rows = rows /\ DOMAIN rows = H
      /\ plan'.size = shrunk /\ plan'.count = Cardinality(E)
      /\ plan'.codes = [h \in H |-> lists[h[1]].lane[from[h][2]]]
  BY <1>7 DEF ErasePlan
<1>9. shrunk \in [Lists -> Int]
  BY <1>4
<1> HIDE DEF H, L, rows, shrunk
<1>10. TypeOK'
  <2>1. dirTodo' \in SUBSET Nat
    <3>1. \A i \in Ids : EntryPage(i) \in Nat
      BY EntriesPerPageAssumption, IdLimitAssumption DEF EntryPage, Ids
    <3>2. \A h \in H : rows[h].id \in Ids
      BY <1>5 DEF Record
    <3>3. dirTodo' = {EntryPage(i) : i \in E \cup {rows[h].id : h \in H}}
      BY <1>7, <1>8
    <3>4. QED
      BY <3>1, <3>2, <3>3
  <2>2. plan'.count \in Nat
    <3>1. IsFiniteSet(Ids)
      BY IdLimitAssumption, FS_Interval DEF Ids
    <3>2. QED
      BY <1>8, <3>1, SubsetCount
  <2>3. /\ DOMAIN plan'.rows \subseteq Locations
        /\ DOMAIN plan'.codes = DOMAIN plan'.rows
        /\ \A x \in DOMAIN plan'.rows : /\ plan'.rows[x] \in Record
                                        /\ plan'.codes[x] \in Lanes
    BY <1>5, <1>8
  <2>4. QED
    BY <1>2, <1>7, <1>8, <1>9, <2>1, <2>2, <2>3 DEF PlanInv, TypeOK
<1>11. TailLanesEmpty' /\ ListsFit'
  BY <1>2 DEF PlanInv, TailLanesEmpty, ListsFit
<1>12. BatchFits'
  <2>1. UpdatesDistinct'
    BY <1>5, <1>6, <1>8 DEF UpdatesDistinct
  <2>2. \A l \in Lists :
          /\ plan'.size[l] \in 0 .. lists'[l].capacity
          /\ stage'[l] = "none" <=> plan'.size[l] = lists'[l].size
    <3>1. \A l \in Lists : /\ lists[l].capacity \in Nat /\ lists[l].size \in Nat
                           /\ lists[l].size <= lists[l].capacity
      BY DEF PlanInv, TypeOK, MemoryList, ListsFit
    <3>2. QED
      BY <1>2, <1>4, <1>7, <1>8, <3>1
  <2>3. \A x \in DOMAIN plan'.rows : x[2] < plan'.size[x[1]]
    BY <1>5, <1>8
  <2>4. QED
    BY <1>7, <1>8, <2>1, <2>2, <2>3 DEF BatchFits
<1>13. InsertFits'
  BY <1>8 DEF InsertFits, Busy
<1>14. EraseFits'
  BY <1>2, <1>4, <1>7, <1>8 DEF EraseFits, Busy
<1>15. QED
  BY <1>10, <1>11, <1>12, <1>13, <1>14 DEF PlanInv

\* The join of the record phase and a page of the directory preserve PlanInv.
LEMMA PlanInvDirectory ==
  ASSUME PlanInv, RecordsDone \/ DirectoryPage
  PROVE  PlanInv'
<1>1. CASE RecordsDone
  <2>1. /\ phase' = "directory" /\ file' = file /\ dir' = dir /\ lists' = lists
        /\ next_id' = next_id /\ active_count' = active_count /\ told' = told
        /\ plan' = plan /\ stage' = stage /\ todo' = todo
        /\ dirTodo' = dirTodo /\ begun' = begun /\ torn' = torn
        /\ phase # "idle" /\ \A l \in Lists : stage[l] \in {"none", "done"}
    BY <1>1 DEF RecordsDone, callVars
  <2>2. TypeOK'
    BY <2>1 DEF PlanInv, TypeOK
  <2>3. TailLanesEmpty' /\ ListsFit'
    BY <2>1 DEF PlanInv, TailLanesEmpty, ListsFit
  <2>4. BatchFits'
    BY <2>1 DEF PlanInv, BatchFits, UpdatesDistinct
  <2>5. InsertFits' /\ EraseFits'
    BY <2>1 DEF PlanInv, InsertFits, EraseFits, Busy
  <2>6. QED
    BY <2>2, <2>3, <2>4, <2>5 DEF PlanInv
<1>2. CASE DirectoryPage
  <2>1. /\ phase' = phase /\ file' = file /\ lists' = lists
        /\ next_id' = next_id /\ active_count' = active_count /\ told' = told
        /\ plan' = plan /\ stage' = stage /\ todo' = todo
        /\ begun' = begun /\ torn' = torn
    BY <1>2 DEF DirectoryPage, callVars
  <2>2. PICK p \in dirTodo : /\ dir' = WriteEntryPage(dir, p, DirectoryUpdates)
                             /\ dirTodo' = dirTodo \ {p}
    BY <1>2 DEF DirectoryPage
  <2>3. dir' \in Directory
    <3>1. dir \in Directory /\ p \in Nat /\ 0 \in Ids
      BY <2>2, IdLimitAssumption DEF PlanInv, TypeOK, Ids
    <3>2. \A i \in DOMAIN DirectoryUpdates :
            DirectoryUpdates[i] \in Locations \cup {Tombstone}
      BY DirectoryUpdatesType DEF PlanInv
    <3>3. QED
      BY <2>2, <3>1, <3>2, DirectoryOperators
  <2>4. TypeOK'
    BY <2>1, <2>2, <2>3 DEF PlanInv, TypeOK
  <2>5. TailLanesEmpty' /\ ListsFit'
    BY <2>1 DEF PlanInv, TailLanesEmpty, ListsFit
  <2>6. BatchFits'
    BY <2>1 DEF PlanInv, BatchFits, UpdatesDistinct
  <2>7. InsertFits' /\ EraseFits'
    BY <2>1 DEF PlanInv, InsertFits, EraseFits, Busy
  <2>8. QED
    BY <2>4, <2>5, <2>6, <2>7 DEF PlanInv
<1>3. QED
  BY <1>1, <1>2

\* Publishing a batch keeps the lists well-formed and their tails cleared.
LEMMA PublishedLists ==
  ASSUME PlanInv, phase # "idle", PublishLists, NEW l \in Lists
  PROVE  /\ lists'[l] \in MemoryList
         /\ lists'[l].size = plan.size[l]
         /\ lists'[l].capacity = lists[l].capacity
         /\ lists'[l].size <= lists'[l].capacity
         /\ \A s \in Slots : s >= lists'[l].size => lists'[l].lane[s] = EmptyLane
<1>1. /\ lists[l].size \in Nat /\ lists[l].capacity \in Nat
      /\ lists[l].lane \in [Slots -> Lanes]
      /\ lists[l] = [size |-> lists[l].size, capacity |-> lists[l].capacity,
                     lane |-> lists[l].lane]
      /\ \A s \in Slots : s >= lists[l].size => lists[l].lane[s] = EmptyLane
  BY DEF PlanInv, TypeOK, MemoryList, TailLanesEmpty
<1>2. /\ plan.size[l] \in Nat /\ plan.size[l] <= lists[l].capacity
      /\ \A x \in DOMAIN plan.codes : /\ x[2] < plan.size[x[1]]
                                      /\ plan.codes[x] \in Lanes
  BY <1>1 DEF PlanInv, BatchFits, TypeOK
<1> DEFINE lane == [s \in Slots |-> PublishedLane(l, s)]
<1>3. ASSUME NEW s \in Slots
      PROVE  /\ PublishedLane(l, s) \in Lanes
             /\ s >= plan.size[l] => PublishedLane(l, s) = EmptyLane
  <2>1. lists[l].lane[s] \in Lanes /\ EmptyLane \in Lanes
        /\ GarbledLane \in Lanes /\ s \in Nat
    BY <1>1, CodeAssumption, SlotsNat DEF Lanes
  <2>2. CASE <<l, s>> \in DOMAIN plan.codes
    <3>1. s < plan.size[l] /\ plan.codes[<<l, s>>] \in Lanes
      BY <1>2, <2>2
    <3>2. QED
      BY <1>2, <2>1, <2>2, <3>1 DEF PublishedLane, Pack
  <2>3. CASE <<l, s>> \notin DOMAIN plan.codes
    BY <1>1, <1>2, <2>1, <2>3 DEF PublishedLane
  <2>4. QED
    BY <2>2, <2>3
<1>4. lane \in [Slots -> Lanes]
  BY <1>3
<1>5. \A s \in Slots : s >= plan.size[l] => lane[s] = EmptyLane
  BY <1>3
<1>6. lists'[l] = [lists[l] EXCEPT !.size = plan.size[l], !.lane = lane]
  BY DEF PublishLists
<1> HIDE DEF lane
<1>7. lists'[l] = [size |-> plan.size[l], capacity |-> lists[l].capacity,
                   lane |-> lane]
  BY <1>1, <1>6
<1>8. lists'[l] \in MemoryList
  BY <1>1, <1>2, <1>4, <1>7 DEF MemoryList
<1>9. QED
  BY <1>2, <1>5, <1>7, <1>8

\* The end of a batch that succeeded preserves PlanInv.
LEMMA PlanInvPublish ==
  ASSUME PlanInv, PublishInsert \/ PublishErase
  PROVE  PlanInv'
<1>1. /\ phase # "idle" /\ PublishLists /\ EndBatch
      /\ file' = file /\ dir' = dir /\ torn' = torn
  BY DEF PublishInsert, PublishErase
<1>2. \A l \in Lists :
        /\ lists'[l] \in MemoryList
        /\ lists'[l].size <= lists'[l].capacity
        /\ \A s \in Slots : s >= lists'[l].size => lists'[l].lane[s] = EmptyLane
  BY <1>1, PublishedLists
<1>3. lists' \in [Lists -> MemoryList]
  <2>1. lists' = [l \in Lists |-> lists'[l]]
    BY <1>1 DEF PublishLists
  <2>2. QED
    BY <1>2, <2>1
<1>4. /\ next_id \in 0 .. IdLimit /\ active_count \in Int /\ plan.count \in Nat
      /\ IdLimit \in Nat /\ told \in [Ids -> Vecs \cup {Absent}]
      /\ \A i \in Ids : told[i] # Absent => i < next_id
  BY IdLimitAssumption DEF PlanInv, TypeOK, ListsFit
<1>5. /\ next_id' \in 0 .. IdLimit /\ active_count' \in Int
      /\ told' \in [Ids -> Vecs \cup {Absent}]
      /\ \A i \in Ids : told'[i] # Absent => i < next_id'
  <2>1. CASE PublishErase
    BY <1>4, <2>1 DEF PublishErase
  <2>2. CASE PublishInsert
    <3>1. /\ next_id' = next_id + plan.count
          /\ active_count' = active_count + plan.count
          /\ next_id + plan.count <= IdLimit
      BY <1>1, <2>2 DEF PublishInsert, PlanInv, InsertFits, Busy
    <3>2. \A x \in DOMAIN plan.rows :
            /\ plan.rows[x].vec \in Vecs
            /\ plan.rows[x].id \in next_id .. (next_id + plan.count - 1)
      BY <1>1, <2>2 DEF PublishInsert, PlanInv, InsertFits, Busy
    <3>3. ASSUME NEW i \in Ids
          PROVE  /\ told'[i] \in Vecs \cup {Absent}
                 /\ told'[i] # Absent => i < next_id'
      <4> DEFINE x == CHOOSE y \in DOMAIN plan.rows : plan.rows[y].id = i
      <4>1. CASE \E y \in DOMAIN plan.rows : plan.rows[y].id = i
        <5>1. x \in DOMAIN plan.rows /\ plan.rows[x].id = i
          BY <4>1
        <5>2. told'[i] = plan.rows[x].vec
          BY <2>2, <4>1 DEF PublishInsert
        <5> HIDE DEF x
        <5>3. plan.rows[x].vec \in Vecs /\ i \in next_id .. (next_id + plan.count - 1)
          BY <3>2, <5>1
        <5>4. QED
          BY <1>4, <3>1, <5>2, <5>3
      <4>2. CASE ~ \E y \in DOMAIN plan.rows : plan.rows[y].id = i
        <5>1. told'[i] = told[i]
          BY <2>2, <4>2 DEF PublishInsert
        <5>2. i \in Nat
          BY <1>4 DEF Ids
        <5>3. QED
          BY <1>4, <3>1, <5>1, <5>2
      <4>3. QED
        BY <4>1, <4>2
    <3>4. told' = [i \in Ids |-> told'[i]]
      BY <2>2 DEF PublishInsert
    <3>5. QED
      BY <1>4, <3>1, <3>3, <3>4
  <2>3. QED
    BY <2>1, <2>2
<1>6. TypeOK'
  BY <1>1, <1>3, <1>5, NoPlanFacts DEF PlanInv, TypeOK, EndBatch
<1>7. TailLanesEmpty' /\ ListsFit'
  BY <1>2, <1>5 DEF TailLanesEmpty, ListsFit
<1>8. BatchFits' /\ InsertFits' /\ EraseFits'
  BY <1>1 DEF EndBatch, BatchFits, InsertFits, EraseFits, Busy
<1>9. QED
  BY <1>6, <1>7, <1>8 DEF PlanInv

\* The ways a batch fails after its join preserve PlanInv.
LEMMA PlanInvFailure ==
  ASSUME PlanInv, \/ RecordsFailed \/ DirectoryRefused
                  \/ DirectoryTorn \/ DirectoryCallFails
  PROVE  PlanInv'
<1>1. EndBatch /\ torn' = torn \cup begun /\ UNCHANGED <<file, callVars>>
  BY DEF RecordsFailed, DirectoryRefused, DirectoryTorn, DirectoryCallFails
<1>2. dir \in Directory /\ dirTodo \in SUBSET Nat
  BY DEF PlanInv, TypeOK
<1>3. dir' \in Directory
  <2>1. CASE dir' = dir
    BY <1>2, <2>1
  <2>2. CASE DirectoryTorn
    <3>1. PICK p \in dirTodo, k \in Ids :
            dir' = TearEntryPage(dir, p, DirectoryUpdates, k)
      BY <2>2 DEF DirectoryTorn
    <3>2. \A i \in DOMAIN DirectoryUpdates :
            DirectoryUpdates[i] \in Locations \cup {Tombstone}
      BY DirectoryUpdatesType DEF PlanInv
    <3>3. QED
      BY <1>2, <3>1, <3>2, DirectoryOperators
  <2>3. QED
    BY <2>1, <2>2 DEF RecordsFailed, DirectoryRefused, DirectoryCallFails
<1>4. QED
  BY <1>1, <1>3, PlanInvEnd

\* Every step preserves PlanInv.
LEMMA PlanInvNext == PlanInv /\ [Next]_vars => PlanInv'
<1> SUFFICES ASSUME PlanInv, [Next]_vars PROVE PlanInv'
  OBVIOUS
<1>1. CASE Insert
  BY <1>1, PlanInvInsert
<1>2. CASE Erase
  BY <1>2, PlanInvErase
<1>3. CASE \E l \in Lists : ListStep(l) \/ ListFailure(l)
  BY <1>3, PlanInvListStep
<1>4. CASE RecordsDone \/ DirectoryPage
  BY <1>4, PlanInvDirectory
<1>5. CASE \/ RecordsFailed \/ DirectoryRefused
           \/ DirectoryTorn \/ DirectoryCallFails
  BY <1>5, PlanInvFailure
<1>6. CASE PublishInsert \/ PublishErase
  BY <1>6, PlanInvPublish
<1>7. CASE UNCHANGED vars
  BY <1>7 DEF vars, PlanInv, TypeOK, TailLanesEmpty, ListsFit, BatchFits,
              InsertFits, EraseFits, Busy, UpdatesDistinct
<1>8. QED
  BY <1>1, <1>2, <1>3, <1>4, <1>5, <1>6, <1>7 DEF Next, UpdateStep, UpdateFailure

\* PlanInv holds in every state, whatever calls fail and in whatever order.
THEOREM PlanInvariant == Spec => []PlanInv
<1>1. Init => PlanInv
  BY PlanInvInit
<1>2. PlanInv /\ [Next]_vars => PlanInv'
  BY PlanInvNext
<1>3. QED
  BY <1>1, <1>2, PTL DEF Spec

\* Every variable of the index stays in its domain: no batch makes a size, a
\* slot or an ID leave its range.
THEOREM TypeCorrect == Spec => []TypeOK
<1>1. PlanInv => TypeOK
  BY DEF PlanInv
<1>2. QED
  BY <1>1, PlanInvariant, PTL

\* The lanes append_flat_codes_bbs32 ORs a code into are cleared, in every list
\* and after every failure.
THEOREM TailsCleared == Spec => []TailLanesEmpty
<1>1. PlanInv => TailLanesEmpty
  BY DEF PlanInv
<1>2. QED
  BY <1>1, PlanInvariant, PTL

\* write_batch is never given one ID twice, so its duplicate check cannot stop
\* an update whose record files are already changed.
THEOREM NoCollision == Spec => []UpdatesNeverCollide
<1>1. PlanInv => UpdatesNeverCollide
  BY DEF PlanInv, BatchFits, UpdatesNeverCollide
<1>2. QED
  BY <1>1, PlanInvariant, PTL

(***************************************************************************)
(* active_count_ counts the rows of all the lists in every reachable state *)
(* of ExternalListIndex, whatever failed.  No sum over the lists is needed:*)
(* the rows a batch adds are in bijection with its inputs, and of those it *)
(* takes away, the ones it moves are in bijection with the holes they fill.*)
(***************************************************************************)
\* The rows of lists of the given sizes.
Rows(size) == {x \in Locations : x[2] < size[x[1]]}
Sizes == [l \in Lists |-> lists[l].size]

\* While a batch runs, the sizes it will publish hold as many rows more or less
\* than the lists as it counts.
CountInv ==
  /\ active_count = Cardinality(Rows(Sizes))
  /\ active_count <= next_id
  /\ phase # "idle" =>
       \/ /\ plan.kind = "insert"
          /\ Cardinality(Rows(plan.size)) = active_count + plan.count
       \/ /\ plan.kind = "erase"
          /\ Cardinality(Rows(plan.size)) = active_count - plan.count

\* There are finitely many list slots.
LEMMA LocationsFinite == IsFiniteSet(Locations)
<1>1. IsFiniteSet(Lists) /\ IsFiniteSet(Slots)
  <2>1. NumLists - 1 \in Int /\ PageCount(IdLimit) * RecordsPerPage - 1 \in Int
    BY NumListsAssumption, RecordsPerPageAssumption, IdLimitAssumption,
       PageArithmetic
  <2> QED  BY <2>1, FS_Interval DEF Lists, Slots
<1> QED  BY <1>1, FS_Product DEF Locations

\* So the rows of lists of any sizes can be counted.
LEMMA RowsFinite ==
  ASSUME NEW size
  PROVE  IsFiniteSet(Rows(size)) /\ Cardinality(Rows(size)) \in Nat
<1>1. Rows(size) \in SUBSET Locations
  BY DEF Rows
<1> QED  BY <1>1, LocationsFinite, SubsetCount

\* Parts that share nothing add up.
LEMMA PartsAddUp ==
  ASSUME NEW S, NEW T, IsFiniteSet(S), IsFiniteSet(T), S \cap T = {}
  PROVE  /\ IsFiniteSet(S \cup T)
         /\ Cardinality(S \cup T) = Cardinality(S) + Cardinality(T)
         /\ Cardinality(S) \in Nat /\ Cardinality(T) \in Nat
BY FS_Union, FS_EmptySet, FS_CardinalityType

\* What covers a set once for each element of another is as large.
LEMMA Counted ==
  ASSUME NEW S, NEW T, IsFiniteSet(S), NEW f \in [S -> T],
         T \subseteq {f[x] : x \in S}, \A x, y \in S : f[x] = f[y] => x = y
  PROVE  IsFiniteSet(T) /\ Cardinality(T) = Cardinality(S)
<1>1. f \in Bijection(S, T)
  BY DEF Bijection, Injection, Surjection, IsInjective
<1> QED  BY <1>1, FS_Bijection DEF ExistsBijection

\* A location is a list and a slot.
LEMMA PairOfLocation ==
  ASSUME NEW x \in Locations
  PROVE  x = <<x[1], x[2]>> /\ x[1] \in Lists /\ x[2] \in Nat
<1>1. PICK l \in Lists, s \in Slots : x = <<l, s>>
  BY DEF Locations
<1> QED  BY <1>1, SlotsNat

\* The rows of an insert are as many as its inputs, and are all the new places.
LEMMA InsertCounts ==
  ASSUME PlanInv, NEW n \in 1 .. MaxBatch, NEW vecs \in [1 .. n -> Vecs],
         NEW slot \in [1 .. n -> Slots], IsPlacement(vecs, slot),
         n <= IdLimit - next_id
  PROVE  LET grown == [l \in Lists |-> GrownSize(vecs, l)]
         IN  Cardinality(Rows(grown))
               = Cardinality(Rows(Sizes)) + Cardinality(DOMAIN vecs)
<1> DEFINE grown == [l \in Lists |-> GrownSize(vecs, l)]
           place == [i \in 1 .. n |-> <<Assign[vecs[i]], slot[i]>>]
           new == {place[i] : i \in 1 .. n}
<1>1. /\ \A l \in Lists : /\ lists[l].size \in Nat /\ GrownSize(vecs, l) \in Nat
                          /\ lists[l].size <= GrownSize(vecs, l)
      /\ \A i \in 1 .. n : Assign[vecs[i]] \in Lists
  BY InsertPlanFacts, AssignAssumption DEF PlanInv, TypeOK, MemoryList
<1>2. \A l \in Lists :
        {slot[i] : i \in {j \in 1 .. n : Assign[vecs[j]] = l}}
          = lists[l].size .. (GrownSize(vecs, l) - 1)
  BY DEF IsPlacement
<1>3. Rows(grown) = Rows(Sizes) \cup new
  <2>1. ASSUME NEW x \in Rows(grown), x \notin Rows(Sizes)
        PROVE  x \in new
    <3>1. /\ x \in Locations /\ x = <<x[1], x[2]>>
          /\ x[1] \in Lists /\ x[2] \in Nat
      BY PairOfLocation DEF Rows
    <3>2. x[2] \in lists[x[1]].size .. (GrownSize(vecs, x[1]) - 1)
      BY <1>1, <2>1, <3>1 DEF Rows, Sizes
    <3>3. PICK i \in 1 .. n : Assign[vecs[i]] = x[1] /\ slot[i] = x[2]
      BY <1>2, <3>1, <3>2
    <3> QED  BY <3>1, <3>3
  <2>2. ASSUME NEW x \in Rows(Sizes)
        PROVE  x \in Rows(grown)
    <3>1. x \in Locations /\ x[1] \in Lists /\ x[2] \in Nat
      BY SlotsNat DEF Rows, Locations
    <3> QED  BY <1>1, <3>1 DEF Rows, Sizes
  <2>3. ASSUME NEW i \in 1 .. n
        PROVE  place[i] \in Rows(grown)
    <3>1. place[i] \in Locations /\ place[i][1] = Assign[vecs[i]]
          /\ place[i][2] = slot[i] /\ Assign[vecs[i]] \in Lists
      BY <1>1 DEF Locations
    <3>2. slot[i] \in lists[Assign[vecs[i]]].size
                        .. (GrownSize(vecs, Assign[vecs[i]]) - 1)
      BY <1>2, <3>1
    <3> QED  BY <1>1, <3>1, <3>2 DEF Rows
  <2> QED  BY <2>1, <2>2, <2>3
<1>4. Rows(Sizes) \cap new = {}
  <2> SUFFICES ASSUME NEW i \in 1 .. n, place[i] \in Rows(Sizes) PROVE FALSE
    OBVIOUS
  <2>1. Assign[vecs[i]] \in Lists /\ slot[i] < lists[Assign[vecs[i]]].size
    BY <1>1 DEF Rows, Sizes
  <2>2. slot[i] \in lists[Assign[vecs[i]]].size
                      .. (GrownSize(vecs, Assign[vecs[i]]) - 1)
    BY <1>2, <2>1
  <2> QED  BY <1>1, <2>1, <2>2
<1>5. IsFiniteSet(new) /\ Cardinality(new) = Cardinality(1 .. n)
  <2>1. ASSUME NEW i \in 1 .. n, NEW j \in 1 .. n, place[i] = place[j]
        PROVE  i = j
    <3>1. Assign[vecs[i]] = Assign[vecs[j]] /\ slot[i] = slot[j]
      BY <2>1
    <3>2. slot[i] \in Nat
      BY SlotsNat
    <3> QED  BY <3>1, <3>2 DEF IsPlacement
  <2>2. place \in [1 .. n -> new] /\ new \subseteq {place[i] : i \in 1 .. n}
    OBVIOUS
  <2>3. IsFiniteSet(1 .. n)
    BY FS_Interval
  <2>4. \A i, j \in 1 .. n : place[i] = place[j] => i = j
    BY <2>1
  <2> HIDE DEF place, new
  <2> QED  BY <2>2, <2>3, <2>4, Counted
<1>6. DOMAIN vecs = 1 .. n
  OBVIOUS
<1> HIDE DEF grown, new, place
<1> QED  BY <1>3, <1>4, <1>5, <1>6, RowsFinite, PartsAddUp DEF grown

\* The rows an erase takes away are as many as the IDs it was given.
LEMMA EraseCounts ==
  ASSUME PlanInv, NEW E \in SUBSET Ids, EraseAccepted(E),
         NEW from \in [Holes(E) -> Sources(E)], IsMovePlan(E, from)
  PROVE  LET shrunk == [l \in Lists |-> ShrunkSize(E, l)]
         IN  Cardinality(Rows(shrunk))
               = Cardinality(Rows(Sizes)) - Cardinality(E)
<1> DEFINE shrunk == [l \in Lists |-> ShrunkSize(E, l)]
           asked == ErasedLocations(E)
           gone == Rows(Sizes) \ Rows(shrunk)
<1>1. \A l \in Lists : /\ lists[l].size \in Nat /\ ShrunkSize(E, l) \in Nat
                       /\ ShrunkSize(E, l) <= lists[l].size
                       /\ l \notin ErasedLists(E)
                            => ShrunkSize(E, l) = lists[l].size
  <2>1. \A l \in Lists : /\ ShrunkSize(E, l) \in Nat
                         /\ ShrunkSize(E, l) <= lists[l].size
                         /\ l \notin ErasedLists(E)
                              => ShrunkSize(E, l) = lists[l].size
    BY ErasePlanFacts
  <2>2. \A l \in Lists : lists[l].size \in Nat
    BY DEF PlanInv, TypeOK, MemoryList
  <2> QED  BY <2>1, <2>2
<1>2. \A x \in Locations : x[1] \in Lists /\ x[2] \in Nat
  BY SlotsNat DEF Locations
<1>3. Rows(shrunk) \subseteq Rows(Sizes)
  BY <1>1, <1>2 DEF Rows, Sizes
<1>4. asked \subseteq Rows(Sizes)
  BY <1>2 DEF asked, ErasedLocations, EraseAccepted, LocatedForErase, Rows, Sizes
<1>5. asked \ gone = Holes(E)
  BY <1>2, <1>4 DEF asked, Holes, Rows
<1>6. gone \ asked = Sources(E)
  <2>1. ASSUME NEW x \in gone PROVE x[1] \in ErasedLists(E)
    BY <1>1, <1>2, <2>1 DEF Rows, Sizes
  <2> QED  BY <1>1, <1>2, <2>1 DEF asked, Sources, Rows, Sizes
<1>7. IsFiniteSet(asked) /\ Cardinality(asked) = Cardinality(E)
  <2> DEFINE at == [i \in E |-> dir.loc[i]]
  <2>1. /\ at \in [E -> asked] /\ asked \subseteq {at[i] : i \in E}
        /\ \A i, j \in E : at[i] = at[j] => i = j
    BY DEF asked, ErasedLocations, EraseAccepted, SlotsDistinct
  <2>2. IsFiniteSet(E)
    <3>1. IsFiniteSet(Ids)
      BY IdLimitAssumption, FS_Interval DEF Ids
    <3> QED  BY <3>1, FS_Subset
  <2> HIDE DEF at, asked
  <2> QED  BY <2>1, <2>2, Counted
<1>8. Cardinality(Holes(E)) = Cardinality(Sources(E))
  <2>1. \A h, g \in Holes(E) : from[h] = from[g] => h = g
    BY ErasePlanFacts
  <2>2. {from[h] : h \in Holes(E)} = Sources(E)
    BY DEF IsMovePlan
  <2>3. IsFiniteSet(Holes(E))
    BY <1>5, <1>7, FS_Subset
  <2> QED  BY <2>1, <2>2, <2>3, Counted
<1> HIDE DEF asked, gone, shrunk
<1>9. IsFiniteSet(gone)
  BY RowsFinite, FS_Subset DEF gone
<1>10. Cardinality(gone) = Cardinality(asked)
  <2> DEFINE both == Cardinality(asked \cap gone)
             kept == Cardinality(Holes(E))
  <2>1. /\ Cardinality(asked \ gone) = Cardinality(asked) - both
        /\ Cardinality(gone \ asked) = Cardinality(gone) - Cardinality(gone \cap asked)
    BY <1>7, <1>9, FS_Difference
  <2>2. gone \cap asked = asked \cap gone
    OBVIOUS
  <2>3. /\ Cardinality(asked) \in Nat /\ Cardinality(gone) \in Nat
        /\ both \in Nat
    BY <1>7, <1>9, FS_CardinalityType, FS_Intersection
  <2>4. kept = Cardinality(asked) - both /\ kept = Cardinality(gone) - both
    BY <1>5, <1>6, <1>8, <2>1, <2>2
  <2> HIDE DEF both, kept
  <2> QED  BY <2>3, <2>4
<1>11. Rows(Sizes) = Rows(shrunk) \cup gone /\ Rows(shrunk) \cap gone = {}
  BY <1>3 DEF gone
<1>12. Cardinality(Rows(Sizes)) = Cardinality(Rows(shrunk)) + Cardinality(gone)
       /\ Cardinality(gone) \in Nat
  BY <1>9, <1>11, RowsFinite, PartsAddUp
<1> QED  BY <1>7, <1>10, <1>12, RowsFinite DEF shrunk

\* An index starts with no rows and a count of 0.
LEMMA CountInvInit == Init => CountInv
<1> SUFFICES ASSUME Init PROVE CountInv
  OBVIOUS
<1>1. Rows(Sizes) = {}
  <2>1. \A l \in Lists : Sizes[l] = 0
    BY DEF Init, Sizes
  <2>2. \A x \in Locations : x[1] \in Lists /\ x[2] \in Nat
    BY SlotsNat DEF Locations
  <2> QED  BY <2>1, <2>2 DEF Rows
<1> QED  BY <1>1, FS_EmptySet DEF Init, CountInv

\* Steps that change no size, counter or plan keep the count.
LEMMA CountFrame ==
  ASSUME CountInv, UNCHANGED <<lists, next_id, active_count>>,
         phase' = "idle" \/ (phase # "idle" /\ plan' = plan)
  PROVE  CountInv'
<1>1. Sizes' = Sizes
  BY DEF Sizes
<1> QED  BY <1>1 DEF CountInv, Rows

\* A batch that begins leaves the lists alone; its plan counts its inputs.
LEMMA CountInvInsert == PlanInv /\ CountInv /\ Insert => CountInv'
<1> SUFFICES ASSUME PlanInv, CountInv, Insert PROVE CountInv'
  OBVIOUS
<1>1. PICK n \in 1 .. MaxBatch : \E vecs \in [1 .. n -> Vecs] : InsertBegin(n, vecs)
  BY DEF Insert
<1>2. PICK vecs \in [1 .. n -> Vecs] : InsertBegin(n, vecs)
  BY <1>1
<1>3. PICK slot \in [1 .. n -> Slots] :
        LET touched == {Assign[vecs[i]] : i \in 1 .. n}
            reserved == [l \in Lists |-> IF l \in touched
                           THEN Reserve(lists[l], GrownSize(vecs, l))
                           ELSE lists[l]]
        IN  /\ IsPlacement(vecs, slot)
            /\ lists' = reserved
            /\ BeginBatch(InsertPlan(vecs, slot), touched)
  BY <1>2 DEF InsertBegin
<1>4. n <= IdLimit - next_id /\ UNCHANGED <<next_id, active_count>>
  BY <1>2 DEF InsertBegin, IdsLeft
<1>5. Sizes' = Sizes
  <2>1. lists \in [Lists -> MemoryList]
    BY DEF PlanInv, TypeOK
  <2>2. \A l \in Lists : lists'[l].size = lists[l].size
    BY <1>3, <2>1 DEF Reserve, MemoryList
  <2> QED  BY <2>2 DEF Sizes
<1>6. /\ plan'.kind = "insert" /\ plan'.count = Cardinality(DOMAIN vecs)
      /\ plan'.size = [l \in Lists |-> GrownSize(vecs, l)]
  BY <1>3 DEF BeginBatch, InsertPlan
<1>7. Cardinality(Rows(plan'.size)) = active_count + plan'.count
  BY <1>3, <1>4, <1>6, InsertCounts DEF CountInv
<1> QED  BY <1>4, <1>5, <1>6, <1>7 DEF CountInv, Rows

\* Likewise for the IDs of an erase.
LEMMA CountInvErase == PlanInv /\ CountInv /\ Erase => CountInv'
<1> SUFFICES ASSUME PlanInv, CountInv, Erase PROVE CountInv'
  OBVIOUS
<1>1. PICK E \in SUBSET Ids : EraseBegin(E)
  BY DEF Erase
<1>2. PICK from \in [Holes(E) -> Sources(E)] :
        /\ IsMovePlan(E, from)
        /\ BeginBatch(ErasePlan(E, from), ErasedLists(E))
  BY <1>1 DEF EraseBegin
<1>3. EraseAccepted(E) /\ UNCHANGED <<lists, next_id, active_count>>
  BY <1>1 DEF EraseBegin, callVars
<1>4. /\ plan'.kind = "erase" /\ plan'.count = Cardinality(E)
      /\ plan'.size = [l \in Lists |-> ShrunkSize(E, l)]
  BY <1>2 DEF BeginBatch, ErasePlan
<1>5. Cardinality(Rows(plan'.size)) = active_count - plan'.count
  BY <1>2, <1>3, <1>4, EraseCounts DEF CountInv
<1>6. Sizes' = Sizes
  BY <1>3 DEF Sizes
<1> QED  BY <1>3, <1>4, <1>5, <1>6 DEF CountInv, Rows

\* The published sizes are the planned ones.
LEMMA CountInvPublish ==
  PlanInv /\ CountInv /\ (PublishInsert \/ PublishErase) => CountInv'
<1> SUFFICES ASSUME PlanInv, CountInv, PublishInsert \/ PublishErase
             PROVE  CountInv'
  OBVIOUS
<1>1. PublishLists /\ phase = "directory" /\ phase' = "idle"
  BY DEF PublishInsert, PublishErase, EndBatch
<1>2. Rows(Sizes)' = Rows(plan.size)
  <2>1. lists \in [Lists -> MemoryList]
    BY DEF PlanInv, TypeOK
  <2>2. \A l \in Lists : lists'[l].size = plan.size[l]
    BY <1>1, <2>1 DEF PublishLists, MemoryList
  <2> QED  BY <2>2 DEF Rows, Sizes, Locations
<1>3. plan.count \in Nat /\ next_id \in Nat /\ active_count \in Int
  BY IdLimitAssumption DEF PlanInv, TypeOK
<1>4. CASE PublishInsert
  <2>1. /\ plan.kind = "insert" /\ next_id' = next_id + plan.count
        /\ active_count' = active_count + plan.count
    BY <1>4 DEF PublishInsert
  <2>2. active_count' = Cardinality(Rows(plan.size))
    BY <1>1, <2>1 DEF CountInv
  <2>3. active_count' <= next_id'
    BY <1>3, <2>1 DEF CountInv
  <2> QED  BY <1>1, <1>2, <2>2, <2>3 DEF CountInv
<1>5. CASE PublishErase
  <2>1. /\ plan.kind = "erase" /\ next_id' = next_id
        /\ active_count' = active_count - plan.count
    BY <1>5 DEF PublishErase
  <2>2. active_count' = Cardinality(Rows(plan.size))
    BY <1>1, <2>1 DEF CountInv
  <2>3. active_count' <= next_id'
    BY <1>3, <2>1 DEF CountInv
  <2> QED  BY <1>1, <1>2, <2>2, <2>3 DEF CountInv
<1> QED  BY <1>4, <1>5

\* Every step preserves the count.
LEMMA CountInvNext == PlanInv /\ CountInv /\ [Next]_vars => CountInv'
<1> SUFFICES ASSUME PlanInv, CountInv, [Next]_vars PROVE CountInv'
  OBVIOUS
<1>1. CASE Insert
  BY <1>1, CountInvInsert
<1>2. CASE Erase
  BY <1>2, CountInvErase
<1>3. CASE \E l \in Lists : ListStep(l) \/ ListFailure(l)
  <2>1. PICK l \in Lists : ListStep(l) \/ ListFailure(l)
    BY <1>3
  <2>2. phase = "records" /\ UNCHANGED batchVars
    BY <2>1 DEF ListStep, ListFailure, Working, AppendOpen, AppendPage,
                AppendClose, AppendTorn, CommitOpen, CommitPage, CommitClose,
                CommitTorn, RecordRefused, RecordCallFails
  <2> QED  BY <2>2, CountFrame DEF batchVars, callVars
<1>4. CASE RecordsDone \/ DirectoryPage
  BY <1>4, CountFrame DEF RecordsDone, DirectoryPage, callVars
<1>5. CASE RecordsFailed \/ DirectoryRefused \/ DirectoryTorn \/ DirectoryCallFails
  BY <1>5, CountFrame DEF RecordsFailed, DirectoryRefused, DirectoryTorn,
     DirectoryCallFails, EndBatch, callVars
<1>6. CASE PublishInsert \/ PublishErase
  BY <1>6, CountInvPublish
<1>7. CASE UNCHANGED vars
  <2>1. Sizes' = Sizes
    BY <1>7 DEF vars, Sizes
  <2> QED  BY <1>7, <2>1 DEF CountInv, Rows, vars
<1> QED  BY <1>1, <1>2, <1>3, <1>4, <1>5, <1>6, <1>7
         DEF Next, UpdateStep, UpdateFailure

\* size() is the number of rows in the lists and never exceeds the IDs given
\* out, for every interleaving of calls and failures.
THEOREM CountsAlwaysAgree == Spec => []CountsAgree
<1>1. CountInv => CountsAgree
  <2>1. Rows(Sizes) = {x \in Locations : x[2] < lists[x[1]].size}
    BY DEF Rows, Sizes, Locations
  <2> QED  BY <2>1 DEF CountInv, CountsAgree
<1>2. Spec => []CountInv
  BY CountInvInit, CountInvNext, PlanInvariant, PTL DEF Spec
<1> QED  BY <1>1, <1>2, PTL

(***************************************************************************)
(* No list is longer than the ID space, a list that a failed erase has     *)
(* torn included: insert_batch refuses what would not fit.                 *)
(***************************************************************************)
SizesFit ==
  \A l \in Lists : /\ lists[l].size <= IdLimit
                   /\ phase # "idle" => plan.size[l] <= IdLimit

\* So every row of a list has its slot.
LEMMA SizedSlots ==
  ASSUME SizesFit, NEW l \in Lists, lists[l].size \in Nat,
         NEW s \in 0 .. (lists[l].size - 1)
  PROVE  s \in Slots
<1> DEFINE R == RecordsPerPage
           p == (IdLimit + R - 1) \div R
<1>1. R \in Nat \ {0} /\ IdLimit \in Nat
  BY RecordsPerPageAssumption, IdLimitAssumption
<1>2. p \in Nat /\ IdLimit <= p * R
  BY <1>1
<1>3. lists[l].size <= IdLimit
  BY DEF SizesFit
<1>4. Slots = 0 .. (p * R - 1)
  BY DEF Slots, PageCount
<1>5. p * R \in Nat
  BY <1>1, <1>2
<1> HIDE DEF p, R
<1> QED  BY <1>1, <1>2, <1>3, <1>4, <1>5

\* An index starts with empty lists.
LEMMA SizesFitInit == Init => SizesFit
BY IdLimitAssumption DEF Init, SizesFit

\* Steps that publish nothing and plan nothing leave the sizes as they are.
LEMMA SizesFrame ==
  ASSUME SizesFit, UNCHANGED lists,
         phase' = "idle" \/ (phase # "idle" /\ plan' = plan)
  PROVE  SizesFit'
BY DEF SizesFit

\* A batch that begins was checked list by list.
LEMMA SizesFitInsert == PlanInv /\ SizesFit /\ Insert => SizesFit'
<1> SUFFICES ASSUME PlanInv, SizesFit, Insert PROVE SizesFit'
  OBVIOUS
<1>1. PICK n \in 1 .. MaxBatch : \E vecs \in [1 .. n -> Vecs] : InsertBegin(n, vecs)
  BY DEF Insert
<1>2. PICK vecs \in [1 .. n -> Vecs] : InsertBegin(n, vecs)
  BY <1>1
<1>3. PICK slot \in [1 .. n -> Slots] :
        LET touched == {Assign[vecs[i]] : i \in 1 .. n}
            reserved == [l \in Lists |-> IF l \in touched
                           THEN Reserve(lists[l], GrownSize(vecs, l))
                           ELSE lists[l]]
        IN  /\ IsPlacement(vecs, slot)
            /\ \A l \in touched : GrownSize(vecs, l) <= IdLimit
            /\ lists' = reserved
            /\ BeginBatch(InsertPlan(vecs, slot), touched)
  BY <1>2 DEF InsertBegin
<1>4. n <= IdLimit - next_id
  BY <1>2 DEF InsertBegin, IdsLeft
<1>5. \A l \in Lists : lists'[l].size = lists[l].size
  <2>1. lists \in [Lists -> MemoryList]
    BY DEF PlanInv, TypeOK
  <2> QED  BY <1>3, <2>1 DEF Reserve, MemoryList
<1>6. \A l \in Lists : l \notin {Assign[vecs[i]] : i \in 1 .. n}
                         => GrownSize(vecs, l) = lists[l].size
  BY <1>3, <1>4, InsertPlanFacts
<1>7. \A l \in Lists : GrownSize(vecs, l) <= IdLimit
  BY <1>3, <1>6 DEF SizesFit
<1>8. plan'.size = [l \in Lists |-> GrownSize(vecs, l)]
  BY <1>3 DEF BeginBatch, InsertPlan
<1> QED  BY <1>5, <1>7, <1>8 DEF SizesFit

\* An erase makes no list longer.
LEMMA SizesFitErase == PlanInv /\ SizesFit /\ Erase => SizesFit'
<1> SUFFICES ASSUME PlanInv, SizesFit, Erase PROVE SizesFit'
  OBVIOUS
<1>1. PICK E \in SUBSET Ids : EraseBegin(E)
  BY DEF Erase
<1>2. PICK from \in [Holes(E) -> Sources(E)] :
        /\ IsMovePlan(E, from)
        /\ BeginBatch(ErasePlan(E, from), ErasedLists(E))
  BY <1>1 DEF EraseBegin
<1>3. EraseAccepted(E) /\ UNCHANGED lists
  BY <1>1 DEF EraseBegin, callVars
<1>4. plan'.size = [l \in Lists |-> ShrunkSize(E, l)]
  BY <1>2 DEF BeginBatch, ErasePlan
<1>5. \A l \in Lists : /\ ShrunkSize(E, l) \in Nat /\ lists[l].size \in Nat
                       /\ ShrunkSize(E, l) <= lists[l].size
  <2>1. \A l \in Lists : /\ ShrunkSize(E, l) \in Nat
                         /\ ShrunkSize(E, l) <= lists[l].size
    BY <1>2, <1>3, ErasePlanFacts
  <2>2. \A l \in Lists : lists[l].size \in Nat
    BY DEF PlanInv, TypeOK, MemoryList
  <2> QED  BY <2>1, <2>2
<1> QED  BY <1>3, <1>4, <1>5, IdLimitAssumption DEF SizesFit

\* The published sizes were planned.
LEMMA SizesFitPublish ==
  PlanInv /\ SizesFit /\ (PublishInsert \/ PublishErase) => SizesFit'
<1> SUFFICES ASSUME PlanInv, SizesFit, PublishInsert \/ PublishErase
             PROVE  SizesFit'
  OBVIOUS
<1>1. PublishLists /\ phase = "directory" /\ phase' = "idle"
  BY DEF PublishInsert, PublishErase, EndBatch
<1>2. lists \in [Lists -> MemoryList]
  BY DEF PlanInv, TypeOK
<1>3. \A l \in Lists : lists'[l].size = plan.size[l]
  BY <1>1, <1>2 DEF PublishLists, MemoryList
<1> QED  BY <1>1, <1>3 DEF SizesFit

\* Every step keeps the lists that short.
LEMMA SizesFitNext == PlanInv /\ SizesFit /\ [Next]_vars => SizesFit'
<1> SUFFICES ASSUME PlanInv, SizesFit, [Next]_vars PROVE SizesFit'
  OBVIOUS
<1>1. CASE Insert
  BY <1>1, SizesFitInsert
<1>2. CASE Erase
  BY <1>2, SizesFitErase
<1>3. CASE \E l \in Lists : ListStep(l) \/ ListFailure(l)
  <2>1. PICK l \in Lists : ListStep(l) \/ ListFailure(l)
    BY <1>3
  <2>2. phase = "records" /\ UNCHANGED batchVars
    BY <2>1 DEF ListStep, ListFailure, Working, AppendOpen, AppendPage,
                AppendClose, AppendTorn, CommitOpen, CommitPage, CommitClose,
                CommitTorn, RecordRefused, RecordCallFails
  <2> QED  BY <2>2, SizesFrame DEF batchVars, callVars
<1>4. CASE RecordsDone \/ DirectoryPage
  BY <1>4, SizesFrame DEF RecordsDone, DirectoryPage, callVars
<1>5. CASE RecordsFailed \/ DirectoryRefused \/ DirectoryTorn \/ DirectoryCallFails
  BY <1>5, SizesFrame DEF RecordsFailed, DirectoryRefused, DirectoryTorn,
     DirectoryCallFails, EndBatch, callVars
<1>6. CASE PublishInsert \/ PublishErase
  BY <1>6, SizesFitPublish
<1>7. CASE UNCHANGED vars
  BY <1>7 DEF SizesFit, vars
<1> QED  BY <1>1, <1>2, <1>3, <1>4, <1>5, <1>6, <1>7
         DEF Next, UpdateStep, UpdateFailure

(***************************************************************************)
(* What PlanInv says of one list, and when its rows stay served.           *)
(***************************************************************************)
\* The parts of the state that belong to a list have their types.
LEMMA ListTypes ==
  ASSUME PlanInv, NEW l \in Lists
  PROVE  /\ lists[l].size \in Nat /\ lists[l].capacity \in Nat
         /\ lists[l].size <= lists[l].capacity
         /\ file[l] \in ListFile /\ file[l].pages \in Nat
         /\ file[l].rec \in [Slots -> Record]
         /\ dir.loc \in [Ids -> Locations \cup {Tombstone}] /\ dir.pages \in Nat
         /\ PageCount(lists[l].size) \in Nat
         /\ phase # "idle" => /\ plan.size[l] \in Nat
                              /\ plan.size[l] <= lists[l].capacity
                              /\ PageCount(plan.size[l]) \in Nat
<1>1. /\ lists[l].size \in Nat /\ lists[l].capacity \in Nat
      /\ lists[l].size <= lists[l].capacity
  BY DEF PlanInv, TypeOK, MemoryList, ListsFit
<1>2. phase # "idle" => plan.size[l] \in Nat /\ plan.size[l] <= lists[l].capacity
  BY <1>1 DEF PlanInv, BatchFits
<1>3. QED
  BY <1>1, <1>2, PageArithmetic DEF PlanInv, TypeOK, ListFile, Directory

\* A location is a list and a slot.
LEMMA LocationPair ==
  ASSUME NEW x \in Locations
  PROVE  /\ x[1] \in Lists /\ x[2] \in Slots /\ x[2] \in Nat
         /\ x = <<x[1], x[2]>>
<1>1. x[1] \in Lists /\ x[2] \in Slots /\ x = <<x[1], x[2]>>
  BY DEF Locations
<1>2. QED
  BY <1>1, SlotsNat

\* An offset the directory gives for a list is a slot of its file.
LEMMA EntrySlot ==
  ASSUME PlanInv, NEW i \in Ids, NEW l \in Lists, NEW s, dir.loc[i] = <<l, s>>
  PROVE  s \in Slots
<1>1. dir.loc[i] \in Locations \cup {Tombstone}
  BY ListTypes
<1>2. l # IdLimit
  BY NumListsAssumption, IdLimitAssumption DEF Lists
<1>3. QED
  BY <1>1, <1>2 DEF Locations, Tombstone

\* The IDs held in a list are IDs; a step that leaves told alone leaves them.
LEMMA HeldIds ==
  /\ \A l \in Lists : HeldIn(l) \subseteq Ids
  /\ told' = told => \A l \in Lists : HeldIn(l)' = HeldIn(l)
BY DEF HeldIn

\* The rows a list serves lie in its file.
LEMMA ServedSlots ==
  ASSUME PlanInv, NEW l \in Lists, RowsServed(l)
  PROVE  \A s \in 0 .. (lists[l].size - 1) : s \in Slots
<1> SUFFICES ASSUME NEW s \in 0 .. (lists[l].size - 1) PROVE s \in Slots
  OBVIOUS
<1>1. /\ file[l].rec[s].id \in HeldIn(l)
      /\ dir.loc[file[l].rec[s].id] = <<l, s>>
  BY DEF RowsServed
<1>2. QED
  BY <1>1, EntrySlot, HeldIds

\* A step that leaves the rows of a list, their lanes, their IDs and their
\* directory entries alone leaves them served.
LEMMA ServedFrame ==
  ASSUME NEW l \in Lists, RowsServed(l), HeldServed(l),
         lists[l].size \in Nat, lists'[l].size = lists[l].size,
         file'[l].pages >= PageCount(lists[l].size),
         \A s \in 0 .. (lists[l].size - 1) :
           /\ file'[l].rec[s] = file[l].rec[s]
           /\ lists'[l].lane[s] = lists[l].lane[s],
         HeldIn(l)' = HeldIn(l),
         \A i \in HeldIn(l) : /\ told'[i] = told[i]
                              /\ dir'.loc[i] = dir.loc[i]
                              /\ EntryPage(i) < dir'.pages
  PROVE  RowsServed(l)' /\ HeldServed(l)'
<1>1. RowsServed(l)'
  <2>1. file'[l].pages >= PageCount(lists'[l].size)
    BY SMTT(30)
  <2>2. ASSUME NEW s \in 0 .. (lists'[l].size - 1)
        PROVE  /\ file'[l].rec[s].id \in HeldIn(l)'
               /\ file'[l].rec[s].vec = told'[file'[l].rec[s].id]
               /\ dir'.loc[file'[l].rec[s].id] = <<l, s>>
               /\ lists'[l].lane[s] = Code[file'[l].rec[s].vec]
    <3>1. /\ file[l].rec[s].id \in HeldIn(l)
          /\ file[l].rec[s].vec = told[file[l].rec[s].id]
          /\ dir.loc[file[l].rec[s].id] = <<l, s>>
          /\ lists[l].lane[s] = Code[file[l].rec[s].vec]
      BY DEF RowsServed
    <3>2. /\ file'[l].rec[s] = file[l].rec[s]
          /\ lists'[l].lane[s] = lists[l].lane[s]
      OBVIOUS
    <3>3. QED
      BY <3>1, <3>2
  <2>3. QED
    BY <2>1, <2>2 DEF RowsServed
<1>2. HeldServed(l)'
  <2>1. ASSUME NEW i \in HeldIn(l)
        PROVE  /\ EntryPage(i) < dir'.pages /\ dir'.loc[i][1] = l
               /\ dir'.loc[i][2] \in 0 .. (lists'[l].size - 1)
               /\ file'[l].rec[dir'.loc[i][2]].id = i
    <3>1. /\ dir.loc[i][1] = l /\ dir.loc[i][2] \in 0 .. (lists[l].size - 1)
          /\ file[l].rec[dir.loc[i][2]].id = i
      BY DEF HeldServed
    <3>2. file'[l].rec[dir.loc[i][2]] = file[l].rec[dir.loc[i][2]]
      BY <3>1
    <3>3. dir'.loc[i] = dir.loc[i] /\ EntryPage(i) < dir'.pages
      OBVIOUS
    <3>4. QED
      BY <3>1, <3>2, <3>3
  <2>2. QED
    BY <2>1 DEF HeldServed
<1>3. QED
  BY <1>1, <1>2

\* A step elsewhere leaves a list consistent.
LEMMA ConsistentFrame ==
  ASSUME PlanInv, NEW k \in Lists, ListConsistent(k), UNCHANGED batchVars,
         file'[k] = file[k], stage'[k] = stage[k], todo'[k] = todo[k],
         k \in begun' <=> k \in begun
  PROVE  ListConsistent(k)'
<1>1. /\ dir' = dir /\ lists' = lists /\ told' = told /\ phase' = phase
      /\ plan' = plan /\ dirTodo' = dirTodo /\ torn' = torn
  BY DEF batchVars, callVars
<1>2. /\ Settled(k)' <=> Settled(k)
      /\ RowsServed(k)' <=> RowsServed(k)
      /\ HeldServed(k)' <=> HeldServed(k)
  BY <1>1 DEF Settled, Busy, Touched, RowsServed, HeldServed, HeldIn
<1>3. /\ Busy("insert")' <=> Busy("insert")
      /\ Busy("erase")' <=> Busy("erase")
      /\ Touched' = Touched /\ UpdatedIds' = UpdatedIds
      /\ HeldIn(k)' = HeldIn(k)
  BY <1>1 DEF Busy, Touched, UpdatedIds, HeldIn
<1>4. \A s : /\ RowWritten(k, s)' <=> RowWritten(k, s)
             /\ EntryWritten(k, s)' <=> EntryWritten(k, s)
  BY <1>1 DEF RowWritten, EntryWritten
<1>5. InsertUnderWay(k)' <=> InsertUnderWay(k)
  BY <1>1, <1>4 DEF InsertUnderWay
<1>6. EraseUnderWay(k)' <=> EraseUnderWay(k)
  <2>1. \A s : /\ PlannedRow(k, s)' = PlannedRow(k, s)
               /\ PlannedLane(k, s)' = PlannedLane(k, s)
    BY <1>1 DEF PlannedRow, PlannedLane
  <2>2. \A s : RowSurvives(k, s)' <=> RowSurvives(k, s)
    BY <1>1, <1>3, <1>4, <2>1 DEF RowSurvives
  <2>3. QED
    BY <1>1, <1>3, <2>1, <2>2 DEF EraseUnderWay
<1>7. Settled(k)' => RowsServed(k)' /\ HeldServed(k)'
  BY <1>2 DEF ListConsistent
<1>8. Busy("insert")' => InsertUnderWay(k)'
  BY <1>3, <1>5 DEF ListConsistent
<1>9. Busy("erase")' /\ k \in Touched' => EraseUnderWay(k)'
  BY <1>3, <1>6 DEF ListConsistent
<1>10. QED
  BY <1>7, <1>8, <1>9 DEF ListConsistent

(***************************************************************************)
(* The record phase: what a step on the file of one list has to leave.     *)
(***************************************************************************)
\* The step of an insert: the old rows stay, and new ones are laid down or
\* their pages are still to come.
LEMMA InsertFileStep ==
  ASSUME IndexInv, NEW l \in Lists, l \notin torn, Busy("insert"),
         UNCHANGED batchVars,
         file'[l].pages >= PageCount(lists[l].size),
         \A s \in 0 .. (lists[l].size - 1) : file'[l].rec[s] = file[l].rec[s],
         stage'[l] = "done" => file'[l].pages >= PageCount(plan.size[l]),
         \A s \in lists[l].size .. (plan.size[l] - 1) :
           <<l, s>> \in DOMAIN plan.rows => RowWritten(l, s)'
  PROVE  ListConsistent(l)'
<1>1. /\ dir' = dir /\ lists' = lists /\ told' = told /\ phase' = phase
      /\ plan' = plan /\ dirTodo' = dirTodo /\ torn' = torn
  BY DEF batchVars, callVars
<1>2. /\ Busy("insert")' /\ ~Busy("erase")' /\ ~Busy("erase")
      /\ HeldIn(l)' = HeldIn(l)
  BY <1>1 DEF Busy, HeldIn
<1>3. PlanInv /\ ListConsistent(l)
  BY DEF IndexInv
<1>4. RowsServed(l) /\ HeldServed(l) /\ InsertUnderWay(l)
  BY <1>2, <1>3 DEF ListConsistent, Settled
<1>5. RowsServed(l)' /\ HeldServed(l)'
  <2>1. \A i \in HeldIn(l) : EntryPage(i) < dir.pages
    BY <1>4 DEF HeldServed
  <2>2. lists[l].size \in Nat
    BY <1>3, ListTypes
  <2>3. QED
    BY <1>1, <1>2, <1>4, <2>1, <2>2, ServedFrame
<1>6. InsertUnderWay(l)'
  <2>1. \A s : EntryWritten(l, s)' <=> EntryWritten(l, s)
    BY <1>1 DEF EntryWritten
  <2>2. \A s \in lists[l].size .. (plan.size[l] - 1) :
          <<l, s>> \in DOMAIN plan.rows /\ RowWritten(l, s)' /\ EntryWritten(l, s)
    BY <1>4 DEF InsertUnderWay
  <2>3. QED
    BY <1>1, <2>1, <2>2 DEF InsertUnderWay
<1>7. QED
  BY <1>2, <1>5, <1>6 DEF ListConsistent

\* The step of an erase: once it has begun, only the new rows matter.
LEMMA EraseFileStep ==
  ASSUME IndexInv, NEW l \in Lists, l \notin torn, Busy("erase"), l \in Touched,
         UNCHANGED batchVars,
         l \in begun' \/ (file'[l] = file[l] /\ begun' = begun),
         file'[l].pages >= PageCount(plan.size[l]),
         \A s \in 0 .. (plan.size[l] - 1) :
           IF <<l, s>> \in DOMAIN plan.rows THEN RowWritten(l, s)'
           ELSE file'[l].rec[s] = file[l].rec[s]
  PROVE  ListConsistent(l)'
<1>1. /\ dir' = dir /\ lists' = lists /\ told' = told /\ phase' = phase
      /\ plan' = plan /\ dirTodo' = dirTodo /\ torn' = torn
  BY DEF batchVars, callVars
<1>2. /\ ~Busy("insert")' /\ Busy("erase")' /\ Touched' = Touched
      /\ UpdatedIds' = UpdatedIds /\ HeldIn(l)' = HeldIn(l)
  BY <1>1 DEF Busy, Touched, UpdatedIds, HeldIn
<1>3. PlanInv /\ ListConsistent(l)
  BY DEF IndexInv
<1>4. EraseUnderWay(l)
  BY <1>3 DEF ListConsistent
<1>5. Settled(l)' => RowsServed(l)' /\ HeldServed(l)'
  <2> SUFFICES ASSUME Settled(l)' PROVE RowsServed(l)' /\ HeldServed(l)'
    OBVIOUS
  <2>1. phase = "records" /\ l \notin begun'
    BY <1>1, <1>2 DEF Settled
  <2>2. file'[l] = file[l] /\ Settled(l)
    BY <2>1 DEF Settled
  <2>3. RowsServed(l) /\ HeldServed(l)
    BY <1>3, <2>2 DEF ListConsistent
  <2>4. \A i \in HeldIn(l) : EntryPage(i) < dir.pages
    BY <1>4 DEF EraseUnderWay
  <2>5. lists[l].size \in Nat /\ file[l].pages >= PageCount(lists[l].size)
    BY <1>3, <2>3, ListTypes DEF RowsServed
  <2>6. QED
    BY <1>1, <1>2, <2>2, <2>3, <2>4, <2>5, ServedFrame
<1>6. EraseUnderWay(l)'
  <2>1. ASSUME NEW s \in 0 .. (plan.size[l] - 1)
        PROVE  /\ PlannedRow(l, s)' = PlannedRow(l, s)
               /\ RowSurvives(l, s)'
    <3>1. /\ PlannedRow(l, s)' = PlannedRow(l, s)
          /\ PlannedLane(l, s)' = PlannedLane(l, s)
      BY <1>1 DEF PlannedRow, PlannedLane
    <3>2. EntryWritten(l, s)' <=> EntryWritten(l, s)
      BY <1>1 DEF EntryWritten
    <3>3. RowSurvives(l, s)
      BY <1>4 DEF EraseUnderWay
    <3>4. QED
      BY <1>1, <1>2, <3>1, <3>2, <3>3 DEF RowSurvives
  <2>2. QED
    BY <1>1, <1>2, <1>4, <2>1 DEF EraseUnderWay
<1>7. QED
  BY <1>2, <1>5, <1>6 DEF ListConsistent

\* PageOf is monotone.
LEMMA PageOfMonotone == \A s, t \in Nat : s <= t => PageOf(s) <= PageOf(t)
BY RecordsPerPageAssumption DEF PageOf

\* What ftruncate leaves in every slot.
LEMMA TruncateWrites ==
  ASSUME NEW f, NEW n, NEW s \in Slots
  PROVE  /\ TruncateFile(f, n).pages = n
         /\ PageOf(s) < n => TruncateFile(f, n).rec[s] = f.rec[s]
BY DEF TruncateFile

\* What a page append_records writes leaves in every slot.
LEMMA AppendWrites ==
  ASSUME NEW f \in ListFile, NEW p \in Nat, NEW rows, NEW s \in Slots
  PROVE  /\ WriteAppendPage(f, p, rows).pages >= f.pages
         /\ WriteAppendPage(f, p, rows).rec[s] =
              IF PageOf(s) = p /\ s \in DOMAIN rows THEN rows[s] ELSE f.rec[s]
BY DEF WriteAppendPage, ListFile

\* What a page append_records fails to write leaves in the other slots.
LEMMA AppendTears ==
  ASSUME NEW f \in ListFile, NEW p \in Nat, NEW rows, NEW k, NEW s \in Slots
  PROVE  /\ TearAppendPage(f, p, rows, k).pages >= f.pages
         /\ s \notin DOMAIN rows => TearAppendPage(f, p, rows, k).rec[s] = f.rec[s]
<1> DEFINE r == [t \in {u \in DOMAIN rows : u < k} |-> rows[t]]
<1>1. DOMAIN r \subseteq DOMAIN rows
  OBVIOUS
<1>2. TearAppendPage(f, p, rows, k) =
        IF p < f.pages THEN WriteAppendPage(f, p, r)
        ELSE [f EXCEPT !.ragged = TRUE]
  BY DEF TearAppendPage
<1> HIDE DEF r
<1>3. /\ [f EXCEPT !.ragged = TRUE].pages = f.pages /\ f.pages \in Nat
      /\ [f EXCEPT !.ragged = TRUE].rec = f.rec
  BY DEF ListFile
<1>4. QED
  BY <1>1, <1>2, <1>3, AppendWrites

\* What a page commit_prepared_mutation writes leaves in the slots it keeps.
LEMMA CommitWrites ==
  ASSUME NEW f \in ListFile, NEW n \in Nat, NEW p \in Nat, NEW rows,
         NEW s \in Slots, s < n
  PROVE  WriteMutatedPage(f, p, rows, n).rec[s] =
           IF PageOf(s) = p /\ s \in DOMAIN rows THEN rows[s] ELSE f.rec[s]
BY SlotsNat DEF WriteMutatedPage, ListFile

\* What a page it fails to write leaves in the other slots it keeps.
LEMMA CommitTears ==
  ASSUME NEW f \in ListFile, NEW n \in Nat, NEW p \in Nat, NEW rows, NEW k,
         NEW s \in Slots, s < n, s \notin DOMAIN rows
  PROVE  TearMutatedPage(f, p, rows, n, k).rec[s] = f.rec[s]
<1>1. TearMutatedPage(f, p, rows, n, k).rec[s] =
        IF s < k THEN WriteMutatedPage(f, p, rows, n).rec[s] ELSE f.rec[s]
  BY DEF TearMutatedPage, ListFile
<1>2. QED
  BY <1>1, CommitWrites

\* The rows a batch has for one list, by slot.
LEMMA RowsOfList ==
  ASSUME TypeOK, NEW l \in Lists
  PROVE  /\ DOMAIN RowsOf(l) \subseteq Slots
         /\ \A s : s \in DOMAIN RowsOf(l) <=> <<l, s>> \in DOMAIN plan.rows
         /\ \A s \in DOMAIN RowsOf(l) : RowsOf(l)[s] = plan.rows[<<l, s>>]
BY DEF TypeOK, RowsOf, Locations

\* What the steps on the file of a list have in common.
LEMMA ListStepFrame ==
  ASSUME TypeOK, NEW l \in Lists, ListStep(l) \/ ListFailure(l)
  PROVE  /\ phase = "records" /\ stage[l] \in {"wait", "open"}
         /\ UNCHANGED batchVars
         /\ begun \subseteq begun' /\ begun' \subseteq begun \cup {l}
         /\ plan.kind = "insert" => begun' = begun
         /\ \A k \in Lists \ {l} : /\ file'[k] = file[k] /\ stage'[k] = stage[k]
                                   /\ todo'[k] = todo[k]
<1>1. /\ file \in [Lists -> ListFile] /\ todo \in [Lists -> SUBSET Nat]
      /\ stage \in [Lists -> {"none", "wait", "open", "done", "failed"}]
  BY DEF TypeOK
<1>2. CASE AppendOpen(l) \/ AppendPage(l) \/ AppendTorn(l) \/ AppendClose(l)
  BY <1>1, <1>2 DEF AppendOpen, AppendPage, AppendTorn, AppendClose, Working,
                    Advance, batchVars
<1>3. CASE CommitOpen(l) \/ CommitPage(l) \/ CommitTorn(l) \/ CommitClose(l)
  BY <1>1, <1>3 DEF CommitOpen, CommitPage, CommitTorn, CommitClose, Working,
                    Advance, batchVars
<1>4. CASE RecordRefused(l) \/ RecordCallFails(l)
  BY <1>1, <1>4 DEF RecordRefused, RecordCallFails, Working, Advance, batchVars
<1>5. QED
  BY <1>2, <1>3, <1>4 DEF ListStep, ListFailure

\* A step of append_records keeps its own list consistent.
LEMMA AppendConsistent ==
  ASSUME IndexInv, NEW l \in Lists, l \notin torn, plan.kind = "insert",
         ListStep(l) \/ ListFailure(l)
  PROVE  ListConsistent(l)'
<1>1. /\ PlanInv /\ TypeOK /\ ListConsistent(l)
  BY DEF IndexInv, PlanInv
<1>2. phase = "records" /\ UNCHANGED batchVars
  BY <1>1, ListStepFrame
<1>3. plan' = plan /\ lists' = lists
  BY <1>2 DEF batchVars, callVars
<1>4. Busy("insert") /\ ~Busy("erase")
  BY <1>2 DEF Busy
<1>5. RowsServed(l) /\ InsertUnderWay(l)
  BY <1>1, <1>4 DEF ListConsistent, Settled
<1>6. /\ lists[l].size \in Nat /\ plan.size[l] \in Nat
      /\ PageCount(lists[l].size) \in Nat /\ PageCount(plan.size[l]) \in Nat
      /\ file[l] \in ListFile /\ file[l].pages \in Nat
      /\ file[l].pages >= PageCount(lists[l].size)
      /\ PageCount(lists[l].size) <= PageCount(plan.size[l])
  BY <1>1, <1>2, <1>4, <1>5, ListTypes, PageArithmetic
     DEF RowsServed, PlanInv, InsertFits
<1>7. file \in [Lists -> ListFile] /\ todo \in [Lists -> SUBSET Nat]
      /\ stage \in [Lists -> {"none", "wait", "open", "done", "failed"}]
  BY <1>1 DEF TypeOK
<1>8. ASSUME NEW s \in 0 .. (lists[l].size - 1)
      PROVE  /\ s \in Slots /\ s \in Nat /\ s \notin DOMAIN RowsOf(l)
             /\ PageOf(s) \in Nat /\ PageOf(s) < PageCount(lists[l].size)
             /\ PageOf(s) < PageCount(plan.size[l])
  <2>1. s \in Slots
    BY <1>1, <1>5, ServedSlots
  <2>2. <<l, s>> \notin DOMAIN plan.rows
    BY <1>1, <1>4, <1>6 DEF PlanInv, InsertFits
  <2>3. s \notin DOMAIN RowsOf(l)
    BY <1>1, <2>2, RowsOfList
  <2>4. s \in Nat /\ s < lists[l].size
    BY <1>6
  <2>5. PageOf(s) \in Nat /\ PageOf(s) < PageCount(lists[l].size)
    BY <1>6, <2>4, PageArithmetic
  <2>6. QED
    BY <1>6, <2>1, <2>3, <2>4, <2>5
<1>9. ASSUME NEW s \in lists[l].size .. (plan.size[l] - 1),
             <<l, s>> \in DOMAIN plan.rows
      PROVE  /\ s \in Slots /\ s \in Nat /\ s \in DOMAIN RowsOf(l)
             /\ RowsOf(l)[s] = plan.rows[<<l, s>>]
             /\ PageOf(s) \in Nat /\ PageOf(s) < PageCount(plan.size[l])
             /\ PageOf(lists[l].size) <= PageOf(s)
             /\ RowWritten(l, s)
  <2>1. s \in DOMAIN RowsOf(l) /\ RowsOf(l)[s] = plan.rows[<<l, s>>]
        /\ s \in Slots
    BY <1>1, <1>9, RowsOfList
  <2>2. s \in Nat /\ lists[l].size <= s /\ s < plan.size[l]
    BY <1>6
  <2>3. RowWritten(l, s)
    BY <1>5 DEF InsertUnderWay
  <2>4. QED
    BY <1>6, <2>1, <2>2, <2>3, PageArithmetic, PageOfMonotone
<1>10. CASE AppendOpen(l)
  <2>1. /\ file'[l] = TruncateFile(file[l], PageCount(lists[l].size))
        /\ todo'[l] = AppendPages(lists[l].size, plan.size[l])
        /\ stage'[l] = "open"
    BY <1>7, <1>10 DEF AppendOpen, Advance
  <2>2. \A s \in 0 .. (lists[l].size - 1) : file'[l].rec[s] = file[l].rec[s]
    BY <1>6, <1>8, <2>1, TruncateWrites
  <2>3. file'[l].pages >= PageCount(lists[l].size)
    BY <1>6, <2>1 DEF TruncateFile
  <2>4. ASSUME NEW s \in lists[l].size .. (plan.size[l] - 1),
               <<l, s>> \in DOMAIN plan.rows
        PROVE  RowWritten(l, s)'
    <3>1. /\ PageOf(s) \in Nat /\ PageOf(s) < PageCount(plan.size[l])
          /\ PageOf(lists[l].size) <= PageOf(s) /\ PageOf(lists[l].size) \in Nat
      BY <1>6, <1>9, <2>4, PageArithmetic
    <3>2. PageOf(s) \in todo'[l]
      BY <1>6, <2>1, <3>1 DEF AppendPages
    <3>3. QED
      BY <2>1, <3>2 DEF RowWritten
  <2>5. QED
    BY <1>2, <1>4, <2>1, <2>2, <2>3, <2>4, InsertFileStep
<1>11. CASE AppendPage(l)
  <2>1. PICK p \in todo[l] :
          /\ file'[l] = WriteAppendPage(file[l], p, RowsOf(l))
          /\ todo'[l] = todo[l] \ {p}
    BY <1>7, <1>11 DEF AppendPage
  <2>2. stage' = stage /\ stage[l] = "open" /\ p \in Nat
    BY <1>7, <1>11 DEF AppendPage, Working
  <2>3. \A s \in 0 .. (lists[l].size - 1) : file'[l].rec[s] = file[l].rec[s]
    BY <1>6, <1>8, <2>1, <2>2, AppendWrites
  <2>4. file'[l].pages >= PageCount(lists[l].size)
    <3>1. file'[l].pages >= file[l].pages /\ file'[l].pages \in Nat
      BY <1>6, <2>1, <2>2 DEF WriteAppendPage
    <3>2. QED
      BY <1>6, <3>1
  <2>5. ASSUME NEW s \in lists[l].size .. (plan.size[l] - 1),
               <<l, s>> \in DOMAIN plan.rows
        PROVE  RowWritten(l, s)'
    <3>1. /\ s \in Slots /\ s \in DOMAIN RowsOf(l)
          /\ RowsOf(l)[s] = plan.rows[<<l, s>>] /\ RowWritten(l, s)
      BY <1>9, <2>5
    <3>2. file'[l].rec[s] = IF PageOf(s) = p THEN plan.rows[<<l, s>>]
                            ELSE file[l].rec[s]
      BY <1>6, <2>1, <2>2, <3>1, AppendWrites
    <3>3. QED
      BY <1>3, <2>1, <2>2, <3>1, <3>2 DEF RowWritten
  <2>6. QED
    BY <1>2, <1>4, <2>2, <2>3, <2>4, <2>5, InsertFileStep
<1>12. CASE AppendTorn(l)
  <2>1. PICK p \in todo[l], j \in Slots :
          file'[l] = TearAppendPage(file[l], p, RowsOf(l), j)
    BY <1>7, <1>12 DEF AppendTorn
  <2>2. stage'[l] = "failed" /\ p \in Nat
    BY <1>7, <1>12 DEF AppendTorn, Advance
  <2>3. \A s \in 0 .. (lists[l].size - 1) : file'[l].rec[s] = file[l].rec[s]
    BY <1>6, <1>8, <2>1, <2>2, AppendTears
  <2>4. file'[l].pages >= PageCount(lists[l].size)
    <3>1. file'[l].pages \in Nat /\ file'[l].pages >= file[l].pages
      BY <1>6, <2>1, <2>2 DEF TearAppendPage, WriteAppendPage, ListFile
    <3>2. QED
      BY <1>6, <3>1
  <2>5. \A s : RowWritten(l, s)'
    BY <2>2 DEF RowWritten
  <2>6. QED
    BY <1>2, <1>4, <2>2, <2>3, <2>4, <2>5, InsertFileStep
<1>13. CASE AppendClose(l)
  <2>1. /\ file'[l] = TruncateFile(file[l], PageCount(plan.size[l]))
        /\ todo[l] = {} /\ stage[l] = "open" /\ stage'[l] = "done"
    BY <1>7, <1>13 DEF AppendClose, Advance, Working
  <2>2. \A s \in 0 .. (lists[l].size - 1) : file'[l].rec[s] = file[l].rec[s]
    BY <1>6, <1>8, <2>1, TruncateWrites
  <2>3. /\ file'[l].pages >= PageCount(plan.size[l])
        /\ file'[l].pages >= PageCount(lists[l].size)
    BY <1>6, <2>1 DEF TruncateFile
  <2>4. ASSUME NEW s \in lists[l].size .. (plan.size[l] - 1),
               <<l, s>> \in DOMAIN plan.rows
        PROVE  RowWritten(l, s)'
    <3>1. s \in Slots /\ PageOf(s) < PageCount(plan.size[l]) /\ RowWritten(l, s)
      BY <1>9, <2>4
    <3>2. file[l].rec[s] = plan.rows[<<l, s>>]
      BY <2>1, <3>1 DEF RowWritten
    <3>3. file'[l].rec[s] = file[l].rec[s]
      BY <1>6, <2>1, <3>1, TruncateWrites
    <3>4. QED
      BY <1>3, <2>1, <3>2, <3>3 DEF RowWritten
  <2>5. QED
    BY <1>2, <1>4, <2>2, <2>3, <2>4, InsertFileStep
<1>14. CASE RecordRefused(l) \/ RecordCallFails(l)
  <2>1. file' = file /\ stage'[l] = "failed"
    BY <1>7, <1>14 DEF RecordRefused, RecordCallFails, Advance
  <2>2. \A s : RowWritten(l, s)'
    BY <2>1 DEF RowWritten
  <2>3. QED
    BY <1>2, <1>4, <1>6, <2>1, <2>2, InsertFileStep
<1>15. QED
  BY <1>10, <1>11, <1>12, <1>13, <1>14 DEF ListStep, ListFailure, CommitOpen,
     CommitPage, CommitClose, CommitTorn, Working

\* A step of commit_prepared_mutation keeps its own list consistent.
LEMMA CommitConsistent ==
  ASSUME IndexInv, NEW l \in Lists, l \notin torn, plan.kind = "erase",
         ListStep(l) \/ ListFailure(l)
  PROVE  ListConsistent(l)'
<1>1. /\ PlanInv /\ TypeOK /\ ListConsistent(l)
  BY DEF IndexInv, PlanInv
<1>2. /\ phase = "records" /\ UNCHANGED batchVars
      /\ stage[l] \in {"wait", "open"} /\ begun' \subseteq begun \cup {l}
      /\ begun \subseteq begun'
  BY <1>1, ListStepFrame
<1>3. plan' = plan /\ lists' = lists
  BY <1>2 DEF batchVars, callVars
<1>4. Busy("erase") /\ l \in Touched
  BY <1>1, <1>2 DEF Busy, Touched, PlanInv, BatchFits
<1>5. EraseUnderWay(l)
  BY <1>1, <1>4 DEF ListConsistent
<1>6. /\ plan.size[l] \in Nat /\ PageCount(plan.size[l]) \in Nat
      /\ file[l] \in ListFile /\ file[l].pages \in Nat
      /\ file[l].pages >= PageCount(plan.size[l])
  BY <1>1, <1>2, <1>5, ListTypes DEF EraseUnderWay
<1>7. file \in [Lists -> ListFile] /\ todo \in [Lists -> SUBSET Nat]
      /\ stage \in [Lists -> {"none", "wait", "open", "done", "failed"}]
  BY <1>1 DEF TypeOK
<1>8. ASSUME NEW s \in 0 .. (plan.size[l] - 1)
      PROVE  /\ s \in Slots /\ s < plan.size[l]
             /\ PageOf(s) < PageCount(plan.size[l])
             /\ s \in DOMAIN RowsOf(l) <=> <<l, s>> \in DOMAIN plan.rows
             /\ <<l, s>> \in DOMAIN plan.rows =>
                  RowsOf(l)[s] = plan.rows[<<l, s>>] /\ RowWritten(l, s)
  <2>1. /\ s \in DOMAIN RowsOf(l) <=> <<l, s>> \in DOMAIN plan.rows
        /\ s \in DOMAIN RowsOf(l) => s \in Slots
        /\ s \in DOMAIN RowsOf(l) => RowsOf(l)[s] = plan.rows[<<l, s>>]
    BY <1>1, RowsOfList
  <2>2. RowSurvives(l, s)
    BY <1>5 DEF EraseUnderWay
  <2>3. s \in Slots
    <3>1. CASE <<l, s>> \in DOMAIN plan.rows
      BY <2>1, <3>1
    <3>2. CASE <<l, s>> \notin DOMAIN plan.rows
      <4>1. /\ PlannedRow(l, s).id \in HeldIn(l)
            /\ dir.loc[PlannedRow(l, s).id] = <<l, s>>
        BY <2>2, <3>2 DEF RowSurvives
      <4>2. QED
        BY <1>1, <4>1, EntrySlot, HeldIds
    <3>3. QED
      BY <3>1, <3>2
  <2>4. s \in Nat /\ s < plan.size[l]
    BY <1>6
  <2>5. PageOf(s) < PageCount(plan.size[l])
    BY <1>6, <2>4, PageArithmetic
  <2>6. QED
    BY <2>1, <2>2, <2>3, <2>4, <2>5 DEF RowSurvives
<1>9. CASE CommitOpen(l)
  <2>1. /\ file' = file /\ begun' = begun /\ stage'[l] = "open"
        /\ todo'[l] = MutationPages(plan.size[l], RowsOf(l))
    BY <1>7, <1>9 DEF CommitOpen, Advance
  <2>2. ASSUME NEW s \in 0 .. (plan.size[l] - 1), <<l, s>> \in DOMAIN plan.rows
        PROVE  RowWritten(l, s)'
    <3>1. PageOf(s) \in todo'[l]
      BY <1>8, <2>1, <2>2 DEF MutationPages
    <3>2. QED
      BY <2>1, <3>1 DEF RowWritten
  <2>3. QED
    BY <1>2, <1>4, <1>6, <2>1, <2>2, EraseFileStep
<1>10. CASE CommitPage(l)
  <2>1. PICK p \in todo[l] :
          /\ file'[l] = WriteMutatedPage(file[l], p, RowsOf(l), plan.size[l])
          /\ todo'[l] = todo[l] \ {p}
    BY <1>7, <1>10 DEF CommitPage
  <2>2. stage' = stage /\ stage[l] = "open" /\ p \in Nat /\ l \in begun'
    BY <1>7, <1>10 DEF CommitPage, Working
  <2>3. file'[l].pages = file[l].pages
    BY <1>6, <2>1 DEF WriteMutatedPage, ListFile
  <2>4. ASSUME NEW s \in 0 .. (plan.size[l] - 1)
        PROVE  IF <<l, s>> \in DOMAIN plan.rows THEN RowWritten(l, s)'
               ELSE file'[l].rec[s] = file[l].rec[s]
    <3>1. file'[l].rec[s] =
            IF PageOf(s) = p /\ <<l, s>> \in DOMAIN plan.rows
            THEN plan.rows[<<l, s>>] ELSE file[l].rec[s]
      BY <1>6, <1>8, <2>1, <2>2, CommitWrites
    <3>2. <<l, s>> \in DOMAIN plan.rows => RowWritten(l, s)
      BY <1>8
    <3>3. QED
      BY <1>3, <2>1, <2>2, <3>1, <3>2 DEF RowWritten
  <2>5. QED
    BY <1>2, <1>4, <1>6, <2>2, <2>3, <2>4, EraseFileStep
<1>11. CASE CommitTorn(l)
  <2>1. PICK p \in todo[l], j \in Slots :
          file'[l] = TearMutatedPage(file[l], p, RowsOf(l), plan.size[l], j)
    BY <1>7, <1>11 DEF CommitTorn
  <2>2. stage'[l] = "failed" /\ p \in Nat /\ l \in begun'
    BY <1>7, <1>11 DEF CommitTorn, Advance
  <2>3. file'[l].pages = file[l].pages
    BY <1>6, <2>1 DEF TearMutatedPage, ListFile
  <2>4. ASSUME NEW s \in 0 .. (plan.size[l] - 1)
        PROVE  IF <<l, s>> \in DOMAIN plan.rows THEN RowWritten(l, s)'
               ELSE file'[l].rec[s] = file[l].rec[s]
    <3>1. RowWritten(l, s)'
      BY <2>2 DEF RowWritten
    <3>2. <<l, s>> \notin DOMAIN plan.rows => file'[l].rec[s] = file[l].rec[s]
      BY <1>6, <1>8, <2>1, <2>2, CommitTears
    <3>3. QED
      BY <3>1, <3>2
  <2>5. QED
    BY <1>2, <1>4, <1>6, <2>2, <2>3, <2>4, EraseFileStep
<1>12. CASE CommitClose(l)
  <2>1. /\ file'[l] = TruncateFile(file[l], PageCount(plan.size[l]))
        /\ todo[l] = {} /\ stage[l] = "open" /\ stage'[l] = "done"
        /\ l \in begun'
    BY <1>7, <1>12 DEF CommitClose, Advance, Working
  <2>2. ASSUME NEW s \in 0 .. (plan.size[l] - 1)
        PROVE  file'[l].rec[s] = file[l].rec[s]
    <3>1. s \in Slots /\ PageOf(s) < PageCount(plan.size[l])
      BY <1>8
    <3>2. QED
      BY <2>1, <3>1, TruncateWrites
  <2>3. file'[l].pages >= PageCount(plan.size[l])
    BY <1>6, <2>1 DEF TruncateFile
  <2>4. ASSUME NEW s \in 0 .. (plan.size[l] - 1), <<l, s>> \in DOMAIN plan.rows
        PROVE  RowWritten(l, s)'
    <3>1. file[l].rec[s] = plan.rows[<<l, s>>]
      BY <1>8, <2>1, <2>4 DEF RowWritten
    <3>2. QED
      BY <1>3, <2>1, <2>2, <3>1 DEF RowWritten
  <2>5. QED
    BY <1>2, <1>4, <2>1, <2>2, <2>3, <2>4, EraseFileStep
<1>13. CASE RecordRefused(l) \/ RecordCallFails(l)
  <2>1. file' = file /\ begun' = begun /\ stage'[l] = "failed"
    BY <1>7, <1>13 DEF RecordRefused, RecordCallFails, Advance
  <2>2. \A s : RowWritten(l, s)'
    BY <2>1 DEF RowWritten
  <2>3. QED
    BY <1>2, <1>4, <1>6, <2>1, <2>2, EraseFileStep
<1>14. QED
  BY <1>9, <1>10, <1>11, <1>12, <1>13 DEF ListStep, ListFailure, AppendOpen,
     AppendPage, AppendClose, AppendTorn, Working

\* Every step on a record file preserves IndexInv.
LEMMA IndexInvListStep ==
  ASSUME IndexInv, NEW l \in Lists, ListStep(l) \/ ListFailure(l)
  PROVE  IndexInv'
<1>1. PlanInv /\ TypeOK /\ UpdatesApart
  BY DEF IndexInv, PlanInv
<1>2. PlanInv'
  BY <1>1, PlanInvListStep
<1>3. /\ phase = "records" /\ UNCHANGED batchVars
      /\ begun \subseteq begun' /\ begun' \subseteq begun \cup {l}
      /\ \A k \in Lists \ {l} : /\ file'[k] = file[k] /\ stage'[k] = stage[k]
                                /\ todo'[k] = todo[k]
  BY <1>1, ListStepFrame
<1>4. UpdatesApart'
  <2>1. /\ phase' = phase /\ plan' = plan /\ lists' = lists /\ told' = told
        /\ torn' = torn
    BY <1>3 DEF batchVars, callVars
  <2>2. Touched' = Touched /\ UpdatedIds' = UpdatedIds
    BY <2>1 DEF Touched, UpdatedIds
  <2>3. \A k \in Lists : HeldIn(k)' = HeldIn(k)
    BY <2>1, HeldIds
  <2>4. QED
    BY <1>1, <2>1, <2>2, <2>3 DEF UpdatesApart
<1>5. ASSUME NEW k \in Lists, k \notin torn
      PROVE  ListConsistent(k)'
  <2>1. CASE k # l
    BY <1>1, <1>3, <1>5, <2>1, ConsistentFrame DEF IndexInv
  <2>2. CASE k = l
    <3>1. plan.kind = "insert" \/ plan.kind = "erase"
      BY <1>1, <1>3 DEF PlanInv, TypeOK, BatchFits
    <3>2. QED
      BY <1>5, <2>2, <3>1, AppendConsistent, CommitConsistent
  <2>3. QED
    BY <2>1, <2>2
<1>6. torn' = torn
  BY <1>3 DEF batchVars
<1>7. QED
  BY <1>2, <1>4, <1>5, <1>6 DEF IndexInv

(***************************************************************************)
(* The first step of a batch.                                              *)
(***************************************************************************)
\* With the lock free, every list no failed erase has torn is served.
LEMMA IdleServed ==
  ASSUME IndexInv, phase = "idle", NEW l \in Lists, l \notin torn
  PROVE  RowsServed(l) /\ HeldServed(l)
BY DEF IndexInv, ListConsistent, Settled, Busy

\* Beginning an insert preserves IndexInv: its rows are all still to come.
LEMMA IndexInvInsert ==
  ASSUME IndexInv, Insert
  PROVE  IndexInv'
<1>1. PlanInv /\ PlanInv'
  BY PlanInvInsert DEF IndexInv
<1>2. PICK n \in 1 .. MaxBatch : \E v \in [1 .. n -> Vecs] : InsertBegin(n, v)
  BY DEF Insert
<1>3. PICK vecs \in [1 .. n -> Vecs] : InsertBegin(n, vecs)
  BY <1>2
<1> DEFINE touched == {Assign[vecs[i]] : i \in 1 .. n}
           reserved == [l \in Lists |-> IF l \in touched
                          THEN Reserve(lists[l], GrownSize(vecs, l))
                          ELSE lists[l]]
<1>4. PICK slot \in [1 .. n -> Slots] :
        /\ IsPlacement(vecs, slot)
        /\ lists' = reserved
        /\ BeginBatch(InsertPlan(vecs, slot), touched)
  BY <1>3, Zenon DEF InsertBegin
<1>5. /\ n <= IdLimit - next_id /\ phase = "idle"
      /\ file' = file /\ dir' = dir /\ told' = told /\ torn' = torn
  BY <1>3 DEF InsertBegin, IdsLeft
<1> DEFINE rows == InsertRows(vecs, slot)
<1>6. /\ DOMAIN rows \subseteq Locations
      /\ \A x \in DOMAIN rows :
           /\ rows[x].id \in next_id .. (next_id + n - 1)
           /\ lists[x[1]].size <= x[2] /\ x[2] < GrownSize(vecs, x[1])
      /\ \A l \in Lists :
           \A s \in lists[l].size .. (GrownSize(vecs, l) - 1) :
             <<l, s>> \in DOMAIN rows
      /\ \A l \in Lists : /\ GrownSize(vecs, l) \in Nat
                          /\ lists[l].size <= GrownSize(vecs, l)
  BY <1>1, <1>4, <1>5, InsertPlanFacts
<1>7. /\ phase' = "records"
      /\ stage' = [l \in Lists |-> IF l \in touched THEN "wait" ELSE "none"]
      /\ plan' = InsertPlan(vecs, slot)
      /\ dirTodo' = {EntryPage(i) : i \in InsertPlan(vecs, slot).erased \cup
             {InsertPlan(vecs, slot).rows[x].id :
                x \in DOMAIN InsertPlan(vecs, slot).rows}}
  BY <1>4 DEF BeginBatch
<1> HIDE DEF touched, rows
<1>8. /\ plan'.kind = "insert" /\ plan'.erased = {} /\ plan'.rows = rows
      /\ plan'.size = [l \in Lists |-> GrownSize(vecs, l)]
      /\ dirTodo' = {EntryPage(rows[x].id) : x \in DOMAIN rows}
  BY <1>7 DEF InsertPlan, rows
<1>9. ASSUME NEW l \in Lists
      PROVE  /\ lists[l].size \in Nat /\ lists'[l].size = lists[l].size
             /\ \A s \in Slots :
                  s < lists[l].size => lists'[l].lane[s] = lists[l].lane[s]
  <2>1. /\ lists[l] \in MemoryList /\ lists[l].size \in Nat
        /\ lists[l].capacity \in Nat /\ lists[l].size <= lists[l].capacity
    BY <1>1, ListTypes DEF PlanInv, TypeOK
  <2>2. CASE l \in touched
    <3>1. /\ GrownSize(vecs, l) <= RoundUp(GrownSize(vecs, l))
          /\ RoundUp(GrownSize(vecs, l)) \in Nat
          /\ lists[l].size <= GrownSize(vecs, l) /\ GrownSize(vecs, l) \in Nat
      BY <1>6, RoundUpBound
    <3>2. lists'[l] = Reserve(lists[l], GrownSize(vecs, l))
      BY <1>4, <2>2
    <3>3. QED
      BY <2>1, <3>1, <3>2, SlotsNat DEF Reserve, MemoryList
  <2>3. CASE l \notin touched
    BY <1>4, <2>1, <2>3
  <2>4. QED
    BY <2>2, <2>3
<1>10. UpdatesApart'
  <2>1. \A x \in DOMAIN plan'.rows : x[1] \in Touched'
    <3>1. ASSUME NEW x \in DOMAIN rows
          PROVE  x[1] \in Lists /\ GrownSize(vecs, x[1]) # lists'[x[1]].size
      <4>1. x[1] \in Lists /\ x[2] \in Nat
        BY <1>6, SlotsNat DEF Locations
      <4>2. QED
        BY <1>6, <1>9, <4>1
    <3>2. QED
      BY <1>8, <3>1 DEF Touched
  <2>2. ASSUME NEW i \in UpdatedIds', NEW l \in Lists PROVE i \notin HeldIn(l)'
    <3>1. i \in next_id .. (next_id + n - 1) /\ next_id \in Nat
      BY <1>1, <1>6, <1>8, IdLimitAssumption DEF UpdatedIds, PlanInv, TypeOK
    <3>2. \A j \in Ids : told[j] # Absent => j < next_id
      BY <1>1 DEF PlanInv, ListsFit
    <3>3. QED
      BY <1>5, <3>1, <3>2 DEF HeldIn
  <2>3. QED
    BY <2>1, <2>2 DEF UpdatesApart
<1>11. ASSUME NEW l \in Lists, l \notin torn
       PROVE  ListConsistent(l)'
  <2>1. RowsServed(l)' /\ HeldServed(l)'
    <3>1. RowsServed(l) /\ HeldServed(l)
      BY <1>5, <1>11, IdleServed
    <3>2. /\ HeldIn(l)' = HeldIn(l)
          /\ \A i \in HeldIn(l) : EntryPage(i) < dir'.pages
          /\ file'[l].pages >= PageCount(lists[l].size)
      BY <1>5, <3>1, HeldIds DEF HeldServed, RowsServed
    <3>3. \A s \in 0 .. (lists[l].size - 1) :
            /\ file'[l].rec[s] = file[l].rec[s]
            /\ lists'[l].lane[s] = lists[l].lane[s]
      <4> SUFFICES ASSUME NEW s \in 0 .. (lists[l].size - 1)
                   PROVE  /\ file'[l].rec[s] = file[l].rec[s]
                          /\ lists'[l].lane[s] = lists[l].lane[s]
        OBVIOUS
      <4>1. s \in Slots /\ s < lists[l].size
        BY <1>1, <1>9, <3>1, ServedSlots
      <4>2. QED
        BY <1>5, <1>9, <4>1
    <3>4. QED
      BY <1>5, <1>9, <3>1, <3>2, <3>3, ServedFrame
  <2>2. InsertUnderWay(l)'
    <3>1. stage'[l] \in {"wait", "none"}
      BY <1>7
    <3>2. ASSUME NEW s \in lists[l].size .. (GrownSize(vecs, l) - 1)
          PROVE  /\ <<l, s>> \in DOMAIN plan'.rows /\ RowWritten(l, s)'
                 /\ EntryWritten(l, s)'
      <4>1. <<l, s>> \in DOMAIN rows
        BY <1>6
      <4>2. RowWritten(l, s)'
        BY <3>1 DEF RowWritten
      <4>3. EntryWritten(l, s)'
        BY <1>8, <4>1 DEF EntryWritten
      <4>4. QED
        BY <1>8, <4>1, <4>2, <4>3
    <3>3. QED
      BY <1>8, <1>9, <3>1, <3>2 DEF InsertUnderWay
  <2>3. ~Busy("erase")'
    BY <1>8 DEF Busy
  <2>4. QED
    BY <2>1, <2>2, <2>3 DEF ListConsistent
<1>12. QED
  BY <1>1, <1>5, <1>10, <1>11 DEF IndexInv

\* Beginning an erase preserves IndexInv: the swap plan keeps every row that is
\* not erased, and moves only rows that are served.
LEMMA IndexInvErase ==
  ASSUME IndexInv, Erase
  PROVE  IndexInv'
<1>1. PlanInv /\ PlanInv'
  BY PlanInvErase DEF IndexInv
<1>2. PICK E \in SUBSET Ids : EraseBegin(E)
  BY DEF Erase
<1>3. /\ phase = "idle" /\ EraseAccepted(E)
      /\ file' = file /\ dir' = dir /\ lists' = lists /\ told' = told
      /\ torn' = torn
  BY <1>2 DEF EraseBegin, callVars
<1>4. PICK from \in [Holes(E) -> Sources(E)] :
        /\ IsMovePlan(E, from)
        /\ BeginBatch(ErasePlan(E, from), ErasedLists(E))
  BY <1>2 DEF EraseBegin
<1> DEFINE H == Holes(E)
           L == ErasedLists(E)
           rows == [h \in H |-> RecordAt(from[h])]
           shrunk == [l \in Lists |-> ShrunkSize(E, l)]
<1>5. ASSUME NEW l \in Lists
      PROVE  /\ lists[l].size \in Nat
             /\ shrunk[l] \in Nat /\ shrunk[l] <= lists[l].size
             /\ shrunk[l] = lists[l].size <=> l \notin L
  BY <1>1, <1>3, <1>4, ErasePlanFacts, ListTypes, SMTT(30)
<1>6. ASSUME NEW h \in H
      PROVE  /\ h \in Locations /\ h[1] \in Lists /\ h[2] < shrunk[h[1]]
             /\ from[h] \in Sources(E) /\ from[h][1] = h[1]
             /\ rows[h] = file[h[1]].rec[from[h][2]]
             /\ rows[h].id \notin E /\ dir.loc[rows[h].id] = from[h]
             /\ rows[h] \in Record
  <2>1. /\ h \in Locations /\ h[2] < ShrunkSize(E, h[1])
        /\ from[h] \in Sources(E) /\ from[h][1] = h[1]
        /\ RecordAt(from[h]) \in Record
        /\ dir.loc[RecordAt(from[h]).id] = from[h]
        /\ RecordAt(from[h]).id \notin E
    BY <1>1, <1>3, <1>4, ErasePlanFacts
  <2>2. h[1] \in Lists
    BY <2>1 DEF Locations
  <2>3. QED
    BY <2>1, <2>2 DEF RecordAt
<1>7. ASSUME NEW x \in Sources(E)
      PROVE  /\ x = <<x[1], x[2]>> /\ x[1] \in Lists /\ x[2] \in Nat
             /\ shrunk[x[1]] <= x[2] /\ x[2] < lists[x[1]].size
  <2>1. x = <<x[1], x[2]>> /\ x[1] \in Lists /\ x[2] \in Nat
    <3>1. x \in Locations
      BY DEF Sources
    <3>2. QED
      BY <3>1, LocationPair
  <2>2. ShrunkSize(E, x[1]) <= x[2] /\ x[2] < lists[x[1]].size
    BY DEF Sources
  <2>3. QED
    BY <2>1, <2>2
<1>8. ASSUME NEW l \in Lists, NEW s \in 0 .. (shrunk[l] - 1)
      PROVE  <<l, s>> \in H <=> \E i \in E : dir.loc[i] = <<l, s>>
  BY <1>5 DEF Holes, ErasedLocations
<1>9. ASSUME NEW l \in Lists, NEW s \in shrunk[l] .. (lists[l].size - 1),
             s \in Slots, l \in L, \A i \in E : dir.loc[i] # <<l, s>>
      PROVE  \E h \in H : from[h] = <<l, s>>
  <2>1. <<l, s>> \in Sources(E)
    BY <1>5, <1>9 DEF Sources, Locations, ErasedLocations
  <2>2. {from[h] : h \in Holes(E)} = Sources(E)
    BY <1>4 DEF IsMovePlan
  <2>3. QED
    BY <2>1, <2>2
<1>10. \A i \in E : dir.loc[i][1] \in L /\ RecordAt(dir.loc[i]).id = i
  BY <1>3 DEF ErasedLists, EraseAccepted, RecordsConfirmErase
<1>11. /\ phase' = "records" /\ begun' = {}
       /\ stage' = [l \in Lists |-> IF l \in L THEN "wait" ELSE "none"]
       /\ plan' = ErasePlan(E, from)
       /\ dirTodo' = {EntryPage(i) : i \in ErasePlan(E, from).erased \cup
              {ErasePlan(E, from).rows[x].id :
                 x \in DOMAIN ErasePlan(E, from).rows}}
  BY <1>4 DEF BeginBatch
<1>12. /\ plan'.kind = "erase" /\ plan'.erased = E
       /\ plan'.rows = rows /\ DOMAIN rows = H /\ plan'.size = shrunk
       /\ plan'.codes = [h \in H |-> lists[h[1]].lane[from[h][2]]]
  BY <1>11 DEF ErasePlan
<1>13. \A h \in H : EntryPage(rows[h].id) \in dirTodo'
  <2>1. dirTodo' = {EntryPage(i) : i \in plan'.erased \cup
                      {plan'.rows[x].id : x \in DOMAIN plan'.rows}}
    BY <1>11
  <2> HIDE DEF H, rows
  <2>2. dirTodo' = {EntryPage(i) : i \in E \cup {rows[h].id : h \in H}}
    BY <1>12, <2>1
  <2>3. QED
    BY <2>2
<1>14. L \subseteq Lists /\ E \subseteq Ids
  BY <1>1, <1>3, <1>4, ErasePlanFacts
<1> HIDE DEF H, L, rows, shrunk
<1>15. Touched' = L
  BY <1>3, <1>5, <1>12, <1>14 DEF Touched
<1>16. UpdatedIds' = E \cup {rows[h].id : h \in H}
  BY <1>12 DEF UpdatedIds
<1>17. UpdatesApart'
  <2>1. ASSUME NEW h \in H PROVE h[1] \in L
    <3>1. from[h][1] = h[1] /\ h[1] \in Lists
      BY <1>6
    <3>2. shrunk[h[1]] <= from[h][2] /\ from[h][2] < lists[h[1]].size
          /\ from[h][2] \in Nat
      BY <1>6, <1>7, <3>1
    <3>3. QED
      BY <1>5, <3>1, <3>2
  <2>2. ASSUME NEW i \in UpdatedIds', NEW l \in Lists, l \notin torn, l \notin L
        PROVE  i \notin HeldIn(l)'
    <3> SUFFICES ASSUME i \in HeldIn(l) PROVE FALSE
      BY <1>3, HeldIds
    <3>1. dir.loc[i][1] = l
      BY <1>3, <2>2, IdleServed DEF HeldServed
    <3>2. CASE i \in E
      BY <1>10, <2>2, <3>1, <3>2
    <3>3. CASE \E h \in H : i = rows[h].id
      BY <1>6, <2>1, <2>2, <3>1, <3>3
    <3>4. QED
      BY <1>16, <3>2, <3>3
  <2>3. QED
    BY <1>3, <1>12, <1>15, <2>1, <2>2 DEF UpdatesApart
<1>18. ASSUME NEW l \in Lists, l \notin torn
       PROVE  ListConsistent(l)'
  <2>1. RowsServed(l) /\ HeldServed(l)
    BY <1>3, <1>18, IdleServed
  <2>2. /\ \A i \in HeldIn(l) : EntryPage(i) < dir.pages
        /\ HeldIn(l)' = HeldIn(l)
        /\ file[l].pages >= PageCount(lists[l].size)
    BY <1>3, <2>1, HeldIds DEF HeldServed, RowsServed
  <2>3. RowsServed(l)' /\ HeldServed(l)'
    BY <1>3, <1>5, <2>1, <2>2, ServedFrame
  <2>4. ASSUME NEW s \in 0 .. (lists[l].size - 1)
        PROVE  /\ file[l].rec[s].id \in HeldIn(l)
               /\ file[l].rec[s].vec = told[file[l].rec[s].id]
               /\ dir.loc[file[l].rec[s].id] = <<l, s>>
               /\ lists[l].lane[s] = Code[file[l].rec[s].vec]
               /\ s \in Slots
    BY <1>1, <2>1, ServedSlots DEF RowsServed
  <2>5. ASSUME l \in L PROVE EraseUnderWay(l)'
    <3>1. file[l].pages >= PageCount(shrunk[l])
      <4>1. /\ PageCount(shrunk[l]) <= PageCount(lists[l].size)
            /\ PageCount(shrunk[l]) \in Nat /\ PageCount(lists[l].size) \in Nat
        BY <1>5, PageArithmetic
      <4>2. file[l].pages \in Nat
        BY <1>1, ListTypes
      <4>3. QED
        BY <2>2, <4>1, <4>2
    <3>2. ASSUME NEW s \in 0 .. (shrunk[l] - 1)
          PROVE  RowSurvives(l, s)'
      <4>1. s \in Nat /\ s < shrunk[l] /\ s \in 0 .. (lists[l].size - 1)
        BY <1>5
      <4>2. CASE <<l, s>> \in H
        <5> DEFINE h == <<l, s>>
                   t == from[h][2]
        <5>1. /\ from[h] \in Sources(E) /\ from[h][1] = l
              /\ rows[h] = file[l].rec[t] /\ rows[h].id \notin E
          BY <1>6, <4>2
        <5>2. t \in 0 .. (lists[l].size - 1)
          BY <1>5, <1>7, <5>1
        <5>3. /\ rows[h].id \in HeldIn(l) /\ rows[h].vec = told[rows[h].id]
              /\ lists[l].lane[t] = Code[rows[h].vec]
          BY <2>4, <5>1, <5>2
        <5>4. /\ PlannedRow(l, s)' = rows[h]
              /\ PlannedLane(l, s)' = lists[l].lane[t]
          BY <1>12, <4>2 DEF PlannedRow, PlannedLane
        <5>5. EntryWritten(l, s)'
          BY <1>12, <1>13, <4>2 DEF EntryWritten
        <5>6. RowWritten(l, s)'
          BY <1>11, <2>5 DEF RowWritten
        <5>7. <<l, s>> \in DOMAIN plan'.rows
          BY <1>12, <4>2
        <5> HIDE DEF h, t
        <5>8. QED
          BY <1>3, <1>12, <2>2, <5>1, <5>3, <5>4, <5>5, <5>6, <5>7
             DEF RowSurvives
      <4>3. CASE <<l, s>> \notin H
        <5> DEFINE r == file[l].rec[s]
        <5>1. /\ r.id \in HeldIn(l) /\ r.vec = told[r.id]
              /\ dir.loc[r.id] = <<l, s>> /\ lists[l].lane[s] = Code[r.vec]
          BY <2>4, <4>1
        <5>2. r.id \notin E
          BY <1>8, <4>3, <5>1
        <5>3. ASSUME NEW h \in H, rows[h].id = r.id PROVE FALSE
          <6>1. from[h] = <<l, s>> /\ from[h] \in Sources(E)
            BY <1>6, <5>1, <5>3
          <6>2. shrunk[l] <= s
            BY <1>7, <6>1
          <6>3. QED
            BY <1>5, <4>1, <6>2
        <5>4. r.id \notin UpdatedIds'
          BY <1>16, <5>2, <5>3
        <5>5. <<l, s>> \notin DOMAIN plan'.rows
          BY <1>12, <4>3
        <5>6. /\ PlannedRow(l, s)' = r
              /\ PlannedLane(l, s)' = lists[l].lane[s]
          BY <1>3, <5>5 DEF PlannedRow, PlannedLane
        <5> HIDE DEF r
        <5>7. QED
          BY <1>3, <1>12, <2>2, <5>1, <5>2, <5>4, <5>5, <5>6 DEF RowSurvives
      <4>4. QED
        BY <4>2, <4>3
    <3>3. ASSUME NEW i \in HeldIn(l), i \notin E
          PROVE  \E s \in 0 .. (shrunk[l] - 1) : PlannedRow(l, s)'.id = i
      <4>1. PICK t \in 0 .. (lists[l].size - 1) : file[l].rec[t].id = i
        BY <2>1 DEF HeldServed
      <4>2. dir.loc[i] = <<l, t>> /\ t \in Slots
        BY <2>4, <4>1
      <4>3. ASSUME NEW j \in E PROVE dir.loc[j] # <<l, t>>
        <5>1. RecordAt(dir.loc[j]).id = j
          BY <1>10
        <5>2. QED
          BY <3>3, <4>1, <5>1 DEF RecordAt
      <4>4. CASE t < shrunk[l]
        <5>1. t \in 0 .. (shrunk[l] - 1)
          BY <1>5, <4>1, <4>4
        <5>2. <<l, t>> \notin DOMAIN plan'.rows
          BY <1>8, <1>12, <4>3, <5>1
        <5>3. PlannedRow(l, t)' = file[l].rec[t]
          BY <1>3, <5>2 DEF PlannedRow
        <5>4. QED
          BY <4>1, <5>1, <5>3
      <4>5. CASE shrunk[l] <= t
        <5>1. t \in shrunk[l] .. (lists[l].size - 1)
          BY <1>5, <4>1, <4>5
        <5>2. PICK h \in H : from[h] = <<l, t>>
          BY <1>9, <2>5, <4>2, <4>3, <5>1
        <5>3. /\ h = <<l, h[2]>> /\ h[2] \in 0 .. (shrunk[l] - 1)
              /\ rows[h] = file[l].rec[t]
          <6>1. h \in Locations /\ h[1] = l /\ h[2] < shrunk[l]
            BY <1>6, <5>2
          <6>2. h = <<l, h[2]>> /\ h[2] \in Nat
            BY <6>1, LocationPair
          <6>3. rows[h] = file[l].rec[t]
            BY <1>6, <5>2, <6>1
          <6>4. QED
            BY <1>5, <6>1, <6>2, <6>3
        <5>4. PlannedRow(l, h[2])' = rows[h]
          BY <1>12, <5>3 DEF PlannedRow
        <5>5. QED
          BY <4>1, <5>3, <5>4
      <4>6. QED
        BY <1>5, <4>1, <4>4, <4>5
    <3>4. QED
      BY <1>3, <1>12, <2>2, <3>1, <3>2, <3>3 DEF EraseUnderWay
  <2>6. ~Busy("insert")'
    BY <1>12 DEF Busy
  <2>7. QED
    BY <1>15, <2>3, <2>5, <2>6 DEF ListConsistent
<1>19. QED
  BY <1>1, <1>3, <1>17, <1>18 DEF IndexInv

(***************************************************************************)
(* The directory phase.                                                    *)
(***************************************************************************)
\* Writing a directory page, wholly or in part, keeps the entries it does not
\* update, and puts down the ones of its page that it does.
LEMMA EntryWrites ==
  ASSUME NEW d \in Directory, NEW p \in Nat, NEW u, NEW i \in Ids
  PROVE  /\ EntryPage(i) < d.pages /\ (i \notin DOMAIN u \/ EntryPage(i) # p) =>
              /\ EntryPage(i) < WriteEntryPage(d, p, u).pages
              /\ WriteEntryPage(d, p, u).loc[i] = d.loc[i]
         /\ EntryPage(i) = p /\ i \in DOMAIN u =>
              /\ EntryPage(i) < WriteEntryPage(d, p, u).pages
              /\ WriteEntryPage(d, p, u).loc[i] = u[i]
<1>1. d.pages \in Nat /\ EntryPage(i) \in Nat
  BY EntriesPerPageAssumption, IdLimitAssumption DEF Directory, EntryPage, Ids
<1>2. QED
  BY <1>1 DEF WriteEntryPage

\* Likewise for a page that is torn.
LEMMA EntryTears ==
  ASSUME NEW d \in Directory, NEW p \in Nat, NEW u, NEW k, NEW i \in Ids,
         EntryPage(i) < d.pages, i \notin DOMAIN u
  PROVE  /\ EntryPage(i) < TearEntryPage(d, p, u, k).pages
         /\ TearEntryPage(d, p, u, k).loc[i] = d.loc[i]
<1> DEFINE v == [j \in {n \in DOMAIN u : n < k} |-> u[j]]
<1>1. i \notin DOMAIN v
  OBVIOUS
<1>2. TearEntryPage(d, p, u, k) =
        IF p < d.pages THEN WriteEntryPage(d, p, v)
        ELSE [d EXCEPT !.ragged = TRUE]
  BY DEF TearEntryPage
<1> HIDE DEF v
<1>3. /\ [d EXCEPT !.ragged = TRUE].pages = d.pages
      /\ [d EXCEPT !.ragged = TRUE].loc = d.loc
  BY DEF Directory
<1>4. QED
  BY <1>1, <1>2, <1>3, EntryWrites

\* The update of the ID in a row is the place of that row.
LEMMA EntryOfRow ==
  ASSUME UpdatesDistinct, NEW x \in DOMAIN plan.rows
  PROVE  /\ plan.rows[x].id \in DOMAIN DirectoryUpdates
         /\ DirectoryUpdates[plan.rows[x].id] = x
<1> DEFINE i == plan.rows[x].id
<1>1. i \in UpdatedIds /\ i \notin plan.erased
  BY DEF UpdatedIds, UpdatesDistinct
<1>2. (CHOOSE y \in DOMAIN plan.rows : plan.rows[y].id = i) = x
  BY DEF UpdatesDistinct
<1>3. QED
  BY <1>1, <1>2 DEF DirectoryUpdates

\* An insert updates no ID that is held.
LEMMA InsertFresh ==
  ASSUME PlanInv, Busy("insert"), NEW i \in UpdatedIds, NEW l \in Lists
  PROVE  i \notin HeldIn(l)
<1>1. i \in next_id .. (next_id + plan.count - 1) /\ next_id \in Nat
  BY IdLimitAssumption DEF PlanInv, TypeOK, InsertFits, UpdatedIds
<1>2. \A j \in Ids : told[j] # Absent => j < next_id
  BY DEF PlanInv, ListsFit
<1>3. QED
  BY <1>1, <1>2 DEF HeldIn

\* The directory phase updates no ID held in a list whose old rows still count.
LEMMA SettledApart ==
  ASSUME IndexInv, phase = "directory", NEW l \in Lists, l \notin torn, Settled(l),
         NEW i \in HeldIn(l)
  PROVE  i \notin UpdatedIds
<1>1. PlanInv /\ UpdatesApart
  BY DEF IndexInv
<1>2. CASE plan.kind = "insert"
  BY <1>1, <1>2, InsertFresh DEF Busy
<1>3. CASE plan.kind = "erase"
  BY <1>1, <1>3 DEF Settled, Busy, UpdatesApart
<1>4. QED
  BY <1>1, <1>2, <1>3 DEF PlanInv, TypeOK, BatchFits

\* The join of the record phase preserves IndexInv.
LEMMA IndexInvRecordsDone ==
  ASSUME IndexInv, RecordsDone
  PROVE  IndexInv'
<1>1. /\ phase = "records" /\ phase' = "directory" /\ file' = file
      /\ dir' = dir /\ lists' = lists /\ told' = told /\ plan' = plan
      /\ stage' = stage /\ todo' = todo /\ dirTodo' = dirTodo
      /\ begun' = begun /\ torn' = torn
  BY DEF RecordsDone, callVars
<1>2. PlanInv' /\ UpdatesApart
  BY PlanInvDirectory DEF IndexInv
<1>3. /\ Touched' = Touched /\ UpdatedIds' = UpdatedIds
      /\ Busy("insert")' <=> Busy("insert")
      /\ Busy("erase")' <=> Busy("erase")
  BY <1>1 DEF Touched, UpdatedIds, Busy
<1>4. \A l \in Lists : HeldIn(l)' = HeldIn(l)
  BY <1>1, HeldIds
<1>5. UpdatesApart'
  BY <1>1, <1>2, <1>3, <1>4 DEF UpdatesApart
<1>6. ASSUME NEW l \in Lists, l \notin torn PROVE ListConsistent(l)'
  <2>1. ListConsistent(l)
    BY <1>6 DEF IndexInv
  <2>2. \A s : /\ RowWritten(l, s)' <=> RowWritten(l, s)
               /\ EntryWritten(l, s)' <=> EntryWritten(l, s)
               /\ PlannedRow(l, s)' = PlannedRow(l, s)
               /\ PlannedLane(l, s)' = PlannedLane(l, s)
    BY <1>1 DEF RowWritten, EntryWritten, PlannedRow, PlannedLane
  <2>3. \A s : RowSurvives(l, s)' <=> RowSurvives(l, s)
    BY <1>1, <1>3, <1>4, <2>2 DEF RowSurvives
  <2>4. InsertUnderWay(l)' <=> InsertUnderWay(l)
    BY <1>1, <2>2 DEF InsertUnderWay
  <2>5. EraseUnderWay(l)' <=> EraseUnderWay(l)
    BY <1>1, <1>4, <2>2, <2>3 DEF EraseUnderWay
  <2>6. Settled(l)' => Settled(l)
    BY <1>1, <1>3 DEF Settled
  <2>7. /\ RowsServed(l)' <=> RowsServed(l)
        /\ HeldServed(l)' <=> HeldServed(l)
    BY <1>1, <1>4 DEF RowsServed, HeldServed
  <2>8. Settled(l)' => RowsServed(l)' /\ HeldServed(l)'
    BY <2>1, <2>6, <2>7 DEF ListConsistent
  <2>9. Busy("insert")' => InsertUnderWay(l)'
    BY <1>3, <2>1, <2>4 DEF ListConsistent
  <2>10. Busy("erase")' /\ l \in Touched' => EraseUnderWay(l)'
    BY <1>3, <2>1, <2>5 DEF ListConsistent
  <2>11. QED
    BY <2>8, <2>9, <2>10 DEF ListConsistent
<1>7. QED
  BY <1>1, <1>2, <1>5, <1>6 DEF IndexInv

\* A page of the directory preserves IndexInv.
LEMMA IndexInvDirectoryPage ==
  ASSUME IndexInv, DirectoryPage
  PROVE  IndexInv'
<1>1. /\ phase = "directory" /\ phase' = phase /\ file' = file /\ lists' = lists
      /\ told' = told /\ plan' = plan /\ stage' = stage /\ todo' = todo
      /\ begun' = begun /\ torn' = torn
  BY DEF DirectoryPage, callVars
<1>2. PICK p \in dirTodo : /\ dir' = WriteEntryPage(dir, p, DirectoryUpdates)
                           /\ dirTodo' = dirTodo \ {p}
  BY DEF DirectoryPage
<1>3. /\ PlanInv /\ PlanInv' /\ UpdatesApart /\ UpdatesDistinct
      /\ dir \in Directory /\ p \in Nat
  BY <1>1, PlanInvDirectory DEF IndexInv, PlanInv, TypeOK, BatchFits
<1>4. /\ Touched' = Touched /\ UpdatedIds' = UpdatedIds
      /\ Busy("insert")' <=> Busy("insert")
      /\ Busy("erase")' <=> Busy("erase")
      /\ \A l \in Lists : HeldIn(l)' = HeldIn(l)
  BY <1>1, HeldIds DEF Touched, UpdatedIds, Busy
<1>5. UpdatesApart'
  BY <1>1, <1>3, <1>4 DEF UpdatesApart
<1>6. ASSUME NEW i \in Ids, EntryPage(i) < dir.pages, i \notin UpdatedIds
      PROVE  EntryPage(i) < dir'.pages /\ dir'.loc[i] = dir.loc[i]
  <2>1. i \notin DOMAIN DirectoryUpdates
    BY <1>6 DEF DirectoryUpdates
  <2>2. QED
    BY <1>2, <1>3, <1>6, <2>1, EntryWrites
<1>7. ASSUME NEW l \in Lists, NEW s, <<l, s>> \in DOMAIN plan.rows,
             EntryWritten(l, s)
      PROVE  EntryWritten(l, s)'
  <2> DEFINE i == plan.rows[<<l, s>>].id
  <2>1. i \in DOMAIN DirectoryUpdates /\ DirectoryUpdates[i] = <<l, s>>
    BY <1>3, <1>7, EntryOfRow
  <2>2. i \in Ids /\ i = plan'.rows[<<l, s>>].id
    BY <1>1, <1>3, <1>7 DEF PlanInv, TypeOK, Record
  <2>3. \/ EntryPage(i) \in dirTodo
        \/ dir.loc[i] = <<l, s>> /\ EntryPage(i) < dir.pages
    BY <1>7 DEF EntryWritten
  <2>4. CASE EntryPage(i) = p
    <3>1. dir'.loc[i] = <<l, s>> /\ EntryPage(i) < dir'.pages
      BY <1>2, <1>3, <2>1, <2>2, <2>4, EntryWrites
    <3>2. QED
      BY <1>1, <3>1 DEF EntryWritten
  <2>5. CASE EntryPage(i) # p
    <3>1. EntryPage(i) < dir.pages =>
            EntryPage(i) < dir'.pages /\ dir'.loc[i] = dir.loc[i]
      BY <1>2, <1>3, <2>2, <2>5, EntryWrites
    <3>2. \/ EntryPage(i) \in dirTodo'
          \/ dir'.loc[i] = <<l, s>> /\ EntryPage(i) < dir'.pages
      <4>1. dirTodo' = dirTodo \ {p}
        BY <1>2
      <4>2. QED
        BY <2>3, <2>5, <3>1, <4>1
    <3>3. QED
      BY <1>1, <3>2 DEF EntryWritten
  <2>6. QED
    BY <2>4, <2>5
<1>8. ASSUME NEW l \in Lists, l \notin torn PROVE ListConsistent(l)'
  <2>1. ListConsistent(l) /\ (Settled(l)' <=> Settled(l))
        /\ lists[l].size \in Nat
    BY <1>1, <1>3, <1>4, <1>8, ListTypes DEF IndexInv, Settled
  <2>2. ASSUME Settled(l)' PROVE RowsServed(l)' /\ HeldServed(l)'
    <3>1. Settled(l) /\ RowsServed(l) /\ HeldServed(l)
      BY <2>1, <2>2 DEF ListConsistent
    <3>2. ASSUME NEW i \in HeldIn(l)
          PROVE  /\ told'[i] = told[i] /\ dir'.loc[i] = dir.loc[i]
                 /\ EntryPage(i) < dir'.pages
      <4>1. i \in Ids /\ EntryPage(i) < dir.pages
        BY <3>1, HeldIds DEF HeldServed
      <4>2. i \notin UpdatedIds
        BY <1>1, <1>8, <3>1, SettledApart
      <4>3. QED
        BY <1>1, <1>6, <4>1, <4>2
    <3>3. file'[l].pages >= PageCount(lists[l].size)
      BY <1>1, <3>1 DEF RowsServed
    <3>4. QED
      BY <1>1, <1>4, <2>1, <3>1, <3>2, <3>3, ServedFrame
  <2>3. ASSUME Busy("insert")' PROVE InsertUnderWay(l)'
    <3>1. InsertUnderWay(l)
      BY <1>4, <2>1, <2>3 DEF ListConsistent
    <3>2. ASSUME NEW s \in lists[l].size .. (plan.size[l] - 1)
          PROVE  /\ <<l, s>> \in DOMAIN plan.rows
                 /\ RowWritten(l, s)' /\ EntryWritten(l, s)'
      <4>1. /\ <<l, s>> \in DOMAIN plan.rows
            /\ RowWritten(l, s) /\ EntryWritten(l, s)
        BY <3>1 DEF InsertUnderWay
      <4>2. RowWritten(l, s)'
        BY <1>1, <4>1 DEF RowWritten
      <4>3. QED
        BY <1>7, <4>1, <4>2
    <3>3. QED
      BY <1>1, <3>1, <3>2 DEF InsertUnderWay
  <2>4. ASSUME Busy("erase")', l \in Touched' PROVE EraseUnderWay(l)'
    <3>1. EraseUnderWay(l)
      BY <1>4, <2>1, <2>4 DEF ListConsistent
    <3>2. \A i \in HeldIn(l) : i \in Ids /\ EntryPage(i) < dir.pages
      BY <3>1, HeldIds DEF EraseUnderWay
    <3>3. ASSUME NEW s \in 0 .. (plan.size[l] - 1)
          PROVE  RowSurvives(l, s)' /\ PlannedRow(l, s)' = PlannedRow(l, s)
      <4>1. RowSurvives(l, s)
        BY <3>1 DEF EraseUnderWay
      <4>2. /\ PlannedRow(l, s)' = PlannedRow(l, s)
            /\ PlannedLane(l, s)' = PlannedLane(l, s)
        BY <1>1 DEF PlannedRow, PlannedLane
      <4>3. CASE <<l, s>> \in DOMAIN plan.rows
        <5>1. RowWritten(l, s)' /\ EntryWritten(l, s)'
          BY <1>1, <1>7, <4>1, <4>3 DEF RowSurvives, RowWritten
        <5>2. QED
          BY <1>1, <1>4, <4>1, <4>2, <4>3, <5>1 DEF RowSurvives
      <4>4. CASE <<l, s>> \notin DOMAIN plan.rows
        <5>1. /\ PlannedRow(l, s).id \in HeldIn(l)
              /\ PlannedRow(l, s).id \notin UpdatedIds
              /\ dir.loc[PlannedRow(l, s).id] = <<l, s>>
          BY <4>1, <4>4 DEF RowSurvives
        <5>2. dir'.loc[PlannedRow(l, s).id] = <<l, s>>
          BY <1>6, <3>2, <5>1
        <5>3. QED
          BY <1>1, <1>4, <4>1, <4>2, <4>4, <5>1, <5>2 DEF RowSurvives
      <4>5. QED
        BY <4>3, <4>4
    <3>4. ASSUME NEW i \in HeldIn(l) PROVE EntryPage(i) < dir'.pages
      <4>1. CASE i \in DOMAIN DirectoryUpdates /\ EntryPage(i) = p
        BY <1>2, <1>3, <3>2, <4>1, EntryWrites
      <4>2. CASE i \notin DOMAIN DirectoryUpdates \/ EntryPage(i) # p
        BY <1>2, <1>3, <3>2, <4>2, EntryWrites
      <4>3. QED
        BY <4>1, <4>2
    <3>5. QED
      BY <1>1, <1>4, <3>1, <3>3, <3>4 DEF EraseUnderWay
  <2>5. QED
    BY <2>2, <2>3, <2>4 DEF ListConsistent
<1>9. QED
  BY <1>1, <1>3, <1>5, <1>8 DEF IndexInv

(***************************************************************************)
(* The last step of a batch.                                               *)
(***************************************************************************)
\* With no batch left, served lists are all that IndexInv asks for.
LEMMA EndConsistent ==
  ASSUME PlanInv', phase' = "idle",
         \A l \in Lists : l \notin torn' => RowsServed(l)' /\ HeldServed(l)'
  PROVE  IndexInv'
<1>1. UpdatesApart'
  BY DEF UpdatesApart
<1>2. ~Busy("insert")' /\ ~Busy("erase")'
  BY DEF Busy
<1>3. \A l \in Lists : l \notin torn' => ListConsistent(l)'
  BY <1>2 DEF ListConsistent
<1>4. QED
  BY <1>1, <1>3 DEF IndexInv

\* The ways a batch fails after its join preserve IndexInv: what a failed
\* insert wrote is out of the rows served, and what a failed erase has begun
\* to change is torn.
LEMMA IndexInvFailure ==
  ASSUME IndexInv, \/ RecordsFailed \/ DirectoryRefused
                   \/ DirectoryTorn \/ DirectoryCallFails
  PROVE  IndexInv'
<1>1. /\ phase' = "idle" /\ torn' = torn \cup begun /\ file' = file
      /\ lists' = lists /\ told' = told
  BY DEF RecordsFailed, DirectoryRefused, DirectoryTorn, DirectoryCallFails,
         EndBatch, callVars
<1>2. phase \in {"records", "directory"}
  BY DEF RecordsFailed, DirectoryRefused, DirectoryTorn, DirectoryCallFails
<1>3. PlanInv /\ PlanInv' /\ dir \in Directory /\ dirTodo \in SUBSET Nat
  BY PlanInvFailure DEF IndexInv, PlanInv, TypeOK
<1>4. ASSUME NEW l \in Lists, l \notin torn' PROVE RowsServed(l)' /\ HeldServed(l)'
  <2>1. l \notin torn /\ l \notin begun
    BY <1>1, <1>4
  <2>2. Settled(l)
    <3>1. CASE phase = "records"
      BY <2>1, <3>1 DEF Settled
    <3>2. CASE phase = "directory" /\ Busy("erase") /\ l \in Touched
      <4>1. stage[l] = "done"
        BY <1>3, <3>2 DEF PlanInv, BatchFits, Touched
      <4>2. QED
        BY <1>3, <2>1, <3>2, <4>1 DEF PlanInv, EraseFits
    <3>3. QED
      BY <1>2, <3>1, <3>2 DEF Settled
  <2>3. RowsServed(l) /\ HeldServed(l) /\ lists[l].size \in Nat
    BY <1>3, <2>1, <2>2, ListTypes DEF IndexInv, ListConsistent
  <2>4. ASSUME NEW i \in HeldIn(l)
        PROVE  dir'.loc[i] = dir.loc[i] /\ EntryPage(i) < dir'.pages
    <3>1. i \in Ids /\ EntryPage(i) < dir.pages
      BY <2>3, HeldIds DEF HeldServed
    <3>2. CASE dir' = dir
      BY <3>1, <3>2
    <3>3. CASE DirectoryTorn
      <4>1. phase = "directory"
        BY <3>3 DEF DirectoryTorn
      <4>2. PICK p \in dirTodo, k \in Ids :
              dir' = TearEntryPage(dir, p, DirectoryUpdates, k)
        BY <3>3 DEF DirectoryTorn
      <4>3. i \notin DOMAIN DirectoryUpdates
        BY <2>1, <2>2, <4>1, SettledApart DEF DirectoryUpdates
      <4>4. p \in Nat
        BY <1>3
      <4>5. QED
        BY <1>3, <3>1, <4>2, <4>3, <4>4, EntryTears
    <3>4. QED
      BY <3>2, <3>3 DEF RecordsFailed, DirectoryRefused, DirectoryCallFails
  <2>5. HeldIn(l)' = HeldIn(l) /\ file'[l].pages >= PageCount(lists[l].size)
    BY <1>1, <2>3, HeldIds DEF RowsServed
  <2>6. QED
    BY <1>1, <2>3, <2>4, <2>5, ServedFrame
<1>5. QED
  BY <1>1, <1>3, <1>4, EndConsistent

\* Publishing gives a list its planned size and lanes.
LEMMA PublishedSlot ==
  ASSUME PlanInv, PublishLists, NEW l \in Lists
  PROVE  /\ lists'[l].size = plan.size[l]
         /\ \A s \in Slots : lists'[l].lane[s] = PublishedLane(l, s)
<1>1. lists[l] \in MemoryList
  BY DEF PlanInv, TypeOK
<1>2. lists'[l] = [lists[l] EXCEPT !.size = plan.size[l],
                                   !.lane = [s \in Slots |-> PublishedLane(l, s)]]
  BY DEF PublishLists
<1>3. QED
  BY <1>1, <1>2 DEF MemoryList

\* The end of an insert preserves IndexInv: its rows are served.
LEMMA IndexInvPublishInsert ==
  ASSUME IndexInv, PublishInsert
  PROVE  IndexInv'
<1>1. /\ phase = "directory" /\ plan.kind = "insert" /\ dirTodo = {}
      /\ PublishLists /\ phase' = "idle"
      /\ file' = file /\ dir' = dir /\ torn' = torn
  BY DEF PublishInsert, EndBatch
<1>2. /\ PlanInv /\ PlanInv' /\ TypeOK /\ UpdatesDistinct
      /\ Busy("insert") /\ ~Busy("erase")
  BY <1>1, PlanInvPublish DEF IndexInv, PlanInv, BatchFits, Busy
<1>3. ASSUME NEW x \in DOMAIN plan.rows
      PROVE  /\ x[1] \in Lists /\ x[2] \in Slots /\ x[2] \in Nat
             /\ x = <<x[1], x[2]>>
             /\ lists[x[1]].size <= x[2] /\ x[2] < plan.size[x[1]]
             /\ x \in DOMAIN plan.codes
             /\ plan.codes[x] = Code[plan.rows[x].vec]
             /\ plan.rows[x].id \in Ids
             /\ Assign[plan.rows[x].vec] = x[1] /\ plan.rows[x].vec # Absent
             /\ told'[plan.rows[x].id] = plan.rows[x].vec
  <2>1. x[1] \in Lists /\ x[2] \in Slots /\ x[2] \in Nat /\ x = <<x[1], x[2]>>
    BY <1>2, LocationPair DEF TypeOK
  <2>2. /\ lists[x[1]].size <= x[2] /\ x[2] < plan.size[x[1]]
        /\ plan.codes[x] = Code[plan.rows[x].vec]
        /\ Assign[plan.rows[x].vec] = x[1] /\ plan.rows[x].vec # Absent
    BY <1>1, <1>2, AbsentAssumption DEF PlanInv, BatchFits, InsertFits
  <2>3. plan.rows[x].id \in Ids /\ x \in DOMAIN plan.codes
    BY <1>2 DEF TypeOK, Record
  <2>4. (CHOOSE y \in DOMAIN plan.rows : plan.rows[y].id = plan.rows[x].id) = x
    BY <1>2 DEF UpdatesDistinct
  <2>5. told'[plan.rows[x].id] = plan.rows[x].vec
    BY <2>3, <2>4 DEF PublishInsert
  <2>6. QED
    BY <2>1, <2>2, <2>3, <2>5
<1>4. ASSUME NEW i \in Ids, \A x \in DOMAIN plan.rows : plan.rows[x].id # i
      PROVE  told'[i] = told[i]
  BY <1>4 DEF PublishInsert
<1>5. ASSUME NEW l \in Lists, NEW i \in HeldIn(l)
      PROVE  i \in Ids /\ told'[i] = told[i] /\ i \in HeldIn(l)'
  <2>1. i \in Ids /\ i \notin UpdatedIds
    BY <1>2, InsertFresh, HeldIds
  <2>2. told'[i] = told[i]
    BY <1>4, <2>1 DEF UpdatedIds
  <2>3. QED
    BY <2>1, <2>2 DEF HeldIn
<1>6. ASSUME NEW l \in Lists, l \notin torn PROVE RowsServed(l)' /\ HeldServed(l)'
  <2>1. RowsServed(l) /\ HeldServed(l) /\ InsertUnderWay(l)
    BY <1>2, <1>6 DEF IndexInv, ListConsistent, Settled
  <2>2. /\ lists[l].size \in Nat /\ plan.size[l] \in Nat
        /\ lists[l].size <= plan.size[l]
        /\ lists'[l].size = plan.size[l]
        /\ stage[l] \in {"none", "done"}
        /\ stage[l] = "none" <=> plan.size[l] = lists[l].size
    BY <1>1, <1>2, ListTypes, PublishedSlot DEF PlanInv, BatchFits, InsertFits
  <2>3. file[l].pages >= PageCount(plan.size[l])
    BY <2>1, <2>2 DEF RowsServed, InsertUnderWay
  <2>4. ASSUME NEW s \in 0 .. (lists[l].size - 1)
        PROVE  /\ file[l].rec[s].id \in HeldIn(l)'
               /\ file[l].rec[s].vec = told'[file[l].rec[s].id]
               /\ dir.loc[file[l].rec[s].id] = <<l, s>>
               /\ lists'[l].lane[s] = Code[file[l].rec[s].vec]
    <3>1. /\ file[l].rec[s].id \in HeldIn(l)
          /\ file[l].rec[s].vec = told[file[l].rec[s].id]
          /\ dir.loc[file[l].rec[s].id] = <<l, s>>
          /\ lists[l].lane[s] = Code[file[l].rec[s].vec]
      BY <2>1 DEF RowsServed
    <3>2. s \in Slots /\ s < lists[l].size /\ s \in Nat
      BY <1>2, <2>1, <2>2, ServedSlots
    <3>3. <<l, s>> \notin DOMAIN plan.codes
      BY <1>2, <1>3, <2>2, <3>2 DEF TypeOK
    <3>4. lists'[l].lane[s] = lists[l].lane[s]
      BY <1>1, <1>2, <2>2, <3>2, <3>3, PublishedSlot DEF PublishedLane
    <3>5. QED
      BY <1>5, <3>1, <3>4
  <2>5. ASSUME NEW s \in lists[l].size .. (plan.size[l] - 1)
        PROVE  /\ <<l, s>> \in DOMAIN plan.rows
               /\ file[l].rec[s] = plan.rows[<<l, s>>]
               /\ file[l].rec[s].id \in HeldIn(l)'
               /\ file[l].rec[s].vec = told'[file[l].rec[s].id]
               /\ dir.loc[file[l].rec[s].id] = <<l, s>>
               /\ EntryPage(file[l].rec[s].id) < dir.pages
               /\ lists'[l].lane[s] = Code[file[l].rec[s].vec]
    <3> DEFINE r == plan.rows[<<l, s>>]
    <3>1. <<l, s>> \in DOMAIN plan.rows /\ RowWritten(l, s) /\ EntryWritten(l, s)
      BY <2>1 DEF InsertUnderWay
    <3>2. file[l].rec[s] = r
      BY <2>2, <3>1 DEF RowWritten
    <3>3. dir.loc[r.id] = <<l, s>> /\ EntryPage(r.id) < dir.pages
      BY <1>1, <3>1 DEF EntryWritten
    <3>4. /\ r.id \in Ids /\ told'[r.id] = r.vec /\ r.vec # Absent
          /\ Assign[r.vec] = l /\ s \in Slots
          /\ <<l, s>> \in DOMAIN plan.codes
          /\ plan.codes[<<l, s>>] = Code[r.vec]
      BY <1>3, <3>1
    <3>5. r.id \in HeldIn(l)'
      BY <3>4 DEF HeldIn
    <3>6. lists'[l].lane[s] = Code[r.vec]
      <4>1. lists[l].lane[s] = EmptyLane
        BY <1>2, <2>2, <3>4 DEF PlanInv, TailLanesEmpty
      <4>2. lists'[l].lane[s] = PublishedLane(l, s)
        BY <1>1, <1>2, <3>4, PublishedSlot
      <4>3. QED
        BY <1>1, <3>4, <4>1, <4>2 DEF PublishedLane, Pack
    <3>7. QED
      BY <3>1, <3>2, <3>3, <3>4, <3>5, <3>6
  <2>6. RowsServed(l)'
    <3>1. ASSUME NEW s \in 0 .. (plan.size[l] - 1)
          PROVE  /\ file[l].rec[s].id \in HeldIn(l)'
                 /\ file[l].rec[s].vec = told'[file[l].rec[s].id]
                 /\ dir.loc[file[l].rec[s].id] = <<l, s>>
                 /\ lists'[l].lane[s] = Code[file[l].rec[s].vec]
      <4>1. \/ s \in 0 .. (lists[l].size - 1)
            \/ s \in lists[l].size .. (plan.size[l] - 1)
        BY <2>2
      <4>2. QED
        BY <2>4, <2>5, <4>1
    <3>2. QED
      BY <1>1, <2>2, <2>3, <3>1 DEF RowsServed
  <2>7. ASSUME NEW i \in HeldIn(l)'
        PROVE  /\ EntryPage(i) < dir.pages /\ dir.loc[i][1] = l
               /\ dir.loc[i][2] \in 0 .. (plan.size[l] - 1)
               /\ file[l].rec[dir.loc[i][2]].id = i
    <3>1. i \in Ids /\ told'[i] # Absent /\ Assign[told'[i]] = l
      BY DEF HeldIn
    <3>2. CASE \E x \in DOMAIN plan.rows : plan.rows[x].id = i
      <4>1. PICK x \in DOMAIN plan.rows : plan.rows[x].id = i
        BY <3>2
      <4>2. x[1] = l
        BY <1>3, <3>1, <4>1
      <4>3. x = <<l, x[2]>> /\ x[2] \in lists[l].size .. (plan.size[l] - 1)
            /\ x[2] \in 0 .. (plan.size[l] - 1)
        BY <1>3, <2>2, <4>2
      <4>4. file[l].rec[x[2]].id = i
        BY <2>5, <4>1, <4>3
      <4>5. dir.loc[i] = <<l, x[2]>> /\ EntryPage(i) < dir.pages
        BY <2>5, <4>3, <4>4
      <4>6. QED
        BY <4>3, <4>4, <4>5
    <3>3. CASE \A x \in DOMAIN plan.rows : plan.rows[x].id # i
      <4>1. i \in HeldIn(l)
        BY <1>4, <3>1, <3>3 DEF HeldIn
      <4>2. /\ EntryPage(i) < dir.pages /\ dir.loc[i][1] = l
            /\ dir.loc[i][2] \in 0 .. (lists[l].size - 1)
            /\ file[l].rec[dir.loc[i][2]].id = i
        BY <2>1, <4>1 DEF HeldServed
      <4>3. QED
        BY <2>2, <4>2
    <3>4. QED
      BY <3>2, <3>3
  <2>8. HeldServed(l)'
    BY <1>1, <2>2, <2>7 DEF HeldServed
  <2>9. QED
    BY <2>6, <2>8
<1>7. QED
  BY <1>1, <1>2, <1>6, EndConsistent

\* The end of an erase preserves IndexInv: the rows it kept are served.
LEMMA IndexInvPublishErase ==
  ASSUME IndexInv, PublishErase
  PROVE  IndexInv'
<1>1. /\ phase = "directory" /\ plan.kind = "erase" /\ dirTodo = {}
      /\ PublishLists /\ phase' = "idle"
      /\ file' = file /\ dir' = dir /\ torn' = torn
      /\ told' = [i \in Ids |-> IF i \in plan.erased THEN Absent ELSE told[i]]
  BY DEF PublishErase, EndBatch
<1>2. /\ PlanInv /\ PlanInv' /\ TypeOK /\ UpdatesApart /\ Busy("erase")
      /\ DOMAIN plan.codes = DOMAIN plan.rows
  BY <1>1, PlanInvPublish DEF IndexInv, PlanInv, TypeOK, Busy
<1>3. ASSUME NEW l \in Lists
      PROVE  /\ HeldIn(l)' = HeldIn(l) \ plan.erased
             /\ \A i \in HeldIn(l)' : i \in Ids /\ told'[i] = told[i]
  BY <1>1 DEF HeldIn
<1>4. ASSUME NEW l \in Lists, l \notin torn PROVE RowsServed(l)' /\ HeldServed(l)'
  <2>1. ListConsistent(l) /\ lists[l].size \in Nat /\ plan.size[l] \in Nat
        /\ lists'[l].size = plan.size[l]
    BY <1>1, <1>2, <1>4, ListTypes, PublishedSlot DEF IndexInv
  <2>2. CASE l \notin Touched
    <3>1. plan.size[l] = lists[l].size
      BY <2>2 DEF Touched
    <3>2. RowsServed(l) /\ HeldServed(l)
      BY <2>1, <2>2 DEF ListConsistent, Settled
    <3>3. \A x \in DOMAIN plan.rows : x[1] # l
      BY <1>1, <1>2, <2>2 DEF UpdatesApart
    <3>4. HeldIn(l)' = HeldIn(l)
      <4>1. \A i \in plan.erased : i \notin HeldIn(l)
        BY <1>1, <1>2, <1>4, <2>2 DEF UpdatesApart, UpdatedIds
      <4>2. QED
        BY <1>3, <4>1
    <3>5. ASSUME NEW s \in 0 .. (lists[l].size - 1)
          PROVE  /\ file'[l].rec[s] = file[l].rec[s]
                 /\ lists'[l].lane[s] = lists[l].lane[s]
      <4>1. s \in Slots /\ s < plan.size[l] /\ s \in Nat
        BY <1>2, <2>1, <3>1, <3>2, ServedSlots
      <4>2. <<l, s>> \notin DOMAIN plan.codes
        BY <1>2, <3>3
      <4>3. lists'[l].lane[s] = lists[l].lane[s]
        BY <1>1, <1>2, <2>1, <4>1, <4>2, PublishedSlot DEF PublishedLane
      <4>4. QED
        BY <1>1, <4>3
    <3>6. /\ file'[l].pages >= PageCount(lists[l].size)
          /\ \A i \in HeldIn(l) : EntryPage(i) < dir.pages
      BY <1>1, <3>2 DEF RowsServed, HeldServed
    <3>7. QED
      BY <1>1, <1>3, <2>1, <3>1, <3>2, <3>4, <3>5, <3>6, ServedFrame
  <2>3. CASE l \in Touched
    <3>1. EraseUnderWay(l)
      BY <1>2, <2>1, <2>3 DEF ListConsistent
    <3>2. stage[l] = "done"
      BY <1>1, <1>2, <2>3 DEF PlanInv, BatchFits, Touched
    <3>3. ASSUME NEW s \in 0 .. (plan.size[l] - 1)
          PROVE  /\ file[l].rec[s] = PlannedRow(l, s)
                 /\ file[l].rec[s].id \in HeldIn(l)'
                 /\ file[l].rec[s].vec = told'[file[l].rec[s].id]
                 /\ dir.loc[file[l].rec[s].id] = <<l, s>>
                 /\ lists'[l].lane[s] = Code[file[l].rec[s].vec]
      <4> DEFINE r == PlannedRow(l, s)
      <4>1. /\ r.id \in HeldIn(l) \ plan.erased /\ r.vec = told[r.id]
            /\ PlannedLane(l, s) = Code[r.vec]
        BY <3>1 DEF EraseUnderWay, RowSurvives
      <4>2. file[l].rec[s] = r /\ dir.loc[r.id] = <<l, s>>
        <5>1. CASE <<l, s>> \in DOMAIN plan.rows
          <6>1. RowWritten(l, s) /\ EntryWritten(l, s)
            BY <3>1, <5>1 DEF EraseUnderWay, RowSurvives
          <6>2. r = plan.rows[<<l, s>>]
            BY <5>1 DEF PlannedRow
          <6>3. QED
            BY <1>1, <3>2, <6>1, <6>2 DEF RowWritten, EntryWritten
        <5>2. CASE <<l, s>> \notin DOMAIN plan.rows
          BY <3>1, <5>2 DEF EraseUnderWay, RowSurvives, PlannedRow
        <5>3. QED
          BY <5>1, <5>2
      <4>3. s \in Slots /\ s < plan.size[l] /\ s \in Nat
        <5>1. r.id \in Ids
          BY <4>1, HeldIds
        <5>2. s \in Slots
          BY <1>2, <4>2, <5>1, EntrySlot
        <5>3. QED
          BY <2>1, <5>2
      <4>4. lists'[l].lane[s] = PlannedLane(l, s)
        <5>1. lists'[l].lane[s] = PublishedLane(l, s)
          BY <1>1, <1>2, <4>3, PublishedSlot
        <5>2. QED
          BY <1>1, <1>2, <2>1, <4>3, <5>1 DEF PublishedLane, PlannedLane
      <4>5. r.id \in HeldIn(l)' /\ told'[r.id] = told[r.id]
        BY <1>3, <4>1
      <4> HIDE DEF r
      <4>6. QED
        BY <4>1, <4>2, <4>4, <4>5 DEF r
    <3>4. RowsServed(l)'
      <4>1. file[l].pages >= PageCount(plan.size[l])
        BY <3>1 DEF EraseUnderWay
      <4>2. QED
        BY <1>1, <2>1, <3>3, <4>1 DEF RowsServed
    <3>5. ASSUME NEW i \in HeldIn(l)'
          PROVE  /\ EntryPage(i) < dir.pages /\ dir.loc[i][1] = l
                 /\ dir.loc[i][2] \in 0 .. (plan.size[l] - 1)
                 /\ file[l].rec[dir.loc[i][2]].id = i
      <4>1. i \in HeldIn(l) \ plan.erased
        BY <1>3
      <4>2. PICK s \in 0 .. (plan.size[l] - 1) : PlannedRow(l, s).id = i
        BY <3>1, <4>1 DEF EraseUnderWay
      <4>3. file[l].rec[s].id = i /\ dir.loc[i] = <<l, s>>
        BY <3>3, <4>2
      <4>4. EntryPage(i) < dir.pages
        BY <3>1, <4>1 DEF EraseUnderWay
      <4>5. QED
        BY <4>3, <4>4
    <3>6. HeldServed(l)'
      BY <1>1, <2>1, <3>5 DEF HeldServed
    <3>7. QED
      BY <3>4, <3>6
  <2>4. QED
    BY <2>2, <2>3
<1>5. QED
  BY <1>1, <1>2, <1>4, EndConsistent

(***************************************************************************)
(* IndexInv is inductive, and Agreement follows.                           *)
(***************************************************************************)
\* IndexInv holds in a new index, where no list has a row.
LEMMA IndexInvInit == Init => IndexInv
<1> SUFFICES ASSUME Init PROVE IndexInv
  OBVIOUS
<1>1. PlanInv
  BY PlanInvInit
<1>2. phase = "idle" /\ ~Busy("insert") /\ ~Busy("erase")
  BY DEF Init, Busy
<1>3. ASSUME NEW l \in Lists PROVE RowsServed(l) /\ HeldServed(l)
  <2>1. HeldIn(l) = {}
    BY DEF Init, HeldIn
  <2>2. lists[l].size = 0 /\ file[l].pages = 0
    BY DEF Init, EmptyFile
  <2>3. PageCount(0) = 0
    BY RecordsPerPageAssumption DEF PageCount
  <2>4. QED
    BY <2>1, <2>2, <2>3 DEF RowsServed, HeldServed
<1>4. QED
  BY <1>1, <1>2, <1>3 DEF IndexInv, UpdatesApart, ListConsistent

\* A step that changes nothing preserves IndexInv.
LEMMA IndexInvStutter ==
  ASSUME IndexInv, UNCHANGED vars
  PROVE  IndexInv'
<1>1. PlanInv' /\ UNCHANGED batchVars
  <2>1. PlanInv'
    BY PlanInvNext DEF IndexInv
  <2>2. UNCHANGED batchVars
    BY DEF vars, batchVars, callVars
  <2>3. QED
    BY <2>1, <2>2
<1>2. UpdatesApart' /\ torn' = torn
  <2>1. /\ Touched' = Touched /\ UpdatedIds' = UpdatedIds
        /\ \A l \in Lists : HeldIn(l)' = HeldIn(l)
    BY HeldIds DEF vars, Touched, UpdatedIds
  <2>2. phase' = phase /\ plan' = plan /\ torn' = torn
    BY DEF vars
  <2>3. QED
    BY <2>1, <2>2 DEF IndexInv, UpdatesApart
<1>3. \A l \in Lists : ListConsistent(l) => ListConsistent(l)'
  BY <1>1, ConsistentFrame DEF IndexInv, vars
<1>4. QED
  BY <1>1, <1>2, <1>3 DEF IndexInv

\* Every step preserves IndexInv.
LEMMA IndexInvNext == IndexInv /\ [Next]_vars => IndexInv'
<1> SUFFICES ASSUME IndexInv, [Next]_vars PROVE IndexInv'
  OBVIOUS
<1>1. CASE Insert
  BY <1>1, IndexInvInsert
<1>2. CASE Erase
  BY <1>2, IndexInvErase
<1>3. CASE \E l \in Lists : ListStep(l) \/ ListFailure(l)
  BY <1>3, IndexInvListStep
<1>4. CASE RecordsDone
  BY <1>4, IndexInvRecordsDone
<1>5. CASE DirectoryPage
  BY <1>5, IndexInvDirectoryPage
<1>6. CASE \/ RecordsFailed \/ DirectoryRefused
           \/ DirectoryTorn \/ DirectoryCallFails
  BY <1>6, IndexInvFailure
<1>7. CASE PublishInsert
  BY <1>7, IndexInvPublishInsert
<1>8. CASE PublishErase
  BY <1>8, IndexInvPublishErase
<1>9. CASE UNCHANGED vars
  BY <1>9, IndexInvStutter
<1>10. QED
  BY <1>1, <1>2, <1>3, <1>4, <1>5, <1>6, <1>7, <1>8, <1>9
     DEF Next, UpdateStep, UpdateFailure

\* IndexInv holds in every state, whatever calls fail and in whatever order.
THEOREM IndexInvariant == Spec => []IndexInv
<1>1. QED
  BY IndexInvInit, IndexInvNext, PTL DEF Spec

\* Whenever the lock is free, files, directory, postings and callers agree on
\* every list no failed erase has torn: updates that returned took effect
\* exactly, and inserts that failed left no trace in the rows served.
THEOREM IndexAgrees == Spec => []Agreement
<1>1. IndexInv => Agreement
  BY IdleServed DEF Agreement
<1>2. QED
  BY <1>1, IndexInvariant, PTL

\* IndexInv lets no erase through that names an ID the callers do not hold.
LEMMA EraseNamesHeld == IndexInv => EraseOnlyHeld
<1> SUFFICES ASSUME IndexInv, phase = "idle", NEW E \in SUBSET Ids,
                    EraseAccepted(E), ErasedLists(E) \cap torn = {},
                    NEW i \in E
             PROVE  told[i] # Absent
  BY DEF EraseOnlyHeld
<1>1. /\ dir.loc[i] \in Locations /\ RecordAt(dir.loc[i]).id = i
      /\ dir.loc[i][2] < lists[dir.loc[i][1]].size
  BY DEF EraseAccepted, LocatedForErase, RecordsConfirmErase
<1>2. PICK l \in Lists, s \in Nat : dir.loc[i] = <<l, s>>
  BY <1>1, LocationPair
<1>3. l \notin torn
  BY <1>2 DEF ErasedLists
<1>4. s \in 0 .. (lists[l].size - 1) /\ file[l].rec[s].id = i
  BY <1>1, <1>2, ListTypes DEF IndexInv, RecordAt
<1>5. i \in HeldIn(l)
  BY <1>3, <1>4, IdleServed DEF RowsServed
<1>6. QED
  BY <1>5 DEF HeldIn

\* An erase that passes every check of erase_batch names only IDs the callers
\* hold, whatever entries failed inserts have left in the directory.
THEOREM ErasesHeld == Spec => []EraseOnlyHeld
<1>1. QED
  BY EraseNamesHeld, IndexInvariant, PTL

(***************************************************************************)
(* Every erase of rows that are held has its swap plan.                    *)
(***************************************************************************)
Ascending(S) == {x \in S \X S : x[1] < x[2]}
Descending(S) == {x \in S \X S : x[1] > x[2]}

\* Two sets of as many numbers can be paired, the one from its least number up,
\* the other from its greatest down.
LEMMA DescendingPairs ==
  ASSUME NEW H, NEW S, IsFiniteSet(H), IsFiniteSet(S),
         H \subseteq Nat, S \subseteq Nat, Cardinality(H) = Cardinality(S)
  PROVE  \E f \in [H -> S] : /\ {f[h] : h \in H} = S
                             /\ \A h, g \in H : h < g => f[h] > f[g]
<1> DEFINE up(h) == Rank(H, Ascending(H), h)
           down(s) == Rank(S, Descending(S), s)
           f == [h \in H |-> CHOOSE s \in S : down(s) = up(h)]
           k == Cardinality(H)
<1>1. /\ k \in Nat /\ \A h \in H : up(h) \in 0 .. k - 1
      /\ \A h, g \in H : h < g <=> up(h) < up(g)
      /\ \A n \in 0 .. k - 1 : \E h \in H : up(h) = n
  <2>1. \A x, y \in H : <<x, y>> \in Ascending(H) <=> x < y
    BY DEF Ascending
  <2>2. /\ \A x \in H : <<x, x>> \notin Ascending(H)
        /\ \A x, y, z \in H : <<x, y>> \in Ascending(H) /\ <<y, z>> \in Ascending(H)
                                => <<x, z>> \in Ascending(H)
        /\ \A x, y \in H : x # y => <<x, y>> \in Ascending(H)
                                    \/ <<y, x>> \in Ascending(H)
    BY <2>1
  <2>3. QED
    BY <2>1, <2>2, Ranks
<1>2. /\ \A s \in S : down(s) \in 0 .. k - 1
      /\ \A s, t \in S : s > t <=> down(s) < down(t)
      /\ \A s, t \in S : down(s) = down(t) => s = t
      /\ \A n \in 0 .. k - 1 : \E s \in S : down(s) = n
  <2>1. \A x, y \in S : <<x, y>> \in Descending(S) <=> x > y
    BY DEF Descending
  <2>2. /\ \A x \in S : <<x, x>> \notin Descending(S)
        /\ \A x, y, z \in S : <<x, y>> \in Descending(S) /\ <<y, z>> \in Descending(S)
                                => <<x, z>> \in Descending(S)
        /\ \A x, y \in S : x # y => <<x, y>> \in Descending(S)
                                    \/ <<y, x>> \in Descending(S)
    BY <2>1
  <2>3. /\ \A x \in S : down(x) \in 0 .. Cardinality(S) - 1
        /\ \A x, y \in S : <<x, y>> \in Descending(S) <=> down(x) < down(y)
        /\ \A x, y \in S : down(x) = down(y) => x = y
        /\ \A n \in 0 .. Cardinality(S) - 1 : \E x \in S : down(x) = n
    BY <2>2, Ranks
  <2> HIDE DEF down
  <2>4. QED
    BY <2>1, <2>3
<1> HIDE DEF up, down, k
<1>3. \A h \in H : f[h] \in S /\ down(f[h]) = up(h)
  BY <1>1, <1>2
<1>4. f \in [H -> S]
  BY <1>3
<1> HIDE DEF f
<1>5. {f[h] : h \in H} = S
  <2>1. ASSUME NEW s \in S PROVE \E h \in H : f[h] = s
    <3>1. PICK h \in H : up(h) = down(s)
      BY <1>1, <1>2
    <3>2. QED
      BY <1>2, <1>3, <3>1
  <2>2. QED
    BY <1>3, <2>1
<1>6. ASSUME NEW h \in H, NEW g \in H, h < g PROVE f[h] > f[g]
  <2>1. up(h) < up(g)
    BY <1>1, <1>6
  <2>2. f[h] \in S /\ f[g] \in S /\ down(f[h]) < down(f[g])
    BY <1>3, <2>1
  <2>3. QED
    BY <1>2, <2>2
<1>7. QED
  BY <1>4, <1>5, <1>6

\* When n rows lose those of A, as many fall below the new size as there are
\* others past it.
LEMMA HolesBySources ==
  ASSUME NEW n \in Nat, NEW A, A \subseteq 0 .. n - 1
  PROVE  LET m == n - Cardinality(A)
             H == {s \in A : s < m}
             S == {s \in (0 .. n - 1) \ A : m <= s}
         IN  /\ Cardinality(A) \in Nat /\ m \in Nat
             /\ IsFiniteSet(H) /\ IsFiniteSet(S) /\ Cardinality(H) = Cardinality(S)
<1> DEFINE m == n - Cardinality(A)
           H == {s \in A : s < m}
           S == {s \in (0 .. n - 1) \ A : m <= s}
           both == {s \in A : m <= s}
           T == m .. n - 1
<1>1. /\ IsFiniteSet(0 .. n - 1) /\ Cardinality(0 .. n - 1) = n
  BY FS_Interval
<1>2. /\ IsFiniteSet(A) /\ Cardinality(A) \in Nat /\ Cardinality(A) <= n
  BY <1>1, FS_Subset, FS_CardinalityType
<1>3. m \in Nat
  BY <1>2
<1>4. IsFiniteSet(T) /\ Cardinality(T) = Cardinality(A)
  <2>1. n - m = Cardinality(A) /\ m <= n
    BY <1>2
  <2> HIDE DEF m
  <2>2. IsFiniteSet(T) /\ Cardinality(T) = n - m
    <3>1. n - 1 \in Int /\ m \in Int
      BY <1>3
    <3>2. /\ IsFiniteSet(T)
          /\ Cardinality(T) = IF m > n - 1 THEN 0 ELSE (n - 1) - m + 1
      BY <3>1, FS_Interval
    <3>3. QED
      BY <1>3, <2>1, <3>2
  <2>3. QED
    BY <2>1, <2>2
<1> HIDE DEF m
<1>5. A = H \cup both /\ H \cap both = {} /\ T = S \cup both /\ S \cap both = {}
  <2>1. \A s \in A : s \in Int /\ s <= n - 1 /\ (s < m <=> ~(m <= s))
    BY <1>3
  <2>2. \A s : s \in T <=> s \in 0 .. n - 1 /\ m <= s
    BY <1>3
  <2>3. A = H \cup both /\ H \cap both = {}
    BY <2>1
  <2> HIDE DEF T
  <2>4. T = S \cup both /\ S \cap both = {}
    BY <2>2
  <2>5. QED
    BY <2>3, <2>4
<1>6. IsFiniteSet(H) /\ IsFiniteSet(S) /\ IsFiniteSet(both)
  <2>1. H \subseteq A /\ both \subseteq A /\ S \subseteq T
    BY <1>5
  <2>2. QED
    BY <1>2, <1>4, <2>1, FS_Subset
<1> HIDE DEF H, S, both, T
<1>7. /\ Cardinality(A) = Cardinality(H) + Cardinality(both)
      /\ Cardinality(T) = Cardinality(S) + Cardinality(both)
      /\ Cardinality(H) \in Nat /\ Cardinality(S) \in Nat /\ Cardinality(both) \in Nat
  BY <1>5, <1>6, PartsAddUp
<1>8. Cardinality(H) = Cardinality(S)
  BY <1>4, <1>7
<1>9. QED
  BY <1>2, <1>3, <1>6, <1>8 DEF m, H, S

\* The lists whose files have the pages of their rows.
Exact == {l \in Lists \ torn : MutationSizeOK(file[l], lists[l].size)}

\* Where the directory finds a row that is held in such a list.
LEMMA HeldLocation ==
  ASSUME IndexInv, phase = "idle", NEW l \in Exact, NEW i \in HeldIn(l)
  PROVE  /\ dir.loc[i] \in Locations /\ dir.loc[i][1] = l
         /\ dir.loc[i][2] < lists[l].size
         /\ RecordAt(dir.loc[i]).id = i /\ EntryPage(i) < dir.pages
<1>1. l \in Lists /\ l \notin torn /\ i \in Ids /\ PlanInv
  BY HeldIds DEF Exact, IndexInv
<1>2. HeldServed(l)
  BY <1>1, IdleServed
<1>3. /\ EntryPage(i) < dir.pages /\ dir.loc[i][1] = l
      /\ dir.loc[i][2] \in 0 .. (lists[l].size - 1)
      /\ file[l].rec[dir.loc[i][2]].id = i
  BY <1>2 DEF HeldServed
<1>4. dir.loc[i] \in Locations \cup {Tombstone} /\ lists[l].size \in Nat
  BY <1>1, ListTypes
<1>5. l # IdLimit
  BY <1>1, NumListsAssumption, IdLimitAssumption DEF Lists
<1>6. dir.loc[i] \in Locations
  BY <1>3, <1>4, <1>5 DEF Tombstone
<1>7. QED
  BY <1>3, <1>4, <1>6 DEF RecordAt

\* What an erase of held rows of such lists is asked for.
Asked(E) ==
  /\ E \in SUBSET Ids /\ E # {}
  /\ \A i \in E : \E l \in Exact : i \in HeldIn(l)

\* The directory leads from every id asked for to the row that has it.
LEMMA AskedLocations ==
  ASSUME IndexInv, phase = "idle", NEW E, Asked(E), NEW i \in E
  PROVE  /\ dir.loc[i] \in Locations /\ dir.loc[i][1] \in Exact
         /\ dir.loc[i][2] < lists[dir.loc[i][1]].size
         /\ RecordAt(dir.loc[i]).id = i /\ EntryPage(i) < dir.pages
<1>1. PICK l \in Exact : i \in HeldIn(l)
  BY DEF Asked
<1>2. QED
  BY <1>1, HeldLocation

\* The slots an erase empties in a list are as many as the rows it erases there.
ErasedSlots(E, l) == {s \in Slots : <<l, s>> \in ErasedLocations(E)}

\* The slots an erase empties are rows of the list, as many as are erased.
LEMMA ErasedSlotsCount ==
  ASSUME IndexInv, phase = "idle", NEW E, Asked(E), NEW l \in Lists
  PROVE  /\ ErasedSlots(E, l) \subseteq 0 .. lists[l].size - 1
         /\ Cardinality(ErasedFrom(E, l)) = Cardinality(ErasedSlots(E, l))
<1> DEFINE at == [i \in ErasedFrom(E, l) |-> dir.loc[i][2]]
<1>1. lists[l].size \in Nat
  BY ListTypes DEF IndexInv
<1>2. ASSUME NEW i \in ErasedFrom(E, l)
      PROVE  /\ i \in E /\ dir.loc[i] = <<l, at[i]>> /\ at[i] \in Slots
             /\ at[i] \in Nat /\ at[i] < lists[l].size
             /\ RecordAt(<<l, at[i]>>).id = i
  <2>1. i \in E /\ dir.loc[i][1] = l
    BY DEF ErasedFrom
  <2>2. /\ dir.loc[i] \in Locations /\ dir.loc[i][2] < lists[l].size
        /\ RecordAt(dir.loc[i]).id = i
    BY <2>1, AskedLocations
  <2>3. QED
    BY <2>1, <2>2, LocationPair
<1>3. ASSUME NEW s \in ErasedSlots(E, l)
      PROVE  \E i \in ErasedFrom(E, l) : at[i] = s
  <2>1. PICK i \in E : dir.loc[i] = <<l, s>>
    BY DEF ErasedSlots, ErasedLocations
  <2>2. i \in ErasedFrom(E, l)
    BY <2>1 DEF ErasedFrom
  <2>3. QED
    BY <2>1, <2>2
<1>4. \A i \in ErasedFrom(E, l) : at[i] \in ErasedSlots(E, l)
  BY <1>2 DEF ErasedSlots, ErasedLocations
<1>5. \A i, j \in ErasedFrom(E, l) : at[i] = at[j] => i = j
  BY <1>2
<1>6. IsFiniteSet(ErasedFrom(E, l))
  <2>1. IsFiniteSet(Ids)
    BY IdLimitAssumption, FS_Interval DEF Ids
  <2>2. ErasedFrom(E, l) \subseteq Ids
    BY DEF ErasedFrom, Asked
  <2>3. QED
    BY <2>1, <2>2, FS_Subset
<1>7. ASSUME NEW s \in ErasedSlots(E, l) PROVE s \in 0 .. lists[l].size - 1
  <2>1. PICK i \in ErasedFrom(E, l) : at[i] = s
    BY <1>3
  <2>2. s \in Nat /\ s < lists[l].size
    BY <1>2, <2>1
  <2>3. QED
    BY <1>1, <2>2
<1>8. at \in [ErasedFrom(E, l) -> ErasedSlots(E, l)]
  BY <1>4
<1> HIDE DEF at
<1>9. Cardinality(ErasedSlots(E, l)) = Cardinality(ErasedFrom(E, l))
  <2>1. ErasedSlots(E, l) \subseteq {at[i] : i \in ErasedFrom(E, l)}
    BY <1>3
  <2>2. QED
    BY <1>5, <1>6, <1>8, <2>1, Counted
<1>10. QED
  BY <1>7, <1>9

\* The checks of erase_batch let such an erase pass.
LEMMA AskedAccepted ==
  ASSUME IndexInv, CountInv, phase = "idle", ~dir.ragged, NEW E, Asked(E)
  PROVE  EraseAccepted(E)
<1>1. LocatedForErase(E)
  BY AskedLocations DEF LocatedForErase, InDirectory
<1>2. \A i, j \in E : dir.loc[i] = dir.loc[j] => i = j
  <2>1. \A i \in E : RecordAt(dir.loc[i]).id = i
    BY AskedLocations
  <2>2. QED
    BY <2>1
<1>3. ErasedLists(E) \subseteq Exact /\ Exact \subseteq Lists
  BY AskedLocations DEF ErasedLists, Exact
<1>4. SlotsDistinct(E)
  <2>1. ASSUME NEW l \in ErasedLists(E)
        PROVE  Cardinality(ErasedFrom(E, l)) <= lists[l].size
    <3>1. l \in Lists /\ lists[l].size \in Nat
      BY <1>3, ListTypes DEF IndexInv
    <3>2. /\ ErasedSlots(E, l) \subseteq 0 .. lists[l].size - 1
          /\ Cardinality(ErasedFrom(E, l)) = Cardinality(ErasedSlots(E, l))
      BY <3>1, ErasedSlotsCount
    <3>3. lists[l].size - Cardinality(ErasedSlots(E, l)) \in Nat
          /\ Cardinality(ErasedSlots(E, l)) \in Nat
      BY <3>1, <3>2, HolesBySources
    <3>4. QED
      BY <3>1, <3>2, <3>3
  <2>2. QED
    BY <1>2, <2>1 DEF SlotsDistinct
<1>5. RecordsConfirmErase(E)
  BY <1>3, AskedLocations DEF RecordsConfirmErase, Exact
<1>6. SourcesConfirmMove(E)
  <2>1. ASSUME NEW x \in Sources(E)
        PROVE  InDirectory(dir, RecordAt(x).id) /\ dir.loc[RecordAt(x).id] = x
    <3>1. /\ x \in Locations /\ x[1] \in ErasedLists(E) /\ x[2] < lists[x[1]].size
      BY DEF Sources
    <3>2. /\ x[1] \in Lists /\ x[1] \notin torn /\ x[2] \in Nat /\ x = <<x[1], x[2]>>
      BY <1>3, <3>1, LocationPair DEF Exact
    <3>3. RowsServed(x[1]) /\ HeldServed(x[1])
      BY <3>2, IdleServed
    <3>4. lists[x[1]].size \in Nat
      BY <3>2, ListTypes DEF IndexInv
    <3>5. x[2] \in 0 .. lists[x[1]].size - 1
      BY <3>1, <3>2, <3>4
    <3>6. RecordAt(x).id \in HeldIn(x[1]) /\ dir.loc[RecordAt(x).id] = x
      BY <3>2, <3>3, <3>5 DEF RowsServed, RecordAt
    <3>7. EntryPage(RecordAt(x).id) < dir.pages
      BY <3>3, <3>6 DEF HeldServed
    <3>8. QED
      BY <3>6, <3>7 DEF InDirectory
  <2>2. QED
    BY <2>1 DEF SourcesConfirmMove
<1>7. Cardinality(E) <= active_count
  <2> DEFINE at == [i \in E |-> dir.loc[i]]
  <2>1. IsFiniteSet(E)
    <3>1. IsFiniteSet(Ids)
      BY IdLimitAssumption, FS_Interval DEF Ids
    <3>2. QED
      BY <3>1, FS_Subset DEF Asked
  <2>2. ErasedLocations(E) \subseteq Rows(Sizes)
    BY AskedLocations, LocationPair DEF ErasedLocations, Rows, Sizes
  <2>3. at \in [E -> ErasedLocations(E)] /\ ErasedLocations(E) = {at[i] : i \in E}
    BY DEF ErasedLocations
  <2>4. \A i, j \in E : at[i] = at[j] => i = j
    BY <1>2
  <2> HIDE DEF at
  <2>5. IsFiniteSet(ErasedLocations(E))
        /\ Cardinality(ErasedLocations(E)) = Cardinality(E)
    BY <2>1, <2>3, <2>4, Counted
  <2>6. Cardinality(ErasedLocations(E)) <= Cardinality(Rows(Sizes))
    BY <2>2, RowsFinite, FS_Subset
  <2>7. QED
    BY <2>5, <2>6 DEF CountInv
<1>8. QED
  BY <1>1, <1>4, <1>5, <1>6, <1>7 DEF EraseAccepted, Asked

\* And its rows can be moved.
LEMMA AskedMoves ==
  ASSUME IndexInv, phase = "idle", NEW E, Asked(E)
  PROVE  \E from \in [Holes(E) -> Sources(E)] : IsMovePlan(E, from)
<1> DEFINE H(l) == {s \in ErasedSlots(E, l) : s < ShrunkSize(E, l)}
           S(l) == {s \in (0 .. lists[l].size - 1) \ ErasedSlots(E, l) :
                      ShrunkSize(E, l) <= s}
           Pairs(l, f) == /\ f \in [H(l) -> S(l)] /\ {f[h] : h \in H(l)} = S(l)
                          /\ \A h, g \in H(l) : h < g => f[h] > f[g]
           pair == [l \in Lists |-> CHOOSE f : Pairs(l, f)]
           from == [x \in Holes(E) |-> <<x[1], pair[x[1]][x[2]]>>]
<1>1. ErasedLists(E) \subseteq Lists /\ \A l \in Lists : l \in Exact => l \notin torn
  BY AskedLocations DEF ErasedLists, Exact
<1>2. ASSUME NEW l \in Lists PROVE \E f : Pairs(l, f)
  <2>1. lists[l].size \in Nat
    BY ListTypes DEF IndexInv
  <2>2. /\ ErasedSlots(E, l) \subseteq 0 .. lists[l].size - 1
        /\ ShrunkSize(E, l) = lists[l].size - Cardinality(ErasedSlots(E, l))
    BY ErasedSlotsCount DEF ShrunkSize
  <2>3. IsFiniteSet(H(l)) /\ IsFiniteSet(S(l)) /\ Cardinality(H(l)) = Cardinality(S(l))
    <3> DEFINE n == lists[l].size
               A == ErasedSlots(E, l)
               m == n - Cardinality(A)
    <3>1. /\ IsFiniteSet({s \in A : s < m})
          /\ IsFiniteSet({s \in (0 .. n - 1) \ A : m <= s})
          /\ Cardinality({s \in A : s < m})
               = Cardinality({s \in (0 .. n - 1) \ A : m <= s})
      BY <2>1, <2>2, HolesBySources
    <3>2. ShrunkSize(E, l) = m
      BY <2>2
    <3>3. QED
      BY <3>1, <3>2
  <2>4. H(l) \subseteq Nat /\ S(l) \subseteq Nat
    BY <2>2
  <2> HIDE DEF H, S
  <2>5. \E f \in [H(l) -> S(l)] : /\ {f[h] : h \in H(l)} = S(l)
                                  /\ \A h, g \in H(l) : h < g => f[h] > f[g]
    BY <2>3, <2>4, DescendingPairs
  <2>6. QED
    BY <2>5
<1>3. \A l \in Lists : Pairs(l, pair[l])
  <2> HIDE DEF Pairs
  <2>1. QED
    BY <1>2
<1>4. ASSUME NEW x \in Holes(E)
      PROVE  /\ x[1] \in Lists /\ x[1] \in ErasedLists(E) /\ x = <<x[1], x[2]>>
             /\ x[2] \in H(x[1])
  <2>1. PICK i \in E : x = dir.loc[i] /\ x[2] < ShrunkSize(E, x[1])
    BY DEF Holes, ErasedLocations
  <2>2. x \in Locations
    BY <2>1, AskedLocations
  <2>3. x[1] \in Lists /\ x[2] \in Slots /\ x = <<x[1], x[2]>>
    BY <2>2, LocationPair
  <2>4. x[1] \in ErasedLists(E) /\ <<x[1], x[2]>> \in ErasedLocations(E)
    BY <2>1, <2>3 DEF ErasedLists, ErasedLocations
  <2>5. QED
    BY <2>1, <2>3, <2>4 DEF ErasedSlots
<1>5. ASSUME NEW l \in ErasedLists(E), NEW s \in S(l)
      PROVE  <<l, s>> \in Sources(E)
  <2>1. l \in Lists /\ l \in Exact /\ lists[l].size \in Nat
    <3>1. l \in Lists /\ l \in Exact
      BY AskedLocations DEF ErasedLists, Exact
    <3>2. QED
      BY <3>1, ListTypes DEF IndexInv
  <2>2. RowsServed(l)
    BY <2>1, IdleServed DEF Exact
  <2>3. s \in Slots /\ s < lists[l].size /\ ShrunkSize(E, l) <= s
    BY <2>1, <2>2, ServedSlots DEF IndexInv
  <2>4. <<l, s>> \notin ErasedLocations(E)
    BY <2>3 DEF ErasedSlots
  <2>5. QED
    BY <2>1, <2>3, <2>4 DEF Sources, Locations
<1>6. ASSUME NEW y \in Sources(E)
      PROVE  /\ y[1] \in Lists /\ y[1] \in ErasedLists(E) /\ y = <<y[1], y[2]>>
             /\ y[2] \in S(y[1])
  <2>1. /\ y \in Locations /\ y \notin ErasedLocations(E) /\ y[1] \in ErasedLists(E)
        /\ ShrunkSize(E, y[1]) <= y[2] /\ y[2] < lists[y[1]].size
    BY DEF Sources
  <2>2. y[1] \in Lists /\ y[2] \in Nat /\ y = <<y[1], y[2]>>
    BY <2>1, LocationPair
  <2>3. lists[y[1]].size \in Nat
    BY <2>2, ListTypes DEF IndexInv
  <2>4. y[2] \in 0 .. lists[y[1]].size - 1
    BY <2>1, <2>2, <2>3
  <2>5. y[2] \notin ErasedSlots(E, y[1])
    BY <2>1, <2>2 DEF ErasedSlots
  <2>6. QED
    BY <2>1, <2>2, <2>4, <2>5
<1> HIDE DEF H, S, pair
<1>7. ASSUME NEW l \in ErasedLists(E), NEW s \in H(l)
      PROVE  <<l, s>> \in Holes(E)
  BY DEF H, ErasedSlots, Holes
<1>8. from \in [Holes(E) -> Sources(E)]
  <2>1. ASSUME NEW x \in Holes(E) PROVE from[x] \in Sources(E)
    <3>1. pair[x[1]][x[2]] \in S(x[1])
      BY <1>3, <1>4
    <3>2. QED
      BY <1>4, <1>5, <3>1
  <2>2. QED
    BY <2>1
<1>9. {from[h] : h \in Holes(E)} = Sources(E)
  <2>1. ASSUME NEW y \in Sources(E) PROVE \E x \in Holes(E) : from[x] = y
    <3>1. PICK s \in H(y[1]) : pair[y[1]][s] = y[2]
      BY <1>3, <1>6
    <3>2. <<y[1], s>> \in Holes(E)
      BY <1>6, <1>7
    <3>3. from[<<y[1], s>>] = y
      BY <1>6, <3>1, <3>2
    <3>4. QED
      BY <3>2, <3>3
  <2>2. QED
    BY <1>8, <2>1
<1>10. \A h \in Holes(E) : from[h][1] = h[1]
  OBVIOUS
<1>11. ASSUME NEW h \in Holes(E), NEW g \in Holes(E), h[1] = g[1], h[2] < g[2]
       PROVE  from[h][2] > from[g][2]
  BY <1>3, <1>4, <1>11
<1>12. QED
  BY <1>8, <1>9, <1>10, <1>11 DEF IsMovePlan

\* Whatever updates have failed, what the callers hold in lists that are whole can
\* be erased: every check of erase_batch passes and the rows can be moved.
THEOREM EverythingHeldErasable == Spec => []HeldErasable
<1>1. IndexInv /\ CountInv => HeldErasable
  <2> SUFFICES ASSUME IndexInv, CountInv, phase = "idle", ~dir.ragged,
                      NEW E \in SUBSET UNION {HeldIn(l) : l \in Exact}, E # {}
               PROVE  /\ EraseAccepted(E)
                      /\ \E from \in [Holes(E) -> Sources(E)] : IsMovePlan(E, from)
    BY DEF HeldErasable, Exact
  <2>1. Asked(E)
    BY HeldIds DEF Asked, Exact
  <2>2. QED
    BY <2>1, AskedAccepted, AskedMoves
<1>2. Spec => []CountInv
  BY CountInvInit, CountInvNext, PlanInvariant, PTL DEF Spec
<1>3. QED
  BY <1>1, <1>2, IndexInvariant, PTL

(***************************************************************************)
(* ExternalListIndex implements AbstractIndex.  IndexInv says that the     *)
(* rows read from a settled list's file are the rows the callers hold IDs  *)
(* of, so the mapped rows move only when told or torn does: when an update *)
(* is published and when an erase fails.  BatchExact says what the         *)
(* publication then does.                                                  *)
(***************************************************************************)
\* On every list that is not torn, the mapped rows are those the callers hold.
RowsMapped ==
  IndexRows = [l \in Lists |-> IF l \in torn THEN {} ELSE RowsOwed(l)]

\* The mapped rows are the rows owed on every list that is not torn.
LEMMA RowsAreOwed == IndexInv => RowsMapped
<1> SUFFICES ASSUME IndexInv PROVE RowsMapped
  OBVIOUS
<1>1. ASSUME NEW l \in Lists \ torn, Settled(l)
      PROVE  RowsOnFile(l) = RowsOwed(l)
  <2>1. RowsServed(l) /\ HeldServed(l)
    BY <1>1 DEF IndexInv, ListConsistent
  <2>2. RowsOnFile(l) \subseteq RowsOwed(l)
    <3> SUFFICES ASSUME NEW s \in 0 .. (lists[l].size - 1)
                 PROVE  <<file[l].rec[s].id, file[l].rec[s].vec>> \in RowsOwed(l)
      BY DEF RowsOnFile
    <3>1. /\ file[l].rec[s].id \in HeldIn(l)
          /\ file[l].rec[s].vec = told[file[l].rec[s].id]
      BY <2>1 DEF RowsServed
    <3>2. QED
      BY <3>1 DEF RowsOwed
  <2>3. RowsOwed(l) \subseteq RowsOnFile(l)
    <3> SUFFICES ASSUME NEW i \in HeldIn(l) PROVE <<i, told[i]>> \in RowsOnFile(l)
      BY DEF RowsOwed
    <3>1. PICK s \in 0 .. (lists[l].size - 1) : file[l].rec[s].id = i
      BY <2>1 DEF HeldServed
    <3>2. file[l].rec[s].vec = told[file[l].rec[s].id]
      BY <2>1 DEF RowsServed
    <3>3. QED
      BY <3>1, <3>2 DEF RowsOnFile
  <2>4. QED
    BY <2>2, <2>3
<1>2. QED
  BY <1>1 DEF RowsMapped, IndexRows

\* So they are before and after a step.
LEMMA RowsMappedBoth ==
  ASSUME IndexInv, IndexInv'
  PROVE  RowsMapped /\ RowsMapped'
<1>1. RowsMapped
  BY RowsAreOwed
<1>2. IndexInv' => RowsMapped'
  BY RowsAreOwed, PTL
<1>3. QED
  BY <1>1, <1>2

\* The steps that matter to the callers, and what all the others leave alone.
LEMMA StepKinds ==
  ASSUME PlanInv, [Next]_vars
  PROVE  \/ Insert \/ Erase \/ PublishInsert \/ PublishErase
         \/ /\ UNCHANGED <<told, next_id, torn, plan>>
            /\ phase' # "idle" => phase # "idle"
         \/ /\ UNCHANGED <<told, next_id>>
            /\ \E L \in SUBSET Lists : torn' = torn \cup L
            /\ phase' = "idle"
<1>1. ASSUME NEW l \in Lists, ListStep(l) \/ ListFailure(l)
      PROVE  UNCHANGED <<told, next_id, torn, plan, phase>>
  BY <1>1 DEF ListStep, ListFailure, AppendOpen, AppendPage, AppendClose,
              CommitOpen, CommitPage, CommitClose, RecordRefused, AppendTorn,
              CommitTorn, RecordCallFails, batchVars, callVars
<1>2. CASE RecordsDone \/ DirectoryPage
  BY <1>2 DEF RecordsDone, DirectoryPage, callVars
<1>3. CASE RecordsFailed \/ DirectoryRefused \/ DirectoryTorn \/ DirectoryCallFails
  <2>1. begun \in SUBSET Lists
    BY DEF PlanInv, TypeOK
  <2>2. QED
    BY <1>3, <2>1 DEF RecordsFailed, DirectoryRefused, DirectoryTorn,
                      DirectoryCallFails, EndBatch, callVars
<1>4. CASE UNCHANGED vars
  BY <1>4 DEF vars
<1>5. QED
  BY <1>1, <1>2, <1>3, <1>4 DEF Next, UpdateStep, UpdateFailure

\* Every step preserves BatchExact.
LEMMA BatchExactNext ==
  ASSUME IndexInv, BatchExact, [Next]_vars
  PROVE  BatchExact'
<1>1. PlanInv
  BY DEF IndexInv
<1>2. CASE Insert
  <2>1. PICK n \in 1 .. MaxBatch : \E v \in [1 .. n -> Vecs] : InsertBegin(n, v)
    BY <1>2 DEF Insert
  <2>2. PICK vecs \in [1 .. n -> Vecs] : InsertBegin(n, vecs)
    BY <2>1
  <2>3. PICK slot \in [1 .. n -> Slots] :
          /\ IsPlacement(vecs, slot)
          /\ BeginBatch(InsertPlan(vecs, slot), {Assign[vecs[i]] : i \in 1 .. n})
    BY <2>2, Zenon DEF InsertBegin
  <2>4. n <= IdLimit - next_id /\ next_id' = next_id
    BY <2>2 DEF InsertBegin, IdsLeft
  <2>5. n \in Nat /\ n > 0 /\ next_id \in Nat
    BY <1>1, MaxBatchAssumption, IdLimitAssumption DEF PlanInv, TypeOK
  <2>6. Cardinality(DOMAIN vecs) = n
    BY <2>5, FS_Interval
  <2>7. /\ plan'.kind = "insert" /\ plan'.count = n
        /\ plan'.rows = InsertRows(vecs, slot)
    BY <2>3, <2>6 DEF BeginBatch, InsertPlan
  <2>8. \A i \in 1 .. n : \E x \in DOMAIN InsertRows(vecs, slot) :
          InsertRows(vecs, slot)[x].id = next_id + i - 1
    BY <1>1, <2>3, <2>4, InsertPlanFacts
  <2>9. ASSUME NEW i \in next_id .. (next_id + n - 1)
        PROVE  \E x \in DOMAIN InsertRows(vecs, slot) :
                 InsertRows(vecs, slot)[x].id = i
    <3>1. i - next_id + 1 \in 1 .. n /\ next_id + (i - next_id + 1) - 1 = i
      BY <2>5
    <3>2. QED
      BY <2>8, <3>1
  <2>10. QED
    BY <2>4, <2>5, <2>7, <2>9 DEF BatchExact, Busy
<1>3. CASE Erase
  <2>1. PICK E \in SUBSET Ids : EraseBegin(E)
    BY <1>3 DEF Erase
  <2>2. /\ phase = "idle" /\ EraseAccepted(E) /\ told' = told /\ torn' = torn
        /\ plan'.kind = "erase" /\ plan'.erased = E
    BY <2>1 DEF EraseBegin, BeginBatch, ErasePlan, callVars
  <2>3. torn # {} \/ \A i \in E : told[i] # Absent
    <3> SUFFICES ASSUME torn = {} PROVE \A i \in E : told[i] # Absent
      OBVIOUS
    <3>1. EraseOnlyHeld
      BY EraseNamesHeld
    <3>2. QED
      BY <2>2, <3>1 DEF EraseOnlyHeld
  <2>4. QED
    BY <2>2, <2>3 DEF BatchExact, Busy
<1>4. CASE PublishInsert \/ PublishErase
  BY <1>4 DEF PublishInsert, PublishErase, EndBatch, BatchExact, Busy
<1>5. CASE /\ UNCHANGED <<told, next_id, torn, plan>>
           /\ phase' # "idle" => phase # "idle"
  BY <1>5 DEF BatchExact, Busy
<1>6. CASE phase' = "idle"
  BY <1>6 DEF BatchExact, Busy
<1>7. QED
  BY <1>1, <1>2, <1>3, <1>4, <1>5, <1>6, StepKinds

\* The publication of an insert is the abstract one of the vectors whose IDs it
\* hands out: each is in the list it was routed to, and nothing else has moved.
LEMMA PublishInsertImplements ==
  ASSUME IndexInv, IndexInv', BatchExact, PublishInsert
  PROVE  Abstract!Next
<1> DEFINE n == plan.count
           rowOf(i) == CHOOSE x \in DOMAIN plan.rows : plan.rows[x].id = next_id + i - 1
           vecs == [i \in 1 .. n |-> plan.rows[rowOf(i)].vec]
           new(l) == {<<next_id + i - 1, vecs[i]>> :
                        i \in {j \in 1 .. n : Assign[vecs[j]] = l}}
<1>1. /\ PlanInv /\ phase # "idle" /\ Busy("insert") /\ UpdatesDistinct
      /\ next_id' = next_id + n /\ torn' = torn
  BY DEF IndexInv, PublishInsert, Busy, PlanInv, BatchFits
<1>2. /\ n \in Nat /\ n > 0 /\ next_id \in Nat /\ IdLimit \in Nat
      /\ next_id + n <= IdLimit /\ n \in 1 .. IdLimit
  BY <1>1, IdLimitAssumption DEF BatchExact, PlanInv, TypeOK, InsertFits
<1>3. /\ \A i \in Ids : told[i] # Absent => i < next_id
      /\ \A x \in DOMAIN plan.rows :
           /\ plan.rows[x].id \in next_id .. (next_id + n - 1)
           /\ plan.rows[x].vec \in Vecs
           /\ plan.rows[x].vec # Absent
  BY <1>1, AbsentAssumption DEF PlanInv, ListsFit, InsertFits
<1>4. ASSUME NEW i \in 1 .. n
      PROVE  /\ rowOf(i) \in DOMAIN plan.rows
             /\ plan.rows[rowOf(i)].id = next_id + i - 1
             /\ vecs[i] = plan.rows[rowOf(i)].vec /\ vecs[i] \in Vecs
             /\ next_id + i - 1 \in Ids /\ vecs[i] # Absent
  <2>1. next_id + i - 1 \in next_id .. (next_id + n - 1) /\ next_id + i - 1 \in Ids
    BY <1>2 DEF Ids
  <2>2. \E x \in DOMAIN plan.rows : plan.rows[x].id = next_id + i - 1
    BY <1>1, <2>1 DEF BatchExact
  <2>3. QED
    BY <1>3, <2>1, <2>2
<1>5. vecs \in [1 .. n -> Vecs]
  BY <1>4
<1> HIDE DEF rowOf, vecs
<1>6. ASSUME NEW i \in 1 .. n
      PROVE  told'[next_id + i - 1] = vecs[i]
  <2>1. told'[next_id + i - 1] =
          plan.rows[CHOOSE x \in DOMAIN plan.rows :
                      plan.rows[x].id = next_id + i - 1].vec
    BY <1>4 DEF PublishInsert
  <2>2. QED
    BY <1>4, <2>1 DEF rowOf
<1>7. ASSUME NEW i \in Ids, i < next_id
      PROVE  told'[i] = told[i]
  <2>1. ~ \E x \in DOMAIN plan.rows : plan.rows[x].id = i
    BY <1>2, <1>3, <1>7 DEF Ids
  <2>2. QED
    BY <2>1 DEF PublishInsert
<1>8. ASSUME NEW i \in Ids, i >= next_id, told'[i] # Absent
      PROVE  i - next_id + 1 \in 1 .. n /\ i = next_id + (i - next_id + 1) - 1
  <2>1. \E x \in DOMAIN plan.rows : plan.rows[x].id = i
    <3> SUFFICES ASSUME ~ \E x \in DOMAIN plan.rows : plan.rows[x].id = i
                 PROVE  FALSE
      OBVIOUS
    <3>1. told'[i] = told[i]
      BY DEF PublishInsert
    <3>2. QED
      BY <1>2, <1>3, <1>8, <3>1 DEF Ids
  <2>2. i \in next_id .. (next_id + n - 1)
    BY <1>3, <2>1
  <2>3. QED
    BY <1>2, <2>2
<1>9. ASSUME NEW l \in Lists
      PROVE  RowsOwed(l)' = RowsOwed(l) \cup new(l)
  <2>1. ASSUME NEW i \in HeldIn(l)'
        PROVE  <<i, told'[i]>> \in RowsOwed(l) \cup new(l)
    <3>1. i \in Ids /\ told'[i] # Absent /\ Assign[told'[i]] = l
      BY DEF HeldIn
    <3>2. CASE i < next_id
      BY <1>7, <3>1, <3>2 DEF RowsOwed, HeldIn
    <3>3. CASE i >= next_id
      <4>1. PICK j \in 1 .. n : i = next_id + j - 1
        BY <1>8, <3>1, <3>3
      <4>2. told'[i] = vecs[j]
        BY <1>6, <4>1
      <4>3. QED
        BY <3>1, <4>1, <4>2
    <3>4. QED
      BY <1>2, <3>1, <3>2, <3>3 DEF Ids
  <2>2. ASSUME NEW i \in HeldIn(l)
        PROVE  <<i, told[i]>> \in RowsOwed(l)'
    <3>1. i \in Ids /\ told[i] # Absent /\ Assign[told[i]] = l /\ i < next_id
      BY <1>3 DEF HeldIn
    <3>2. told'[i] = told[i]
      BY <1>7, <3>1
    <3>3. i \in HeldIn(l)'
      BY <3>1, <3>2 DEF HeldIn
    <3>4. QED
      BY <3>2, <3>3 DEF RowsOwed
  <2>3. ASSUME NEW i \in 1 .. n, Assign[vecs[i]] = l
        PROVE  <<next_id + i - 1, vecs[i]>> \in RowsOwed(l)'
    <3>1. next_id + i - 1 \in HeldIn(l)'
      BY <1>4, <1>6, <2>3 DEF HeldIn
    <3>2. QED
      BY <1>6, <3>1 DEF RowsOwed
  <2>4. RowsOwed(l)' \subseteq RowsOwed(l) \cup new(l)
    BY <2>1 DEF RowsOwed
  <2>5. RowsOwed(l) \cup new(l) \subseteq RowsOwed(l)'
    BY <2>2, <2>3 DEF RowsOwed
  <2>6. QED
    BY <2>4, <2>5
<1>10. /\ IndexRows = [l \in Lists |-> IF l \in torn THEN {} ELSE RowsOwed(l)]
       /\ IndexRows' = [l \in Lists |-> IF l \in torn THEN {} ELSE RowsOwed(l)']
  BY <1>1, RowsMappedBoth DEF RowsMapped
<1> HIDE DEF new
<1>11. IndexRows' = [l \in Lists |-> IF l \in torn THEN {}
                                     ELSE IndexRows[l] \cup new(l)]
  BY <1>9, <1>10
<1>12. Abstract!Insert(n, vecs)
  BY <1>1, <1>2, <1>11 DEF Abstract!Insert, new
<1>13. QED
  BY <1>2, <1>5, <1>12 DEF Abstract!Next

\* The publication of an erase is the abstract erase of the IDs of its plan.
LEMMA PublishEraseImplements ==
  ASSUME IndexInv, IndexInv', BatchExact, PublishErase
  PROVE  Abstract!Next
<1>1. /\ PlanInv /\ Busy("erase") /\ next_id' = next_id /\ torn' = torn
      /\ told' = [i \in Ids |-> IF i \in plan.erased THEN Absent ELSE told[i]]
      /\ plan.erased \in SUBSET Ids
  BY DEF IndexInv, PublishErase, Busy, PlanInv, TypeOK
<1>2. /\ IndexRows = [l \in Lists |-> IF l \in torn THEN {} ELSE RowsOwed(l)]
      /\ IndexRows' = [l \in Lists |-> IF l \in torn THEN {} ELSE RowsOwed(l)']
  BY <1>1, RowsMappedBoth DEF RowsMapped
<1>3. ASSUME NEW l \in Lists
      PROVE  RowsOwed(l)' = {r \in RowsOwed(l) : r[1] \notin plan.erased}
  BY <1>1 DEF RowsOwed, HeldIn
<1>4. IndexRows' = [l \in Lists |->
                      {r \in IndexRows[l] : r[1] \notin plan.erased}]
  BY <1>2, <1>3
<1>5. plan.erased \subseteq Abstract!KnownIds \/ torn # {}
  <2> SUFFICES ASSUME torn = {}, NEW i \in plan.erased
               PROVE  i \in Abstract!KnownIds
    OBVIOUS
  <2>1. i \in Ids /\ told[i] # Absent /\ told[i] \in Vecs
    BY <1>1 DEF BatchExact, PlanInv, TypeOK
  <2>2. Assign[told[i]] \in Lists /\ i \in HeldIn(Assign[told[i]])
    BY <2>1, AssignAssumption DEF HeldIn
  <2>3. <<i, told[i]>> \in IndexRows[Assign[told[i]]]
    BY <1>2, <2>2 DEF RowsOwed
  <2>4. QED
    BY <2>1, <2>2, <2>3 DEF Abstract!KnownIds
<1>6. Abstract!Erase(plan.erased)
  BY <1>1, <1>4, <1>5 DEF Abstract!Erase
<1>7. QED
  BY <1>1, <1>6 DEF Abstract!Next

\* Every step of the index is a step of AbstractIndex or leaves it unchanged.
LEMMA StepImplements ==
  ASSUME IndexInv, IndexInv', BatchExact, [Next]_vars
  PROVE  [Abstract!Next]_Abstract!vars
<1>1. PlanInv
  BY DEF IndexInv
<1>2. /\ IndexRows = [l \in Lists |-> IF l \in torn THEN {} ELSE RowsOwed(l)]
      /\ IndexRows' = [l \in Lists |-> IF l \in torn' THEN {} ELSE RowsOwed(l)']
  BY RowsMappedBoth DEF RowsMapped
<1>3. ASSUME UNCHANGED told
      PROVE  \A l \in Lists : RowsOwed(l)' = RowsOwed(l)
  BY <1>3 DEF RowsOwed, HeldIn
<1>4. CASE UNCHANGED <<told, next_id, torn>>
  BY <1>2, <1>3, <1>4 DEF Abstract!vars
<1>5. CASE Insert \/ Erase
  <2>1. UNCHANGED <<told, next_id, torn>>
    BY <1>5 DEF Insert, Erase, InsertBegin, EraseBegin, callVars
  <2>2. QED
    BY <1>4, <2>1
<1>6. CASE PublishInsert
  BY <1>6, PublishInsertImplements
<1>7. CASE PublishErase
  BY <1>7, PublishEraseImplements
<1>8. ASSUME UNCHANGED <<told, next_id>>, NEW L \in SUBSET Lists,
             torn' = torn \cup L
      PROVE  Abstract!EraseFails(L)
  <2>1. IndexRows' = [l \in Lists |-> IF l \in L THEN {} ELSE IndexRows[l]]
    BY <1>2, <1>3, <1>8
  <2>2. QED
    BY <1>8, <2>1 DEF Abstract!EraseFails
<1>9. QED
  BY <1>1, <1>4, <1>5, <1>6, <1>7, <1>8, StepKinds DEF Abstract!Next

\* Whatever interleaving of file calls and failures its updates take, the index
\* is the atomic one of AbstractIndex to its callers.
THEOREM IndexImplements == Spec => ImplementsAbstract
<1>1. Init => BatchExact /\ Abstract!Init
  <2> SUFFICES ASSUME Init PROVE BatchExact /\ Abstract!Init
    OBVIOUS
  <2>1. /\ next_id = 0 /\ torn = {} /\ phase = "idle"
        /\ \A l \in Lists : RowsOwed(l) = {}
    BY DEF Init, RowsOwed, HeldIn
  <2>2. IndexRows = [l \in Lists |-> {}]
    BY <2>1, IndexInvInit, RowsAreOwed DEF RowsMapped
  <2>3. QED
    BY <2>1, <2>2 DEF BatchExact, Busy, Abstract!Init
<1>2. IndexInv /\ BatchExact /\ [Next]_vars => IndexInv' /\ BatchExact'
  BY IndexInvNext, BatchExactNext
<1>3. IndexInv /\ IndexInv' /\ BatchExact /\ [Next]_vars
        => [Abstract!Next]_Abstract!vars
  BY StepImplements
<1>4. QED
  BY <1>1, <1>2, <1>3, IndexInvInit, IndexInvNext, PTL
     DEF Spec, ImplementsAbstract, Abstract!Spec
=============================================================================

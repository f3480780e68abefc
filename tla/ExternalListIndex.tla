------------------------- MODULE ExternalListIndex -------------------------
(***************************************************************************)
(* The updates of ExternalListRecastIndex (adapters/external_list_ivf.cpp) *)
(* over its record files, its location directory and its packed postings.  *)
(*                                                                         *)
(* insert_batch and erase_batch hold the writer lock from their first to   *)
(* their last line, so one update runs at a time; inside it the touched    *)
(* lists are processed in parallel, one system call at a time, and any of  *)
(* those calls may fail.  An update that fails throws and leaves behind    *)
(* what it has written.  A call that is refused before its first effect    *)
(* changes nothing and is not a step.                                      *)
(***************************************************************************)
EXTENDS ExternalLocationDirectory

CONSTANTS
  BlockSize,     \* kUpdateBlockSize: rows of a packed block
  Assign,        \* router_.assign_pq: the list of a vector
  Codes,         \* contents of a packed lane (PQ4 code and metadata)
  Code,          \* quantizer_.encode: the lane of a vector
  EmptyLane,     \* code 0, metadata 255: a cleared lane
  GarbledLane,   \* the OR of a code into a lane that was not cleared
  Absent,        \* an ID the callers were never given, or have erased
  MaxBatch       \* bound on the rows of one batch

ASSUME BlockSizeAssumption == BlockSize \in Nat \ {0}
ASSUME AssignAssumption == Assign \in [Vecs -> Lists]
ASSUME CodeAssumption == /\ Code \in [Vecs -> Codes]
                         /\ EmptyLane \in Codes
                         /\ GarbledLane \notin Codes
ASSUME AbsentAssumption == Absent \notin Vecs
ASSUME MaxBatchAssumption == MaxBatch \in Nat \ {0}

VARIABLES
  file,          \* the record file of every list
  dir,           \* locations.bin
  lists,         \* lists_: logical_size, packed capacity and lanes in memory
  next_id,       \* next_id_
  active_count,  \* active_count_
  phase,         \* where the running update is
  plan,          \* the batch being applied (the locals of the running call)
  stage,         \* progress of every list of the batch in the record phase
  todo,          \* pages every opened list file has yet to write
  dirTodo,       \* directory pages yet to write
  begun,         \* lists whose file an erase has started to change
  told,          \* history: the vector behind every ID the callers hold
  torn           \* history: lists a failed erase left half-way

vars == <<file, dir, lists, next_id, active_count, phase, plan, stage, todo,
          dirTodo, begun, told, torn>>
callVars == <<lists, next_id, active_count, told>>

Lanes == Codes \cup {GarbledLane}
MemoryList == [size : Nat, capacity : Nat, lane : [Slots -> Lanes]]
RoundUp(n) == ((n + BlockSize - 1) \div BlockSize) * BlockSize

NoPlan == [kind |-> "none", size |-> [l \in Lists |-> 0], count |-> 0,
           rows |-> <<>>, codes |-> <<>>, erased |-> {}]

Init ==
  /\ file = [l \in Lists |-> EmptyFile]
  /\ dir = EmptyDirectory
  /\ lists = [l \in Lists |-> [size |-> 0, capacity |-> 0,
                               lane |-> [s \in Slots |-> EmptyLane]]]
  /\ next_id = 0 /\ active_count = 0
  /\ phase = "idle" /\ plan = NoPlan
  /\ stage = [l \in Lists |-> "none"]
  /\ todo = [l \in Lists |-> {}]
  /\ dirTodo = {} /\ begun = {}
  /\ told = [i \in Ids |-> Absent]
  /\ torn = {}

(***************************************************************************)
(* The batch in progress.                                                  *)
(***************************************************************************)
\* plan.touched_lists
Touched == {l \in Lists : plan.size[l] # lists[l].size}

\* The rows the batch lays down in list l, by slot.
RowsOf(l) == [s \in {t \in Slots : <<l, t>> \in DOMAIN plan.rows} |->
                plan.rows[<<l, s>>]]

\* directory_updates: tombstones for the erased IDs, locations for the others.
UpdatedIds == plan.erased \cup {plan.rows[x].id : x \in DOMAIN plan.rows}
DirectoryUpdates ==
  [i \in UpdatedIds |->
     IF i \in plan.erased THEN Tombstone
     ELSE CHOOSE x \in DOMAIN plan.rows : plan.rows[x].id = i]

\* write_batch rejects a batch that names one ID twice.
UpdatesDistinct ==
  /\ \A x, y \in DOMAIN plan.rows : plan.rows[x].id = plan.rows[y].id => x = y
  /\ \A x \in DOMAIN plan.rows : plan.rows[x].id \notin plan.erased

BeginBatch(newPlan, touched) ==
  /\ phase' = "records"
  /\ plan' = newPlan
  /\ stage' = [l \in Lists |-> IF l \in touched THEN "wait" ELSE "none"]
  /\ todo' = [l \in Lists |-> {}]
  /\ dirTodo' = {EntryPage(i) : i \in newPlan.erased \cup
                   {newPlan.rows[x].id : x \in DOMAIN newPlan.rows}}
  /\ begun' = {}

\* The call returns or throws; its locals are gone.
EndBatch ==
  /\ phase' = "idle"
  /\ plan' = NoPlan
  /\ stage' = [l \in Lists |-> "none"]
  /\ todo' = [l \in Lists |-> {}]
  /\ dirTodo' = {}
  /\ begun' = {}

(***************************************************************************)
(* insert_batch.  The inputs are routed, grouped by list in input order    *)
(* (group_by_list is a stable sort) and given the slots past the end of    *)
(* their list; every packed list is resized and its new lanes validated    *)
(* before the first file is opened.                                        *)
(***************************************************************************)
GrownSize(vecs, l) ==
  lists[l].size + Cardinality({i \in DOMAIN vecs : Assign[vecs[i]] = l})

IsPlacement(vecs, slot) ==
  /\ \A i, j \in DOMAIN vecs :
       i < j /\ Assign[vecs[i]] = Assign[vecs[j]] => slot[i] < slot[j]
  /\ \A l \in Lists :
       {slot[i] : i \in {j \in DOMAIN vecs : Assign[vecs[j]] = l}}
         = lists[l].size .. (GrownSize(vecs, l) - 1)

InsertRows(vecs, slot) ==
  [x \in {<<Assign[vecs[i]], slot[i]>> : i \in DOMAIN vecs} |->
     LET i == CHOOSE j \in DOMAIN vecs : x = <<Assign[vecs[j]], slot[j]>>
     IN  [id |-> next_id + i - 1, vec |-> vecs[i]]]

InsertPlan(vecs, slot) ==
  LET rows == InsertRows(vecs, slot)
  IN  [kind |-> "insert", size |-> [l \in Lists |-> GrownSize(vecs, l)],
       count |-> Cardinality(DOMAIN vecs), rows |-> rows,
       codes |-> [x \in DOMAIN rows |-> Code[rows[x].vec]], erased |-> {}]

\* packed_codes.resize / packed_metadata.resize: shrinking drops lanes,
\* growing appends cleared ones.
Reserve(m, newSize) ==
  [m EXCEPT !.capacity = RoundUp(newSize),
            !.lane = [s \in Slots |-> IF s < RoundUp(newSize) /\ s < m.capacity
                                      THEN m.lane[s] ELSE EmptyLane]]

\* validate_empty_packed_*_range_bbs32 over the lanes about to be filled.
ValidatedEmpty(m, newSize) ==
  \A s \in Slots : m.size <= s /\ s < newSize => m.lane[s] = EmptyLane

\* Mutant: the last ID is taken for a free one.
IdsLeftOffByOne(n) == n <= IdLimit - next_id + 1

\* "exhausted 32-bit Logical IDs"
IdsLeft(n) == n <= IdLimit - next_id

InsertBegin(n, vecs) ==
  /\ phase = "idle"
  /\ IdsLeft(n)
  /\ \E slot \in [1 .. n -> Slots] :
       LET touched == {Assign[vecs[i]] : i \in 1 .. n}
           reserved == [l \in Lists |-> IF l \in touched
                          THEN Reserve(lists[l], GrownSize(vecs, l))
                          ELSE lists[l]]
       IN  /\ IsPlacement(vecs, slot)
           /\ \A l \in touched :
                /\ GrownSize(vecs, l) <= IdLimit
                /\ ValidatedEmpty(reserved[l], GrownSize(vecs, l))
           /\ lists' = reserved
           /\ BeginBatch(InsertPlan(vecs, slot), touched)
  /\ UNCHANGED <<file, dir, next_id, active_count, told, torn>>

Insert == \E n \in 1 .. MaxBatch : \E vecs \in [1 .. n -> Vecs] :
            InsertBegin(n, vecs)

(***************************************************************************)
(* erase_batch up to its first effect: directory lookups, the swap-with-   *)
(* last plan, the snapshot of the rows to move, and every check on them.   *)
(***************************************************************************)
RecordAt(x) == file[x[1]].rec[x[2]]
ErasedFrom(E, l) == {i \in E : dir.loc[i][1] = l}
ErasedLocations(E) == {dir.loc[i] : i \in E}
ErasedLists(E) == {dir.loc[i][1] : i \in E}
ShrunkSize(E, l) == lists[l].size - Cardinality(ErasedFrom(E, l))

Holes(E) == {x \in ErasedLocations(E) : x[2] < ShrunkSize(E, x[1])}
\* Mutant: the first row past the new end is left where it is.
SourcesOffByOne(E) == {x \in Locations \ ErasedLocations(E) :
                 /\ x[1] \in ErasedLists(E)
                 /\ ShrunkSize(E, x[1]) < x[2] /\ x[2] < lists[x[1]].size}
Sources(E) == {x \in Locations \ ErasedLocations(E) :
                 /\ x[1] \in ErasedLists(E)
                 /\ ShrunkSize(E, x[1]) <= x[2] /\ x[2] < lists[x[1]].size}

LocatedForErase(E) ==
  \A i \in E : /\ InDirectory(dir, i)
               /\ dir.loc[i] \in Locations
               /\ dir.loc[i][2] < lists[dir.loc[i][1]].size

SlotsDistinct(E) ==
  /\ \A l \in ErasedLists(E) : Cardinality(ErasedFrom(E, l)) <= lists[l].size
  /\ \A i, j \in E : dir.loc[i] = dir.loc[j] => i = j

\* Mutant: the IDs in the records are not compared with the ones asked for.
RecordsConfirmSizes(E) ==
  \A l \in ErasedLists(E) : MutationSizeOK(file[l], lists[l].size)

RecordsConfirmErase(E) ==
  /\ \A l \in ErasedLists(E) : MutationSizeOK(file[l], lists[l].size)
  /\ \A i \in E : RecordAt(dir.loc[i]).id = i

\* Mutant: moved rows are not looked up in the directory.
SourcesUnchecked(E) == TRUE

\* moved_ids: every row to be moved is where the directory says it is.
SourcesConfirmMove(E) ==
  \A x \in Sources(E) : /\ InDirectory(dir, RecordAt(x).id)
                        /\ dir.loc[RecordAt(x).id] = x

EraseAccepted(E) ==
  /\ E # {} /\ Cardinality(E) <= active_count
  /\ LocatedForErase(E)
  /\ SlotsDistinct(E)
  /\ RecordsConfirmErase(E)
  /\ SourcesConfirmMove(E)

\* holes ascending are paired with sources descending, within each list.
IsMovePlan(E, from) ==
  /\ {from[h] : h \in Holes(E)} = Sources(E)
  /\ \A h \in Holes(E) : from[h][1] = h[1]
  /\ \A h, g \in Holes(E) :
       h[1] = g[1] /\ h[2] < g[2] => from[h][2] > from[g][2]

\* Mutant: the rows moved are counted, not the rows erased.
ErasePlanCountsMoves(E, from) ==
  [kind |-> "erase", count |-> Cardinality(Holes(E)), erased |-> E,
   size |-> [l \in Lists |-> ShrunkSize(E, l)],
   rows |-> [h \in Holes(E) |-> RecordAt(from[h])],
   codes |-> [h \in Holes(E) |-> lists[h[1]].lane[from[h][2]]]]

\* Mutant: the code of the erased row stays in the lane of the moved one.
ErasePlanKeepsCodes(E, from) ==
  [kind |-> "erase", count |-> Cardinality(E), erased |-> E,
   size |-> [l \in Lists |-> ShrunkSize(E, l)],
   rows |-> [h \in Holes(E) |-> RecordAt(from[h])],
   codes |-> [h \in Holes(E) |-> lists[h[1]].lane[h[2]]]]

ErasePlan(E, from) ==
  [kind |-> "erase", count |-> Cardinality(E), erased |-> E,
   size |-> [l \in Lists |-> ShrunkSize(E, l)],
   rows |-> [h \in Holes(E) |-> RecordAt(from[h])],
   codes |-> [h \in Holes(E) |-> lists[h[1]].lane[from[h][2]]]]

EraseBegin(E) ==
  /\ phase = "idle"
  /\ EraseAccepted(E)
  /\ \E from \in [Holes(E) -> Sources(E)] :
       /\ IsMovePlan(E, from)
       /\ BeginBatch(ErasePlan(E, from), ErasedLists(E))
  /\ UNCHANGED <<file, dir, callVars, torn>>

Erase == \E E \in SUBSET Ids : Cardinality(E) <= MaxBatch /\ EraseBegin(E)

(***************************************************************************)
(* append_records, list by list: open and check (cutting back an earlier   *)
(* failed append), one page per step in ascending order, final ftruncate.  *)
(***************************************************************************)
Working(kind, l, at) == phase = "records" /\ plan.kind = kind /\ stage[l] = at

NextPage(l, p) == p \in todo[l] /\ \A q \in todo[l] : p <= q

Advance(l, at) == stage' = [stage EXCEPT ![l] = at]

batchVars == <<dir, callVars, phase, plan, dirTodo, torn>>

AppendOpen(l) ==
  /\ Working("insert", l, "wait")
  /\ AppendSizeOK(file[l], lists[l].size)
  /\ file' = [file EXCEPT ![l] = TruncateFile(@, PageCount(lists[l].size))]
  /\ todo' = [todo EXCEPT ![l] = AppendPages(lists[l].size, plan.size[l])]
  /\ Advance(l, "open")
  /\ UNCHANGED <<batchVars, begun>>

AppendPage(l) ==
  /\ Working("insert", l, "open")
  /\ \E p \in todo[l] :
       /\ NextPage(l, p)
       /\ file' = [file EXCEPT ![l] = WriteAppendPage(@, p, RowsOf(l))]
       /\ todo' = [todo EXCEPT ![l] = @ \ {p}]
  /\ UNCHANGED <<batchVars, stage, begun>>

AppendTorn(l) ==
  /\ Working("insert", l, "open")
  /\ \E p \in todo[l], k \in Slots :
       /\ NextPage(l, p)
       /\ file' = [file EXCEPT ![l] = TearAppendPage(@, p, RowsOf(l), k)]
  /\ Advance(l, "failed")
  /\ UNCHANGED <<batchVars, todo, begun>>

\* Mutant: a list's new size is published as soon as its file is closed.
AppendClosePublishes(l) ==
  /\ Working("insert", l, "open") /\ todo[l] = {}
  /\ file' = [file EXCEPT ![l] = TruncateFile(@, PageCount(plan.size[l]))]
  /\ lists' = [lists EXCEPT ![l].size = plan.size[l]]
  /\ Advance(l, "done")
  /\ UNCHANGED <<dir, next_id, active_count, told, phase, plan, dirTodo, torn,
                 todo, begun>>

AppendClose(l) ==
  /\ Working("insert", l, "open") /\ todo[l] = {}
  /\ file' = [file EXCEPT ![l] = TruncateFile(@, PageCount(plan.size[l]))]
  /\ Advance(l, "done")
  /\ UNCHANGED <<batchVars, todo, begun>>

(***************************************************************************)
(* commit_prepared_mutation, list by list.                                 *)
(***************************************************************************)
CommitOpen(l) ==
  /\ Working("erase", l, "wait")
  /\ MutationSizeOK(file[l], lists[l].size)
  /\ todo' = [todo EXCEPT ![l] = MutationPages(plan.size[l], RowsOf(l))]
  /\ Advance(l, "open")
  /\ UNCHANGED <<batchVars, file, begun>>

CommitPage(l) ==
  /\ Working("erase", l, "open")
  /\ \E p \in todo[l] :
       /\ NextPage(l, p)
       /\ file' = [file EXCEPT ![l] =
                     WriteMutatedPage(@, p, RowsOf(l), plan.size[l])]
       /\ todo' = [todo EXCEPT ![l] = @ \ {p}]
  /\ begun' = begun \cup {l}
  /\ UNCHANGED <<batchVars, stage>>

CommitTorn(l) ==
  /\ Working("erase", l, "open")
  /\ \E p \in todo[l], k \in Slots :
       /\ NextPage(l, p)
       /\ file' = [file EXCEPT ![l] =
                     TearMutatedPage(@, p, RowsOf(l), plan.size[l], k)]
  /\ begun' = begun \cup {l}
  /\ Advance(l, "failed")
  /\ UNCHANGED <<batchVars, todo>>

CommitClose(l) ==
  /\ Working("erase", l, "open") /\ todo[l] = {}
  /\ file' = [file EXCEPT ![l] = TruncateFile(@, PageCount(plan.size[l]))]
  /\ begun' = begun \cup {l}
  /\ Advance(l, "done")
  /\ UNCHANGED <<batchVars, todo>>

\* The size found on open is refused.
RecordRefused(l) ==
  /\ \/ Working("insert", l, "wait") /\ ~AppendSizeOK(file[l], lists[l].size)
     \/ Working("erase", l, "wait") /\ ~MutationSizeOK(file[l], lists[l].size)
  /\ Advance(l, "failed")
  /\ UNCHANGED <<batchVars, file, todo, begun>>

\* Any other system call on the file fails.
RecordCallFails(l) ==
  /\ phase = "records" /\ stage[l] \in {"wait", "open"}
  /\ Advance(l, "failed")
  /\ UNCHANGED <<batchVars, file, todo, begun>>

(***************************************************************************)
(* The join of parallel_for_dynamic.  Run in parallel, every list is       *)
(* attempted and the first error is rethrown; run serially, the lists come *)
(* in ascending order and the first error ends the loop.                   *)
(***************************************************************************)
Waiting == {l \in Lists : stage[l] = "wait"}
LoopEnded ==
  /\ \A l \in Lists : stage[l] # "open"
  /\ \A l \in Waiting, k \in Lists :
       stage[k] \in {"done", "failed"} => k < l

\* Mutant: the join waits for every list, not for the touched ones.
RecordsDoneAll ==
  /\ phase = "records"
  /\ \A l \in Lists : stage[l] = "done"
  /\ phase' = "directory"
  /\ UNCHANGED <<file, dir, callVars, plan, stage, todo, dirTodo, begun, torn>>

RecordsDone ==
  /\ phase = "records"
  /\ \A l \in Lists : stage[l] \in {"none", "done"}
  /\ phase' = "directory"
  /\ UNCHANGED <<file, dir, callVars, plan, stage, todo, dirTodo, begun, torn>>

RecordsFailed ==
  /\ phase = "records"
  /\ \E l \in Lists : stage[l] = "failed"
  /\ LoopEnded
  /\ torn' = torn \cup begun
  /\ EndBatch
  /\ UNCHANGED <<file, dir, callVars>>

(***************************************************************************)
(* write_batch: the changed directory pages in ascending order.            *)
(***************************************************************************)
NextEntryPage(p) == p \in dirTodo /\ \A q \in dirTodo : p <= q

UpdatesAccepted == UpdatesDistinct /\ ~dir.ragged

DirectoryPage ==
  /\ phase = "directory" /\ UpdatesAccepted
  /\ \E p \in dirTodo :
       /\ NextEntryPage(p)
       /\ dir' = WriteEntryPage(dir, p, DirectoryUpdates)
       /\ dirTodo' = dirTodo \ {p}
  /\ UNCHANGED <<file, callVars, phase, plan, stage, todo, begun, torn>>

DirectoryTorn ==
  /\ phase = "directory" /\ UpdatesAccepted
  /\ \E p \in dirTodo, k \in Ids :
       /\ NextEntryPage(p)
       /\ dir' = TearEntryPage(dir, p, DirectoryUpdates, k)
  /\ torn' = torn \cup begun
  /\ EndBatch
  /\ UNCHANGED <<file, callVars>>

\* The batch names an ID twice, or locations.bin is not page aligned.
DirectoryRefused ==
  /\ phase = "directory" /\ ~UpdatesAccepted
  /\ torn' = torn \cup begun
  /\ EndBatch
  /\ UNCHANGED <<file, dir, callVars>>

\* Another system call on locations.bin fails.
DirectoryCallFails ==
  /\ phase = "directory"
  /\ torn' = torn \cup begun
  /\ EndBatch
  /\ UNCHANGED <<file, dir, callVars>>

(***************************************************************************)
(* The last lines of both calls: packed postings, sizes and counters.      *)
(***************************************************************************)
\* append_flat_codes_bbs32 ORs the nibbles of a code into the lane.
Pack(lane, code) == IF lane = EmptyLane THEN code ELSE GarbledLane

\* Mutant: the lanes an erase vacates are not cleared.
PublishedLaneUncleared(l, s) ==
  IF <<l, s>> \in DOMAIN plan.codes
  THEN IF plan.kind = "insert"
       THEN Pack(lists[l].lane[s], plan.codes[<<l, s>>])
       ELSE plan.codes[<<l, s>>]
  ELSE lists[l].lane[s]

PublishedLane(l, s) ==
  IF <<l, s>> \in DOMAIN plan.codes
  THEN IF plan.kind = "insert"
       THEN Pack(lists[l].lane[s], plan.codes[<<l, s>>])
       ELSE plan.codes[<<l, s>>]
  ELSE IF plan.size[l] <= s /\ s < lists[l].size THEN EmptyLane
  ELSE lists[l].lane[s]

PublishLists ==
  lists' = [l \in Lists |->
              [lists[l] EXCEPT !.size = plan.size[l],
                               !.lane = [s \in Slots |-> PublishedLane(l, s)]]]

PublishInsert ==
  /\ phase = "directory" /\ plan.kind = "insert" /\ dirTodo = {}
  /\ PublishLists
  /\ next_id' = next_id + plan.count
  /\ active_count' = active_count + plan.count
  /\ told' = [i \in Ids |->
                IF \E x \in DOMAIN plan.rows : plan.rows[x].id = i
                THEN plan.rows[CHOOSE x \in DOMAIN plan.rows :
                                 plan.rows[x].id = i].vec
                ELSE told[i]]
  /\ EndBatch
  /\ UNCHANGED <<file, dir, torn>>

PublishErase ==
  /\ phase = "directory" /\ plan.kind = "erase" /\ dirTodo = {}
  /\ PublishLists
  /\ active_count' = active_count - plan.count
  /\ told' = [i \in Ids |-> IF i \in plan.erased THEN Absent ELSE told[i]]
  /\ EndBatch
  /\ UNCHANGED <<file, dir, next_id, torn>>

-----------------------------------------------------------------------------
\* What the code does on its own, and what the system calls may do to it.
ListStep(l) ==
  \/ AppendOpen(l) \/ AppendPage(l) \/ AppendClose(l)
  \/ CommitOpen(l) \/ CommitPage(l) \/ CommitClose(l)
  \/ RecordRefused(l)
ListFailure(l) == AppendTorn(l) \/ CommitTorn(l) \/ RecordCallFails(l)

UpdateStep ==
  \/ \E l \in Lists : ListStep(l)
  \/ RecordsDone \/ RecordsFailed
  \/ DirectoryPage \/ DirectoryRefused
  \/ PublishInsert \/ PublishErase
UpdateFailure ==
  \/ \E l \in Lists : ListFailure(l)
  \/ DirectoryTorn \/ DirectoryCallFails

Next == Insert \/ Erase \/ UpdateStep \/ UpdateFailure

Spec == Init /\ [][Next]_vars

-----------------------------------------------------------------------------
(***************************************************************************)
(* Properties.                                                             *)
(***************************************************************************)

\* Every variable stays in its domain.
TypeOK ==
  /\ file \in [Lists -> ListFile]
  /\ dir \in Directory
  /\ lists \in [Lists -> MemoryList]
  /\ next_id \in 0 .. IdLimit /\ active_count \in Int
  /\ phase \in {"idle", "records", "directory"}
  /\ plan.kind \in {"none", "insert", "erase"}
  /\ plan.size \in [Lists -> Int] /\ plan.count \in Nat
  /\ DOMAIN plan.rows \subseteq Locations
  /\ DOMAIN plan.codes = DOMAIN plan.rows
  /\ \A x \in DOMAIN plan.rows : /\ plan.rows[x] \in Record
                                 /\ plan.codes[x] \in Lanes
  /\ plan.erased \in SUBSET Ids
  /\ stage \in [Lists -> {"none", "wait", "open", "done", "failed"}]
  /\ todo \in [Lists -> SUBSET Nat]
  /\ dirTodo \in SUBSET Nat
  /\ begun \in SUBSET Lists
  /\ told \in [Ids -> Vecs \cup {Absent}]
  /\ torn \in SUBSET Lists

\* The IDs the callers hold whose vectors were routed to list l.
HeldIn(l) == {i \in Ids : told[i] # Absent /\ Assign[told[i]] = l}

\* Every row a search may scan in list l is the record of an ID the callers
\* hold, with its payload and packed code, at the place the directory names.
RowsServed(l) ==
  /\ file[l].pages >= PageCount(lists[l].size)
  /\ \A s \in 0 .. (lists[l].size - 1) :
       LET r == file[l].rec[s]
       IN  /\ r.id \in HeldIn(l) /\ r.vec = told[r.id]
           /\ dir.loc[r.id] = <<l, s>>
           /\ lists[l].lane[s] = Code[r.vec]

\* Every ID the callers hold is one of those rows.
HeldServed(l) ==
  \A i \in HeldIn(l) :
    /\ EntryPage(i) < dir.pages
    /\ dir.loc[i][1] = l
    /\ dir.loc[i][2] \in 0 .. (lists[l].size - 1)
    /\ file[l].rec[dir.loc[i][2]].id = i

\* Whenever the lock is free, files, directory, postings and what the callers
\* were told agree on every list no failed erase has torn: inserts and erases
\* that succeeded took effect exactly, inserts that failed left no trace.
Agreement ==
  phase = "idle" => \A l \in Lists \ torn : RowsServed(l) /\ HeldServed(l)

\* The lanes past logical_size are cleared in every list, torn ones included:
\* packing ORs codes in, so a stale lane would corrupt the next row there.
TailLanesEmpty ==
  \A l \in Lists, s \in Slots :
    s >= lists[l].size => lists[l].lane[s] = EmptyLane

\* size() counts the rows of all the lists, and the 32-bit ID space bounds
\* them, so the uint32 offset check of insert_batch never fires.
CountsAgree ==
  /\ active_count = Cardinality({x \in Locations : x[2] < lists[x[1]].size})
  /\ active_count <= next_id

\* An erase that passes every check of erase_batch names only IDs the callers
\* hold: entries left in the directory by failed inserts never let it through.
EraseOnlyHeld ==
  phase = "idle" =>
    \A E \in SUBSET Ids :
      EraseAccepted(E) /\ ErasedLists(E) \cap torn = {} =>
        \A i \in E : told[i] # Absent

\* An erase of IDs the callers hold passes every check, and has its swap plan,
\* as long as its list files have exactly the pages of their rows.
HeldErasable ==
  phase = "idle" /\ ~dir.ragged =>
    \A E \in SUBSET UNION {HeldIn(l) : l \in {k \in Lists \ torn :
                             MutationSizeOK(file[k], lists[k].size)}} :
      E # {} => /\ EraseAccepted(E)
                /\ \E from \in [Holes(E) -> Sources(E)] : IsMovePlan(E, from)

\* write_batch checks its updates for duplicates only after the record files
\* have been changed: on the lists no failure has touched, and on torn ones
\* too, that check must never be what stops an update.
UpdatesNeverCollide == phase # "idle" => UpdatesDistinct

\* A batch that has begun returns or throws: no outcome of a list's file calls
\* leaves the join of the parallel loop waiting, with the lock held.
UpdateReturns == phase # "idle" ~> phase = "idle"

\* "Restore the old page boundary so retry overwrites them": after a failed
\* append, the next append to that list passes the size check on open.
RetryOverwrites ==
  phase = "idle" =>
    \A l \in Lists \ torn : AppendSizeOK(file[l], lists[l].size)

-----------------------------------------------------------------------------
(***************************************************************************)
(* The inductive invariant behind Agreement: what the records, the         *)
(* directory and the plan have in common while an update is under way.     *)
(***************************************************************************)
Busy(kind) == phase # "idle" /\ plan.kind = kind

\* Sizes and capacities of the lists, and IDs not yet given out.
ListsFit ==
  /\ \A l \in Lists : lists[l].size <= lists[l].capacity
  /\ \A i \in Ids : told[i] # Absent => i < next_id

\* The running batch fits the lists and its stages.
BatchFits ==
  phase # "idle" =>
    /\ plan.kind # "none"
    /\ UpdatesDistinct
    /\ \A l \in Lists :
         /\ plan.size[l] \in 0 .. lists[l].capacity
         /\ stage[l] = "none" <=> plan.size[l] = lists[l].size
         /\ phase = "directory" => stage[l] \in {"none", "done"}
    /\ \A x \in DOMAIN plan.rows : x[2] < plan.size[x[1]]

\* An insert's rows lie past the end of their lists, under IDs not given out.
InsertFits ==
  Busy("insert") =>
    /\ begun = {} /\ plan.erased = {}
    /\ next_id + plan.count <= IdLimit
    /\ \A l \in Lists : lists[l].size <= plan.size[l]
    /\ \A x \in DOMAIN plan.rows :
         /\ lists[x[1]].size <= x[2]
         /\ plan.rows[x].id \in next_id .. (next_id + plan.count - 1)
         /\ plan.rows[x].vec \in Vecs /\ Assign[plan.rows[x].vec] = x[1]
         /\ plan.codes[x] = Code[plan.rows[x].vec]

EraseFits ==
  Busy("erase") =>
    \A l \in Lists : /\ plan.size[l] <= lists[l].size
                     /\ stage[l] = "done" => l \in begun

\* What holds of the batch whatever earlier failures have left in the files.
PlanInv ==
  TypeOK /\ TailLanesEmpty /\ ListsFit /\ BatchFits /\ InsertFits /\ EraseFits

\* The batch lays down rows only in the lists it touches, and updates no entry
\* of an ID held in another.
UpdatesApart ==
  phase # "idle" =>
    /\ \A x \in DOMAIN plan.rows : x[1] \in Touched
    /\ \A i \in UpdatedIds, l \in Lists \ (torn \cup Touched) : i \notin HeldIn(l)

\* The row for slot s of list l has reached the file, or its page is to come.
RowWritten(l, s) ==
  /\ stage[l] = "done" => file[l].rec[s] = plan.rows[<<l, s>>]
  /\ stage[l] = "open" => \/ file[l].rec[s] = plan.rows[<<l, s>>]
                          \/ PageOf(s) \in todo[l]

\* Likewise for the directory entry of the ID in that row.
EntryWritten(l, s) ==
  LET i == plan.rows[<<l, s>>].id
  IN  \/ EntryPage(i) \in dirTodo
      \/ dir.loc[i] = <<l, s>> /\ EntryPage(i) < dir.pages

InsertUnderWay(l) ==
  /\ stage[l] = "done" => file[l].pages >= PageCount(plan.size[l])
  /\ \A s \in lists[l].size .. (plan.size[l] - 1) :
       <<l, s>> \in DOMAIN plan.rows /\ RowWritten(l, s) /\ EntryWritten(l, s)

\* The record and the code slot s of list l will have when the erase is done.
PlannedRow(l, s) == IF <<l, s>> \in DOMAIN plan.rows
                    THEN plan.rows[<<l, s>>] ELSE file[l].rec[s]
PlannedLane(l, s) == IF <<l, s>> \in DOMAIN plan.rows
                     THEN plan.codes[<<l, s>>] ELSE lists[l].lane[s]

\* That record is one the callers keep; if it is moved there, its file page
\* and its directory page are written or to come, and if not it stays named.
RowSurvives(l, s) ==
  LET r == PlannedRow(l, s)
  IN  /\ r.id \in HeldIn(l) \ plan.erased /\ r.vec = told[r.id]
      /\ PlannedLane(l, s) = Code[r.vec]
      /\ IF <<l, s>> \in DOMAIN plan.rows
         THEN RowWritten(l, s) /\ EntryWritten(l, s)
         ELSE r.id \notin UpdatedIds /\ dir.loc[r.id] = <<l, s>>

EraseUnderWay(l) ==
  /\ file[l].pages >= PageCount(plan.size[l])
  /\ \A s \in 0 .. (plan.size[l] - 1) : RowSurvives(l, s)
  /\ \A i \in HeldIn(l) : EntryPage(i) < dir.pages
  /\ \A i \in HeldIn(l) \ plan.erased :
       \E s \in 0 .. (plan.size[l] - 1) : PlannedRow(l, s).id = i

\* The rows of list l are still, or again, where the callers left them.
Settled(l) == \/ ~Busy("erase") \/ l \notin Touched
              \/ phase = "records" /\ l \notin begun

ListConsistent(l) ==
  /\ Settled(l) => RowsServed(l) /\ HeldServed(l)
  /\ Busy("insert") => InsertUnderWay(l)
  /\ Busy("erase") /\ l \in Touched => EraseUnderWay(l)

\* At every step of an update, failures included, what the files, the directory
\* and the postings hold of a list no failed erase has torn is either what the
\* callers were told, or what the batch has already made of it, with the rest of
\* the batch's rows and entries on pages it has yet to write.
IndexInv ==
  /\ PlanInv /\ UpdatesApart
  /\ \A l \in Lists \ torn : ListConsistent(l)
=============================================================================

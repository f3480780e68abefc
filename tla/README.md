# A verification project for RECAST

RECAST is a C++ library for approximate nearest-neighbour search. Its core
quantizes vectors and scans packed 4-bit codes with confidence intervals; its
adapters keep an updatable IVF index whose exact records live in one file per
list and are read back through Linux AIO. This directory holds TLA+ models of
its control and of the discrete part of its data path, TLC instances that check
them, and theorems checked by TLAPS.

Paths below are relative to the repository (`src/fastscan.cpp` is
`fastscan.cpp` of the library); `EL` abbreviates `adapters/external_list_ivf.cpp`.

## 1. The system

| Component | Code | State | Operations |
|---|---|---|---|
| External-list index | `adapters/external_list_ivf.*`, `pq4_update_packing.*` | `lists_` (logical size, packed codes and metadata), `next_id_`, `active_count_`, `checkpoint_generation_`, one `shared_mutex` | `train`, `insert_batch`, `erase_batch`, `search`, `select_candidates`, `checkpoint`, load |
| Record store | `adapters/list_file_record_store.*` | one page-aligned file per list | `append_records`, `prepare_moves_and_truncate`, `commit_prepared_mutation`, `validate_list_file` |
| Location directory | `adapters/external_location_directory.*` | `locations.bin`: ID to (list, offset) | `read_batch`, `write_batch` |
| AIO refiner | `adapters/list_file_aio_refiner.*` | per-thread AIO context; per-call plans, slots, open files, heap | `refine` |
| Interval selection | `src/fastscan.cpp`, `src/interval_selection_internal.h` | K smallest upper endpoints, reservoir, admission threshold | `add_scalar_block`, `add_16_avx512`, `finish` |
| Scan kernels, exact PQ4 | `src/fastscan.cpp`, `src/exact_pq4.cpp` | none | SIMD scans |
| Quantizer, persistence | `src/quantizer.cpp`, `src/uneven_product_quantizer.cpp`, `src/persistence_io.h` | trained parameters, the layout of the code | train, encode, save, load |
| Router | `adapters/faiss_router.*` | centroids and trainer, or a compact Faiss index | `train`, `release`, `install`, `assign_pq`, `route_pq` |

How they interact:

- `insert_batch` and `erase_batch` hold the writer lock. Each first plans the
  whole batch in memory, then changes the record files of the touched lists in
  a parallel loop, then the directory, and last the packed postings and
  counters. Nothing is rolled back when a call fails.
- `train` holds the writer lock, trains the caller's router and the quantizer
  stage by stage, writes the router and loads it back in compact form.
- `search` holds the reader lock; it selects candidates from the packed
  postings and refines them from the record files.
- `checkpoint` holds the *reader* lock although it changes files and a counter.
- The AIO context outlives a search; the files and buffers do not.

Where it is hard, and what makes each part correct:

- *Updates*: partial failures in a parallel loop, leftovers of failed updates
  in files and directory, lanes that are ORed into. Correct when files,
  directory, postings and what callers were told agree, when damage stays in
  the lists an erase has begun to change, when every call ends, and when
  callers see an atomic index.
- *Searches*: tokens that number the rows of all probed lists, padding lanes,
  leftovers of failed updates. Correct when the answers are rows the callers
  hold, and the nearest of them.
- *Training*: stages that fail and are repeated, models in two files. Correct
  when rows are always served with the models they were stored with, and when
  what is saved can be loaded, which a failed retraining breaks.
- *Checkpoint*: crashes between renames, two callers at once, old roots.
  Correct when the installed manifest names complete files of one checkpoint.
- *Refiner*: concurrency with the kernel, short submissions, exceptional exits.
  Correct when the result is the exact top K, no descriptor, buffer or slot is
  reused or freed while the kernel may use it, and every call returns.
- *Selection*: stale thresholds, ties, partitions, infinities. Correct when
  finish() delivers exactly the rows of the reference definition.
- *Codes and tiles*: coordinates scattered over buckets, rows interleaved in
  tiles, two kernels that must read what one packer wrote. Correct when every
  row gives back the code and metadata stored for it, wherever it has been.

`PROJECT.json` lists every component with its status, and every hazard at its
line with the properties that cover it.

## 2. The modules

```
ListFileRecordStore   ExternalLocationDirectory        AbstractIndex
            \          /                                    |
         ExternalListIndex ------------------------ IndexRefinement
                                                            |
   IntervalRule ---- IntervalSelection      IntervalRule - IndexSearch

   UnevenQuantizer   PackedTiles   VectorMetadata
              \           |          /
                      CodePath

   Checkpoint      IndexTraining      AioRefiner
```

### ListFileRecordStore, ExternalLocationDirectory

Pure operators on a value for a record file (`pages`, `ragged`, the record in
every slot) and on one for `locations.bin`. `TruncateFile`, `WriteAppendPage`,
`WriteMutatedPage` and `WriteEntryPage` are one successful system call each;
the `Tear...` operators are the same call given up half-way: an existing page
keeps a prefix of the new rows, a new page leaves the file with a partial page
at its end. Slots past the last page hold the zero record (or the tombstone),
which is what a page buffer for a new page starts as.

### ExternalListIndex (the core)

Extends both and owns their values. State and code:

| Variable | Code |
|---|---|
| `file`, `dir` | the files on disk |
| `lists` | `lists_`: `logical_size`, packed capacity, one symbolic lane per slot (code and metadata together) |
| `next_id`, `active_count` | the members of that name |
| `phase`, `plan`, `stage`, `todo`, `dirTodo` | where the running call is, and its locals |
| `begun`, `told`, `torn` | history: lists the running erase has begun to change, the vector behind each ID the callers hold, lists a failed erase has left half-way |

`Insert` and `Erase` are everything up to the first system call that writes:
routing, encoding, grouping, resizing and validating the packed lists, or
lookups, swap plan, snapshots and every check. They are one step because the
writer lock is held and nothing has been changed on disk; the only effect on
shared state is the resized postings of an insert, which survives a failure and
is in the model. A call refused by these checks changes nothing and is not a
step. Then each list takes its own steps (`AppendOpen`, `AppendPage`, ...,
`CommitClose`) interleaved with the other lists, as `parallel_for_dynamic`
allows; `RecordsDone` and `RecordsFailed` are its join, in parallel and in
serial mode. `DirectoryPage` is one page of `write_batch`. `PublishInsert` and
`PublishErase` are the in-memory end of both calls. Any system call may fail
before or half-way (`ListFailure`, `DirectoryTorn`, `DirectoryCallFails`).

Vectors are model values that stand for their payload too; `Assign` is
`assign_pq`, `Code` is `encode`, both fixed functions.

### AbstractIndex, IndexRefinement

`AbstractIndex` is what the callers may rely on: lists of rows, an insert and
an erase that are atomic over all the lists they touch, and an erase that fails
and costs the lists it had begun to change. `IndexRefinement` maps the detailed
index to it: the rows of a list are read from its record file up to
`logical_size`, the way a search reads them, except while an erase is
overwriting them in place, when they are what the callers were last told. Torn
lists are the lost ones.

### IntervalRule, IntervalSelection

`IntervalRule` is the reference definition of the selection (`types.h`: lower
and upper endpoint, infinities; the K-th smallest upper endpoint; the rows whose
interval reaches below it; the cap). `IntervalSelection` is
`FusedIntervalAccumulator` with blocks in any order: the scalar path (row by
row) and the AVX-512 path (mask the tile, append, shrink once). The fuzzy
partition is the code's search, with its strided sampling and its limit on
iterations (`Iterations`, 200 in the code) after which it selects exactly.
`SearchStep` is one iteration. Floats are integers between two infinities, and
sums and products that leave that range saturate, as floats overflow. The early
return of `fuzzy_shrink_shortlist` is not there: with 2R rows or more it is never
taken.

### IndexSearch

Composes the index with searches. `SearchBegin` is `select_candidates_locked`:
positions of the route that hold rows get consecutive token ranges
(`SpanBegin`), lists are scanned tile by tile (`ScannedSlots`, the last tile cut
at the logical size), the rule selects, and each selected token is mapped back
through the ends of the spans (`SpanOf`, `Located`). It is one step: it reads
memory under the reader lock. `RefineList` reads the candidates of one list
from its file and keeps the nearest, list after list in any order; `SearchFails`
is a read that throws. `reader` holds the locals of each searching thread.
Updates exclude searches by the lock (`Exclusive`, `Shared`); failures of
updates are those of `ExternalListIndex`. The selector is `IntervalRule`, which
`selection` shows the accumulator to implement; the reads are taken at the
result `aio_pipeline` checks.

`Route`, `Distance`, `Estimate` and `Uncertainty` are constants. That a route is
a permutation of the lists and that the interval of a vector's lane contains
its distance are named assumptions: without the second nothing can be promised
of the answers, and the code only makes it likely. Estimates lie between the
infinities and radii between 0 and infinity; the selector's constructor refuses
a `z_score` that is not finite or negative, and a cap below `topk`
(`RequestValid`).

### IndexTraining

`train()` as the sequence of its stages, each of which may fail and leave what
it has replaced: the router's trainer, norms, rotation, codebook, metadata
scales (the last stage sets `trained`, which no failure takes back), then
`router.faiss` written to a temporary, renamed, and read back into a compact
router while the centroids are released. Beside it `checkpoint()` as far as the models go (`quantizer.recast`,
then the manifest), `Crash` between any two steps, `Reload` and `Create`. What
is learned is named by the sample it was learned from; the rows of the index are
abstracted to the models they were stored with. `Payload`, `Saved`,
`LoadAccepts` and `Loaded` are save and load of the quantizer field by field.

`Broken` marks what a later step cannot use, and how it comes to be is the
code's order of assignments: a transform that is not orthonormal is in place
when the check throws (`RotationRejected`), in Pca mode an untrained one when
its training throws (`PcaThrows`), while a ParametricOpq that cannot be trained
leaves the old one; an uneven quantizer forgets its codebooks first
(`CodebookRefused`); a sample of `Extreme` has a norm that overflows, so that
`norm_max`, and with it the steps and, for L2 and inner product, the scale
are infinite. `save` looks at none of these but the codebooks; `LoadAccepts`
has every check of `load`: length and checksum, presence of the transform,
that it is trained and orthonormal, the backend, finite ranges.

### UnevenQuantizer, PackedTiles, VectorMetadata, CodePath

`UnevenQuantizer` is the planner of the uneven product quantizer
(`compute_ideal_bit_budgets`, `assign_dimensions`, `plan_paired_capacities`,
`build_buckets`, `validate_layout`), the code layout that follows, and `write`
and `read`. A pass of the hill climb is a step (`PlanPass`). `PackedTiles` is
the packed buffers nibble by nibble: the packer through its permutation table
and the accessor through its own formula, resizing, appending by OR, the tile
rewriting of an erase, and the kernels (`ScalarDot`, `Avx512Dot`, the byte table
of the portable path with its 16-bit sums). `VectorMetadata` is the three bytes
beside a code, as written and as decoded on both scan paths. Sorting is
`Sorted`, the i-th number of a set in the order of a key, and a loop over
a sequence a fold, so that the three can be proved about. `CodePath` composes
them: the quantizer is trained, saved and read back while rows are encoded,
inserted, moved by erasures and scanned; `held` is the vector behind every row.
Updates are one step each here, since failures are the subject of
`ExternalListIndex`.

### Checkpoint

`checkpoint()` file by file: open and truncate the temporary, write, rename;
then read the old generation again and remove its files. A list is its size and
a version that names its contents. A thread remembers where the inode it has
open is linked, so that two threads writing one temporary, or a file renamed or
removed under a writer, behave as on a POSIX file system. `published` is a history
variable: the index of the last installed manifest, and whether the list files
held its rows then (`FilesHold`). `Crash` may come
anywhere; `Reload` is `load_checkpoint_locked`; `Recreate` is the constructor
of a new index over the old root. Updates are one step here.

### AioRefiner

One query thread and the kernel. `BuildReadPlans` is computed from the
candidates by the code's loop; `NextWindow` cuts the lists into windows of open
files; the actions of `refine_aio` are submissions (any non-empty prefix),
`io_getevents`, one completion at a time with the refill of its slot, and the
end of the loop. `slots` holds, per slot, the plan it was prepared for and the
plan whose bytes its buffer holds. Every call that can throw may do so, and the
two nested handlers of `refine` are the actions `CatchDestroy`, `CatchClose`
and `Rethrow`.

## 3. What the runs check

Passing runs:

| Run | Instance | Properties |
|---|---|---|
| `index_search` | 2 lists, 3 IDs, batches of 1 or 2, 1 reader, 2 queries, `topk` 1 or 2, `max_candidates` 2, fairness | `TypeOK`, `Agreement`, `TailLanesEmpty`, `CountsAgree`, `EraseOnlyHeld`, `UpdatesNeverCollide`, `AnswersOwed`, `NearestSelected`, `SearchExact`, `SelectionNeverThrows`, `UpdateReturns`, `ImplementsAbstract` |
| `index_moves` | 1 list, 4 IDs, batches up to 3 | `IndexInv`, `HeldErasable` |
| `training` | 2 ample samples, one of them extreme, both groupings, all three transforms | `RowsServed`, `CheckpointServed`, `NeverWedged`, `ModelSurvives` |
| `checkpoint_restart` | 1 thread, 2 lists, 2 contents, 2 generations, re-creation allowed | `TypeOK`, `PublishedIntact`, `RestartRestores` |
| `aio_pipeline` | every 2 or 3 of 12 places, 5 candidates in 3 lists, depths 1 to 3, windows of 1 to 3 files, fairness | `TypeOK`, `PlansExact`, `ResultExact`, `FilesOutliveReads`, `ContextEmptyBetweenCalls`, `SlotsExclusive`, `WithinCapacity`, `CallReturns` |
| `selection` | portable: 5 rows, ties and infinities of both signs, and 7 rows with repeated partitions, caps 1 to 3; AVX-512: 5 rows, ties, finite estimates, capped and uncapped; 3 iterations | `TypeOK`, `PartitionSound`, `NeverTooStrict`, `AtLeastTopK`, `SelectionExact` |
| `code_path` | 12 coordinates, 6 groups, tiles of 8 rows, 4 variance profiles and the uniform layout, 12 rows, 3 updates | `TypeOK`, `NeverRefused`, `BudgetsOptimal`, `CodesRestore`, `DotsExact`, `MetadataHonest` |

What they show, beyond what their names say:

- `ImplementsAbstract`: a batch over several lists takes effect in all of them
  at one step or not at all; a failed insert is invisible, IDs are consecutive.
- `SearchExact`: a search answers as if it had compared the query with every
  row of the probed lists at one instant. `AnswersOwed`: no padding lane,
  residue of a failed insert or erased row is ever an answer.
- `CheckpointServed`: at every moment, between any two steps of a later
  training, `router.faiss` and `quantizer.recast` are the pair the rows of the
  installed manifest were stored with, although both are replaced in place. Once
  the index of the manifest has taken rows, `load` accepts that quantizer unless
  a range of it is infinite. Before that it may not: see `training_reload`.
- `ModelSurvives`: what `save` writes of a quantizer is read back field by field,
  and `load` refuses it exactly when its transform or a range is of no use; it
  refuses every damaged file.
- `NeverWedged` speaks of live indexes: an idle one can be trained or takes rows,
  and one with a compact router has a transform to encode with. A root whose
  model `load` refuses has no live index.
- `NeverRefused`: the throws behind the planner's and the updates' consistency
  checks are not reached.
- `DotsExact`: every kernel gives every row the inner product of the query with
  the decoded vector, exactly or to half a step of the byte table per group.

Runs that show a disagreement between the code and what it says of itself, each
with the counterexample TLC finds:

| Run | What it shows |
|---|---|
| `torn_append_retry` | a write that stops inside a new page leaves a file every later append refuses |
| `checkpoint_threads` | two concurrent `checkpoint()` calls may remove the files the installed manifest names |
| `checkpoint_recreate` | an index re-created over an old root overwrites files under the old manifest, and a reload accepts the mixture |
| `training_reload` | a training that fails after an earlier one succeeded leaves `is_trained()` beside an untrained transform; `checkpoint()` publishes it, and `load` refuses it |
| `aio_lifetime` | an exception in `refine_aio` destroys buffers while reads into them are in flight |

Every property of a passing run has a mutant in `PROJECT.json`: a plausible slip
in one operator of the model under which TLC finds that property violated on
the same instance. The mutants are defined next to the operators they replace.

Behaviour met while modelling that no run states as a property:

- An append that fails past a page boundary leaves pages beyond the logical
  size. Until an insert into that list succeeds, every erase that touches it is
  refused (`list_file_record_store.cpp:343-347`). `HeldErasable` is stated of
  lists whose file has the pages of its size.
- The AVX-512 filter computes infinity minus infinity for a row whose estimate
  and radius are both infinite and drops it (`fastscan.cpp:506-512`), where
  `lower()` in `types.h:82` yields minus infinity. The AVX-512 instance of
  `selection` has finite estimates. `OnlyUnboundedRowsLost` proves that the
  filter loses no row but these.
- The formulas of the metrics associate their products differently on the
  scalar and the AVX-512 path, so their last bits may differ.
- `load` refuses a quantizer payload over 1 GiB (`quantizer.cpp:452`), which
  `save` writes without complaint: a transform of more than 16383 dimensions.
- A training that fails after the first stages of an already trained quantizer
  leaves `trained` set and parameters of two samples. `RowsServed` holds because
  `train` is refused once rows exist, and `NeverWedged` because it can be
  repeated until then.
- A norm that overflows to infinity makes `norm_max` and `norm_step` infinite
  in a training that succeeds (`quantizer.cpp:282-289`, `326-327`); the index
  takes rows and checkpoints, `save` writes the ranges (`390-393`), and `load`
  refuses them (`539-544`). `CheckpointServed` and `ModelSurvives` say that this
  is the only other way to a model that does not load.

### Bounds

- *Pages of two records and entries, blocks of two lanes.* The smallest sizes
  with both a full and a partial page or block. Three or four IDs then cover
  appends into a partial page and across a boundary, erases with and without
  moves, and a second page that is cut off.
- *Two lists.* A failure in one list while another succeeds, the order of the
  serial loop, and two token spans. `index_moves` uses one list, for longer
  move plans.
- *`IdLimit`* is both the 32-bit ID space and the bound of the run, so the
  exhausted ID space is reached. IDs are not given out twice after success, so
  a run has at most `IdLimit` successful insertions, but any number of failed
  ones.
- *The vector `c`* (in `index_moves` and `index_search`) has the code of a cleared
  lane, which is possible in the code and hides a lane that was not cleared
  unless the model keeps apart what was written from what was expected.
- *Search*: one query has exact intervals and ties, the other estimates in the
  wrong order and a lane of unbounded radius. Searches do not change what they
  share, so one reader beside the updates is enough. The theorems have none of
  these bounds.
- *Training*: two samples tell old from new, and one of them overflows; every
  learner may fail on either. In `training_reload` the second sample is too small
  for every learner. What an abandoned `router.faiss.tmp` holds is never
  read, so the view leaves it out (`MCView`).
- *Checkpoint*: two contents and two generations give an old and a next
  checkpoint that differ; two threads are enough for the race. Lists are
  interchangeable (symmetry).
- *AIO*: more requests than slots (refill), more lists than the window (two
  windows), depths in both orders (reuse and replacement of the context).
- *Selection*: R is 1, 2 or 3 and scans have 5 or 7 rows, so that with
  R = 1 and 2 partitions happen and rows come after them; `max_candidates = 0`
  is the uncapped mode. The scan of 7 rows has 7 different estimates, so that a
  partition needs a second iteration; ties and infinities end it in the others,
  or send it to the exact selection. The theorems have none of these bounds.
- *Code path*: the profiles make the hill climb take no pass, one and two, with
  none, one and several exchanges; bits are counted in twelfths, in which every
  division of the planner is exact for 12 coordinates. Tiles of 8 rows have the
  structure of the 32-row ones (two halves, interleaved by the permutation
  table); batches of one, three and nine rows stay in a tile, fill one and cross
  into the next, and erasures take holes and sources from the same tile and from
  different ones. The vectors sit at the borders of the metadata ranges.

### Fairness and deadlock

`index_search` assumes weak fairness of `UpdateStep`, `aio_pipeline` of
`CallStep` and of `KernelCompletes`: a thread inside a call keeps running, a
system call returns, and the kernel finishes the reads it has accepted. No
fairness is put on failures, so termination never relies on one, and none on
starting a call or a search. `CHECK_DEADLOCK FALSE` stands in the index
instances, where the ID space runs out and a torn or ragged index may refuse
everything; in the training instances, where a root whose model `load` refuses
has no next step; in two that look at one disagreement (`torn_append_retry`, and
`checkpoint_threads`, where a crash before the first checkpoint may leave
nothing to load); and in the selection instance, where a scan ends. The
checkpoint, refiner and code-path instances are checked for deadlock.

## 4. What is proved

Every safety invariant of the passing runs is a theorem (some under a hypothesis
the table names), and so are
the refinement of the index and that searches change nothing. Seven modules
hold theorems about the models, for every value of the constants
that meets the named `ASSUME`s of the modules; an eighth, `OrderLemmas`, has the
lemmas they share: least and greatest numbers, induction over the positions
of a sequence and over finite sets with a set in place of the predicate (`Induct`),
that a recursive function over positions is the fold it stands for (`FoldDefined`),
the ranks of a finite set in a strict order (`Ranks`, `RankPrefix`), sums of
functions over finite sets, and quotients and remainders.

| Module | Theorem | Statement |
|---|---|---|
| `ExternalListIndex_proofs` | `PlanInvariant` | `Spec => []PlanInv` |
| | `TypeCorrect` | `Spec => []TypeOK` |
| | `TailsCleared` | `Spec => []TailLanesEmpty` |
| | `NoCollision` | `Spec => []UpdatesNeverCollide` |
| | `CountsAlwaysAgree` | `Spec => []CountsAgree` |
| | `IndexInvariant` | `Spec => []IndexInv` |
| | `IndexAgrees` | `Spec => []Agreement` |
| | `ErasesHeld` | `Spec => []EraseOnlyHeld` |
| | `EverythingHeldErasable` | `Spec => []HeldErasable` |
| | `IndexImplements` | `Spec => ImplementsAbstract` |
| `IndexSearch_proofs` | `SearchInvariant` | `SearchSpec => []SearchInv` |
| | `AnswersAreOwed` | `SearchSpec => []AnswersOwed` |
| | `NearestAreSelected` | `SearchSpec => []NearestSelected` |
| | `SearchesExact` | `SearchSpec => []SearchExact` |
| | `SelectionSucceeds` | `SearchSpec => []SelectionNeverThrows` |
| | `SearchesOnlyRead` | `SearchSpec => Spec` |
| `IndexTraining_proofs` | `NeverStuck` | `Spec => []NeverWedged` |
| | `RowsAlwaysServed`, `CheckpointAlwaysServed` | `~MayRecreate /\ Spec => []...` |
| | `ModelAlwaysSurvives` | `Spec => []ModelSurvives` |
| `Checkpoint_proofs` | `CheckpointTypeCorrect` | `OneThread /\ Spec => []TypeOK` |
| | `PublishedStaysIntact` | `OneThread /\ Spec => []PublishedIntact` |
| | `RestartsRestore` | `OneThread /\ Spec => []RestartRestores` |
| `AioRefiner_proofs` | `AioTypeCorrect` | `Spec => []TypeOK` |
| | `PlansReadEachCandidateOnce` | `Spec => []PlansExact` |
| | `ResultsAreExact` | `Spec => []ResultExact` |
| | `FilesStayOpen` | `Spec => []FilesOutliveReads` |
| | `CallsStartClean` | `Spec => []ContextEmptyBetweenCalls` |
| | `SlotsAreExclusive` | `Spec => []SlotsExclusive` |
| | `CapacityIsKept` | `Spec => []WithinCapacity` |
| `FastScan_proofs` | `SelectionTypeCorrect` | `Spec => []TypeOK` |
| | `PartitionsAreSound` | `Spec => []PartitionSound` |
| | `ThresholdNeverTooStrict` | `Spec => []NeverTooStrict` |
| | `OnlyUnboundedRowsLost` | `Spec => [](pc = "done" => Reference)` |
| | `SelectionIsExact` | `Spec => []SelectionExact`, under `FiniteOnVectors` |
| | `SelectionIsDeepEnough` | `Spec => []AtLeastTopK`, under `FiniteOnVectors` |
| `CodePath_proofs` | `CodePathInvariant` | `Spec => []CodeInv` |
| | `CodePathTypeOK` | `Spec => []TypeOK` |
| | `CodePathNeverRefused` | `Spec => []NeverRefused` |
| | `CodePathBudgetsOptimal` | `Spec => []BudgetsOptimal` |
| | `CodePathCodesRestore` | `Spec => []CodesRestore` |
| | `CodePathDotsExact` | `Spec => []DotsExact` |
| | `CodePathMetadataHonest` | `Spec => []MetadataHonest` |
| | `EncodedHonest` | every encoded vector is `Honest` |

**The batch alone** (`ExternalListIndex_proofs`). Neither
`TypeOK`, `TailLanesEmpty` nor `UpdatesNeverCollide` is inductive. That a
published erase leaves cleared lanes, for instance, needs that its rows lie below the new size and that its
new size fits the capacity, and that updates never collide needs that the IDs
of an insert have not been given out and lie within the ID space. `PlanInv` adds
what a batch under way guarantees:

- `ListsFit`: sizes within capacities; held IDs below `next_id`;
- `BatchFits`: the plan's sizes within the capacities, stages `none` exactly
  for untouched lists, rows below the new sizes, no ID updated twice;
- `InsertFits`: an insert's rows past the old end, IDs from the fresh range,
  codes and lists those of their vectors;
- `EraseFits`: an erase only shrinks, and a finished list has begun.

The proof follows the plan of a batch: `InsertPlanFacts` and `ErasePlanFacts`
say what the two planners produce (the counting argument `SubsetCount` bounds
offsets by the number of rows routed to a list, and the erase plan is injective
because its sources are where the directory says they are);
`FileOperators` and `DirectoryOperators` give the types of the file operators;
one lemma per group of actions shows that `PlanInv` is preserved;
`PlanInvNext` puts them together. The proof uses nothing about the contents of
the files: whatever failures leave there, the checks of `erase_batch` suffice.

**Files and failures** (`ExternalListIndex_proofs`). `Agreement` speaks of the
moments the lock is free; `IndexInv` says what holds of every list no failed
erase has torn at every step between:

- `UpdatesApart`: a batch lays down rows only in the lists it touches and
  updates no entry of an ID held in another, which is why a list survives the
  failure of an erase that had not yet begun to change it;
- while a list is `Settled` (no erase has begun on it) its old rows are served:
  an insert writes past them, and its truncations stop at their last page;
- `InsertUnderWay`: each planned row and directory entry is written, or its
  page is still on `todo` or `dirTodo`;
- `EraseUnderWay`: each slot below the new size either keeps its row, which the
  directory still names, or is given a held row by the plan, written or to
  come; and every ID that is held and not erased is in one of those slots.

`ServedFrame` and `ConsistentFrame` say which steps leave a list alone;
`InsertFileStep` and `EraseFileStep` reduce a step on a file to what it leaves in
the slots; `AppendWrites`, `CommitWrites`, `EntryWrites` and their torn
counterparts give that for each system call. Beginning an erase is the longest
case: that a moved row is held, that no kept row is overwritten, and that no
row is lost all follow from the checks of `erase_batch` together with
`RowsServed` and `HeldServed` for the lists it touches. Publishing then finds
both todo sets empty, and each new lane is right because `TailLanesEmpty` made
the OR of its code a write. `index_moves` checks `IndexInv` itself.
`ErasesHeld` follows from `IndexInv` without a further invariant.
`EverythingHeldErasable` is the converse, for lists whose files have the pages of
their rows. The checks pass because held rows are
where the directory says (`AskedAccepted`). That the plan exists is a count:
of the slots an erase asks for in a list, `HolesBySources` finds as many below the
new size as it leaves rows above it, and `DescendingPairs` pairs two sets of as
many numbers, one by rank from below and the other by rank from above.

**The count** (`ExternalListIndex_proofs`). `CountInv` relates `active_count_` to the
rows below the lists' sizes and, while a batch runs, to those below the sizes it
will publish. No sum over the lists is needed: the rows an insert adds are in
bijection with its inputs (`InsertCounts`); of the rows an erase takes away,
those that were asked for are in bijection with the IDs, and the others, the
ones that move, with the holes they fill (`EraseCounts`).

**The refinement** (`ExternalListIndex_proofs`). While a list is settled its rows
on file are those the callers hold (`RowsMapped`), by `Agreement` and `IndexInv`;
`BatchExact` adds that an insert has a planned row for each ID it will hand out
and that an erase removes IDs that are held. Then every file step stutters, a
publication is the abstract operation, and a failed erase is `EraseFails` of the
lists it had begun on.

**Searches** (`IndexSearch_proofs`). `SearchInv` extends `IndexInv` by what a
running search holds: its rows are those of the lists as they are, since no
update runs beside it, its candidates are locations below the logical sizes, and
what it has found are exact distances of records it has read. `AnswersOwed`
follows by `Agreement`. `NearestSelected` is the argument the intervals are for:
if a nearest row were not a candidate, `topk` rows with smaller upper endpoints
would be nearer than it. `SearchExact` adds `ExactlyInv`: what a search has kept
are the `topk` nearest of the rows it has read. `NearestSuffice` carries it from
list to list, and at the end from the candidates to all rows: rows that are not
among the nearest may be left out, because the least row whose rank is `topk` or
more has only nearest rows before it.

`SelectionSucceeds` holds on torn lists as well, about which `IndexInv` says nothing;
it rests on `SizesFit` (no list is longer than the ID space, so each of its rows has
a slot and is scanned) and on `CountInv`: different positions of the probed lists
are different rows of the index, of which there are `active_count_`, no more than
the IDs given out, so the tokens fit (`TokensAlwaysFit`). Each scanned row has a
token of its own, and the `topk` rows ranked first are candidates
(`EnoughCandidates`). The selector is here the reference rule; `FastScan_proofs`
says when it is that (`FiniteOnVectors`). `SearchesOnlyRead` carries the invariants
of the index over to the specification with searches.

**Training** (`IndexTraining_proofs`). The inductive invariant says that the
router's file, once compact, is the one on disk, that rows exist only beside a
released router and a usable quantizer with a usable transform, and that `train`
is refused from then on. A transform can be broken only until a training has
come to its end, because the router is released after the quantizer's last
stage; that is why a model beside rows always has a good one. `MayRecreate =
FALSE` excludes `create_storage` on a root with an installed manifest, whose
effect on the files `checkpoint_recreate` shows. That a quantizer survives save
and load, or is refused for its transform or its ranges alone, is proved case by
case over the payloads of the configurations: the mark of damage (`Broken`) is
by assumption none of the values a field that is whole may have, and a file cut
off or extended no longer has its header's length.

**Checkpoints** (`Checkpoint_proofs`). The theorems assume `OneThread`, one
thread at a time in `checkpoint()`; `checkpoint_threads` shows what two do to one
temporary. Then the files fall into generations: a call under way writes those of
`generation + 1`, which no manifest of this index names, and after the rename removes
those of the generation before its own (`CallInv`). What it has renamed so far
holds the index as it is, because updates wait for it (`WrittenInv`), so the
rename of the manifest installs a whole generation (`PublishedInv`); a crash
changes nothing of that, and a reload takes the generation up where the manifest
left it. A new index over an old root starts from generation 0 and forgets what
was published, so `PublishedIntact` speaks of its own checkpoints; what it does
to the files of the old ones is the subject of `checkpoint_recreate`.
`RestartRestores` needs `RowsInv` beside: list files whose contents are those of
the manifest have the page counts it asks for.

**Refinement of candidates** (`AioRefiner_proofs`). `IInv` follows a plan through
the call:

- `Called`: the plans of the call are those of `BuildReadPlans`, its lists theirs
  in order, and the context has room for its depth;
- `Windows`: the two cursors cut plans and lists at the same places, and the open
  files are those of the window;
- `Queues`, `Placed`: kernel and completion queue hold different slots, and a slot
  of `refine_aio` is in one place at most; `Counted`: `inflight` is how many
  are out;
- `Filled`, `Assigned`: an operation reads its slot's plan, a completed slot's
  buffer holds it, and the plans in work are among those prepared, one slot each;
- `Kept`: the heap has the best of the plans that are through.

`BuildReadPlans` is proved first: its fold over the sorted candidates keeps
`Built`, what `PlansExact` says of the candidates so far (`BuiltStep`,
`PlansBuilt`). The induction runs over positions, with a set in place of the
predicate (`Induct`, `FoldDefined`), and so does the one over the records of a
completed plan. The order in which the kernel completes operations enters only through `Filled`;
`ResultExact` is part of the inductive invariant and follows at the end of the
last window, when no plan is left to be prepared or in work. The
exceptional path is covered by the same invariant: `CatchDestroy` empties the
kernel before `CatchClose` closes a file.

**The selector** (`FastScan_proofs`). `NeverTooStrict` is not inductive: it says
nothing of the threshold, and a row turned away today must not be needed
tomorrow. `SelectorInv` states what has been left out:

- `Selects`: every scanned row outside the reservoir has `max_candidates` scanned
  rows ranked before it, and so has every row to come that the threshold would
  reject. Further rows can only add to those before it;
- `Smallest`: the endpoints in the heap are upper endpoints of different rows, and
  no other row's lies below the largest of them.

The partition comes first. The search may end in three ways (a rank inside the
ties of the threshold, a size between R and 1.5 R, or the fallback to
`nth_element`), and `SearchFinds` and `ThresholdSplits` give the same answer for
each: below the threshold are at most as many values as it will keep, and the ties
suffice for the rest. Nothing is needed of the sampling, so the theorems hold for
every limit of iterations. `IdPrefix` picks the ID that cuts the ties, `ValueCounts`
counts positions as rows, and `ShrinkSound` concludes that the compaction leaves
exactly the announced number of rows, the first ones in rank order: the two
logic errors of the code are out of reach. `JoinSound` appends a row or a masked
tile before it. At the end `PassesAtLast` turns the comparison with the top of
the heap into the reference rule, and `FirstAreCandidates` shows that the `topk`
rows ranked first always pass: a row whose lower endpoint exceeds `topk` upper
ones has `topk` rows before it. `FiniteOnVectors` says that no AVX-512 scan with a
z-score other than 0 has a row whose estimate and whose scaled radius are both
infinite, which the code does not ensure; without it `OnlyUnboundedRowsLost` says
what is left.

**The code path** (`CodePath_proofs`). `CodeInv` joins two invariants:

- `QuantizerSound`: while the quantizer is planned, `capacities` is `Paired`
  (one to `Maximum` coordinates per pair of groups, half of all of them
  together); once it is trained, the layout is uniform or `UnevenSound`, and what
  is on disk is what `write` makes of it;
- `RowsSound`: `Holding` says that the buffers are whole tiles in which every lane
  below the size is the code and the metadata of its row, with the layout in
  use, and every other lane is empty.

None of the six properties is inductive. `CodesRestore`, for instance, says
nothing of the lanes past the size, into which the next insertion ORs; and what
a reload does to the codes stored before it depends on how `read` derives the
coordinates of the buckets again. The proof goes along the code.

*Budgets.* `WaterFilled` follows the descending heights: at each one, either
the bits ran out above, or what is left is the bits less those standing above the
level. `BudgetsAbove` concludes that the budgets are what stands above one level
and add up to the bits of a code.

*Groups.* `Placed` is the state of the greedy assignment: the coordinates so far
in one group each, no group over its capacity, loads those of the groups.
`RoomLeft` finds a group with room by counting; `AllPlaced` ends with
every group at its capacity (`Filled`). An exchange of two coordinates keeps that
(`ExchangeStep`), so it does not matter when the exchanges stop. `TrialPaired` and
`PassPaired` carry `Paired` through the hill climb.

*Buckets.* Capacities sorted after doubling come in equal pairs
(`GroupCapacitiesRegular`), so a run of one width starts at an even group and
has an even number of them (`StartsEven`). `BucketsCover` gives each group one
bucket and the byte of its number, `CoverValid` the checks of `validate_layout`,
`TrainPasses` the rest of `train`, and `ReadPasses` that the layout which `read`
makes of ascending groups has the buckets again. `UniformCover` is the same of the
uniform layout.

*Codes.* `FlatCodeNibbles` finds the bits of a group in its nibble, `CodeRestored`
decodes them, and `DotOfCode` adds the table entries of a code to the inner
product with the vector, because every coordinate is in one place of one group.

*Tiles.* `NibblePlace` shows that the packer's permutation and the accessor's
formula name the same nibble, different ones for different lanes or groups,
and `MetadataPlace` the same of the planes. So an update is what it does to lanes:
`ResizedLanes`, `AppendedLanes` (OR into an empty lane writes, `NibbleOred`) and
`ErasedLanes` (kept lanes stay, holes get their source, the rest is cleared; a hole
always has a source, by counting, `SourceExists`).

*Kernels.* `ScalarDotSum` and `Avx512DotSum` reduce both kernels to the sum of a
row's table entries, the second by the halves of the tile and the pairs of groups.
`QuantizedDotNear` bounds what rounding to bytes adds, half a step for each group;
with at most 257 groups the sums stay below 2^16, so their width is harmless.

*Metadata.* `EncodedHonest` is arithmetic about the three bytes, for every norm,
scale and error.

The assumptions: `LayoutAssumption` (even numbers of coordinates and groups, and a
width limit, if one is set, that leaves room for all coordinates), `CornersAssumption`
(at most four coordinates in a group, so that a nibble names a corner), `CodePathAssumption`
(at most 257 groups, vectors with natural norm, scale and error), and
`LevelAssumption`: bits are counted in units fine enough for the bits of a code to
end at a whole level. The code counts in doubles; the assumption is where the
model leaves rounding out. `code_path` evaluates all of them and checks the
invariants, and `CodeInv` held there before it was proved.

Only model-checked: liveness under fairness (`UpdateReturns`, `CallReturns`), which
is out of reach of the prover, and the five disagreements, which are
counterexamples.

## 5. Not modelled

- Floating-point numerics: centering, rotation, k-means, the metric formulas and
  their rounding, the exact distance. The models take their results as
  constants or, in `CodePath`, use codebooks of corners (groups of up to four
  coordinates), integer bits and integer tables, where the code's result is
  exact. Query preparation is arithmetic of the same kind.
- Byte tables of more than 257 groups, where the code limits the scale so that
  16-bit sums do not wrap; learned ranges that are zero. A
  `max_subspace_dimension` other than automatic is in the theorems only.
- What Faiss writes of its own objects, which is one field of the model; routers
  shared by two indexes; `train_pq_router`, which the index does not call.
- A power loss. `checkpoint` does not sync its files, so nothing can be said of
  a rename without assuming an order of persistence; the crash of the model is
  the end of the process.
- A write torn inside one record or one directory entry: tears fall on record
  and entry boundaries.
- The wrap-around of `checkpoint_generation_` (64 bits) and sizes near
  `SIZE_MAX`, which the code checks; statistics counters.

## 6. Plan

Done: the index over its two stores with its theorems and the refinement of an
atomic index; searches; training; checkpoints; the AIO refiner and
the selector, both with all their safety properties proved;
the code path from the planner to the kernels, with all its invariants proved.

Left, in this order:

1. The formulas of the metrics as monotone functions of the dot product.

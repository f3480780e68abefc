---------------------------- MODULE IndexTraining ----------------------------
(***************************************************************************)
(* The models an index depends on and where they live: the caller's router *)
(* (adapters/faiss_router.cpp), the quantizer the index owns (quantizer.cpp)*)
(* and the files train() and checkpoint() write them to, with a failure or *)
(* a crash possible at every stage of training.                            *)
(*                                                                         *)
(* What is learned is named by the sample it was learned from.  The rows   *)
(* of the index are abstracted to the models they were routed and encoded  *)
(* with; how rows, sizes and postings are kept is ExternalListIndex and    *)
(* Checkpoint.  Every index is given a router of its own.                  *)
(***************************************************************************)
EXTENDS Naturals, Sequences

CONSTANTS
  Samples,       \* training sets train() may be given
  Ample,         \* those large and varied enough for every learner
  Configs,       \* [grouping, transform] of the quantizer
  NoSample,      \* nothing learned, no such file
  Extreme,       \* those with a vector whose norm overflows to infinity
  Broken,        \* a codebook, a transform, a range, a file or a field of one
                 \* that is of no use
  MayRecreate    \* whether create_storage may meet an installed checkpoint

ASSUME TrainingConstants ==
  /\ Ample \subseteq Samples /\ Ample # {} /\ Extreme \subseteq Samples
  /\ NoSample \notin Samples /\ Broken \notin Samples /\ NoSample # Broken
  /\ Broken \notin {0, 1}
  /\ Broken \notin {"Uniform", "Uneven", "None", "Pca", "ParametricOpq"}
  /\ Configs \subseteq [grouping : {"Uniform", "Uneven"},
                        transform : {"None", "Pca", "ParametricOpq"}]
  /\ Configs # {} /\ MayRecreate \in BOOLEAN

VARIABLES
  up,         \* an index object exists
  router,     \* FaissIvfRouter: centroids_ and trainer_, pq_router_
  quantizer,  \* quantizer_
  rows,       \* the models every row of the index was stored with
  used,       \* next_id_ is no longer 0
  call,       \* the locals of train() or checkpoint()
  disk        \* router.faiss and its temporary, quantizer.recast, manifest

vars == <<up, router, quantizer, rows, used, call, disk>>

NewRouter == [centroids |-> NoSample, pq |-> NoSample, released |-> FALSE]
Untrained(c) ==
  [grouping |-> c.grouping, transform |-> c.transform, mean |-> NoSample,
   norm_max |-> NoSample, rotation |-> NoSample, codebook |-> NoSample,
   norm_step |-> NoSample, scale |-> NoSample, trained |-> FALSE]
NoCall == [at |-> "idle", sample |-> NoSample]
\* quantizer.recast and the manifest are sets of at most one content.
NoFiles == [router_tmp |-> NoSample, router |-> NoSample,
            quantizer |-> {}, manifest |-> {}]

Init ==
  /\ up = TRUE
  /\ router = NewRouter
  /\ quantizer \in {Untrained(c) : c \in Configs}
  /\ rows = {} /\ used = FALSE
  /\ call = NoCall
  /\ disk = NoFiles

(***************************************************************************)
(* train(): the writer lock is held from the first stage to the last.      *)
(***************************************************************************)
Idle == up /\ call = NoCall

\* The guards of train() and of FaissIvfRouter::train.  A trainer that has its
\* centroids keeps them, whatever it is given.
TrainAccepts(s) ==
  /\ rows = {} /\ ~used
  /\ ~router.released
  /\ router.centroids # NoSample \/ s \in Ample

TrainRouter(s) ==
  /\ Idle /\ TrainAccepts(s)
  /\ router' = [router EXCEPT !.centroids = IF @ = NoSample THEN s ELSE @]
  /\ call' = [at |-> "norms", sample |-> s]
  /\ UNCHANGED <<up, quantizer, rows, used, disk>>

Learned(stage, q, next) ==
  /\ call.at = stage
  /\ quantizer' = q
  /\ call' = next
  /\ UNCHANGED <<up, router, rows, used, disk>>
At(stage) == [call EXCEPT !.at = stage]

\* norm_max of a sample; a step is a part of its maximum, infinite when that is.
NormMax(sample) == IF sample \in Extreme THEN Broken ELSE sample
NormStep(max, sample) == IF max = Broken THEN Broken ELSE sample
\* scale_max and scale_step: the scale of an infinite norm is infinite, but not
\* counted where the reconstruction is null, and for cosine no norm is in it.
Scales(sample) == {sample, NormMax(sample)}

\* RecastQuantizer::train, in the order it replaces what it had learned.
TrainNorms ==
  Learned("norms",
          [quantizer EXCEPT !.mean = call.sample,
                            !.norm_max = NormMax(call.sample)], At("rotation"))
\* No memory for the centered vectors: the mean is replaced, no norm is.
NormsThrow == Learned("norms", [quantizer EXCEPT !.mean = call.sample], NoCall)

TrainRotation ==
  Learned("rotation", IF quantizer.transform = "None" THEN quantizer
                      ELSE [quantizer EXCEPT !.rotation = call.sample],
          At("codebook"))
RotationLost ==
  Learned("rotation", [quantizer EXCEPT !.rotation = Broken], NoCall)
\* The transform is in place already when it turns out not to be orthonormal.
RotationRejected == quantizer.transform # "None" /\ RotationLost
\* In Pca mode an untrained matrix is in place when its training throws;
\* ParametricOpq trains one of its own first and keeps the old (TrainThrows).
PcaThrows == quantizer.transform = "Pca" /\ RotationLost

TrainCodebook ==
  /\ call.sample \in Ample
  /\ Learned("codebook",
             [quantizer EXCEPT !.codebook = call.sample,
                               !.norm_step = NormStep(quantizer.norm_max,
                                                      call.sample)],
             At("scales"))
\* Too few or constant vectors, or an allocation that fails: the uneven product
\* quantizer has forgotten its codebooks by then, the uniform one keeps them.
CodebookRefused ==
  Learned("codebook",
          IF quantizer.grouping = "Uniform" THEN quantizer
          ELSE [quantizer EXCEPT !.codebook = Broken], NoCall)

TrainScales ==
  \E scale \in Scales(call.sample) :
    Learned("scales", [quantizer EXCEPT !.scale = scale, !.trained = TRUE],
            At("persist"))

\* persist_and_install_pq_router: the compact router is learned from the
\* centroids, written, renamed, and read back into the caller's router.
WriteRouter ==
  /\ call.at = "persist"
  /\ disk' = [disk EXCEPT !.router_tmp = router.centroids]
  /\ call' = At("rename")
  /\ UNCHANGED <<up, router, quantizer, rows, used>>
WriteRouterFails ==
  /\ call.at = "persist"
  /\ disk' = [disk EXCEPT !.router_tmp = Broken]
  /\ call' = NoCall
  /\ UNCHANGED <<up, router, quantizer, rows, used>>
RenameRouter ==
  /\ call.at = "rename"
  /\ disk' = [disk EXCEPT !.router = disk.router_tmp, !.router_tmp = NoSample]
  /\ call' = At("load")
  /\ UNCHANGED <<up, router, quantizer, rows, used>>

Compact(file) == [centroids |-> NoSample, pq |-> file, released |-> TRUE]
LoadRouter ==
  /\ call.at = "load"
  /\ router' = Compact(disk.router)
  /\ call' = NoCall
  /\ UNCHANGED <<up, quantizer, rows, used, disk>>

\* Mutant: load_pq_router releases the centroids before it reads the file.
TrainThrowsReleased ==
  /\ call.at \in {"norms", "rotation", "codebook", "scales", "persist",
                  "rename", "load"}
  /\ router' = IF call.at = "load"
               THEN [router EXCEPT !.centroids = NoSample, !.released = TRUE]
               ELSE router
  /\ call' = NoCall
  /\ UNCHANGED <<up, quantizer, rows, used, disk>>
\* An allocation, a learner or a file operation fails before its stage has
\* changed anything: the exception leaves train().
TrainThrows ==
  /\ call.at \in {"norms", "rotation", "codebook", "scales", "persist",
                  "rename", "load"}
  /\ call' = NoCall
  /\ UNCHANGED <<up, router, quantizer, rows, used, disk>>

(***************************************************************************)
(* insert_batch and erase_batch, as far as the models go.                  *)
(***************************************************************************)
Params(q) == [q EXCEPT !.trained = TRUE]
Usable(q) == q.trained /\ q.codebook # Broken

\* Mutant: assign_pq does not ask whether the compact router is there.
InsertAcceptsUnrouted == Usable(quantizer)

\* assign_pq and encode throw when their model is not trained.  A transform that
\* is Broken is met nowhere the compact router is there (NeverWedged).
InsertAccepts == Usable(quantizer) /\ router.pq # NoSample

InsertRows ==
  /\ Idle /\ InsertAccepts
  /\ rows' = rows \cup {[router |-> router.pq, model |-> Params(quantizer)]}
  /\ used' = TRUE
  /\ UNCHANGED <<up, router, quantizer, call, disk>>

EraseRows ==
  /\ Idle /\ rows # {}
  /\ rows' = {}
  /\ UNCHANGED <<up, router, quantizer, used, call, disk>>

(***************************************************************************)
(* RecastQuantizer::save and load.  The payload is the sequence of the     *)
(* fields in the order they are written, the checksum is the payload       *)
(* itself: FNV-1a taken as free of collisions.                             *)
(***************************************************************************)
Rotation(q) ==
  IF q.rotation = NoSample THEN <<>> ELSE <<<<"rotation", q.rotation>>>>

\* Mutant: the scales are written before the norms.
PayloadReordered(q) ==
  <<<<"grouping", q.grouping>>, <<"transform", q.transform>>,
    <<"mean", q.mean>>, <<"rotations", Len(Rotation(q))>>>>
  \o Rotation(q)
  \o <<<<"backend", q.grouping>>, <<"codebook", q.codebook>>,
       <<"scale", q.scale>>, <<"norm_max", q.norm_max>>,
       <<"norm_step", q.norm_step>>>>
Payload(q) ==
  <<<<"grouping", q.grouping>>, <<"transform", q.transform>>,
    <<"mean", q.mean>>, <<"rotations", Len(Rotation(q))>>>>
  \o Rotation(q)
  \o <<<<"backend", q.grouping>>, <<"codebook", q.codebook>>,
       <<"norm_max", q.norm_max>>, <<"norm_step", q.norm_step>>,
       <<"scale", q.scale>>>>

Saved(q) ==
  LET p == Payload(q)
  IN  [bytes |-> Len(p), checksum |-> p, payload |-> p]

\* Where the reader is after the transform, if there is one.
ReadBackend(p) == IF p[4] = <<"rotations", 0>> THEN 5 ELSE 6

\* The transform must be a trained, orthonormal one and the ranges finite; what
\* fields are there and in which order, the backend among them, must agree with
\* the configuration read first.
LoadAccepts(f) ==
  LET p == f.payload
      k == ReadBackend(p)
  IN  /\ f.bytes = Len(p) /\ f.checksum = p
      /\ (p[4] = <<"rotations", 0>>) <=> (p[2][2] = "None")
      /\ Len(p) = k + 4
      /\ k = 6 => p[5][2] # Broken
      /\ p[k] = <<"backend", p[1][2]>>
      /\ \A i \in (k + 2) .. (k + 4) : p[i][2] # Broken

Loaded(f) ==
  LET p == f.payload
      k == ReadBackend(p)
  IN  [grouping |-> p[1][2], transform |-> p[2][2], mean |-> p[3][2],
       rotation |-> IF k = 5 THEN NoSample ELSE p[5][2],
       codebook |-> p[k + 1][2], norm_max |-> p[k + 2][2],
       norm_step |-> p[k + 3][2], scale |-> p[k + 4][2], trained |-> TRUE]

(***************************************************************************)
(* checkpoint(), reload, re-creation and crashes.                          *)
(***************************************************************************)
\* Mutant: a model file that is there already is not written again.
CheckpointQuantizerOnce ==
  /\ Idle /\ Usable(quantizer) /\ disk.router # NoSample
  /\ disk' = [disk EXCEPT !.quantizer = IF @ = {} THEN {Saved(quantizer)}
                                       ELSE @]
  /\ call' = At("manifest")
  /\ UNCHANGED <<up, router, quantizer, rows, used>>

\* A trained quantizer and some router.faiss are all checkpoint() asks for;
\* save() throws before it writes when the codebooks are gone.
CheckpointQuantizer ==
  /\ Idle /\ Usable(quantizer) /\ disk.router # NoSample
  /\ disk' = [disk EXCEPT !.quantizer = {Saved(quantizer)}]
  /\ call' = At("manifest")
  /\ UNCHANGED <<up, router, quantizer, rows, used>>

\* The generation's sizes and postings, then the manifest.
CheckpointManifest ==
  /\ call.at = "manifest"
  /\ disk' = [disk EXCEPT !.manifest = {[rows |-> rows, used |-> used]}]
  /\ call' = NoCall
  /\ UNCHANGED <<up, router, quantizer, rows, used>>

CheckpointThrows ==
  /\ call.at = "manifest"
  /\ call' = NoCall
  /\ UNCHANGED <<up, router, quantizer, rows, used, disk>>

Crash ==
  /\ up
  /\ up' = FALSE
  /\ router' = NewRouter
  /\ quantizer' = Untrained(quantizer)
  /\ rows' = {} /\ used' = FALSE
  /\ call' = NoCall
  /\ UNCHANGED disk

Reload ==
  /\ ~up /\ disk.router # NoSample
  /\ \E f \in disk.quantizer, m \in disk.manifest :
       /\ LoadAccepts(f)
       /\ quantizer' = Loaded(f)
       /\ rows' = m.rows /\ used' = m.used
  /\ up' = TRUE
  /\ router' = Compact(disk.router)
  /\ UNCHANGED <<call, disk>>

Create ==
  /\ ~up
  /\ MayRecreate \/ disk.manifest = {}
  /\ up' = TRUE
  /\ UNCHANGED <<router, quantizer, rows, used, call, disk>>

-----------------------------------------------------------------------------
TrainStep ==
  \/ \E s \in Samples : TrainRouter(s)
  \/ TrainNorms \/ TrainRotation \/ TrainCodebook \/ TrainScales
  \/ WriteRouter \/ RenameRouter \/ LoadRouter
TrainFailure ==
  \/ NormsThrow \/ PcaThrows \/ RotationRejected \/ CodebookRefused
  \/ WriteRouterFails \/ TrainThrows
CheckpointStep ==
  CheckpointQuantizer \/ CheckpointManifest \/ CheckpointThrows

Next ==
  \/ TrainStep \/ TrainFailure
  \/ InsertRows \/ EraseRows
  \/ CheckpointStep
  \/ Crash \/ Reload \/ Create

Spec == Init /\ [][Next]_vars

-----------------------------------------------------------------------------
(***************************************************************************)
(* Properties.                                                             *)
(***************************************************************************)
Models(r, q) == [router |-> r, model |-> Params(q)]

\* However training failed and was repeated, and whatever crashed: the rows of
\* the index were routed and encoded with the very models it now uses.
RowsServed ==
  up => \A r \in rows : r = Models(router.pq, quantizer)

\* From the moment a manifest is installed, between any two steps of later
\* trainings and checkpoints, the router and the model beside it are those its
\* rows were stored with.  Once the index of a manifest has taken rows, load
\* refuses that model for nothing but a range that is not finite.
FiniteRanges(q) == Broken \notin {q.norm_max, q.norm_step, q.scale}
CheckpointServed ==
  \A m \in disk.manifest :
    /\ disk.router # NoSample
    /\ \E f \in disk.quantizer :
         /\ \A r \in m.rows : r = Models(disk.router, Loaded(f))
         /\ m.used /\ FiniteRanges(Loaded(f)) => LoadAccepts(f)

\* "Atomically persists all learned state required by encode, decode, and scan":
\* a model that checkpoint() has published under a manifest is one that load
\* accepts.  It is not: a training that fails after an earlier one succeeded
\* leaves is_trained() and a transform that load refuses.
PublishedLoads ==
  disk.manifest # {} => \A f \in disk.quantizer : LoadAccepts(f)

\* No sequence of failures leaves a live index that can neither be trained nor
\* take rows: the one that has its compact router has a transform to encode with.
NeverWedged ==
  Idle => \/ InsertAccepts /\ quantizer.rotation # Broken
          \/ \A s \in Ample : TrainAccepts(s)

\* Whatever training has left in it: what save writes of a quantizer is read
\* back field by field, load refuses it exactly when its transform or one of its
\* ranges is of no use, and no file that lost its end, gained one or had a field
\* altered is accepted ("truncated, corrupt, or incompatible files").
Damaged(f) ==
  {[f EXCEPT !.payload = SubSeq(@, 1, k)] : k \in 0 .. (f.bytes - 1)}
  \cup {[f EXCEPT !.payload = Append(@, x)] : x \in {f.payload[1]}}
  \cup {[f EXCEPT !.payload[k][2] = Broken] : k \in 1 .. f.bytes}
Sound(q) == q.rotation # Broken /\ FiniteRanges(q)
ModelSurvives ==
  Usable(quantizer) =>
    LET saved == Saved(quantizer)
    IN  /\ Loaded(saved) = quantizer
        /\ LoadAccepts(saved) <=> Sound(quantizer)
        /\ \A f \in Damaged(saved) : ~LoadAccepts(f)
=============================================================================

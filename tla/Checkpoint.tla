----------------------------- MODULE Checkpoint -----------------------------
(***************************************************************************)
(* checkpoint(), load_checkpoint_locked() and the re-creation of an index  *)
(* over an existing storage root (adapters/external_list_ivf.cpp), with a  *)
(* crash possible between any two steps.                                   *)
(*                                                                         *)
(* The rows of a list are abstracted to their number and to a version that *)
(* no other contents share.  An artifact file is absent, torn (truncated   *)
(* and not yet fully written) or holds the snapshot of the index it was    *)
(* written from.  Processes that have the same inode open are told apart   *)
(* by where that inode is linked: under the temporary name, under the      *)
(* final name, or nowhere any more.                                        *)
(*                                                                         *)
(* Updates hold the writer lock and are one step: what they do inside is   *)
(* ExternalListIndex.  checkpoint() holds the reader lock, which excludes  *)
(* updates but not another checkpoint().                                   *)
(***************************************************************************)
EXTENDS Integers, FiniteSets, Sequences, FiniteSetsExt

CONSTANTS
  Threads,         \* threads that may call checkpoint()
  Lists,           \* IVF lists
  RecordsPerPage,  \* rows of a record page
  BlockSize,       \* rows of a packed block
  MayRecreate,     \* whether create_storage may meet an existing root
  MaxVersion,      \* bound on the number of updates
  MaxGeneration    \* bound on the number of checkpoints

ASSUME CheckpointConstants ==
  /\ IsFiniteSet(Threads) /\ IsFiniteSet(Lists)
  /\ RecordsPerPage \in Nat \ {0} /\ BlockSize \in Nat \ {0}
  /\ MayRecreate \in BOOLEAN
  /\ MaxVersion \in Nat /\ MaxGeneration \in Nat

VARIABLES
  up,          \* an index object exists
  mem,         \* lists_: size and version of every list
  generation,  \* checkpoint_generation_
  version,     \* versions given out so far
  records,     \* list files: pages and version of every list
  tmp, final,  \* artifact files under their temporary and final names
  call,        \* the locals of every thread's checkpoint()
  published    \* history: the index when its last manifest was installed, and
               \* whether the list files held its rows then

vars == <<up, mem, generation, version, records, tmp, final, call, published>>
indexVars == <<up, mem, version, records>>

Generations == 1 .. (MaxGeneration + Cardinality(Threads))
None == [state |-> "none"]
Torn == [state |-> "torn"]
NoList == [size |-> 0, version |-> 0]

\* Outside checkpoint(): at is the artifact in progress, fd where its inode is.
NoCall == [pc |-> "idle", at |-> 1, fd |-> "none", gen |-> 0, old |-> 0]

\* Mutant: the manifest is installed before the files it names.
ArtifactsManifestEarly == <<"quantizer", "manifest", "sizes", "postings">>

\* The files of one checkpoint, in the order they are written.
Artifacts == <<"quantizer", "sizes", "postings", "manifest">>

\* generation_path: list sizes and postings carry the generation in their name.
Name(a, g) == <<a, IF a \in {"sizes", "postings"} THEN g ELSE 0>>
Names == {Name(Artifacts[k], g) : k \in 1 .. 4, g \in Generations}

PageCount(n) == (n + RecordsPerPage - 1) \div RecordsPerPage
RoundUp(n) == ((n + BlockSize - 1) \div BlockSize) * BlockSize

SizeSum(m) == MapThenSumSet(LAMBDA l : m[l].size, Lists)
PostingRows(m) == MapThenSumSet(LAMBDA l : RoundUp(m[l].size), Lists)

Init ==
  /\ up = TRUE
  /\ mem = [l \in Lists |-> NoList]
  /\ generation = 0 /\ version = 0
  /\ records = [l \in Lists |-> [pages |-> 0, version |-> 0]]
  /\ tmp = [n \in Names |-> None]
  /\ final = [n \in Names |-> None]
  /\ call = [t \in Threads |-> NoCall]
  /\ published = None

(***************************************************************************)
(* Updates, under the writer lock.                                         *)
(***************************************************************************)
NoReader == \A t \in Threads : call[t] = NoCall

\* Every row set is new, except the empty one.
ChangeList(l, newSize) ==
  LET v == IF newSize = 0 THEN 0 ELSE version + 1
  IN  /\ mem' = [mem EXCEPT ![l] = [size |-> newSize, version |-> v]]
      /\ records' = [records EXCEPT ![l] = [pages |-> PageCount(newSize),
                                           version |-> v]]
      /\ version' = version + 1
      /\ UNCHANGED <<up, generation, tmp, final, call, published>>

InsertRow(l) ==
  /\ up /\ NoReader /\ version < MaxVersion
  /\ records[l].pages >= PageCount(mem[l].size)
  /\ ChangeList(l, mem[l].size + 1)

\* Mutant: a row is erased from an empty list.
EraseRowUnguarded(l) ==
  /\ up /\ NoReader /\ version < MaxVersion
  /\ records[l].pages = PageCount(mem[l].size)
  /\ ChangeList(l, mem[l].size - 1)

EraseRow(l) ==
  /\ up /\ NoReader /\ version < MaxVersion
  /\ mem[l].size > 0
  /\ records[l].pages = PageCount(mem[l].size)
  /\ ChangeList(l, mem[l].size - 1)

(***************************************************************************)
(* checkpoint().                                                           *)
(***************************************************************************)
Artifact(t) == Artifacts[call[t].at]
MyName(t) == Name(Artifact(t), call[t].gen)
HasOpen(u, name) == call[u].pc \in {"write", "rename"} /\ MyName(u) = name

\* What thread t writes into its current artifact.
Contents(t) == [state |-> "full", snap |-> mem, generation |-> call[t].gen]

CheckpointBegin(t) ==
  /\ up /\ call[t] = NoCall /\ generation < MaxGeneration
  /\ call' = [call EXCEPT ![t].pc = "open"]
  /\ UNCHANGED <<indexVars, generation, tmp, final, published>>

\* std::ios::trunc: a temporary that exists is truncated in place.
OpenTemporary(t) ==
  /\ call[t].pc = "open"
  /\ tmp' = [tmp EXCEPT ![MyName(t)] = Torn]
  /\ call' = [call EXCEPT ![t].pc = "write", ![t].fd = "tmp"]
  /\ UNCHANGED <<indexVars, generation, final, published>>

WriteTemporary(t) ==
  /\ call[t].pc = "write"
  /\ tmp' = IF call[t].fd = "tmp"
            THEN [tmp EXCEPT ![MyName(t)] = Contents(t)] ELSE tmp
  /\ final' = IF call[t].fd = "final"
              THEN [final EXCEPT ![MyName(t)] = Contents(t)] ELSE final
  /\ call' = [call EXCEPT ![t].pc = "rename"]
  /\ UNCHANGED <<indexVars, generation, published>>

\* The inode under a final name loses that name: whoever has it open keeps it.
Displaced(c, u, name) ==
  IF HasOpen(u, name) /\ c.fd = "final" THEN [c EXCEPT !.fd = "gone"] ELSE c

\* The temporary of thread t becomes the final file, for others too that have
\* it open.
Renamed(c, u, name) ==
  IF HasOpen(u, name) /\ c.fd = "tmp" THEN [c EXCEPT !.fd = "final"]
  ELSE Displaced(c, u, name)

\* The locals of t once its artifact is installed; the generation is read when
\* quantizer.recast has been replaced.
AfterInstall(t) ==
  CASE Artifact(t) = "quantizer" ->
         [call[t] EXCEPT !.pc = "open", !.at = 2, !.fd = "none",
                         !.gen = generation + 1]
    [] Artifact(t) # "quantizer" /\ call[t].at < Len(Artifacts) ->
         [call[t] EXCEPT !.pc = "open", !.at = @ + 1, !.fd = "none"]
    [] OTHER -> [call[t] EXCEPT !.pc = "retire", !.fd = "none"]

\* The list files hold the rows of index m.
FilesHold(m) == \A l \in Lists : records[l].version = m[l].version

\* replace_file
InstallArtifact(t) ==
  /\ call[t].pc = "rename" /\ tmp[MyName(t)] # None
  /\ final' = [final EXCEPT ![MyName(t)] = tmp[MyName(t)]]
  /\ tmp' = [tmp EXCEPT ![MyName(t)] = None]
  /\ call' = [u \in Threads |-> IF u = t THEN AfterInstall(t)
                                ELSE Renamed(call[u], u, MyName(t))]
  /\ published' = IF Artifact(t) = "manifest"
                  THEN [state |-> "full", snap |-> mem, held |-> FilesHold(mem)]
                  ELSE published
  /\ UNCHANGED <<indexVars, generation>>

\* Mutant: the generation just published is retired.
RetireOwn(t) ==
  /\ call[t].pc = "retire"
  /\ generation' = call[t].gen
  /\ call' = [call EXCEPT ![t] =
                IF generation = 0 THEN NoCall
                ELSE [@ EXCEPT !.pc = "unlinkSizes", !.old = call[t].gen]]
  /\ UNCHANGED <<indexVars, tmp, final, published>>

\* old_generation is read again here, not where the call's own was computed.
Retire(t) ==
  /\ call[t].pc = "retire"
  /\ generation' = call[t].gen
  /\ call' = [call EXCEPT ![t] =
                IF generation = 0 THEN NoCall
                ELSE [@ EXCEPT !.pc = "unlinkSizes", !.old = generation]]
  /\ UNCHANGED <<indexVars, tmp, final, published>>

Unlink(t, name, after) ==
  /\ final' = [final EXCEPT ![name] = None]
  /\ call' = [u \in Threads |-> IF u = t THEN after
                                ELSE Displaced(call[u], u, name)]
  /\ UNCHANGED <<indexVars, generation, tmp, published>>

UnlinkSizes(t) ==
  /\ call[t].pc = "unlinkSizes"
  /\ Unlink(t, <<"sizes", call[t].old>>,
            [call[t] EXCEPT !.pc = "unlinkPostings"])

UnlinkPostings(t) ==
  /\ call[t].pc = "unlinkPostings"
  /\ Unlink(t, <<"postings", call[t].old>>, NoCall)

\* An open, write or rename fails (a rename also when the temporary is gone):
\* checkpoint() throws and leaves the files as they are.
CheckpointThrows(t) ==
  /\ call[t].pc \in {"open", "write", "rename"}
  /\ call' = [call EXCEPT ![t] = NoCall]
  /\ UNCHANGED <<indexVars, generation, tmp, final, published>>

(***************************************************************************)
(* The process dies; a new one reloads the checkpoint, or creates an index *)
(* over the old root: list files and checkpoint files stay where they are. *)
(***************************************************************************)
Crash ==
  /\ up
  /\ up' = FALSE
  /\ call' = [t \in Threads |-> NoCall]
  /\ mem' = [l \in Lists |-> NoList]
  /\ generation' = 0
  /\ UNCHANGED <<version, records, tmp, final, published>>

Full(f) == f.state = "full"
Manifest == final[<<"manifest", 0>>]
Sizes == final[<<"sizes", Manifest.generation>>]
Postings == final[<<"postings", Manifest.generation>>]

\* Mutant: postings are compared with the rows, not with whole blocks of them.
LoadAcceptedUnpadded ==
  /\ Full(final[<<"quantizer", 0>>])
  /\ Full(Manifest) /\ Full(Sizes) /\ Full(Postings)
  /\ \A l \in Lists : records[l].pages = PageCount(Sizes.snap[l].size)
  /\ SizeSum(Sizes.snap) = SizeSum(Manifest.snap)
  /\ PostingRows(Postings.snap) = SizeSum(Sizes.snap)

\* load_checkpoint_locked throws nothing.
LoadAccepted ==
  /\ Full(final[<<"quantizer", 0>>])
  /\ Full(Manifest) /\ Full(Sizes) /\ Full(Postings)
  /\ \A l \in Lists : records[l].pages = PageCount(Sizes.snap[l].size)
  /\ SizeSum(Sizes.snap) = SizeSum(Manifest.snap)
  /\ PostingRows(Postings.snap) = PostingRows(Sizes.snap)

\* What it leaves in memory: sizes from one file, packed rows from the other.
LoadedLists == [l \in Lists |-> [size |-> Sizes.snap[l].size,
                                 version |-> Postings.snap[l].version]]

Reload ==
  /\ ~up
  /\ LoadAccepted
  /\ up' = TRUE
  /\ mem' = LoadedLists
  /\ generation' = Manifest.generation
  /\ UNCHANGED <<version, records, tmp, final, call, published>>

Recreate ==
  /\ MayRecreate /\ ~up
  /\ up' = TRUE
  /\ mem' = [l \in Lists |-> NoList]
  /\ generation' = 0
  /\ published' = None
  /\ UNCHANGED <<version, records, tmp, final, call>>

-----------------------------------------------------------------------------
Next ==
  \/ \E l \in Lists : InsertRow(l) \/ EraseRow(l)
  \/ \E t \in Threads :
       \/ CheckpointBegin(t) \/ OpenTemporary(t) \/ WriteTemporary(t)
       \/ InstallArtifact(t) \/ CheckpointThrows(t)
       \/ Retire(t) \/ UnlinkSizes(t) \/ UnlinkPostings(t)
  \/ Crash \/ Reload \/ Recreate

Spec == Init /\ [][Next]_vars

-----------------------------------------------------------------------------
(***************************************************************************)
(* Properties.                                                             *)
(***************************************************************************)
Snapshots == [Lists -> [size : Nat, version : Nat]]
ArtifactFiles ==
  {None, Torn} \cup [state : {"full"}, snap : Snapshots, generation : Nat]

\* Every variable stays in its domain.
TypeOK ==
  /\ up \in BOOLEAN /\ mem \in Snapshots
  /\ generation \in Nat /\ version \in Nat
  /\ records \in [Lists -> [pages : Nat, version : Nat]]
  /\ \A n \in Names : tmp[n] \in ArtifactFiles /\ final[n] \in ArtifactFiles
  /\ DOMAIN tmp = Names /\ DOMAIN final = Names
  /\ call \in [Threads ->
       [pc : {"idle", "open", "write", "rename", "retire", "unlinkSizes",
              "unlinkPostings"},
        at : 1 .. 4, fd : {"none", "tmp", "final", "gone"},
        gen : Nat, old : Nat]]
  /\ published \in {None} \cup [state : {"full"}, snap : Snapshots, held : BOOLEAN]

\* "Atomically publishes adapter-owned checkpoint files, manifest last": from
\* the moment a manifest is installed until the next one is, and whatever
\* crashes in between, the sizes and postings it names are there, complete,
\* and from the same checkpoint() call.
PublishedIntact ==
  Full(published) =>
    /\ Full(Manifest) /\ Manifest.snap = published.snap
    /\ Full(Sizes) /\ Sizes.snap = published.snap
    /\ Full(Postings) /\ Postings.snap = published.snap

\* If no update has changed a list file since the last installed manifest, and
\* the files held the rows of the index then, a restart at any moment accepts
\* the checkpoint and restores that index.
RestartRestores ==
  Full(published) /\ published.held /\ FilesHold(published.snap) =>
    LoadAccepted /\ LoadedLists = published.snap

\* "A reader never accepts partially replaced postings or sizes from a
\* checkpoint whose manifest was not installed": what a reload accepts is the
\* index the installed manifest was written from, whole.
AcceptsOnlyInstalled == LoadAccepted => LoadedLists = Manifest.snap

\* "Atomically publishes": once every checkpoint() call has returned, the
\* installed manifest names files that are there.
ReturnedIntact == up /\ NoReader => PublishedIntact
=============================================================================

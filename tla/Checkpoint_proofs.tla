-------------------------- MODULE Checkpoint_proofs --------------------------
(***************************************************************************)
(* What a checkpoint promises when one thread at a time is in              *)
(* checkpoint(): from the moment a manifest is installed the files it      *)
(* names are there, whatever crashes, and a restart over list files that   *)
(* still hold the rows of that moment restores the index.  The invariant   *)
(* follows the generations: a call writes the files of generation_ + 1,    *)
(* which the installed manifest does not name, and removes those of the    *)
(* generation before its own.                                              *)
(***************************************************************************)
EXTENDS Checkpoint, FiniteSetTheorems, TLAPS

\* Nobody else is in checkpoint(); with two threads its promise does not hold.
OneThread == \E t : Threads = {t}

Quantizer == final[<<"quantizer", 0>>]
Snapshot(g) == [state |-> "full", snap |-> mem, generation |-> g]

\* Where thread t is in checkpoint(): which generation it writes, and what it
\* has of its current artifact.
CallInv(t) ==
  /\ call[t].pc = "idle" => call[t] = NoCall
  /\ call[t].pc # "idle" => up
  /\ call[t].pc \in {"open", "write", "rename"} =>
       /\ generation < MaxGeneration
       /\ call[t].at = 1 => call[t].gen = 0
       /\ call[t].at # 1 => call[t].gen = generation + 1
  /\ call[t].pc = "write" => call[t].fd = "tmp"
  /\ call[t].pc = "rename" => tmp[MyName(t)] = Snapshot(call[t].gen)
  /\ call[t].pc = "retire" =>
       generation < MaxGeneration /\ call[t].gen = generation + 1
  /\ call[t].pc \in {"unlinkSizes", "unlinkPostings"} =>
       call[t].gen = generation /\ call[t].old = generation - 1

\* The artifacts it has installed are those of the index as it is.
WrittenInv(t) ==
  call[t].pc \in {"open", "write", "rename"} =>
    /\ call[t].at > 1 => Full(Quantizer)
    /\ call[t].at > 2 => final[<<"sizes", generation + 1>>] = Snapshot(generation + 1)
    /\ call[t].at > 3 => final[<<"postings", generation + 1>>] = Snapshot(generation + 1)

\* The generation the next manifest must not reuse.
Installed(t) == IF call[t].pc = "retire" THEN generation + 1 ELSE generation

PublishedInv(t) ==
  Full(published) =>
    /\ Full(Quantizer)
    /\ PublishedIntact
    /\ up => Manifest.generation = Installed(t)

\* Rows that are the same rows take the same pages.
RowsInv ==
  /\ \A l \in Lists : /\ records[l].version <= version
                      /\ records[l].version = 0 => records[l].pages = 0
  /\ up => \A l \in Lists : records[l].version = mem[l].version
                              => records[l].pages = PageCount(mem[l].size)
  /\ Full(published) /\ published.held =>
       \A l \in Lists :
         /\ published.snap[l].version <= version
         /\ published.snap[l].version = 0 => PageCount(published.snap[l].size) = 0
         /\ records[l].version = published.snap[l].version
              => records[l].pages = PageCount(published.snap[l].size)

CheckpointInv(t) ==
  /\ TypeOK
  /\ generation <= MaxGeneration
  /\ Full(Manifest) => Manifest.generation \in 1 .. MaxGeneration
  /\ CallInv(t) /\ WrittenInv(t) /\ PublishedInv(t) /\ RowsInv

(***************************************************************************)
(* Names and pages.                                                        *)
(***************************************************************************)
\* The names of the files a checkpoint of generation g writes.
LEMMA NameOf ==
  /\ Artifacts[1] = "quantizer" /\ Artifacts[2] = "sizes"
  /\ Artifacts[3] = "postings" /\ Artifacts[4] = "manifest" /\ Len(Artifacts) = 4
  /\ \A g : /\ Name("quantizer", g) = <<"quantizer", 0>>
            /\ Name("sizes", g) = <<"sizes", g>>
            /\ Name("postings", g) = <<"postings", g>>
            /\ Name("manifest", g) = <<"manifest", 0>>
BY DEF Artifacts, Name

\* They are names of the model as long as generations stay below their bound.
LEMMA NamesOfGenerations ==
  ASSUME NEW t, Threads = {t}
  PROVE  /\ <<"quantizer", 0>> \in Names /\ <<"manifest", 0>> \in Names
         /\ \A g \in 1 .. MaxGeneration :
              <<"sizes", g>> \in Names /\ <<"postings", g>> \in Names
<1>1. 1 \in Generations /\ \A g \in 1 .. MaxGeneration : g \in Generations
  <2>1. Cardinality(Threads) = 1
    BY FS_Singleton
  <2>2. QED
    BY <2>1, CheckpointConstants DEF Generations
<1>2. \A k \in 1 .. 4 : \A g \in Generations : Name(Artifacts[k], g) \in Names
  BY DEF Names
<1>3. QED
  <2>1. Name(Artifacts[1], 1) \in Names /\ Name(Artifacts[4], 1) \in Names
    BY <1>1, <1>2
  <2>2. \A g \in 1 .. MaxGeneration :
          Name(Artifacts[2], g) \in Names /\ Name(Artifacts[3], g) \in Names
    BY <1>1, <1>2
  <2>3. QED
    BY <2>1, <2>2, NameOf

\* An empty list has no pages.
LEMMA NoRowsNoPages ==
  /\ PageCount(0) = 0
  /\ \A n \in Nat : PageCount(n) \in Nat
<1>1. RecordsPerPage \in Nat \ {0}
  BY CheckpointConstants
<1>2. QED
  BY <1>1 DEF PageCount

(***************************************************************************)
(* Types.                                                                  *)
(***************************************************************************)
\* An update leaves every variable in its domain.
LEMMA TypeOfChange ==
  ASSUME TypeOK, NEW l \in Lists, NEW n \in Nat, ChangeList(l, n)
  PROVE  TypeOK'
<1>1. PageCount(n) \in Nat
  BY NoRowsNoPages
<1>2. mem' \in Snapshots /\ version' \in Nat
      /\ records' \in [Lists -> [pages : Nat, version : Nat]]
  BY <1>1 DEF ChangeList, TypeOK, Snapshots
<1>3. UNCHANGED <<up, generation, tmp, final, call, published>>
  BY DEF ChangeList
<1>4. QED
  BY <1>2, <1>3 DEF TypeOK

\* So does every step of checkpoint().
LEMMA TypeOfCheckpoint ==
  ASSUME TypeOK, NEW t \in Threads,
         \/ CheckpointBegin(t) \/ OpenTemporary(t) \/ WriteTemporary(t)
         \/ InstallArtifact(t) \/ CheckpointThrows(t)
         \/ Retire(t) \/ UnlinkSizes(t) \/ UnlinkPostings(t)
  PROVE  TypeOK'
<1> DEFINE Calls == [pc : {"idle", "open", "write", "rename", "retire",
                           "unlinkSizes", "unlinkPostings"},
                     at : 1 .. 4, fd : {"none", "tmp", "final", "gone"},
                     gen : Nat, old : Nat]
<1>1. call \in [Threads -> Calls] /\ NoCall \in Calls
  BY DEF TypeOK, NoCall
<1>2. \A c \in Calls : \A u, name : /\ Displaced(c, u, name) \in Calls
                                    /\ Renamed(c, u, name) \in Calls
  BY DEF Displaced, Renamed
<1>3. /\ UNCHANGED <<up, mem, version, records>>
      /\ up' \in BOOLEAN /\ mem' \in Snapshots /\ version' \in Nat
      /\ records' \in [Lists -> [pages : Nat, version : Nat]]
  BY DEF TypeOK, CheckpointBegin, OpenTemporary, WriteTemporary, InstallArtifact,
         CheckpointThrows, Retire, UnlinkSizes, UnlinkPostings, Unlink, indexVars
<1>4. Contents(t) \in ArtifactFiles
  BY <1>1 DEF Contents, ArtifactFiles, TypeOK
<1>5. CASE CheckpointBegin(t) \/ CheckpointThrows(t)
  <2>1. call' \in [Threads -> Calls]
    BY <1>1, <1>5 DEF CheckpointBegin, CheckpointThrows
  <2>2. QED
    BY <1>3, <1>5, <2>1 DEF TypeOK, CheckpointBegin, CheckpointThrows
<1>6. CASE OpenTemporary(t) \/ WriteTemporary(t)
  <2>1. call' \in [Threads -> Calls]
    BY <1>1, <1>6 DEF OpenTemporary, WriteTemporary
  <2>2. /\ \A n \in Names : tmp'[n] \in ArtifactFiles /\ final'[n] \in ArtifactFiles
        /\ DOMAIN tmp' = Names /\ DOMAIN final' = Names
    BY <1>4, <1>6 DEF OpenTemporary, WriteTemporary, TypeOK, ArtifactFiles
  <2>3. QED
    BY <1>3, <1>6, <2>1, <2>2 DEF TypeOK, OpenTemporary, WriteTemporary
<1>7. CASE InstallArtifact(t)
  <2>1. AfterInstall(t) \in Calls
    <3>1. generation + 1 \in Nat /\ call[t] \in Calls
      BY <1>1 DEF TypeOK
    <3>2. call[t].at < Len(Artifacts) => call[t].at + 1 \in 1 .. 4
      BY <1>1, NameOf
    <3>3. CASE Artifact(t) = "quantizer"
      <4>1. AfterInstall(t) = [call[t] EXCEPT !.pc = "open", !.at = 2, !.fd = "none",
                                              !.gen = generation + 1]
        BY <3>3 DEF AfterInstall
      <4>2. \A c \in Calls : \A g \in Nat :
              [c EXCEPT !.pc = "open", !.at = 2, !.fd = "none", !.gen = g] \in Calls
        <5>1. \A c \in Calls :
                [c EXCEPT !.pc = "open", !.fd = "none"] \in Calls
          OBVIOUS
        <5>2. \A c \in Calls : \A a \in 1 .. 4 : [c EXCEPT !.at = a] \in Calls
          OBVIOUS
        <5>3. \A c \in Calls : \A g \in Nat : [c EXCEPT !.gen = g] \in Calls
          OBVIOUS
        <5>4. TAKE c \in Calls, g \in Nat
        <5>5. [c EXCEPT !.pc = "open", !.at = 2, !.fd = "none", !.gen = g]
                = [[[c EXCEPT !.pc = "open", !.fd = "none"] EXCEPT !.at = 2]
                     EXCEPT !.gen = g]
          OBVIOUS
        <5>6. 2 \in 1 .. 4
          OBVIOUS
        <5> HIDE DEF Calls
        <5>7. QED
          BY <5>1, <5>2, <5>3, <5>5, <5>6
      <4> HIDE DEF Calls
      <4>3. QED
        BY <3>1, <4>1, <4>2
    <3>4. CASE Artifact(t) # "quantizer" /\ call[t].at < Len(Artifacts)
      <4>1. AfterInstall(t) = [call[t] EXCEPT !.pc = "open", !.at = @ + 1, !.fd = "none"]
        BY <3>4 DEF AfterInstall
      <4>2. QED
        BY <3>1, <3>2, <3>4, <4>1
    <3>5. CASE Artifact(t) # "quantizer" /\ ~(call[t].at < Len(Artifacts))
      <4>1. AfterInstall(t) = [call[t] EXCEPT !.pc = "retire", !.fd = "none"]
        BY <3>5 DEF AfterInstall
      <4>2. QED
        BY <3>1, <4>1
    <3>6. QED
      BY <3>3, <3>4, <3>5
  <2>2. call' \in [Threads -> Calls]
    BY <1>1, <1>2, <1>7, <2>1 DEF InstallArtifact
  <2>3. /\ \A n \in Names : tmp'[n] \in ArtifactFiles /\ final'[n] \in ArtifactFiles
        /\ DOMAIN tmp' = Names /\ DOMAIN final' = Names
    BY <1>7 DEF InstallArtifact, TypeOK, ArtifactFiles
  <2>4. published' \in {None} \cup [state : {"full"}, snap : Snapshots, held : BOOLEAN]
    <3>1. FilesHold(mem) \in BOOLEAN /\ mem \in Snapshots
      BY DEF FilesHold, TypeOK
    <3>2. [state |-> "full", snap |-> mem, held |-> FilesHold(mem)]
            \in [state : {"full"}, snap : Snapshots, held : BOOLEAN]
      BY <3>1
    <3>3. QED
      BY <1>7, <3>2 DEF InstallArtifact, TypeOK
  <2>5. QED
    BY <1>3, <1>7, <2>2, <2>3, <2>4 DEF TypeOK, InstallArtifact
<1>8. CASE Retire(t)
  <2>1. call' \in [Threads -> Calls] /\ generation' \in Nat
    BY <1>1, <1>8 DEF Retire, TypeOK
  <2>2. QED
    BY <1>3, <1>8, <2>1 DEF TypeOK, Retire
<1>9. CASE UnlinkSizes(t) \/ UnlinkPostings(t)
  <2>1. PICK after \in Calls : \E name : Unlink(t, name, after)
    <3>1. [call[t] EXCEPT !.pc = "unlinkPostings"] \in Calls
      BY <1>1
    <3>2. QED
      BY <1>1, <1>9, <3>1 DEF UnlinkSizes, UnlinkPostings
  <2>2. call' \in [Threads -> Calls]
    BY <1>1, <1>2, <2>1 DEF Unlink
  <2>3. (\A n \in Names : final'[n] \in ArtifactFiles) /\ DOMAIN final' = Names
    BY <2>1 DEF Unlink, TypeOK, ArtifactFiles
  <2>4. QED
    BY <1>3, <2>1, <2>2, <2>3 DEF TypeOK, Unlink
<1>10. QED
  BY <1>5, <1>6, <1>7, <1>8, <1>9

(***************************************************************************)
(* Steps.                                                                  *)
(***************************************************************************)
\* A new set of rows is unlike any other.
LEMMA ChangeInv ==
  ASSUME NEW t, Threads = {t}, CheckpointInv(t), NEW l \in Lists, NEW n \in Nat,
         up, NoReader, ChangeList(l, n)
  PROVE  CheckpointInv(t)'
<1>1. TypeOK /\ TypeOK' /\ call[t] = NoCall
  BY TypeOfChange DEF CheckpointInv, NoReader
<1>2. UNCHANGED <<up, generation, tmp, final, call, published>>
  BY DEF ChangeList
<1>3. RowsInv'
  <2> DEFINE v == IF n = 0 THEN 0 ELSE version + 1
  <2>1. /\ mem' = [mem EXCEPT ![l] = [size |-> n, version |-> v]]
        /\ records' = [records EXCEPT ![l] = [pages |-> PageCount(n), version |-> v]]
        /\ version' = version + 1
    BY DEF ChangeList
  <2>2. version \in Nat /\ v \in Nat /\ PageCount(n) \in Nat
    BY <1>1, NoRowsNoPages DEF TypeOK
  <2>3. /\ \A m \in Lists : mem'[m] = IF m = l THEN [size |-> n, version |-> v] ELSE mem[m]
        /\ \A m \in Lists : records'[m] = IF m = l THEN [pages |-> PageCount(n), version |-> v]
                                          ELSE records[m]
        /\ \A m \in Lists : records[m].version \in Nat
    BY <1>1, <2>1 DEF TypeOK, Snapshots
  <2>4. v = 0 => PageCount(n) = 0
    BY <2>2, NoRowsNoPages
  <2>5. v # 0 => v > version
    BY <2>2
  <2> HIDE DEF v
  <2>6. \A m \in Lists : /\ records'[m].version <= version'
                         /\ records'[m].version = 0 => records'[m].pages = 0
    <3>1. v <= version + 1
      BY <2>2 DEF v
    <3>2. \A m \in Lists : records[m].version <= version
      BY DEF CheckpointInv, RowsInv
    <3>3. QED
      BY <2>1, <2>2, <2>3, <2>4, <3>1, <3>2 DEF CheckpointInv, RowsInv
  <2>7. \A m \in Lists : records'[m].version = mem'[m].version
                           => records'[m].pages = PageCount(mem'[m].size)
    BY <2>3 DEF CheckpointInv, RowsInv
  <2>8. ASSUME Full(published), published.held, NEW m \in Lists
        PROVE  /\ published.snap[m].version <= version'
               /\ published.snap[m].version = 0 => PageCount(published.snap[m].size) = 0
               /\ records'[m].version = published.snap[m].version
                    => records'[m].pages = PageCount(published.snap[m].size)
    <3>1. /\ published.snap[m].version \in Nat
          /\ published.snap[m].version <= version
          /\ published.snap[m].version = 0 => PageCount(published.snap[m].size) = 0
          /\ records[m].version = published.snap[m].version
               => records[m].pages = PageCount(published.snap[m].size)
      BY <1>1, <2>8 DEF CheckpointInv, RowsInv, TypeOK, Snapshots, Full, None
    <3>2. CASE m # l
      BY <2>1, <2>2, <2>3, <3>1, <3>2
    <3>3. CASE m = l
      BY <2>1, <2>2, <2>3, <2>4, <2>5, <3>1, <3>3
    <3>4. QED
      BY <3>2, <3>3
  <2>9. QED
    BY <1>2, <2>6, <2>7, <2>8 DEF RowsInv, PageCount, Full
<1>4. CallInv(t)' /\ WrittenInv(t)'
  BY <1>1, <1>2 DEF CallInv, WrittenInv, NoCall
<1>5. PublishedInv(t)' /\ generation' <= MaxGeneration
      /\ (Full(Manifest) => Manifest.generation \in 1 .. MaxGeneration)'
  BY <1>2 DEF CheckpointInv, PublishedInv, PublishedIntact, Installed, Full,
              Quantizer, Manifest, Sizes, Postings
<1>6. QED
  BY <1>1, <1>3, <1>4, <1>5 DEF CheckpointInv

\* The installed files are the same: neither a call that begins or fails nor a
\* temporary changes what is published.
LEMMA PublishedFrame ==
  ASSUME NEW t, PublishedInv(t), UNCHANGED <<up, final, published>>,
         Installed(t)' = Installed(t)
  PROVE  PublishedInv(t)'
BY DEF PublishedInv, PublishedIntact, Full, Quantizer, Manifest, Sizes, Postings

\* checkpoint() changes neither the index nor the list files.
LEMMA RowsFrame ==
  ASSUME RowsInv, UNCHANGED <<up, mem, version, records, published>>
  PROVE  RowsInv'
BY DEF RowsInv, Full, PageCount

\* A thread that is nowhere else in checkpoint() has its own file in progress.
LEMMA OwnStep ==
  ASSUME NEW t, Threads = {t}, CheckpointInv(t),
         \/ CheckpointBegin(t) \/ OpenTemporary(t) \/ WriteTemporary(t)
         \/ CheckpointThrows(t)
  PROVE  CheckpointInv(t)'
<1>1. TypeOK /\ TypeOK'
  BY TypeOfCheckpoint DEF CheckpointInv
<1>2. UNCHANGED <<up, mem, version, records, generation, published>>
  BY DEF CheckpointBegin, OpenTemporary, WriteTemporary, CheckpointThrows, indexVars
<1>3. call \in [Threads -> [pc : {"idle", "open", "write", "rename", "retire",
                                   "unlinkSizes", "unlinkPostings"},
                            at : 1 .. 4, fd : {"none", "tmp", "final", "gone"},
                            gen : Nat, old : Nat]]
  BY <1>1 DEF TypeOK
<1>4. UNCHANGED final
  BY DEF CheckpointBegin, OpenTemporary, WriteTemporary, CheckpointThrows,
         CheckpointInv, CallInv
<1>5. CallInv(t)' /\ WrittenInv(t)' /\ Installed(t)' = Installed(t)
  <2>1. CASE CheckpointBegin(t)
    <3>1. /\ call[t] = NoCall /\ generation < MaxGeneration /\ up
          /\ call'[t] = [call[t] EXCEPT !.pc = "open"]
      BY <1>3, <2>1 DEF CheckpointBegin
    <3>2. QED
      BY <1>2, <3>1 DEF CallInv, WrittenInv, Installed, NoCall
  <2>2. CASE OpenTemporary(t)
    <3>1. /\ call[t].pc = "open"
          /\ call'[t] = [call[t] EXCEPT !.pc = "write", !.fd = "tmp"]
      BY <1>3, <2>2 DEF OpenTemporary
    <3>2. /\ call'[t].pc = "write" /\ call'[t].fd = "tmp"
          /\ call'[t].at = call[t].at /\ call'[t].gen = call[t].gen
      BY <1>3, <3>1
    <3>3. QED
      BY <1>2, <1>4, <3>1, <3>2
         DEF CheckpointInv, CallInv, WrittenInv, Installed, Full, Quantizer, Snapshot
  <2>3. CASE WriteTemporary(t)
    <3>1. /\ call[t].pc = "write" /\ call[t].fd = "tmp"
          /\ call'[t] = [call[t] EXCEPT !.pc = "rename"]
          /\ tmp' = [tmp EXCEPT ![MyName(t)] = Contents(t)]
      BY <1>3, <2>3 DEF WriteTemporary, CheckpointInv, CallInv
    <3>2. /\ call'[t].pc = "rename"
          /\ call'[t].at = call[t].at /\ call'[t].gen = call[t].gen
      BY <1>3, <3>1
    <3>3. MyName(t)' = MyName(t) /\ MyName(t) \in DOMAIN tmp
      <4>1. MyName(t)' = MyName(t)
        BY <3>2 DEF MyName, Artifact
      <4>2. MyName(t) \in Names
        <5>1. call[t].at \in 1 .. 4 /\ call[t].gen \in Nat /\ generation \in Nat
          BY <1>1, <1>3 DEF TypeOK
        <5>2. /\ generation < MaxGeneration
              /\ call[t].at # 1 => call[t].gen \in 1 .. MaxGeneration
          BY <3>1, <5>1, CheckpointConstants DEF CheckpointInv, CallInv
        <5>3. QED
          BY <5>1, <5>2, NameOf, NamesOfGenerations DEF MyName, Artifact
      <4>3. QED
        BY <1>1, <4>1, <4>2 DEF TypeOK
    <3>4. tmp'[MyName(t)'] = Snapshot(call[t].gen)'
      BY <1>2, <3>1, <3>2, <3>3 DEF Contents, Snapshot
    <3>5. QED
      BY <1>2, <1>4, <3>1, <3>2, <3>4
         DEF CheckpointInv, CallInv, WrittenInv, Installed, Full, Quantizer, Snapshot
  <2>4. CASE CheckpointThrows(t)
    <3>1. call'[t] = NoCall /\ call[t].pc \in {"open", "write", "rename"}
      BY <1>3, <2>4 DEF CheckpointThrows
    <3>2. QED
      BY <1>2, <3>1 DEF CallInv, WrittenInv, Installed, NoCall
  <2>5. QED
    BY <2>1, <2>2, <2>3, <2>4
<1>6. PublishedInv(t)' /\ RowsInv'
  BY <1>2, <1>4, <1>5, PublishedFrame, RowsFrame DEF CheckpointInv
<1>7. generation' <= MaxGeneration
      /\ (Full(Manifest) => Manifest.generation \in 1 .. MaxGeneration)'
  BY <1>2, <1>4 DEF CheckpointInv, Full, Manifest
<1>8. QED
  BY <1>1, <1>5, <1>6, <1>7 DEF CheckpointInv

\* A renamed artifact is one of the four, whole, under its own name.
LEMMA InstallInv ==
  ASSUME NEW t, Threads = {t}, CheckpointInv(t), InstallArtifact(t)
  PROVE  CheckpointInv(t)'
<1>1. TypeOK /\ TypeOK'
  BY TypeOfCheckpoint DEF CheckpointInv
<1>2. UNCHANGED <<up, mem, version, records, generation>>
  BY DEF InstallArtifact, indexVars
<1>3. /\ call[t].pc = "rename" /\ call[t].at \in 1 .. 4 /\ up
      /\ generation \in Nat /\ generation < MaxGeneration
      /\ generation + 1 \in 1 .. MaxGeneration
      /\ call[t].at = 1 => call[t].gen = 0
      /\ call[t].at # 1 => call[t].gen = generation + 1
  BY <1>1, CheckpointConstants DEF InstallArtifact, CheckpointInv, CallInv, TypeOK
<1>4. /\ final' = [final EXCEPT ![MyName(t)] = Snapshot(call[t].gen)]
      /\ call'[t] = AfterInstall(t)
      /\ published' = IF Artifact(t) = "manifest"
                      THEN [state |-> "full", snap |-> mem, held |-> FilesHold(mem)]
                      ELSE published
  BY <1>3 DEF InstallArtifact, CheckpointInv, CallInv
<1>5. DOMAIN final = Names
  BY <1>1 DEF TypeOK
<1>6. \A g : Snapshot(g)' = Snapshot(g) /\ Full(Snapshot(g))
             /\ Snapshot(g).generation = g /\ Snapshot(g).snap = mem
  BY <1>2 DEF Snapshot, Full
<1>7. CASE call[t].at = 1
  <2>1. /\ Artifact(t) = "quantizer" /\ MyName(t) = <<"quantizer", 0>>
        /\ <<"quantizer", 0>> \in Names
    BY <1>7, NameOf, NamesOfGenerations DEF Artifact, MyName
  <2>2. /\ final' = [final EXCEPT ![<<"quantizer", 0>>] = Snapshot(call[t].gen)]
        /\ UNCHANGED published
        /\ call'[t].pc = "open" /\ call'[t].at = 2 /\ call'[t].gen = generation + 1
    BY <1>1, <1>3, <1>4, <2>1 DEF AfterInstall, TypeOK
  <2>3. /\ Quantizer' = Snapshot(call[t].gen) /\ UNCHANGED Manifest
        /\ \A g : /\ final'[<<"sizes", g>>] = final[<<"sizes", g>>]
                  /\ final'[<<"postings", g>>] = final[<<"postings", g>>]
    BY <1>5, <2>1, <2>2 DEF Quantizer, Manifest
  <2>4. UNCHANGED <<Sizes, Postings>>
    BY <2>3 DEF Sizes, Postings
  <2>5. CallInv(t)' /\ WrittenInv(t)'
    BY <1>2, <1>3, <1>6, <2>2, <2>3 DEF CallInv, WrittenInv, Full
  <2>6. PublishedInv(t)'
    BY <1>2, <1>3, <1>6, <2>2, <2>3, <2>4
       DEF CheckpointInv, PublishedInv, PublishedIntact, Full, Installed
  <2>7. QED
    BY <1>1, <1>2, <2>2, <2>3, <2>5, <2>6, RowsFrame DEF CheckpointInv, Full
<1>8. CASE call[t].at \in {2, 3}
  <2> DEFINE kind == IF call[t].at = 2 THEN "sizes" ELSE "postings"
  <2>1. /\ Artifact(t) = kind /\ MyName(t) = <<kind, generation + 1>>
        /\ <<kind, generation + 1>> \in Names
    BY <1>3, <1>8, NameOf, NamesOfGenerations DEF Artifact, MyName
  <2>2. /\ final' = [final EXCEPT ![<<kind, generation + 1>>] = Snapshot(generation + 1)]
        /\ UNCHANGED published
        /\ call'[t].pc = "open" /\ call'[t].at = call[t].at + 1
        /\ call'[t].gen = generation + 1
    <3>1. AfterInstall(t) = [call[t] EXCEPT !.pc = "open", !.at = @ + 1, !.fd = "none"]
      BY <1>3, <1>8, <2>1, NameOf DEF AfterInstall
    <3>2. /\ AfterInstall(t).pc = "open" /\ AfterInstall(t).at = call[t].at + 1
          /\ AfterInstall(t).gen = call[t].gen
      <4>1. call[t] \in [pc : {"idle", "open", "write", "rename", "retire",
                               "unlinkSizes", "unlinkPostings"},
                         at : 1 .. 4, fd : {"none", "tmp", "final", "gone"},
                         gen : Nat, old : Nat]
        BY <1>1 DEF TypeOK
      <4>2. QED
        BY <3>1, <4>1
    <3>3. call[t].gen = generation + 1
      BY <1>3, <1>8
    <3>4. final' = [final EXCEPT ![<<kind, generation + 1>>] = Snapshot(generation + 1)]
      BY <1>4, <2>1, <3>3
    <3>5. UNCHANGED published
      BY <1>4, <2>1
    <3>6. QED
      BY <1>4, <3>2, <3>3, <3>4, <3>5
  <2>3. /\ UNCHANGED <<Quantizer, Manifest>>
        /\ final'[<<kind, generation + 1>>] = Snapshot(generation + 1)
        /\ \A x : x # <<kind, generation + 1>> => final'[x] = final[x]
    BY <1>5, <2>1, <2>2 DEF Quantizer, Manifest
  <2>4. Full(published) => UNCHANGED <<Sizes, Postings>>
    <3>1. Full(published) => Manifest.generation = generation
      BY <1>3 DEF CheckpointInv, PublishedInv, Installed
    <3>2. generation # generation + 1
      BY <1>3
    <3>3. QED
      BY <2>3, <3>1, <3>2 DEF Sizes, Postings
  <2>5. CallInv(t)'
    BY <1>2, <1>3, <1>8, <2>2 DEF CallInv
  <2>6. WrittenInv(t)'
    <3>1. call[t].at > 1 => Full(Quantizer)
      BY <1>3 DEF CheckpointInv, WrittenInv
    <3>2. call[t].at = 3 => final[<<"sizes", generation + 1>>] = Snapshot(generation + 1)
      BY <1>3 DEF CheckpointInv, WrittenInv
    <3>3. CASE call[t].at = 2
      BY <1>2, <1>6, <2>2, <2>3, <3>1, <3>3 DEF WrittenInv, Full
    <3>4. CASE call[t].at = 3
      <4>1. final'[<<"sizes", generation + 1>>] = Snapshot(generation + 1)
        BY <2>3, <3>2, <3>4
      <4>2. QED
        BY <1>2, <1>6, <2>2, <2>3, <3>1, <3>4, <4>1 DEF WrittenInv, Full
    <3>5. QED
      BY <1>8, <3>3, <3>4
  <2>7. PublishedInv(t)'
    BY <1>2, <1>3, <2>2, <2>3, <2>4
       DEF CheckpointInv, PublishedInv, PublishedIntact, Full, Installed
  <2>8. QED
    BY <1>1, <1>2, <2>2, <2>3, <2>5, <2>6, <2>7, RowsFrame DEF CheckpointInv, Full
<1>9. CASE call[t].at = 4
  <2>1. /\ Artifact(t) = "manifest" /\ MyName(t) = <<"manifest", 0>>
        /\ <<"manifest", 0>> \in Names
    BY <1>9, NameOf, NamesOfGenerations DEF Artifact, MyName
  <2>2. /\ final' = [final EXCEPT ![<<"manifest", 0>>] = Snapshot(generation + 1)]
        /\ published' = [state |-> "full", snap |-> mem, held |-> FilesHold(mem)]
        /\ call'[t].pc = "retire" /\ call'[t].gen = generation + 1
    <3>1. AfterInstall(t) = [call[t] EXCEPT !.pc = "retire", !.fd = "none"]
      BY <1>9, <2>1, NameOf DEF AfterInstall
    <3>2. AfterInstall(t).pc = "retire" /\ AfterInstall(t).gen = call[t].gen
      <4>1. call[t] \in [pc : {"idle", "open", "write", "rename", "retire",
                               "unlinkSizes", "unlinkPostings"},
                         at : 1 .. 4, fd : {"none", "tmp", "final", "gone"},
                         gen : Nat, old : Nat]
        BY <1>1 DEF TypeOK
      <4>2. QED
        BY <3>1, <4>1
    <3>3. call[t].gen = generation + 1
      BY <1>3, <1>9
    <3>4. final' = [final EXCEPT ![<<"manifest", 0>>] = Snapshot(generation + 1)]
      BY <1>4, <2>1, <3>3
    <3>5. published' = [state |-> "full", snap |-> mem, held |-> FilesHold(mem)]
      BY <1>4, <2>1
    <3>6. QED
      BY <1>4, <3>2, <3>3, <3>4, <3>5
  <2>3. /\ Manifest' = Snapshot(generation + 1)
        /\ \A x : x # <<"manifest", 0>> => final'[x] = final[x]
    BY <1>5, <2>1, <2>2 DEF Manifest
  <2>4. /\ Sizes' = Snapshot(generation + 1) /\ Postings' = Snapshot(generation + 1)
        /\ Full(Quantizer')
    BY <1>3, <1>6, <1>9, <2>3
       DEF CheckpointInv, WrittenInv, Sizes, Postings, Quantizer, Full
  <2>5. CallInv(t)' /\ WrittenInv(t)'
    BY <1>2, <1>3, <2>2 DEF CallInv, WrittenInv
  <2>6. PublishedInv(t)'
    <3>1. published'.snap = mem
      BY <2>2
    <3>2. PublishedIntact'
      BY <1>2, <1>6, <2>3, <2>4, <3>1 DEF PublishedIntact, Full
    <3>3. Manifest'.generation = Installed(t)'
      BY <1>2, <1>6, <2>2, <2>3 DEF Installed
    <3>4. QED
      BY <2>4, <3>2, <3>3 DEF PublishedInv, Full
  <2>7. RowsInv'
    <3>1. /\ \A l \in Lists : /\ records[l].version <= version
                              /\ records[l].version = 0 => records[l].pages = 0
          /\ \A l \in Lists : records[l].version = mem[l].version
                                => records[l].pages = PageCount(mem[l].size)
      BY <1>3 DEF CheckpointInv, RowsInv
    <3>2. published'.held => \A l \in Lists : records[l].version = mem[l].version
      BY <2>2 DEF FilesHold
    <3>3. published'.snap = mem
      BY <2>2
    <3>4. QED
      BY <1>2, <3>1, <3>2, <3>3 DEF RowsInv, PageCount
  <2>8. QED
    BY <1>1, <1>2, <1>3, <1>6, <2>3, <2>5, <2>6, <2>7 DEF CheckpointInv, Full
<1>10. QED
  BY <1>3, <1>7, <1>8, <1>9

\* The generation that is retired is not the one the manifest names.
LEMMA RetireInv ==
  ASSUME NEW t, Threads = {t}, CheckpointInv(t),
         Retire(t) \/ UnlinkSizes(t) \/ UnlinkPostings(t)
  PROVE  CheckpointInv(t)'
<1>1. TypeOK /\ TypeOK'
  BY TypeOfCheckpoint DEF CheckpointInv
<1>2. UNCHANGED <<up, mem, version, records, published>>
  BY DEF Retire, UnlinkSizes, UnlinkPostings, Unlink, indexVars
<1>3. call[t].pc # "idle" => up
  BY DEF CheckpointInv, CallInv
<1>4. CASE Retire(t)
  <2>1. /\ call[t].pc = "retire" /\ generation' = generation + 1
        /\ generation \in Nat /\ generation < MaxGeneration /\ UNCHANGED final
        /\ call[t].gen = generation + 1
    BY <1>1, <1>4 DEF Retire, CheckpointInv, CallInv, TypeOK
  <2>2. \/ call'[t] = NoCall
        \/ /\ call'[t].pc = "unlinkSizes" /\ call'[t].old = generation
           /\ call'[t].gen = generation + 1
    BY <1>1, <1>4, <2>1 DEF Retire, TypeOK
  <2>3. CallInv(t)' /\ WrittenInv(t)'
    <3>1. generation = generation' - 1
      BY <2>1
    <3>2. CASE call'[t] = NoCall
      BY <3>2 DEF CallInv, WrittenInv, NoCall
    <3>3. CASE call'[t].pc = "unlinkSizes" /\ call'[t].old = generation
               /\ call'[t].gen = generation + 1
      BY <1>2, <1>3, <2>1, <3>1, <3>3 DEF CallInv, WrittenInv
    <3>4. QED
      BY <2>2, <3>2, <3>3
  <2>4. Installed(t)' = Installed(t)
    BY <2>1, <2>2 DEF Installed, NoCall
  <2>5. PublishedInv(t)' /\ RowsInv'
    BY <1>2, <2>1, <2>4, PublishedFrame, RowsFrame DEF CheckpointInv
  <2>6. QED
    BY <1>1, <2>1, <2>3, <2>5, CheckpointConstants DEF CheckpointInv, Full, Manifest
<1>5. CASE UnlinkSizes(t) \/ UnlinkPostings(t)
  <2> DEFINE kind == IF call[t].pc = "unlinkSizes" THEN "sizes" ELSE "postings"
             gone == <<kind, call[t].old>>
  <2>1. /\ call[t].pc \in {"unlinkSizes", "unlinkPostings"} /\ UNCHANGED generation
        /\ final' = [final EXCEPT ![gone] = None]
        /\ \/ call'[t] = NoCall
           \/ call'[t] = [call[t] EXCEPT !.pc = "unlinkPostings"]
    BY <1>1, <1>5 DEF UnlinkSizes, UnlinkPostings, Unlink, TypeOK
  <2>2. /\ generation \in Nat /\ call[t].gen = generation /\ call[t].old = generation - 1
        /\ generation # call[t].old
    BY <1>1, <2>1 DEF CheckpointInv, CallInv, TypeOK
  <2>3. CallInv(t)' /\ WrittenInv(t)' /\ Installed(t)' = Installed(t)
    <3>1. CASE call'[t] = NoCall
      BY <2>1, <3>1 DEF CallInv, WrittenInv, Installed, NoCall
    <3>2. CASE call'[t] = [call[t] EXCEPT !.pc = "unlinkPostings"]
      <4>1. /\ call'[t].pc = "unlinkPostings" /\ call'[t].gen = call[t].gen
            /\ call'[t].old = call[t].old
        BY <1>1, <3>2 DEF TypeOK
      <4>2. QED
        BY <1>2, <1>3, <2>1, <2>2, <4>1 DEF CallInv, WrittenInv, Installed
    <3>3. QED
      BY <2>1, <3>1, <3>2
  <2>4. UNCHANGED <<Quantizer, Manifest>> /\ \A x : x # gone => final'[x] = final[x]
    BY <1>1, <2>1 DEF Quantizer, Manifest, TypeOK
  <2>5. Full(published) => UNCHANGED <<Sizes, Postings>>
    <3>1. Full(published) => Manifest.generation = generation
      BY <1>3, <2>1 DEF CheckpointInv, PublishedInv, Installed
    <3>2. QED
      BY <2>2, <2>4, <3>1 DEF Sizes, Postings
  <2>6. PublishedInv(t)' /\ RowsInv'
    BY <1>2, <2>3, <2>4, <2>5, RowsFrame
       DEF CheckpointInv, PublishedInv, PublishedIntact, Full
  <2>7. QED
    BY <1>1, <2>1, <2>3, <2>4, <2>6 DEF CheckpointInv, Full
<1>6. QED
  BY <1>4, <1>5

\* A new process starts from the files.
LEMMA RestartInv ==
  ASSUME NEW t, Threads = {t}, CheckpointInv(t), Crash \/ Reload \/ Recreate
  PROVE  CheckpointInv(t)'
<1>1. UNCHANGED <<version, records, tmp, final>>
  BY DEF Crash, Reload, Recreate
<1>2. TypeOK
  BY DEF CheckpointInv
<1>3. [l \in Lists |-> NoList] \in Snapshots
  BY DEF NoList, Snapshots
<1>4. UNCHANGED <<Quantizer, Manifest, Sizes, Postings>>
  BY <1>1 DEF Quantizer, Manifest, Sizes, Postings
<1>5. CASE Crash
  <2>1. call'[t] = NoCall /\ ~up' /\ UNCHANGED published /\ generation' = 0
    BY <1>5 DEF Crash
  <2>2. TypeOK'
    <3>1. call' \in [Threads -> [pc : {"idle", "open", "write", "rename", "retire",
                                       "unlinkSizes", "unlinkPostings"},
                     at : 1 .. 4, fd : {"none", "tmp", "final", "gone"},
                     gen : Nat, old : Nat]]
      BY <1>5 DEF Crash, NoCall
    <3>2. QED
      BY <1>1, <1>2, <1>3, <1>5, <3>1 DEF TypeOK, Crash
  <2>3. CallInv(t)' /\ WrittenInv(t)'
    BY <2>1 DEF CallInv, WrittenInv, NoCall
  <2>4. PublishedInv(t)' /\ RowsInv'
    BY <1>1, <1>4, <2>1
       DEF CheckpointInv, PublishedInv, PublishedIntact, RowsInv, Full, PageCount
  <2>5. QED
    BY <1>4, <2>1, <2>2, <2>3, <2>4, CheckpointConstants DEF CheckpointInv, Full
<1>6. CASE Reload
  <2>1. /\ ~up /\ up' /\ UNCHANGED <<call, published>>
        /\ generation' = Manifest.generation /\ mem' = LoadedLists
        /\ LoadAccepted
    BY <1>6 DEF Reload
  <2>2. call[t] = NoCall /\ call'[t] = NoCall
    BY <1>2, <2>1 DEF CheckpointInv, CallInv, TypeOK
  <2>3. Manifest.generation \in 1 .. MaxGeneration
    BY <2>1 DEF LoadAccepted, CheckpointInv
  <2>4. Sizes.snap \in Snapshots /\ Postings.snap \in Snapshots
    <3>1. Sizes \in ArtifactFiles /\ Postings \in ArtifactFiles
      BY <1>2, <2>3, NamesOfGenerations DEF TypeOK, Sizes, Postings
    <3>2. QED
      BY <2>1, <3>1 DEF LoadAccepted, Full, ArtifactFiles, None, Torn
  <2>5. LoadedLists \in Snapshots
    BY <2>4 DEF LoadedLists, Snapshots
  <2>6. TypeOK'
    <3>1. up' \in BOOLEAN /\ generation' \in Nat
      BY <1>6, <2>1, <2>3 DEF Reload
    <3>2. QED
      BY <1>1, <1>2, <2>1, <2>5, <3>1 DEF TypeOK
  <2>7. CallInv(t)' /\ WrittenInv(t)'
    BY <2>2 DEF CallInv, WrittenInv, NoCall
  <2>8. PublishedInv(t)'
    BY <1>4, <2>1, <2>2
       DEF CheckpointInv, PublishedInv, PublishedIntact, Full, Installed, NoCall
  <2>9. RowsInv'
    <3>1. \A l \in Lists : records[l].pages = PageCount(mem'[l].size)
      BY <2>1 DEF LoadAccepted, LoadedLists
    <3>2. QED
      BY <1>1, <2>1, <3>1 DEF CheckpointInv, RowsInv, Full, PageCount
  <2>10. QED
    BY <1>4, <2>1, <2>3, <2>6, <2>7, <2>8, <2>9 DEF CheckpointInv, Full
<1>7. CASE Recreate
  <2>1. /\ ~up /\ up' /\ UNCHANGED call /\ published' = None /\ generation' = 0
        /\ mem' = [l \in Lists |-> NoList]
    BY <1>7 DEF Recreate
  <2>2. call[t] = NoCall /\ call'[t] = NoCall
    BY <1>2, <2>1 DEF CheckpointInv, CallInv, TypeOK
  <2>3. TypeOK'
    <3>1. up' \in BOOLEAN
      BY <1>7 DEF Recreate
    <3>2. QED
      BY <1>1, <1>2, <1>3, <2>1, <3>1 DEF TypeOK
  <2>4. CallInv(t)' /\ WrittenInv(t)'
    BY <2>2 DEF CallInv, WrittenInv, NoCall
  <2>5. PublishedInv(t)'
    BY <2>1 DEF PublishedInv, Full, None
  <2>6. RowsInv'
    <3>1. \A l \in Lists : mem'[l].version = 0 /\ PageCount(mem'[l].size) = 0
      BY <2>1, NoRowsNoPages DEF NoList
    <3>2. QED
      BY <1>1, <2>1, <3>1 DEF CheckpointInv, RowsInv, Full, None, PageCount
  <2>7. QED
    BY <1>4, <2>1, <2>3, <2>4, <2>5, <2>6, CheckpointConstants DEF CheckpointInv, Full
<1>8. QED
  BY <1>5, <1>6, <1>7

\* An index starts with nothing published.
LEMMA CheckpointInvInit ==
  ASSUME NEW t, Threads = {t}, Init
  PROVE  CheckpointInv(t)
<1>1. TypeOK
  <2>1. [l \in Lists |-> NoList] \in Snapshots
    BY DEF NoList, Snapshots
  <2>2. call \in [Threads -> [pc : {"idle", "open", "write", "rename", "retire",
                                    "unlinkSizes", "unlinkPostings"},
                  at : 1 .. 4, fd : {"none", "tmp", "final", "gone"},
                  gen : Nat, old : Nat]]
    BY DEF Init, NoCall
  <2>3. QED
    BY <2>1, <2>2 DEF Init, TypeOK, ArtifactFiles
<1>2. call[t] = NoCall /\ published = None /\ up
  BY DEF Init
<1>3. CallInv(t) /\ WrittenInv(t) /\ PublishedInv(t)
  BY <1>2 DEF CallInv, WrittenInv, PublishedInv, NoCall, Full, None
<1>4. ~Full(Manifest)
  BY NamesOfGenerations DEF Init, Manifest, Full, None
<1>5. RowsInv
  BY <1>2, NoRowsNoPages DEF Init, RowsInv, Full, None, NoList
<1>6. QED
  BY <1>1, <1>3, <1>4, <1>5, CheckpointConstants DEF CheckpointInv, Init

\* Every step keeps the invariant.
LEMMA CheckpointInvNext ==
  ASSUME NEW t, Threads = {t}, CheckpointInv(t), [Next]_vars
  PROVE  CheckpointInv(t)'
<1>1. CASE \E l \in Lists : InsertRow(l) \/ EraseRow(l)
  <2>1. PICK l \in Lists : InsertRow(l) \/ EraseRow(l)
    BY <1>1
  <2>2. mem[l].size \in Nat
    BY DEF CheckpointInv, TypeOK, Snapshots
  <2>3. up /\ NoReader /\ \E n \in Nat : ChangeList(l, n)
    BY <2>1, <2>2 DEF InsertRow, EraseRow
  <2>4. QED
    BY <2>3, ChangeInv
<1>2. CASE \E u \in Threads :
             \/ CheckpointBegin(u) \/ OpenTemporary(u) \/ WriteTemporary(u)
             \/ InstallArtifact(u) \/ CheckpointThrows(u)
             \/ Retire(u) \/ UnlinkSizes(u) \/ UnlinkPostings(u)
  BY <1>2, OwnStep, InstallInv, RetireInv
<1>3. CASE Crash \/ Reload \/ Recreate
  BY <1>3, RestartInv
<1>4. CASE UNCHANGED vars
  <2>1. UNCHANGED <<up, mem, generation, version, records, tmp, final, call, published>>
    BY <1>4 DEF vars
  <2>2. TypeOK'
    BY <2>1 DEF CheckpointInv, TypeOK
  <2>3. CallInv(t)' /\ WrittenInv(t)' /\ Installed(t)' = Installed(t)
    BY <2>1 DEF CheckpointInv, CallInv, WrittenInv, Installed, Snapshot, MyName,
                Artifact, Full, Quantizer
  <2>4. PublishedInv(t)' /\ RowsInv'
    BY <2>1, <2>3, PublishedFrame, RowsFrame DEF CheckpointInv
  <2>5. QED
    BY <2>1, <2>2, <2>3, <2>4 DEF CheckpointInv, Full, Manifest
<1>5. QED
  BY <1>1, <1>2, <1>3, <1>4 DEF Next

(***************************************************************************)
(* The theorems.                                                           *)
(***************************************************************************)
\* The invariant holds throughout every run with one thread.
LEMMA CheckpointSpecInv ==
  ASSUME NEW t, Threads = {t}
  PROVE  Spec => []CheckpointInv(t)
<1>1. Init => CheckpointInv(t)
  BY CheckpointInvInit
<1>2. CheckpointInv(t) /\ [Next]_vars => CheckpointInv(t)'
  BY CheckpointInvNext
<1>3. QED
  BY <1>1, <1>2, PTL DEF Spec

\* Every variable of checkpoint() and of its files stays in its domain.
THEOREM CheckpointTypeCorrect ==
  ASSUME OneThread
  PROVE  Spec => []TypeOK
<1>1. PICK t : Threads = {t}
  BY DEF OneThread
<1>2. Spec => []CheckpointInv(t)
  BY <1>1, CheckpointSpecInv
<1>3. CheckpointInv(t) => TypeOK
  BY DEF CheckpointInv
<1>4. QED
  BY <1>2, <1>3, PTL

\* From the moment checkpoint() installs a manifest until the next one is
\* installed, whatever steps fail and whenever the process dies, the sizes and
\* postings it names are there, complete and of the same call.
THEOREM PublishedStaysIntact ==
  ASSUME OneThread
  PROVE  Spec => []PublishedIntact
<1>1. PICK t : Threads = {t}
  BY DEF OneThread
<1>2. Spec => []CheckpointInv(t)
  BY <1>1, CheckpointSpecInv
<1>3. CheckpointInv(t) => PublishedIntact
  BY DEF CheckpointInv, PublishedInv, PublishedIntact
<1>4. QED
  BY <1>2, <1>3, PTL

\* A restart over list files that hold the rows of the last installed manifest
\* accepts that checkpoint and restores the index it was written from.
THEOREM RestartsRestore ==
  ASSUME OneThread
  PROVE  Spec => []RestartRestores
<1>1. PICK t : Threads = {t}
  BY DEF OneThread
<1>2. Spec => []CheckpointInv(t)
  BY <1>1, CheckpointSpecInv
<1>3. CheckpointInv(t) => RestartRestores
  <2> SUFFICES ASSUME CheckpointInv(t), Full(published), published.held,
                      FilesHold(published.snap)
               PROVE  LoadAccepted /\ LoadedLists = published.snap
    BY DEF RestartRestores
  <2>1. /\ Full(Quantizer)
        /\ Full(Manifest) /\ Manifest.snap = published.snap
        /\ Full(Sizes) /\ Sizes.snap = published.snap
        /\ Full(Postings) /\ Postings.snap = published.snap
    BY DEF CheckpointInv, PublishedInv, PublishedIntact
  <2>2. \A l \in Lists : records[l].pages = PageCount(Sizes.snap[l].size)
    BY <2>1 DEF CheckpointInv, RowsInv, FilesHold
  <2>3. published.snap \in Snapshots
    BY DEF CheckpointInv, TypeOK, Full, None
  <2>4. LoadAccepted
    BY <2>1, <2>2 DEF LoadAccepted, Quantizer
  <2>5. LoadedLists = published.snap
    BY <2>1, <2>3 DEF LoadedLists, Snapshots
  <2>6. QED
    BY <2>4, <2>5
<1>4. QED
  BY <1>2, <1>3, PTL
=============================================================================

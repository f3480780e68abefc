------------------------ MODULE IndexTraining_proofs ------------------------
(***************************************************************************)
(* Proofs about IndexTraining: the rows of an index, in memory and in an   *)
(* installed checkpoint, always go with the models beside them, and no     *)
(* failed training leaves an index of no use.                              *)
(*                                                                         *)
(* The argument is that the models freeze.  A successful training ends     *)
(* with the router released, and a router that is released is never        *)
(* trained again; rows are only taken once it is.  So from the first row   *)
(* on, quantizer_, the compact router and router.faiss stay what they are, *)
(* and every later checkpoint writes the same model again.                 *)
(* Beside it, what save writes of a usable quantizer load reads back, and  *)
(* accepts unless its transform or a range is of no use; that transform is *)
(* never one of a released router.  No damaged file is accepted.           *)
(***************************************************************************)
EXTENDS IndexTraining, TLAPS

Sampled == Samples \cup {NoSample}
Learnt == Samples \cup {NoSample, Broken}
Quantizers ==
  [grouping : {"Uniform", "Uneven"},
   transform : {"None", "Pca", "ParametricOpq"},
   mean : Sampled, norm_max : Learnt, rotation : Learnt,
   codebook : Learnt, norm_step : Learnt, scale : Learnt, trained : BOOLEAN]
Routers ==
  [centroids : Learnt, pq : Learnt, released : BOOLEAN]

Stages == {"norms", "rotation", "codebook", "scales", "persist", "rename",
           "load"}

\* The transform is there exactly when the configuration asks for one.
RotationFits(q) == q.rotation = NoSample <=> q.transform = "None"

TypeInv ==
  /\ up \in BOOLEAN /\ used \in BOOLEAN
  /\ router \in Routers
  /\ quantizer \in Quantizers
  /\ call \in [at : Stages \cup {"idle", "manifest"},
               sample : Samples \cup {NoSample}]
  /\ disk \in [router_tmp : Learnt, router : Learnt,
               quantizer : {{}} \cup {{Saved(q)} : q \in Quantizers},
               manifest : SUBSET [rows : SUBSET [router : Learnt,
                                                 model : Quantizers],
                                  used : BOOLEAN]]
  /\ rows \in SUBSET [router : Learnt, model : Quantizers]

\* What train() has achieved at each of its stages.
StageInv ==
  /\ call.at \in Stages =>
       /\ up /\ rows = {} /\ ~used
       /\ ~router.released /\ router.centroids # NoSample
       /\ call.sample \in Samples
  /\ call.at \in {"codebook", "scales", "persist", "rename", "load"} =>
       quantizer.rotation # Broken
  /\ call.at \in {"scales", "persist", "rename", "load"} =>
       quantizer.codebook # Broken
  /\ call.at \in {"persist", "rename", "load"} => quantizer.trained
  /\ call.at = "rename" => disk.router_tmp # NoSample
  /\ call.at = "load" => disk.router # NoSample
  /\ quantizer.transform = "None" => quantizer.rotation = NoSample
  /\ call.at \in {"codebook", "scales", "persist", "rename", "load"}
     \/ quantizer.trained => RotationFits(quantizer)

\* A released router is whole, matches its file, and has a usable quantizer
\* with a usable transform beside it; rows exist only then.
ReleaseInv ==
  /\ router.released =>
       /\ up /\ router.pq # NoSample /\ router.pq = disk.router
       /\ Usable(quantizer) /\ quantizer.rotation # Broken
  /\ ~router.released => router.pq = NoSample /\ rows = {} /\ ~used
  /\ rows # {} => used
  /\ call.at \notin Stages \cup {"manifest"} => call = NoCall

\* Every file was written of a usable model; a checkpoint in progress has
\* written the model it is about to publish.
SavedInv ==
  /\ \A f \in disk.quantizer :
       \E q \in Quantizers : f = Saved(q) /\ Usable(q) /\ RotationFits(q)
  /\ call.at = "manifest" =>
       /\ up /\ Usable(quantizer) /\ disk.router # NoSample
       /\ disk.quantizer = {Saved(quantizer)}
  /\ \A m \in disk.manifest :
       disk.router # NoSample /\ (m.rows # {} => m.used)

WedgeInv == TypeInv /\ StageInv /\ ReleaseInv /\ SavedInv

\* An installed manifest with rows pins the models of the running index.
PinInv ==
  /\ \A m, n \in disk.manifest : m = n
  /\ \A m \in disk.manifest :
       /\ disk.quantizer # {}
       /\ m.used /\ up => used /\ disk.quantizer = {Saved(quantizer)}
       /\ m.used => \A f \in disk.quantizer : Loaded(f).rotation # Broken
       /\ \A f \in disk.quantizer : \A r \in m.rows :
            r = Models(disk.router, Loaded(f))

-----------------------------------------------------------------------------
(***************************************************************************)
(* What load makes of what save wrote.                                     *)
(***************************************************************************)
LEMMA PayloadPlain ==
  ASSUME NEW q \in Quantizers, q.rotation = NoSample
  PROVE  /\ Len(Payload(q)) = 9
         /\ Payload(q)[1] = <<"grouping", q.grouping>>
         /\ Payload(q)[2] = <<"transform", q.transform>>
         /\ Payload(q)[3] = <<"mean", q.mean>>
         /\ Payload(q)[4] = <<"rotations", 0>>
         /\ Payload(q)[5] = <<"backend", q.grouping>>
         /\ Payload(q)[6] = <<"codebook", q.codebook>>
         /\ Payload(q)[7] = <<"norm_max", q.norm_max>>
         /\ Payload(q)[8] = <<"norm_step", q.norm_step>>
         /\ Payload(q)[9] = <<"scale", q.scale>>
<1>1. Rotation(q) = <<>> /\ Len(Rotation(q)) = 0
  BY DEF Rotation
<1>. HIDE DEF Rotation
<1>. QED
  BY <1>1 DEF Payload

LEMMA PayloadRotated ==
  ASSUME NEW q \in Quantizers, q.rotation # NoSample
  PROVE  /\ Len(Payload(q)) = 10
         /\ Payload(q)[1] = <<"grouping", q.grouping>>
         /\ Payload(q)[2] = <<"transform", q.transform>>
         /\ Payload(q)[3] = <<"mean", q.mean>>
         /\ Payload(q)[4] = <<"rotations", 1>>
         /\ Payload(q)[5] = <<"rotation", q.rotation>>
         /\ Payload(q)[6] = <<"backend", q.grouping>>
         /\ Payload(q)[7] = <<"codebook", q.codebook>>
         /\ Payload(q)[8] = <<"norm_max", q.norm_max>>
         /\ Payload(q)[9] = <<"norm_step", q.norm_step>>
         /\ Payload(q)[10] = <<"scale", q.scale>>
<1>1. Rotation(q) = <<<<"rotation", q.rotation>>>> /\ Len(Rotation(q)) = 1
  BY DEF Rotation
<1>. QED
  BY <1>1 DEF Payload

\* A trained quantizer is read back whole: save and load agree on the order of
\* the fields and on whether there is a transform among them.  It is accepted
\* exactly when its transform and its ranges are of use.
LEMMA LoadSaved ==
  ASSUME NEW q \in Quantizers, q.trained, RotationFits(q)
  PROVE  /\ LoadAccepts(Saved(q)) <=> Sound(q)
         /\ Loaded(Saved(q)) = q
<1>. DEFINE p == Payload(q)
<1>1. /\ Saved(q).bytes = Len(p) /\ Saved(q).checksum = p
      /\ Saved(q).payload = p
  BY DEF Saved
<1>2. CASE q.rotation = NoSample
  <2>1. ReadBackend(p) = 5
    BY <1>2, PayloadPlain DEF ReadBackend
  <2>2. q.transform = "None"
    BY <1>2 DEF RotationFits
  <2>3. LoadAccepts(Saved(q)) <=> Sound(q)
    <3>1. /\ (p[4] = <<"rotations", 0>>) <=> (p[2][2] = "None")
          /\ Len(p) = 5 + 4
          /\ p[5] = <<"backend", p[1][2]>>
          /\ p[7][2] = q.norm_max /\ p[8][2] = q.norm_step
          /\ p[9][2] = q.scale
      BY <1>2, <2>1, <2>2, PayloadPlain
    <3>2. Sound(q) <=> \A i \in 7 .. 9 : p[i][2] # Broken
      <4>1. Sound(q) <=> p[7][2] # Broken /\ p[8][2] # Broken
                         /\ p[9][2] # Broken
        BY <1>2, <3>1, TrainingConstants DEF Sound, FiniteRanges
      <4>. HIDE DEF p
      <4>2. 7 .. 9 = {7, 8, 9}
        OBVIOUS
      <4>. QED
        BY <4>1, <4>2
    <3>. HIDE DEF p
    <3>. QED
      BY <1>1, <2>1, <3>1, <3>2 DEF LoadAccepts
  <2>4. Loaded(Saved(q)) =
          [grouping |-> q.grouping, transform |-> q.transform,
           mean |-> q.mean, rotation |-> NoSample, codebook |-> q.codebook,
           norm_max |-> q.norm_max, norm_step |-> q.norm_step,
           scale |-> q.scale, trained |-> TRUE]
    <3>1. /\ p[1][2] = q.grouping /\ p[2][2] = q.transform
          /\ p[3][2] = q.mean /\ p[5 + 1][2] = q.codebook
          /\ p[5 + 2][2] = q.norm_max /\ p[5 + 3][2] = q.norm_step
          /\ p[5 + 4][2] = q.scale
      BY <1>2, PayloadPlain
    <3>. HIDE DEF p
    <3>. QED
      BY <1>1, <2>1, <3>1, Zenon DEF Loaded
  <2>. QED
    BY <1>2, <2>3, <2>4 DEF Quantizers, Sampled, Learnt
<1>3. CASE q.rotation # NoSample
  <2>1. p[4] # <<"rotations", 0>> /\ ReadBackend(p) = 6
    BY <1>3, PayloadRotated DEF ReadBackend
  <2>2. q.transform # "None"
    BY <1>3 DEF RotationFits
  <2>3. LoadAccepts(Saved(q)) <=> Sound(q)
    <3>1. /\ (p[4] = <<"rotations", 0>>) <=> (p[2][2] = "None")
          /\ Len(p) = 6 + 4
          /\ p[6] = <<"backend", p[1][2]>> /\ p[5][2] = q.rotation
          /\ p[8][2] = q.norm_max /\ p[9][2] = q.norm_step
          /\ p[10][2] = q.scale
      BY <1>3, <2>1, <2>2, PayloadRotated
    <3>2. Sound(q) <=> /\ p[5][2] # Broken
                       /\ \A i \in 8 .. 10 : p[i][2] # Broken
      <4>1. Sound(q) <=> p[5][2] # Broken /\ p[8][2] # Broken
                         /\ p[9][2] # Broken /\ p[10][2] # Broken
        BY <3>1 DEF Sound, FiniteRanges
      <4>. HIDE DEF p
      <4>2. 8 .. 10 = {8, 9, 10}
        OBVIOUS
      <4>. QED
        BY <4>1, <4>2
    <3>. HIDE DEF p
    <3>. QED
      BY <1>1, <2>1, <3>1, <3>2 DEF LoadAccepts
  <2>4. Loaded(Saved(q)) =
          [grouping |-> q.grouping, transform |-> q.transform,
           mean |-> q.mean, rotation |-> q.rotation,
           codebook |-> q.codebook, norm_max |-> q.norm_max,
           norm_step |-> q.norm_step, scale |-> q.scale, trained |-> TRUE]
    <3>1. /\ p[1][2] = q.grouping /\ p[2][2] = q.transform
          /\ p[3][2] = q.mean /\ p[5][2] = q.rotation
          /\ p[6 + 1][2] = q.codebook /\ p[6 + 2][2] = q.norm_max
          /\ p[6 + 3][2] = q.norm_step /\ p[6 + 4][2] = q.scale
          /\ 6 # 5
      BY <1>3, PayloadRotated
    <3>. HIDE DEF p
    <3>. QED
      BY <1>1, <2>1, <3>1 DEF Loaded
  <2>. QED
    BY <1>3, <2>3, <2>4 DEF Quantizers, Sampled, Learnt
<1>. QED
  BY <1>2, <1>3

\* What save may write of q.
Fields(q) ==
  {<<"grouping", q.grouping>>, <<"transform", q.transform>>, <<"mean", q.mean>>,
   <<"rotations", 0>>, <<"rotations", 1>>, <<"rotation", q.rotation>>,
   <<"backend", q.grouping>>, <<"codebook", q.codebook>>, <<"norm_max", q.norm_max>>,
   <<"norm_step", q.norm_step>>, <<"scale", q.scale>>}

\* The only fields of a usable quantizer that may look damaged are those load
\* looks at,
LEMMA PayloadWhole ==
  ASSUME NEW q \in Quantizers, Usable(q)
  PROVE  /\ Payload(q) \in Seq(Fields(q))
         /\ \A x \in Fields(q) : DOMAIN x = {1, 2}
         /\ Sound(q) => \A x \in Fields(q) : x[2] # Broken
<1>1. Sound(q) =>
        /\ q.grouping # Broken /\ q.transform # Broken /\ q.mean # Broken
        /\ q.codebook # Broken /\ q.norm_max # Broken /\ q.norm_step # Broken
        /\ q.scale # Broken /\ q.rotation # Broken /\ 0 # Broken /\ 1 # Broken
  BY TrainingConstants DEF Quantizers, Sampled, Usable, Sound, FiniteRanges
<1>2. /\ \A x \in Fields(q) : DOMAIN x = {1, 2}
      /\ Sound(q) => \A x \in Fields(q) : x[2] # Broken
  BY <1>1 DEF Fields
<1>. DEFINE head == <<<<"grouping", q.grouping>>, <<"transform", q.transform>>,
                      <<"mean", q.mean>>, <<"rotations", Len(Rotation(q))>>>>
            tail == <<<<"backend", q.grouping>>, <<"codebook", q.codebook>>,
                      <<"norm_max", q.norm_max>>, <<"norm_step", q.norm_step>>,
                      <<"scale", q.scale>>>>
            S == Fields(q)
<1>3. /\ <<"grouping", q.grouping>> \in S /\ <<"transform", q.transform>> \in S
      /\ <<"mean", q.mean>> \in S /\ <<"rotations", Len(Rotation(q))>> \in S
      /\ <<"rotation", q.rotation>> \in S /\ <<"backend", q.grouping>> \in S
      /\ <<"codebook", q.codebook>> \in S /\ <<"norm_max", q.norm_max>> \in S
      /\ <<"norm_step", q.norm_step>> \in S /\ <<"scale", q.scale>> \in S
  <2>1. Len(Rotation(q)) = 0 \/ Len(Rotation(q)) = 1
    BY DEF Rotation
  <2>. QED
    BY <2>1 DEF Fields
<1>4. Payload(q) = head \o Rotation(q) \o tail
  BY DEF Payload
<1>. HIDE DEF S
<1>5. head \in Seq(S) /\ tail \in Seq(S)
  BY <1>3
<1>6. Rotation(q) \in Seq(S)
  BY <1>3 DEF Rotation
<1>. HIDE DEF head, tail
<1>7. Payload(q) \in Seq(S)
  BY <1>4, <1>5, <1>6
<1>. QED
  BY <1>2, <1>7 DEF S

\* so a file that was cut, extended or altered is not the one its length and
\* its checksum were made for, or is one load refuses anyway.
LEMMA DamageRefused ==
  ASSUME NEW q \in Quantizers, Usable(q), RotationFits(q),
         NEW f \in Damaged(Saved(q))
  PROVE  ~LoadAccepts(f)
<1>. DEFINE p == Payload(q)
           V == Fields(q)
<1>1. /\ p \in Seq(V) /\ Len(p) \in Nat
      /\ \A k \in 1 .. Len(p) : DOMAIN p[k] = {1, 2}
      /\ Sound(q) => \A k \in 1 .. Len(p) : p[k][2] # Broken
  <2>1. /\ p \in Seq(V) /\ \A x \in V : DOMAIN x = {1, 2}
        /\ Sound(q) => \A x \in V : x[2] # Broken
    BY PayloadWhole
  <2>. HIDE DEF p, V
  <2>2. Len(p) \in Nat /\ \A k \in 1 .. Len(p) : p[k] \in V
    BY <2>1
  <2>. QED
    BY <2>1, <2>2
<1>2. Saved(q) = [bytes |-> Len(p), checksum |-> p, payload |-> p]
  BY DEF Saved
<1>. HIDE DEF p, V
<1>3. CASE \E k \in 0 .. Len(p) - 1 : f = [Saved(q) EXCEPT !.payload = SubSeq(p, 1, k)]
  <2>1. PICK k \in 0 .. Len(p) - 1 : f = [Saved(q) EXCEPT !.payload = SubSeq(p, 1, k)]
    BY <1>3
  <2>2. Len(SubSeq(p, 1, k)) = k /\ k # Len(p)
    BY <1>1
  <2>3. f.bytes = Len(p) /\ f.payload = SubSeq(p, 1, k)
    BY <1>2, <2>1
  <2>. QED
    BY <2>2, <2>3 DEF LoadAccepts
<1>4. CASE f = [Saved(q) EXCEPT !.payload = Append(p, p[1])]
  <2>1. Len(Append(p, p[1])) = Len(p) + 1 /\ Len(p) + 1 # Len(p)
    BY <1>1
  <2>2. f.bytes = Len(p) /\ f.payload = Append(p, p[1])
    BY <1>2, <1>4
  <2>. QED
    BY <2>1, <2>2 DEF LoadAccepts
<1>5. CASE \E k \in 1 .. Len(p) : f = [Saved(q) EXCEPT !.payload[k][2] = Broken]
  <2>1. PICK k \in 1 .. Len(p) : f = [Saved(q) EXCEPT !.payload[k][2] = Broken]
    BY <1>5
  <2>2. f.checksum = p /\ f.payload = [p EXCEPT ![k][2] = Broken]
    BY <1>2, <2>1
  <2>3. f.payload[k][2] = Broken
    BY <1>1, <2>2
  <2>4. CASE f.payload # p
    BY <2>2, <2>4 DEF LoadAccepts
  <2>5. CASE f.payload = p
    <3>1. ~Sound(q)
      BY <1>1, <2>3, <2>5
    <3>2. f = Saved(q)
      <4>1. f = [Saved(q) EXCEPT !.payload = [p EXCEPT ![k][2] = Broken]]
        BY <1>2, <2>1
      <4>2. f = [Saved(q) EXCEPT !.payload = p]
        BY <2>2, <2>5, <4>1
      <4>. QED
        BY <1>2, <4>2
    <3>. QED
      BY <3>1, <3>2, LoadSaved DEF Usable
  <2>. QED
    BY <2>4, <2>5
<1>6. Saved(q).bytes = Len(p) /\ Saved(q).payload = p
  BY <1>2
<1>. QED
  BY <1>3, <1>4, <1>5, <1>6 DEF Damaged

-----------------------------------------------------------------------------
(***************************************************************************)
(* Training: one step per action.                                          *)
(***************************************************************************)
LEMMA WedgeInit == Init => WedgeInv
<1>. SUFFICES ASSUME Init PROVE WedgeInv
  OBVIOUS
<1>1. PICK c \in Configs : quantizer = Untrained(c)
  BY DEF Init
<1>2. c.grouping \in {"Uniform", "Uneven"}
      /\ c.transform \in {"None", "Pca", "ParametricOpq"}
  BY TrainingConstants
<1>3. quantizer \in Quantizers /\ ~quantizer.trained
      /\ quantizer.rotation = NoSample
  BY <1>1, <1>2 DEF Untrained, Quantizers, Sampled, Learnt
<1>4. TypeInv
  BY <1>3 DEF Init, TypeInv, NewRouter, Routers, NoCall, NoFiles, Sampled,
     Learnt, Stages
<1>5. StageInv
  BY <1>3 DEF Init, StageInv, NoCall, Stages
<1>6. ReleaseInv /\ SavedInv
  BY DEF Init, ReleaseInv, SavedInv, NewRouter, NoCall, NoFiles, Stages
<1>. QED
  BY <1>4, <1>5, <1>6 DEF WedgeInv

LEMMA TypeStep ==
  ASSUME WedgeInv, [Next]_vars
  PROVE  TypeInv'
<1>1. CASE \E s \in Samples : TrainRouter(s)
  BY <1>1 DEF TrainRouter, TrainAccepts, Idle, WedgeInv, TypeInv, StageInv,
     NoCall, Routers, Quantizers, Sampled, Learnt, Stages
<1>2. CASE TrainNorms
  <2>1. call.sample \in Samples
    BY <1>2 DEF TrainNorms, Learned, WedgeInv, StageInv, Stages
  <2>2. call.sample \in Sampled /\ NormMax(call.sample) \in Learnt
    BY <2>1 DEF NormMax, Sampled, Learnt
  <2>3. quantizer' = [quantizer EXCEPT !.mean = call.sample,
                                       !.norm_max = NormMax(call.sample)]
    BY <1>2 DEF TrainNorms, Learned
  <2>4. quantizer' \in Quantizers
    <3>. HIDE DEF Sampled, Learnt, NormMax
    <3>. QED
      BY <2>2, <2>3 DEF WedgeInv, TypeInv, Quantizers
  <2>. QED
    BY <1>2, <2>4 DEF TrainNorms, Learned, At, WedgeInv, TypeInv, Stages
<1>3. CASE TrainRotation
  BY <1>3 DEF TrainRotation, Learned, At, WedgeInv, TypeInv,
     StageInv, NoCall, Routers, Quantizers, Sampled, Learnt, Stages
<1>4. CASE TrainCodebook
  BY <1>4 DEF TrainCodebook, NormStep, Learned, At, WedgeInv, TypeInv,
     StageInv, NoCall, Routers, Quantizers, Sampled, Learnt, Stages
<1>5. CASE TrainScales
  <2>1. call.sample \in Samples
    BY <1>5 DEF TrainScales, Learned, WedgeInv, StageInv, Stages
  <2>2. PICK scale \in Scales(call.sample) :
          quantizer' = [quantizer EXCEPT !.scale = scale, !.trained = TRUE]
    BY <1>5 DEF TrainScales, Learned
  <2>3. scale \in Learnt
    BY <2>1, <2>2 DEF Scales, NormMax, Learnt
  <2>4. quantizer' \in Quantizers
    <3>. HIDE DEF Sampled, Learnt
    <3>. QED
      BY <2>2, <2>3 DEF WedgeInv, TypeInv, Quantizers
  <2>. QED
    BY <1>5, <2>4 DEF TrainScales, Learned, At, WedgeInv, TypeInv, Stages
<1>6. CASE WriteRouter
  BY <1>6 DEF WriteRouter, At, WedgeInv, TypeInv, StageInv, NoCall, Routers,
     Quantizers, Sampled, Learnt, Stages
<1>7. CASE RenameRouter
  <2>1. disk.router_tmp \in Learnt /\ NoSample \in Learnt
    BY DEF WedgeInv, TypeInv, Learnt
  <2>2. disk' \in [router_tmp : Learnt, router : Learnt,
               quantizer : {{}} \cup {{Saved(q)} : q \in Quantizers},
               manifest : SUBSET [rows : SUBSET [router : Learnt,
                                                 model : Quantizers],
                                  used : BOOLEAN]]
    <3>. HIDE DEF Learnt
    <3>. QED
      BY <1>7, <2>1 DEF RenameRouter, WedgeInv, TypeInv
  <2>3. call' \in [at : Stages \cup {"idle", "manifest"},
                   sample : Samples \cup {NoSample}]
    BY <1>7 DEF RenameRouter, At, WedgeInv, TypeInv, Stages
  <2>. QED
    BY <1>7, <2>2, <2>3 DEF RenameRouter, WedgeInv, TypeInv
<1>8. CASE LoadRouter
  BY <1>8 DEF LoadRouter, Compact, WedgeInv, TypeInv, StageInv, NoCall,
     Routers, Quantizers, Sampled, Learnt, Stages
<1>9. CASE RotationRejected
  BY <1>9 DEF RotationRejected, RotationLost, Learned, WedgeInv, TypeInv,
     StageInv, NoCall, Routers, Quantizers, Sampled, Learnt, Stages
<1>10. CASE CodebookRefused
  BY <1>10 DEF CodebookRefused, Learned, WedgeInv, TypeInv, StageInv, NoCall,
     Routers, Quantizers, Sampled, Learnt, Stages
<1>11. CASE WriteRouterFails
  BY <1>11 DEF WriteRouterFails, WedgeInv, TypeInv, StageInv, NoCall, Routers,
     Quantizers, Sampled, Learnt, Stages
<1>12. CASE TrainThrows
  BY <1>12 DEF TrainThrows, WedgeInv, TypeInv, StageInv, NoCall, Routers,
     Quantizers, Sampled, Learnt, Stages
<1>13. CASE InsertRows
  <2>1. Params(quantizer) \in Quantizers
    BY DEF WedgeInv, TypeInv, Params, Quantizers, Sampled, Learnt
  <2>2. [router |-> router.pq, model |-> Params(quantizer)]
          \in [router : Learnt, model : Quantizers]
    BY <2>1 DEF WedgeInv, TypeInv, Routers
  <2>. QED
    BY <1>13, <2>2 DEF InsertRows, WedgeInv, TypeInv
<1>14. CASE EraseRows
  BY <1>14 DEF EraseRows, Idle, WedgeInv, TypeInv, StageInv, NoCall, Routers,
     Quantizers, Sampled, Learnt, Stages
<1>15. CASE CheckpointQuantizer
  BY <1>15 DEF CheckpointQuantizer, Idle, Usable, At, WedgeInv, TypeInv,
     StageInv, NoCall, Routers, Quantizers, Sampled, Learnt, Stages
<1>16. CASE CheckpointManifest
  BY <1>16 DEF CheckpointManifest, WedgeInv, TypeInv, StageInv, NoCall,
     Routers, Quantizers, Sampled, Learnt, Stages
<1>17. CASE CheckpointThrows
  BY <1>17 DEF CheckpointThrows, WedgeInv, TypeInv, StageInv, NoCall, Routers,
     Quantizers, Sampled, Learnt, Stages
<1>18. CASE Crash
  BY <1>18 DEF Crash, NewRouter, Untrained, WedgeInv, TypeInv, StageInv,
     NoCall, Routers, Quantizers, Sampled, Learnt, Stages
<1>19. CASE Reload
  <2>1. PICK f \in disk.quantizer, m \in disk.manifest :
          quantizer' = Loaded(f) /\ rows' = m.rows /\ used' = m.used
    BY <1>19 DEF Reload
  <2>2. PICK q \in Quantizers : f = Saved(q) /\ Usable(q) /\ RotationFits(q)
    BY DEF WedgeInv, SavedInv
  <2>3. quantizer' \in Quantizers
    BY <2>1, <2>2, LoadSaved DEF Usable
  <2>4. rows' \in SUBSET [router : Learnt, model : Quantizers]
        /\ used' \in BOOLEAN
    BY <2>1 DEF WedgeInv, TypeInv
  <2>5. router' \in Routers
    BY <1>19 DEF Reload, Compact, WedgeInv, TypeInv, Routers, Learnt
  <2>. QED
    BY <1>19, <2>3, <2>4, <2>5 DEF Reload, WedgeInv, TypeInv
<1>20. CASE Create
  BY <1>20 DEF Create, WedgeInv, TypeInv, StageInv, NoCall, Routers,
     Quantizers, Sampled, Learnt, Stages
<1>22. CASE NormsThrow
  BY <1>22 DEF NormsThrow, Learned, WedgeInv, TypeInv, StageInv, NoCall,
     Routers, Quantizers, Sampled, Learnt, Stages
<1>23. CASE PcaThrows
  BY <1>23 DEF PcaThrows, RotationLost, Learned, WedgeInv, TypeInv,
     StageInv, NoCall, Routers, Quantizers, Sampled, Learnt, Stages
<1>21. CASE UNCHANGED vars
  BY <1>21 DEF vars, WedgeInv, TypeInv, StageInv, NoCall, Routers, Quantizers,
     Sampled, Learnt, Stages
<1>. QED
  BY <1>1, <1>2, <1>3, <1>4, <1>5, <1>6, <1>7, <1>8, <1>9, <1>10, <1>11, <1>12,
     <1>13, <1>14, <1>15, <1>16, <1>17, <1>18, <1>19, <1>20, <1>21, <1>22,
     <1>23 DEF Next,
     TrainStep, TrainFailure, CheckpointStep

LEMMA StageStep ==
  ASSUME WedgeInv, [Next]_vars
  PROVE  StageInv'
<1>1. CASE \E s \in Samples : TrainRouter(s)
  BY <1>1, TrainingConstants DEF TrainRouter, TrainAccepts, Idle, WedgeInv,
     TypeInv, StageInv, NoCall, Routers, Quantizers, Sampled, RotationFits,
     Stages
<1>2. CASE TrainNorms
  BY <1>2 DEF TrainNorms, Learned, At, WedgeInv, TypeInv, StageInv, NoCall,
     Routers, Quantizers, Sampled, RotationFits, Stages
<1>3. CASE TrainRotation
  BY <1>3, TrainingConstants DEF TrainRotation, Learned, At, WedgeInv, TypeInv,
     StageInv, NoCall, Routers, Quantizers, Sampled, RotationFits, Stages
<1>4. CASE TrainCodebook
  BY <1>4, TrainingConstants DEF TrainCodebook, Learned, At, WedgeInv, TypeInv,
     StageInv, NoCall, Routers, Quantizers, Sampled, RotationFits, Stages
<1>5. CASE TrainScales
  BY <1>5 DEF TrainScales, Learned, At, WedgeInv, TypeInv, StageInv, NoCall,
     Routers, Quantizers, Sampled, RotationFits, Stages
<1>6. CASE WriteRouter
  BY <1>6 DEF WriteRouter, At, WedgeInv, TypeInv, StageInv, NoCall, Routers,
     Quantizers, Sampled, RotationFits, Stages
<1>7. CASE RenameRouter
  BY <1>7 DEF RenameRouter, At, WedgeInv, TypeInv, StageInv, NoCall, Routers,
     Quantizers, Sampled, RotationFits, Stages
<1>8. CASE LoadRouter
  BY <1>8 DEF LoadRouter, Compact, WedgeInv, TypeInv, StageInv, NoCall,
     Routers, Quantizers, Sampled, RotationFits, Stages
<1>9. CASE RotationRejected
  BY <1>9, TrainingConstants DEF RotationRejected, RotationLost, Learned,
     WedgeInv, TypeInv, StageInv, NoCall, Routers, Quantizers, Sampled,
     RotationFits, Stages
<1>10. CASE CodebookRefused
  BY <1>10 DEF CodebookRefused, Learned, WedgeInv, TypeInv, StageInv, NoCall,
     Routers, Quantizers, Sampled, RotationFits, Stages
<1>11. CASE WriteRouterFails
  BY <1>11 DEF WriteRouterFails, WedgeInv, TypeInv, StageInv, NoCall, Routers,
     Quantizers, Sampled, RotationFits, Stages
<1>12. CASE TrainThrows
  BY <1>12 DEF TrainThrows, WedgeInv, TypeInv, StageInv, NoCall, Routers,
     Quantizers, Sampled, RotationFits, Stages
<1>13. CASE InsertRows
  BY <1>13 DEF InsertRows, InsertAccepts, Idle, Usable, WedgeInv, TypeInv,
     StageInv, NoCall, Routers, Quantizers, Sampled, RotationFits, Stages
<1>14. CASE EraseRows
  BY <1>14 DEF EraseRows, Idle, WedgeInv, TypeInv, StageInv, NoCall, Routers,
     Quantizers, Sampled, RotationFits, Stages
<1>15. CASE CheckpointQuantizer
  BY <1>15 DEF CheckpointQuantizer, Idle, Usable, At, WedgeInv, TypeInv,
     StageInv, NoCall, Routers, Quantizers, Sampled, RotationFits, Stages
<1>16. CASE CheckpointManifest
  BY <1>16 DEF CheckpointManifest, WedgeInv, TypeInv, StageInv, NoCall,
     Routers, Quantizers, Sampled, RotationFits, Stages
<1>17. CASE CheckpointThrows
  BY <1>17 DEF CheckpointThrows, WedgeInv, TypeInv, StageInv, NoCall, Routers,
     Quantizers, Sampled, RotationFits, Stages
<1>18. CASE Crash
  BY <1>18 DEF Crash, NewRouter, Untrained, WedgeInv, TypeInv, StageInv,
     NoCall, Routers, Quantizers, Sampled, RotationFits, Stages
<1>19. CASE Reload
  <2>1. PICK f \in disk.quantizer : quantizer' = Loaded(f)
    BY <1>19 DEF Reload
  <2>2. PICK q \in Quantizers : f = Saved(q) /\ Usable(q) /\ RotationFits(q)
    BY DEF WedgeInv, SavedInv
  <2>3. quantizer' = q
    BY <2>1, <2>2, LoadSaved DEF Usable
  <2>4. call = NoCall
    BY <1>19 DEF Reload, WedgeInv, ReleaseInv, StageInv, SavedInv
  <2>. QED
    BY <1>19, <2>2, <2>3, <2>4 DEF Reload, Compact, Usable, RotationFits,
       NoCall, Stages, StageInv, ReleaseInv, WedgeInv
<1>20. CASE Create
  BY <1>20 DEF Create, WedgeInv, TypeInv, StageInv, NoCall, Routers,
     Quantizers, Sampled, RotationFits, Stages
<1>22. CASE NormsThrow
  BY <1>22, TrainingConstants DEF NormsThrow, Learned, WedgeInv, TypeInv,
     StageInv, NoCall, Routers, Quantizers, Sampled, RotationFits, Stages
<1>23. CASE PcaThrows
  BY <1>23, TrainingConstants DEF PcaThrows, RotationLost, Learned, WedgeInv,
     TypeInv, StageInv, NoCall, Routers, Quantizers, Sampled, RotationFits,
     Stages
<1>21. CASE UNCHANGED vars
  BY <1>21 DEF vars, WedgeInv, TypeInv, StageInv, NoCall, Routers, Quantizers,
     Sampled, RotationFits, Stages
<1>. QED
  BY <1>1, <1>2, <1>3, <1>4, <1>5, <1>6, <1>7, <1>8, <1>9, <1>10, <1>11, <1>12,
     <1>13, <1>14, <1>15, <1>16, <1>17, <1>18, <1>19, <1>20, <1>21, <1>22,
     <1>23 DEF Next,
     TrainStep, TrainFailure, CheckpointStep

LEMMA ReleaseStep ==
  ASSUME WedgeInv, [Next]_vars
  PROVE  ReleaseInv'
<1>1. CASE \E s \in Samples : TrainRouter(s)
  BY <1>1 DEF TrainRouter, TrainAccepts, Idle, WedgeInv, TypeInv, StageInv,
     ReleaseInv, Usable, NoCall, Routers, Quantizers, Sampled, Stages
<1>2. CASE TrainNorms
  BY <1>2 DEF TrainNorms, Learned, At, WedgeInv, TypeInv, StageInv, ReleaseInv,
     Usable, NoCall, Routers, Quantizers, Sampled, Stages
<1>3. CASE TrainRotation
  BY <1>3 DEF TrainRotation, Learned, At, WedgeInv, TypeInv,
     StageInv, ReleaseInv, Usable, NoCall, Routers, Quantizers, Sampled, Stages
<1>4. CASE TrainCodebook
  BY <1>4 DEF TrainCodebook, Learned, At, WedgeInv, TypeInv, StageInv,
     ReleaseInv, Usable, NoCall, Routers, Quantizers, Sampled, Stages
<1>5. CASE TrainScales
  BY <1>5 DEF TrainScales, Learned, At, WedgeInv, TypeInv, StageInv,
     ReleaseInv, Usable, NoCall, Routers, Quantizers, Sampled, Stages
<1>6. CASE WriteRouter
  BY <1>6 DEF WriteRouter, At, WedgeInv, TypeInv, StageInv, ReleaseInv, Usable,
     NoCall, Routers, Quantizers, Sampled, Stages
<1>7. CASE RenameRouter
  BY <1>7 DEF RenameRouter, At, WedgeInv, TypeInv, StageInv, ReleaseInv,
     Usable, NoCall, Routers, Quantizers, Sampled, Stages
<1>8. CASE LoadRouter
  BY <1>8 DEF LoadRouter, Compact, WedgeInv, TypeInv, StageInv, ReleaseInv,
     Usable, NoCall, Routers, Quantizers, Sampled, Stages
<1>9. CASE RotationRejected
  BY <1>9 DEF RotationRejected, RotationLost, Learned, WedgeInv, TypeInv,
     StageInv, ReleaseInv, Usable, NoCall, Routers, Quantizers, Sampled, Stages
<1>10. CASE CodebookRefused
  BY <1>10 DEF CodebookRefused, Learned, WedgeInv, TypeInv, StageInv,
     ReleaseInv, Usable, NoCall, Routers, Quantizers, Sampled, Stages
<1>11. CASE WriteRouterFails
  BY <1>11 DEF WriteRouterFails, WedgeInv, TypeInv, StageInv, ReleaseInv,
     Usable, NoCall, Routers, Quantizers, Sampled, Stages
<1>12. CASE TrainThrows
  BY <1>12 DEF TrainThrows, WedgeInv, TypeInv, StageInv, ReleaseInv, Usable,
     NoCall, Routers, Quantizers, Sampled, Stages
<1>13. CASE InsertRows
  BY <1>13 DEF InsertRows, InsertAccepts, Idle, Usable, WedgeInv, TypeInv,
     StageInv, ReleaseInv, NoCall, Routers, Quantizers, Sampled, Stages
<1>14. CASE EraseRows
  BY <1>14 DEF EraseRows, Idle, WedgeInv, TypeInv, StageInv, ReleaseInv,
     Usable, NoCall, Routers, Quantizers, Sampled, Stages
<1>15. CASE CheckpointQuantizer
  BY <1>15 DEF CheckpointQuantizer, Idle, Usable, At, WedgeInv, TypeInv,
     StageInv, ReleaseInv, NoCall, Routers, Quantizers, Sampled, Stages
<1>16. CASE CheckpointManifest
  BY <1>16 DEF CheckpointManifest, WedgeInv, TypeInv, StageInv, ReleaseInv,
     Usable, NoCall, Routers, Quantizers, Sampled, Stages
<1>17. CASE CheckpointThrows
  BY <1>17 DEF CheckpointThrows, WedgeInv, TypeInv, StageInv, ReleaseInv,
     Usable, NoCall, Routers, Quantizers, Sampled, Stages
<1>18. CASE Crash
  BY <1>18 DEF Crash, NewRouter, Untrained, WedgeInv, TypeInv, StageInv,
     ReleaseInv, Usable, NoCall, Routers, Quantizers, Sampled, Stages
<1>19. CASE Reload
  <2>1. PICK f \in disk.quantizer, m \in disk.manifest :
          /\ LoadAccepts(f)
          /\ quantizer' = Loaded(f) /\ rows' = m.rows /\ used' = m.used
    BY <1>19 DEF Reload
  <2>2. PICK q \in Quantizers : f = Saved(q) /\ Usable(q) /\ RotationFits(q)
    BY DEF WedgeInv, SavedInv
  <2>3. Usable(quantizer') /\ quantizer'.rotation # Broken
    BY <2>1, <2>2, LoadSaved DEF Usable, Sound
  <2>4. rows' # {} => used'
    BY <2>1 DEF WedgeInv, SavedInv
  <2>5. router'.released /\ router'.pq = disk.router
    BY <1>19 DEF Reload, Compact
  <2>6. call = NoCall
    BY <1>19 DEF Reload, WedgeInv, ReleaseInv, StageInv, SavedInv
  <2>. QED
    BY <1>19, <2>3, <2>4, <2>5, <2>6 DEF Reload, Usable, ReleaseInv
<1>20. CASE Create
  BY <1>20 DEF Create, WedgeInv, TypeInv, StageInv, ReleaseInv, Usable, NoCall,
     Routers, Quantizers, Sampled, Stages
<1>22. CASE NormsThrow
  BY <1>22 DEF NormsThrow, Learned, WedgeInv, TypeInv, StageInv, ReleaseInv,
     Usable, NoCall, Routers, Quantizers, Sampled, Stages
<1>23. CASE PcaThrows
  BY <1>23 DEF PcaThrows, RotationLost, Learned, WedgeInv, TypeInv,
     StageInv, ReleaseInv, Usable, NoCall, Routers, Quantizers, Sampled, Stages
<1>21. CASE UNCHANGED vars
  BY <1>21 DEF vars, WedgeInv, TypeInv, StageInv, ReleaseInv, Usable, NoCall,
     Routers, Quantizers, Sampled, Stages
<1>. QED
  BY <1>1, <1>2, <1>3, <1>4, <1>5, <1>6, <1>7, <1>8, <1>9, <1>10, <1>11, <1>12,
     <1>13, <1>14, <1>15, <1>16, <1>17, <1>18, <1>19, <1>20, <1>21, <1>22,
     <1>23 DEF Next,
     TrainStep, TrainFailure, CheckpointStep

LEMMA SavedStep ==
  ASSUME WedgeInv, [Next]_vars
  PROVE  SavedInv'
<1>1. CASE \E s \in Samples : TrainRouter(s)
  BY <1>1 DEF TrainRouter, TrainAccepts, Idle, WedgeInv, TypeInv, StageInv,
     ReleaseInv, SavedInv, NoCall, Stages
<1>2. CASE TrainNorms
  BY <1>2 DEF TrainNorms, Learned, At, WedgeInv, TypeInv, StageInv, ReleaseInv,
     SavedInv, NoCall, Stages
<1>3. CASE TrainRotation
  BY <1>3 DEF TrainRotation, Learned, At, WedgeInv, TypeInv,
     StageInv, ReleaseInv, SavedInv, NoCall, Stages
<1>4. CASE TrainCodebook
  BY <1>4 DEF TrainCodebook, Learned, At, WedgeInv, TypeInv, StageInv,
     ReleaseInv, SavedInv, NoCall, Stages
<1>5. CASE TrainScales
  BY <1>5 DEF TrainScales, Learned, At, WedgeInv, TypeInv, StageInv,
     ReleaseInv, SavedInv, NoCall, Stages
<1>6. CASE WriteRouter
  BY <1>6 DEF WriteRouter, At, WedgeInv, TypeInv, StageInv, ReleaseInv,
     SavedInv, NoCall, Stages
<1>7. CASE RenameRouter
  BY <1>7 DEF RenameRouter, At, WedgeInv, TypeInv, StageInv, ReleaseInv,
     SavedInv, NoCall, Stages
<1>8. CASE LoadRouter
  BY <1>8 DEF LoadRouter, Compact, WedgeInv, TypeInv, StageInv, ReleaseInv,
     SavedInv, NoCall, Stages
<1>9. CASE RotationRejected
  BY <1>9 DEF RotationRejected, RotationLost, Learned, WedgeInv, TypeInv,
     StageInv, ReleaseInv, SavedInv, NoCall, Stages
<1>10. CASE CodebookRefused
  BY <1>10 DEF CodebookRefused, Learned, WedgeInv, TypeInv, StageInv,
     ReleaseInv, SavedInv, NoCall, Stages
<1>11. CASE WriteRouterFails
  BY <1>11 DEF WriteRouterFails, WedgeInv, TypeInv, StageInv, ReleaseInv,
     SavedInv, NoCall, Stages
<1>12. CASE TrainThrows
  BY <1>12 DEF TrainThrows, WedgeInv, TypeInv, StageInv, ReleaseInv, SavedInv,
     NoCall, Stages
<1>13. CASE InsertRows
  BY <1>13 DEF InsertRows, InsertAccepts, Idle, Usable, WedgeInv, TypeInv,
     StageInv, ReleaseInv, SavedInv, NoCall, Stages
<1>14. CASE EraseRows
  BY <1>14 DEF EraseRows, Idle, WedgeInv, TypeInv, StageInv, ReleaseInv,
     SavedInv, NoCall, Stages
<1>15. CASE CheckpointQuantizer
  <2>1. RotationFits(quantizer) /\ quantizer \in Quantizers
    BY <1>15 DEF CheckpointQuantizer, Usable, WedgeInv, StageInv, TypeInv
  <2>2. /\ disk'.quantizer = {Saved(quantizer)} /\ disk'.router = disk.router
        /\ disk'.manifest = disk.manifest
    BY <1>15 DEF CheckpointQuantizer, WedgeInv, TypeInv
  <2>. QED
    BY <1>15, <2>1, <2>2 DEF CheckpointQuantizer, Idle, Usable, WedgeInv,
       SavedInv
<1>16. CASE CheckpointManifest
  <2>1. /\ disk'.quantizer = disk.quantizer /\ disk'.router = disk.router
        /\ disk'.manifest = {[rows |-> rows, used |-> used]}
        /\ call'.at = "idle"
    BY <1>16 DEF CheckpointManifest, NoCall, WedgeInv, TypeInv
  <2>2. disk.router # NoSample /\ (rows # {} => used)
    BY <1>16 DEF CheckpointManifest, WedgeInv, SavedInv, ReleaseInv
  <2>. QED
    BY <2>1, <2>2 DEF WedgeInv, SavedInv
<1>17. CASE CheckpointThrows
  BY <1>17 DEF CheckpointThrows, WedgeInv, TypeInv, StageInv, ReleaseInv,
     SavedInv, NoCall, Stages
<1>18. CASE Crash
  BY <1>18 DEF Crash, NewRouter, Untrained, WedgeInv, TypeInv, StageInv,
     ReleaseInv, SavedInv, NoCall, Stages
<1>19. CASE Reload
  BY <1>19 DEF Reload, Compact, WedgeInv, TypeInv, StageInv, ReleaseInv,
     SavedInv, NoCall, Stages
<1>20. CASE Create
  BY <1>20 DEF Create, WedgeInv, TypeInv, StageInv, ReleaseInv, SavedInv,
     NoCall, Stages
<1>22. CASE NormsThrow
  BY <1>22 DEF NormsThrow, Learned, WedgeInv, TypeInv, StageInv, ReleaseInv,
     SavedInv, NoCall, Stages
<1>23. CASE PcaThrows
  BY <1>23 DEF PcaThrows, RotationLost, Learned, WedgeInv, TypeInv,
     StageInv, ReleaseInv, SavedInv, NoCall, Stages
<1>21. CASE UNCHANGED vars
  BY <1>21 DEF vars, WedgeInv, TypeInv, StageInv, ReleaseInv, SavedInv, NoCall,
     Stages
<1>. QED
  BY <1>1, <1>2, <1>3, <1>4, <1>5, <1>6, <1>7, <1>8, <1>9, <1>10, <1>11, <1>12,
     <1>13, <1>14, <1>15, <1>16, <1>17, <1>18, <1>19, <1>20, <1>21, <1>22,
     <1>23 DEF Next,
     TrainStep, TrainFailure, CheckpointStep

LEMMA RowsStep ==
  ASSUME WedgeInv, PinInv, RowsServed, [Next]_vars
  PROVE  RowsServed'
<1>1. CASE \E s \in Samples : TrainRouter(s)
  BY <1>1 DEF TrainRouter, TrainAccepts, Idle, WedgeInv, TypeInv, StageInv,
     ReleaseInv, SavedInv, NoCall, Stages, PinInv, RowsServed, Models, Params
<1>2. CASE TrainNorms
  BY <1>2 DEF TrainNorms, Learned, At, WedgeInv, TypeInv, StageInv, ReleaseInv,
     SavedInv, NoCall, Stages, PinInv, RowsServed, Models, Params
<1>3. CASE TrainRotation
  BY <1>3 DEF TrainRotation, Learned, At, WedgeInv, TypeInv,
     StageInv, ReleaseInv, SavedInv, NoCall, Stages, PinInv, RowsServed,
     Models, Params
<1>4. CASE TrainCodebook
  BY <1>4 DEF TrainCodebook, Learned, At, WedgeInv, TypeInv, StageInv,
     ReleaseInv, SavedInv, NoCall, Stages, PinInv, RowsServed, Models, Params
<1>5. CASE TrainScales
  BY <1>5 DEF TrainScales, Learned, At, WedgeInv, TypeInv, StageInv,
     ReleaseInv, SavedInv, NoCall, Stages, PinInv, RowsServed, Models, Params
<1>6. CASE WriteRouter
  BY <1>6 DEF WriteRouter, At, WedgeInv, TypeInv, StageInv, ReleaseInv,
     SavedInv, NoCall, Stages, PinInv, RowsServed, Models, Params
<1>7. CASE RenameRouter
  BY <1>7 DEF RenameRouter, At, WedgeInv, TypeInv, StageInv, ReleaseInv,
     SavedInv, NoCall, Stages, PinInv, RowsServed, Models, Params
<1>8. CASE LoadRouter
  BY <1>8 DEF LoadRouter, Compact, WedgeInv, TypeInv, StageInv, ReleaseInv,
     SavedInv, NoCall, Stages, PinInv, RowsServed, Models, Params
<1>9. CASE RotationRejected
  BY <1>9 DEF RotationRejected, RotationLost, Learned, WedgeInv, TypeInv,
     StageInv, ReleaseInv, SavedInv, NoCall, Stages, PinInv, RowsServed,
     Models, Params
<1>10. CASE CodebookRefused
  BY <1>10 DEF CodebookRefused, Learned, WedgeInv, TypeInv, StageInv,
     ReleaseInv, SavedInv, NoCall, Stages, PinInv, RowsServed, Models, Params
<1>11. CASE WriteRouterFails
  BY <1>11 DEF WriteRouterFails, WedgeInv, TypeInv, StageInv, ReleaseInv,
     SavedInv, NoCall, Stages, PinInv, RowsServed, Models, Params
<1>12. CASE TrainThrows
  BY <1>12 DEF TrainThrows, WedgeInv, TypeInv, StageInv, ReleaseInv, SavedInv,
     NoCall, Stages, PinInv, RowsServed, Models, Params
<1>13. CASE InsertRows
  <2>1. router.pq = router'.pq /\ quantizer' = quantizer
    BY <1>13 DEF InsertRows
  <2>. QED
    BY <1>13, <2>1 DEF InsertRows, RowsServed, Models
<1>14. CASE EraseRows
  BY <1>14 DEF EraseRows, Idle, WedgeInv, TypeInv, StageInv, ReleaseInv,
     SavedInv, NoCall, Stages, PinInv, RowsServed, Models, Params
<1>15. CASE CheckpointQuantizer
  BY <1>15 DEF CheckpointQuantizer, Idle, Usable, At, WedgeInv, TypeInv,
     StageInv, ReleaseInv, SavedInv, NoCall, Stages, PinInv, RowsServed,
     Models, Params
<1>16. CASE CheckpointManifest
  BY <1>16 DEF CheckpointManifest, WedgeInv, TypeInv, StageInv, ReleaseInv,
     SavedInv, NoCall, Stages, PinInv, RowsServed, Models, Params
<1>17. CASE CheckpointThrows
  BY <1>17 DEF CheckpointThrows, WedgeInv, TypeInv, StageInv, ReleaseInv,
     SavedInv, NoCall, Stages, PinInv, RowsServed, Models, Params
<1>18. CASE Crash
  BY <1>18 DEF Crash, NewRouter, Untrained, WedgeInv, TypeInv, StageInv,
     ReleaseInv, SavedInv, NoCall, Stages, PinInv, RowsServed, Models, Params
<1>19. CASE Reload
  <2>1. PICK f \in disk.quantizer, m \in disk.manifest :
          quantizer' = Loaded(f) /\ rows' = m.rows /\ used' = m.used
    BY <1>19 DEF Reload
  <2>2. \A r \in m.rows : r = Models(disk.router, Loaded(f))
    BY DEF PinInv
  <2>3. router'.pq = disk.router
    BY <1>19 DEF Reload, Compact
  <2>. QED
    BY <2>1, <2>2, <2>3 DEF RowsServed
<1>20. CASE Create
  BY <1>20 DEF Create, WedgeInv, TypeInv, StageInv, ReleaseInv, SavedInv,
     NoCall, Stages, PinInv, RowsServed, Models, Params
<1>22. CASE NormsThrow
  BY <1>22 DEF NormsThrow, Learned, WedgeInv, TypeInv, StageInv, ReleaseInv,
     SavedInv, NoCall, Stages, PinInv, RowsServed, Models, Params
<1>23. CASE PcaThrows
  BY <1>23 DEF PcaThrows, RotationLost, Learned, WedgeInv, TypeInv,
     StageInv, ReleaseInv, SavedInv, NoCall, Stages, PinInv, RowsServed,
     Models, Params
<1>21. CASE UNCHANGED vars
  BY <1>21 DEF vars, WedgeInv, TypeInv, StageInv, ReleaseInv, SavedInv, NoCall,
     Stages, PinInv, RowsServed, Models, Params
<1>. QED
  BY <1>1, <1>2, <1>3, <1>4, <1>5, <1>6, <1>7, <1>8, <1>9, <1>10, <1>11, <1>12,
     <1>13, <1>14, <1>15, <1>16, <1>17, <1>18, <1>19, <1>20, <1>21, <1>22,
     <1>23 DEF Next,
     TrainStep, TrainFailure, CheckpointStep

LEMMA PinStep ==
  ASSUME MayRecreate = FALSE, WedgeInv, PinInv, RowsServed, [Next]_vars
  PROVE  PinInv'
<1>1. CASE \E s \in Samples : TrainRouter(s)
  BY <1>1 DEF TrainRouter, TrainAccepts, Idle, WedgeInv, TypeInv, StageInv,
     ReleaseInv, SavedInv, NoCall, Stages, PinInv
<1>2. CASE TrainNorms
  BY <1>2 DEF TrainNorms, Learned, At, WedgeInv, TypeInv, StageInv, ReleaseInv,
     SavedInv, NoCall, Stages, PinInv
<1>3. CASE TrainRotation
  BY <1>3 DEF TrainRotation, Learned, At, WedgeInv, TypeInv,
     StageInv, ReleaseInv, SavedInv, NoCall, Stages, PinInv
<1>4. CASE TrainCodebook
  BY <1>4 DEF TrainCodebook, Learned, At, WedgeInv, TypeInv, StageInv,
     ReleaseInv, SavedInv, NoCall, Stages, PinInv
<1>5. CASE TrainScales
  BY <1>5 DEF TrainScales, Learned, At, WedgeInv, TypeInv, StageInv,
     ReleaseInv, SavedInv, NoCall, Stages, PinInv
<1>6. CASE WriteRouter
  BY <1>6 DEF WriteRouter, At, WedgeInv, TypeInv, StageInv, ReleaseInv,
     SavedInv, NoCall, Stages, PinInv
<1>7. CASE RenameRouter
  BY <1>7 DEF RenameRouter, At, WedgeInv, TypeInv, StageInv, ReleaseInv,
     SavedInv, NoCall, Stages, PinInv
<1>8. CASE LoadRouter
  BY <1>8 DEF LoadRouter, Compact, WedgeInv, TypeInv, StageInv, ReleaseInv,
     SavedInv, NoCall, Stages, PinInv
<1>9. CASE RotationRejected
  BY <1>9 DEF RotationRejected, RotationLost, Learned, WedgeInv, TypeInv,
     StageInv, ReleaseInv, SavedInv, NoCall, Stages, PinInv
<1>10. CASE CodebookRefused
  BY <1>10 DEF CodebookRefused, Learned, WedgeInv, TypeInv, StageInv,
     ReleaseInv, SavedInv, NoCall, Stages, PinInv
<1>11. CASE WriteRouterFails
  BY <1>11 DEF WriteRouterFails, WedgeInv, TypeInv, StageInv, ReleaseInv,
     SavedInv, NoCall, Stages, PinInv
<1>12. CASE TrainThrows
  BY <1>12 DEF TrainThrows, WedgeInv, TypeInv, StageInv, ReleaseInv, SavedInv,
     NoCall, Stages, PinInv
<1>13. CASE InsertRows
  BY <1>13 DEF InsertRows, InsertAccepts, Idle, Usable, WedgeInv, TypeInv,
     StageInv, ReleaseInv, SavedInv, NoCall, Stages, PinInv
<1>14. CASE EraseRows
  BY <1>14 DEF EraseRows, Idle, WedgeInv, TypeInv, StageInv, ReleaseInv,
     SavedInv, NoCall, Stages, PinInv
<1>15. CASE CheckpointQuantizer
  <2>1. /\ disk'.quantizer = {Saved(quantizer)} /\ disk'.router = disk.router
        /\ disk'.manifest = disk.manifest /\ up /\ up' = up /\ used' = used
        /\ quantizer' = quantizer
    BY <1>15 DEF CheckpointQuantizer, Idle, WedgeInv, TypeInv
  <2>2. ASSUME NEW m \in disk.manifest, m.rows # {}
        PROVE  \A f \in disk'.quantizer : \A r \in m.rows :
                 r = Models(disk.router, Loaded(f))
    <3>1. m.used
      BY <2>2 DEF WedgeInv, SavedInv
    <3>. QED
      BY <2>1, <3>1 DEF PinInv
  <2>4. ASSUME NEW m \in disk.manifest, m.used
        PROVE  \A f \in disk'.quantizer : Loaded(f).rotation # Broken
    BY <2>1, <2>4 DEF PinInv
  <2>3. ASSUME NEW m \in disk.manifest
        PROVE  m.used => used
    BY <2>1 DEF PinInv
  <2>. QED
    BY <2>1, <2>2, <2>3, <2>4 DEF PinInv
<1>16. CASE CheckpointManifest
  <2>1. /\ disk'.quantizer = disk.quantizer /\ disk'.router = disk.router
        /\ disk'.manifest = {[rows |-> rows, used |-> used]}
        /\ used' = used /\ quantizer' = quantizer
    BY <1>16 DEF CheckpointManifest, WedgeInv, TypeInv
  <2>2. up /\ Usable(quantizer) /\ disk.quantizer = {Saved(quantizer)}
    BY <1>16 DEF CheckpointManifest, WedgeInv, SavedInv
  <2>3. Loaded(Saved(quantizer)) = quantizer
    BY <2>2, LoadSaved DEF Usable, WedgeInv, TypeInv, StageInv
  <2>4. rows # {} => router.pq = disk.router
    BY DEF WedgeInv, ReleaseInv
  <2>5. \A r \in rows : r = Models(disk.router, quantizer)
    BY <2>2, <2>4 DEF RowsServed
  <2>6. used => quantizer.rotation # Broken
    BY DEF WedgeInv, ReleaseInv
  <2>. QED
    BY <2>1, <2>2, <2>3, <2>5, <2>6 DEF PinInv
<1>17. CASE CheckpointThrows
  BY <1>17 DEF CheckpointThrows, WedgeInv, TypeInv, StageInv, ReleaseInv,
     SavedInv, NoCall, Stages, PinInv
<1>18. CASE Crash
  BY <1>18 DEF Crash, NewRouter, Untrained, WedgeInv, TypeInv, StageInv,
     ReleaseInv, SavedInv, NoCall, Stages, PinInv
<1>19. CASE Reload
  <2>1. PICK f \in disk.quantizer, m \in disk.manifest :
          quantizer' = Loaded(f) /\ used' = m.used
    BY <1>19 DEF Reload
  <2>2. PICK q \in Quantizers : f = Saved(q) /\ Usable(q) /\ RotationFits(q)
    BY DEF WedgeInv, SavedInv
  <2>3. quantizer' = q
    BY <2>1, <2>2, LoadSaved DEF Usable
  <2>4. disk.quantizer = {Saved(q)}
    BY <2>2 DEF WedgeInv, TypeInv
  <2>. QED
    BY <1>19, <2>1, <2>3, <2>4 DEF Reload, PinInv
<1>20. CASE Create
  BY <1>20 DEF Create, PinInv
<1>22. CASE NormsThrow
  BY <1>22 DEF NormsThrow, Learned, WedgeInv, TypeInv, StageInv, ReleaseInv,
     SavedInv, NoCall, Stages, PinInv
<1>23. CASE PcaThrows
  BY <1>23 DEF PcaThrows, RotationLost, Learned, WedgeInv, TypeInv,
     StageInv, ReleaseInv, SavedInv, NoCall, Stages, PinInv
<1>21. CASE UNCHANGED vars
  BY <1>21 DEF vars, WedgeInv, TypeInv, StageInv, ReleaseInv, SavedInv, NoCall,
     Stages, PinInv
<1>. QED
  BY <1>1, <1>2, <1>3, <1>4, <1>5, <1>6, <1>7, <1>8, <1>9, <1>10, <1>11, <1>12,
     <1>13, <1>14, <1>15, <1>16, <1>17, <1>18, <1>19, <1>20, <1>21, <1>22,
     <1>23 DEF Next,
     TrainStep, TrainFailure, CheckpointStep

-----------------------------------------------------------------------------
(***************************************************************************)
(* Theorems.                                                               *)
(***************************************************************************)
LEMMA WedgeInvariant == Spec => []WedgeInv
<1>1. WedgeInv /\ [Next]_vars => WedgeInv'
  BY TypeStep, StageStep, ReleaseStep, SavedStep DEF WedgeInv
<1>. QED
  BY <1>1, WedgeInit, PTL DEF Spec

\* Whatever fails and however often (the learners, the file operations, the
\* process), a live idle index either takes rows, with a transform to encode
\* them, or can still be trained by any ample sample.  A root that no reload
\* accepts has no live index and is not spoken of.
THEOREM NeverStuck == Spec => []NeverWedged
<1>1. WedgeInv => NeverWedged
  <2>. SUFFICES ASSUME WedgeInv, Idle PROVE
         \/ InsertAccepts /\ quantizer.rotation # Broken
         \/ \A s \in Ample : TrainAccepts(s)
    BY DEF NeverWedged
  <2>1. CASE router.released
    BY <2>1 DEF WedgeInv, ReleaseInv, InsertAccepts
  <2>2. CASE ~router.released
    BY <2>2 DEF WedgeInv, ReleaseInv, TrainAccepts
  <2>. QED
    BY <2>1, <2>2
<1>. QED
  BY <1>1, WedgeInvariant, PTL

\* Where create_storage never meets an installed checkpoint, the models of an
\* index that holds rows never change again: not by a training, not by a
\* reload, not by an index created over the remains of an earlier one.
THEOREM ModelsFreeze ==
  ASSUME MayRecreate = FALSE
  PROVE  Spec => [](RowsServed /\ PinInv)
<1>1. Init => RowsServed /\ PinInv
  BY DEF Init, RowsServed, PinInv, NoFiles
<1>2. WedgeInv /\ RowsServed /\ PinInv /\ [Next]_vars
        => (RowsServed /\ PinInv)'
  BY RowsStep, PinStep
<1>. QED
  BY <1>1, <1>2, WedgeInvariant, PTL DEF Spec

\* The rows an index holds were routed and encoded with the models it uses.
THEOREM RowsAlwaysServed ==
  ASSUME MayRecreate = FALSE
  PROVE  Spec => []RowsServed
BY ModelsFreeze, PTL

\* At every moment there are, beside the installed manifest, the router and the
\* model its rows were stored with; and once the index has taken rows, load
\* refuses that model only when a range of it is infinite.
THEOREM CheckpointAlwaysServed ==
  ASSUME MayRecreate = FALSE
  PROVE  Spec => []CheckpointServed
<1>1. WedgeInv /\ PinInv => CheckpointServed
  <2>. SUFFICES ASSUME WedgeInv, PinInv, NEW m \in disk.manifest
                PROVE  /\ disk.router # NoSample
                       /\ \E f \in disk.quantizer :
                            /\ \A r \in m.rows :
                                 r = Models(disk.router, Loaded(f))
                            /\ m.used /\ FiniteRanges(Loaded(f))
                                 => LoadAccepts(f)
    BY DEF CheckpointServed
  <2>1. PICK f \in disk.quantizer : TRUE
    BY DEF PinInv
  <2>2. m.used /\ FiniteRanges(Loaded(f)) => LoadAccepts(f)
    <3>1. PICK q \in Quantizers :
            f = Saved(q) /\ Usable(q) /\ RotationFits(q)
      BY DEF WedgeInv, SavedInv
    <3>2. Loaded(f) = q /\ (LoadAccepts(f) <=> Sound(q))
      BY <3>1, LoadSaved DEF Usable
    <3>3. m.used => q.rotation # Broken
      BY <3>2 DEF PinInv
    <3>. QED
      BY <3>2, <3>3 DEF Sound
  <2>3. \A r \in m.rows : r = Models(disk.router, Loaded(f))
    BY DEF PinInv
  <2>. QED
    BY <2>2, <2>3 DEF WedgeInv, SavedInv
<1>. QED
  BY <1>1, ModelsFreeze, WedgeInvariant, PTL

\* Whatever training, failed or not, has left in a usable quantizer: it is read
\* back whole, it is refused exactly when its transform or a range is of no use,
\* and no damaged file of it is accepted.
THEOREM ModelAlwaysSurvives == Spec => []ModelSurvives
<1>1. WedgeInv => ModelSurvives
  <2>. SUFFICES ASSUME WedgeInv, Usable(quantizer)
                PROVE  ModelSurvives
    BY DEF ModelSurvives
  <2>1. quantizer \in Quantizers /\ quantizer.trained /\ RotationFits(quantizer)
    BY DEF WedgeInv, TypeInv, StageInv, Usable
  <2>2. /\ LoadAccepts(Saved(quantizer)) <=> Sound(quantizer)
        /\ Loaded(Saved(quantizer)) = quantizer
    BY <2>1, LoadSaved
  <2>3. \A f \in Damaged(Saved(quantizer)) : ~LoadAccepts(f)
    BY <2>1, DamageRefused
  <2>. QED
    BY <2>2, <2>3 DEF ModelSurvives
<1>. QED
  BY <1>1, WedgeInvariant, PTL
=============================================================================

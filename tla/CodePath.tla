------------------------------- MODULE CodePath -------------------------------
(***************************************************************************)
(* The way of a vector through the quantizer and the packed buffers of a   *)
(* list: the quantizer is trained, written and read back; rows are encoded,*)
(* packed, moved by erasures and read by the two dot-product kernels.      *)
(* Updates and queries exclude each other by the lock of the index, so     *)
(* each is one step; when files or calls fail is ExternalListIndex.        *)
(***************************************************************************)
EXTENDS UnevenQuantizer, PackedTiles, VectorMetadata

CONSTANTS
  Groupings,    \* quantizer configurations: "Uniform", "Uneven"
  Metrics,      \* "SquaredL2", "InnerProduct", "Cosine"
  Batches,      \* sequences of vectors insert_batch may be given
  Queries,      \* transformed queries
  MaxRows, MaxErased, MaxUpdates   \* bounds on the rows and the updates

\* A vector as encode sees it: the corner its direction is coded by, and what
\* it computes of its magnitude.
Vector == [bits: [Dims -> {0, 1}], norm: Nat, scale: Nat, error: Nat,
           flat: BOOLEAN]

\* Up to 257 groups the 16-bit sums of the portable path cannot overflow.
ASSUME CodePathAssumption ==
  /\ Subquantizers = M /\ M <= 257
  /\ Groupings \subseteq {"Uniform", "Uneven"}
  /\ "Uniform" \in Groupings => D % M = 0
  /\ Metrics \subseteq {"SquaredL2", "InnerProduct", "Cosine"}
  /\ Batches \subseteq Seq(Vector)
  /\ Queries \subseteq [Dims -> Int]
  /\ MaxRows \in Nat /\ MaxErased \in Nat /\ MaxUpdates \in Nat

VARIABLES
  metric,     \* config.metric
  list,       \* a MemoryList: logical_size, packed_codes, packed_metadata
  held,       \* history: the vector behind every row
  updates     \* how many updates were made

vars == <<quantizerVars, metric, list, held, updates>>
listVars == <<metric, list, held, updates>>

Init ==
  /\ metric \in Metrics
  /\ grouping \in Groupings
  /\ heights \in IF grouping = "Uneven" THEN Profiles ELSE {[j \in Dims |-> 0]}
  /\ capacities = IF grouping = "Uneven" THEN InitialCapacities ELSE <<>>
  /\ passes = 0 /\ phase = "planning"
  /\ layout = NoLayout /\ model = {}
  /\ list = NoRows /\ held = <<>> /\ updates = 0

Learn == (PlanPass \/ Train) /\ UNCHANGED listVars
Save == Write /\ UNCHANGED listVars
\* The lists come back with the tiles their rows need.
Reload ==
  /\ Read
  /\ list' = Resized(list, list.size)
  /\ UNCHANGED <<metric, held, updates>>

InsertBatch(batch) ==
  LET size == list.size + Len(batch)
      new == list.size .. size - 1
      grown == Resized(list, size)
      row == [i \in new |-> batch[i - list.size + 1]]
  IN  /\ phase = "trained" /\ updates < MaxUpdates /\ size <= MaxRows
      /\ IF LanesEmpty(grown, new)
         THEN /\ list' = Appended(grown, [i \in new |->
                   [code |-> FlatCode(row[i].bits),
                    metadata |-> Encoded(row[i], metric)]])
              /\ held' = [i \in 0 .. size - 1 |->
                            IF i \in new THEN row[i] ELSE held[i]]
              /\ UNCHANGED phase
         ELSE /\ list' = grown /\ phase' = "refused"
              /\ UNCHANGED held
      /\ updates' = updates + 1
      /\ UNCHANGED <<grouping, heights, capacities, passes, layout, model, metric>>

EraseBatch(erased) ==
  /\ phase = "trained" /\ updates < MaxUpdates
  /\ erased # {} /\ erased \subseteq DOMAIN held
  /\ list' = Erased(list, erased)
  /\ held' = [i \in 0 .. Kept(list.size, erased) - 1 |->
                IF i \in erased THEN held[Source(list.size, erased, i)]
                ELSE held[i]]
  /\ updates' = updates + 1
  /\ UNCHANGED <<quantizerVars, metric>>

Next ==
  \/ Learn \/ Save \/ Reload
  \/ \E batch \in Batches : InsertBatch(batch)
  \/ \E n \in 1 .. MaxErased : \E erased \in kSubset(n, 0 .. list.size - 1) :
       EraseBatch(erased)

Spec == Init /\ [][Next]_vars

-----------------------------------------------------------------------------
\* The buffers are whole tiles, as many of codes as of metadata, enough for the
\* rows, and hold nothing that does not fit a nibble or a byte.
TypeOK ==
  /\ phase \in {"planning", "trained", "refused"}
  /\ capacities \in Seq(Nat) /\ passes \in 0 .. 16
  /\ DOMAIN held = 0 .. list.size - 1
  /\ \E tiles \in 0 .. Padded(MaxRows) \div Tile :
       /\ list.size <= tiles * Tile
       /\ DOMAIN list.codes = 0 .. 2 * TileBytes * tiles - 1
       /\ DOMAIN list.metadata = 0 .. 3 * Tile * tiles - 1
  /\ \A a \in DOMAIN list.codes : list.codes[a] \in 0 .. 15
  /\ \A a \in DOMAIN list.metadata : list.metadata[a] \in 0 .. 255

\* Training on varied vectors ends with every consistency check of the layout
\* passed, what write() persists is accepted by read(), and an insertion never
\* finds a lane in use: the throws behind those checks are unreachable.
NeverRefused == phase # "refused"

\* The bit budgets are the optimum they are derived from: they add up to the
\* bits of a code, coordinates that get bits stand at one common level, and no
\* coordinate that gets none stands above it.
BudgetsOptimal ==
  layout.budgets # <<>> =>
    LET b == layout.budgets IN
    /\ SumFunction(b) = M * Target
    /\ \A i, j \in Dims :
         b[i] > 0 => IF b[j] > 0 THEN heights[i] - b[i] = heights[j] - b[j]
                     ELSE heights[j] <= heights[i] - b[i]

Rows == 0 .. list.size - 1

\* Decoding any row of a list gives the vector that was encoded for it, however
\* the planner scattered the coordinates, whatever tiles the row was packed in
\* and moved between, and whether or not the quantizer has been read back.
CodesRestore == \A i \in Rows : Decoded(CodeAt(list, i)) = held[i].bits

Distance(x, y) == IF x > y THEN x - y ELSE y - x

\* Whatever mode a scan asks for and whatever the processor has, every row gets
\* the inner product of the query with the decoded vector: exactly with the
\* float kernels, to half a step of the table for each group with the bytes.
DotsExact ==
  list.size > 0 =>
  \A q \in Queries : \A lut \in {DotTable(q)} :
  \A bytes \in {QuantizeLut(lut)}, i \in Rows, avx512 \in BOOLEAN,
     mode \in {"Auto", "ExactFloat", "ScalarFloat", "QuantizedUint8"} :
    LET dot == SumFunction([j \in Dims |-> q[j] * held[i].bits[j]])
    IN  2 * Distance(Dot255(list, lut, bytes, i, mode, avx512), 255 * dot)
          <= IF ChooseMode(mode, avx512) = "QuantizedUint8"
             THEN M * bytes.span ELSE 0

\* A scan never trusts a row whose magnitude it cannot tell: the metadata of a
\* row is flagged, or what the metric uses of it is right to half a step with an
\* error bound that is not too small; both scan paths see the same.
MetadataHonest == \A i \in Rows : Honest(held[i], MetadataAt(list, i), metric)
=============================================================================

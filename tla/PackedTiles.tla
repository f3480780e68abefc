----------------------------- MODULE PackedTiles -----------------------------
(***************************************************************************)
(* The packed code and metadata buffers of a list (pq4_update_packing.cpp, *)
(* the posting side of insert_batch and erase_batch) and the kernels that  *)
(* read them (exact_pq4.cpp).                                              *)
(*                                                                         *)
(* The bytes of a tile of 2 * Half rows interleave the rows: byte j of the *)
(* half that belongs to group m holds in its low nibble the code of row    *)
(* Lane[j] and in its high one that of row Half + Lane[j].  Codes are      *)
(* addressed by nibble; nibbles 2a and 2a + 1 are the halves of byte a.    *)
(***************************************************************************)
EXTENDS Integers, Sequences, FiniteSetsExt, Functions

CONSTANTS
  Subquantizers,   \* groups: nibbles of a code
  Half             \* rows in half a tile: 16

ASSUME TileAssumption == /\ Subquantizers \in Nat \ {0}
                         /\ Subquantizers % 2 = 0
                         /\ Half \in Nat \ {0} /\ Half % 2 = 0

Tile == 2 * Half             \* kUpdateBlockSize, kFastScanBlockSize
TileBytes == (Subquantizers \div 2) * Tile
CodeGroups == 0 .. Subquantizers - 1
Planes == {0, 1, 2}          \* norm, scale, error
EmptyLane == [code |-> [m \in CodeGroups |-> 0],
              metadata |-> [p \in Planes |-> 255]]
Padded(n) == ((n + Tile - 1) \div Tile) * Tile

\* pq4_get_packed_element: where row i has its code for group m.
Nibble(i, m) ==
  LET lane == i % Half
      byte == IF lane < Half \div 2 THEN 2 * lane
              ELSE 2 * (lane - Half \div 2) + 1
  IN  2 * ((i \div Tile) * TileBytes + (m \div 2) * Tile + (m % 2) * Half + byte)
        + (i % Tile) \div Half

\* pq4_pack_codes_range, pack_all: what a nibble holds, through the table perm0
\* of the packer.
GroupAt(a) ==
  LET inTile == (a \div 2) % TileBytes
  IN  2 * (inTile \div Tile) + (inTile % Tile) \div Half
RowAt(a) ==
  LET j == (a \div 2) % Half
  IN  ((a \div 2) \div TileBytes) * Tile + (a % 2) * Half
        + (j % 2) * (Half \div 2) + j \div 2

MetadataByte(i, p) == (i \div Tile) * 3 * Tile + p * Tile + (i % Tile)
MetadataRow(a) == (a \div (3 * Tile)) * Tile + (a % Tile)
Plane(a) == (a % (3 * Tile)) \div Tile

NoRows == [size |-> 0, codes |-> <<>>, metadata |-> <<>>]
CodeAt(list, i) == [m \in CodeGroups |-> list.codes[Nibble(i, m)]]
MetadataAt(list, i) == [p \in Planes |-> list.metadata[MetadataByte(i, p)]]
LaneAt(list, i) == [code |-> CodeAt(list, i), metadata |-> MetadataAt(list, i)]

(***************************************************************************)
(* insert_batch: the buffers get the size the new rows need, whether that  *)
(* is more or less than they have; new bytes are cleared, the lanes of the *)
(* new rows must be clear, and their nibbles are ORed in.                  *)
(***************************************************************************)
Resized(list, n) ==
  [list EXCEPT
     !.codes = [a \in 0 .. 2 * TileBytes * (Padded(n) \div Tile) - 1 |->
                  IF a \in DOMAIN @ THEN @[a] ELSE 0],
     !.metadata = [a \in 0 .. 3 * Padded(n) - 1 |->
                     IF a \in DOMAIN @ THEN @[a] ELSE 255]]

LanesEmpty(list, rows) == \A i \in rows : LaneAt(list, i) = EmptyLane

\* |= of two nibbles.
NibbleOr(x, y) ==
  LET either(w) == IF 1 \in {(x \div w) % 2, (y \div w) % 2} THEN w ELSE 0
  IN  either(1) + either(2) + either(4) + either(8)

\* lane: the lanes of the new rows, by slot.
Appended(list, lane) ==
  LET new == DOMAIN lane
  IN  [size |-> list.size + Cardinality(new),
       codes |-> [a \in DOMAIN list.codes |->
                    IF RowAt(a) \in new
                    THEN NibbleOr(list.codes[a],
                                  lane[RowAt(a)].code[GroupAt(a)])
                    ELSE list.codes[a]],
       metadata |-> [a \in DOMAIN list.metadata |->
                       IF MetadataRow(a) \in new
                       THEN lane[MetadataRow(a)].metadata[Plane(a)]
                       ELSE list.metadata[a]]]

(***************************************************************************)
(* erase_batch: the holes below the new end are filled, the lowest one     *)
(* first, from the rows past it, the last one first.  The tiles touched    *)
(* are unpacked, changed from a copy of their old rows and packed again;   *)
(* the buffers keep their size.                                            *)
(***************************************************************************)
Kept(size, erased) == size - Cardinality(erased)
Holes(size, erased) == {i \in erased : i < Kept(size, erased)}
Source(size, erased, hole) ==
  LET tail == {i \in 0 .. size - 1 : i >= Kept(size, erased)} \ erased
      rank == Cardinality({i \in Holes(size, erased) : i < hole})
  IN  CHOOSE i \in tail : Cardinality({j \in tail : j > i}) = rank

TouchedTiles(size, erased) ==
  {i \div Tile : i \in Holes(size, erased)}
    \cup (Kept(size, erased) \div Tile) .. ((size - 1) \div Tile)

\* Mutant: the rows past the new end are left as they were.
RewrittenUncleared(list, erased, i) ==
  IF i \in Holes(list.size, erased)
  THEN LaneAt(list, Source(list.size, erased, i)) ELSE LaneAt(list, i)
\* Row i of a flat copy of the tiles, after the moves and the clearing.
Rewritten(list, erased, i) ==
  IF i \in Kept(list.size, erased) .. list.size - 1 THEN EmptyLane
  ELSE IF i \in Holes(list.size, erased)
  THEN LaneAt(list, Source(list.size, erased, i))
  ELSE LaneAt(list, i)

Erased(list, erased) ==
  LET tiles == TouchedTiles(list.size, erased)
      lane == [i \in UNION {t * Tile .. t * Tile + Tile - 1 : t \in tiles} |->
                 Rewritten(list, erased, i)]
  IN  [size |-> Kept(list.size, erased),
       codes |-> [a \in DOMAIN list.codes |->
                    IF RowAt(a) \in DOMAIN lane
                    THEN lane[RowAt(a)].code[GroupAt(a)]
                    ELSE list.codes[a]],
       metadata |-> [a \in DOMAIN list.metadata |->
                       IF MetadataRow(a) \in DOMAIN lane
                       THEN lane[MetadataRow(a)].metadata[Plane(a)]
                       ELSE list.metadata[a]]]

(***************************************************************************)
(* accumulate_exact_pq4_lut: the sum over the groups of the table entry of *)
(* a row's code.  The scalar kernel asks for one element at a time; the    *)
(* AVX-512 kernel sums byte by byte and restores the order of the rows.    *)
(***************************************************************************)
ScalarDot(list, lut, i) ==
  SumFunction([m \in CodeGroups |-> lut[m][list.codes[Nibble(i, m)]]])

\* The sum kept for byte j of one half-tile (0: low nibbles, 1: high nibbles).
HalfTileSum(list, lut, tile, high, j) ==
  SumFunction([m \in {g \in CodeGroups : g % 2 = 0} |->
     LET pair == tile * TileBytes + (m \div 2) * Tile
     IN  lut[m][list.codes[2 * (pair + j) + high]]
           + lut[m + 1][list.codes[2 * (pair + Half + j) + high]]])
\* Mutant: the lanes are stored in the order the kernel met them.
StoredOrder(v) == v
SequentialOrder(v) ==
  IF v < Half \div 2 THEN 2 * v ELSE 2 * (v - Half \div 2) + 1
Avx512Dot(list, lut, i) ==
  HalfTileSum(list, lut, i \div Tile, (i % Tile) \div Half,
              SequentialOrder(i % Half))

(***************************************************************************)
(* The portable path: quantize_lut maps the table to bytes with one scale  *)
(* for all rows, 255 to the widest, and a minimum taken off each; Faiss    *)
(* adds the bytes up in 16 bits.  A table of constant rows is all bias.    *)
(* Up to 257 groups the scale is not limited by the width of the sum.      *)
(***************************************************************************)
Span(row) == Max({row[c] : c \in 0 .. 15}) - Min({row[c] : c \in 0 .. 15})
QuantizeLut(lut) ==
  LET span == Max({Span(lut[m]) : m \in CodeGroups})
      least == [m \in CodeGroups |-> Min({lut[m][c] : c \in 0 .. 15})]
  IN  [span |-> span, bias |-> SumFunction(least),
       values |-> [m \in CodeGroups |-> [c \in 0 .. 15 |->
                     IF span = 0 THEN 0
                     ELSE (2 * 255 * (lut[m][c] - least[m]) + span)
                            \div (2 * span)]]]

\* 255 times the dot product this path gives row i.
QuantizedDot(list, bytes, i) ==
  LET sum == SumFunction([m \in CodeGroups |->
                            bytes.values[m][list.codes[Nibble(i, m)]]])
  IN  255 * bytes.bias + bytes.span * (sum % 65536)

\* choose_mode, and the kernel scan_block_metric runs for a mode; bytes is
\* QuantizeLut(lut).
ChooseMode(requested, avx512) ==
  IF requested # "Auto" THEN requested
  ELSE IF avx512 THEN "ExactFloat" ELSE "QuantizedUint8"
Dot255(list, lut, bytes, i, requested, avx512) ==
  LET mode == ChooseMode(requested, avx512)
  IN  IF mode = "QuantizedUint8" THEN QuantizedDot(list, bytes, i)
      ELSE IF mode = "ExactFloat" /\ avx512 THEN 255 * Avx512Dot(list, lut, i)
      ELSE 255 * ScalarDot(list, lut, i)
=============================================================================

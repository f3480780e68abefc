---------------------------- MODULE VectorMetadata ----------------------------
(***************************************************************************)
(* The three bytes kept beside a code (quantizer.cpp, fastscan.cpp): norm, *)
(* scale and direction error of a vector, as the quantizer writes them and *)
(* as the two scan paths read them.                                        *)
(*                                                                         *)
(* Norms and scales are in quarters of the learned step, errors in         *)
(* quarters of 2/255.  The learned maxima are 254 steps.                   *)
(***************************************************************************)
EXTENDS Integers, FiniteSetsExt

LearnedMaximum == 4 * 254

QuantizeLinear(value) ==
  IF value > LearnedMaximum + 2 THEN 255 ELSE Min({254, (value + 2) \div 4})

\* Mutant: the error is not clamped to 2 first.
QuantizeErrorUnclamped(error) == (error + 3) \div 4
\* Mutant: the error is rounded to the nearest code.
QuantizeErrorNearest(error) == (Min({error, 4 * 255}) + 2) \div 4
QuantizeErrorUpper(error) == (Min({error, 4 * 255}) + 3) \div 4

\* encode: v has the norm of the centered vector, the scale that restores it
\* from its reconstruction, and the distance of the two directions; flat says
\* that the reconstruction is numerically zero.
HasScale(v, metric) == ~v.flat /\ (metric # "Cosine" \/ v.norm # 0)
Encoded(v, metric) ==
  [p \in 0 .. 2 |->
     CASE p = 0 -> QuantizeLinear(v.norm)
       [] p = 1 -> IF HasScale(v, metric) THEN QuantizeLinear(v.scale) ELSE 255
       [] p = 2 -> IF HasScale(v, metric) THEN QuantizeErrorUpper(v.error)
                   ELSE 255]

Dequantized(code) == IF code = 255 THEN LearnedMaximum ELSE 4 * code

\* decode_metadata, of the scalar scan.
DecodeMetadata(bytes, metric) ==
  [norm |-> Dequantized(bytes[0]), scale |-> Dequantized(bytes[1]),
   error |-> 4 * bytes[2],
   overflow |-> bytes[1] = 255 \/ (metric # "Cosine" /\ bytes[0] = 255)]

\* compute_metric_values_16_avx512, which has the overflow rule of each metric
\* compiled in.
Avx512Metadata(bytes, metric) ==
  LET norm_overflow == bytes[0] = 255
      scale_overflow == bytes[1] = 255
  IN  [norm |-> Dequantized(bytes[0]), scale |-> Dequantized(bytes[1]),
       error |-> 4 * bytes[2],
       overflow |-> CASE metric = "SquaredL2" -> norm_overflow \/ scale_overflow
                      [] metric = "InnerProduct" -> norm_overflow \/ scale_overflow
                      [] metric = "Cosine" -> scale_overflow]

Near(x, y) == x - y \in -2 .. 2

\* What a scan makes of the bytes of a vector: both paths read the same, and
\* the row is flagged, or what the metric uses of it is right to half a step
\* and its error bound is not too small.
Honest(v, bytes, metric) ==
  LET m == DecodeMetadata(bytes, metric)
  IN  /\ m = Avx512Metadata(bytes, metric)
      /\ m.overflow \/ /\ metric = "Cosine" \/ Near(m.norm, v.norm)
                       /\ Near(m.scale, v.scale)
                       /\ m.error >= Min({v.error, 4 * 255})
=============================================================================

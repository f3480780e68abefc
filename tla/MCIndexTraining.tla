--------------------------- MODULE MCIndexTraining ---------------------------
(***************************************************************************)
(* Every configuration.  Two samples that complete a training, one of them *)
(* extreme; or one that does and one that is too small.                    *)
(***************************************************************************)
EXTENDS IndexTraining

CONSTANTS s1, s2, few

MCConfigs == [grouping : {"Uniform", "Uneven"},
              transform : {"None", "Pca", "ParametricOpq"}]

\* What an abandoned router.faiss.tmp holds is never read: it is written anew.
MCView ==
  <<up, router, quantizer, rows, used, call,
    [disk EXCEPT !.router_tmp = IF call.at = "rename" THEN @ ELSE NoSample]>>
=============================================================================

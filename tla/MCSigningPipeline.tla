------------------------- MODULE MCSigningPipeline -------------------------
(* The signing workers beside the writers that feed them. *)
EXTENDS SigningPipeline, TLC
Symmetry == Permutations(Writers) \cup Permutations(Workers)
=============================================================================

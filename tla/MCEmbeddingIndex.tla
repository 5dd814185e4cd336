-------------------------- MODULE MCEmbeddingIndex --------------------------
(* Instances of EmbeddingIndex for TLC: two models of 384 dimensions, and  *)
(* one of 1536.                                                            *)
EXTENDS EmbeddingIndex, TLC

CONSTANTS bge, minilm, large

MCDim == (bge :> 384) @@ (minilm :> 384) @@ (large :> 1536)

Symmetry == Permutations(Session) \cup Permutations(Spec)
=============================================================================

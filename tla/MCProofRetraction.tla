------------------------- MODULE MCProofRetraction -------------------------
(* Instances of ProofRetraction for TLC: a tick is one half-life, so that  *)
(* the decay is a division by a power of two, rounded half up.             *)
EXTENDS ProofRetraction, MCProofMarket

HalvedEachTick(base, elapsed) == (2 * base + 2 ^ elapsed) \div (2 ^ (elapsed + 1))

RetractionSymmetry == Permutations(RetractionId) \cup Permutations(AttestationId)
=============================================================================

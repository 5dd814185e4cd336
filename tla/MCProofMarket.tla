--------------------------- MODULE MCProofMarket ---------------------------
(* Instances of ProofMarket for TLC: account p1 has found artifact a1, and *)
(* p2 has found a2.  The id of p1 is the end of p2's, and nonce n1 is n2   *)
(* followed by what p1's id lacks.                                         *)
EXTENDS ProofMarket, TLC

CONSTANTS p1, p2, a1, a2, n1, n2

MCAccount == {p1, p2}
MCArtifact == {a1, a2}
MCKnows == (p1 :> {a1}) @@ (p2 :> {a2})

(* Bytes as the set of the pairs that are joined to them.                  *)
Same == {<<n1, p1>>, <<n2, p2>>}
MCJoined(n, p) == IF <<n, p>> \in Same THEN Same ELSE {<<n, p>>}

Symmetry ==
    Permutations(BountyId) \cup Permutations(ClaimId) \cup Permutations(AttestationId)
=============================================================================

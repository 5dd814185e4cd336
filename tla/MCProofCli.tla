----------------------------- MODULE MCProofCli -----------------------------
(* An instance of ProofCli for TLC: both commands run in p1's home.        *)
EXTENDS ProofCli, TLC

CONSTANTS p1, a1

MCKnows == (p1 :> {a1})
MCJoined(n, p) == <<n, p>>
MCUserOf == [k \in Command |-> p1]
=============================================================================

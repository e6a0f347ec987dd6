--------------------------- MODULE MCTrustCascade ----------------------------
(* A few agents, and revocations that overlap.                             *)
EXTENDS TrustCascade, TLC

Symmetry == Permutations(Agents) \cup Permutations(Rows)
=============================================================================

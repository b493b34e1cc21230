--------------------------- MODULE MCWeightEngine ---------------------------
(* WeightEngine with its constants given values.                           *)
EXTENDS WeightEngine, TLC

CONSTANTS w1, w2, w3, p1, p2

Symmetry == Permutations({w1, w2, w3}) \cup Permutations({p1, p2})
=============================================================================

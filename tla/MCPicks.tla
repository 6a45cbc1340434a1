------------------------------- MODULE MCPicks -------------------------------
(* Instances of Picks for TLC. *)
EXTENDS Picks, TLC

\* A backend to be drained, one with a small weight, and one whose weight is
\* negative and read as the default.
ThreeWeights == {0, 1, -1}

Symmetry == Permutations(Backends)
=============================================================================

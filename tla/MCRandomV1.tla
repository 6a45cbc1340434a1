------------------------------ MODULE MCRandomV1 ------------------------------
(* Instances of RandomV1 for TLC. *)
EXTENDS RandomV1, TLC

\* A weight, and one that is read as the default.
WeightedMetas == {1, -1}

Symmetry == Permutations(Backends) \cup Permutations(Getters) \cup Permutations(Chans)
=============================================================================

--------------------------- MODULE MCRoundRobinV1 ---------------------------
(* Instances of RoundRobinV1 for TLC. *)
EXTENDS RoundRobinV1, TLC

CONSTANT NoWeight     \* metadata without a usable weight

\* A metadata value of each kind: a weight, and none.
PlainMetas == {1, NoWeight}
\* A negative weight is read as the default one.
WeightedMetas == {1, -1}
\* One backend is registered with weight zero.
DrainingMetas == {0, 1}
\* The weight does not matter to rotation.
OneMeta == {1}

Symmetry == Permutations(Backends) \cup Permutations(Getters) \cup Permutations(Chans)
=============================================================================

----------------------------- MODULE MCDiscovery -----------------------------
(* Instances of Discovery for TLC, with either resolver. *)
EXTENDS Resolvers, TLC

\* The empty value of a new node, and what registration writes.
EmptyAndOne == {Empty, 1}

Symmetry == Permutations(Backends)
=============================================================================

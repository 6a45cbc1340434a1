-------------------------- MODULE MCBalancerWrapper --------------------------
(* Instances of BalancerWrapper for TLC. *)
EXTENDS BalancerWrapper, TLC

OneMeta == {1}
=============================================================================

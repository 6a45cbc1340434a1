------------------------------- MODULE MCServer -------------------------------
(* Server for TLC: the configuration gives every constant its value. *)
EXTENDS Server
=============================================================================

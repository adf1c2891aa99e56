---------------------------- MODULE MCFullyAsync ----------------------------
(* A small instance of FullyAsync; the constants are in the cfg. *)
EXTENDS FullyAsync
=============================================================================

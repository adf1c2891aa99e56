---------------------------- MODULE MCLLMServing ----------------------------
(* A small instance of LLMServing; the constants are in the cfg. *)
EXTENDS LLMServing
=============================================================================

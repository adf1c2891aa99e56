------------------------- MODULE MCCheckpointStore -------------------------
(* Model-checking instances of CheckpointStore. *)
EXTENDS CheckpointStore

ActorCritic == <<"actor", "critic">>
=============================================================================

--------------------------- MODULE MCMessageQueue ---------------------------
(* Model-checking instance of MessageQueue: two consumers. *)
EXTENDS MessageQueue

CONSTANTS c1, c2

ConsumersMC == {c1, c2}
=============================================================================

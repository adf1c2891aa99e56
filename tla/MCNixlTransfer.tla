--------------------------- MODULE MCNixlTransfer ---------------------------
(* Chains of one to three workers; weights smaller than, as large as and    *)
(* larger than a bucket, in orders that end a bucket early or exactly.       *)
EXTENDS NixlTransfer

Lists == UNION {[1..n -> {1, 2, 3}] : n \in 0..2} \cup {<<1, 2, 1>>, <<5, 1>>}
=============================================================================

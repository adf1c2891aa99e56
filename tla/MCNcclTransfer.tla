--------------------------- MODULE MCNcclTransfer ---------------------------
(* Up to two workers that come and go between updates.                      *)
EXTENDS NcclTransfer

Lists == UNION {[1..n -> {1, 2, 3}] : n \in 0..2} \cup {<<1, 2, 1>>, <<5, 1>>}
=============================================================================

---------------------------- MODULE MCRewardLoop ----------------------------
(* Three items for one or three workers, or four for two.  Requests count   *)
(* one each against a bucket of one; the estimated tokens of a request fit  *)
(* the token bucket or exceed it.                                           *)
EXTENDS RewardLoop

MaxTokensMC == [b \in Buckets |-> IF b = "rpm" THEN 1 ELSE 3]
RateMC == [b \in Buckets |-> IF b = "rpm" THEN 1 ELSE 2]
=============================================================================

--------------------------- MODULE WeightDelivery ---------------------------
(***************************************************************************)
(* What a checkpoint engine promises to the rollout workers: in every      *)
(* update each of them gets every byte of every weight of that update, in  *)
(* the generator's order, and no update begins before the last is done.    *)
(* Buffers, buckets and the network are gone.  The workers are the domain  *)
(* of got; another update may have others.                                 *)
(***************************************************************************)
EXTENDS Integers, Sequences

CONSTANT Byte(_, _, _)   \* contents: update, weight, position

VARIABLES
    sizes,      \* sizes of the weights, in the generator's order
    version,    \* the update
    got         \* per worker and weight: the bytes received

dvars == <<sizes, version, got>>

Nothing == [n \in 1..Len(sizes) |-> <<>>]

Content(n, len) == [k \in 1..len |-> Byte(version, n, k - 1)]

Complete(r) == \A n \in 1..Len(sizes) : Len(got[r][n]) = sizes[n]

DInit == version = 0 /\ got = [r \in DOMAIN got |-> Nothing]

Begin ==
    /\ version = 0 \/ \A r \in DOMAIN got : Complete(r)
    /\ version' = version + 1
    /\ got' = [r \in DOMAIN got' |-> Nothing]
    /\ UNCHANGED sizes

Deliver(r, n) ==
    /\ version > 0
    /\ \A m \in 1..n - 1 : Len(got[r][m]) = sizes[m]
    /\ \E len \in Len(got[r][n]) + 1..sizes[n] :
          got' = [got EXCEPT ![r][n] = Content(n, len)]
    /\ UNCHANGED <<sizes, version>>

DNext == Begin \/ \E r \in DOMAIN got, n \in 1..Len(sizes) : Deliver(r, n)

DeliverySpec == DInit /\ [][DNext]_dvars
=============================================================================

----------------------------- MODULE DropOldest -----------------------------
(***************************************************************************)
(* The buffer discipline of MessageQueue.put_sample: a bounded sequence    *)
(* that makes room by discarding its oldest element.                       *)
(***************************************************************************)
EXTENDS Naturals, Sequences

\* Fault: at capacity the newest sample is discarded instead of the oldest.
OfferDropNewest(buffer, capacity, item) ==
    Append(IF Len(buffer) >= capacity THEN SubSeq(buffer, 1, capacity - 1)
                                      ELSE buffer, item)

\* The buffer after put_sample: popleft when it is full, then append.
Offer(buffer, capacity, item) ==
    Append(IF Len(buffer) >= capacity THEN Tail(buffer) ELSE buffer, item)

\* put_sample's is_drop: the caller is told its put displaced a sample.
Displaces(buffer, capacity) == Len(buffer) >= capacity
=============================================================================

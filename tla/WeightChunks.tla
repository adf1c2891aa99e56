---------------------------- MODULE WeightChunks ----------------------------
(***************************************************************************)
(* How a model's weights are cut into chunks, packed into buckets of       *)
(* BucketSize bytes and put together again: split_weight_chunks and        *)
(* merge_weight_chunks (checkpoint_engine/base.py) and the packing loop    *)
(* that the send_weights methods of the NCCL and NIXL engines share.       *)
(*                                                                         *)
(* A weight is its position in the generator's order and its size in       *)
(* bytes; a byte is the update it belongs to, its weight and its index.    *)
(***************************************************************************)
EXTENDS Integers, Sequences

CONSTANT BucketSize   \* bucket_size in bytes

ASSUME BucketSizeAssumption == BucketSize \in Nat \ {0}

Byte(version, name, k) == <<version, name, k>>

\* A buffer as prepare leaves it, and one a transfer is writing to.
Zeros == [o \in 0..BucketSize - 1 |-> <<0, 0, 0>>]
Garbage == [o \in 0..BucketSize - 1 |-> <<0, 0, 1>>]

Slice(buf, offset, size) == [k \in 1..size |-> buf[offset + k - 1]]

-----------------------------------------------------------------------------
(* The sender: wi and co are where split_weight_chunks is (the weight and  *)
(* chunk_offset), offset and bucket_meta what is in the bucket so far.      *)

StartFill == [wi |-> 1, co |-> 0, offset |-> 0, bucket_meta |-> <<>>]

MoreChunks(weights, f) == f.wi <= Len(weights)

ChunkSize(weights, f) ==
    IF weights[f.wi] - f.co < BucketSize THEN weights[f.wi] - f.co ELSE BucketSize

Fits(weights, f) == f.offset + ChunkSize(weights, f) <= BucketSize

TensorMeta(weights, f) ==
    [name |-> f.wi, nbytes |-> weights[f.wi], chunk_offset |-> f.co,
     chunk_size |-> ChunkSize(weights, f), offset |-> f.offset]

PutChunk(weights, f) ==
    LET size == ChunkSize(weights, f)
        last == f.co + size = weights[f.wi]
    IN  [wi |-> IF last THEN f.wi + 1 ELSE f.wi,
         co |-> IF last THEN 0 ELSE f.co + size,
         offset |-> f.offset + size,
         bucket_meta |-> Append(f.bucket_meta, TensorMeta(weights, f))]

\* The bytes of chunk t copied into a buffer.
WriteChunk(buf, version, t) ==
    [o \in 0..BucketSize - 1 |->
        IF o \in t.offset..t.offset + t.chunk_size - 1
        THEN Byte(version, t.name, t.chunk_offset + o - t.offset)
        ELSE buf[o]]

NewBucket(f) == [f EXCEPT !.offset = 0, !.bucket_meta = <<>>]

\* Fault: the last bucket is not marked.
BucketNeverLast(weights, f) ==
    [bucket_meta |-> f.bucket_meta, is_last |-> FALSE]

\* The metadata that goes with the bucket: it is the last one if no chunk is
\* left.
Bucket(weights, f) ==
    [bucket_meta |-> f.bucket_meta, is_last |-> ~MoreChunks(weights, f)]

\* The assertions before a chunk goes into the bucket.
FillAsserts(weights, f) ==
    /\ f.offset + ChunkSize(weights, f) <= BucketSize
    /\ \A j \in 1..Len(f.bucket_meta) : f.bucket_meta[j].name # f.wi

-----------------------------------------------------------------------------
(* The receiver: name (0: merge_weight is None) and offset of the weight   *)
(* being merged, and loaded, the weights yielded so far, in order.          *)

StartMerge == [name |-> 0, offset |-> 0, loaded |-> <<>>]

Whole(t) == t.nbytes <= BucketSize

MergeAsserts(m, t) ==
    IF Whole(t) THEN m.name = 0
    ELSE IF m.name = 0 THEN t.chunk_offset = 0
    ELSE m.name = t.name /\ m.offset = t.chunk_offset

MergeChunk(m, t) ==
    IF Whole(t) \/ t.chunk_offset + t.chunk_size = t.nbytes
    THEN [name |-> 0, offset |-> 0, loaded |-> Append(m.loaded, t.name)]
    ELSE [m EXCEPT !.name = t.name, !.offset = t.chunk_offset + t.chunk_size]
=============================================================================

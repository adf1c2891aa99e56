------------------------- MODULE NixlTransferProofs -------------------------
(***************************************************************************)
(* Proofs about the NIXL checkpoint engine, for a chain of any length, any *)
(* list of weights and any bucket size.                                    *)
(*                                                                         *)
(* The agents run freely; only neighbours wait for each other.  So the     *)
(* invariant is one of agents and links: what an agent may be doing, and   *)
(* what is on the way between an agent and the next one - nothing, an      *)
(* offer, a transfer or a notification, each of exactly the bucket that    *)
(* the readable operation was made for.  Buckets are followed through the  *)
(* chain the same way: what is offered on a link begins where what was     *)
(* read from it ends.                                                      *)
(*                                                                         *)
(* A second invariant follows the bytes.  A bucket that is offered, being  *)
(* read, read or in hand is in the buffer it is said to be in, and what a  *)
(* server has reaches to the first copy still queued.                      *)
(***************************************************************************)
EXTENDS NixlTransfer, TLAPS

\* split_weight_chunks is at a chunk that exists, only a large weight is cut,
\* and a weight that is in the bucket and not finished fills it.
FillInv ==
    /\ weights \in Seq(Nat \ {0})
    /\ fill.wi \in 1..Len(weights) + 1
    /\ fill.wi <= Len(weights) => fill.co < weights[fill.wi]
    /\ fill.wi > Len(weights) => fill.co = 0
    /\ fill.co > 0 => weights[fill.wi] > BucketSize
    /\ fill.bucket_meta = <<>> => fill.offset = 0
    /\ \A j \in 1..Len(fill.bucket_meta) :
          /\ fill.bucket_meta[j].name <= fill.wi
          /\ fill.bucket_meta[j].name = fill.wi => fill.offset = BucketSize

\* A place in the generator's order: weight and offset in it.
Pos(t) == <<t.name, t.chunk_offset>>
FirstPos == <<1, 0>>
FillPos == <<fill.wi, fill.co>>

Ends(t) == t.chunk_offset + t.chunk_size = t.nbytes
PosAfter(t) == IF Ends(t) THEN <<t.name + 1, 0>>
               ELSE <<t.name, t.chunk_offset + t.chunk_size>>

\* A chunk as split_weight_chunks cuts it.
IsChunk(t) ==
    /\ t.name > 0 /\ t.chunk_offset < t.nbytes
    /\ t.chunk_size = IF t.nbytes - t.chunk_offset < BucketSize
                      THEN t.nbytes - t.chunk_offset ELSE BucketSize
    /\ t.chunk_offset > 0 => t.nbytes > BucketSize

\* The chunks of s follow each other without a gap.
Linked(s) ==
    \A k \in 1..Len(s) :
        IsChunk(s[k]) /\ (k < Len(s) => PosAfter(s[k]) = Pos(s[k + 1]))

Begins(s, e) == s # <<>> => Pos(s[1]) = e
EndOf(s) == PosAfter(s[Len(s)])

\* Only the last bucket can be empty.
GoodBucket(m) == Linked(m.bucket_meta) /\ (m.bucket_meta = <<>> => m.is_last)

\* The merge is where the next chunk must begin.
Agrees(m, e) == IF e[2] = 0 THEN m.name = 0 ELSE m.name = e[1] /\ m.offset = e[2]

InHand(a) == a.phase \in {"top", "next", "yield"}

\* Where the merge of a worker is, if its bucket is not empty.
MergeAt(a) ==
    IF a.done < Len(a.meta.bucket_meta) THEN Pos(a.meta.bucket_meta[a.done + 1])
    ELSE EndOf(a.meta.bucket_meta)

\* Where the bucket in hand ends, and the last one that was asked for.
HandedTo(a) == IF a.phase \in {"first", "reading"} THEN FirstPos
               ELSE EndOf(a.meta.bucket_meta)
ReadTo(a) == IF a.xfer.state # "none" THEN EndOf(a.ahead.bucket_meta) ELSE HandedTo(a)

\* What worker a has read and hands on.
ChunksOK(a) ==
    /\ a.phase \in {"first", "reading"} => Agrees(a.merge, FirstPos)
    /\ InHand(a) =>
          /\ GoodBucket(a.meta) /\ a.done <= Len(a.meta.bucket_meta)
          /\ a.meta.bucket_meta # <<>> => Agrees(a.merge, MergeAt(a))
    /\ a.xfer.state # "none" =>
          GoodBucket(a.ahead) /\ Begins(a.ahead.bucket_meta, HandedTo(a))

\* Where a worker with queued copies st is while a transfer runs, its bucket
\* is offered or copies are queued.
PhaseOK(a, st) ==
    /\ a.phase \in {"first", "reading", "top", "next", "yield", "done"}
    /\ a.xfer.state # "none" <=>
          a.phase = "reading" \/ (a.phase = "yield" /\ ~a.meta.is_last)
    /\ a.op # 0 => a.phase \in {"next", "yield"}
    /\ a.phase = "next" => ~a.meta.is_last
    /\ a.phase # "yield" => st = <<>>

\* Queued copies use the buffer in hand.
SideOK(a, st) == \A k \in 1..Len(st) : st[k].side = a.side

WorkerOK(i) == PhaseOK(agent[i], stream[i]) /\ SideOK(agent[i], stream[i]) /\ ChunksOK(agent[i])

SenderOK(a, st, f) ==
    /\ a.phase \in {"fill", "last", "done"}
    /\ a.phase # "fill" => st = <<>>
    /\ a.phase = "done" => a.op = 0
    /\ a.xfer.state = "none"
    /\ SideOK(a, st)
    /\ Linked(f.bucket_meta)
    /\ f.bucket_meta # <<>> => EndOf(f.bucket_meta) = <<f.wi, f.co>>

-----------------------------------------------------------------------------
(* The link from an agent a with notifications n to the next agent, b, with *)
(* the inbox q                                                              *)

\* Which buffer agent a has offered.
OfferSide(a) == IF a.phase = "fill" THEN 1 - a.side ELSE a.side

\* A readable operation waits for an offer, a transfer or a notification.
Untouched(b, q, n) == q = <<>> /\ b.xfer.state # "running" /\ n = <<>>
Waiting(a, b, q, n) ==
    /\ Len(q) = 1 /\ b.xfer.state # "running" /\ n = <<>>
    /\ q[1].key = a.op /\ q[1].side = OfferSide(a)
Running(a, b, q, n) ==
    /\ q = <<>> /\ b.xfer.state = "running" /\ n = <<>>
    /\ b.xfer.key = a.op /\ b.xfer.src = OfferSide(a)
Notified(a, b, q, n) ==
    /\ q = <<>> /\ b.xfer.state # "running" /\ Len(n) = 1 /\ n[1] = a.op

OperationOK(a, b, q, n) ==
    /\ a.op = 0 => Untouched(b, q, n)
    /\ a.op # 0 => Waiting(a, b, q, n) \/ Running(a, b, q, n) \/ Notified(a, b, q, n)

\* How far the buckets offered on the link reach.
OfferedTo(b, q) == IF q = <<>> THEN ReadTo(b) ELSE EndOf(q[1].meta.bucket_meta)

\* A bucket on offer begins where the one before it ends, and so will the
\* next one, which the sender is filling or the worker has in hand.
OfferOK(b, q) ==
    q # <<>> => GoodBucket(q[1].meta) /\ Begins(q[1].meta.bucket_meta, ReadTo(b))
FillOK(a, f, e) ==
    a.phase = "fill" =>
        IF f.bucket_meta = <<>> THEN <<f.wi, f.co>> = e ELSE Pos(f.bucket_meta[1]) = e
HandOK(a, e) ==
    /\ a.phase \in {"first", "reading"} => e = FirstPos
    /\ a.phase = "top" => Begins(a.meta.bucket_meta, e)
    /\ a.phase \in {"next", "yield"} /\ ~a.meta.is_last => e = EndOf(a.meta.bucket_meta)

LinkOK(i) ==
    /\ OperationOK(agent[i], agent[i + 1], inbox[i + 1], notifications[i])
    /\ OfferOK(agent[i + 1], inbox[i + 1])
    /\ FillOK(agent[i], fill, OfferedTo(agent[i + 1], inbox[i + 1]))
    /\ HandOK(agent[i], OfferedTo(agent[i + 1], inbox[i + 1]))

\* Nobody reads from the last agent, and nobody writes to the first.
EndsOK ==
    inbox[0] = <<>> /\ notifications[workers] = <<>> /\ agent[workers].op = 0

ChainOK ==
    /\ workers > 1
    /\ \A i \in 0..workers - 1 : peers.next[i] = i + 1 /\ peers.prev[i + 1] = i
    /\ peers.next[workers] = NoAgent

UpdateInv ==
    stage = "update" =>
        /\ ChainOK /\ EndsOK
        /\ SenderOK(agent[0], stream[0], fill)
        /\ \A i \in Workers : WorkerOK(i)
        /\ \A i \in 0..workers - 1 : LinkOK(i)

\* Outside an update nothing goes on.
QuietInv ==
    stage # "update" =>
        \A i \in Agents :
            /\ inbox[i] = <<>> /\ notifications[i] = <<>> /\ stream[i] = <<>>
            /\ agent[i].op = 0 /\ agent[i].phase = "done" /\ agent[i].xfer.state = "none"

\* The types of TypeOK, one record at a time.
Phases == {"fill", "last", "first", "reading", "top", "next", "yield", "done"}
Transfers == [state : {"none", "running", "done"}, src : {0, 1}, key : Nat]
Merges == [name : Nat, offset : Nat, loaded : Seq(Nat)]
AgentStates ==
    [phase : Phases, side : {0, 1}, op : Nat, keys : Nat, meta : Metas, ahead : Metas,
     xfer : Transfers, done : Nat, merge : Merges]
FillStates == [wi : Nat, co : Nat, offset : 0..BucketSize, bucket_meta : Seq(Chunks)]
Copies == [side : {0, 1}, meta : Chunks]
Offers == [key : Nat, side : {0, 1}, meta : Metas]

ManagerTypes ==
    /\ workers \in Nat \ {0}
    /\ stage \in {"idle", "update", "aborted"} /\ version \in 0..MaxUpdates
    /\ stage = "aborted" => workers = 1
TransferTypes ==
    /\ fill \in FillStates
    /\ agent \in [Agents -> AgentStates]
    /\ inbox \in [Agents -> Seq(Offers)]
    /\ notifications \in [Agents -> Seq(Nat)]
    /\ stream \in [Agents -> Seq(Copies)]
Types == ManagerTypes /\ TransferTypes

ChainIInv == Types /\ FillInv /\ QuietInv /\ UpdateInv

\* They are TypeOK.
LEMMA TypesAreTypeOK == Types => TypeOK
  BY DEF Types, ManagerTypes, TransferTypes, TypeOK, AgentStates, Transfers, Merges,
         Phases, FillStates, Copies, Offers

\* The constants have the types that the assumptions say.
LEMMA TransferConstants ==
    /\ BucketSize \in Nat \ {0} /\ MaxUpdates \in Nat /\ TrainerWorldSize \in Nat \ {0}
    /\ RolloutSizes \subseteq Nat \ {0}
  BY BucketSizeAssumption, NixlAssumption

\* What putting the next chunk into the bucket does.
LEMMA PutFacts ==
    ASSUME fill \in FillStates, FillInv, MoreChunks(weights, fill), Fits(weights, fill),
           NEW t, t = TensorMeta(weights, fill),
           NEW f, f = PutChunk(weights, fill)
    PROVE  /\ t \in Chunks /\ IsChunk(t) /\ Pos(t) = FillPos
           /\ f \in FillStates
           /\ f.bucket_meta = Append(fill.bucket_meta, t)
           /\ PosAfter(t) = <<f.wi, f.co>>
           /\ f.wi \in 1..Len(weights) + 1
           /\ f.wi <= Len(weights) => f.co < weights[f.wi]
           /\ f.wi > Len(weights) => f.co = 0
           /\ f.co > 0 => weights[f.wi] > BucketSize
           /\ \A j \in 1..Len(f.bucket_meta) :
                 /\ f.bucket_meta[j].name <= f.wi
                 /\ f.bucket_meta[j].name = f.wi => f.offset = BucketSize
           /\ FillAsserts(weights, fill)
           /\ f.bucket_meta # <<>>
<1> DEFINE size == ChunkSize(weights, fill)
           w == weights[fill.wi]
<1>0. BucketSize \in Nat \ {0}
  BY TransferConstants
<1>1. /\ fill.wi \in Nat \ {0} /\ fill.co \in Nat /\ fill.offset \in 0..BucketSize
      /\ fill.bucket_meta \in Seq(Chunks) /\ Len(weights) \in Nat
      /\ fill.wi <= Len(weights) /\ w \in Nat \ {0} /\ fill.co < w
      /\ fill.co > 0 => w > BucketSize
  BY DEF FillInv, FillStates, MoreChunks
<1>2. /\ size \in Nat \ {0} /\ size <= BucketSize /\ fill.co + size <= w
      /\ fill.co + size # w => size = BucketSize /\ w > BucketSize
      /\ size = IF w - fill.co < BucketSize THEN w - fill.co ELSE BucketSize
  BY <1>0, <1>1 DEF ChunkSize
<1>3. fill.offset + size <= BucketSize
  BY DEF Fits
<1>4. /\ t.name = fill.wi /\ t.nbytes = w /\ t.chunk_offset = fill.co
      /\ t.chunk_size = size /\ t.offset = fill.offset
      /\ t = [name |-> fill.wi, nbytes |-> w, chunk_offset |-> fill.co,
              chunk_size |-> size, offset |-> fill.offset]
  BY DEF TensorMeta
<1>5. /\ f.wi = IF fill.co + size = w THEN fill.wi + 1 ELSE fill.wi
      /\ f.co = IF fill.co + size = w THEN 0 ELSE fill.co + size
      /\ f.offset = fill.offset + size
      /\ f.bucket_meta = Append(fill.bucket_meta, t)
      /\ f = [wi |-> f.wi, co |-> f.co, offset |-> f.offset, bucket_meta |-> f.bucket_meta]
  BY DEF PutChunk
<1> HIDE DEF size, w
<1>6. t \in Chunks
  BY <1>0, <1>1, <1>2, <1>4 DEF Chunks
<1>7. IsChunk(t) /\ Pos(t) = FillPos
  BY <1>0, <1>1, <1>2, <1>4 DEF IsChunk, Pos, FillPos
<1>8. PosAfter(t) = <<f.wi, f.co>>
  BY <1>4, <1>5 DEF PosAfter, Ends
<1>9. f.wi \in Nat /\ f.co \in Nat /\ f.offset \in 0..BucketSize
      /\ f.bucket_meta \in Seq(Chunks)
  <2>1. f.offset \in 0..BucketSize
    BY <1>0, <1>1, <1>2, <1>3, <1>5
  <2>2. f.wi \in Nat /\ f.co \in Nat
    BY <1>1, <1>2, <1>5, SMTT(30)
  <2>3. f.bucket_meta \in Seq(Chunks)
    BY <1>1, <1>5, <1>6
  <2>4. QED
    BY <2>1, <2>2, <2>3
<1>10. f \in FillStates
  BY <1>5, <1>9 DEF FillStates
<1>11. /\ f.wi \in 1..Len(weights) + 1
       /\ f.wi <= Len(weights) => f.co < weights[f.wi]
       /\ f.wi > Len(weights) => f.co = 0
       /\ f.co > 0 => weights[f.wi] > BucketSize
  <2>1. CASE fill.co + size = w
    <3>1. f.wi = fill.wi + 1 /\ f.co = 0
      BY <1>5, <2>1
    <3>2. f.wi <= Len(weights) => weights[f.wi] \in Nat \ {0}
      BY <1>1, <3>1 DEF FillInv
    <3>3. QED
      BY <1>1, <3>1, <3>2
  <2>2. CASE fill.co + size # w
    <3>1. f.wi = fill.wi /\ f.co = fill.co + size
      BY <1>5, <2>2
    <3>2. weights[f.wi] = w
      BY <3>1 DEF w
    <3>3. QED
      BY <1>0, <1>1, <1>2, <2>2, <3>1, <3>2
  <2>3. QED
    BY <2>1, <2>2
<1>12. \A j \in 1..Len(fill.bucket_meta) :
          /\ fill.bucket_meta[j].name \in Nat
          /\ fill.bucket_meta[j].name <= fill.wi
          /\ fill.bucket_meta[j].name # fill.wi
  <2> SUFFICES ASSUME NEW j \in 1..Len(fill.bucket_meta)
               PROVE  /\ fill.bucket_meta[j].name \in Nat
                      /\ fill.bucket_meta[j].name <= fill.wi
                      /\ fill.bucket_meta[j].name # fill.wi
    OBVIOUS
  <2>0. fill.bucket_meta[j] \in Chunks
    BY <1>1
  <2>1. fill.bucket_meta[j].name \in Nat
    BY <2>0 DEF Chunks
  <2>2. fill.bucket_meta[j].name <= fill.wi
    BY DEF FillInv
  <2>3. fill.bucket_meta[j].name # fill.wi
    <3>1. fill.bucket_meta[j].name = fill.wi => fill.offset = BucketSize
      BY DEF FillInv
    <3>2. fill.offset # BucketSize
      BY <1>0, <1>1, <1>2, <1>3
    <3>3. QED
      BY <3>1, <3>2
  <2>4. QED
    BY <2>1, <2>2, <2>3
<1>13. ASSUME NEW j \in 1..Len(f.bucket_meta)
       PROVE  /\ f.bucket_meta[j].name <= f.wi
              /\ f.bucket_meta[j].name = f.wi => f.offset = BucketSize
  <2>1. CASE j \in 1..Len(fill.bucket_meta)
    <3>1. f.bucket_meta[j] = fill.bucket_meta[j]
      BY <1>1, <1>5, <2>1
    <3>2. QED
      BY <1>1, <1>5, <1>12, <2>1, <3>1
  <2>2. CASE j = Len(fill.bucket_meta) + 1
    <3>1. f.bucket_meta[j].name = fill.wi
      BY <1>1, <1>4, <1>5, <2>2
    <3>2. f.wi = fill.wi => f.offset = BucketSize
      BY <1>0, <1>1, <1>2, <1>3, <1>5
    <3>3. QED
      BY <1>1, <1>5, <3>1, <3>2
  <2>3. QED
    BY <1>1, <1>5, <2>1, <2>2
<1>14. FillAsserts(weights, fill)
  BY <1>3, <1>12 DEF FillAsserts, size
<1>15. f.bucket_meta # <<>>
  BY <1>1, <1>5, <1>6
<1>16. QED
  BY <1>15, <1>5, <1>6, <1>7, <1>8, <1>10, <1>11, <1>13, <1>14

\* merge_weight_chunks is where the next chunk begins: its assertions hold and
\* it is where that chunk ends.
LEMMA MergeFacts ==
    ASSUME NEW t \in Chunks, IsChunk(t),
           NEW m \in Merges, Agrees(m, Pos(t))
    PROVE  /\ MergeAsserts(m, t)
           /\ Agrees(MergeChunk(m, t), PosAfter(t))
           /\ MergeChunk(m, t) \in Merges
<1>0. BucketSize \in Nat \ {0}
  BY TransferConstants
<1>1. /\ t.name \in Nat \ {0} /\ t.nbytes \in Nat /\ t.chunk_offset \in Nat
      /\ t.chunk_size \in Nat
  BY DEF Chunks, IsChunk
<1>2. /\ t.chunk_offset < t.nbytes
      /\ t.chunk_size = IF t.nbytes - t.chunk_offset < BucketSize
                        THEN t.nbytes - t.chunk_offset ELSE BucketSize
      /\ t.chunk_offset > 0 => t.nbytes > BucketSize
  BY DEF IsChunk
<1>3. m.name \in Nat /\ m.offset \in Nat /\ m.loaded \in Seq(Nat)
  BY DEF Merges
<1>4. Whole(t) => t.chunk_offset = 0 /\ Ends(t)
  BY <1>0, <1>1, <1>2 DEF Whole, Ends
<1>5. IF t.chunk_offset = 0 THEN m.name = 0
      ELSE m.name = t.name /\ m.offset = t.chunk_offset
  BY DEF Agrees, Pos
<1>6. MergeAsserts(m, t)
  BY <1>1, <1>4, <1>5 DEF MergeAsserts
<1>7. CASE Ends(t)
  <2>1. MergeChunk(m, t) = [name |-> 0, offset |-> 0, loaded |-> Append(m.loaded, t.name)]
    BY <1>7 DEF MergeChunk, Ends
  <2>2. PosAfter(t) = <<t.name + 1, 0>>
    BY <1>7 DEF PosAfter
  <2>3. Append(m.loaded, t.name) \in Seq(Nat)
    BY <1>1, <1>3
  <2>4. QED
    BY <1>6, <2>1, <2>2, <2>3 DEF Agrees, Merges
<1>8. CASE ~Ends(t)
  <2>1. MergeChunk(m, t) = [m EXCEPT !.name = t.name, !.offset = t.chunk_offset + t.chunk_size]
    BY <1>4, <1>8 DEF MergeChunk, Ends
  <2>2. PosAfter(t) = <<t.name, t.chunk_offset + t.chunk_size>>
    BY <1>8 DEF PosAfter
  <2>3. t.chunk_offset + t.chunk_size \in Nat \ {0}
    <3>1. t.chunk_size # 0
      BY <1>0, <1>1, <1>2
    <3>2. QED
      BY <1>1, <3>1
  <2> DEFINE n == t.chunk_offset + t.chunk_size
  <2>4. PosAfter(t) = <<t.name, n>> /\ n \in Nat /\ n # 0
    BY <2>2, <2>3
  <2>5. MergeChunk(m, t) = [name |-> t.name, offset |-> n, loaded |-> m.loaded]
    BY <2>1 DEF Merges
  <2> HIDE DEF n
  <2>6. MergeChunk(m, t).name = t.name /\ MergeChunk(m, t).offset = n
    BY <2>5
  <2>7. Agrees(MergeChunk(m, t), PosAfter(t))
    BY <2>4, <2>6 DEF Agrees
  <2>8. QED
    BY <1>1, <1>3, <1>6, <2>4, <2>5, <2>7 DEF Merges
<1>9. QED
  BY <1>7, <1>8

\* What is left of a queue.
LEMMA TailFacts ==
    ASSUME NEW S, NEW s \in Seq(S), s # <<>>
    PROVE  /\ Tail(s) \in Seq(S) /\ Head(s) \in S
           /\ Head(s) = s[1] /\ Len(Tail(s)) = Len(s) - 1
           /\ \A k \in 1..Len(Tail(s)) : k + 1 \in 1..Len(s) /\ Tail(s)[k] = s[k + 1]
  OBVIOUS

\* A new bucket is empty; the generator is where it was.
LEMMA NewBucketFacts ==
    ASSUME NEW f \in FillStates
    PROVE  /\ NewBucket(f).wi = f.wi /\ NewBucket(f).co = f.co /\ NewBucket(f).offset = 0
           /\ NewBucket(f).bucket_meta = <<>> /\ NewBucket(f) \in FillStates
<1> SUFFICES ASSUME NEW g, g = NewBucket(f)
             PROVE  /\ g.wi = f.wi /\ g.co = f.co /\ g.offset = 0
                    /\ g.bucket_meta = <<>> /\ g \in FillStates
  OBVIOUS
<1>1. g = [wi |-> f.wi, co |-> f.co, offset |-> 0, bucket_meta |-> <<>>]
  BY DEF NewBucket, FillStates
<1>2. f.wi \in Nat /\ f.co \in Nat /\ 0 \in 0..BucketSize /\ <<>> \in Seq(Chunks)
  BY TransferConstants DEF FillStates
<1>3. QED
  BY <1>1, <1>2 DEF FillStates

\* A chunk that begins where the others end prolongs the bucket.
LEMMA LinkedAppend ==
    ASSUME NEW s \in Seq(Chunks), NEW t \in Chunks, Linked(s), IsChunk(t),
           s # <<>> => EndOf(s) = Pos(t)
    PROVE  /\ Linked(Append(s, t)) /\ EndOf(Append(s, t)) = PosAfter(t)
           /\ Append(s, t)[1] = IF s = <<>> THEN t ELSE s[1]
<1> DEFINE u == Append(s, t)
<1>1. /\ u \in Seq(Chunks) /\ Len(u) = Len(s) + 1 /\ Len(s) \in Nat
      /\ \A k \in 1..Len(s) : u[k] = s[k]
      /\ u[Len(s) + 1] = t /\ (s # <<>> <=> Len(s) > 0)
  OBVIOUS
<1> HIDE DEF u
<1>2. ASSUME NEW k \in 1..Len(u)
      PROVE  IsChunk(u[k]) /\ (k < Len(u) => PosAfter(u[k]) = Pos(u[k + 1]))
  <2>1. CASE k = Len(s) + 1
    <3>1. u[k] = t /\ ~(k < Len(u))
      BY <1>1, <2>1
    <3>2. QED
      BY <3>1
  <2>2. CASE k \in 1..Len(s) /\ k = Len(s)
    <3>1. u[k] = s[k] /\ u[k + 1] = t /\ s # <<>>
      BY <1>1, <2>2
    <3>2. IsChunk(s[k]) /\ PosAfter(s[k]) = Pos(t)
      BY <2>2, <3>1 DEF Linked, EndOf
    <3>3. QED
      BY <3>1, <3>2
  <2>3. CASE k \in 1..Len(s) /\ k # Len(s)
    <3>1. k + 1 \in 1..Len(s) /\ k < Len(s)
      BY <1>1, <2>3
    <3>2. u[k] = s[k] /\ u[k + 1] = s[k + 1]
      BY <1>1, <2>3, <3>1
    <3>3. IsChunk(s[k]) /\ PosAfter(s[k]) = Pos(s[k + 1])
      BY <2>3, <3>1 DEF Linked
    <3>4. QED
      BY <3>2, <3>3
  <2>4. QED
    BY <1>1, <2>1, <2>2, <2>3
<1>3. Linked(u)
  BY <1>2 DEF Linked
<1>4. EndOf(u) = PosAfter(t)
  BY <1>1 DEF EndOf
<1>5. u[1] = IF s = <<>> THEN t ELSE s[1]
  BY <1>1
<1>6. QED
  BY <1>3, <1>4, <1>5 DEF u

\* build_topology: trainer rank 0 first, every worker between the one before
\* and the one after it; its result is refused for a single worker only.
LEMMA TopologyFacts ==
    ASSUME workers \in Nat \ {0}, NEW t, t = BuildTopology
    PROVE  /\ workers = 1 => ~TopologyAsserts(t)
           /\ workers > 1 =>
                 /\ TopologyAsserts(t) /\ t.first = 1
                 /\ \A i \in Workers :
                       /\ t.prev[i] = i - 1
                       /\ t.next[i] = IF i = workers THEN NoAgent ELSE i + 1
<1> DEFINE T == TrainerWorldSize
           m == Metadata
<1>1. T \in Nat \ {0} /\ workers \in Nat \ {0}
  BY TransferConstants
<1>2. /\ m \in Seq(Int) /\ Len(m) = T + workers /\ m[1] = 0
      /\ \A k \in 1..workers : m[T + k] = k
  <2>1. ASSUME NEW j \in 1..T + workers PROVE m[j] \in Int
    BY <1>1, <2>1 DEF Metadata
  <2>2. m = [j \in 1..T + workers |-> m[j]]
    BY DEF Metadata
  <2>3. m \in Seq(Int) /\ Len(m) = T + workers
    <3>1. T + workers \in Nat
      BY <1>1
    <3>2. m \in [1..T + workers -> Int]
      BY <2>1, <2>2
    <3>3. QED
      BY <3>1, <3>2
  <2>4. m[1] = 0
    BY <1>1 DEF Metadata
  <2>5. \A k \in 1..workers : m[T + k] = k
    BY <1>1 DEF Metadata
  <2>6. QED
    BY <2>3, <2>4, <2>5
<1>3. /\ t.first = m[T + 1] /\ t.prev = <<m[1]>> \o PySlice(m, -workers, -1)
      /\ t.next = Append(PySliceFrom(m, -workers + 1), NoAgent)
  BY DEF BuildTopology
<1> HIDE DEF m, T
<1>4. /\ PySlice(m, -workers, -1) = SubSeq(m, T + 1, T + workers - 1)
      /\ workers > 1 => PySliceFrom(m, -workers + 1) = SubSeq(m, T + 2, T + workers)
      /\ workers = 1 => PySliceFrom(m, -workers + 1) = SubSeq(m, 1, T + workers)
  BY <1>1, <1>2 DEF PySlice, PySliceFrom, From0
<1>5. CASE workers = 1
  <2>1. t.next = Append(SubSeq(m, 1, T + workers), NoAgent)
    BY <1>3, <1>4, <1>5, Zenon
  <2>2. SubSeq(m, 1, T + workers) \in Seq(Int) /\ Len(SubSeq(m, 1, T + workers)) = T + 1
    BY <1>1, <1>2, <1>5
  <2>3. Len(t.next) = T + 2
    BY <1>1, <2>1, <2>2
  <2>4. QED
    BY <1>1, <1>5, <2>3 DEF TopologyAsserts
<1>6. CASE workers > 1
  <2> DEFINE a == SubSeq(m, T + 1, T + workers - 1)
             b == SubSeq(m, T + 2, T + workers)
  <2>1. /\ a \in Seq(Int) /\ Len(a) = workers - 1
        /\ \A k \in 1..workers - 1 : a[k] = k
    <3>1. a \in Seq(Int) /\ Len(a) = workers - 1
      BY <1>1, <1>2, <1>6
    <3>2. ASSUME NEW k \in 1..workers - 1 PROVE a[k] = k
      <4>1. a[k] = m[T + k]
        BY <1>1, <1>2, <1>6
      <4>2. QED
        BY <1>1, <1>2, <4>1
    <3>3. QED
      BY <3>1, <3>2
  <2>2. /\ b \in Seq(Int) /\ Len(b) = workers - 1
        /\ \A k \in 1..workers - 1 : b[k] = k + 1
    <3>1. b \in Seq(Int) /\ Len(b) = workers - 1
      BY <1>1, <1>2, <1>6
    <3>2. ASSUME NEW k \in 1..workers - 1 PROVE b[k] = k + 1
      <4>1. b[k] = m[T + (k + 1)]
        BY <1>1, <1>2, <1>6
      <4>2. QED
        BY <1>1, <1>2, <4>1
    <3>3. QED
      BY <3>1, <3>2
  <2>3. t.first = 1 /\ t.prev = <<0>> \o a /\ t.next = Append(b, NoAgent)
    <3>1. m[T + 1] = 1
      BY <1>1, <1>2
    <3>2. QED
      BY <1>2, <1>3, <1>4, <1>6, <3>1, Zenon
  <2> HIDE DEF a, b
  <2>4. Len(t.prev) = workers /\ \A i \in 1..workers : t.prev[i] = i - 1
    <3>1. Len(t.prev) = workers
      BY <1>1, <2>1, <2>3
    <3>2. ASSUME NEW i \in 1..workers PROVE t.prev[i] = i - 1
      <4>1. CASE i = 1
        BY <1>1, <2>1, <2>3, <4>1
      <4>2. CASE i # 1
        <5>1. t.prev[i] = a[i - 1]
          BY <1>1, <2>1, <2>3, <4>2
        <5>2. QED
          BY <1>1, <2>1, <4>2, <5>1
      <4>3. QED
        BY <4>1, <4>2
    <3>3. QED
      BY <3>1, <3>2
  <2>5. /\ Len(t.next) = workers
        /\ \A i \in 1..workers : t.next[i] = IF i = workers THEN NoAgent ELSE i + 1
    BY <1>1, <2>2, <2>3
  <2>6. TopologyAsserts(t)
    BY <1>1, <2>4, <2>5 DEF TopologyAsserts, Workers, NoAgent
  <2>7. QED
    BY <1>6, <2>3, <2>4, <2>5, <2>6 DEF Workers
<1>7. QED
  BY <1>1, <1>5, <1>6

-----------------------------------------------------------------------------
(* Frames *)

\* What holds of the state while an update is in progress.
LEMMA UpdateFacts ==
    ASSUME ChainIInv, stage = "update"
    PROVE  /\ workers \in Nat /\ workers > 1 /\ ChainOK /\ EndsOK
           /\ 0 \in Agents /\ Workers \subseteq Agents /\ Agents = 0..workers
           /\ Workers = 1..workers
           /\ SenderOK(agent[0], stream[0], fill) /\ \A i \in Workers : WorkerOK(i)
           /\ \A i \in 0..workers - 1 : LinkOK(i)
           /\ Types /\ FillInv /\ fill \in FillStates
           /\ agent \in [Agents -> AgentStates] /\ inbox \in [Agents -> Seq(Offers)]
           /\ notifications \in [Agents -> Seq(Nat)] /\ stream \in [Agents -> Seq(Copies)]
<1>1. /\ workers \in Nat /\ ChainOK /\ EndsOK
      /\ SenderOK(agent[0], stream[0], fill) /\ \A i \in Workers : WorkerOK(i)
      /\ \A i \in 0..workers - 1 : LinkOK(i)
      /\ Types /\ FillInv
  BY DEF ChainIInv, UpdateInv, Types, ManagerTypes
<1>2. workers > 1
  BY <1>1 DEF ChainOK
<1>3. 0 \in Agents /\ Workers \subseteq Agents
  BY <1>1 DEF Agents, Workers
<1>4. /\ fill \in FillStates
      /\ agent \in [Agents -> AgentStates] /\ inbox \in [Agents -> Seq(Offers)]
      /\ notifications \in [Agents -> Seq(Nat)] /\ stream \in [Agents -> Seq(Copies)]
  BY <1>1 DEF Types, TransferTypes
<1>5. QED
  BY <1>1, <1>2, <1>3, <1>4, Zenon DEF Agents, Workers

\* The same for one agent.
LEMMA AgentFacts ==
    ASSUME ChainIInv, stage = "update", NEW i \in Agents
    PROVE  /\ i \in Int /\ i >= 0 /\ i <= workers
           /\ agent[i] \in AgentStates /\ stream[i] \in Seq(Copies)
           /\ inbox[i] \in Seq(Offers) /\ notifications[i] \in Seq(Nat)
           /\ i = 0 => SenderOK(agent[i], stream[i], fill)
           /\ i # 0 => i \in Workers /\ WorkerOK(i) /\ i - 1 \in Agents /\ LinkOK(i - 1)
           /\ i # workers => i + 1 \in Agents /\ LinkOK(i)
<1>1. /\ workers \in Nat /\ i \in 0..workers
  BY UpdateFacts DEF Agents
<1>2. /\ agent[i] \in AgentStates /\ stream[i] \in Seq(Copies)
      /\ inbox[i] \in Seq(Offers) /\ notifications[i] \in Seq(Nat)
  BY UpdateFacts
<1>3. i = 0 => SenderOK(agent[i], stream[i], fill)
  BY UpdateFacts, Zenon
<1>4. i # 0 => i \in Workers /\ i - 1 \in Agents /\ i - 1 \in 0..workers - 1
  BY <1>1 DEF Agents, Workers
<1>5. i # workers => i + 1 \in Agents /\ i \in 0..workers - 1
  BY <1>1 DEF Agents
<1>6. i \in Int /\ i >= 0 /\ i <= workers
  BY <1>1
<1>7. QED
  BY <1>2, <1>3, <1>4, <1>5, <1>6, UpdateFacts, Zenon

\* Outside an update no agent moves.
LEMMA BusyInUpdate ==
    ASSUME ChainIInv, NEW i \in Agents,
           agent[i].phase # "done" \/ stream[i] # <<>> \/ agent[i].xfer.state # "none"
    PROVE  stage = "update"
  BY DEF ChainIInv, QuietInv

\* A link is as it was if what it is about is.
LEMMA LinkKept ==
    ASSUME NEW k, LinkOK(k), agent'[k] = agent[k], agent'[k + 1] = agent[k + 1],
           inbox'[k + 1] = inbox[k + 1], notifications'[k] = notifications[k],
           fill' = fill \/ agent[k].phase # "fill"
    PROVE  LinkOK(k)'
<1>1. CASE fill' = fill
  BY <1>1, Zenon DEF LinkOK
<1>2. CASE agent[k].phase # "fill"
  <2>1. FillOK(agent'[k], fill', OfferedTo(agent'[k + 1], inbox'[k + 1]))
    BY <1>2 DEF FillOK
  <2>2. QED
    BY <2>1, Zenon DEF LinkOK
<1>3. QED
  BY <1>1, <1>2

\* A step of agent i concerns that agent, its links to both sides, and the
\* ends of the chain.
LEMMA AgentFrame ==
    ASSUME ChainIInv, stage = "update", NEW i \in Agents,
           UNCHANGED <<workers, stage, peers>>,
           i = 0 \/ fill' = fill,
           Types', FillInv', EndsOK',
           \A k \in Agents \ {i} : agent'[k] = agent[k] /\ stream'[k] = stream[k],
           \A k \in Agents \ {i, i + 1} : inbox'[k] = inbox[k],
           \A k \in Agents \ {i, i - 1} : notifications'[k] = notifications[k],
           i = 0 => SenderOK(agent'[0], stream'[0], fill'),
           i # 0 => WorkerOK(i)' /\ LinkOK(i - 1)',
           i # workers => LinkOK(i)'
    PROVE  ChainIInv'
<1>1. /\ workers \in Nat /\ workers > 1 /\ Agents = 0..workers /\ Workers = 1..workers
      /\ ChainOK /\ SenderOK(agent[0], stream[0], fill)
      /\ \A k \in Workers : WorkerOK(k)
      /\ \A k \in 0..workers - 1 : LinkOK(k)
  BY UpdateFacts
<1>2. i \in 0..workers
  BY <1>1
<1>3. ChainOK'
  BY <1>1, Zenon DEF ChainOK
<1>4. SenderOK(agent'[0], stream'[0], fill')
  <2>1. CASE i = 0
    BY <2>1
  <2>2. CASE i # 0
    <3>1. 0 \in Agents \ {i}
      BY <1>1, <2>2
    <3>2. agent'[0] = agent[0] /\ stream'[0] = stream[0] /\ fill' = fill
      BY <2>2, <3>1
    <3>3. QED
      BY <1>1, <3>2
  <2>3. QED
    BY <2>1, <2>2
<1>5. ASSUME NEW k \in Workers PROVE WorkerOK(k)'
  <2>0. k \in Agents /\ k # 0
    BY <1>1
  <2>1. CASE k = i
    BY <2>0, <2>1
  <2>2. CASE k # i
    <3>1. agent'[k] = agent[k] /\ stream'[k] = stream[k]
      BY <2>0, <2>2
    <3>2. QED
      BY <1>1, <3>1, Zenon DEF WorkerOK
  <2>3. QED
    BY <2>1, <2>2
<1>6. ASSUME NEW k \in 0..workers - 1 PROVE LinkOK(k)'
  <2>0. k \in Int /\ k \in Agents /\ k + 1 \in Agents /\ k # workers /\ k + 1 # 0
    BY <1>1
  <2>1. CASE k = i
    BY <2>0, <2>1
  <2>2. CASE k = i - 1
    <3>1. i # 0
      BY <1>1, <1>2, <2>2
    <3>2. QED
      BY <2>2, <3>1
  <2>3. CASE k # i /\ k # i - 1
    <3>1. k + 1 # i /\ k + 1 # i + 1
      BY <1>2, <2>0, <2>3
    <3>2. /\ agent'[k] = agent[k] /\ agent'[k + 1] = agent[k + 1]
          /\ inbox'[k + 1] = inbox[k + 1] /\ notifications'[k] = notifications[k]
      BY <2>0, <2>3, <3>1
    <3>3. fill' = fill \/ agent[k].phase # "fill"
      <4>1. CASE i = 0
        <5>1. k \in Workers
          BY <1>1, <2>0, <2>3, <4>1
        <5>2. QED
          BY <1>1, <5>1 DEF WorkerOK, PhaseOK
      <4>2. QED
        BY <4>1
    <3>4. QED
      BY <1>1, <3>2, <3>3, LinkKept
  <2>4. QED
    BY <2>1, <2>2, <2>3
<1>7. Workers' = Workers /\ workers' = workers /\ stage' = "update"
  BY DEF Workers
<1>8. UpdateInv'
  BY <1>3, <1>4, <1>5, <1>6, <1>7, Zenon DEF UpdateInv
<1>9. QuietInv'
  BY <1>7 DEF QuietInv
<1>10. QED
  BY <1>8, <1>9 DEF ChainIInv

\* A worker is an agent.
LEMMA WorkerIsAgent ==
    ASSUME ChainIInv, NEW i \in Workers
    PROVE  i \in Agents /\ i # 0 /\ i \in Int /\ i - 1 \in Agents /\ i - 1 # i
  BY DEF ChainIInv, Types, ManagerTypes, Workers, Agents

\* Types, when the manager does nothing.
LEMMA TypesKept ==
    ASSUME Types, UNCHANGED <<workers, stage, version>>, fill' \in FillStates,
           agent' \in [Agents -> AgentStates], inbox' \in [Agents -> Seq(Offers)],
           notifications' \in [Agents -> Seq(Nat)], stream' \in [Agents -> Seq(Copies)]
    PROVE  Types'
<1>1. Agents' = Agents
  BY DEF Agents
<1>2. TransferTypes'
  BY <1>1, Zenon DEF TransferTypes
<1>3. ManagerTypes'
  BY DEF Types, ManagerTypes
<1>4. QED
  BY <1>2, <1>3 DEF Types

\* The ends of the chain, when a step leaves them alone.
LEMMA EndsKept ==
    ASSUME EndsOK, workers' = workers, inbox'[0] = inbox[0],
           notifications'[workers] = notifications[workers],
           agent'[workers].op = agent[workers].op
    PROVE  EndsOK'
  BY Zenon DEF EndsOK

\* A queue without entries.
LEMMA EmptyFacts ==
    ASSUME NEW S, NEW s \in Seq(S), Len(s) = 0
    PROVE  s = <<>>
  OBVIOUS

\* One entry of a function changes.
LEMMA OneChanges ==
    ASSUME NEW D, NEW S, NEW f \in [D -> S], NEW d \in D, NEW v \in S,
           NEW g, g = [f EXCEPT ![d] = v]
    PROVE  g \in [D -> S] /\ g[d] = v /\ \A k \in D \ {d} : g[k] = f[k]
  OBVIOUS

\* The link to an agent that has read as far, and whose transfer is the same
\* unless it is over.
LEMMA InLink ==
    ASSUME NEW k, LinkOK(k), agent'[k] = agent[k], fill' = fill,
           notifications'[k] = notifications[k], inbox'[k + 1] = inbox[k + 1],
           \/ agent'[k + 1].xfer = agent[k + 1].xfer
           \/ /\ agent[k + 1].xfer.state # "running"
              /\ agent'[k + 1].xfer.state # "running",
           ReadTo(agent'[k + 1]) = ReadTo(agent[k + 1])
    PROVE  LinkOK(k)'
<1> DEFINE a == agent[k]
           b == agent[k + 1]
           c == agent'[k + 1]
           q == inbox[k + 1]
           n == notifications[k]
<1>1. OperationOK(a, c, q, n)
  <2>1. OperationOK(a, b, q, n)
    BY DEF LinkOK
  <2> HIDE DEF a, q, n
  <2>2. QED
    BY <2>1 DEF OperationOK, Untouched, Waiting, Running, Notified
<1>2. OfferOK(c, q) /\ OfferedTo(c, q) = OfferedTo(b, q)
  <2>1. OfferOK(b, q)
    BY DEF LinkOK
  <2>2. QED
    BY <2>1, Zenon DEF OfferOK, OfferedTo
<1>3. FillOK(a, fill, OfferedTo(c, q)) /\ HandOK(a, OfferedTo(c, q))
  BY <1>2, Zenon DEF LinkOK
<1>4. QED
  BY <1>1, <1>2, <1>3, Zenon DEF LinkOK

\* The link from a worker that keeps its readable operation.
LEMMA OutLink ==
    ASSUME NEW k, LinkOK(k), agent'[k + 1] = agent[k + 1],
           notifications'[k] = notifications[k], inbox'[k + 1] = inbox[k + 1],
           agent'[k].op = agent[k].op, OfferSide(agent'[k]) = OfferSide(agent[k]),
           agent'[k].phase # "fill",
           HandOK(agent'[k], OfferedTo(agent[k + 1], inbox[k + 1]))
    PROVE  LinkOK(k)'
<1> DEFINE a == agent[k]
           c == agent'[k]
           b == agent[k + 1]
           q == inbox[k + 1]
           n == notifications[k]
<1>1. OperationOK(c, b, q, n)
  <2>1. OperationOK(a, b, q, n)
    BY DEF LinkOK
  <2>2. c.op = a.op /\ OfferSide(c) = OfferSide(a)
    OBVIOUS
  <2> HIDE DEF a, b, c, q, n
  <2>3. QED
    BY <2>1, <2>2 DEF OperationOK, Untouched, Waiting, Running, Notified
<1>2. OfferOK(b, q)
  BY DEF LinkOK
<1>3. FillOK(c, fill', OfferedTo(b, q))
  BY DEF FillOK
<1>4. QED
  BY <1>1, <1>2, <1>3, Zenon DEF LinkOK

-----------------------------------------------------------------------------
(* Steps of a worker *)

\* An agent's record, field by field.
Record(ph, sd, o, ks, m, h, x, d, g) ==
    [phase |-> ph, side |-> sd, op |-> o, keys |-> ks, meta |-> m, ahead |-> h,
     xfer |-> x, done |-> d, merge |-> g]

\* Its fields have their types, and make it up.
LEMMA Fields ==
    ASSUME NEW a \in AgentStates
    PROVE  /\ a.phase \in Phases /\ a.side \in {0, 1} /\ a.op \in Nat /\ a.keys \in Nat
           /\ a.meta \in Metas /\ a.ahead \in Metas /\ a.xfer \in Transfers
           /\ a.done \in Nat /\ a.merge \in Merges
           /\ a = Record(a.phase, a.side, a.op, a.keys, a.meta, a.ahead, a.xfer, a.done,
                         a.merge)
           /\ a.meta.bucket_meta \in Seq(Chunks) /\ a.ahead.bucket_meta \in Seq(Chunks)
           /\ a.meta.is_last \in BOOLEAN
  BY DEF AgentStates, Record, Metas

\* Turning to another phase with a transfer of bucket h.
LEMMA ReadingRecord ==
    ASSUME NEW a \in AgentStates, NEW ph, NEW h, NEW x,
           NEW b, b = [a EXCEPT !.phase = ph, !.ahead = h, !.xfer = x]
    PROVE  b = Record(ph, a.side, a.op, a.keys, a.meta, h, x, a.done, a.merge)
  BY DEF AgentStates, Record

\* An agent whose transfer has ended.
Arrived(a) == [a EXCEPT !.xfer.state = "done"]

\* The transfer has ended.
LEMMA TransferRecord ==
    ASSUME NEW a \in AgentStates, NEW b, b = Arrived(a)
    PROVE  b = Record(a.phase, a.side, a.op, a.keys, a.meta, a.ahead,
                      [a.xfer EXCEPT !.state = "done"], a.done, a.merge)
  BY DEF AgentStates, Record, Arrived

\* The buffers have swapped.
LEMMA SwappedRecord ==
    ASSUME NEW a \in AgentStates, NEW b, b = Swapped(a)
    PROVE  b = Record("top", 1 - a.side, 0, a.keys, a.ahead, a.ahead, NoTransfer,
                      0, a.merge)
  BY DEF AgentStates, Record, Swapped

\* One chunk more is handed on.
LEMMA AdvancedRecord ==
    ASSUME NEW a \in AgentStates, NEW d, NEW g,
           NEW b, b = [a EXCEPT !.done = d, !.merge = g]
    PROVE  b = Record(a.phase, a.side, a.op, a.keys, a.meta, a.ahead, a.xfer, d, g)
  BY DEF AgentStates, Record

\* The agent is done.
LEMMA DoneRecord ==
    ASSUME NEW a \in AgentStates, NEW b, b = [a EXCEPT !.phase = "done", !.op = 0]
    PROVE  b = Record("done", a.side, 0, a.keys, a.meta, a.ahead, a.xfer, a.done, a.merge)
  BY DEF AgentStates, Record

\* A worker begins to read the bucket on offer: values.
LEMMA ReadBegun ==
    ASSUME NEW a \in AgentStates, NEW b, NEW st, NEW m \in Offers,
           PhaseOK(a, st), SideOK(a, st), ChunksOK(a), a.phase \in {"first", "next"},
           GoodBucket(m.meta), Begins(m.meta.bucket_meta, ReadTo(a)),
           b = Record(IF a.phase = "first" THEN "reading" ELSE "yield", a.side, a.op, a.keys,
                      a.meta, m.meta, [state |-> "running", src |-> m.side, key |-> m.key],
                      a.done, a.merge)
    PROVE  /\ b \in AgentStates /\ b.op = a.op /\ OfferSide(b) = OfferSide(a)
           /\ b.phase # "fill" /\ b.side = a.side
           /\ b.xfer.state = "running" /\ b.xfer.src = m.side /\ b.xfer.key = m.key
           /\ ReadTo(b) = EndOf(m.meta.bucket_meta)
           /\ PhaseOK(b, st) /\ SideOK(b, st) /\ ChunksOK(b)
           /\ \A e : HandOK(a, e) => HandOK(b, e)
<1> DEFINE ph == IF a.phase = "first" THEN "reading" ELSE "yield"
           x == [state |-> "running", src |-> m.side, key |-> m.key]
<1>1. m.meta \in Metas /\ m.side \in {0, 1} /\ m.key \in Nat
  BY DEF Offers
<1>2. x \in Transfers /\ x.state = "running" /\ x.src = m.side /\ x.key = m.key
  BY <1>1 DEF Transfers
<1>3. ph \in Phases /\ ph \in {"reading", "yield"} /\ (ph = "reading" <=> a.phase = "first")
  BY DEF Phases
<1> HIDE DEF ph, x
<1>4. b = Record(ph, a.side, a.op, a.keys, a.meta, m.meta, x, a.done, a.merge)
  BY DEF ph, x
<1>5. /\ b \in AgentStates
      /\ b.phase = ph /\ b.side = a.side /\ b.op = a.op /\ b.keys = a.keys
      /\ b.meta = a.meta /\ b.ahead = m.meta /\ b.xfer = x /\ b.done = a.done
      /\ b.merge = a.merge
  <2>1. /\ a.side \in {0, 1} /\ a.op \in Nat /\ a.keys \in Nat /\ a.meta \in Metas
        /\ a.done \in Nat /\ a.merge \in Merges
    BY Fields
  <2>2. QED
    BY <1>1, <1>2, <1>3, <1>4, <2>1 DEF AgentStates, Record
<1>6. b.xfer.state = "running" /\ a.xfer.state = "none"
  BY <1>2, <1>5 DEF PhaseOK
<1>7. HandedTo(b) = HandedTo(a) /\ ReadTo(a) = HandedTo(a)
  BY <1>3, <1>5, <1>6 DEF HandedTo, ReadTo
<1>8. ReadTo(b) = EndOf(m.meta.bucket_meta)
  BY <1>5, <1>6 DEF ReadTo
<1>9. PhaseOK(b, st)
  BY <1>3, <1>5, <1>6 DEF PhaseOK
<1>10. SideOK(b, st)
  BY <1>5, Zenon DEF SideOK
<1>11. ChunksOK(b)
  <2>1. InHand(b) => InHand(a) /\ MergeAt(b) = MergeAt(a)
    BY <1>3, <1>5 DEF InHand, MergeAt
  <2>2. b.phase \in {"first", "reading"} => Agrees(b.merge, FirstPos)
    BY <1>3, <1>5 DEF ChunksOK
  <2>3. InHand(b) => /\ GoodBucket(b.meta) /\ b.done <= Len(b.meta.bucket_meta)
                     /\ b.meta.bucket_meta # <<>> => Agrees(b.merge, MergeAt(b))
    BY <1>5, <2>1, Zenon DEF ChunksOK
  <2>4. GoodBucket(b.ahead) /\ Begins(b.ahead.bucket_meta, HandedTo(b))
    BY <1>5, <1>7, Zenon
  <2>5. QED
    BY <2>2, <2>3, <2>4, Zenon DEF ChunksOK
<1>12. ASSUME NEW e, HandOK(a, e) PROVE HandOK(b, e)
  BY <1>3, <1>5, <1>12 DEF HandOK, PhaseOK
<1>13. OfferSide(b) = OfferSide(a) /\ b.phase # "fill"
  BY <1>3, <1>5 DEF OfferSide
<1>14. QED
  BY <1>2, <1>5, <1>8, <1>9, <1>10, <1>11, <1>12, <1>13, Zenon

\* read_metadata and begin_read: the offer becomes a transfer.
LEMMA BeginReadStep ==
    ASSUME ChainIInv, NEW i \in Workers, BeginRead(i)
    PROVE  ChainIInv'
<1> DEFINE a == agent[i]
           m == Head(inbox[i])
           b == [a EXCEPT !.phase = IF a.phase = "first" THEN "reading" ELSE "yield",
                          !.ahead = m.meta,
                          !.xfer = [state |-> "running", src |-> m.side, key |-> m.key]]
<1>1. /\ a.phase \in {"first", "next"} /\ inbox[i] # <<>>
      /\ agent' = [agent EXCEPT
             ![i].phase = IF a.phase = "first" THEN "reading" ELSE "yield",
             ![i].ahead = m.meta,
             ![i].xfer = [state |-> "running", src |-> m.side, key |-> m.key]]
      /\ inbox' = [inbox EXCEPT ![i] = Tail(inbox[i])]
      /\ UNCHANGED <<weights, workers, stage, version, peers, fill, notifications, stream>>
  BY DEF BeginRead
<1>2. i \in Agents /\ i # 0 /\ i \in Int /\ i - 1 \in Agents /\ i - 1 # i
  BY WorkerIsAgent
<1>3. stage = "update"
  BY <1>1, <1>2, BusyInUpdate
<1>4. /\ i <= workers /\ a \in AgentStates /\ inbox[i] \in Seq(Offers)
      /\ WorkerOK(i) /\ LinkOK(i - 1) /\ (i # workers => i + 1 \in Agents /\ LinkOK(i))
  BY <1>2, <1>3, AgentFacts
<1>5. /\ workers \in Nat /\ workers > 1 /\ EndsOK /\ Types /\ FillInv /\ fill \in FillStates
      /\ agent \in [Agents -> AgentStates] /\ inbox \in [Agents -> Seq(Offers)]
      /\ notifications \in [Agents -> Seq(Nat)] /\ stream \in [Agents -> Seq(Copies)]
      /\ 0 \in Agents
  BY <1>3, UpdateFacts
<1>6. m \in Offers /\ m = inbox[i][1] /\ Tail(inbox[i]) \in Seq(Offers)
      /\ Len(Tail(inbox[i])) = Len(inbox[i]) - 1
  BY <1>1, <1>4, TailFacts
<1>7. agent' = [agent EXCEPT ![i] = b]
  BY <1>1, <1>2, <1>5
<1>8. b = Record(IF a.phase = "first" THEN "reading" ELSE "yield", a.side, a.op, a.keys,
                 a.meta, m.meta, [state |-> "running", src |-> m.side, key |-> m.key],
                 a.done, a.merge)
  BY <1>4, ReadingRecord
<1>9. i = (i - 1) + 1 /\ inbox[(i - 1) + 1] = inbox[i] /\ agent[(i - 1) + 1] = a
  BY <1>2
<1>10. /\ OperationOK(agent[i - 1], a, inbox[i], notifications[i - 1])
       /\ OfferOK(a, inbox[i])
       /\ FillOK(agent[i - 1], fill, OfferedTo(a, inbox[i]))
       /\ HandOK(agent[i - 1], OfferedTo(a, inbox[i]))
  BY <1>4, <1>9, Zenon DEF LinkOK
<1>11. GoodBucket(m.meta) /\ Begins(m.meta.bucket_meta, ReadTo(a))
  BY <1>1, <1>6, <1>10, Zenon DEF OfferOK
<1> HIDE DEF a, b, m
<1>12. PhaseOK(a, stream[i]) /\ SideOK(a, stream[i]) /\ ChunksOK(a)
  BY <1>4 DEF WorkerOK, a
<1>13. /\ b \in AgentStates /\ b.op = a.op /\ OfferSide(b) = OfferSide(a)
       /\ b.phase # "fill"
       /\ b.xfer.state = "running" /\ b.xfer.src = m.side /\ b.xfer.key = m.key
       /\ ReadTo(b) = EndOf(m.meta.bucket_meta)
       /\ PhaseOK(b, stream[i]) /\ SideOK(b, stream[i]) /\ ChunksOK(b)
       /\ \A e : HandOK(a, e) => HandOK(b, e)
  BY <1>1, <1>4, <1>6, <1>8, <1>11, <1>12, ReadBegun, SMTT(60)
<1>14. /\ agent' \in [Agents -> AgentStates] /\ agent'[i] = b
       /\ \A k \in Agents \ {i} : agent'[k] = agent[k]
  BY <1>2, <1>5, <1>7, <1>13, OneChanges
<1>15. /\ inbox' \in [Agents -> Seq(Offers)] /\ inbox'[i] = Tail(inbox[i])
       /\ \A k \in Agents \ {i} : inbox'[k] = inbox[k]
  BY <1>1, <1>2, <1>5, <1>6
<1>16. Types'
  BY <1>1, <1>5, <1>14, <1>15, TypesKept
<1>17. EndsOK'
  <2>1. inbox'[0] = inbox[0]
    BY <1>2, <1>5, <1>15
  <2>2. agent'[workers].op = agent[workers].op
    <3>1. CASE i = workers
      BY <1>13, <1>14, <3>1 DEF a
    <3>2. CASE i # workers
      <4>1. workers \in Agents
        BY <1>5 DEF Agents
      <4>2. QED
        BY <1>14, <3>2, <4>1
    <3>3. QED
      BY <3>1, <3>2
  <2>3. QED
    BY <1>1, <1>5, <2>1, <2>2, EndsKept
<1>18. WorkerOK(i)'
  BY <1>1, <1>13, <1>14 DEF WorkerOK
<1>19. LinkOK(i - 1)'
  <2>1. Waiting(agent[i - 1], a, inbox[i], notifications[i - 1]) /\ agent[i - 1].op # 0
    BY <1>1, <1>10 DEF OperationOK, Untouched, Running, Notified
  <2>2. inbox'[i] = <<>>
    <3>1. Len(Tail(inbox[i])) = 0
      BY <1>6, <2>1 DEF Waiting
    <3>2. QED
      BY <1>6, <1>15, <3>1, EmptyFacts
  <2>3. Running(agent[i - 1], b, inbox'[i], notifications[i - 1])
    BY <1>6, <1>13, <2>1, <2>2 DEF Waiting, Running
  <2>4. OperationOK(agent[i - 1], b, inbox'[i], notifications[i - 1])
    BY <2>1, <2>3 DEF OperationOK
  <2>5. OfferOK(b, inbox'[i])
    BY <2>2 DEF OfferOK
  <2>6. OfferedTo(b, inbox'[i]) = OfferedTo(a, inbox[i])
    BY <1>1, <1>6, <1>13, <2>2 DEF OfferedTo
  <2>7. agent'[i - 1] = agent[i - 1] /\ agent'[(i - 1) + 1] = b
        /\ inbox'[(i - 1) + 1] = inbox'[i]
    BY <1>2, <1>9, <1>14
  <2>8. QED
    BY <1>1, <1>10, <2>4, <2>5, <2>6, <2>7, Zenon DEF LinkOK
<1>20. ASSUME i # workers PROVE LinkOK(i)'
  <2>1. i + 1 \in Agents /\ i + 1 # i /\ LinkOK(i)
    BY <1>2, <1>4, <1>20
  <2>2. agent'[i + 1] = agent[i + 1] /\ inbox'[i + 1] = inbox[i + 1]
    BY <1>14, <1>15, <2>1
  <2>3. HandOK(a, OfferedTo(agent[i + 1], inbox[i + 1]))
    BY <2>1 DEF LinkOK, a
  <2>4. HandOK(b, OfferedTo(agent[i + 1], inbox[i + 1]))
    BY <1>13, <2>3
  <2>5. QED
    BY <1>1, <1>13, <1>14, <2>1, <2>2, <2>4, OutLink DEF a
<1>21. FillInv'
  BY <1>1, <1>5, Zenon DEF FillInv
<1>22. QED
  BY <1>1, <1>2, <1>3, <1>14, <1>15, <1>16, <1>17, <1>18, <1>19, <1>20, <1>21, AgentFrame

\* What a worker can rely on when it takes a step.
LEMMA WorkerStart ==
    ASSUME ChainIInv, NEW i \in Workers,
           agent[i].phase # "done" \/ stream[i] # <<>> \/ agent[i].xfer.state # "none"
    PROVE  /\ stage = "update" /\ i \in Agents /\ i # 0 /\ i \in Int
           /\ i - 1 \in Agents /\ i - 1 # i /\ (i - 1) + 1 = i /\ i - 1 \in 0..workers - 1
           /\ agent[i] \in AgentStates /\ stream[i] \in Seq(Copies)
           /\ PhaseOK(agent[i], stream[i]) /\ SideOK(agent[i], stream[i])
           /\ ChunksOK(agent[i]) /\ LinkOK(i - 1)
           /\ i # workers => i + 1 \in Agents /\ i + 1 # i /\ LinkOK(i)
           /\ i = workers => agent[i].op = 0 /\ notifications[i] = <<>>
           /\ Types /\ FillInv /\ fill \in FillStates /\ EndsOK
           /\ agent \in [Agents -> AgentStates] /\ inbox \in [Agents -> Seq(Offers)]
           /\ notifications \in [Agents -> Seq(Nat)] /\ stream \in [Agents -> Seq(Copies)]
           /\ workers \in Nat /\ ChainOK
<1>1. i \in Agents /\ i # 0 /\ i \in Int /\ i - 1 \in Agents /\ i - 1 # i
  BY WorkerIsAgent
<1>2. stage = "update"
  BY <1>1, BusyInUpdate
<1>3. /\ agent[i] \in AgentStates /\ stream[i] \in Seq(Copies)
      /\ WorkerOK(i) /\ LinkOK(i - 1) /\ (i # workers => i + 1 \in Agents /\ LinkOK(i))
  BY <1>1, <1>2, AgentFacts
<1>4. /\ Types /\ FillInv /\ fill \in FillStates /\ EndsOK
      /\ agent \in [Agents -> AgentStates] /\ inbox \in [Agents -> Seq(Offers)]
      /\ notifications \in [Agents -> Seq(Nat)] /\ stream \in [Agents -> Seq(Copies)]
      /\ workers \in Nat /\ ChainOK /\ Workers = 1..workers
  BY <1>2, UpdateFacts
<1>5. (i - 1) + 1 = i /\ i + 1 # i
  BY <1>1
<1>6. i = workers => agent[i].op = 0 /\ notifications[i] = <<>>
  BY <1>4, Zenon DEF EndsOK
<1>7. i - 1 \in 0..workers - 1
  BY <1>4
<1>8. QED
  BY <1>1, <1>2, <1>3, <1>4, <1>5, <1>6, <1>7, Zenon DEF WorkerOK

\* A step of worker i that sends nothing to the next agent.
LEMMA WorkerStep ==
    ASSUME ChainIInv, stage = "update", NEW i \in Workers,
           UNCHANGED <<weights, workers, stage, version, peers, fill, inbox>>,
           agent' \in [Agents -> AgentStates], stream' \in [Agents -> Seq(Copies)],
           notifications' \in [Agents -> Seq(Nat)],
           \A k \in Agents \ {i} : agent'[k] = agent[k] /\ stream'[k] = stream[k],
           \A k \in Agents \ {i, i - 1} : notifications'[k] = notifications[k],
           i = workers => agent'[i].op = 0 /\ notifications'[i] = <<>>,
           PhaseOK(agent'[i], stream'[i]), SideOK(agent'[i], stream'[i]),
           ChunksOK(agent'[i]), LinkOK(i - 1)', i # workers => LinkOK(i)'
    PROVE  ChainIInv'
<1>1. /\ workers \in Nat /\ Workers = 1..workers /\ Agents = 0..workers /\ EndsOK
      /\ Types /\ FillInv /\ fill \in FillStates /\ inbox \in [Agents -> Seq(Offers)]
  BY UpdateFacts
<1>2. i \in Agents /\ i # 0 /\ i - 1 # workers /\ workers \in Agents
  BY <1>1
<1>3. Types'
  BY <1>1, TypesKept
<1>4. FillInv'
  BY <1>1, Zenon DEF FillInv
<1>5. EndsOK'
  <2>1. CASE i = workers
    BY <1>1, <2>1, Zenon DEF EndsOK
  <2>2. CASE i # workers
    <3>1. agent'[workers] = agent[workers] /\ notifications'[workers] = notifications[workers]
      BY <1>2, <2>2
    <3>2. QED
      BY <1>1, <3>1, Zenon DEF EndsOK
  <2>3. QED
    BY <2>1, <2>2
<1>6. WorkerOK(i)'
  BY Zenon DEF WorkerOK
<1>7. \A k \in Agents \ {i, i + 1} : inbox'[k] = inbox[k]
  OBVIOUS
<1>8. QED
  BY <1>2, <1>3, <1>4, <1>5, <1>6, <1>7, AgentFrame

\* The buffers swap once the transfer is done, the copies are done and the
\* bucket in hand is handed on.
LEMMA SwapFacts ==
    ASSUME NEW a \in AgentStates, NEW b, b = Swapped(a), a.xfer.state = "done",
           ChunksOK(a), Agrees(a.merge, HandedTo(a))
    PROVE  /\ b \in AgentStates /\ b.op = 0 /\ b.phase = "top" /\ b.xfer.state = "none"
           /\ b.side = 1 - a.side /\ b.meta = a.ahead /\ b.done = 0 /\ b.merge = a.merge
           /\ ReadTo(b) = ReadTo(a) /\ PhaseOK(b, <<>>) /\ SideOK(b, <<>>) /\ ChunksOK(b)
           /\ HandOK(b, HandedTo(a))
<1>1. b = Record("top", 1 - a.side, 0, a.keys, a.ahead, a.ahead, NoTransfer, 0, a.merge)
  BY SwappedRecord
<1>2. /\ a.side \in {0, 1} /\ a.keys \in Nat /\ a.ahead \in Metas /\ a.merge \in Merges
      /\ a.ahead.bucket_meta \in Seq(Chunks)
  BY Fields
<1>3. 1 - a.side \in {0, 1} /\ NoTransfer \in Transfers /\ NoTransfer.state = "none"
  BY <1>2 DEF NoTransfer, Transfers
<1>4. /\ b \in AgentStates
      /\ b.phase = "top" /\ b.side = 1 - a.side /\ b.op = 0 /\ b.meta = a.ahead
      /\ b.ahead = a.ahead /\ b.xfer = NoTransfer /\ b.done = 0 /\ b.merge = a.merge
  BY <1>1, <1>2, <1>3 DEF AgentStates, Record, Phases
<1>5. GoodBucket(a.ahead) /\ Begins(a.ahead.bucket_meta, HandedTo(a))
  BY DEF ChunksOK
<1>6. ReadTo(b) = ReadTo(a)
  BY <1>3, <1>4 DEF ReadTo, HandedTo
<1>7. PhaseOK(b, <<>>) /\ SideOK(b, <<>>)
  BY <1>3, <1>4 DEF PhaseOK, SideOK
<1>8. HandOK(b, HandedTo(a))
  BY <1>4, <1>5 DEF HandOK
<1>9. ChunksOK(b)
  <2>1. b.meta.bucket_meta # <<>> => MergeAt(b) = HandedTo(a)
    BY <1>2, <1>4, <1>5 DEF MergeAt, Begins
  <2>2. b.done <= Len(b.meta.bucket_meta)
    BY <1>2, <1>4
  <2>3. GoodBucket(b.meta) /\ (b.meta.bucket_meta # <<>> => Agrees(b.merge, MergeAt(b)))
    BY <1>4, <1>5, <2>1, Zenon
  <2>4. b.xfer.state = "none" /\ b.phase \notin {"first", "reading"}
    BY <1>3, <1>4
  <2>5. QED
    BY <2>2, <2>3, <2>4 DEF ChunksOK
<1>10. QED
  BY <1>3, <1>4, <1>6, <1>7, <1>8, <1>9

\* wait_for_complete: the one notification there can be is gone.
Awaited(o, n, r) == (o = 0 /\ r = n) \/ (o # 0 /\ n # <<>> /\ r = Tail(n))

\* It leaves the others alone.
LEMMA AwaitFacts ==
    ASSUME NEW i \in Agents, notifications \in [Agents -> Seq(Nat)], AwaitRead(i)
    PROVE  /\ notifications' \in [Agents -> Seq(Nat)]
           /\ Awaited(agent[i].op, notifications[i], notifications'[i])
           /\ \A k \in Agents \ {i} : notifications'[k] = notifications[k]
<1>1. CASE agent[i].op = 0
  BY <1>1 DEF AwaitRead, Awaited
<1>2. CASE agent[i].op # 0
  <2>1. /\ notifications[i] # <<>>
        /\ notifications' = [notifications EXCEPT ![i] = Tail(notifications[i])]
    BY <1>2 DEF AwaitRead
  <2>2. Tail(notifications[i]) \in Seq(Nat)
    BY <2>1
  <2>3. QED
    BY <1>2, <2>1, <2>2 DEF Awaited
<1>3. QED
  BY <1>1, <1>2

\* After it nothing is on the link.
LEMMA AwaitedLink ==
    ASSUME NEW a, NEW b, NEW c, NEW q, NEW n \in Seq(Nat), NEW r,
           OperationOK(a, b, q, n), Awaited(a.op, n, r), c.op = 0
    PROVE  OperationOK(c, b, q, r) /\ q = <<>> /\ r = <<>> /\ b.xfer.state # "running"
<1>1. CASE a.op = 0
  BY <1>1 DEF OperationOK, Untouched, Awaited
<1>2. CASE a.op # 0
  <2>1. Notified(a, b, q, n)
    BY <1>2 DEF OperationOK, Waiting, Running, Awaited
  <2>2. r = Tail(n) /\ Len(n) = 1
    BY <1>2, <2>1 DEF Awaited, Notified
  <2>3. r = <<>>
    BY <2>2
  <2>4. QED
    BY <2>1, <2>3 DEF Notified, OperationOK, Untouched
<1>3. QED
  BY <1>1, <1>2

\* The link from a worker that has waited for its readable operation.
LEMMA AwaitedOut ==
    ASSUME NEW k, LinkOK(k), agent'[k + 1] = agent[k + 1], inbox'[k + 1] = inbox[k + 1],
           notifications[k] \in Seq(Nat), agent'[k].op = 0, agent'[k].phase # "fill",
           Awaited(agent[k].op, notifications[k], notifications'[k]),
           HandOK(agent'[k], OfferedTo(agent[k + 1], inbox[k + 1]))
    PROVE  LinkOK(k)'
<1>1. OperationOK(agent[k], agent[k + 1], inbox[k + 1], notifications[k])
      /\ OfferOK(agent[k + 1], inbox[k + 1])
  BY DEF LinkOK
<1>2. OperationOK(agent'[k], agent[k + 1], inbox[k + 1], notifications'[k])
  <2> DEFINE a == agent[k]
             b == agent[k + 1]
             c == agent'[k]
             q == inbox[k + 1]
             n == notifications[k]
             r == notifications'[k]
  <2>1. OperationOK(a, b, q, n) /\ Awaited(a.op, n, r) /\ c.op = 0 /\ n \in Seq(Nat)
    BY <1>1
  <2> HIDE DEF a, b, c, q, n, r
  <2>2. OperationOK(c, b, q, r)
    BY <2>1, AwaitedLink, ZenonT(60)
  <2>3. QED
    BY <2>2 DEF a, b, c, q, n, r
<1>3. FillOK(agent'[k], fill', OfferedTo(agent[k + 1], inbox[k + 1]))
  BY DEF FillOK
<1>4. QED
  BY <1>1, <1>2, <1>3, Zenon DEF LinkOK

\* The first bucket has arrived.
LEMMA FirstBucketStep ==
    ASSUME ChainIInv, NEW i \in Workers, FirstBucket(i)
    PROVE  ChainIInv'
<1> DEFINE a == agent[i]
           b == Swapped(a)
<1>1. /\ a.phase = "reading" /\ a.xfer.state = "done"
      /\ agent' = [agent EXCEPT ![i] = b]
      /\ UNCHANGED <<weights, workers, stage, version, peers, fill, inbox, notifications,
                     stream>>
  BY DEF FirstBucket
<1>2. /\ stage = "update" /\ i \in Agents /\ i # 0 /\ i \in Int
      /\ i - 1 \in Agents /\ i - 1 # i /\ (i - 1) + 1 = i
      /\ a \in AgentStates /\ PhaseOK(a, stream[i]) /\ ChunksOK(a) /\ LinkOK(i - 1)
      /\ i # workers => i + 1 \in Agents /\ i + 1 # i /\ LinkOK(i)
      /\ i = workers => a.op = 0 /\ notifications[i] = <<>>
      /\ agent \in [Agents -> AgentStates] /\ notifications \in [Agents -> Seq(Nat)]
      /\ stream \in [Agents -> Seq(Copies)]
  BY <1>1, WorkerStart
<1> HIDE DEF a, b
<1>3. Agrees(a.merge, HandedTo(a)) /\ HandedTo(a) = FirstPos
  BY <1>1, <1>2 DEF ChunksOK, HandedTo
<1>4. /\ b \in AgentStates /\ b.op = 0 /\ b.phase = "top" /\ b.xfer.state = "none"
      /\ ReadTo(b) = ReadTo(a) /\ PhaseOK(b, <<>>) /\ SideOK(b, <<>>) /\ ChunksOK(b)
      /\ HandOK(b, HandedTo(a))
  BY <1>1, <1>2, <1>3, SwapFacts DEF b
<1>5. /\ agent' \in [Agents -> AgentStates] /\ agent'[i] = b
      /\ \A k \in Agents \ {i} : agent'[k] = agent[k]
  BY <1>1, <1>2, <1>4, OneChanges
<1>6. stream[i] = <<>> /\ a.op = 0
  BY <1>1, <1>2 DEF PhaseOK
<1>7. LinkOK(i - 1)'
  <2>1. /\ agent'[i - 1] = agent[i - 1] /\ agent'[(i - 1) + 1] = b
        /\ agent[(i - 1) + 1] = a /\ inbox'[(i - 1) + 1] = inbox[(i - 1) + 1]
    BY <1>1, <1>2, <1>5 DEF a
  <2>2. a.xfer.state # "running" /\ b.xfer.state # "running"
    BY <1>1, <1>4
  <2>3. QED
    BY <1>1, <1>2, <1>4, <2>1, <2>2, InLink
<1>8. ASSUME i # workers PROVE LinkOK(i)'
  <2>1. agent'[i + 1] = agent[i + 1] /\ LinkOK(i)
    BY <1>2, <1>5, <1>8
  <2>2. OfferedTo(agent[i + 1], inbox[i + 1]) = FirstPos
    BY <1>1, <2>1 DEF LinkOK, HandOK, a
  <2>3. HandOK(agent'[i], OfferedTo(agent[i + 1], inbox[i + 1]))
    BY <1>3, <1>4, <1>5, <2>2
  <2>4. Awaited(agent[i].op, notifications[i], notifications'[i])
    BY <1>1, <1>6 DEF Awaited, a
  <2>5. agent'[i].op = 0 /\ agent'[i].phase # "fill" /\ notifications[i] \in Seq(Nat)
    BY <1>2, <1>4, <1>5
  <2>6. QED
    BY <1>1, <2>1, <2>3, <2>4, <2>5, AwaitedOut
<1>9. PhaseOK(agent'[i], stream'[i]) /\ SideOK(agent'[i], stream'[i]) /\ ChunksOK(agent'[i])
  BY <1>1, <1>4, <1>5, <1>6
<1>10. i = workers => agent'[i].op = 0 /\ notifications'[i] = <<>>
  BY <1>1, <1>2, <1>4, <1>5
<1>11. /\ stream' \in [Agents -> Seq(Copies)] /\ notifications' \in [Agents -> Seq(Nat)]
       /\ \A k \in Agents \ {i} : agent'[k] = agent[k] /\ stream'[k] = stream[k]
       /\ \A k \in Agents \ {i, i - 1} : notifications'[k] = notifications[k]
  BY <1>1, <1>2, <1>5
<1>12. QED
  BY <1>1, <1>2, <1>5, <1>7, <1>8, <1>9, <1>10, <1>11, WorkerStep

\* All of the bucket is handed on and read, and the next one has arrived.
LEMMA EndRoundStep ==
    ASSUME ChainIInv, NEW i \in Workers, EndRound(i)
    PROVE  ChainIInv'
<1> DEFINE a == agent[i]
           b == Swapped(a)
<1>1. /\ a.phase = "yield" /\ a.done = Len(a.meta.bucket_meta) /\ ~a.meta.is_last
      /\ AwaitRead(i) /\ a.xfer.state = "done" /\ stream[i] = <<>>
      /\ agent' = [agent EXCEPT ![i] = b]
      /\ UNCHANGED <<weights, workers, stage, version, peers, fill, inbox, stream>>
  BY DEF EndRound, Yielded, Synchronize
<1>2. /\ stage = "update" /\ i \in Agents /\ i # 0 /\ i \in Int
      /\ i - 1 \in Agents /\ i - 1 # i /\ (i - 1) + 1 = i
      /\ a \in AgentStates /\ PhaseOK(a, stream[i]) /\ ChunksOK(a) /\ LinkOK(i - 1)
      /\ i # workers => i + 1 \in Agents /\ i + 1 # i /\ LinkOK(i)
      /\ i = workers => a.op = 0 /\ notifications[i] = <<>>
      /\ agent \in [Agents -> AgentStates] /\ notifications \in [Agents -> Seq(Nat)]
      /\ stream \in [Agents -> Seq(Copies)]
  BY <1>1, WorkerStart
<1>3. /\ notifications' \in [Agents -> Seq(Nat)]
      /\ Awaited(a.op, notifications[i], notifications'[i])
      /\ \A k \in Agents \ {i} : notifications'[k] = notifications[k]
  BY <1>1, <1>2, AwaitFacts
<1> HIDE DEF a, b
<1>4. Agrees(a.merge, HandedTo(a)) /\ HandedTo(a) = EndOf(a.meta.bucket_meta)
  <2>1. HandedTo(a) = EndOf(a.meta.bucket_meta)
    BY <1>1 DEF HandedTo
  <2>2. InHand(a)
    BY <1>1 DEF InHand
  <2>3. a.meta.bucket_meta # <<>>
    BY <1>1, <1>2, <2>2 DEF ChunksOK, GoodBucket
  <2>4. a.done \in Nat /\ ~(a.done < Len(a.meta.bucket_meta))
    <3>1. a.done \in Nat
      BY <1>2, Fields, Zenon
    <3>2. QED
      BY <1>1, <3>1
  <2>5. MergeAt(a) = EndOf(a.meta.bucket_meta)
    BY <2>4 DEF MergeAt
  <2>6. QED
    BY <1>2, <2>1, <2>2, <2>3, <2>5 DEF ChunksOK
<1>5. /\ b \in AgentStates /\ b.op = 0 /\ b.phase = "top" /\ b.xfer.state = "none"
      /\ ReadTo(b) = ReadTo(a) /\ PhaseOK(b, <<>>) /\ SideOK(b, <<>>) /\ ChunksOK(b)
      /\ HandOK(b, HandedTo(a))
  BY <1>1, <1>2, <1>4, SwapFacts, SMTT(30) DEF b
<1>6. /\ agent' \in [Agents -> AgentStates] /\ agent'[i] = b
      /\ \A k \in Agents \ {i} : agent'[k] = agent[k]
  BY <1>1, <1>2, <1>5, OneChanges
<1>7. LinkOK(i - 1)'
  <2>1. /\ agent'[i - 1] = agent[i - 1] /\ agent'[(i - 1) + 1] = b
        /\ agent[(i - 1) + 1] = a /\ inbox'[(i - 1) + 1] = inbox[(i - 1) + 1]
        /\ notifications'[i - 1] = notifications[i - 1]
    BY <1>1, <1>2, <1>3, <1>6 DEF a
  <2>2. a.xfer.state # "running" /\ b.xfer.state # "running"
    BY <1>1, <1>5
  <2>3. QED
    BY <1>1, <1>2, <1>5, <2>1, <2>2, InLink
<1>8. ASSUME i # workers PROVE LinkOK(i)'
  <2>1. agent'[i + 1] = agent[i + 1] /\ LinkOK(i)
    BY <1>2, <1>6, <1>8
  <2>2. OfferedTo(agent[i + 1], inbox[i + 1]) = EndOf(a.meta.bucket_meta)
    BY <1>1, <2>1 DEF LinkOK, HandOK, a
  <2>3. HandOK(agent'[i], OfferedTo(agent[i + 1], inbox[i + 1]))
    BY <1>4, <1>5, <1>6, <2>2
  <2>4. agent'[i].op = 0 /\ agent'[i].phase # "fill" /\ notifications[i] \in Seq(Nat)
    BY <1>2, <1>5, <1>6
  <2>5. QED
    BY <1>1, <1>3, <2>1, <2>3, <2>4, AwaitedOut DEF a
<1>9. PhaseOK(agent'[i], stream'[i]) /\ SideOK(agent'[i], stream'[i]) /\ ChunksOK(agent'[i])
  BY <1>1, <1>5, <1>6
<1>10. i = workers => agent'[i].op = 0 /\ notifications'[i] = <<>>
  BY <1>2, <1>3, <1>5, <1>6 DEF Awaited
<1>11. /\ stream' \in [Agents -> Seq(Copies)]
       /\ \A k \in Agents \ {i} : agent'[k] = agent[k] /\ stream'[k] = stream[k]
       /\ \A k \in Agents \ {i, i - 1} : notifications'[k] = notifications[k]
  BY <1>1, <1>2, <1>3, <1>6
<1>12. QED
  BY <1>1, <1>2, <1>3, <1>6, <1>7, <1>8, <1>9, <1>10, <1>11, WorkerStep

\* The last bucket is handed on and read.
LEMMA FinishReceiveStep ==
    ASSUME ChainIInv, NEW i \in Workers, FinishReceive(i)
    PROVE  ChainIInv'
<1> DEFINE a == agent[i]
           b == [a EXCEPT !.phase = "done", !.op = 0]
<1>1. /\ a.phase = "yield" /\ a.meta.is_last /\ AwaitRead(i) /\ stream[i] = <<>>
      /\ agent' = [agent EXCEPT ![i].phase = "done", ![i].op = 0]
      /\ UNCHANGED <<weights, workers, stage, version, peers, fill, inbox, stream>>
  BY DEF FinishReceive, Yielded
<1>2. /\ stage = "update" /\ i \in Agents /\ i # 0 /\ i \in Int
      /\ i - 1 \in Agents /\ i - 1 # i /\ (i - 1) + 1 = i
      /\ a \in AgentStates /\ PhaseOK(a, stream[i]) /\ ChunksOK(a) /\ LinkOK(i - 1)
      /\ i # workers => i + 1 \in Agents /\ i + 1 # i /\ LinkOK(i)
      /\ i = workers => a.op = 0 /\ notifications[i] = <<>>
      /\ agent \in [Agents -> AgentStates] /\ notifications \in [Agents -> Seq(Nat)]
      /\ stream \in [Agents -> Seq(Copies)]
  BY <1>1, WorkerStart
<1>3. /\ notifications' \in [Agents -> Seq(Nat)]
      /\ Awaited(a.op, notifications[i], notifications'[i])
      /\ \A k \in Agents \ {i} : notifications'[k] = notifications[k]
  BY <1>1, <1>2, AwaitFacts
<1>4. agent' = [agent EXCEPT ![i] = b]
  BY <1>1, <1>2
<1>5. b = Record("done", a.side, 0, a.keys, a.meta, a.ahead, a.xfer, a.done, a.merge)
  BY <1>2, DoneRecord
<1> HIDE DEF a, b
<1>6. /\ b \in AgentStates /\ b.phase = "done" /\ b.op = 0 /\ b.meta = a.meta
      /\ b.xfer = a.xfer
  <2>1. /\ a.side \in {0, 1} /\ a.keys \in Nat /\ a.meta \in Metas /\ a.ahead \in Metas
        /\ a.xfer \in Transfers /\ a.done \in Nat /\ a.merge \in Merges
    BY <1>2, Fields
  <2>2. QED
    BY <1>5, <2>1 DEF AgentStates, Record, Phases
<1>7. a.xfer.state = "none" /\ b.xfer.state = "none"
  BY <1>1, <1>2, <1>6 DEF PhaseOK
<1>8. ReadTo(b) = ReadTo(a)
  BY <1>1, <1>6, <1>7 DEF ReadTo, HandedTo
<1>9. PhaseOK(b, <<>>) /\ SideOK(b, <<>>) /\ ChunksOK(b) /\ \A e : HandOK(b, e)
  BY <1>6, <1>7 DEF PhaseOK, SideOK, ChunksOK, HandOK, InHand
<1>10. /\ agent' \in [Agents -> AgentStates] /\ agent'[i] = b
       /\ \A k \in Agents \ {i} : agent'[k] = agent[k]
  BY <1>2, <1>4, <1>6, OneChanges
<1>11. LinkOK(i - 1)'
  <2>1. /\ agent'[i - 1] = agent[i - 1] /\ agent'[(i - 1) + 1] = b
        /\ agent[(i - 1) + 1] = a /\ inbox'[(i - 1) + 1] = inbox[(i - 1) + 1]
        /\ notifications'[i - 1] = notifications[i - 1]
    BY <1>1, <1>2, <1>3, <1>10 DEF a
  <2>2. QED
    BY <1>1, <1>2, <1>6, <1>8, <2>1, InLink, ZenonT(60)
<1>12. ASSUME i # workers PROVE LinkOK(i)'
  <2>1. agent'[i + 1] = agent[i + 1] /\ LinkOK(i)
    BY <1>2, <1>10, <1>12
  <2>2. HandOK(agent'[i], OfferedTo(agent[i + 1], inbox[i + 1]))
    BY <1>9, <1>10
  <2>3. agent'[i].op = 0 /\ agent'[i].phase # "fill" /\ notifications[i] \in Seq(Nat)
    BY <1>2, <1>6, <1>10
  <2>4. QED
    BY <1>1, <1>3, <2>1, <2>2, <2>3, AwaitedOut DEF a
<1>13. PhaseOK(agent'[i], stream'[i]) /\ SideOK(agent'[i], stream'[i]) /\ ChunksOK(agent'[i])
  BY <1>1, <1>9, <1>10
<1>14. i = workers => agent'[i].op = 0 /\ notifications'[i] = <<>>
  BY <1>2, <1>3, <1>6, <1>10 DEF Awaited
<1>15. /\ stream' \in [Agents -> Seq(Copies)]
       /\ \A k \in Agents \ {i} : agent'[k] = agent[k] /\ stream'[k] = stream[k]
       /\ \A k \in Agents \ {i, i - 1} : notifications'[k] = notifications[k]
  BY <1>1, <1>2, <1>3, <1>10
<1>16. QED
  BY <1>1, <1>2, <1>3, <1>10, <1>11, <1>12, <1>13, <1>14, <1>15, WorkerStep

\* A finished transfer: values.
LEMMA TransferEnded ==
    ASSUME NEW a \in AgentStates, NEW st, NEW b, b = Arrived(a),
           a.xfer.state = "running", PhaseOK(a, st), SideOK(a, st), ChunksOK(a)
    PROVE  /\ b \in AgentStates /\ b.phase = a.phase /\ b.op = a.op /\ b.side = a.side
           /\ b.meta = a.meta /\ b.ahead = a.ahead /\ b.done = a.done /\ b.merge = a.merge
           /\ b.xfer.state = "done" /\ ReadTo(b) = ReadTo(a)
           /\ PhaseOK(b, st) /\ SideOK(b, st) /\ ChunksOK(b)
           /\ \A e : HandOK(a, e) => HandOK(b, e)
<1> DEFINE x == [a.xfer EXCEPT !.state = "done"]
<1>1. b = Record(a.phase, a.side, a.op, a.keys, a.meta, a.ahead, x, a.done, a.merge)
  BY TransferRecord
<1>2. /\ a.phase \in Phases /\ a.side \in {0, 1} /\ a.op \in Nat /\ a.keys \in Nat
      /\ a.meta \in Metas /\ a.ahead \in Metas /\ a.xfer \in Transfers
      /\ a.done \in Nat /\ a.merge \in Merges
  BY Fields
<1>3. x \in Transfers /\ x.state = "done"
  BY <1>2 DEF Transfers
<1> HIDE DEF x
<1>4. /\ b \in AgentStates
      /\ b.phase = a.phase /\ b.op = a.op /\ b.side = a.side /\ b.meta = a.meta
      /\ b.ahead = a.ahead /\ b.done = a.done /\ b.merge = a.merge /\ b.xfer = x
  BY <1>1, <1>2, <1>3 DEF AgentStates, Record
<1>5. HandedTo(b) = HandedTo(a) /\ ReadTo(b) = ReadTo(a) /\ MergeAt(b) = MergeAt(a)
      /\ (InHand(b) <=> InHand(a))
  BY <1>3, <1>4 DEF HandedTo, ReadTo, MergeAt, InHand
<1>6. PhaseOK(b, st)
  BY <1>3, <1>4 DEF PhaseOK
<1>7. SideOK(b, st) /\ \A e : HandOK(a, e) => HandOK(b, e)
  BY <1>4, Zenon DEF SideOK, HandOK
<1>8. ChunksOK(b)
  <2>1. GoodBucket(a.ahead) /\ Begins(a.ahead.bucket_meta, HandedTo(a))
    BY DEF ChunksOK
  <2>2. QED
    BY <1>4, <1>5, <2>1, Zenon DEF ChunksOK
<1>9. QED
  BY <1>3, <1>4, <1>5, <1>6, <1>7, <1>8

\* NIXL ends a transfer and notifies the agent that was read.
LEMMA EndTransferStep ==
    ASSUME ChainIInv, NEW i \in Workers, EndTransfer(i)
    PROVE  ChainIInv'
<1> DEFINE a == agent[i]
           b == Arrived(a)
           n == notifications[i - 1]
<1>0. a.xfer.state = "running"
  BY DEF EndTransfer
<1>1. /\ stage = "update" /\ i \in Agents /\ i # 0 /\ i \in Int
      /\ i - 1 \in Agents /\ i - 1 # i /\ (i - 1) + 1 = i /\ i - 1 \in 0..workers - 1
      /\ a \in AgentStates /\ PhaseOK(a, stream[i]) /\ SideOK(a, stream[i])
      /\ ChunksOK(a) /\ LinkOK(i - 1)
      /\ i # workers => i + 1 \in Agents /\ i + 1 # i /\ LinkOK(i)
      /\ i = workers => a.op = 0 /\ notifications[i] = <<>>
      /\ agent \in [Agents -> AgentStates] /\ notifications \in [Agents -> Seq(Nat)]
      /\ stream \in [Agents -> Seq(Copies)] /\ workers \in Nat /\ ChainOK
  BY <1>0, WorkerStart
<1>2. peers.prev[i] = i - 1
  <2>1. peers.prev[(i - 1) + 1] = i - 1
    BY <1>1 DEF ChainOK
  <2>2. QED
    BY <1>1, <2>1
<1>3. /\ notifications' = [notifications EXCEPT ![i - 1] = Append(n, a.xfer.key)]
      /\ agent' = [agent EXCEPT ![i].xfer.state = "done"]
      /\ UNCHANGED <<weights, workers, stage, version, peers, fill, inbox, stream>>
  BY <1>2 DEF EndTransfer
<1>4. agent' = [agent EXCEPT ![i] = b]
  BY <1>1, <1>3 DEF Arrived
<1>5. /\ b \in AgentStates /\ b.phase = a.phase /\ b.op = a.op /\ b.side = a.side
      /\ b.xfer.state = "done" /\ ReadTo(b) = ReadTo(a)
      /\ PhaseOK(b, stream[i]) /\ SideOK(b, stream[i]) /\ ChunksOK(b)
      /\ \A e : HandOK(a, e) => HandOK(b, e)
  <2>1. /\ b = Arrived(a) /\ a \in AgentStates /\ a.xfer.state = "running"
        /\ PhaseOK(a, stream[i]) /\ SideOK(a, stream[i]) /\ ChunksOK(a)
    BY <1>0, <1>1
  <2> HIDE DEF a, b
  <2>2. QED
    BY <2>1, TransferEnded
<1>6. a.xfer.key \in Nat /\ n \in Seq(Nat) /\ Append(n, a.xfer.key) \in Seq(Nat)
  <2>1. a.xfer.key \in Nat
    BY <1>1, Fields DEF Transfers
  <2>2. QED
    BY <1>1, <2>1
<1>7. /\ agent' \in [Agents -> AgentStates] /\ agent'[i] = b
      /\ \A k \in Agents \ {i} : agent'[k] = agent[k]
  BY <1>1, <1>4, <1>5, OneChanges
<1>8. /\ notifications' \in [Agents -> Seq(Nat)]
      /\ notifications'[i - 1] = Append(n, a.xfer.key)
      /\ \A k \in Agents \ {i - 1} : notifications'[k] = notifications[k]
  BY <1>1, <1>3, <1>6
<1>9. LinkOK(i - 1)'
  <2>1. /\ agent'[i - 1] = agent[i - 1] /\ agent'[(i - 1) + 1] = b
        /\ agent[(i - 1) + 1] = a /\ inbox'[(i - 1) + 1] = inbox[(i - 1) + 1]
    BY <1>1, <1>3, <1>7
  <2> DEFINE c == agent[i - 1]
             q == inbox[(i - 1) + 1]
             r == notifications'[i - 1]
  <2>2. /\ OperationOK(c, a, q, n) /\ OfferOK(a, q)
        /\ FillOK(c, fill, OfferedTo(a, q)) /\ HandOK(c, OfferedTo(a, q))
    BY <1>1, <2>1, Zenon DEF LinkOK
  <2>3. r = Append(n, a.xfer.key)
    BY <1>8
  <2> HIDE DEF a, b, c, q, n, r
  <2>4. Running(c, a, q, n) /\ c.op # 0
    BY <1>0, <2>2 DEF OperationOK, Untouched, Waiting, Notified
  <2>5. q = <<>> /\ Len(r) = 1 /\ r[1] = c.op
    <3>1. q = <<>> /\ n = <<>> /\ a.xfer.key = c.op
      BY <2>4 DEF Running
    <3>2. r = <<a.xfer.key>>
      BY <1>6, <2>3, <3>1
    <3>3. QED
      BY <3>1, <3>2
  <2>6. OperationOK(c, b, q, r)
    BY <1>5, <2>4, <2>5 DEF OperationOK, Notified
  <2>7. OfferOK(b, q) /\ OfferedTo(b, q) = OfferedTo(a, q)
    BY <1>5, <2>5 DEF OfferOK, OfferedTo
  <2>8. FillOK(c, fill, OfferedTo(b, q)) /\ HandOK(c, OfferedTo(b, q))
    BY <2>2, <2>7
  <2>9. QED
    BY <1>3, <2>1, <2>6, <2>7, <2>8, Zenon DEF LinkOK, c, q, r
<1>10. ASSUME i # workers PROVE LinkOK(i)'
  <2>1. /\ agent'[i + 1] = agent[i + 1] /\ LinkOK(i)
        /\ notifications'[i] = notifications[i] /\ inbox'[i + 1] = inbox[i + 1]
    BY <1>1, <1>3, <1>7, <1>8, <1>10
  <2>2. HandOK(a, OfferedTo(agent[i + 1], inbox[i + 1]))
    BY <2>1 DEF LinkOK
  <2> HIDE DEF b
  <2>3. HandOK(agent'[i], OfferedTo(agent[i + 1], inbox[i + 1]))
    BY <1>5, <1>7, <2>2
  <2>4. a.phase # "fill"
    BY <1>1 DEF PhaseOK
  <2>5. /\ OfferSide(agent'[i]) = OfferSide(agent[i]) /\ agent'[i].op = agent[i].op
        /\ agent'[i].phase # "fill"
    BY <1>5, <1>7, <2>4 DEF OfferSide
  <2>6. QED
    BY <2>1, <2>3, <2>5, OutLink
<1>11. PhaseOK(agent'[i], stream'[i]) /\ SideOK(agent'[i], stream'[i]) /\ ChunksOK(agent'[i])
  BY <1>3, <1>5, <1>7
<1>12. i = workers => agent'[i].op = 0 /\ notifications'[i] = <<>>
  BY <1>1, <1>5, <1>7, <1>8
<1>13. /\ stream' \in [Agents -> Seq(Copies)]
       /\ \A k \in Agents \ {i} : agent'[k] = agent[k] /\ stream'[k] = stream[k]
       /\ \A k \in Agents \ {i, i - 1} : notifications'[k] = notifications[k]
  BY <1>1, <1>3, <1>7, <1>8
<1>14. QED
  BY <1>1, <1>3, <1>7, <1>8, <1>9, <1>10, <1>11, <1>12, <1>13, WorkerStep

\* The record of a worker that has offered its bucket.
Forwarded(a, o, ks) ==
    [a EXCEPT !.phase = IF a.meta.is_last THEN "yield" ELSE "next", !.op = o, !.keys = ks]

\* Its fields, and where it is.
LEMMA ForwardFacts ==
    ASSUME NEW a \in AgentStates, NEW st, NEW o \in Nat, NEW ks \in Nat,
           NEW b, b = Forwarded(a, o, ks),
           a.phase = "top", PhaseOK(a, st), ChunksOK(a)
    PROVE  /\ b \in AgentStates /\ b.op = o /\ b.keys = ks /\ b.side = a.side
           /\ b.phase \in {"next", "yield"} /\ b.xfer = a.xfer /\ b.meta = a.meta
           /\ b.done = a.done /\ b.merge = a.merge /\ b.ahead = a.ahead
           /\ ReadTo(b) = ReadTo(a) /\ PhaseOK(b, st) /\ SideOK(b, st) /\ ChunksOK(b)
           /\ HandOK(b, EndOf(a.meta.bucket_meta))
<1> DEFINE ph == IF a.meta.is_last THEN "yield" ELSE "next"
<1>1. /\ a.side \in {0, 1} /\ a.meta \in Metas /\ a.ahead \in Metas
      /\ a.xfer \in Transfers /\ a.done \in Nat /\ a.merge \in Merges
  BY Fields
<1>2. ph \in Phases /\ ph \in {"next", "yield"} /\ (ph = "yield" <=> a.meta.is_last)
  BY DEF Phases
<1> HIDE DEF ph
<1>3. b = [a EXCEPT !.phase = ph, !.op = o, !.keys = ks]
  BY DEF Forwarded, ph
<1>4. b = Record(ph, a.side, o, ks, a.meta, a.ahead, a.xfer, a.done, a.merge)
  BY <1>3 DEF AgentStates, Record
<1>5. /\ b \in AgentStates
      /\ b.phase = ph /\ b.side = a.side /\ b.op = o /\ b.keys = ks /\ b.meta = a.meta
      /\ b.ahead = a.ahead /\ b.xfer = a.xfer /\ b.done = a.done /\ b.merge = a.merge
  BY <1>1, <1>2, <1>4 DEF AgentStates, Record
<1>6. a.xfer.state = "none" /\ st = <<>>
  BY DEF PhaseOK
<1>7. HandedTo(b) = HandedTo(a) /\ ReadTo(b) = ReadTo(a) /\ MergeAt(b) = MergeAt(a)
      /\ InHand(b) /\ InHand(a)
  BY <1>2, <1>5 DEF HandedTo, ReadTo, MergeAt, InHand
<1>8. PhaseOK(b, st)
  BY <1>2, <1>5, <1>6 DEF PhaseOK
<1>9. SideOK(b, st) /\ HandOK(b, EndOf(a.meta.bucket_meta))
  BY <1>2, <1>5, <1>6 DEF SideOK, HandOK
<1>10. ChunksOK(b)
  <2>1. /\ GoodBucket(b.meta) /\ b.done <= Len(b.meta.bucket_meta)
        /\ b.meta.bucket_meta # <<>> => Agrees(b.merge, MergeAt(b))
    BY <1>5, <1>7, Zenon DEF ChunksOK
  <2>2. b.xfer.state = "none" /\ b.phase \notin {"first", "reading"}
    BY <1>2, <1>5, <1>6
  <2>3. QED
    BY <2>1, <2>2 DEF ChunksOK
<1>11. QED
  BY <1>2, <1>5, <1>7, <1>8, <1>9, <1>10

\* A worker offers its bucket, unless it is the last of the chain.
LEMMA ForwardStep ==
    ASSUME ChainIInv, NEW i \in Workers, Forward(i)
    PROVE  ChainIInv'
<1> DEFINE a == agent[i]
           o == IF peers.next[i] = NoAgent THEN 0 ELSE a.keys + 1
           ks == IF peers.next[i] = NoAgent THEN a.keys ELSE a.keys + 1
           b == Forwarded(a, o, ks)
           m == [key |-> a.keys + 1, side |-> a.side, meta |-> a.meta]
<1>1. /\ a.phase = "top" /\ Offer(i, a.meta)
      /\ agent' = [agent EXCEPT ![i] =
            [Offered(i, a) EXCEPT !.phase = IF a.meta.is_last THEN "yield" ELSE "next"]]
      /\ UNCHANGED <<weights, workers, stage, version, peers, fill, notifications, stream>>
  BY DEF Forward
<1>2. /\ stage = "update" /\ i \in Agents /\ i # 0 /\ i \in Int
      /\ i - 1 \in Agents /\ i - 1 # i /\ (i - 1) + 1 = i
      /\ a \in AgentStates /\ PhaseOK(a, stream[i]) /\ ChunksOK(a) /\ LinkOK(i - 1)
      /\ i # workers => i + 1 \in Agents /\ i + 1 # i /\ LinkOK(i)
      /\ Types /\ FillInv /\ fill \in FillStates /\ EndsOK
      /\ agent \in [Agents -> AgentStates] /\ inbox \in [Agents -> Seq(Offers)]
      /\ notifications \in [Agents -> Seq(Nat)] /\ stream \in [Agents -> Seq(Copies)]
      /\ workers \in Nat /\ ChainOK
  BY <1>1, WorkerStart
<1>3. /\ i = workers => peers.next[i] = NoAgent
      /\ i # workers => peers.next[i] = i + 1 /\ i + 1 # NoAgent
  <2>1. i # workers => i \in 0..workers - 1 /\ i + 1 # NoAgent
    BY <1>2 DEF Agents, NoAgent
  <2>2. QED
    BY <1>2, <2>1 DEF ChainOK
<1>4. a.keys \in Nat /\ a.side \in {0, 1} /\ a.meta \in Metas
  BY <1>2, Fields
<1>5. o \in Nat /\ ks \in Nat /\ m \in Offers
      /\ m.key = a.keys + 1 /\ m.side = a.side /\ m.meta = a.meta
  BY <1>4 DEF Offers
<1>6. [Offered(i, a) EXCEPT !.phase = IF a.meta.is_last THEN "yield" ELSE "next"] = b
  <2>1. CASE peers.next[i] = NoAgent
    <3>1. Offered(i, a) = [a EXCEPT !.op = 0] /\ o = 0 /\ ks = a.keys
      BY <2>1 DEF Offered
    <3>2. QED
      BY <1>2, <3>1 DEF Forwarded, AgentStates
  <2>2. CASE peers.next[i] # NoAgent
    <3>1. Offered(i, a) = [a EXCEPT !.op = a.keys + 1, !.keys = a.keys + 1]
      BY <2>2 DEF Offered
    <3>2. o = a.keys + 1 /\ ks = a.keys + 1
      BY <2>2
    <3>3. QED
      BY <1>2, <3>1, <3>2 DEF Forwarded, AgentStates
  <2>3. QED
    BY <2>1, <2>2
<1>7. agent' = [agent EXCEPT ![i] = b]
  BY <1>1, <1>6
<1>8. /\ i = workers => o = 0
      /\ i # workers => o = a.keys + 1 /\ o # 0
      /\ i = workers => inbox' = inbox
      /\ i # workers => inbox' = [inbox EXCEPT ![i + 1] = Append(inbox[i + 1], m)]
  BY <1>1, <1>3, <1>4 DEF Offer
<1>9. b = Forwarded(a, o, ks) /\ SideOK(a, stream[i])
  BY <1>1, WorkerStart
<1> HIDE DEF a, b, o, ks, m
<1>10. /\ b \in AgentStates /\ b.op = o /\ b.side = a.side /\ b.phase \in {"next", "yield"}
       /\ b.xfer = a.xfer /\ b.meta = a.meta
       /\ ReadTo(b) = ReadTo(a) /\ PhaseOK(b, stream[i]) /\ SideOK(b, stream[i])
       /\ ChunksOK(b) /\ HandOK(b, EndOf(a.meta.bucket_meta))
  BY <1>1, <1>2, <1>5, <1>9, ForwardFacts
<1>11. /\ agent' \in [Agents -> AgentStates] /\ agent'[i] = b
       /\ \A k \in Agents \ {i} : agent'[k] = agent[k]
  BY <1>2, <1>7, <1>10, OneChanges
<1>12. /\ inbox' \in [Agents -> Seq(Offers)]
       /\ i # workers => inbox'[i + 1] = Append(inbox[i + 1], m)
       /\ \A k \in Agents \ {i + 1} : inbox'[k] = inbox[k]
  <2>1. CASE i = workers
    BY <1>2, <1>8, <2>1
  <2>2. CASE i # workers
    <3>1. i + 1 \in Agents /\ inbox' = [inbox EXCEPT ![i + 1] = Append(inbox[i + 1], m)]
      BY <1>2, <1>8, <2>2
    <3>2. Append(inbox[i + 1], m) \in Seq(Offers)
      BY <1>2, <1>5, <3>1
    <3>3. QED
      BY <1>2, <3>1, <3>2
  <2>3. QED
    BY <2>1, <2>2
<1>13. Types'
  BY <1>1, <1>2, <1>11, <1>12, TypesKept
<1>14. EndsOK'
  <2>1. 0 \in Agents \ {i + 1} /\ workers \in Agents /\ i # i + 1 /\ i \in Agents \ {i + 1}
    BY <1>2 DEF Agents
  <2>2. inbox'[0] = inbox[0]
    BY <1>12, <2>1
  <2>3. agent'[workers].op = agent[workers].op
    <3>1. CASE i = workers
      BY <1>2, <1>8, <1>10, <1>11, <3>1 DEF EndsOK
    <3>2. CASE i # workers
      BY <1>11, <2>1, <3>2
    <3>3. QED
      BY <3>1, <3>2
  <2>4. QED
    BY <1>1, <1>2, <2>2, <2>3, EndsKept
<1>15. LinkOK(i - 1)'
  <2>1. i \in Agents \ {i + 1}
    BY <1>2
  <2>2. /\ agent'[i - 1] = agent[i - 1] /\ agent'[(i - 1) + 1] = b
        /\ agent[(i - 1) + 1] = a /\ inbox'[(i - 1) + 1] = inbox[(i - 1) + 1]
    BY <1>2, <1>11, <1>12, <2>1 DEF a
  <2>3. QED
    BY <1>1, <1>2, <1>10, <2>2, InLink
<1>16. ASSUME i # workers PROVE LinkOK(i)'
  <2> DEFINE c == agent[i + 1]
             q == inbox[i + 1]
             r == inbox'[i + 1]
             n == notifications[i]
  <2>1. /\ agent'[i + 1] = c /\ notifications'[i] = n
        /\ OperationOK(a, c, q, n) /\ HandOK(a, OfferedTo(c, q)) /\ q \in Seq(Offers)
    BY <1>1, <1>2, <1>11, <1>16 DEF LinkOK, a
  <2>2. r = Append(q, m)
    BY <1>12, <1>16
  <2> HIDE DEF c, q, r, n
  <2>3. a.op = 0
    BY <1>1, <1>2 DEF PhaseOK
  <2>4. q = <<>> /\ c.xfer.state # "running" /\ n = <<>>
    BY <2>1, <2>3 DEF OperationOK, Untouched
  <2>5. r = <<m>> /\ Len(r) = 1 /\ r[1] = m /\ r # <<>>
    BY <1>5, <2>2, <2>4
  <2>6. OfferSide(b) = a.side /\ b.op # 0 /\ m.key = b.op
    BY <1>5, <1>8, <1>10, <1>16 DEF OfferSide
  <2>7. OperationOK(b, c, r, n)
    BY <1>5, <2>4, <2>5, <2>6 DEF OperationOK, Waiting
  <2>8. OfferOK(c, r)
    <3>1. Begins(a.meta.bucket_meta, ReadTo(c))
      BY <1>1, <2>1, <2>4 DEF HandOK, OfferedTo
    <3>2. GoodBucket(a.meta)
      BY <1>1, <1>2 DEF ChunksOK, InHand
    <3>3. QED
      BY <1>5, <2>5, <3>1, <3>2 DEF OfferOK
  <2>9. OfferedTo(c, r) = EndOf(a.meta.bucket_meta)
    BY <1>5, <2>5 DEF OfferedTo
  <2>10. HandOK(b, OfferedTo(c, r)) /\ FillOK(b, fill', OfferedTo(c, r))
    BY <1>10, <2>9 DEF FillOK
  <2>11. QED
    BY <1>11, <2>1, <2>7, <2>8, <2>10, Zenon DEF LinkOK, r
<1>17. FillInv' /\ WorkerOK(i)'
  <2>1. FillInv'
    BY <1>1, <1>2, Zenon DEF FillInv
  <2>2. WorkerOK(i)'
    BY <1>1, <1>10, <1>11 DEF WorkerOK
  <2>3. QED
    BY <2>1, <2>2
<1>18. /\ \A k \in Agents \ {i} : agent'[k] = agent[k] /\ stream'[k] = stream[k]
       /\ \A k \in Agents \ {i, i + 1} : inbox'[k] = inbox[k]
       /\ \A k \in Agents \ {i, i - 1} : notifications'[k] = notifications[k]
  BY <1>1, <1>11, <1>12
<1>19. QED
  BY <1>1, <1>2, <1>13, <1>14, <1>15, <1>16, <1>17, <1>18, AgentFrame

\* An agent that has handed on d chunks, and the copy it queues.
Advanced(a, d, g) == [a EXCEPT !.done = d, !.merge = g]
Copy(sd, t) == [side |-> sd, meta |-> t]

\* One chunk more is handed on: values.
LEMMA ChunkYielded ==
    ASSUME NEW a \in AgentStates, NEW st \in Seq(Copies), a.phase = "yield",
           a.done < Len(a.meta.bucket_meta), PhaseOK(a, st), SideOK(a, st), ChunksOK(a),
           NEW t, t = a.meta.bucket_meta[a.done + 1],
           NEW d, d = a.done + 1, NEW g, g = MergeChunk(a.merge, t),
           NEW b, b = Advanced(a, d, g), NEW c, c = Copy(a.side, t)
    PROVE  /\ b \in AgentStates /\ b.phase = a.phase /\ b.op = a.op /\ b.side = a.side
           /\ b.xfer = a.xfer /\ b.meta = a.meta /\ b.ahead = a.ahead
           /\ b.done = d /\ b.merge = g
           /\ ReadTo(b) = ReadTo(a) /\ t \in Chunks /\ c \in Copies
           /\ IsChunk(t) /\ Agrees(a.merge, Pos(t))
           /\ MergeAt(a) = Pos(t) /\ MergeAt(b) = PosAfter(t)
           /\ Append(st, c) \in Seq(Copies)
           /\ PhaseOK(b, Append(st, c)) /\ SideOK(b, Append(st, c)) /\ ChunksOK(b)
           /\ \A e : HandOK(a, e) => HandOK(b, e)
<1> DEFINE s == a.meta.bucket_meta
<1>1. /\ a.phase \in Phases /\ a.side \in {0, 1} /\ a.op \in Nat /\ a.keys \in Nat
      /\ a.meta \in Metas /\ a.ahead \in Metas /\ a.xfer \in Transfers
      /\ a.done \in Nat /\ a.merge \in Merges /\ s \in Seq(Chunks)
  BY Fields
<1>2. InHand(a)
  BY DEF InHand
<1>3. Linked(s) /\ Agrees(a.merge, MergeAt(a))
  <2>1. s # <<>>
    BY <1>1
  <2>2. QED
    BY <1>2, <2>1 DEF ChunksOK, GoodBucket
<1>4. MergeAt(a) = Pos(t)
  BY DEF MergeAt
<1>5. a.done + 1 \in 1..Len(s) /\ t \in Chunks /\ Len(s) \in Nat /\ d \in Nat
  BY <1>1
<1>6. /\ IsChunk(t)
      /\ d < Len(s) => PosAfter(t) = Pos(s[d + 1])
      /\ d = Len(s) => PosAfter(t) = EndOf(s)
  <2>1. IsChunk(t) /\ (d < Len(s) => PosAfter(t) = Pos(s[d + 1]))
    BY <1>3, <1>5 DEF Linked
  <2>2. d = Len(s) => PosAfter(t) = EndOf(s)
    BY DEF EndOf
  <2>3. QED
    BY <2>1, <2>2
<1>7. Agrees(a.merge, Pos(t))
  BY <1>3, <1>4
<1>8. g \in Merges /\ Agrees(g, PosAfter(t))
  BY <1>1, <1>5, <1>6, <1>7, MergeFacts
<1>9. b = Record(a.phase, a.side, a.op, a.keys, a.meta, a.ahead, a.xfer, d, g)
  BY AdvancedRecord DEF Advanced
<1>10. /\ b \in AgentStates /\ b.phase = a.phase /\ b.op = a.op /\ b.side = a.side
       /\ b.meta = a.meta /\ b.ahead = a.ahead /\ b.xfer = a.xfer /\ b.done = d
       /\ b.merge = g
  BY <1>1, <1>5, <1>8, <1>9, SMTT(60) DEF AgentStates, Record
<1>11. /\ HandedTo(b) = HandedTo(a) /\ ReadTo(b) = ReadTo(a) /\ InHand(b)
  BY <1>2, <1>10 DEF HandedTo, ReadTo, InHand
<1>12. MergeAt(b) = PosAfter(t)
  <2>1. CASE d < Len(s)
    BY <1>6, <1>10, <2>1 DEF MergeAt
  <2>2. CASE ~(d < Len(s))
    <3>1. d = Len(s)
      BY <1>1, <1>5, <2>2
    <3>2. MergeAt(b) = EndOf(s)
      BY <1>10, <2>2 DEF MergeAt
    <3>3. QED
      BY <1>6, <3>1, <3>2
  <2>3. QED
    BY <2>1, <2>2
<1>13. ChunksOK(b)
  <2>1. b.done <= Len(b.meta.bucket_meta)
    BY <1>5, <1>10
  <2>2. GoodBucket(b.meta)
    BY <1>2, <1>10, Zenon DEF ChunksOK
  <2>3. Agrees(b.merge, MergeAt(b))
    BY <1>8, <1>10, <1>12
  <2>4. b.phase \notin {"first", "reading"}
    BY <1>10
  <2>5. b.xfer.state # "none" => GoodBucket(b.ahead) /\ Begins(b.ahead.bucket_meta, HandedTo(b))
    BY <1>10, <1>11, Zenon DEF ChunksOK
  <2>6. QED
    BY <2>1, <2>2, <2>3, <2>4, <2>5 DEF ChunksOK
<1>14. c \in Copies /\ c.side = a.side
  BY <1>1, <1>5 DEF Copies, Copy
<1>15. /\ Append(st, c) \in Seq(Copies) /\ Len(Append(st, c)) = Len(st) + 1
       /\ Append(st, c)[Len(st) + 1] = c
       /\ \A k \in 1..Len(st) : Append(st, c)[k] = st[k]
  BY <1>14
<1>16. SideOK(b, Append(st, c))
  <2>1. ASSUME NEW k \in 1..Len(Append(st, c)) PROVE Append(st, c)[k].side = b.side
    <3>1. CASE k \in 1..Len(st)
      BY <1>10, <1>15, <3>1 DEF SideOK
    <3>2. CASE k = Len(st) + 1
      BY <1>10, <1>14, <1>15, <3>2
    <3>3. QED
      BY <1>15, <3>1, <3>2
  <2>2. QED
    BY <2>1 DEF SideOK
<1>17. PhaseOK(b, Append(st, c))
  BY <1>10 DEF PhaseOK
<1>18. \A e : HandOK(a, e) => HandOK(b, e)
  BY <1>10, Zenon DEF HandOK
<1>19. QED
  BY <1>4, <1>5, <1>6, <1>7, <1>10, <1>11, <1>12, <1>13, <1>14, <1>15, <1>16, <1>17, <1>18

\* Links, when neither the transfer nor the readable operation of worker i is
\* touched.
LEMMA LinksKept ==
    ASSUME ChainIInv, stage = "update", NEW i \in Workers,
           UNCHANGED <<workers, fill, inbox, notifications>>,
           \A k \in Agents \ {i} : agent'[k] = agent[k],
           agent'[i].xfer = agent[i].xfer, agent'[i].op = agent[i].op,
           agent'[i].phase = agent[i].phase, agent'[i].side = agent[i].side,
           ReadTo(agent'[i]) = ReadTo(agent[i]),
           \A e : HandOK(agent[i], e) => HandOK(agent'[i], e)
    PROVE  LinkOK(i - 1)' /\ (i # workers => LinkOK(i)')
<1>1. /\ i \in Agents /\ i # 0 /\ i \in Int /\ i - 1 \in Agents /\ i - 1 # i
      /\ (i - 1) + 1 = i /\ i + 1 # i
  BY WorkerIsAgent
<1>2. /\ WorkerOK(i) /\ LinkOK(i - 1) /\ (i # workers => i + 1 \in Agents /\ LinkOK(i))
  BY <1>1, AgentFacts
<1>3. LinkOK(i - 1)'
  <2>1. /\ agent'[i - 1] = agent[i - 1] /\ agent'[(i - 1) + 1] = agent'[i]
        /\ agent[(i - 1) + 1] = agent[i]
    BY <1>1
  <2>2. QED
    BY <1>2, <2>1, InLink
<1>4. ASSUME i # workers PROVE LinkOK(i)'
  <2>1. agent'[i + 1] = agent[i + 1] /\ LinkOK(i)
    BY <1>1, <1>2, <1>4
  <2>2. HandOK(agent'[i], OfferedTo(agent[i + 1], inbox[i + 1]))
    BY <2>1 DEF LinkOK
  <2>3. agent'[i].phase # "fill" /\ OfferSide(agent'[i]) = OfferSide(agent[i])
    BY <1>2 DEF WorkerOK, PhaseOK, OfferSide
  <2>4. QED
    BY <2>1, <2>2, <2>3, OutLink
<1>5. QED
  BY <1>3, <1>4

\* Handing on a chunk: its copy uses the buffer in hand.
LEMMA YieldChunkStep ==
    ASSUME ChainIInv, NEW i \in Workers, YieldChunk(i)
    PROVE  ChainIInv'
<1> DEFINE a == agent[i]
           t == a.meta.bucket_meta[a.done + 1]
           d == a.done + 1
           g == MergeChunk(a.merge, t)
           b == Advanced(a, d, g)
           c == Copy(a.side, t)
           st == stream[i]
<1>1. /\ a.phase = "yield" /\ a.done < Len(a.meta.bucket_meta)
      /\ agent' = [agent EXCEPT ![i].done = d, ![i].merge = g]
      /\ stream' = [stream EXCEPT ![i] = Append(stream[i], c)]
      /\ UNCHANGED <<weights, workers, stage, version, peers, fill, inbox, notifications>>
  BY DEF YieldChunk, Copy
<1>2. /\ stage = "update" /\ i \in Agents /\ a \in AgentStates
      /\ stream[i] \in Seq(Copies) /\ PhaseOK(a, stream[i]) /\ SideOK(a, stream[i])
      /\ ChunksOK(a)
      /\ i = workers => a.op = 0 /\ notifications[i] = <<>>
      /\ agent \in [Agents -> AgentStates] /\ notifications \in [Agents -> Seq(Nat)]
      /\ stream \in [Agents -> Seq(Copies)]
  BY <1>1, WorkerStart
<1>3. agent' = [agent EXCEPT ![i] = b]
  BY <1>1, <1>2 DEF Advanced
<1>4. /\ b = Advanced(a, d, g) /\ c = Copy(a.side, t)
      /\ t = a.meta.bucket_meta[a.done + 1] /\ d = a.done + 1
      /\ g = MergeChunk(a.merge, t)
      /\ a \in AgentStates /\ st \in Seq(Copies) /\ a.phase = "yield"
      /\ a.done < Len(a.meta.bucket_meta)
      /\ PhaseOK(a, st) /\ SideOK(a, st) /\ ChunksOK(a)
  BY <1>1, <1>2
<1> HIDE DEF a, b, c, d, g, t, st
<1>5. /\ b \in AgentStates /\ b.phase = a.phase /\ b.op = a.op /\ b.side = a.side
      /\ b.xfer = a.xfer /\ ReadTo(b) = ReadTo(a)
      /\ Append(st, c) \in Seq(Copies) /\ PhaseOK(b, Append(st, c))
      /\ SideOK(b, Append(st, c)) /\ ChunksOK(b)
      /\ \A e : HandOK(a, e) => HandOK(b, e)
  BY <1>4, ChunkYielded
<1>6. /\ agent' \in [Agents -> AgentStates] /\ agent'[i] = b
      /\ \A k \in Agents \ {i} : agent'[k] = agent[k]
  BY <1>2, <1>3, <1>5, OneChanges
<1>7. /\ stream' \in [Agents -> Seq(Copies)] /\ stream'[i] = Append(st, c)
      /\ \A k \in Agents \ {i} : stream'[k] = stream[k]
  BY <1>1, <1>2, <1>5 DEF st
<1>8. LinkOK(i - 1)' /\ (i # workers => LinkOK(i)')
  BY <1>1, <1>2, <1>5, <1>6, LinksKept DEF a
<1>9. i = workers => agent'[i].op = 0 /\ notifications'[i] = <<>>
  BY <1>1, <1>2, <1>5, <1>6
<1>10. PhaseOK(agent'[i], stream'[i]) /\ SideOK(agent'[i], stream'[i]) /\ ChunksOK(agent'[i])
  BY <1>5, <1>6, <1>7
<1>11. QED
  BY <1>1, <1>2, <1>6, <1>7, <1>8, <1>9, <1>10, WorkerStep

\* A copy that has been done leaves the queue.
LEMMA CopyOutStep ==
    ASSUME ChainIInv, NEW i \in Workers, CopyOut(i)
    PROVE  ChainIInv'
<1>1. /\ stream[i] # <<>> /\ stream' = [stream EXCEPT ![i] = Tail(stream[i])]
      /\ UNCHANGED <<weights, workers, stage, version, peers, fill, agent, inbox,
                     notifications>>
  BY DEF CopyOut
<1>2. /\ stage = "update" /\ i \in Agents /\ agent[i] \in AgentStates
      /\ stream[i] \in Seq(Copies) /\ PhaseOK(agent[i], stream[i])
      /\ SideOK(agent[i], stream[i]) /\ ChunksOK(agent[i])
      /\ i = workers => agent[i].op = 0 /\ notifications[i] = <<>>
      /\ agent \in [Agents -> AgentStates] /\ notifications \in [Agents -> Seq(Nat)]
      /\ stream \in [Agents -> Seq(Copies)]
  BY <1>1, WorkerStart
<1>3. /\ Tail(stream[i]) \in Seq(Copies)
      /\ \A k \in 1..Len(Tail(stream[i])) :
            k + 1 \in 1..Len(stream[i]) /\ Tail(stream[i])[k] = stream[i][k + 1]
  BY <1>1, <1>2, TailFacts
<1>4. /\ stream' \in [Agents -> Seq(Copies)] /\ stream'[i] = Tail(stream[i])
      /\ \A k \in Agents \ {i} : stream'[k] = stream[k]
  BY <1>1, <1>2, <1>3
<1>5. SideOK(agent'[i], stream'[i])
  BY <1>1, <1>2, <1>3, <1>4 DEF SideOK
<1>6. PhaseOK(agent'[i], stream'[i]) /\ ChunksOK(agent'[i])
  BY <1>1, <1>2 DEF PhaseOK
<1>7. LinkOK(i - 1)' /\ (i # workers => LinkOK(i)')
  BY <1>1, <1>2, LinksKept
<1>8. QED
  BY <1>1, <1>2, <1>4, <1>5, <1>6, <1>7, WorkerStep

-----------------------------------------------------------------------------
(* Steps of the sender *)

\* What the sender can rely on when it takes a step.
LEMMA SenderStart ==
    ASSUME ChainIInv, agent[0].phase # "done" \/ stream[0] # <<>>
    PROVE  /\ stage = "update" /\ 0 \in Agents /\ 0 + 1 = 1 /\ 1 \in Agents /\ 1 # 0
           /\ workers # 0 /\ workers \in Agents /\ workers \in Nat
           /\ agent[0] \in AgentStates /\ stream[0] \in Seq(Copies)
           /\ notifications[0] \in Seq(Nat) /\ inbox[1] \in Seq(Offers)
           /\ SenderOK(agent[0], stream[0], fill) /\ LinkOK(0)
           /\ peers.next[0] = 1 /\ peers.next[0] # NoAgent
           /\ Types /\ FillInv /\ fill \in FillStates /\ EndsOK
           /\ agent \in [Agents -> AgentStates] /\ inbox \in [Agents -> Seq(Offers)]
           /\ notifications \in [Agents -> Seq(Nat)] /\ stream \in [Agents -> Seq(Copies)]
<1>1. 0 \in Agents
  BY DEF ChainIInv, Types, ManagerTypes, Agents
<1>2. stage = "update"
  BY <1>1, BusyInUpdate
<1>3. /\ workers \in Nat /\ workers > 1 /\ ChainOK /\ EndsOK /\ Agents = 0..workers
      /\ SenderOK(agent[0], stream[0], fill) /\ \A i \in 0..workers - 1 : LinkOK(i)
      /\ Types /\ FillInv /\ fill \in FillStates
      /\ agent \in [Agents -> AgentStates] /\ inbox \in [Agents -> Seq(Offers)]
      /\ notifications \in [Agents -> Seq(Nat)] /\ stream \in [Agents -> Seq(Copies)]
  BY <1>2, UpdateFacts
<1>4. /\ 0 \in 0..workers - 1 /\ 1 \in Agents /\ workers # 0 /\ workers \in Agents
      /\ 0 + 1 = 1 /\ 1 # NoAgent
  BY <1>3 DEF NoAgent
<1>5. LinkOK(0)
  BY <1>3, <1>4
<1>6. peers.next[0] = 1
  BY <1>3, <1>4 DEF ChainOK
<1>7. /\ agent[0] \in AgentStates /\ stream[0] \in Seq(Copies)
      /\ notifications[0] \in Seq(Nat) /\ inbox[1] \in Seq(Offers)
  BY <1>1, <1>3, <1>4
<1>8. QED
  BY <1>1, <1>2, <1>3, <1>4, <1>5, <1>6, <1>7

\* A step of the sender.
LEMMA SenderFrame ==
    ASSUME ChainIInv, stage = "update",
           UNCHANGED <<weights, workers, stage, version, peers>>,
           fill' \in FillStates, FillInv',
           agent' \in [Agents -> AgentStates], stream' \in [Agents -> Seq(Copies)],
           notifications' \in [Agents -> Seq(Nat)], inbox' \in [Agents -> Seq(Offers)],
           \A k \in Agents \ {0} : agent'[k] = agent[k] /\ stream'[k] = stream[k],
           \A k \in Agents \ {1} : inbox'[k] = inbox[k],
           \A k \in Agents \ {0} : notifications'[k] = notifications[k],
           SenderOK(agent'[0], stream'[0], fill'), LinkOK(0)'
    PROVE  ChainIInv'
<1>1. /\ workers \in Nat /\ workers > 1 /\ Agents = 0..workers /\ EndsOK /\ Types
  BY UpdateFacts
<1>2. 0 \in Agents \ {1} /\ workers \in Agents \ {0} /\ 0 # workers /\ 0 + 1 = 1
  BY <1>1
<1>3. Types'
  BY <1>1, TypesKept
<1>4. EndsOK'
  <2>1. inbox'[0] = inbox[0] /\ agent'[workers] = agent[workers]
        /\ notifications'[workers] = notifications[workers]
    BY <1>2
  <2>2. QED
    BY <1>1, <2>1, EndsKept
<1>5. /\ \A k \in Agents \ {0, 0 + 1} : inbox'[k] = inbox[k]
      /\ \A k \in Agents \ {0, 0 - 1} : notifications'[k] = notifications[k]
  BY <1>2
<1>6. QED
  BY <1>2, <1>3, <1>4, <1>5, AgentFrame

\* The link from the sender, when it only packs another chunk.
LEMMA FillLink ==
    ASSUME LinkOK(0), UNCHANGED <<agent, inbox, notifications>>,
           \A e : FillOK(agent[0], fill, e) => FillOK(agent[0], fill', e)
    PROVE  LinkOK(0)'
<1>1. FillOK(agent[0], fill, OfferedTo(agent[0 + 1], inbox[0 + 1]))
  BY DEF LinkOK
<1>2. FillOK(agent[0], fill', OfferedTo(agent[0 + 1], inbox[0 + 1]))
  BY <1>1
<1>3. QED
  BY <1>2, Zenon DEF LinkOK

\* Packing a chunk: values.
LEMMA ChunkPacked ==
    ASSUME FillInv, fill \in FillStates, MoreChunks(weights, fill), Fits(weights, fill),
           NEW a \in AgentStates, NEW st \in Seq(Copies), SenderOK(a, st, fill),
           a.phase = "fill", NEW t, t = TensorMeta(weights, fill),
           NEW f, f = PutChunk(weights, fill), NEW c, c = Copy(a.side, t)
    PROVE  /\ Append(st, c) \in Seq(Copies) /\ SenderOK(a, Append(st, c), f)
           /\ \A e : FillOK(a, fill, e) => FillOK(a, f, e)
<1> DEFINE s == fill.bucket_meta
<1>1. /\ t \in Chunks /\ IsChunk(t) /\ Pos(t) = FillPos
      /\ f \in FillStates
      /\ f.bucket_meta = Append(s, t) /\ f.bucket_meta # <<>>
      /\ PosAfter(t) = <<f.wi, f.co>>
  BY PutFacts
<1>2. a.side \in {0, 1} /\ s \in Seq(Chunks)
  BY Fields DEF FillStates
<1>3. c \in Copies /\ c.side = a.side
  BY <1>1, <1>2 DEF Copies, Copy
<1>4. /\ Append(st, c) \in Seq(Copies) /\ Len(Append(st, c)) = Len(st) + 1
      /\ Append(st, c)[Len(st) + 1] = c
      /\ \A k \in 1..Len(st) : Append(st, c)[k] = st[k]
  BY <1>3
<1>5. SideOK(a, Append(st, c))
  <2>1. ASSUME NEW k \in 1..Len(Append(st, c)) PROVE Append(st, c)[k].side = a.side
    <3>1. CASE k \in 1..Len(st)
      BY <1>4, <3>1 DEF SideOK, SenderOK
    <3>2. CASE k = Len(st) + 1
      BY <1>3, <1>4, <3>2
    <3>3. QED
      BY <1>4, <3>1, <3>2
  <2>2. QED
    BY <2>1 DEF SideOK
<1>6. Linked(s) /\ (s # <<>> => EndOf(s) = Pos(t))
  BY <1>1 DEF SenderOK, FillPos
<1>7. /\ Linked(f.bucket_meta) /\ EndOf(f.bucket_meta) = PosAfter(t)
      /\ f.bucket_meta[1] = IF s = <<>> THEN t ELSE s[1]
  BY <1>1, <1>2, <1>6, LinkedAppend
<1>8. SenderOK(a, Append(st, c), f)
  <2>1. a.xfer.state = "none"
    BY DEF SenderOK
  <2>2. QED
    BY <1>1, <1>5, <1>7, <2>1 DEF SenderOK
<1>9. ASSUME NEW e, FillOK(a, fill, e) PROVE FillOK(a, f, e)
  <2>1. Pos(f.bucket_meta[1]) = e
    <3>1. CASE s = <<>>
      BY <1>1, <1>7, <1>9, <3>1 DEF FillOK, FillPos
    <3>2. CASE s # <<>>
      BY <1>7, <1>9, <3>2 DEF FillOK
    <3>3. QED
      BY <3>1, <3>2
  <2>2. QED
    BY <1>1, <2>1 DEF FillOK
<1>10. QED
  BY <1>4, <1>8, <1>9

\* Packing a chunk into send_buf.
LEMMA FillChunkStep ==
    ASSUME ChainIInv, FillChunk
    PROVE  ChainIInv'
<1> DEFINE a == agent[0]
           t == TensorMeta(weights, fill)
           c == Copy(a.side, t)
           f == PutChunk(weights, fill)
           st == stream[0]
<1>1. /\ a.phase = "fill" /\ MoreChunks(weights, fill) /\ Fits(weights, fill)
      /\ fill' = f /\ stream' = [stream EXCEPT ![0] = Append(st, c)]
      /\ UNCHANGED <<weights, workers, stage, version, peers, agent, inbox, notifications>>
  BY DEF FillChunk, Copy
<1>2. /\ stage = "update" /\ 0 \in Agents /\ a \in AgentStates /\ st \in Seq(Copies)
      /\ SenderOK(a, st, fill) /\ LinkOK(0) /\ FillInv /\ fill \in FillStates
      /\ agent \in [Agents -> AgentStates] /\ inbox \in [Agents -> Seq(Offers)]
      /\ notifications \in [Agents -> Seq(Nat)] /\ stream \in [Agents -> Seq(Copies)]
  BY <1>1, SenderStart
<1>3. t = TensorMeta(weights, fill) /\ f = PutChunk(weights, fill) /\ c = Copy(a.side, t)
  OBVIOUS
<1> HIDE DEF a, t, c, f, st
<1>4. /\ Append(st, c) \in Seq(Copies) /\ SenderOK(a, Append(st, c), f)
      /\ \A e : FillOK(a, fill, e) => FillOK(a, f, e)
  BY <1>1, <1>2, <1>3, ChunkPacked
<1>5. FillInv' /\ f \in FillStates
  <2>1. /\ f \in FillStates
        /\ f.wi \in 1..Len(weights) + 1
        /\ f.wi <= Len(weights) => f.co < weights[f.wi]
        /\ f.wi > Len(weights) => f.co = 0
        /\ f.co > 0 => weights[f.wi] > BucketSize
        /\ \A j \in 1..Len(f.bucket_meta) :
              /\ f.bucket_meta[j].name <= f.wi
              /\ f.bucket_meta[j].name = f.wi => f.offset = BucketSize
        /\ f.bucket_meta # <<>>
    BY <1>1, <1>2, <1>3, PutFacts
  <2>2. weights \in Seq(Nat \ {0}) /\ weights' = weights /\ fill' = f
    BY <1>1, <1>2 DEF FillInv
  <2>3. QED
    BY <2>1, <2>2, Zenon DEF FillInv
<1>6. /\ stream' \in [Agents -> Seq(Copies)] /\ stream'[0] = Append(st, c)
      /\ \A k \in Agents \ {0} : stream'[k] = stream[k]
  BY <1>1, <1>2, <1>4, OneChanges
<1>7. SenderOK(agent'[0], stream'[0], fill')
  BY <1>1, <1>4, <1>6 DEF a
<1>8. LinkOK(0)'
  BY <1>1, <1>2, <1>4, FillLink DEF a
<1>9. QED
  BY <1>1, <1>2, <1>5, <1>6, <1>7, <1>8, SenderFrame

\* A copy into send_buf that has been done leaves the queue.
LEMMA CopyInStep ==
    ASSUME ChainIInv, CopyIn
    PROVE  ChainIInv'
<1> DEFINE st == stream[0]
<1>1. /\ st # <<>> /\ stream' = [stream EXCEPT ![0] = Tail(st)]
      /\ UNCHANGED <<weights, workers, stage, version, peers, fill, agent, inbox,
                     notifications>>
  BY DEF CopyIn
<1>2. /\ stage = "update" /\ 0 \in Agents /\ st \in Seq(Copies)
      /\ SenderOK(agent[0], st, fill) /\ LinkOK(0) /\ FillInv /\ fill \in FillStates
      /\ agent \in [Agents -> AgentStates] /\ inbox \in [Agents -> Seq(Offers)]
      /\ notifications \in [Agents -> Seq(Nat)] /\ stream \in [Agents -> Seq(Copies)]
  BY <1>1, SenderStart
<1> HIDE DEF st
<1>3. /\ Tail(st) \in Seq(Copies)
      /\ \A k \in 1..Len(Tail(st)) : k + 1 \in 1..Len(st) /\ Tail(st)[k] = st[k + 1]
  BY <1>1, <1>2, TailFacts
<1>4. /\ stream' \in [Agents -> Seq(Copies)] /\ stream'[0] = Tail(st)
      /\ \A k \in Agents \ {0} : stream'[k] = stream[k]
  BY <1>1, <1>2, <1>3, OneChanges
<1>5. SideOK(agent[0], Tail(st))
  BY <1>2, <1>3 DEF SideOK, SenderOK
<1>6. SenderOK(agent'[0], stream'[0], fill')
  <2>1. agent[0].phase = "fill"
    BY <1>1, <1>2 DEF SenderOK
  <2>2. QED
    BY <1>1, <1>2, <1>4, <1>5, <2>1 DEF SenderOK
<1>7. LinkOK(0)'
  BY <1>1, <1>2, FillLink
<1>8. FillInv'
  BY <1>1, <1>2, Zenon DEF FillInv
<1>9. QED
  BY <1>1, <1>2, <1>4, <1>6, <1>7, <1>8, SenderFrame

\* The sender has offered its bucket: on to the other buffer, or to the end.
Sent(a, more) ==
    IF more THEN [a EXCEPT !.op = a.keys + 1, !.keys = a.keys + 1, !.side = 1 - a.side]
    ELSE [a EXCEPT !.op = a.keys + 1, !.keys = a.keys + 1, !.phase = "last"]

\* What it has offered is the buffer it used.
LEMMA SentFacts ==
    ASSUME NEW a \in AgentStates, NEW more \in BOOLEAN, NEW b, b = Sent(a, more),
           a.phase = "fill", NEW f \in FillStates, NEW g, g = NewBucket(f),
           SenderOK(a, <<>>, f)
    PROVE  /\ b \in AgentStates /\ b.op = a.keys + 1 /\ b.op # 0 /\ OfferSide(b) = a.side
           /\ b.phase = (IF more THEN "fill" ELSE "last") /\ b.xfer = a.xfer
           /\ SenderOK(b, <<>>, g)
<1>1. /\ a.side \in {0, 1} /\ a.keys \in Nat /\ a.meta \in Metas /\ a.ahead \in Metas
      /\ a.xfer \in Transfers /\ a.done \in Nat /\ a.merge \in Merges
  BY Fields
<1>2. 1 - a.side \in {0, 1} /\ a.keys + 1 \in Nat /\ a.keys + 1 # 0 /\ 1 - (1 - a.side) = a.side
  BY <1>1
<1>3. b = Record(IF more THEN "fill" ELSE "last", IF more THEN 1 - a.side ELSE a.side,
                 a.keys + 1, a.keys + 1, a.meta, a.ahead, a.xfer, a.done, a.merge)
  <2>1. CASE more
    BY <2>1 DEF Sent, AgentStates, Record
  <2>2. CASE ~more
    BY <2>2 DEF Sent, AgentStates, Record
  <2>3. QED
    BY <2>1, <2>2
<1>4. /\ b \in AgentStates
      /\ b.phase = (IF more THEN "fill" ELSE "last")
      /\ b.side = (IF more THEN 1 - a.side ELSE a.side)
      /\ b.op = a.keys + 1 /\ b.xfer = a.xfer
  <2>1. CASE more
    BY <1>1, <1>2, <1>3, <2>1 DEF AgentStates, Record, Phases
  <2>2. CASE ~more
    BY <1>1, <1>2, <1>3, <2>2 DEF AgentStates, Record, Phases
  <2>3. QED
    BY <2>1, <2>2
<1>5. OfferSide(b) = a.side
  BY <1>2, <1>4 DEF OfferSide
<1>6. SenderOK(b, <<>>, g)
  <2>1. g.bucket_meta = <<>>
    BY NewBucketFacts
  <2>2. Linked(g.bucket_meta) /\ SideOK(b, <<>>)
    BY <2>1 DEF Linked, SideOK
  <2>3. b.xfer.state = "none" /\ b.phase \in {"fill", "last"}
    BY <1>4 DEF SenderOK
  <2>4. QED
    BY <2>1, <2>2, <2>3 DEF SenderOK
<1>7. QED
  BY <1>2, <1>4, <1>5, <1>6

\* A bucket that is sent has chunks, unless it is the last one.
LEMMA SentBucket ==
    ASSUME FillInv, fill \in FillStates,
           MoreChunks(weights, fill) => ~Fits(weights, fill), Linked(fill.bucket_meta),
           NEW m, m = Bucket(weights, fill)
    PROVE  m \in Metas /\ m.bucket_meta = fill.bucket_meta /\ GoodBucket(m)
           /\ (MoreChunks(weights, fill) => fill.bucket_meta # <<>>)
<1>1. m.bucket_meta = fill.bucket_meta /\ m.is_last = ~MoreChunks(weights, fill) /\ m \in Metas
  BY DEF Bucket, Metas, FillStates, MoreChunks
<1>2. ASSUME MoreChunks(weights, fill) PROVE fill.bucket_meta # <<>>
  <2>1. BucketSize \in Nat \ {0} /\ fill.wi \in Nat \ {0} /\ fill.co \in Nat
        /\ weights[fill.wi] \in Nat /\ fill.offset \in Nat
    BY <1>2, TransferConstants DEF FillInv, FillStates, MoreChunks
  <2>2. fill.offset # 0
    BY <1>2, <2>1 DEF Fits, ChunkSize
  <2>3. QED
    BY <2>2 DEF FillInv
<1>3. GoodBucket(m)
  BY <1>1, <1>2 DEF GoodBucket
<1>4. QED
  BY <1>1, <1>2, <1>3

\* The sender offers its bucket once the one before has been read.
LEMMA SendBucketStep ==
    ASSUME ChainIInv, SendBucket
    PROVE  ChainIInv'
<1> DEFINE a == agent[0]
           more == MoreChunks(weights, fill)
           mt == Bucket(weights, fill)
           m == [key |-> a.keys + 1, side |-> a.side, meta |-> mt]
           b == Sent(a, more)
           g == NewBucket(fill)
<1>1. /\ a.phase = "fill" /\ (more => ~Fits(weights, fill)) /\ stream[0] = <<>>
      /\ AwaitRead(0) /\ Offer(0, mt)
      /\ agent' = [agent EXCEPT ![0] =
                    IF more THEN [Offered(0, a) EXCEPT !.side = 1 - a.side]
                            ELSE [Offered(0, a) EXCEPT !.phase = "last"]]
      /\ fill' = g
      /\ UNCHANGED <<weights, workers, stage, version, peers, stream>>
  BY DEF SendBucket, Synchronize
<1>2. /\ stage = "update" /\ 0 \in Agents /\ 1 \in Agents /\ 1 # 0 /\ 0 + 1 = 1
      /\ a \in AgentStates /\ SenderOK(a, stream[0], fill) /\ LinkOK(0)
      /\ FillInv /\ fill \in FillStates
      /\ peers.next[0] = 1 /\ peers.next[0] # NoAgent
      /\ notifications[0] \in Seq(Nat) /\ inbox[1] \in Seq(Offers)
      /\ agent \in [Agents -> AgentStates] /\ inbox \in [Agents -> Seq(Offers)]
      /\ notifications \in [Agents -> Seq(Nat)] /\ stream \in [Agents -> Seq(Copies)]
  BY <1>1, SenderStart
<1>3. more \in BOOLEAN /\ b = Sent(a, more) /\ g = NewBucket(fill)
  BY DEF MoreChunks
<1>4. agent' = [agent EXCEPT ![0] = b]
  <2>1. Offered(0, a) = [a EXCEPT !.op = a.keys + 1, !.keys = a.keys + 1]
    BY <1>2 DEF Offered
  <2>2. CASE more
    <3>1. [Offered(0, a) EXCEPT !.side = 1 - a.side] = b
      BY <1>2, <2>1, <2>2 DEF Sent, AgentStates
    <3>2. QED
      BY <1>1, <2>2, <3>1
  <2>3. CASE ~more
    <3>1. [Offered(0, a) EXCEPT !.phase = "last"] = b
      BY <1>2, <2>1, <2>3 DEF Sent, AgentStates
    <3>2. QED
      BY <1>1, <2>3, <3>1
  <2>4. QED
    BY <2>2, <2>3
<1>5. inbox' = [inbox EXCEPT ![1] = Append(inbox[1], m)]
  BY <1>1, <1>2 DEF Offer
<1>6. /\ mt \in Metas /\ mt.bucket_meta = fill.bucket_meta /\ GoodBucket(mt)
      /\ (more => fill.bucket_meta # <<>>)
  <2>1. Linked(fill.bucket_meta)
    BY <1>2 DEF SenderOK
  <2>2. QED
    BY <1>1, <1>2, <2>1, SentBucket
<1>7. m \in Offers /\ m.key = a.keys + 1 /\ m.side = a.side /\ m.meta = mt
  <2>1. a.keys \in Nat /\ a.side \in {0, 1}
    BY <1>2, Fields
  <2>2. a.keys + 1 \in Nat
    BY <2>1
  <2>3. QED
    BY <1>6, <2>1, <2>2 DEF Offers
<1>8. /\ g.wi = fill.wi /\ g.co = fill.co /\ g.offset = 0 /\ g.bucket_meta = <<>>
      /\ g \in FillStates
  BY <1>2, NewBucketFacts
<1> HIDE DEF a, b, m, g, mt, more
<1>9. /\ b \in AgentStates /\ b.op = a.keys + 1 /\ b.op # 0 /\ OfferSide(b) = a.side
      /\ b.phase = (IF more THEN "fill" ELSE "last")
      /\ SenderOK(b, <<>>, g)
  BY <1>1, <1>2, <1>3, SentFacts
<1>10. /\ agent' \in [Agents -> AgentStates] /\ agent'[0] = b
       /\ \A k \in Agents \ {0} : agent'[k] = agent[k]
  BY <1>2, <1>4, <1>9, OneChanges
<1>11. /\ inbox' \in [Agents -> Seq(Offers)] /\ inbox'[1] = Append(inbox[1], m)
       /\ \A k \in Agents \ {1} : inbox'[k] = inbox[k]
  <2>1. Append(inbox[1], m) \in Seq(Offers)
    BY <1>2, <1>7
  <2>2. QED
    BY <1>2, <1>5, <2>1, OneChanges
<1>12. /\ notifications' \in [Agents -> Seq(Nat)]
       /\ Awaited(a.op, notifications[0], notifications'[0])
       /\ \A k \in Agents \ {0} : notifications'[k] = notifications[k]
  BY <1>1, <1>2, AwaitFacts DEF a
<1>13. FillInv'
  <2>1. /\ fill'.wi = fill.wi /\ fill'.co = fill.co /\ fill'.offset = 0
        /\ fill'.bucket_meta = <<>> /\ weights' = weights
    BY <1>1, <1>8
  <2>2. /\ weights \in Seq(Nat \ {0})
        /\ fill.wi \in 1..Len(weights) + 1
        /\ fill.wi <= Len(weights) => fill.co < weights[fill.wi]
        /\ fill.wi > Len(weights) => fill.co = 0
        /\ fill.co > 0 => weights[fill.wi] > BucketSize
    BY <1>2 DEF FillInv
  <2>3. QED
    BY <2>1, <2>2 DEF FillInv
<1>14. LinkOK(0)'
  <2> DEFINE c == agent[1]
             q == inbox[1]
             r == inbox'[1]
             n == notifications[0]
             k == notifications'[0]
  <2>1. /\ agent'[1] = c /\ OperationOK(a, c, q, n) /\ FillOK(a, fill, OfferedTo(c, q))
        /\ q \in Seq(Offers) /\ n \in Seq(Nat)
    BY <1>2, <1>10 DEF LinkOK, a
  <2>2. r = Append(q, m) /\ Awaited(a.op, n, k)
    BY <1>11, <1>12
  <2> HIDE DEF c, q, r, n, k
  <2>3. q = <<>> /\ k = <<>> /\ c.xfer.state # "running"
    <3>1. PICK z : z = [op |-> 0]
      OBVIOUS
    <3>2. z.op = 0
      BY <3>1
    <3>3. QED
      BY <2>1, <2>2, <3>2, AwaitedLink, ZenonT(60)
  <2>4. r = <<m>> /\ Len(r) = 1 /\ r[1] = m /\ r # <<>>
    BY <1>7, <2>2, <2>3
  <2>5. OperationOK(b, c, r, k)
    BY <1>7, <1>9, <2>3, <2>4 DEF OperationOK, Waiting
  <2>6. OfferOK(c, r)
    <3>1. FillOK(a, fill, ReadTo(c))
      BY <2>1, <2>3 DEF OfferedTo
    <3>2. Begins(fill.bucket_meta, ReadTo(c))
      BY <1>1, <3>1 DEF FillOK, Begins
    <3>3. QED
      BY <1>6, <1>7, <2>4, <3>2 DEF OfferOK
  <2>7. OfferedTo(c, r) = EndOf(fill.bucket_meta)
    BY <1>6, <1>7, <2>4 DEF OfferedTo
  <2>8. FillOK(b, g, OfferedTo(c, r))
    <3>1. fill.bucket_meta # <<>> => EndOf(fill.bucket_meta) = <<fill.wi, fill.co>>
      BY <1>2 DEF SenderOK
    <3>2. QED
      BY <1>6, <1>8, <1>9, <2>7, <3>1 DEF FillOK
  <2>9. HandOK(b, OfferedTo(c, r))
    BY <1>9 DEF HandOK
  <2>10. 0 + 1 = 1 /\ agent'[0] = b /\ fill' = g
    BY <1>1, <1>2, <1>10
  <2>11. QED
    BY <2>1, <2>5, <2>6, <2>8, <2>9, <2>10, Zenon DEF LinkOK, r, k
<1>15. SenderOK(agent'[0], stream'[0], fill')
  BY <1>1, <1>9, <1>10
<1>16. fill' \in FillStates /\ stream' \in [Agents -> Seq(Copies)]
       /\ \A k \in Agents \ {0} : agent'[k] = agent[k] /\ stream'[k] = stream[k]
  BY <1>1, <1>2, <1>8, <1>10
<1>17. QED
  BY <1>1, <1>2, <1>10, <1>11, <1>12, <1>13, <1>14, <1>15, <1>16, SenderFrame

\* The last bucket has been read.
LEMMA FinishSendStep ==
    ASSUME ChainIInv, FinishSend
    PROVE  ChainIInv'
<1> DEFINE a == agent[0]
           b == [a EXCEPT !.phase = "done", !.op = 0]
<1>1. /\ a.phase = "last" /\ AwaitRead(0)
      /\ agent' = [agent EXCEPT ![0].phase = "done", ![0].op = 0]
      /\ UNCHANGED <<weights, workers, stage, version, peers, fill, inbox, stream>>
  BY DEF FinishSend
<1>2. /\ stage = "update" /\ 0 \in Agents /\ 1 \in Agents /\ 1 # 0 /\ 0 + 1 = 1
      /\ a \in AgentStates /\ SenderOK(a, stream[0], fill) /\ LinkOK(0)
      /\ FillInv /\ fill \in FillStates /\ notifications[0] \in Seq(Nat)
      /\ agent \in [Agents -> AgentStates] /\ inbox \in [Agents -> Seq(Offers)]
      /\ notifications \in [Agents -> Seq(Nat)] /\ stream \in [Agents -> Seq(Copies)]
  BY <1>1, SenderStart
<1>3. agent' = [agent EXCEPT ![0] = b]
  BY <1>1, <1>2
<1>4. b = Record("done", a.side, 0, a.keys, a.meta, a.ahead, a.xfer, a.done, a.merge)
  BY <1>2, DoneRecord
<1> HIDE DEF a, b
<1>5. /\ b \in AgentStates /\ b.phase = "done" /\ b.op = 0 /\ b.xfer = a.xfer
      /\ b.side = a.side
  <2>1. /\ a.side \in {0, 1} /\ a.keys \in Nat /\ a.meta \in Metas /\ a.ahead \in Metas
        /\ a.xfer \in Transfers /\ a.done \in Nat /\ a.merge \in Merges
    BY <1>2, Fields
  <2>2. QED
    BY <1>4, <2>1 DEF AgentStates, Record, Phases
<1>6. /\ agent' \in [Agents -> AgentStates] /\ agent'[0] = b
      /\ \A k \in Agents \ {0} : agent'[k] = agent[k]
  BY <1>2, <1>3, <1>5, OneChanges
<1>7. /\ notifications' \in [Agents -> Seq(Nat)]
      /\ Awaited(a.op, notifications[0], notifications'[0])
      /\ \A k \in Agents \ {0} : notifications'[k] = notifications[k]
  BY <1>1, <1>2, AwaitFacts DEF a
<1>8. SenderOK(agent'[0], stream'[0], fill')
  <2>1. SenderOK(b, stream[0], fill)
    BY <1>1, <1>2, <1>5 DEF SenderOK, SideOK
  <2>2. QED
    BY <1>1, <1>6, <2>1
<1>9. LinkOK(0)'
  <2>1. agent'[0 + 1] = agent[0 + 1] /\ inbox'[0 + 1] = inbox[0 + 1]
    BY <1>1, <1>2, <1>6
  <2>2. HandOK(agent'[0], OfferedTo(agent[0 + 1], inbox[0 + 1]))
    BY <1>5, <1>6 DEF HandOK
  <2>3. agent'[0].op = 0 /\ agent'[0].phase # "fill"
    BY <1>5, <1>6
  <2>4. QED
    BY <1>2, <1>7, <2>1, <2>2, <2>3, AwaitedOut DEF a
<1>10. FillInv'
  BY <1>1, <1>2, Zenon DEF FillInv
<1>11. QED
  BY <1>1, <1>2, <1>6, <1>7, <1>8, <1>9, <1>10, SenderFrame

-----------------------------------------------------------------------------
(* Steps of the manager *)

\* An agent as an update finds it.
LEMMA FreshFacts ==
    ASSUME NEW i, NEW ks \in Nat, NEW a, a = Fresh(i, ks)
    PROVE  /\ a \in AgentStates /\ a.op = 0 /\ a.xfer.state = "none"
           /\ a.phase = (IF i = 0 THEN "fill" ELSE "first")
           /\ Agrees(a.merge, FirstPos)
<1>1. NoBucket \in Metas
  BY DEF NoBucket, Metas
<1>2. NoTransfer \in Transfers /\ NoTransfer.state = "none"
  BY DEF NoTransfer, Transfers
<1>3. StartMerge \in Merges /\ StartMerge.name = 0
  BY DEF StartMerge, Merges
<1>4. a = Record(IF i = 0 THEN "fill" ELSE "first", 0, 0, ks, NoBucket, NoBucket,
                 NoTransfer, 0, StartMerge)
  BY DEF Fresh, Record
<1>5. /\ a \in AgentStates /\ a.op = 0 /\ a.xfer = NoTransfer /\ a.merge = StartMerge
      /\ a.phase = (IF i = 0 THEN "fill" ELSE "first")
  BY <1>1, <1>2, <1>3, <1>4 DEF AgentStates, Record, Phases
<1>6. QED
  BY <1>2, <1>3, <1>5 DEF Agrees, FirstPos

\* The generator at the beginning.
LEMMA StartFacts ==
    /\ StartFill \in FillStates /\ StartFill.wi = 1 /\ StartFill.co = 0
    /\ StartFill.offset = 0 /\ StartFill.bucket_meta = <<>>
<1>1. BucketSize \in Nat
  BY TransferConstants
<1>2. QED
  BY <1>1 DEF StartFill, FillStates

\* split_weight_chunks is at its beginning, and so is the packing loop.
LEMMA StartInv ==
    ASSUME NEW w \in Seq(Nat \ {0}), weights' = w, fill' = StartFill
    PROVE  FillInv'
<1>1. Len(w) \in Nat /\ (1 <= Len(w) => w[1] \in Nat \ {0})
  OBVIOUS
<1>2. /\ fill'.wi = 1 /\ fill'.co = 0 /\ fill'.offset = 0 /\ fill'.bucket_meta = <<>>
      /\ weights' = w
  BY StartFacts
<1>3. QED
  BY <1>1, <1>2 DEF FillInv

\* prepare, build_topology and init_process_group.
LEMMA BeginUpdateStep ==
    ASSUME ChainIInv, BeginUpdate
    PROVE  ChainIInv'
<1>1. /\ stage = "idle" /\ version < MaxUpdates
      /\ UNCHANGED <<weights, workers, inbox, notifications, stream>>
  BY DEF BeginUpdate
<1>2. /\ workers \in Nat \ {0} /\ version \in 0..MaxUpdates /\ Types /\ FillInv
      /\ fill \in FillStates
      /\ agent \in [Agents -> AgentStates] /\ inbox \in [Agents -> Seq(Offers)]
      /\ notifications \in [Agents -> Seq(Nat)] /\ stream \in [Agents -> Seq(Copies)]
  BY DEF ChainIInv, Types, ManagerTypes, TransferTypes
<1>3. \A i \in Agents :
          /\ inbox[i] = <<>> /\ notifications[i] = <<>> /\ stream[i] = <<>>
          /\ agent[i].op = 0 /\ agent[i].phase = "done" /\ agent[i].xfer.state = "none"
  BY <1>1 DEF ChainIInv, QuietInv
<1>4. MaxUpdates \in Nat /\ Agents' = Agents /\ Workers' = Workers
  BY <1>1, TransferConstants DEF Agents, Workers
<1>5. CASE /\ ~TopologyAsserts(BuildTopology) /\ stage' = "aborted"
           /\ UNCHANGED <<version, peers, fill, agent>>
  <2>1. workers = 1
    BY <1>2, <1>5, TopologyFacts
  <2>2. ManagerTypes'
    BY <1>1, <1>2, <1>5, <2>1 DEF ManagerTypes
  <2>3. TransferTypes'
    BY <1>1, <1>2, <1>4, <1>5, Zenon DEF TransferTypes
  <2>4. FillInv'
    BY <1>1, <1>2, <1>5, Zenon DEF FillInv
  <2>5. QuietInv'
    BY <1>1, <1>3, <1>4, <1>5, Zenon DEF QuietInv
  <2>6. UpdateInv'
    BY <1>5 DEF UpdateInv
  <2>7. QED
    BY <2>2, <2>3, <2>4, <2>5, <2>6 DEF ChainIInv, Types
<1>6. ASSUME NEW t, t = BuildTopology, TopologyAsserts(t), stage' = "update",
             version' = version + 1,
             peers' = [prev |-> [i \in Agents |-> IF i = 0 THEN NoAgent ELSE t.prev[i]],
                       next |-> [i \in Agents |-> IF i = 0 THEN t.first ELSE t.next[i]]],
             fill' = StartFill, agent' = [i \in Agents |-> Fresh(i, agent[i].keys)]
      PROVE  ChainIInv'
  <2>1. workers > 1 /\ workers \in Nat
    BY <1>2, <1>6, TopologyFacts
  <2>2. /\ t.first = 1
        /\ \A i \in Workers : /\ t.prev[i] = i - 1
                              /\ t.next[i] = IF i = workers THEN NoAgent ELSE i + 1
    BY <1>2, <1>6, <2>1, TopologyFacts
  <2>3. ASSUME NEW i \in Agents
        PROVE  /\ agent'[i] \in AgentStates /\ agent'[i].op = 0
               /\ agent'[i].xfer.state = "none"
               /\ agent'[i].phase = (IF i = 0 THEN "fill" ELSE "first")
               /\ Agrees(agent'[i].merge, FirstPos)
    <3>1. agent'[i] = Fresh(i, agent[i].keys) /\ agent[i].keys \in Nat
      BY <1>2, <1>6, Fields
    <3>2. QED
      BY <3>1, FreshFacts
  <2>4. ManagerTypes'
    <3>1. version + 1 \in 0..MaxUpdates
      BY <1>1, <1>2, <1>4
    <3>2. QED
      BY <1>1, <1>2, <1>6, <3>1 DEF ManagerTypes
  <2>5. agent' \in [Agents -> AgentStates]
    BY <1>6, <2>3
  <2>6. TransferTypes'
    BY <1>1, <1>2, <1>4, <1>6, <2>5, StartFacts, Zenon DEF TransferTypes
  <2>7. FillInv'
    <3>1. weights \in Seq(Nat \ {0})
      BY <1>2 DEF FillInv
    <3>2. QED
      BY <1>1, <1>6, <3>1, StartInv
  <2>8. ChainOK'
    <3>1. ASSUME NEW i \in 0..workers - 1
          PROVE  peers'.next[i] = i + 1 /\ peers'.prev[i + 1] = i
      <4>1. /\ i \in Agents /\ i + 1 \in Agents /\ i + 1 \in Workers /\ i # workers
            /\ i + 1 # 0 /\ (i + 1) - 1 = i /\ (i # 0 => i \in Workers)
        BY <2>1 DEF Agents, Workers
      <4>2. peers'.next[i] = (IF i = 0 THEN t.first ELSE t.next[i])
            /\ peers'.prev[i + 1] = t.prev[i + 1]
        BY <1>6, <4>1
      <4>3. CASE i = 0
        BY <2>2, <4>1, <4>2, <4>3
      <4>4. CASE i # 0
        BY <2>2, <4>1, <4>2, <4>4
      <4>5. QED
        BY <4>3, <4>4
    <3>2. peers'.next[workers] = NoAgent
      <4>1. workers \in Agents /\ workers # 0 /\ workers \in Workers
        BY <2>1 DEF Agents, Workers
      <4>2. QED
        BY <1>6, <2>2, <4>1
    <3>3. QED
      BY <1>1, <2>1, <3>1, <3>2 DEF ChainOK
  <2>9. 0 \in Agents /\ workers \in Agents
    BY <2>1 DEF Agents
  <2>10. EndsOK'
    BY <1>1, <1>3, <2>3, <2>9 DEF EndsOK
  <2>11. SenderOK(agent'[0], stream'[0], fill')
    <3>1. /\ agent'[0].phase = "fill" /\ agent'[0].op = 0 /\ agent'[0].xfer.state = "none"
          /\ stream'[0] = <<>> /\ fill'.bucket_meta = <<>>
      BY <1>1, <1>3, <1>6, <2>3, <2>9, StartFacts
    <3>2. QED
      BY <3>1 DEF SenderOK, SideOK, Linked
  <2>12. ASSUME NEW i \in Workers PROVE WorkerOK(i)'
    <3>1. i \in Agents /\ i # 0
      BY <2>1 DEF Workers, Agents
    <3>2. /\ agent'[i].phase = "first" /\ agent'[i].op = 0 /\ agent'[i].xfer.state = "none"
          /\ stream'[i] = <<>> /\ Agrees(agent'[i].merge, FirstPos)
      BY <1>1, <1>3, <2>3, <3>1
    <3>3. QED
      BY <3>2 DEF WorkerOK, PhaseOK, SideOK, ChunksOK, InHand
  <2>13. ASSUME NEW i \in 0..workers - 1 PROVE LinkOK(i)'
    <3>1. i \in Agents /\ i + 1 \in Agents /\ i + 1 # 0
      BY <2>1 DEF Agents
    <3>2. /\ agent'[i].phase \in {"fill", "first"} /\ agent'[i].op = 0
          /\ agent'[i + 1].phase = "first" /\ agent'[i + 1].xfer.state = "none"
          /\ inbox'[i + 1] = <<>> /\ notifications'[i] = <<>>
      BY <1>1, <1>3, <2>3, <3>1
    <3>3. OfferedTo(agent'[i + 1], inbox'[i + 1]) = FirstPos
      BY <3>2 DEF OfferedTo, ReadTo, HandedTo
    <3>4. FillOK(agent'[i], fill', FirstPos) /\ HandOK(agent'[i], FirstPos)
      BY <1>6, <3>2, StartFacts DEF FillOK, HandOK, FirstPos
    <3>5. /\ OperationOK(agent'[i], agent'[i + 1], inbox'[i + 1], notifications'[i])
          /\ OfferOK(agent'[i + 1], inbox'[i + 1])
      BY <3>2 DEF OperationOK, Untouched, OfferOK
    <3>6. QED
      BY <3>3, <3>4, <3>5, Zenon DEF LinkOK
  <2>14. UpdateInv'
    BY <1>1, <1>4, <2>8, <2>10, <2>11, <2>12, <2>13, Zenon DEF UpdateInv
  <2>15. QuietInv'
    BY <1>6 DEF QuietInv
  <2>16. QED
    BY <2>4, <2>6, <2>7, <2>14, <2>15 DEF ChainIInv, Types
<1>7. QED
  BY <1>5, <1>6 DEF BeginUpdate

\* All agents have returned: nothing is on the way between them.
LEMMA FinalizeStep ==
    ASSUME ChainIInv, Finalize
    PROVE  ChainIInv'
<1>1. /\ stage = "update" /\ (\A i \in Agents : agent[i].phase = "done") /\ stage' = "idle"
      /\ UNCHANGED <<weights, workers, version, fill, agent, inbox, notifications, stream>>
  BY DEF Finalize
<1>2. /\ workers \in Nat /\ EndsOK /\ Types /\ FillInv
  BY <1>1, UpdateFacts
<1>3. Agents' = Agents
  BY <1>1 DEF Agents
<1>4. ASSUME NEW i \in Agents
      PROVE  agent[i].op = 0 /\ stream[i] = <<>> /\ agent[i].xfer.state = "none"
  <2>1. CASE i = 0
    <3>1. SenderOK(agent[i], stream[i], fill)
      BY <1>1, <2>1, AgentFacts
    <3>2. QED
      BY <1>1, <3>1 DEF SenderOK
  <2>2. CASE i # 0
    <3>1. WorkerOK(i)
      BY <1>1, <2>2, AgentFacts
    <3>2. QED
      BY <1>1, <3>1 DEF WorkerOK, PhaseOK
  <2>3. QED
    BY <2>1, <2>2
<1>5. ASSUME NEW i \in Agents PROVE inbox[i] = <<>>
  <2>1. CASE i = 0
    BY <1>2, <2>1 DEF EndsOK
  <2>2. CASE i # 0
    <3>1. i \in Int /\ i - 1 \in Agents /\ LinkOK(i - 1)
      BY <1>1, <2>2, AgentFacts
    <3>2. (i - 1) + 1 = i /\ agent[i - 1].op = 0
      BY <1>4, <3>1
    <3>3. QED
      BY <3>1, <3>2 DEF LinkOK, OperationOK, Untouched
  <2>3. QED
    BY <2>1, <2>2
<1>6. ASSUME NEW i \in Agents PROVE notifications[i] = <<>>
  <2>1. CASE i = workers
    BY <1>2, <2>1 DEF EndsOK
  <2>2. CASE i # workers
    <3>1. LinkOK(i)
      BY <1>1, <2>2, AgentFacts
    <3>2. QED
      BY <1>4, <3>1 DEF LinkOK, OperationOK, Untouched
  <2>3. QED
    BY <2>1, <2>2
<1>7. QuietInv'
  BY <1>1, <1>3, <1>4, <1>5, <1>6, Zenon DEF QuietInv
<1>8. ManagerTypes'
  BY <1>1, <1>2 DEF Types, ManagerTypes
<1>9. TransferTypes'
  BY <1>1, <1>2, <1>3, Zenon DEF Types, TransferTypes
<1>10. FillInv'
  BY <1>1, <1>2, Zenon DEF FillInv
<1>11. UpdateInv'
  BY <1>1 DEF UpdateInv
<1>12. QED
  BY <1>7, <1>8, <1>9, <1>10, <1>11 DEF ChainIInv, Types

-----------------------------------------------------------------------------
(* The theorem *)

\* Before the first update nothing goes on.
LEMMA ChainInit == Init => ChainIInv
<1> SUFFICES ASSUME Init PROVE ChainIInv
  OBVIOUS
<1>1. /\ weights \in WeightLists /\ workers \in RolloutSizes /\ stage = "idle" /\ version = 0
      /\ fill = StartFill
      /\ agent = [i \in Agents |-> [Fresh(i, 0) EXCEPT !.phase = "done"]]
      /\ inbox = [i \in Agents |-> <<>>] /\ notifications = [i \in Agents |-> <<>>]
      /\ stream = [i \in Agents |-> <<>>]
  BY DEF Init
<1>2. workers \in Nat \ {0} /\ MaxUpdates \in Nat /\ weights \in Seq(Nat \ {0})
  BY <1>1, NixlAssumption
<1>3. ASSUME NEW i \in Agents
      PROVE  /\ agent[i] \in AgentStates /\ agent[i].op = 0 /\ agent[i].phase = "done"
             /\ agent[i].xfer.state = "none"
  <2> DEFINE a == Fresh(i, 0)
  <2>1. a \in AgentStates /\ a.op = 0 /\ a.xfer.state = "none"
    BY FreshFacts
  <2>2. agent[i] = [a EXCEPT !.phase = "done"]
    BY <1>1
  <2> HIDE DEF a
  <2>3. /\ a.side \in {0, 1} /\ a.op \in Nat /\ a.keys \in Nat /\ a.meta \in Metas
        /\ a.ahead \in Metas /\ a.xfer \in Transfers /\ a.done \in Nat /\ a.merge \in Merges
    BY <2>1, Fields
  <2>4. agent[i] = Record("done", a.side, a.op, a.keys, a.meta, a.ahead, a.xfer, a.done,
                          a.merge)
    BY <2>1, <2>2 DEF AgentStates, Record
  <2>5. QED
    BY <2>1, <2>3, <2>4 DEF AgentStates, Record, Phases
<1>4. /\ agent \in [Agents -> AgentStates] /\ inbox \in [Agents -> Seq(Offers)]
      /\ notifications \in [Agents -> Seq(Nat)] /\ stream \in [Agents -> Seq(Copies)]
  BY <1>1, <1>3
<1>5. Types
  BY <1>1, <1>2, <1>4, StartFacts DEF Types, ManagerTypes, TransferTypes
<1>6. FillInv
  <2>1. Len(weights) \in Nat /\ (1 <= Len(weights) => weights[1] \in Nat \ {0})
    BY <1>2
  <2>2. /\ fill.wi = 1 /\ fill.co = 0 /\ fill.offset = 0 /\ fill.bucket_meta = <<>>
    BY <1>1, StartFacts
  <2>3. QED
    BY <1>2, <2>1, <2>2 DEF FillInv
<1>7. QuietInv
  BY <1>1, <1>3 DEF QuietInv
<1>8. UpdateInv
  BY <1>1 DEF UpdateInv
<1>9. QED
  BY <1>5, <1>6, <1>7, <1>8 DEF ChainIInv

\* Every step keeps the invariant.
LEMMA ChainNext == ChainIInv /\ [Next]_vars => ChainIInv'
<1> SUFFICES ASSUME ChainIInv, [Next]_vars PROVE ChainIInv'
  OBVIOUS
<1>1. CASE BeginUpdate
  BY <1>1, BeginUpdateStep
<1>2. CASE Finalize
  BY <1>2, FinalizeStep
<1>3. CASE SenderStep
  BY <1>3, FillChunkStep, SendBucketStep, FinishSendStep DEF SenderStep
<1>4. CASE CopyIn
  BY <1>4, CopyInStep
<1>5. ASSUME NEW i \in Workers, Step(i) PROVE ChainIInv'
  BY <1>5, BeginReadStep, FirstBucketStep, ForwardStep, YieldChunkStep, EndRoundStep,
     FinishReceiveStep DEF Step
<1>6. ASSUME NEW i \in Workers, EndTransfer(i) PROVE ChainIInv'
  BY <1>6, EndTransferStep
<1>7. ASSUME NEW i \in Workers, CopyOut(i) PROVE ChainIInv'
  BY <1>7, CopyOutStep
<1>8. CASE UNCHANGED vars
  <2>1. /\ UNCHANGED <<weights, workers, stage, version, peers, fill, agent, inbox,
                       notifications, stream>>
    BY <1>8 DEF vars
  <2>2. Agents' = Agents /\ Workers' = Workers
    BY <2>1 DEF Agents, Workers
  <2>3. Types'
    BY <2>1, <2>2, Zenon DEF ChainIInv, Types, ManagerTypes, TransferTypes
  <2>4. FillInv'
    BY <2>1, Zenon DEF ChainIInv, FillInv
  <2>5. QuietInv'
    BY <2>1, <2>2, Zenon DEF ChainIInv, QuietInv
  <2>6. UpdateInv'
    <3>1. ASSUME NEW i, WorkerOK(i) PROVE WorkerOK(i)'
      BY <2>1, <3>1, Zenon DEF WorkerOK
    <3>2. ASSUME NEW i, LinkOK(i) PROVE LinkOK(i)'
      BY <2>1, <3>2, Zenon DEF LinkOK
    <3>3. ChainOK /\ EndsOK => ChainOK' /\ EndsOK'
      BY <2>1, Zenon DEF ChainOK, EndsOK
    <3>4. QED
      BY <2>1, <2>2, <3>1, <3>2, <3>3, Zenon DEF ChainIInv, UpdateInv
  <2>7. QED
    BY <2>3, <2>4, <2>5, <2>6 DEF ChainIInv
<1>9. QED
  BY <1>1, <1>2, <1>3, <1>4, <1>5, <1>6, <1>7, <1>8 DEF Next

\* A buffer being filled is not the one that is offered, read or copied from.
LEMMA BuffersExclude == ChainIInv => BufferExclusive
<1> SUFFICES ASSUME ChainIInv, NEW i \in Agents, NEW s \in {0, 1},
                    BeingFilled(i, s), StillRead(i, s)
             PROVE  FALSE
  BY DEF BufferExclusive
<1>1. stage = "update"
  <2>1. agent[i].xfer.state # "none" \/ stream[i] # <<>>
    BY DEF BeingFilled
  <2>2. QED
    BY <2>1, BusyInUpdate
<1>2. /\ workers \in Nat /\ ChainOK /\ Agents = 0..workers /\ Workers = 1..workers
      /\ (\A k \in 0..workers - 1 : LinkOK(k)) /\ SenderOK(agent[0], stream[0], fill)
  BY <1>1, UpdateFacts
<1>3. /\ i \in Int /\ agent[i] \in AgentStates /\ stream[i] \in Seq(Copies)
      /\ (i # 0 => WorkerOK(i)) /\ agent[i].side \in {0, 1}
  BY <1>1, AgentFacts, Fields
<1>4. s # OfferSide(agent[i])
  <2>1. CASE i = 0
    <3>1. \E k \in 1..Len(stream[0]) : stream[0][k].side = s
      BY <2>1 DEF BeingFilled
    <3>2. s = agent[0].side /\ stream[0] # <<>>
      BY <1>2, <3>1 DEF SenderOK, SideOK
    <3>3. agent[0].phase = "fill"
      BY <1>2, <3>2 DEF SenderOK
    <3>4. QED
      BY <1>3, <2>1, <3>2, <3>3 DEF OfferSide
  <2>2. CASE i # 0
    <3>1. s = 1 - agent[i].side
      BY <2>2 DEF BeingFilled
    <3>2. agent[i].phase # "fill"
      BY <1>3, <2>2 DEF WorkerOK, PhaseOK
    <3>3. QED
      BY <1>3, <3>1, <3>2 DEF OfferSide
  <2>3. QED
    BY <2>1, <2>2
<1>5. ASSUME NEW j \in Workers, peers.prev[j] = i,
             \/ agent[j].xfer.state = "running" /\ agent[j].xfer.src = s
             \/ \E k \in 1..Len(inbox[j]) : inbox[j][k].side = s
      PROVE  FALSE
  <2>1. j - 1 \in 0..workers - 1 /\ (j - 1) + 1 = j
    BY <1>2
  <2>2. i = j - 1 /\ LinkOK(j - 1)
    <3>1. peers.prev[(j - 1) + 1] = j - 1 /\ LinkOK(j - 1)
      BY <1>2, <2>1 DEF ChainOK
    <3>2. QED
      BY <1>5, <2>1, <3>1
  <2>3. OperationOK(agent[i], agent[j], inbox[j], notifications[i])
    BY <2>1, <2>2 DEF LinkOK
  <2>4. CASE agent[j].xfer.state = "running" /\ agent[j].xfer.src = s
    BY <1>4, <2>3, <2>4 DEF OperationOK, Untouched, Waiting, Running, Notified
  <2>5. CASE \E k \in 1..Len(inbox[j]) : inbox[j][k].side = s
    <3>1. inbox[j] # <<>>
      BY <2>5
    <3>2. Len(inbox[j]) = 1 /\ inbox[j][1].side = OfferSide(agent[i])
      BY <2>3, <3>1 DEF OperationOK, Untouched, Waiting, Running, Notified
    <3>3. QED
      BY <1>4, <2>5, <3>2
  <2>6. QED
    BY <1>5, <2>4, <2>5
<1>6. ASSUME i > 0, NEW k \in 1..Len(stream[i]), stream[i][k].side = s PROVE FALSE
  <2>1. i # 0 /\ s = 1 - agent[i].side
    BY <1>3, <1>6 DEF BeingFilled
  <2>2. SideOK(agent[i], stream[i])
    BY <1>3, <2>1 DEF WorkerOK
  <2>3. s = agent[i].side
    BY <1>6, <2>2 DEF SideOK
  <2>4. QED
    BY <1>3, <2>1, <2>3
<1>7. QED
  BY <1>5, <1>6 DEF StillRead

\* The assertions in the transfer hold.
LEMMA AssertionsHold == ChainIInv => NoAssertionFails
<1> SUFFICES ASSUME ChainIInv PROVE NoAssertionFails
  OBVIOUS
<1>1. ASSUME MoreChunks(weights, fill), Fits(weights, fill)
      PROVE  FillAsserts(weights, fill)
  <2>1. FillInv /\ fill \in FillStates
    BY DEF ChainIInv, Types, TransferTypes
  <2>2. QED
    BY <1>1, <2>1, PutFacts
<1>2. ASSUME NEW i \in Workers, agent[i].phase = "yield", ~Yielded(i)
      PROVE  MergeAsserts(agent[i].merge, agent[i].meta.bucket_meta[agent[i].done + 1])
  <2> DEFINE a == agent[i]
             st == stream[i]
             t == a.meta.bucket_meta[a.done + 1]
             d == a.done + 1
             g == MergeChunk(a.merge, t)
             b == Advanced(a, d, g)
             c == Copy(a.side, t)
  <2>1. /\ a \in AgentStates /\ st \in Seq(Copies)
        /\ PhaseOK(a, st) /\ SideOK(a, st) /\ ChunksOK(a)
    BY <1>2, WorkerStart
  <2>2. a.done < Len(a.meta.bucket_meta)
    <3>1. a.done <= Len(a.meta.bucket_meta)
      BY <1>2, <2>1 DEF ChunksOK, InHand
    <3>2. a.done # Len(a.meta.bucket_meta)
      BY <1>2 DEF Yielded
    <3>3. a.done \in Nat /\ a.meta.bucket_meta \in Seq(Chunks)
      BY <2>1, Fields
    <3>4. QED
      BY <3>1, <3>2, <3>3
  <2>3. /\ b = Advanced(a, d, g) /\ c = Copy(a.side, t)
        /\ t = a.meta.bucket_meta[a.done + 1] /\ d = a.done + 1
        /\ g = MergeChunk(a.merge, t) /\ a.phase = "yield"
    BY <1>2
  <2>4. a.merge \in Merges
    BY <2>1, Fields
  <2> HIDE DEF a, st, t, d, g, b, c
  <2>5. t \in Chunks /\ IsChunk(t) /\ Agrees(a.merge, Pos(t))
    BY <2>1, <2>2, <2>3, ChunkYielded
  <2>6. MergeAsserts(a.merge, t)
    BY <2>4, <2>5, MergeFacts
  <2>7. QED
    BY <2>6 DEF a, t
<1>3. ASSUME NEW i \in Agents, agent[i].op # 0, notifications[i] # <<>>
      PROVE  Head(notifications[i]) = agent[i].op
  <2>1. stage = "update"
    BY <1>3 DEF ChainIInv, QuietInv
  <2>2. i # workers
    BY <1>3, <2>1, UpdateFacts DEF EndsOK
  <2>3. LinkOK(i) /\ notifications[i] \in Seq(Nat)
    BY <2>1, <2>2, AgentFacts
  <2>4. Len(notifications[i]) = 1 /\ notifications[i][1] = agent[i].op
    BY <1>3, <2>3 DEF LinkOK, OperationOK, Waiting, Running, Notified
  <2>5. QED
    BY <1>3, <2>3, <2>4
<1>4. QED
  BY <1>1, <1>2, <1>3 DEF NoAssertionFails

\* The chain of the NIXL engine is sound at every moment, for any number of
\* rollout workers, any weights and any bucket size: build_topology links the
\* agents, no buffer is filled that is still to be read, no assertion of the
\* transfer fails, and nothing is left over for the next update.
THEOREM ChainIsSound == Spec => []ChainInv
<1>1. Init => ChainIInv
  BY ChainInit
<1>2. ChainIInv /\ [Next]_vars => ChainIInv'
  BY ChainNext
<1>3. ChainIInv => ChainInv
  <2> SUFFICES ASSUME ChainIInv PROVE ChainInv
    OBVIOUS
  <2>1. TypeOK
    BY TypesAreTypeOK DEF ChainIInv
  <2>2. TopologyChain
    BY DEF ChainIInv, Types, ManagerTypes, UpdateInv, ChainOK, TopologyChain
  <2>3. QuietBetweenUpdates
    BY DEF ChainIInv, QuietInv, QuietBetweenUpdates
  <2>4. QED
    BY <2>1, <2>2, <2>3, BuffersExclude, AssertionsHold DEF ChainInv
<1>4. QED
  BY <1>1, <1>2, <1>3, PTL DEF Spec

-----------------------------------------------------------------------------
(* The bytes.  What a worker's server has got so far, what is queued and   *)
(* what is in the buffers make up the weights of the update.  These are    *)
(* operators of values: w the sizes of the weights, v the update, s chunks *)
(* of a bucket, q queued copies, g what a server has got.                  *)

Bytes == Nat \X Nat \X Nat
Buffers == [0..BucketSize - 1 -> Bytes]

\* The chunk is one of a weight of the model and lies in the bucket.
Real(w, t) ==
    /\ t.name \in 1..Len(w) /\ t.nbytes = w[t.name]
    /\ t.offset + t.chunk_size <= BucketSize

\* Buffer buf has the bytes of chunk t where the metadata says.
Holds(v, buf, t) ==
    \A o \in t.offset..t.offset + t.chunk_size - 1 :
        buf[o] = Byte(v, t.name, t.chunk_offset + o - t.offset)

Held(w, v, buf, s) == \A k \in 1..Len(s) : Real(w, s[k]) /\ Holds(v, buf, s[k])

\* Chunks lie in the bucket one after the other, up to end.
Packed(s, end) ==
    \A k \in 1..Len(s) :
        /\ s[k].offset + s[k].chunk_size <= end
        /\ \A j \in 1..k - 1 : s[j].offset + s[j].chunk_size <= s[k].offset

\* The chunks queued for copying are the last ones of the bucket, and those
\* before them are in the buffer.
Copying(w, v, buf, s, q) ==
    /\ Len(s) >= Len(q)
    /\ \A k \in 1..Len(s) : Real(w, s[k])
    /\ \A k \in 1..Len(q) : q[k].meta = s[Len(s) - Len(q) + k]
    /\ \A k \in 1..Len(s) - Len(q) : Holds(v, buf, s[k])

\* The chunks of s follow each other without a gap and lead to place e.
Chain(s, e) ==
    \A k \in 1..Len(s) :
        /\ IsChunk(s[k])
        /\ PosAfter(s[k]) = IF k = Len(s) THEN e ELSE Pos(s[k + 1])

Start(s, e) == IF s = <<>> THEN e ELSE Pos(s[1])

\* The metadata of queued copies.
Queued(q) == [k \in 1..Len(q) |-> q[k].meta]

\* Of every weight g has the bytes before place e.
Content(v, n, len) == [k \in 1..len |-> Byte(v, n, k - 1)]
Upto(w, n, e) == IF n < e[1] THEN w[n] ELSE IF n = e[1] THEN e[2] ELSE 0
Received(w, v, g, e) == \A n \in 1..Len(w) : g[n] = Content(v, n, Upto(w, n, e))

\* The place behind the last weight.
WeightsEnd(w) == <<Len(w) + 1, 0>>

\* What a server has after a copy of chunk t.
Copied(g, buf, t) == [g EXCEPT ![t.name] = @ \o Slice(buf, t.offset, t.chunk_size)]

Sizes == Seq(Nat \ {0})
Servers(w) == [1..Len(w) -> Seq(Bytes)]

\* A chunk is not empty and lies in its weight.
LEMMA ChunkFacts ==
    ASSUME NEW w \in Sizes, NEW t \in Chunks, IsChunk(t), Real(w, t)
    PROVE  /\ t.name \in 1..Len(w) /\ w[t.name] \in Nat /\ t.nbytes = w[t.name]
           /\ t.chunk_offset \in Nat /\ t.chunk_size \in Nat /\ t.offset \in Nat
           /\ t.chunk_size >= 1 /\ t.chunk_offset + t.chunk_size <= w[t.name]
           /\ t.offset + t.chunk_size <= BucketSize
<1>1. /\ t.name \in 1..Len(w) /\ t.nbytes = w[t.name]
      /\ t.offset + t.chunk_size <= BucketSize
  BY DEF Real
<1>2. /\ t.nbytes \in Nat /\ t.chunk_offset \in Nat /\ t.chunk_size \in Nat /\ t.offset \in Nat
  BY DEF Chunks
<1>3. /\ t.chunk_offset < t.nbytes
      /\ t.chunk_size = IF t.nbytes - t.chunk_offset < BucketSize
                        THEN t.nbytes - t.chunk_offset ELSE BucketSize
  BY DEF IsChunk
<1>4. t.chunk_size >= 1 /\ t.chunk_offset + t.chunk_size <= t.nbytes
  BY <1>2, <1>3, TransferConstants
<1>5. QED
  BY <1>1, <1>2, <1>4

\* Contents are sequences of bytes.
LEMMA ContentFacts ==
    ASSUME NEW v \in Nat, NEW n \in Nat, NEW len \in Nat
    PROVE  Content(v, n, len) \in Seq(Bytes) /\ Len(Content(v, n, len)) = len
<1>1. \A k \in 1..len : Byte(v, n, k - 1) \in Bytes
  BY DEF Byte, Bytes
<1> DEFINE b(k) == Byte(v, n, k - 1)
<1>2. \A k \in 1..len : b(k) \in Bytes
  BY <1>1
<1> HIDE DEF b
<1>3. [k \in 1..len |-> b(k)] \in Seq(Bytes) /\ Len([k \in 1..len |-> b(k)]) = len
  BY <1>2
<1>4. QED
  BY <1>3 DEF Content, b

\* What a chunk adds to the contents before it.
LEMMA ContentGrows ==
    ASSUME NEW v \in Nat, NEW t \in Chunks, NEW buf, Holds(v, buf, t)
    PROVE  Content(v, t.name, t.chunk_offset) \o Slice(buf, t.offset, t.chunk_size)
             = Content(v, t.name, t.chunk_offset + t.chunk_size)
<1> DEFINE n == t.name
           a == t.chunk_offset
           size == t.chunk_size
           o == t.offset
<1>0. /\ n \in Nat /\ a \in Nat /\ size \in Nat /\ o \in Nat
      /\ \A i \in o..o + size - 1 : buf[i] = Byte(v, n, a + i - o)
  BY DEF Chunks, Holds
<1> HIDE DEF n, a, size, o
<1> USE <1>0
<1> DEFINE c == Content(v, n, a)
           d == Content(v, n, a + size)
           s == Slice(buf, o, size)
<1>1. c \in Seq(Bytes) /\ Len(c) = a /\ d \in Seq(Bytes) /\ Len(d) = a + size
  BY ContentFacts
<1>2. ASSUME NEW k \in 1..size PROVE s[k] = Byte(v, n, a + k - 1) /\ s[k] \in Bytes
  <2>1. s[k] = buf[o + k - 1] /\ o + k - 1 \in o..o + size - 1
    BY DEF Slice
  <2>2. buf[o + k - 1] = Byte(v, n, a + (o + k - 1) - o)
    BY <2>1
  <2>3. a + (o + k - 1) - o = a + k - 1 /\ a + k - 1 \in Nat
    OBVIOUS
  <2>4. s[k] = Byte(v, n, a + k - 1)
    BY <2>1, <2>2, <2>3
  <2>5. QED
    BY <2>3, <2>4 DEF Byte, Bytes
<1>3. s \in Seq(Bytes) /\ Len(s) = size
  <2>1. s = [k \in 1..size |-> s[k]]
    BY DEF Slice
  <2> HIDE DEF s
  <2>2. QED
    BY <1>2, <2>1
<1>4. /\ c \o s \in Seq(Bytes) /\ Len(c \o s) = a + size
      /\ \A k \in 1..a + size : (c \o s)[k] = IF k <= a THEN c[k] ELSE s[k - a]
  <2> HIDE DEF c, s
  <2>1. QED
    BY <1>1, <1>3
<1>5. ASSUME NEW k \in 1..a + size PROVE (c \o s)[k] = d[k]
  <2>1. d[k] = Byte(v, n, k - 1)
    BY DEF Content
  <2>2. CASE k <= a
    <3>1. k \in 1..a
      BY <2>2
    <3>2. c[k] = Byte(v, n, k - 1)
      BY <3>1 DEF Content
    <3> HIDE DEF c, d, s
    <3>3. QED
      BY <1>4, <2>1, <2>2, <3>2
  <2>3. CASE k > a
    <3>1. k - a \in 1..size /\ a + (k - a) - 1 = k - 1 /\ ~(k <= a)
      BY <2>3
    <3>2. s[k - a] = Byte(v, n, k - 1)
      BY <1>2, <3>1
    <3> HIDE DEF c, d, s
    <3>3. QED
      BY <1>4, <2>1, <3>1, <3>2
  <2>4. k <= a \/ k > a
    OBVIOUS
  <2>5. QED
    BY <2>2, <2>3, <2>4
<1> HIDE DEF c, d, s
<1>6. c \o s = d
  <2> DEFINE e == c \o s
  <2>1. /\ e \in Seq(Bytes) /\ d \in Seq(Bytes) /\ Len(e) = Len(d)
        /\ \A k \in 1..Len(e) : e[k] = d[k]
    BY <1>1, <1>4, <1>5
  <2> HIDE DEF e
  <2>2. e = d
    BY <2>1
  <2>3. QED
    BY <2>2 DEF e
<1>7. QED
  BY <1>6 DEF c, d, s, n, a, size, o

\* How far a weight reaches, when place e is where chunk t begins, and where it
\* ends.
LEMMA UptoFacts ==
    ASSUME NEW w \in Sizes, NEW t \in Chunks, IsChunk(t), Real(w, t), NEW n \in 1..Len(w)
    PROVE  /\ Upto(w, n, Pos(t)) \in Nat /\ Upto(w, n, PosAfter(t)) \in Nat
           /\ n < t.name => Upto(w, n, Pos(t)) = w[n]
           /\ n = t.name => /\ Upto(w, n, Pos(t)) = t.chunk_offset
                            /\ Upto(w, n, PosAfter(t)) = t.chunk_offset + t.chunk_size
           /\ n # t.name => Upto(w, n, PosAfter(t)) = Upto(w, n, Pos(t))
<1>1. /\ t.name \in 1..Len(w) /\ w[t.name] \in Nat /\ t.nbytes = w[t.name]
      /\ t.chunk_offset \in Nat /\ t.chunk_size \in Nat
      /\ t.chunk_offset + t.chunk_size <= w[t.name]
  BY ChunkFacts
<1>2. w[n] \in Nat /\ Len(w) \in Nat
  BY DEF Sizes
<1>3. Pos(t)[1] = t.name /\ Pos(t)[2] = t.chunk_offset
  BY DEF Pos
<1>4. /\ Upto(w, n, Pos(t)) \in Nat
      /\ n < t.name => Upto(w, n, Pos(t)) = w[n]
      /\ n = t.name => Upto(w, n, Pos(t)) = t.chunk_offset
      /\ n > t.name => Upto(w, n, Pos(t)) = 0
  BY <1>1, <1>2, <1>3 DEF Upto
<1>5. CASE Ends(t)
  <2>1. PosAfter(t)[1] = t.name + 1 /\ PosAfter(t)[2] = 0
    BY <1>5 DEF PosAfter
  <2>2. t.chunk_offset + t.chunk_size = w[t.name]
    BY <1>1, <1>5 DEF Ends
  <2>3. /\ n <= t.name => Upto(w, n, PosAfter(t)) = w[n]
        /\ n > t.name => Upto(w, n, PosAfter(t)) = 0
    BY <1>1, <1>2, <2>1 DEF Upto
  <2>4. QED
    BY <1>1, <1>2, <1>4, <2>2, <2>3
<1>6. CASE ~Ends(t)
  <2>1. PosAfter(t)[1] = t.name /\ PosAfter(t)[2] = t.chunk_offset + t.chunk_size
    BY <1>6 DEF PosAfter
  <2>2. /\ n < t.name => Upto(w, n, PosAfter(t)) = w[n]
        /\ n = t.name => Upto(w, n, PosAfter(t)) = t.chunk_offset + t.chunk_size
        /\ n > t.name => Upto(w, n, PosAfter(t)) = 0
    BY <1>1, <1>2, <2>1 DEF Upto
  <2>3. QED
    BY <1>1, <1>2, <1>4, <2>2
<1>7. QED
  BY <1>5, <1>6

\* A copy of the chunk that comes next moves what a server has got to the place
\* behind it.
LEMMA CopiedFacts ==
    ASSUME NEW w \in Sizes, NEW v \in Nat, NEW t \in Chunks, IsChunk(t), Real(w, t),
           NEW buf, Holds(v, buf, t), NEW g \in Servers(w), Received(w, v, g, Pos(t)),
           NEW h, h = Copied(g, buf, t)
    PROVE  /\ h \in Servers(w) /\ Received(w, v, h, PosAfter(t))
           /\ h = [g EXCEPT ![t.name] =
                      Content(v, t.name, t.chunk_offset + t.chunk_size)]
           /\ Len(g[t.name]) = t.chunk_offset
           /\ \A n \in 1..t.name - 1 : Len(g[n]) = w[n]
<1> DEFINE b == Slice(buf, t.offset, t.chunk_size)
           size == t.chunk_offset + t.chunk_size
<1>1. /\ t.name \in 1..Len(w) /\ Len(w) \in Nat /\ t.name \in Nat
      /\ t.chunk_offset \in Nat /\ t.chunk_size \in Nat /\ t.offset \in Nat /\ size \in Nat
  BY ChunkFacts DEF Sizes
<1>2. g[t.name] = Content(v, t.name, t.chunk_offset)
  BY <1>1, UptoFacts DEF Received
<1>3. g[t.name] \o b = Content(v, t.name, size)
  <2>1. Content(v, t.name, t.chunk_offset) \o b = Content(v, t.name, size)
    BY ContentGrows
  <2>2. QED
    BY <1>2, <2>1
<1>4. h = [g EXCEPT ![t.name] = g[t.name] \o b]
  BY DEF Copied
<1> HIDE DEF b, size
<1>5. h = [g EXCEPT ![t.name] = Content(v, t.name, size)]
  BY <1>3, <1>4
<1>6. /\ h[t.name] = Content(v, t.name, size)
      /\ \A n \in 1..Len(w) : n # t.name => h[n] = g[n]
  BY <1>1, <1>5 DEF Servers
<1>7. h \in Servers(w)
  <2>1. Content(v, t.name, size) \in Seq(Bytes)
    BY <1>1, ContentFacts
  <2>2. QED
    BY <1>5, <2>1 DEF Servers
<1>8. ASSUME NEW n \in 1..Len(w) PROVE h[n] = Content(v, n, Upto(w, n, PosAfter(t)))
  <2>1. CASE n = t.name
    <3>1. Upto(w, n, PosAfter(t)) = size
      BY <2>1, UptoFacts DEF size
    <3>2. QED
      BY <1>6, <2>1, <3>1
  <2>2. CASE n # t.name
    <3>1. Upto(w, n, PosAfter(t)) = Upto(w, n, Pos(t))
      BY <2>2, UptoFacts
    <3>2. g[n] = Content(v, n, Upto(w, n, Pos(t)))
      BY DEF Received
    <3>3. QED
      BY <1>6, <2>2, <3>1, <3>2
  <2>3. QED
    BY <2>1, <2>2
<1>9. Len(g[t.name]) = t.chunk_offset
  <2>1. Len(Content(v, t.name, t.chunk_offset)) = t.chunk_offset
    BY <1>1, ContentFacts
  <2>2. QED
    BY <1>2, <2>1
<1>10. ASSUME NEW n \in 1..t.name - 1 PROVE Len(g[n]) = w[n]
  <2>1. n \in 1..Len(w) /\ n < t.name /\ w[n] \in Nat /\ n \in Nat
    BY <1>1 DEF Sizes
  <2>2. Upto(w, n, Pos(t)) = w[n]
    BY <2>1, UptoFacts
  <2>3. g[n] = Content(v, n, w[n])
    BY <2>1, <2>2 DEF Received
  <2>4. QED
    BY <2>1, <2>3, ContentFacts
<1>11. QED
  BY <1>5, <1>7, <1>8, <1>9, <1>10 DEF Received, size

\* Nothing is what comes before the first place, and everything what comes
\* before the last.
LEMMA ReceivedEnds ==
    ASSUME NEW w \in Sizes, NEW v \in Nat
    PROVE  /\ \A g : g = [n \in 1..Len(w) |-> <<>>] =>
                  g \in Servers(w) /\ Received(w, v, g, <<1, 0>>)
           /\ \A g : Received(w, v, g, WeightsEnd(w)) => \A n \in 1..Len(w) : Len(g[n]) = w[n]
<1>1. Len(w) \in Nat /\ \A n \in 1..Len(w) : w[n] \in Nat
  BY DEF Sizes
<1>2. ASSUME NEW g, g = [n \in 1..Len(w) |-> <<>>]
      PROVE  g \in Servers(w) /\ Received(w, v, g, <<1, 0>>)
  <2>1. g \in Servers(w)
    BY <1>2 DEF Servers
  <2>2. ASSUME NEW n \in 1..Len(w) PROVE g[n] = Content(v, n, Upto(w, n, <<1, 0>>))
    <3>1. Upto(w, n, <<1, 0>>) = 0
      BY <1>1 DEF Upto
    <3>2. n \in Nat /\ 0 \in Nat
      BY <1>1
    <3>3. Content(v, n, 0) \in Seq(Bytes) /\ Len(Content(v, n, 0)) = 0
      BY <3>2, ContentFacts
    <3>4. Content(v, n, 0) = <<>>
      BY <3>3
    <3>5. QED
      BY <1>2, <3>1, <3>4
  <2>3. QED
    BY <2>1, <2>2 DEF Received
<1>3. ASSUME NEW g, Received(w, v, g, WeightsEnd(w)), NEW n \in 1..Len(w)
      PROVE  Len(g[n]) = w[n]
  <2>1. WeightsEnd(w)[1] = Len(w) + 1
    BY DEF WeightsEnd
  <2>2. Upto(w, n, WeightsEnd(w)) = w[n]
    BY <1>1, <2>1 DEF Upto
  <2>3. g[n] = Content(v, n, w[n])
    BY <1>3, <2>2 DEF Received
  <2>4. n \in Nat /\ w[n] \in Nat
    BY <1>1
  <2>5. QED
    BY <2>3, <2>4, ContentFacts
<1>4. QED
  BY <1>2, <1>3

-----------------------------------------------------------------------------
(* Queued copies and the buffers they use *)

\* The metadata of a queue that grows at its end and shrinks at its head.
LEMMA MetadataFacts ==
    ASSUME NEW q \in Seq(Copies)
    PROVE  /\ Queued(q) \in Seq(Chunks) /\ Len(Queued(q)) = Len(q)
           /\ \A k \in 1..Len(q) : Queued(q)[k] = q[k].meta
           /\ q = <<>> <=> Queued(q) = <<>>
<1>1. ASSUME NEW k \in 1..Len(q) PROVE q[k].meta \in Chunks
  <2>1. q[k] \in Copies
    OBVIOUS
  <2>2. QED
    BY <2>1 DEF Copies
<1>2. Len(q) \in Nat
  OBVIOUS
<1> DEFINE m(k) == q[k].meta
<1>3. \A k \in 1..Len(q) : m(k) \in Chunks
  BY <1>1
<1> HIDE DEF m
<1>4. [k \in 1..Len(q) |-> m(k)] \in Seq(Chunks) /\ Len([k \in 1..Len(q) |-> m(k)]) = Len(q)
  BY <1>2, <1>3
<1>5. Queued(q) = [k \in 1..Len(q) |-> m(k)]
  BY DEF Queued, m
<1>6. /\ Queued(q) \in Seq(Chunks) /\ Len(Queued(q)) = Len(q)
      /\ \A k \in 1..Len(q) : Queued(q)[k] = m(k)
  BY <1>4, <1>5
<1>7. q = <<>> <=> Queued(q) = <<>>
  BY <1>6
<1>8. QED
  BY <1>6, <1>7 DEF m

\* A copy put behind the queued ones adds its metadata behind theirs.
LEMMA MetadataAppend ==
    ASSUME NEW q \in Seq(Copies), NEW c \in Copies
    PROVE  Queued(Append(q, c)) = Append(Queued(q), c.meta)
<1> DEFINE r == Append(q, c)
           m == Queued(q)
<1>1. /\ r \in Seq(Copies) /\ Len(r) = Len(q) + 1 /\ r[Len(q) + 1] = c
      /\ \A k \in 1..Len(q) : r[k] = q[k]
  OBVIOUS
<1>2. c.meta \in Chunks
  BY DEF Copies
<1> HIDE DEF r
<1>3. /\ Queued(r) \in Seq(Chunks) /\ Len(Queued(r)) = Len(r)
      /\ \A k \in 1..Len(r) : Queued(r)[k] = r[k].meta
  BY <1>1, MetadataFacts
<1>4. /\ m \in Seq(Chunks) /\ Len(m) = Len(q)
      /\ \A k \in 1..Len(q) : m[k] = q[k].meta
  BY MetadataFacts
<1> HIDE DEF m
<1>5. /\ Append(m, c.meta) \in Seq(Chunks) /\ Len(Append(m, c.meta)) = Len(q) + 1
      /\ Append(m, c.meta)[Len(q) + 1] = c.meta
      /\ \A k \in 1..Len(q) : Append(m, c.meta)[k] = m[k]
  BY <1>2, <1>4
<1>6. ASSUME NEW k \in 1..Len(q) + 1 PROVE Queued(r)[k] = Append(m, c.meta)[k]
  <2>1. CASE k \in 1..Len(q)
    BY <1>1, <1>3, <1>4, <1>5, <2>1
  <2>2. CASE k = Len(q) + 1
    BY <1>1, <1>3, <1>5, <2>2
  <2>3. k \in 1..Len(q) \/ k = Len(q) + 1
    OBVIOUS
  <2>4. QED
    BY <2>1, <2>2, <2>3
<1>7. Queued(r) = Append(m, c.meta)
  BY <1>1, <1>3, <1>5, <1>6
<1>8. QED
  BY <1>7 DEF r, m

\* Without its first copy a queue lacks the first metadata.
LEMMA MetadataTail ==
    ASSUME NEW q \in Seq(Copies), q # <<>>
    PROVE  Queued(Tail(q)) = Tail(Queued(q))
<1> DEFINE r == Tail(q)
           m == Queued(q)
<1>1. /\ r \in Seq(Copies) /\ Len(r) = Len(q) - 1 /\ Len(q) \in Nat \ {0}
      /\ \A k \in 1..Len(r) : k + 1 \in 1..Len(q) /\ r[k] = q[k + 1]
  OBVIOUS
<1> HIDE DEF r
<1>2. /\ Queued(r) \in Seq(Chunks) /\ Len(Queued(r)) = Len(r)
      /\ \A k \in 1..Len(r) : Queued(r)[k] = r[k].meta
  BY <1>1, MetadataFacts
<1>3. /\ m \in Seq(Chunks) /\ Len(m) = Len(q)
      /\ \A k \in 1..Len(q) : m[k] = q[k].meta
  BY MetadataFacts
<1> HIDE DEF m
<1>4. /\ Tail(m) \in Seq(Chunks) /\ Len(Tail(m)) = Len(q) - 1
      /\ \A k \in 1..Len(q) - 1 : Tail(m)[k] = m[k + 1]
  BY <1>1, <1>3
<1>5. ASSUME NEW k \in 1..Len(r) PROVE Queued(r)[k] = Tail(m)[k]
  BY <1>1, <1>2, <1>3, <1>4
<1>6. Queued(r) = Tail(m)
  BY <1>1, <1>2, <1>4, <1>5
<1>7. QED
  BY <1>6 DEF r, m

\* A chain without its first chunk starts where that one ends.
LEMMA ChainTail ==
    ASSUME NEW s \in Seq(Chunks), s # <<>>, NEW e, Chain(s, e)
    PROVE  /\ s[1] \in Chunks /\ IsChunk(s[1]) /\ Start(s, e) = Pos(s[1])
           /\ Chain(Tail(s), e) /\ Start(Tail(s), e) = PosAfter(s[1])
<1> DEFINE r == Tail(s)
<1>1. /\ r \in Seq(Chunks) /\ Len(r) = Len(s) - 1 /\ Len(s) \in Nat \ {0}
      /\ \A k \in 1..Len(r) : k + 1 \in 1..Len(s) /\ r[k] = s[k + 1]
      /\ 1 \in 1..Len(s) /\ s[1] \in Chunks
  OBVIOUS
<1> HIDE DEF r
<1>2. /\ IsChunk(s[1])
      /\ PosAfter(s[1]) = IF 1 = Len(s) THEN e ELSE Pos(s[1 + 1])
  BY <1>1 DEF Chain
<1>3. Start(s, e) = Pos(s[1])
  BY DEF Start
<1>4. ASSUME NEW k \in 1..Len(r)
      PROVE  /\ IsChunk(r[k])
             /\ PosAfter(r[k]) = IF k = Len(r) THEN e ELSE Pos(r[k + 1])
  <2>1. k + 1 \in 1..Len(s) /\ r[k] = s[k + 1]
    BY <1>1
  <2>2. /\ IsChunk(s[k + 1])
        /\ PosAfter(s[k + 1]) = IF k + 1 = Len(s) THEN e ELSE Pos(s[k + 1 + 1])
    BY <2>1 DEF Chain
  <2>3. CASE k = Len(r)
    <3>1. k + 1 = Len(s)
      BY <1>1, <2>3
    <3>2. QED
      BY <2>1, <2>2, <2>3, <3>1
  <2>4. CASE k # Len(r)
    <3>1. k + 1 # Len(s) /\ k + 1 \in 1..Len(r)
      BY <1>1, <2>4
    <3>2. r[k + 1] = s[k + 1 + 1]
      BY <1>1, <3>1
    <3>3. QED
      BY <2>1, <2>2, <2>4, <3>1, <3>2
  <2>5. QED
    BY <2>3, <2>4
<1>5. Start(r, e) = PosAfter(s[1])
  <2>1. CASE r = <<>>
    <3>1. 1 = Len(s)
      BY <1>1, <2>1
    <3>2. QED
      BY <1>2, <2>1, <3>1 DEF Start
  <2>2. CASE r # <<>>
    <3>1. 1 # Len(s) /\ 1 \in 1..Len(r)
      BY <1>1, <2>2
    <3>2. r[1] = s[1 + 1]
      BY <1>1, <3>1
    <3>3. QED
      BY <1>2, <2>2, <3>1, <3>2 DEF Start
  <2>3. QED
    BY <2>1, <2>2
<1>6. QED
  BY <1>1, <1>2, <1>3, <1>4, <1>5 DEF Chain, r

\* A chunk that begins where the others end prolongs the chain.
LEMMA ChainAppend ==
    ASSUME NEW s \in Seq(Chunks), NEW t \in Chunks, Chain(s, Pos(t)), IsChunk(t)
    PROVE  /\ Chain(Append(s, t), PosAfter(t))
           /\ \A e : Start(Append(s, t), e) = Start(s, Pos(t))
<1> DEFINE u == Append(s, t)
<1>1. /\ u \in Seq(Chunks) /\ Len(u) = Len(s) + 1 /\ Len(s) \in Nat
      /\ \A k \in 1..Len(s) : u[k] = s[k]
      /\ u[Len(s) + 1] = t /\ u # <<>>
  OBVIOUS
<1> HIDE DEF u
<1>2. ASSUME NEW k \in 1..Len(u)
      PROVE  /\ IsChunk(u[k])
             /\ PosAfter(u[k]) = IF k = Len(u) THEN PosAfter(t) ELSE Pos(u[k + 1])
  <2>1. CASE k = Len(s) + 1
    <3>1. u[k] = t /\ k = Len(u)
      BY <1>1, <2>1
    <3>2. QED
      BY <3>1
  <2>2. CASE k \in 1..Len(s) /\ k = Len(s)
    <3>1. u[k] = s[k] /\ u[k + 1] = t /\ k # Len(u)
      BY <1>1, <2>2
    <3>2. IsChunk(s[k]) /\ PosAfter(s[k]) = Pos(t)
      BY <2>2 DEF Chain
    <3>3. QED
      BY <3>1, <3>2
  <2>3. CASE k \in 1..Len(s) /\ k # Len(s)
    <3>1. k + 1 \in 1..Len(s) /\ k # Len(u)
      BY <1>1, <2>3
    <3>2. u[k] = s[k] /\ u[k + 1] = s[k + 1]
      BY <1>1, <2>3, <3>1
    <3>3. IsChunk(s[k]) /\ PosAfter(s[k]) = Pos(s[k + 1])
      BY <2>3 DEF Chain
    <3>4. QED
      BY <3>1, <3>2, <3>3
  <2>4. QED
    BY <1>1, <2>1, <2>2, <2>3
<1>3. Chain(u, PosAfter(t))
  BY <1>2 DEF Chain
<1>4. ASSUME NEW e PROVE Start(u, e) = Start(s, Pos(t))
  <2>1. Start(u, e) = Pos(u[1])
    BY <1>1 DEF Start
  <2>2. CASE s = <<>>
    <3>1. u[1] = t
      BY <1>1, <2>2
    <3>2. QED
      BY <2>1, <2>2, <3>1 DEF Start
  <2>3. CASE s # <<>>
    <3>1. 1 \in 1..Len(s)
      BY <2>3
    <3>2. u[1] = s[1]
      BY <1>1, <3>1
    <3>3. QED
      BY <2>1, <2>3, <3>2 DEF Start
  <2>4. QED
    BY <2>2, <2>3
<1>5. QED
  BY <1>3, <1>4 DEF u

\* What is held, one chunk more or one less.
LEMMA HeldFacts ==
    ASSUME NEW s \in Seq(Chunks), NEW w, NEW v, NEW buf, Held(w, v, buf, s)
    PROVE  /\ \A t \in Chunks : Real(w, t) /\ Holds(v, buf, t) => Held(w, v, buf, Append(s, t))
           /\ s # <<>> => /\ Real(w, s[1]) /\ Holds(v, buf, s[1])
                          /\ Held(w, v, buf, Tail(s))
<1>1. ASSUME NEW t \in Chunks, Real(w, t), Holds(v, buf, t)
      PROVE  Held(w, v, buf, Append(s, t))
  <2> DEFINE r == Append(s, t)
  <2>1. /\ Len(r) = Len(s) + 1 /\ r[Len(s) + 1] = t
        /\ \A k \in 1..Len(s) : r[k] = s[k]
    OBVIOUS
  <2> HIDE DEF r
  <2>2. ASSUME NEW k \in 1..Len(r) PROVE Real(w, r[k]) /\ Holds(v, buf, r[k])
    <3>1. CASE k \in 1..Len(s)
      BY <2>1, <3>1 DEF Held
    <3>2. CASE k = Len(s) + 1
      BY <1>1, <2>1, <3>2
    <3>3. k \in 1..Len(s) \/ k = Len(s) + 1
      BY <2>1
    <3>4. QED
      BY <3>1, <3>2, <3>3
  <2>3. QED
    BY <2>2 DEF Held, r
<1>2. ASSUME s # <<>>
      PROVE  Real(w, s[1]) /\ Holds(v, buf, s[1]) /\ Held(w, v, buf, Tail(s))
  <2> DEFINE r == Tail(s)
  <2>1. /\ 1 \in 1..Len(s)
        /\ \A k \in 1..Len(r) : k + 1 \in 1..Len(s) /\ r[k] = s[k + 1]
    BY <1>2
  <2> HIDE DEF r
  <2>2. ASSUME NEW k \in 1..Len(r) PROVE Real(w, r[k]) /\ Holds(v, buf, r[k])
    <3>1. k + 1 \in 1..Len(s) /\ r[k] = s[k + 1]
      BY <2>1
    <3>2. QED
      BY <3>1 DEF Held
  <2>3. QED
    BY <2>1, <2>2 DEF Held, r
<1>3. QED
  BY <1>1, <1>2

\* Copying a chunk into a buffer leaves what lies before it alone.
LEMMA WriteFacts ==
    ASSUME NEW v \in Nat, NEW t \in Chunks, t.offset + t.chunk_size <= BucketSize,
           NEW buf \in Buffers, NEW new, new = WriteChunk(buf, v, t)
    PROVE  /\ new \in Buffers /\ Holds(v, new, t)
           /\ \A u \in Chunks : u.offset + u.chunk_size <= t.offset /\ Holds(v, buf, u) =>
                  Holds(v, new, u)
<1>1. /\ t.name \in Nat /\ t.chunk_offset \in Nat /\ t.chunk_size \in Nat
      /\ t.offset \in Nat /\ BucketSize \in Nat
  BY TransferConstants DEF Chunks
<1>2. new = [o \in 0..BucketSize - 1 |->
                IF o \in t.offset..t.offset + t.chunk_size - 1
                THEN Byte(v, t.name, t.chunk_offset + o - t.offset) ELSE buf[o]]
  BY DEF WriteChunk
<1>3. ASSUME NEW o \in t.offset..t.offset + t.chunk_size - 1
      PROVE  /\ o \in 0..BucketSize - 1
             /\ new[o] = Byte(v, t.name, t.chunk_offset + o - t.offset)
             /\ new[o] \in Bytes
  <2>1. o \in 0..BucketSize - 1 /\ t.chunk_offset + o - t.offset \in Nat
    BY <1>1
  <2>2. new[o] = Byte(v, t.name, t.chunk_offset + o - t.offset)
    BY <1>2, <2>1
  <2>3. QED
    BY <1>1, <2>1, <2>2 DEF Byte, Bytes
<1>4. ASSUME NEW o \in 0..BucketSize - 1, o \notin t.offset..t.offset + t.chunk_size - 1
      PROVE  new[o] = buf[o] /\ new[o] \in Bytes
  <2>1. new[o] = buf[o]
    BY <1>2, <1>4
  <2>2. QED
    BY <2>1 DEF Buffers
<1>5. new \in Buffers
  <2>1. \A o \in 0..BucketSize - 1 : new[o] \in Bytes
    BY <1>3, <1>4
  <2>2. QED
    BY <1>2, <2>1 DEF Buffers
<1>6. Holds(v, new, t)
  BY <1>3 DEF Holds
<1>7. ASSUME NEW u \in Chunks, u.offset + u.chunk_size <= t.offset, Holds(v, buf, u)
      PROVE  Holds(v, new, u)
  <2>1. u.offset \in Nat /\ u.chunk_size \in Nat
    BY DEF Chunks
  <2>2. ASSUME NEW o \in u.offset..u.offset + u.chunk_size - 1
        PROVE  new[o] = Byte(v, u.name, u.chunk_offset + o - u.offset)
    <3>1. o \in 0..BucketSize - 1 /\ o \notin t.offset..t.offset + t.chunk_size - 1
      BY <1>1, <1>7, <2>1
    <3>2. new[o] = buf[o]
      BY <1>4, <3>1
    <3>3. buf[o] = Byte(v, u.name, u.chunk_offset + o - u.offset)
      BY <1>7 DEF Holds
    <3>4. QED
      BY <3>2, <3>3
  <2>3. QED
    BY <2>2 DEF Holds
<1>8. QED
  BY <1>5, <1>6, <1>7

\* When all copies are done the buffer holds the bucket.
LEMMA CopyingDone ==
    ASSUME NEW w, NEW v, NEW buf, NEW s \in Seq(Chunks), Copying(w, v, buf, s, <<>>)
    PROVE  Held(w, v, buf, s)
<1>1. Len(s) \in Nat /\ Len(<<>>) = 0
  OBVIOUS
<1>2. \A k \in 1..Len(s) - 0 : Holds(v, buf, s[k])
  BY <1>1 DEF Copying
<1>3. \A k \in 1..Len(s) : Real(w, s[k])
  BY DEF Copying
<1>4. Len(s) - 0 = Len(s)
  BY <1>1
<1>5. QED
  BY <1>2, <1>3, <1>4 DEF Held

\* An empty bucket.
LEMMA CopyingNone ==
    ASSUME NEW w, NEW v, NEW buf
    PROVE  Copying(w, v, buf, <<>>, <<>>) /\ \A e : Packed(<<>>, e)
  BY DEF Copying, Packed

\* The next chunk is put behind the others and queued.
LEMMA CopyingAppend ==
    ASSUME NEW w, NEW v, NEW buf, NEW s \in Seq(Chunks), NEW q \in Seq(Copies),
           Copying(w, v, buf, s, q), NEW t \in Chunks, Packed(s, t.offset), Real(w, t),
           NEW c \in Copies, c.meta = t, NEW e, e = t.offset + t.chunk_size
    PROVE  /\ Copying(w, v, buf, Append(s, t), Append(q, c))
           /\ Packed(Append(s, t), e)
<1> DEFINE r == Append(s, t)
           p == Append(q, c)
<1>1. /\ Len(r) = Len(s) + 1 /\ r[Len(s) + 1] = t /\ Len(s) \in Nat
      /\ \A k \in 1..Len(s) : r[k] = s[k] /\ s[k] \in Chunks
  OBVIOUS
<1>2. /\ Len(p) = Len(q) + 1 /\ p[Len(q) + 1] = c /\ Len(q) \in Nat
      /\ \A k \in 1..Len(q) : p[k] = q[k]
  OBVIOUS
<1>3. t.offset \in Nat /\ t.chunk_size \in Nat
  BY DEF Chunks
<1> HIDE DEF r, p
<1>4. /\ Len(s) >= Len(q)
      /\ \A k \in 1..Len(s) : Real(w, s[k])
      /\ \A k \in 1..Len(q) : q[k].meta = s[Len(s) - Len(q) + k]
      /\ \A k \in 1..Len(s) - Len(q) : Holds(v, buf, s[k])
  BY DEF Copying
<1>5. Len(r) >= Len(p) /\ Len(r) - Len(p) = Len(s) - Len(q)
  BY <1>1, <1>2, <1>4
<1>6. ASSUME NEW k \in 1..Len(r) PROVE k \in 1..Len(s) \/ k = Len(s) + 1
  BY <1>1
<1>7. ASSUME NEW k \in 1..Len(r) PROVE Real(w, r[k])
  BY <1>1, <1>4, <1>6
<1>8. ASSUME NEW k \in 1..Len(p) PROVE p[k].meta = r[Len(r) - Len(p) + k]
  <2>1. CASE k \in 1..Len(q)
    <3>1. Len(s) - Len(q) + k \in 1..Len(s)
      BY <1>1, <1>2, <1>4, <2>1
    <3>2. r[Len(s) - Len(q) + k] = s[Len(s) - Len(q) + k]
      BY <1>1, <3>1
    <3>3. QED
      BY <1>2, <1>4, <1>5, <2>1, <3>2
  <2>2. CASE k = Len(q) + 1
    <3>1. Len(s) - Len(q) + k = Len(s) + 1
      BY <1>1, <1>2, <2>2
    <3>2. QED
      BY <1>1, <1>2, <1>5, <2>2, <3>1
  <2>3. k \in 1..Len(q) \/ k = Len(q) + 1
    BY <1>2
  <2>4. QED
    BY <2>1, <2>2, <2>3
<1>9. ASSUME NEW k \in 1..Len(r) - Len(p) PROVE Holds(v, buf, r[k])
  <2>1. k \in 1..Len(s) - Len(q) /\ k \in 1..Len(s)
    BY <1>1, <1>2, <1>5
  <2>2. r[k] = s[k]
    BY <1>1, <2>1
  <2>3. QED
    BY <1>4, <2>1, <2>2
<1>10. Copying(w, v, buf, r, p)
  BY <1>5, <1>7, <1>8, <1>9 DEF Copying
<1>11. ASSUME NEW k \in 1..Len(r)
       PROVE  /\ r[k].offset + r[k].chunk_size <= e
              /\ \A j \in 1..k - 1 : r[j].offset + r[j].chunk_size <= r[k].offset
  <2>1. CASE k \in 1..Len(s)
    <3>1. r[k] = s[k] /\ s[k] \in Chunks
      BY <1>1, <2>1
    <3>2. s[k].offset \in Nat /\ s[k].chunk_size \in Nat
      BY <3>1 DEF Chunks
    <3>3. s[k].offset + s[k].chunk_size <= t.offset
      BY <2>1 DEF Packed
    <3>4. ASSUME NEW j \in 1..k - 1 PROVE r[j].offset + r[j].chunk_size <= r[k].offset
      <4>1. j \in 1..Len(s)
        BY <1>1, <2>1
      <4>2. s[j].offset + s[j].chunk_size <= s[k].offset
        BY <2>1 DEF Packed
      <4>3. QED
        BY <1>1, <3>1, <4>1, <4>2
    <3>5. s[k].offset + s[k].chunk_size <= e
      BY <1>3, <3>2, <3>3
    <3>6. QED
      BY <3>1, <3>4, <3>5
  <2>2. CASE k = Len(s) + 1
    <3>1. r[k] = t
      BY <1>1, <2>2
    <3>2. ASSUME NEW j \in 1..k - 1 PROVE r[j].offset + r[j].chunk_size <= t.offset
      <4>1. j \in 1..Len(s)
        BY <1>1, <2>2
      <4>2. s[j].offset + s[j].chunk_size <= t.offset
        BY <4>1 DEF Packed
      <4>3. QED
        BY <1>1, <4>1, <4>2
    <3>3. e <= e
      BY <1>3
    <3>4. QED
      BY <3>1, <3>2, <3>3
  <2>3. QED
    BY <1>6, <2>1, <2>2
<1>12. QED
  BY <1>10, <1>11 DEF Packed, r, p

\* A copy that is done is the next chunk of the bucket.
LEMMA CopyingTail ==
    ASSUME NEW w, NEW v \in Nat, NEW buf \in Buffers, NEW s \in Seq(Chunks),
           NEW q \in Seq(Copies), q # <<>>,
           Copying(w, v, buf, s, q), NEW e, Packed(s, e),
           NEW new, new = WriteChunk(buf, v, Head(q).meta)
    PROVE  new \in Buffers /\ Copying(w, v, new, s, Tail(q))
<1> DEFINE n == Len(s) - Len(q)
           t == Head(q).meta
           r == Tail(q)
<1>1. /\ Len(q) \in Nat \ {0} /\ 1 \in 1..Len(q) /\ Head(q) = q[1] /\ q[1] \in Copies
      /\ Len(r) = Len(q) - 1 /\ \A k \in 1..Len(r) : k + 1 \in 1..Len(q) /\ r[k] = q[k + 1]
  OBVIOUS
<1>2. Len(s) \in Nat
  OBVIOUS
<1> HIDE DEF r
<1>3. /\ Len(s) >= Len(q)
      /\ \A k \in 1..Len(s) : Real(w, s[k])
      /\ \A k \in 1..Len(q) : q[k].meta = s[Len(s) - Len(q) + k]
      /\ \A k \in 1..Len(s) - Len(q) : Holds(v, buf, s[k])
  BY DEF Copying
<1>4. /\ n + 1 \in 1..Len(s) /\ n \in Nat
  BY <1>1, <1>2, <1>3
<1>5. t = s[n + 1] /\ s[n + 1] \in Chunks /\ Real(w, s[n + 1])
  BY <1>1, <1>3, <1>4
<1>6. t \in Chunks /\ t.offset + t.chunk_size <= BucketSize /\ new = WriteChunk(buf, v, t)
  BY <1>5 DEF Real
<1> HIDE DEF t
<1>7. /\ new \in Buffers /\ Holds(v, new, t)
      /\ \A u \in Chunks : u.offset + u.chunk_size <= t.offset /\ Holds(v, buf, u) =>
             Holds(v, new, u)
  BY <1>6, WriteFacts
<1>8. Len(s) - Len(r) = n + 1 /\ Len(s) >= Len(r)
  BY <1>1, <1>2, <1>3
<1>9. ASSUME NEW k \in 1..Len(r) PROVE r[k].meta = s[Len(s) - Len(r) + k]
  <2>1. k + 1 \in 1..Len(q) /\ r[k] = q[k + 1]
    BY <1>1
  <2>2. q[k + 1].meta = s[Len(s) - Len(q) + (k + 1)]
    BY <1>3, <2>1
  <2>3. Len(s) - Len(q) + (k + 1) = Len(s) - Len(r) + k
    BY <1>1, <1>2
  <2>4. QED
    BY <2>1, <2>2, <2>3
<1>10. ASSUME NEW k \in 1..Len(s) - Len(r) PROVE Holds(v, new, s[k])
  <2>1. CASE k = n + 1
    BY <1>5, <1>7, <2>1
  <2>2. CASE k \in 1..n
    <3>1. k \in 1..(n + 1) - 1 /\ k \in 1..Len(s)
      BY <1>2, <1>4, <2>2
    <3>2. s[k].offset + s[k].chunk_size <= s[n + 1].offset
      BY <1>4, <3>1 DEF Packed
    <3>3. s[k] \in Chunks /\ Holds(v, buf, s[k])
      BY <1>3, <2>2, <3>1
    <3>4. QED
      BY <1>5, <1>7, <3>2, <3>3
  <2>3. k = n + 1 \/ k \in 1..n
    BY <1>4, <1>8
  <2>4. QED
    BY <2>1, <2>2, <2>3
<1>11. Copying(w, v, new, s, r)
  BY <1>3, <1>8, <1>9, <1>10 DEF Copying
<1>12. QED
  BY <1>7, <1>11 DEF r

-----------------------------------------------------------------------------
(* What the agents have of the bytes *)

\* The last bucket ends behind the last weight; it is empty if there are no
\* weights.
LastAt(w, m) ==
    m.is_last => IF m.bucket_meta = <<>> THEN w = <<>>
                 ELSE EndOf(m.bucket_meta) = WeightsEnd(w)

\* Buffer buf has the bucket that m describes.
HasBucket(w, v, buf, m) == Held(w, v, buf, m.bucket_meta) /\ LastAt(w, m)

\* The sender's bucket.  Only without weights is there an empty one.
SenderBytes(w, v, a, b, st, f) ==
    /\ Packed(f.bucket_meta, f.offset)
    /\ Copying(w, v, b[a.side], f.bucket_meta, st)
    /\ a.phase = "fill" /\ f.bucket_meta = <<>> => f.wi <= Len(w) \/ w = <<>>

\* The bucket a worker has in hand, and the one it has read.
BucketsOK(w, v, a, b) ==
    /\ InHand(a) => HasBucket(w, v, b[a.side], a.meta)
    /\ a.xfer.state = "done" => HasBucket(w, v, b[1 - a.side], a.ahead)

\* The chunks still to be copied are in the buffer in hand; they lead from what
\* the server has got to where the merge is.
MergePos(w, a) ==
    IF a.phase \in {"first", "reading"} THEN FirstPos
    ELSE IF a.phase = "done" THEN WeightsEnd(w) ELSE MergeAt(a)
ServerOK(w, v, a, b, st, g) ==
    /\ g \in Servers(w)
    /\ Held(w, v, b[a.side], Queued(st))
    /\ Chain(Queued(st), MergePos(w, a))
    /\ Received(w, v, g, Start(Queued(st), MergePos(w, a)))

WorkerBytes(i) ==
    /\ BucketsOK(weights, version, agent[i], bufs[i])
    /\ ServerOK(weights, version, agent[i], bufs[i], stream[i], got[i])

\* On the link from an agent with buffers b to the agent c with inbox q: the
\* buffer on offer, or being read, has the bucket it is said to have.
LinkHas(w, v, b, c, q) ==
    /\ q # <<>> => HasBucket(w, v, b[q[1].side], q[1].meta)
    /\ c.xfer.state = "running" => HasBucket(w, v, b[c.xfer.src], c.ahead)
LinkBytes(i) == LinkHas(weights, version, bufs[i], agent[i + 1], inbox[i + 1])

BufferTypes == bufs \in [Agents -> [{0, 1} -> Buffers]]

BytesInv ==
    /\ BufferTypes /\ got = [i \in Workers |-> got[i]]
    /\ stage = "update" =>
          /\ version > 0
          /\ SenderBytes(weights, version, agent[0], bufs[0], stream[0], fill)
          /\ \A i \in Workers : WorkerBytes(i)
          /\ \A i \in 0..workers - 1 : LinkBytes(i)
    /\ stage # "update" /\ version > 0 =>
          \A i \in Workers : Received(weights, version, got[i], WeightsEnd(weights))

\* What is known in an update.
LEMMA BytesFacts ==
    ASSUME ChainIInv, BytesInv, stage = "update"
    PROVE  /\ BufferTypes /\ got = [k \in Workers |-> got[k]]
           /\ version \in Nat \ {0} /\ weights \in Sizes
           /\ SenderBytes(weights, version, agent[0], bufs[0], stream[0], fill)
           /\ \A k \in Workers : WorkerBytes(k)
           /\ \A k \in 0..workers - 1 : LinkBytes(k)
<1>1. version \in Nat
  BY TransferConstants DEF ChainIInv, Types, ManagerTypes
<1>2. weights \in Sizes
  BY DEF ChainIInv, FillInv, Sizes
<1>3. version > 0
  BY DEF BytesInv
<1>4. version \in Nat \ {0}
  BY <1>1, <1>3
<1>5. QED
  BY <1>2, <1>4, Zenon DEF BytesInv

\* A step of agent i concerns what it has and the links to both sides.
LEMMA BytesFrame ==
    ASSUME ChainIInv, BytesInv, stage = "update", NEW i \in Agents,
           UNCHANGED <<weights, workers, stage, version>>, i = 0 \/ fill' = fill,
           BufferTypes', got' = [k \in Workers |-> got'[k]],
           \A k \in Agents \ {i} :
               agent'[k] = agent[k] /\ stream'[k] = stream[k] /\ bufs'[k] = bufs[k],
           \A k \in Workers \ {i} : got'[k] = got[k],
           \A k \in Agents \ {i, i + 1} : inbox'[k] = inbox[k],
           i = 0 => SenderBytes(weights, version, agent'[0], bufs'[0], stream'[0], fill'),
           i # 0 => WorkerBytes(i)' /\ LinkBytes(i - 1)',
           i # workers => LinkBytes(i)'
    PROVE  BytesInv'
<1>1. /\ workers \in Nat /\ workers > 1 /\ Agents = 0..workers /\ Workers = 1..workers
  BY UpdateFacts
<1>2. /\ version \in Nat \ {0}
      /\ SenderBytes(weights, version, agent[0], bufs[0], stream[0], fill)
      /\ \A k \in Workers : WorkerBytes(k)
      /\ \A k \in 0..workers - 1 : LinkBytes(k)
  BY BytesFacts
<1>3. SenderBytes(weights, version, agent'[0], bufs'[0], stream'[0], fill')
  <2>1. CASE i = 0
    BY <2>1
  <2>2. CASE i # 0
    <3>1. 0 \in Agents \ {i}
      BY <1>1, <2>2
    <3>2. agent'[0] = agent[0] /\ stream'[0] = stream[0] /\ bufs'[0] = bufs[0] /\ fill' = fill
      BY <2>2, <3>1
    <3>3. QED
      BY <1>2, <3>2
  <2>3. QED
    BY <2>1, <2>2
<1>4. ASSUME NEW k \in Workers PROVE WorkerBytes(k)'
  <2>0. k \in Agents /\ k # 0
    BY <1>1
  <2>1. CASE k = i
    BY <2>0, <2>1
  <2>2. CASE k # i
    <3>1. /\ agent'[k] = agent[k] /\ stream'[k] = stream[k] /\ bufs'[k] = bufs[k]
          /\ got'[k] = got[k]
      BY <2>0, <2>2
    <3>2. WorkerBytes(k)
      BY <1>2
    <3>3. QED
      BY <3>1, <3>2, Zenon DEF WorkerBytes
  <2>3. QED
    BY <2>1, <2>2
<1>5. ASSUME NEW k \in 0..workers - 1 PROVE LinkBytes(k)'
  <2>0. k \in Int /\ k \in Agents /\ k + 1 \in Agents /\ k # workers /\ k + 1 # 0
    BY <1>1
  <2>1. CASE k = i
    BY <2>0, <2>1
  <2>2. CASE k = i - 1
    <3>1. i # 0
      BY <1>1, <2>2
    <3>2. QED
      BY <2>2, <3>1
  <2>3. CASE k # i /\ k # i - 1
    <3>1. k + 1 # i /\ k + 1 # i + 1
      BY <1>1, <2>0, <2>3
    <3>2. bufs'[k] = bufs[k] /\ agent'[k + 1] = agent[k + 1] /\ inbox'[k + 1] = inbox[k + 1]
      BY <2>0, <2>3, <3>1
    <3>3. LinkBytes(k)
      BY <1>2
    <3>4. QED
      BY <3>2, <3>3, Zenon DEF LinkBytes
  <2>4. QED
    BY <2>1, <2>2, <2>3
<1>6. Workers' = Workers /\ workers' = workers /\ stage' = "update" /\ version' > 0
  BY <1>2 DEF Workers
<1>7. got' = [k \in Workers' |-> got'[k]]
  BY <1>6, Zenon
<1>8. weights' = weights /\ version' = version
  OBVIOUS
<1>9. SenderBytes(weights', version', agent'[0], bufs'[0], stream'[0], fill')
  BY <1>3, <1>8
<1>10. (\A k \in Workers : WorkerBytes(k)) '
  BY <1>4, <1>6, Zenon
<1>11. (\A k \in 0..workers - 1 : LinkBytes(k)) '
  BY <1>5, <1>6, Zenon
<1>12. QED
  BY <1>6, <1>7, <1>9, <1>10, <1>11, Zenon DEF BytesInv

\* A server whose worker has the same buffer in hand and merges at the same
\* place has what it had.
LEMMA ServerKept ==
    ASSUME NEW w, NEW v, NEW a, NEW b, NEW st, NEW g, ServerOK(w, v, a, b, st, g),
           NEW c, NEW d, MergePos(w, c) = MergePos(w, a), d[c.side] = b[a.side]
    PROVE  ServerOK(w, v, c, d, st, g)
  BY Zenon DEF ServerOK

\* The same when no copy is queued, or there are no weights at all.
LEMMA ServerTurns ==
    ASSUME NEW w, NEW v, NEW a, NEW b, NEW g, ServerOK(w, v, a, b, <<>>, g),
           NEW c, NEW d, w = <<>> \/ MergePos(w, c) = MergePos(w, a)
    PROVE  ServerOK(w, v, c, d, <<>>, g)
<1>1. Queued(<<>>) = <<>>
  <2>1. <<>> \in Seq(Copies)
    OBVIOUS
  <2>2. QED
    BY <2>1, MetadataFacts
<1>2. Held(w, v, d[c.side], <<>>) /\ Chain(<<>>, MergePos(w, c))
  BY DEF Held, Chain
<1>3. Received(w, v, g, MergePos(w, a))
  BY <1>1 DEF ServerOK, Start
<1>4. Received(w, v, g, MergePos(w, c))
  <2>1. CASE w = <<>>
    BY <2>1 DEF Received
  <2>2. CASE MergePos(w, c) = MergePos(w, a)
    BY <1>3, <2>2
  <2>3. QED
    BY <2>1, <2>2
<1>5. QED
  BY <1>1, <1>2, <1>4 DEF ServerOK, Start

\* The link to a worker whose transfer is the same or does not run.
LEMMA LinkHasKept ==
    ASSUME NEW w, NEW v, NEW b, NEW c, NEW q, LinkHas(w, v, b, c, q),
           NEW d, d.xfer.state = "running" => d.xfer = c.xfer /\ d.ahead = c.ahead
    PROVE  LinkHas(w, v, b, d, q)
  BY DEF LinkHas

\* A step of a worker that touches neither buffers nor messages.
LEMMA WorkerBytesStep ==
    ASSUME ChainIInv, BytesInv, stage = "update", NEW i \in Workers,
           UNCHANGED <<weights, workers, stage, version, fill, bufs, inbox>>,
           got' = [k \in Workers |-> got'[k]],
           \A k \in Agents \ {i} : agent'[k] = agent[k] /\ stream'[k] = stream[k],
           \A k \in Workers \ {i} : got'[k] = got[k],
           agent'[i].xfer.state = "running" =>
               agent'[i].xfer = agent[i].xfer /\ agent'[i].ahead = agent[i].ahead,
           WorkerBytes(i)'
    PROVE  BytesInv'
<1>1. i \in Agents /\ i # 0 /\ i \in Int /\ i - 1 \in Agents /\ i - 1 # i
  BY WorkerIsAgent
<1>2. /\ workers \in Nat /\ Agents = 0..workers /\ Workers = 1..workers
  BY UpdateFacts
<1>3. BufferTypes /\ \A k \in 0..workers - 1 : LinkBytes(k)
  BY BytesFacts
<1>4. BufferTypes'
  BY <1>3, Zenon DEF BufferTypes, Agents
<1>5. LinkBytes(i - 1)'
  <2>1. (i - 1) + 1 = i /\ i - 1 \in 0..workers - 1
    BY <1>1, <1>2
  <2>2. LinkHas(weights, version, bufs[i - 1], agent[i], inbox[i])
    BY <1>3, <2>1 DEF LinkBytes
  <2>3. LinkHas(weights, version, bufs[i - 1], agent'[i], inbox[i])
    BY <2>2, LinkHasKept
  <2>4. QED
    BY <2>1, <2>3 DEF LinkBytes
<1>6. ASSUME i # workers PROVE LinkBytes(i)'
  <2>1. i + 1 \in Agents \ {i} /\ i \in 0..workers - 1
    BY <1>1, <1>2, <1>6
  <2>2. agent'[i + 1] = agent[i + 1] /\ LinkBytes(i)
    BY <1>3, <2>1
  <2>3. QED
    BY <2>2, Zenon DEF LinkBytes
<1>7. QED
  BY <1>1, <1>4, <1>5, <1>6, BytesFrame

-----------------------------------------------------------------------------
(* Steps of a worker, and the bytes *)

\* Where the merge of a worker with a bucket is, and where it ends.
LEMMA MergePosFacts ==
    ASSUME NEW w, NEW a \in AgentStates
    PROVE  /\ a.phase \in {"first", "reading"} => MergePos(w, a) = FirstPos
           /\ a.phase = "done" => MergePos(w, a) = WeightsEnd(w)
           /\ InHand(a) => MergePos(w, a) = MergeAt(a)
           /\ a.done = Len(a.meta.bucket_meta) => MergeAt(a) = EndOf(a.meta.bucket_meta)
           /\ a.done = 0 /\ a.meta.bucket_meta # <<>> => MergeAt(a) = Pos(a.meta.bucket_meta[1])
<1>1. a.meta.bucket_meta \in Seq(Chunks) /\ a.done \in Nat
  BY Fields
<1>2. InHand(a) => MergePos(w, a) = MergeAt(a)
  BY DEF MergePos, InHand
<1>3. a.done = Len(a.meta.bucket_meta) => MergeAt(a) = EndOf(a.meta.bucket_meta)
  BY <1>1 DEF MergeAt
<1>4. a.done = 0 /\ a.meta.bucket_meta # <<>> => MergeAt(a) = Pos(a.meta.bucket_meta[1])
  BY <1>1 DEF MergeAt
<1>5. QED
  BY <1>2, <1>3, <1>4 DEF MergePos

\* Turning to the bucket just read.
LEMMA SwapBytes ==
    ASSUME ChainIInv, BytesInv, stage = "update", NEW i \in Workers,
           agent[i].xfer.state = "done", stream[i] = <<>>,
           Agrees(agent[i].merge, HandedTo(agent[i])),
           MergePos(weights, agent[i]) = HandedTo(agent[i]),
           agent' = [agent EXCEPT ![i] = Swapped(agent[i])],
           UNCHANGED <<weights, workers, stage, version, fill, bufs, inbox, stream, got>>
    PROVE  BytesInv'
<1> DEFINE a == agent[i]
           b == Swapped(a)
<1>1. /\ i \in Agents /\ a \in AgentStates /\ WorkerOK(i)
      /\ agent \in [Agents -> AgentStates]
  BY WorkerIsAgent, AgentFacts, UpdateFacts
<1>2. /\ WorkerBytes(i) /\ got = [k \in Workers |-> got[k]]
  BY BytesFacts
<1>3. ChunksOK(a)
  BY <1>1 DEF WorkerOK
<1>4. /\ b \in AgentStates /\ b.phase = "top" /\ b.xfer.state = "none"
      /\ b.side = 1 - a.side /\ b.meta = a.ahead /\ b.done = 0
  BY <1>1, <1>3, SwapFacts
<1>5. agent'[i] = b /\ \A k \in Agents \ {i} : agent'[k] = agent[k]
  BY <1>1
<1> HIDE DEF a, b
<1>6. HasBucket(weights, version, bufs[i][1 - a.side], a.ahead)
  BY <1>2 DEF WorkerBytes, BucketsOK, a
<1>7. BucketsOK(weights, version, b, bufs[i])
  BY <1>4, <1>6 DEF BucketsOK
<1>8. GoodBucket(a.ahead) /\ Begins(a.ahead.bucket_meta, HandedTo(a))
  BY <1>3 DEF ChunksOK, a
<1>9. weights = <<>> \/ MergePos(weights, b) = MergePos(weights, a)
  <2>1. CASE a.ahead.bucket_meta = <<>>
    BY <1>6, <1>8, <2>1 DEF HasBucket, LastAt, GoodBucket
  <2>2. CASE a.ahead.bucket_meta # <<>>
    <3>1. InHand(b)
      BY <1>4 DEF InHand
    <3>2. MergePos(weights, b) = Pos(a.ahead.bucket_meta[1])
      BY <1>4, <2>2, <3>1, MergePosFacts
    <3>3. QED
      BY <1>8, <2>2, <3>2 DEF Begins, a
  <2>3. QED
    BY <2>1, <2>2
<1>10. ServerOK(weights, version, a, bufs[i], <<>>, got[i])
  BY <1>2 DEF WorkerBytes, a
<1>11. ServerOK(weights, version, b, bufs[i], <<>>, got[i])
  BY <1>9, <1>10, ServerTurns
<1>12. WorkerBytes(i)'
  BY <1>5, <1>7, <1>11, Zenon DEF WorkerBytes
<1>13. agent'[i].xfer.state # "running"
  BY <1>4, <1>5
<1>14. got' = [k \in Workers |-> got'[k]]
  BY <1>2, Zenon
<1>15. /\ \A k \in Agents \ {i} : agent'[k] = agent[k] /\ stream'[k] = stream[k]
       /\ \A k \in Workers \ {i} : got'[k] = got[k]
  BY <1>5, Zenon
<1>16. QED
  BY <1>12, <1>13, <1>14, <1>15, WorkerBytesStep

\* The first bucket.
LEMMA FirstBucketBytes ==
    ASSUME ChainIInv, BytesInv, NEW i \in Workers, FirstBucket(i)
    PROVE  BytesInv'
<1>1. /\ agent[i].phase = "reading" /\ agent[i].xfer.state = "done"
      /\ agent' = [agent EXCEPT ![i] = Swapped(agent[i])]
      /\ UNCHANGED <<weights, workers, stage, version, fill, bufs, inbox, stream, got>>
  BY DEF FirstBucket
<1>2. stage = "update" /\ i \in Agents
  BY <1>1, WorkerIsAgent, BusyInUpdate
<1>3. agent[i] \in AgentStates /\ WorkerOK(i)
  BY <1>2, WorkerIsAgent, AgentFacts
<1>4. stream[i] = <<>> /\ Agrees(agent[i].merge, FirstPos) /\ HandedTo(agent[i]) = FirstPos
  BY <1>1, <1>3 DEF WorkerOK, PhaseOK, ChunksOK, HandedTo
<1>5. MergePos(weights, agent[i]) = FirstPos
  BY <1>1 DEF MergePos
<1>6. QED
  BY <1>1, <1>2, <1>4, <1>5, SwapBytes

\* A later one, when all of the bucket in hand is handed on.
LEMMA EndRoundBytes ==
    ASSUME ChainIInv, BytesInv, NEW i \in Workers, EndRound(i)
    PROVE  BytesInv'
<1>1. /\ agent[i].phase = "yield" /\ agent[i].done = Len(agent[i].meta.bucket_meta)
      /\ ~agent[i].meta.is_last /\ agent[i].xfer.state = "done" /\ stream[i] = <<>>
      /\ agent' = [agent EXCEPT ![i] = Swapped(agent[i])]
      /\ UNCHANGED <<weights, workers, stage, version, fill, bufs, inbox, stream, got>>
  BY DEF EndRound, Yielded, Synchronize
<1>2. stage = "update" /\ i \in Agents
  BY <1>1, WorkerIsAgent, BusyInUpdate
<1>3. agent[i] \in AgentStates /\ WorkerOK(i)
  BY <1>2, WorkerIsAgent, AgentFacts
<1>4. InHand(agent[i]) /\ HandedTo(agent[i]) = EndOf(agent[i].meta.bucket_meta)
  BY <1>1 DEF InHand, HandedTo
<1>5. MergeAt(agent[i]) = HandedTo(agent[i]) /\ MergePos(weights, agent[i]) = MergeAt(agent[i])
  BY <1>1, <1>3, <1>4, MergePosFacts
<1>6. Agrees(agent[i].merge, MergeAt(agent[i]))
  BY <1>1, <1>3, <1>4 DEF WorkerOK, ChunksOK, GoodBucket
<1>7. Agrees(agent[i].merge, HandedTo(agent[i]))
       /\ MergePos(weights, agent[i]) = HandedTo(agent[i])
  BY <1>5, <1>6
<1>8. QED
  BY <1>1, <1>2, <1>7, SwapBytes

\* A worker ends behind the last bucket, which ends behind the last weight.
LEMMA FinishReceiveBytes ==
    ASSUME ChainIInv, BytesInv, NEW i \in Workers, FinishReceive(i)
    PROVE  BytesInv'
<1> DEFINE a == agent[i]
           b == [a EXCEPT !.phase = "done", !.op = 0]
<1>1. /\ a.phase = "yield" /\ a.done = Len(a.meta.bucket_meta) /\ a.meta.is_last
      /\ stream[i] = <<>>
      /\ agent' = [agent EXCEPT ![i].phase = "done", ![i].op = 0]
      /\ UNCHANGED <<weights, workers, stage, version, fill, bufs, inbox, stream, got>>
  BY DEF FinishReceive, Yielded
<1>2. stage = "update" /\ i \in Agents /\ i # 0
  BY <1>1, WorkerIsAgent, BusyInUpdate
<1>3. a \in AgentStates /\ WorkerOK(i) /\ agent \in [Agents -> AgentStates]
  BY <1>2, AgentFacts, UpdateFacts
<1>4. agent'[i] = b /\ \A k \in Agents \ {i} : agent'[k] = agent[k]
  BY <1>1, <1>2, <1>3
<1>5. b = Record("done", a.side, 0, a.keys, a.meta, a.ahead, a.xfer, a.done, a.merge)
  BY <1>3, DoneRecord
<1>6. WorkerBytes(i) /\ got = [k \in Workers |-> got[k]]
  BY <1>2, BytesFacts
<1> HIDE DEF a, b
<1>7. b.phase = "done" /\ b.xfer = a.xfer /\ b.side = a.side /\ a.xfer.state = "none"
  <2>1. a.xfer.state = "none"
    <3>1. PhaseOK(a, stream[i]) /\ a.xfer \in Transfers
      BY <1>3, Fields DEF WorkerOK, a
    <3>2. a.xfer.state \in {"none", "running", "done"}
      BY <3>1 DEF Transfers
    <3>3. QED
      BY <1>1, <3>1, <3>2 DEF PhaseOK
  <2>2. QED
    BY <1>5, <2>1 DEF Record
<1>8. BucketsOK(weights, version, b, bufs[i])
  BY <1>7 DEF BucketsOK, InHand
<1>9. weights = <<>> \/ MergePos(weights, b) = MergePos(weights, a)
  <2>1. InHand(a)
    BY <1>1 DEF InHand
  <2>2. LastAt(weights, a.meta)
    BY <1>6, <2>1 DEF WorkerBytes, BucketsOK, HasBucket, a
  <2>3. MergePos(weights, a) = EndOf(a.meta.bucket_meta)
    BY <1>1, <1>3, <2>1, MergePosFacts
  <2>4. MergePos(weights, b) = WeightsEnd(weights)
    BY <1>7 DEF MergePos
  <2>5. QED
    BY <1>1, <2>2, <2>3, <2>4 DEF LastAt
<1>10. ServerOK(weights, version, a, bufs[i], <<>>, got[i])
  BY <1>1, <1>6 DEF WorkerBytes, a
<1>11. ServerOK(weights, version, b, bufs[i], <<>>, got[i])
  BY <1>9, <1>10, ServerTurns
<1>12. WorkerBytes(i)'
  BY <1>1, <1>4, <1>8, <1>11, Zenon DEF WorkerBytes
<1>13. agent'[i].xfer.state # "running"
  BY <1>4, <1>7
<1>14. got' = [k \in Workers |-> got'[k]]
  BY <1>1, <1>6, Zenon
<1>15. /\ \A k \in Agents \ {i} : agent'[k] = agent[k] /\ stream'[k] = stream[k]
       /\ \A k \in Workers \ {i} : got'[k] = got[k]
  BY <1>1, <1>4, Zenon
<1>16. QED
  BY <1>1, <1>2, <1>12, <1>13, <1>14, <1>15, WorkerBytesStep

\* Handing on a chunk queues a copy of what is in the buffer in hand.
LEMMA YieldChunkBytes ==
    ASSUME ChainIInv, BytesInv, NEW i \in Workers, YieldChunk(i)
    PROVE  BytesInv'
<1> DEFINE a == agent[i]
           t == a.meta.bucket_meta[a.done + 1]
           d == a.done + 1
           g == MergeChunk(a.merge, t)
           b == Advanced(a, d, g)
           c == Copy(a.side, t)
           st == stream[i]
           buf == bufs[i][a.side]
<1>1. /\ a.phase = "yield" /\ a.done < Len(a.meta.bucket_meta)
      /\ agent' = [agent EXCEPT ![i].done = d, ![i].merge = g]
      /\ stream' = [stream EXCEPT ![i] = Append(st, c)]
      /\ UNCHANGED <<weights, workers, stage, version, fill, bufs, inbox, got>>
  BY DEF YieldChunk, Copy
<1>2. /\ stage = "update" /\ i \in Agents /\ a \in AgentStates
      /\ st \in Seq(Copies) /\ PhaseOK(a, st) /\ SideOK(a, st) /\ ChunksOK(a)
      /\ agent \in [Agents -> AgentStates] /\ stream \in [Agents -> Seq(Copies)]
  BY <1>1, WorkerStart
<1>3. agent'[i] = b /\ \A k \in Agents \ {i} : agent'[k] = agent[k]
  BY <1>1, <1>2 DEF Advanced
<1>4. stream'[i] = Append(st, c) /\ \A k \in Agents \ {i} : stream'[k] = stream[k]
  BY <1>1, <1>2
<1>5. /\ b = Advanced(a, d, g) /\ c = Copy(a.side, t)
      /\ t = a.meta.bucket_meta[a.done + 1] /\ d = a.done + 1
      /\ g = MergeChunk(a.merge, t)
  OBVIOUS
<1>6. /\ BucketsOK(weights, version, a, bufs[i])
      /\ ServerOK(weights, version, a, bufs[i], st, got[i])
      /\ got = [k \in Workers |-> got[k]]
  BY <1>2, BytesFacts DEF WorkerBytes
<1>7. a.done + 1 \in 1..Len(a.meta.bucket_meta) /\ c.meta = t
  <2>1. a.done \in Nat /\ a.meta.bucket_meta \in Seq(Chunks)
    BY <1>2, Fields
  <2>2. QED
    BY <1>1, <2>1 DEF Copy
<1> HIDE DEF a, b, c, d, g, t, st
<1>8. /\ b.phase = a.phase /\ b.side = a.side /\ b.xfer = a.xfer /\ b.meta = a.meta
      /\ b.ahead = a.ahead /\ t \in Chunks /\ c \in Copies /\ IsChunk(t)
      /\ MergeAt(a) = Pos(t) /\ MergeAt(b) = PosAfter(t)
  BY <1>1, <1>2, <1>5, ChunkYielded, SMTT(60)
<1>9. InHand(a) /\ InHand(b) /\ MergePos(weights, a) = Pos(t) /\ MergePos(weights, b) = PosAfter(t)
  BY <1>1, <1>8 DEF InHand, MergePos
<1>10. Real(weights, t) /\ Holds(version, buf, t)
  <2>1. Held(weights, version, buf, a.meta.bucket_meta)
    BY <1>6, <1>9 DEF BucketsOK, HasBucket
  <2>2. QED
    BY <1>5, <1>7, <2>1 DEF Held
<1>11. BucketsOK(weights, version, b, bufs[i])
  BY <1>6, <1>8, <1>9, Zenon DEF BucketsOK
<1>12. Queued(st) \in Seq(Chunks) /\ Queued(Append(st, c)) = Append(Queued(st), t)
  BY <1>2, <1>7, <1>8, MetadataFacts, MetadataAppend
<1>13. /\ Held(weights, version, buf, Queued(st)) /\ Chain(Queued(st), Pos(t))
       /\ Received(weights, version, got[i], Start(Queued(st), Pos(t)))
       /\ got[i] \in Servers(weights)
  BY <1>6, <1>9 DEF ServerOK
<1>14. /\ Chain(Append(Queued(st), t), PosAfter(t))
       /\ Start(Append(Queued(st), t), PosAfter(t)) = Start(Queued(st), Pos(t))
  BY <1>8, <1>12, <1>13, ChainAppend
<1>15. Held(weights, version, buf, Append(Queued(st), t))
  BY <1>8, <1>10, <1>12, <1>13, HeldFacts
<1>16. ServerOK(weights, version, b, bufs[i], Append(st, c), got[i])
  BY <1>8, <1>9, <1>12, <1>13, <1>14, <1>15 DEF ServerOK
<1>17. WorkerBytes(i)'
  BY <1>1, <1>3, <1>4, <1>11, <1>16, Zenon DEF WorkerBytes
<1>18. agent'[i].xfer = agent[i].xfer /\ agent'[i].ahead = agent[i].ahead
  BY <1>3, <1>8 DEF a
<1>19. got' = [k \in Workers |-> got'[k]] /\ \A k \in Workers \ {i} : got'[k] = got[k]
  BY <1>1, <1>6, Zenon
<1>20. \A k \in Agents \ {i} : agent'[k] = agent[k] /\ stream'[k] = stream[k]
  BY <1>3, <1>4
<1>21. QED
  BY <1>1, <1>2, <1>17, <1>18, <1>19, <1>20, WorkerBytesStep

\* The chunk that a worker's GPU copies is the one that comes next, and the
\* buffer still has it.
LEMMA CopyOutFacts ==
    ASSUME ChainIInv, BytesInv, NEW i \in Workers, CopyOut(i),
           NEW t, t = Head(stream[i]).meta
    PROVE  /\ stage = "update" /\ i \in Agents
           /\ t \in Chunks /\ IsChunk(t) /\ Real(weights, t)
           /\ stream[i] \in Seq(Copies) /\ stream[i] # <<>>
           /\ Queued(stream[i]) \in Seq(Chunks) /\ Queued(stream[i]) # <<>>
           /\ t = Queued(stream[i])[1]
           /\ got[i] \in Servers(weights) /\ Received(weights, version, got[i], Pos(t))
           /\ Holds(version, bufs[i][agent[i].side], t)
           /\ got' = [got EXCEPT ![i] = Copied(got[i], bufs[i][agent[i].side], t)]
<1>1. /\ stream[i] # <<>>
      /\ got' = [got EXCEPT ![i][t.name] =
                    @ \o Slice(bufs[i][Head(stream[i]).side], t.offset, t.chunk_size)]
  BY DEF CopyOut
<1>2. /\ stage = "update" /\ i \in Agents /\ stream[i] \in Seq(Copies)
      /\ SideOK(agent[i], stream[i])
  BY <1>1, WorkerStart
<1>3. /\ ServerOK(weights, version, agent[i], bufs[i], stream[i], got[i])
      /\ got = [k \in Workers |-> got[k]]
  BY <1>2, BytesFacts DEF WorkerBytes
<1>4. 1 \in 1..Len(stream[i]) /\ Head(stream[i]) = stream[i][1]
  <2>1. /\ Head(stream[i]) = stream[i][1] /\ Tail(stream[i]) \in Seq(Copies)
        /\ Len(Tail(stream[i])) = Len(stream[i]) - 1
    BY <1>1, <1>2, TailFacts
  <2>2. Len(Tail(stream[i])) \in Nat /\ Len(stream[i]) \in Nat
    BY <1>2, <2>1
  <2>3. QED
    BY <2>1, <2>2
<1>5. Head(stream[i]).side = agent[i].side
  BY <1>2, <1>4 DEF SideOK
<1>6. /\ Queued(stream[i]) \in Seq(Chunks) /\ Queued(stream[i]) # <<>>
      /\ t = Queued(stream[i])[1]
  BY <1>1, <1>2, <1>4, MetadataFacts
<1> DEFINE e == MergePos(weights, agent[i])
<1>7. /\ Chain(Queued(stream[i]), e) /\ got[i] \in Servers(weights)
      /\ Held(weights, version, bufs[i][agent[i].side], Queued(stream[i]))
      /\ Received(weights, version, got[i], Start(Queued(stream[i]), e))
  BY <1>3 DEF ServerOK
<1>8. t \in Chunks /\ IsChunk(t) /\ Start(Queued(stream[i]), e) = Pos(t)
  BY <1>6, <1>7, ChainTail
<1>9. Real(weights, t) /\ Holds(version, bufs[i][agent[i].side], t)
  BY <1>6, <1>7, HeldFacts
<1>10. got' = [got EXCEPT ![i] = Copied(got[i], bufs[i][agent[i].side], t)]
  BY <1>1, <1>3, <1>5 DEF Copied
<1>11. QED
  BY <1>1, <1>2, <1>6, <1>7, <1>8, <1>9, <1>10

\* So a server gets the bytes in order.
LEMMA CopyOutBytes ==
    ASSUME ChainIInv, BytesInv, NEW i \in Workers, CopyOut(i)
    PROVE  BytesInv'
<1> DEFINE t == Head(stream[i]).meta
           st == stream[i]
           buf == bufs[i][agent[i].side]
           e == MergePos(weights, agent[i])
           g == Copied(got[i], buf, t)
<1>1. /\ stage = "update" /\ i \in Agents
      /\ t \in Chunks /\ IsChunk(t) /\ Real(weights, t)
      /\ st \in Seq(Copies) /\ st # <<>>
      /\ Queued(st) \in Seq(Chunks) /\ Queued(st) # <<>> /\ t = Queued(st)[1]
      /\ got[i] \in Servers(weights) /\ Received(weights, version, got[i], Pos(t))
      /\ Holds(version, buf, t) /\ got' = [got EXCEPT ![i] = g]
  BY CopyOutFacts
<1>2. /\ stream' = [stream EXCEPT ![i] = Tail(st)]
      /\ UNCHANGED <<weights, workers, stage, version, fill, agent, bufs, inbox>>
  BY DEF CopyOut
<1>3. /\ WorkerBytes(i) /\ weights \in Sizes /\ version \in Nat
      /\ got = [k \in Workers |-> got[k]] /\ stream \in [Agents -> Seq(Copies)]
  BY <1>1, BytesFacts, UpdateFacts
<1> HIDE DEF t, buf, g
<1>4. g \in Servers(weights) /\ Received(weights, version, g, PosAfter(t))
  BY <1>1, <1>3, CopiedFacts DEF g
<1>5. /\ got'[i] = g /\ got' = [k \in Workers |-> got'[k]]
      /\ \A k \in Workers \ {i} : got'[k] = got[k]
  BY <1>1, <1>3
<1>6. stream'[i] = Tail(st) /\ \A k \in Agents \ {i} : stream'[k] = stream[k]
  BY <1>1, <1>2, <1>3
<1>7. Queued(Tail(st)) = Tail(Queued(st))
  BY <1>1, MetadataTail
<1>8. /\ Chain(Queued(st), e) /\ Held(weights, version, buf, Queued(st))
  BY <1>3 DEF WorkerBytes, ServerOK, buf
<1>9. Chain(Tail(Queued(st)), e) /\ Start(Tail(Queued(st)), e) = PosAfter(t)
  BY <1>1, <1>8, ChainTail
<1>10. Held(weights, version, buf, Tail(Queued(st)))
  BY <1>1, <1>8, HeldFacts
<1>11. ServerOK(weights, version, agent[i], bufs[i], Tail(st), g)
  BY <1>4, <1>7, <1>9, <1>10 DEF ServerOK, buf
<1>12. WorkerBytes(i)'
  BY <1>2, <1>3, <1>5, <1>6, <1>11, Zenon DEF WorkerBytes
<1>13. \A k \in Agents \ {i} : agent'[k] = agent[k] /\ stream'[k] = stream[k]
  BY <1>2, <1>6
<1>14. QED
  BY <1>1, <1>2, <1>5, <1>12, <1>13, WorkerBytesStep

\* One buffer is written to.
LEMMA BufferWritten ==
    ASSUME BufferTypes, workers' = workers, NEW i \in Agents, NEW s \in {0, 1},
           NEW x \in Buffers, bufs' = [bufs EXCEPT ![i][s] = x]
    PROVE  /\ BufferTypes' /\ bufs'[i][s] = x /\ bufs'[i][1 - s] = bufs[i][1 - s]
           /\ \A k \in Agents \ {i} : bufs'[k] = bufs[k]
<1>1. bufs \in [Agents -> [{0, 1} -> Buffers]] /\ Agents' = Agents
  BY DEF BufferTypes, Agents
<1>2. /\ bufs'[i] = [bufs[i] EXCEPT ![s] = x] /\ \A k \in Agents \ {i} : bufs'[k] = bufs[k]
      /\ bufs' \in [Agents -> [{0, 1} -> Buffers]]
  BY <1>1
<1>3. bufs'[i][s] = x /\ bufs'[i][1 - s] = bufs[i][1 - s]
  BY <1>1, <1>2
<1>4. QED
  BY <1>1, <1>2, <1>3, Zenon DEF BufferTypes

\* A bucket on offer or being read stays as it is while its agent writes to the
\* other buffer.
LEMMA OfferUntouched ==
    ASSUME NEW w, NEW v, NEW a, NEW b, NEW c, NEW q, NEW n, OperationOK(a, c, q, n),
           LinkHas(w, v, b, c, q), NEW d, d[OfferSide(a)] = b[OfferSide(a)]
    PROVE  LinkHas(w, v, d, c, q)
<1>1. q # <<>> => q[1].side = OfferSide(a)
  BY DEF OperationOK, Untouched, Waiting, Running, Notified
<1>2. c.xfer.state = "running" => c.xfer.src = OfferSide(a)
  BY DEF OperationOK, Untouched, Waiting, Running, Notified
<1>3. QED
  BY <1>1, <1>2 DEF LinkHas

\* read_metadata and begin_read: the bucket on offer is the one being read, and
\* what is in hand stays.
LEMMA BeginReadBytes ==
    ASSUME ChainIInv, BytesInv, NEW i \in Workers, BeginRead(i)
    PROVE  BytesInv'
<1> DEFINE a == agent[i]
           m == Head(inbox[i])
           ph == IF a.phase = "first" THEN "reading" ELSE "yield"
           x == [state |-> "running", src |-> m.side, key |-> m.key]
           b == [a EXCEPT !.phase = ph, !.ahead = m.meta, !.xfer = x]
<1>1. /\ a.phase \in {"first", "next"} /\ inbox[i] # <<>>
      /\ agent' = [agent EXCEPT ![i].phase = ph, ![i].ahead = m.meta, ![i].xfer = x]
      /\ inbox' = [inbox EXCEPT ![i] = Tail(inbox[i])]
      /\ bufs' = [bufs EXCEPT ![i][1 - a.side] = Garbage]
      /\ UNCHANGED <<weights, workers, stage, version, fill, stream, got>>
  BY DEF BeginRead
<1>2. /\ stage = "update" /\ i \in Agents /\ i # 0 /\ i \in Int
      /\ i - 1 \in Agents /\ i - 1 # i /\ (i - 1) + 1 = i /\ i - 1 \in 0..workers - 1
      /\ a \in AgentStates /\ LinkOK(i - 1) /\ PhaseOK(a, stream[i])
      /\ i # workers => i + 1 \in Agents /\ i + 1 # i /\ LinkOK(i)
      /\ agent \in [Agents -> AgentStates] /\ inbox \in [Agents -> Seq(Offers)]
      /\ workers \in Nat
  BY <1>1, WorkerStart
<1>3. /\ BufferTypes /\ got = [k \in Workers |-> got[k]]
      /\ BucketsOK(weights, version, a, bufs[i])
      /\ ServerOK(weights, version, a, bufs[i], stream[i], got[i])
      /\ \A k \in 0..workers - 1 : LinkBytes(k)
  BY <1>2, BytesFacts DEF WorkerBytes
<1>4. agent'[i] = b /\ \A k \in Agents \ {i} : agent'[k] = agent[k]
  BY <1>1, <1>2
<1>5. b = Record(ph, a.side, a.op, a.keys, a.meta, m.meta, x, a.done, a.merge)
  BY <1>2, ReadingRecord
<1>6. a.side \in {0, 1} /\ 1 - a.side \in {0, 1} /\ 1 - (1 - a.side) = a.side
  BY <1>2, Fields
<1>7. x.state = "running" /\ x.src = m.side
  OBVIOUS
<1>8. inbox'[i] = Tail(inbox[i]) /\ \A k \in Agents \ {i} : inbox'[k] = inbox[k]
  BY <1>1, <1>2
<1>9. /\ m = inbox[i][1] /\ Tail(inbox[i]) \in Seq(Offers)
      /\ Len(Tail(inbox[i])) = Len(inbox[i]) - 1
  BY <1>1, <1>2, TailFacts
<1> HIDE DEF a, b, m, x
<1>10. Garbage \in Buffers
  <2>1. <<0, 0, 1>> \in Bytes
    BY DEF Bytes
  <2>2. QED
    BY <2>1 DEF Garbage, Buffers
<1>11. /\ BufferTypes' /\ bufs'[i][a.side] = bufs[i][a.side]
       /\ \A k \in Agents \ {i} : bufs'[k] = bufs[k]
  <2>1. /\ BufferTypes' /\ bufs'[i][1 - (1 - a.side)] = bufs[i][1 - (1 - a.side)]
        /\ \A k \in Agents \ {i} : bufs'[k] = bufs[k]
    BY <1>1, <1>2, <1>3, <1>6, <1>10, BufferWritten
  <2>2. QED
    BY <1>6, <2>1
<1>12. /\ b.phase = ph /\ b.side = a.side /\ b.meta = a.meta /\ b.done = a.done
       /\ b.ahead = m.meta /\ b.xfer = x
  BY <1>5 DEF Record
<1>13. (InHand(b) => InHand(a)) /\ MergePos(weights, b) = MergePos(weights, a)
  <2>1. CASE a.phase = "first"
    <3>1. b.phase = "reading"
      BY <1>12, <2>1
    <3>2. QED
      BY <2>1, <3>1 DEF InHand, MergePos
  <2>2. CASE a.phase = "next"
    <3>1. b.phase = "yield"
      BY <1>12, <2>2
    <3>2. QED
      BY <1>12, <2>2, <3>1 DEF InHand, MergePos, MergeAt
  <2>3. QED
    BY <1>1, <2>1, <2>2
<1>14. BucketsOK(weights, version, b, bufs'[i])
  BY <1>3, <1>7, <1>11, <1>12, <1>13 DEF BucketsOK
<1>15. ServerOK(weights, version, b, bufs'[i], stream[i], got[i])
  BY <1>3, <1>11, <1>12, <1>13, ServerKept
<1>16. WorkerBytes(i)'
  BY <1>1, <1>4, <1>14, <1>15, Zenon DEF WorkerBytes
<1>17. LinkBytes(i - 1)'
  <2>1. OperationOK(agent[i - 1], a, inbox[i], notifications[i - 1])
    BY <1>2, Zenon DEF LinkOK, a
  <2>2. Len(inbox[i]) = 1
    BY <1>1, <2>1 DEF OperationOK, Untouched, Waiting, Running, Notified
  <2>3. inbox'[i] = <<>>
    <3>1. Len(Tail(inbox[i])) = 0
      BY <1>9, <2>2
    <3>2. QED
      BY <1>8, <1>9, <3>1, EmptyFacts
  <2>4. HasBucket(weights, version, bufs[i - 1][m.side], m.meta)
    <3>1. LinkHas(weights, version, bufs[i - 1], a, inbox[i])
      BY <1>2, <1>3 DEF LinkBytes, a
    <3>2. QED
      BY <1>1, <1>9, <3>1 DEF LinkHas
  <2>5. LinkHas(weights, version, bufs[i - 1], b, <<>>)
    BY <1>7, <1>12, <2>4 DEF LinkHas
  <2>6. bufs'[i - 1] = bufs[i - 1] /\ agent'[(i - 1) + 1] = b /\ inbox'[(i - 1) + 1] = <<>>
    BY <1>2, <1>4, <1>11, <2>3
  <2>7. QED
    BY <1>1, <2>5, <2>6, Zenon DEF LinkBytes
<1>18. ASSUME i # workers PROVE LinkBytes(i)'
  <2>1. /\ i + 1 \in Agents /\ i + 1 # i /\ LinkOK(i) /\ LinkBytes(i)
    <3>1. i \in 0..workers - 1
      BY <1>2, <1>18 DEF Agents
    <3>2. QED
      BY <1>2, <1>3, <1>18, <3>1
  <2>2. agent'[i + 1] = agent[i + 1] /\ inbox'[i + 1] = inbox[i + 1]
    BY <1>4, <1>8, <2>1
  <2>3. OfferSide(a) = a.side
    BY <1>1 DEF OfferSide
  <2>4. OperationOK(a, agent[i + 1], inbox[i + 1], notifications[i])
    BY <2>1 DEF LinkOK, a
  <2>5. LinkHas(weights, version, bufs[i], agent[i + 1], inbox[i + 1])
    BY <2>1 DEF LinkBytes
  <2>6. LinkHas(weights, version, bufs'[i], agent[i + 1], inbox[i + 1])
    BY <1>11, <2>3, <2>4, <2>5, OfferUntouched
  <2>7. QED
    BY <1>1, <2>2, <2>6, Zenon DEF LinkBytes
<1>19. /\ \A k \in Agents \ {i} :
             agent'[k] = agent[k] /\ stream'[k] = stream[k] /\ bufs'[k] = bufs[k]
       /\ \A k \in Agents \ {i, i + 1} : inbox'[k] = inbox[k]
  BY <1>1, <1>4, <1>8, <1>11
<1>20. got' = [k \in Workers |-> got'[k]] /\ \A k \in Workers \ {i} : got'[k] = got[k]
  BY <1>1, <1>3, Zenon
<1>21. QED
  BY <1>1, <1>2, <1>11, <1>16, <1>17, <1>18, <1>19, <1>20, BytesFrame

\* The transfer ends with the bucket in the other buffer.
LEMMA EndTransferBytes ==
    ASSUME ChainIInv, BytesInv, NEW i \in Workers, EndTransfer(i)
    PROVE  BytesInv'
<1> DEFINE a == agent[i]
           b == Arrived(a)
           buf == bufs[i - 1][a.xfer.src]
<1>0. a.xfer.state = "running"
  BY DEF EndTransfer
<1>1. /\ stage = "update" /\ i \in Agents /\ i # 0 /\ i \in Int
      /\ i - 1 \in Agents /\ i - 1 # i /\ (i - 1) + 1 = i /\ i - 1 \in 0..workers - 1
      /\ a \in AgentStates /\ LinkOK(i - 1) /\ PhaseOK(a, stream[i])
      /\ i # workers => i + 1 \in Agents /\ i + 1 # i /\ LinkOK(i)
      /\ agent \in [Agents -> AgentStates] /\ workers \in Nat /\ ChainOK
  BY <1>0, WorkerStart
<1>2. peers.prev[i] = i - 1
  <2>1. peers.prev[(i - 1) + 1] = i - 1
    BY <1>1 DEF ChainOK
  <2>2. QED
    BY <1>1, <2>1
<1>3. /\ bufs' = [bufs EXCEPT ![i][1 - a.side] = buf]
      /\ agent' = [agent EXCEPT ![i].xfer.state = "done"]
      /\ UNCHANGED <<weights, workers, stage, version, fill, inbox, stream, got>>
  BY <1>2 DEF EndTransfer
<1>4. /\ BufferTypes /\ got = [k \in Workers |-> got[k]]
      /\ BucketsOK(weights, version, a, bufs[i])
      /\ ServerOK(weights, version, a, bufs[i], stream[i], got[i])
      /\ \A k \in 0..workers - 1 : LinkBytes(k)
  BY <1>1, BytesFacts DEF WorkerBytes
<1>5. agent'[i] = b /\ \A k \in Agents \ {i} : agent'[k] = agent[k]
  BY <1>1, <1>3 DEF Arrived
<1>6. b = Record(a.phase, a.side, a.op, a.keys, a.meta, a.ahead,
                 [a.xfer EXCEPT !.state = "done"], a.done, a.merge)
  BY <1>1, TransferRecord
<1>7. /\ a.side \in {0, 1} /\ 1 - a.side \in {0, 1} /\ 1 - (1 - a.side) = a.side
      /\ a.xfer \in Transfers
  BY <1>1, Fields
<1> HIDE DEF a, b
<1>8. buf \in Buffers
  <2>1. a.xfer.src \in {0, 1}
    BY <1>7 DEF Transfers
  <2>2. QED
    BY <1>1, <1>4, <2>1 DEF BufferTypes
<1>9. /\ BufferTypes' /\ bufs'[i][1 - a.side] = buf /\ bufs'[i][a.side] = bufs[i][a.side]
      /\ \A k \in Agents \ {i} : bufs'[k] = bufs[k]
  <2> DEFINE s == 1 - a.side
  <2>1. bufs' = [bufs EXCEPT ![i][s] = buf]
    BY <1>3 DEF a
  <2>2. s \in {0, 1} /\ 1 - s = a.side
    BY <1>7
  <2> HIDE DEF buf, s
  <2>3. /\ BufferTypes' /\ bufs'[i][s] = buf /\ bufs'[i][1 - s] = bufs[i][1 - s]
        /\ \A k \in Agents \ {i} : bufs'[k] = bufs[k]
    <3>1. bufs \in [Agents -> [{0, 1} -> Buffers]] /\ Agents' = Agents
      BY <1>3, <1>4 DEF BufferTypes, Agents
    <3>2. /\ bufs'[i] = [bufs[i] EXCEPT ![s] = buf]
          /\ \A k \in Agents \ {i} : bufs'[k] = bufs[k]
          /\ bufs' \in [Agents -> [{0, 1} -> Buffers]]
      BY <1>1, <1>8, <2>1, <2>2, <3>1
    <3>3. bufs'[i][s] = buf /\ bufs'[i][1 - s] = bufs[i][1 - s]
      BY <1>1, <2>2, <3>1, <3>2
    <3>4. QED
      BY <3>1, <3>2, <3>3, Zenon DEF BufferTypes
  <2>4. QED
    BY <2>2, <2>3 DEF s
<1>10. /\ b.phase = a.phase /\ b.side = a.side /\ b.meta = a.meta /\ b.done = a.done
       /\ b.ahead = a.ahead /\ b.xfer.state = "done"
  BY <1>6, <1>7 DEF Record, Transfers
<1>11. InHand(b) = InHand(a) /\ MergePos(weights, b) = MergePos(weights, a)
  BY <1>10 DEF InHand, MergePos, MergeAt
<1>12. LinkHas(weights, version, bufs[i - 1], a, inbox[i])
  BY <1>1, <1>4 DEF LinkBytes, a
<1>13. HasBucket(weights, version, buf, a.ahead)
  BY <1>0, <1>12 DEF LinkHas, a
<1>14. BucketsOK(weights, version, b, bufs'[i])
  BY <1>4, <1>9, <1>10, <1>11, <1>13 DEF BucketsOK
<1>15. ServerOK(weights, version, b, bufs'[i], stream[i], got[i])
  BY <1>4, <1>9, <1>10, <1>11, ServerKept
<1>16. WorkerBytes(i)'
  BY <1>3, <1>5, <1>14, <1>15, Zenon DEF WorkerBytes
<1>17. LinkBytes(i - 1)'
  <2>1. LinkHas(weights, version, bufs[i - 1], b, inbox[i])
    BY <1>10, <1>12, LinkHasKept
  <2>2. bufs'[i - 1] = bufs[i - 1] /\ agent'[(i - 1) + 1] = b /\ inbox'[(i - 1) + 1] = inbox[i]
    BY <1>1, <1>3, <1>5, <1>9
  <2>3. QED
    BY <1>3, <2>1, <2>2, Zenon DEF LinkBytes
<1>18. ASSUME i # workers PROVE LinkBytes(i)'
  <2>1. /\ i + 1 \in Agents /\ i + 1 # i /\ LinkOK(i) /\ LinkBytes(i)
    <3>1. i \in 0..workers - 1
      BY <1>1, <1>18 DEF Agents
    <3>2. QED
      BY <1>1, <1>4, <1>18, <3>1
  <2>2. agent'[i + 1] = agent[i + 1]
    BY <1>5, <2>1
  <2>3. OfferSide(a) = a.side
    BY <1>1 DEF OfferSide, PhaseOK
  <2>4. OperationOK(a, agent[i + 1], inbox[i + 1], notifications[i])
    BY <2>1 DEF LinkOK, a
  <2>5. LinkHas(weights, version, bufs[i], agent[i + 1], inbox[i + 1])
    BY <2>1 DEF LinkBytes
  <2>6. LinkHas(weights, version, bufs'[i], agent[i + 1], inbox[i + 1])
    BY <1>9, <2>3, <2>4, <2>5, OfferUntouched
  <2>7. QED
    BY <1>3, <2>2, <2>6, Zenon DEF LinkBytes
<1>19. /\ \A k \in Agents \ {i} :
             agent'[k] = agent[k] /\ stream'[k] = stream[k] /\ bufs'[k] = bufs[k]
       /\ \A k \in Agents \ {i, i + 1} : inbox'[k] = inbox[k]
  BY <1>3, <1>5, <1>9
<1>20. got' = [k \in Workers |-> got'[k]] /\ \A k \in Workers \ {i} : got'[k] = got[k]
  BY <1>3, <1>4, Zenon
<1>21. QED
  BY <1>1, <1>3, <1>9, <1>16, <1>17, <1>18, <1>19, <1>20, BytesFrame

\* A worker offers what it has in hand.
LEMMA ForwardBytes ==
    ASSUME ChainIInv, BytesInv, NEW i \in Workers, Forward(i)
    PROVE  BytesInv'
<1> DEFINE a == agent[i]
           m == [key |-> a.keys + 1, side |-> a.side, meta |-> a.meta]
           b == agent'[i]
<1>1. /\ a.phase = "top" /\ Offer(i, a.meta)
      /\ agent' = [agent EXCEPT ![i] =
            [Offered(i, a) EXCEPT !.phase = IF a.meta.is_last THEN "yield" ELSE "next"]]
      /\ UNCHANGED <<weights, workers, stage, version, peers, fill, bufs, stream, got>>
  BY DEF Forward
<1>2. /\ stage = "update" /\ i \in Agents /\ i # 0 /\ i \in Int
      /\ i - 1 \in Agents /\ i - 1 # i /\ (i - 1) + 1 = i /\ i - 1 \in 0..workers - 1
      /\ a \in AgentStates /\ PhaseOK(a, stream[i])
      /\ i # workers => i + 1 \in Agents /\ i + 1 # i /\ LinkOK(i)
      /\ agent \in [Agents -> AgentStates] /\ inbox \in [Agents -> Seq(Offers)]
      /\ workers \in Nat /\ ChainOK
  BY <1>1, WorkerStart
<1>3. /\ i = workers => peers.next[i] = NoAgent
      /\ i # workers => peers.next[i] = i + 1 /\ i + 1 # NoAgent
  <2>1. i # workers => i \in 0..workers - 1 /\ i + 1 # NoAgent
    BY <1>2 DEF Agents, NoAgent
  <2>2. QED
    BY <1>2, <2>1 DEF ChainOK
<1>4. /\ BufferTypes /\ got = [k \in Workers |-> got[k]]
      /\ BucketsOK(weights, version, a, bufs[i])
      /\ ServerOK(weights, version, a, bufs[i], stream[i], got[i])
      /\ \A k \in 0..workers - 1 : LinkBytes(k)
  BY <1>2, BytesFacts DEF WorkerBytes
<1>5. /\ b.phase \in {"yield", "next"} /\ b.side = a.side /\ b.meta = a.meta /\ b.done = a.done
      /\ b.xfer = a.xfer /\ b.ahead = a.ahead
  <2>1. b = [Offered(i, a) EXCEPT !.phase = IF a.meta.is_last THEN "yield" ELSE "next"]
    BY <1>1, <1>2
  <2>2. CASE peers.next[i] = NoAgent
    <3>1. Offered(i, a) = [a EXCEPT !.op = 0]
      BY <2>2 DEF Offered
    <3>2. QED
      BY <1>2, <2>1, <3>1 DEF AgentStates
  <2>3. CASE peers.next[i] # NoAgent
    <3>1. Offered(i, a) = [a EXCEPT !.op = a.keys + 1, !.keys = a.keys + 1]
      BY <2>3 DEF Offered
    <3>2. QED
      BY <1>2, <2>1, <3>1 DEF AgentStates
  <2>4. QED
    BY <2>2, <2>3
<1>6. \A k \in Agents \ {i} : agent'[k] = agent[k]
  BY <1>1, <1>2
<1>7. /\ i = workers => inbox' = inbox
      /\ i # workers => inbox' = [inbox EXCEPT ![i + 1] = Append(inbox[i + 1], m)]
  BY <1>1, <1>3 DEF Offer
<1>8. m.side = a.side /\ m.meta = a.meta
  OBVIOUS
<1>9. /\ i # workers => inbox'[i + 1] = Append(inbox[i + 1], m)
      /\ \A k \in Agents \ {i + 1} : inbox'[k] = inbox[k]
  <2> HIDE DEF m
  <2>1. CASE i = workers
    BY <1>7, <2>1
  <2>2. CASE i # workers
    BY <1>2, <1>7, <2>2
  <2>3. QED
    BY <2>1, <2>2
<1> HIDE DEF a, b, m
<1>10. InHand(a) /\ InHand(b) /\ MergePos(weights, b) = MergePos(weights, a)
  BY <1>1, <1>5 DEF InHand, MergePos, MergeAt
<1>11. BucketsOK(weights, version, b, bufs[i])
  BY <1>4, <1>5, <1>10, Zenon DEF BucketsOK
<1>12. ServerOK(weights, version, b, bufs[i], stream[i], got[i])
  BY <1>4, <1>5, <1>10, ServerKept
<1>13. WorkerBytes(i)'
  BY <1>1, <1>11, <1>12, Zenon DEF WorkerBytes, b
<1>14. LinkBytes(i - 1)'
  <2>1. LinkHas(weights, version, bufs[i - 1], a, inbox[i])
    BY <1>2, <1>4 DEF LinkBytes, a
  <2>2. LinkHas(weights, version, bufs[i - 1], b, inbox[i])
    BY <1>5, <2>1, LinkHasKept
  <2>3. i # i + 1 /\ inbox'[i] = inbox[i]
    BY <1>2, <1>9
  <2>4. QED
    BY <1>1, <1>2, <2>2, <2>3 DEF LinkBytes, b
<1>15. ASSUME i # workers PROVE LinkBytes(i)'
  <2> DEFINE c == agent[i + 1]
             q == inbox[i + 1]
  <2>1. agent'[i + 1] = c /\ OperationOK(a, c, q, notifications[i])
    BY <1>2, <1>6, <1>15 DEF LinkOK, a
  <2>2. inbox'[i + 1] = Append(q, m)
    BY <1>9, <1>15
  <2> HIDE DEF c, q
  <2>3. a.op = 0
    BY <1>1, <1>2 DEF PhaseOK
  <2>4. q = <<>> /\ c.xfer.state # "running"
    BY <2>1, <2>3 DEF OperationOK, Untouched
  <2>5. inbox'[i + 1] = <<m>>
    BY <2>2, <2>4
  <2>6. HasBucket(weights, version, bufs[i][a.side], a.meta)
    BY <1>4, <1>10 DEF BucketsOK
  <2>7. LinkHas(weights, version, bufs[i], c, <<m>>)
    BY <1>8, <2>4, <2>6 DEF LinkHas
  <2>8. QED
    BY <1>1, <2>1, <2>5, <2>7, Zenon DEF LinkBytes
<1>16. /\ \A k \in Agents \ {i} :
             agent'[k] = agent[k] /\ stream'[k] = stream[k] /\ bufs'[k] = bufs[k]
       /\ \A k \in Agents \ {i, i + 1} : inbox'[k] = inbox[k]
  BY <1>1, <1>6, <1>9
<1>17. got' = [k \in Workers |-> got'[k]] /\ \A k \in Workers \ {i} : got'[k] = got[k]
  BY <1>1, <1>4, Zenon
<1>18. BufferTypes'
  BY <1>1, <1>4, Zenon DEF BufferTypes, Agents
<1>19. QED
  BY <1>1, <1>2, <1>13, <1>14, <1>15, <1>16, <1>17, <1>18, BytesFrame

-----------------------------------------------------------------------------
(* Steps of the sender, and the bytes *)

\* A step of the sender that leaves its link, or says what is on it.
LEMMA SenderBytesStep ==
    ASSUME ChainIInv, BytesInv, stage = "update",
           UNCHANGED <<weights, workers, stage, version, got>>, BufferTypes',
           \A k \in Agents \ {0} :
               agent'[k] = agent[k] /\ stream'[k] = stream[k] /\ bufs'[k] = bufs[k],
           \A k \in Agents \ {1} : inbox'[k] = inbox[k],
           SenderBytes(weights, version, agent'[0], bufs'[0], stream'[0], fill'),
           LinkHas(weights, version, bufs'[0], agent[1], inbox'[1])
    PROVE  BytesInv'
<1>1. workers \in Nat /\ workers > 1 /\ Agents = 0..workers /\ Workers = 1..workers
  BY UpdateFacts
<1>2. 0 \in Agents /\ 1 \in Agents \ {0} /\ 0 + 1 = 1 /\ Workers \subseteq Agents
  BY <1>1
<1>3. got = [k \in Workers |-> got[k]]
  BY BytesFacts
<1>4. got' = [k \in Workers |-> got'[k]] /\ \A k \in Workers \ {0} : got'[k] = got[k]
  BY <1>3, Zenon
<1>5. LinkBytes(0)'
  <2>1. agent'[1] = agent[1] /\ weights' = weights /\ version' = version
    BY <1>2
  <2>2. QED
    BY <1>2, <2>1 DEF LinkBytes
<1>6. \A k \in Agents \ {0, 0 + 1} : inbox'[k] = inbox[k]
  BY <1>2
<1>7. QED
  BY <1>2, <1>4, <1>5, <1>6, BytesFrame

\* What the sender knows of the bytes when it takes a step.
LEMMA SenderBytesStart ==
    ASSUME ChainIInv, BytesInv, stage = "update"
    PROVE  /\ BufferTypes /\ version \in Nat /\ weights \in Sizes
           /\ SenderBytes(weights, version, agent[0], bufs[0], stream[0], fill)
           /\ LinkHas(weights, version, bufs[0], agent[1], inbox[1])
<1>1. workers \in Nat /\ workers > 1
  BY UpdateFacts
<1>2. 0 \in 0..workers - 1 /\ 0 + 1 = 1
  BY <1>1
<1>3. LinkBytes(0)
  BY <1>2, BytesFacts
<1>4. LinkHas(weights, version, bufs[0], agent[1], inbox[1])
  BY <1>2, <1>3 DEF LinkBytes
<1>5. QED
  BY <1>4, BytesFacts

\* Packing a chunk: its copy is the last one queued.
LEMMA FillChunkBytes ==
    ASSUME ChainIInv, BytesInv, FillChunk
    PROVE  BytesInv'
<1> DEFINE a == agent[0]
           t == TensorMeta(weights, fill)
           c == Copy(a.side, t)
           f == PutChunk(weights, fill)
           st == stream[0]
           s == fill.bucket_meta
<1>1. /\ a.phase = "fill" /\ MoreChunks(weights, fill) /\ Fits(weights, fill)
      /\ fill' = f /\ stream' = [stream EXCEPT ![0] = Append(st, c)]
      /\ UNCHANGED <<weights, workers, stage, version, agent, bufs, inbox, got>>
  BY DEF FillChunk, Copy
<1>2. /\ stage = "update" /\ 0 \in Agents /\ a \in AgentStates /\ st \in Seq(Copies)
      /\ FillInv /\ fill \in FillStates /\ stream \in [Agents -> Seq(Copies)]
  BY <1>1, SenderStart
<1>3. /\ BufferTypes /\ version \in Nat /\ weights \in Sizes
      /\ SenderBytes(weights, version, a, bufs[0], st, fill)
      /\ LinkHas(weights, version, bufs[0], agent[1], inbox[1])
  BY <1>2, SenderBytesStart
<1>4. stream'[0] = Append(st, c) /\ \A k \in Agents \ {0} : stream'[k] = stream[k]
  BY <1>1, <1>2
<1>5. /\ t.name = fill.wi /\ t.nbytes = weights[fill.wi] /\ t.offset = fill.offset
      /\ f.offset = t.offset + t.chunk_size /\ t.chunk_size = ChunkSize(weights, fill)
      /\ c.meta = t /\ c.side = a.side
  BY DEF TensorMeta, PutChunk, Copy
<1>6. t = TensorMeta(weights, fill) /\ f = PutChunk(weights, fill) /\ c = Copy(a.side, t)
  OBVIOUS
<1> HIDE DEF t, f
<1>7. t \in Chunks /\ f.bucket_meta = Append(s, t) /\ f.bucket_meta # <<>>
  BY <1>1, <1>2, <1>6, PutFacts
<1>8. s \in Seq(Chunks) /\ c \in Copies
  <2>1. a.side \in {0, 1}
    BY <1>2, Fields
  <2>2. QED
    BY <1>2, <1>7, <2>1 DEF FillStates, Copies, Copy
<1>9. Real(weights, t)
  <2>1. fill.wi \in 1..Len(weights)
    BY <1>1, <1>2 DEF FillInv, MoreChunks
  <2>2. t.offset + t.chunk_size <= BucketSize
    BY <1>1, <1>5 DEF Fits
  <2>3. QED
    BY <1>5, <2>1, <2>2 DEF Real
<1> HIDE DEF a, c, st, s
<1>10. Packed(s, t.offset) /\ Copying(weights, version, bufs[0][a.side], s, st)
  BY <1>3, <1>5 DEF SenderBytes, s
<1>11. /\ Copying(weights, version, bufs[0][a.side], Append(s, t), Append(st, c))
       /\ Packed(Append(s, t), f.offset)
  BY <1>2, <1>5, <1>7, <1>8, <1>9, <1>10, CopyingAppend
<1>12. SenderBytes(weights, version, a, bufs[0], Append(st, c), f)
  BY <1>7, <1>11 DEF SenderBytes
<1>13. SenderBytes(weights, version, agent'[0], bufs'[0], stream'[0], fill')
  BY <1>1, <1>4, <1>12, Zenon DEF a
<1>14. BufferTypes'
  BY <1>1, <1>3, Zenon DEF BufferTypes, Agents
<1>15. LinkHas(weights, version, bufs'[0], agent[1], inbox'[1])
  BY <1>1, <1>3, Zenon
<1>16. \A k \in Agents \ {0} :
           agent'[k] = agent[k] /\ stream'[k] = stream[k] /\ bufs'[k] = bufs[k]
  BY <1>1, <1>4
<1>17. \A k \in Agents \ {1} : inbox'[k] = inbox[k]
  BY <1>1
<1>18. QED
  BY <1>1, <1>2, <1>13, <1>14, <1>15, <1>16, <1>17, SenderBytesStep

\* A queued copy puts its chunk into send_buf, which nobody reads yet.
LEMMA CopyInBytes ==
    ASSUME ChainIInv, BytesInv, CopyIn
    PROVE  BytesInv'
<1> DEFINE a == agent[0]
           st == stream[0]
           s == a.side
           buf == bufs[0][s]
           new == WriteChunk(buf, version, Head(st).meta)
<1>1. /\ st # <<>> /\ stream' = [stream EXCEPT ![0] = Tail(st)]
      /\ bufs' = [bufs EXCEPT ![0][Head(st).side] =
                     WriteChunk(bufs[0][Head(st).side], version, Head(st).meta)]
      /\ UNCHANGED <<weights, workers, stage, version, fill, agent, inbox, got>>
  BY DEF CopyIn
<1>2. /\ stage = "update" /\ 0 \in Agents /\ a \in AgentStates /\ st \in Seq(Copies)
      /\ SenderOK(a, st, fill) /\ LinkOK(0) /\ fill \in FillStates /\ 0 + 1 = 1
      /\ stream \in [Agents -> Seq(Copies)]
  BY <1>1, SenderStart
<1>3. /\ BufferTypes /\ version \in Nat /\ weights \in Sizes
      /\ SenderBytes(weights, version, a, bufs[0], st, fill)
      /\ LinkHas(weights, version, bufs[0], agent[1], inbox[1])
  BY <1>2, SenderBytesStart
<1>4. /\ stream'[0] = Tail(st) /\ \A k \in Agents \ {0} : stream'[k] = stream[k]
  BY <1>1, <1>2
<1>5. a.phase = "fill" /\ Head(st).side = s
  <2>1. 1 \in 1..Len(st) /\ Head(st) = st[1]
    BY <1>1, <1>2
  <2>2. QED
    BY <1>1, <1>2, <2>1 DEF SenderOK, SideOK
<1>6. s \in {0, 1} /\ 1 - s \in {0, 1} /\ fill.bucket_meta \in Seq(Chunks)
  BY <1>2, Fields DEF FillStates
<1>7. bufs' = [bufs EXCEPT ![0][s] = new]
  BY <1>1, <1>5
<1>8. buf \in Buffers
  BY <1>2, <1>3, <1>6 DEF BufferTypes
<1>9. /\ Packed(fill.bucket_meta, fill.offset)
      /\ Copying(weights, version, buf, fill.bucket_meta, st)
      /\ new = WriteChunk(buf, version, Head(st).meta)
  BY <1>3 DEF SenderBytes
<1> HIDE DEF a, st, s, buf, new
<1>10. new \in Buffers /\ Copying(weights, version, new, fill.bucket_meta, Tail(st))
  BY <1>1, <1>2, <1>3, <1>6, <1>8, <1>9, CopyingTail
<1>11. /\ BufferTypes' /\ bufs'[0][s] = new /\ bufs'[0][1 - s] = bufs[0][1 - s]
       /\ \A k \in Agents \ {0} : bufs'[k] = bufs[k]
  <2>1. bufs \in [Agents -> [{0, 1} -> Buffers]] /\ Agents' = Agents
    BY <1>1, <1>3 DEF BufferTypes, Agents
  <2>2. /\ bufs'[0] = [bufs[0] EXCEPT ![s] = new]
        /\ \A k \in Agents \ {0} : bufs'[k] = bufs[k]
        /\ bufs' \in [Agents -> [{0, 1} -> Buffers]]
    BY <1>2, <1>6, <1>7, <1>10, <2>1
  <2>3. bufs'[0][s] = new /\ bufs'[0][1 - s] = bufs[0][1 - s]
    BY <1>2, <1>6, <2>1, <2>2
  <2>4. QED
    BY <2>1, <2>2, <2>3, Zenon DEF BufferTypes
<1>12. SenderBytes(weights, version, agent'[0], bufs'[0], stream'[0], fill')
  <2>1. a.phase = "fill" /\ fill.bucket_meta = <<>> => fill.wi <= Len(weights) \/ weights = <<>>
    BY <1>3 DEF SenderBytes
  <2>2. agent'[0] = a /\ fill' = fill /\ stream'[0] = Tail(st) /\ bufs'[0][a.side] = new
    BY <1>1, <1>4, <1>11 DEF a, s
  <2>3. QED
    BY <1>9, <1>10, <2>1, <2>2 DEF SenderBytes
<1>13. LinkHas(weights, version, bufs'[0], agent[1], inbox'[1])
  <2>1. OfferSide(a) = 1 - s
    BY <1>5 DEF OfferSide, s
  <2>2. OperationOK(a, agent[1], inbox[1], notifications[0])
    BY <1>2 DEF LinkOK, a
  <2>3. LinkHas(weights, version, bufs'[0], agent[1], inbox[1])
    BY <1>3, <1>11, <2>1, <2>2, OfferUntouched
  <2>4. QED
    BY <1>1, <2>3
<1>14. \A k \in Agents \ {0} :
           agent'[k] = agent[k] /\ stream'[k] = stream[k] /\ bufs'[k] = bufs[k]
  BY <1>1, <1>4, <1>11
<1>15. \A k \in Agents \ {1} : inbox'[k] = inbox[k]
  BY <1>1
<1>16. QED
  BY <1>1, <1>2, <1>11, <1>12, <1>13, <1>14, <1>15, SenderBytesStep

\* The bucket that is sent is in the buffer, and the last one ends behind the
\* last weight.
LEMMA SentBytes ==
    ASSUME FillInv, fill \in FillStates, NEW v, NEW a, NEW b, a.phase = "fill",
           SenderOK(a, <<>>, fill), SenderBytes(weights, v, a, b, <<>>, fill),
           NEW m, m = Bucket(weights, fill)
    PROVE  HasBucket(weights, v, b[a.side], m)
<1>1. m.bucket_meta = fill.bucket_meta /\ m.is_last = ~MoreChunks(weights, fill)
  BY DEF Bucket
<1>2. fill.bucket_meta \in Seq(Chunks)
  BY DEF FillStates
<1>3. Held(weights, v, b[a.side], m.bucket_meta)
  <2>1. Copying(weights, v, b[a.side], fill.bucket_meta, <<>>)
    BY DEF SenderBytes
  <2>2. QED
    BY <1>1, <1>2, <2>1, CopyingDone
<1>4. ASSUME m.is_last PROVE fill.wi = Len(weights) + 1 /\ fill.co = 0 /\ ~(fill.wi <= Len(weights))
  <2>1. Len(weights) \in Nat /\ fill.wi \in 1..Len(weights) + 1
    BY DEF FillInv
  <2>2. ~(fill.wi <= Len(weights))
    BY <1>1, <1>4 DEF MoreChunks
  <2>3. fill.wi > Len(weights)
    BY <2>1, <2>2
  <2>4. QED
    BY <2>1, <2>2, <2>3 DEF FillInv
<1>5. LastAt(weights, m)
  <2>1. CASE fill.bucket_meta = <<>>
    BY <1>1, <1>4, <2>1 DEF LastAt, SenderBytes
  <2>2. CASE fill.bucket_meta # <<>>
    <3>1. EndOf(fill.bucket_meta) = <<fill.wi, fill.co>>
      BY <2>2 DEF SenderOK
    <3>2. QED
      BY <1>1, <1>4, <2>2, <3>1 DEF LastAt, WeightsEnd
  <2>3. QED
    BY <2>1, <2>2
<1>6. QED
  BY <1>3, <1>5 DEF HasBucket

\* The bucket offered is in the buffer; the next one is empty.
LEMMA SendBucketBytes ==
    ASSUME ChainIInv, BytesInv, SendBucket
    PROVE  BytesInv'
<1> DEFINE a == agent[0]
           more == MoreChunks(weights, fill)
           mt == Bucket(weights, fill)
           m == [key |-> a.keys + 1, side |-> a.side, meta |-> mt]
           b == Sent(a, more)
           g == NewBucket(fill)
<1>1. /\ a.phase = "fill" /\ stream[0] = <<>>
      /\ AwaitRead(0) /\ Offer(0, mt)
      /\ agent' = [agent EXCEPT ![0] =
                    IF more THEN [Offered(0, a) EXCEPT !.side = 1 - a.side]
                            ELSE [Offered(0, a) EXCEPT !.phase = "last"]]
      /\ fill' = g
      /\ UNCHANGED <<weights, workers, stage, version, bufs, stream, got>>
  BY DEF SendBucket, Synchronize
<1>2. /\ stage = "update" /\ 0 \in Agents /\ 1 \in Agents /\ 1 # 0 /\ 0 + 1 = 1
      /\ a \in AgentStates /\ SenderOK(a, stream[0], fill) /\ LinkOK(0)
      /\ FillInv /\ fill \in FillStates
      /\ peers.next[0] = 1 /\ peers.next[0] # NoAgent
      /\ notifications[0] \in Seq(Nat) /\ inbox[1] \in Seq(Offers)
      /\ agent \in [Agents -> AgentStates] /\ inbox \in [Agents -> Seq(Offers)]
      /\ notifications \in [Agents -> Seq(Nat)]
  BY <1>1, SenderStart
<1>3. /\ BufferTypes /\ version \in Nat /\ weights \in Sizes
      /\ SenderBytes(weights, version, a, bufs[0], stream[0], fill)
  BY <1>2, SenderBytesStart
<1>4. more \in BOOLEAN /\ b = Sent(a, more) /\ g = NewBucket(fill) /\ mt = Bucket(weights, fill)
  BY DEF MoreChunks
<1>5. agent' = [agent EXCEPT ![0] = b]
  <2>1. Offered(0, a) = [a EXCEPT !.op = a.keys + 1, !.keys = a.keys + 1]
    BY <1>2 DEF Offered
  <2>2. CASE more
    <3>1. [Offered(0, a) EXCEPT !.side = 1 - a.side] = b
      BY <1>2, <2>1, <2>2 DEF Sent, AgentStates
    <3>2. QED
      BY <1>1, <2>2, <3>1
  <2>3. CASE ~more
    <3>1. [Offered(0, a) EXCEPT !.phase = "last"] = b
      BY <1>2, <2>1, <2>3 DEF Sent, AgentStates
    <3>2. QED
      BY <1>1, <2>3, <3>1
  <2>4. QED
    BY <2>2, <2>3
<1>6. inbox' = [inbox EXCEPT ![1] = Append(inbox[1], m)]
  BY <1>1, <1>2 DEF Offer
<1>7. m.side = a.side /\ m.meta = mt
  OBVIOUS
<1>8. g.wi = fill.wi /\ g.offset = 0 /\ g.bucket_meta = <<>>
  BY <1>2, NewBucketFacts
<1>9. more => fill.wi <= Len(weights)
  BY DEF MoreChunks
<1> HIDE DEF a, b, m, g, mt, more
<1>10. b.phase = (IF more THEN "fill" ELSE "last")
  BY <1>1, <1>2, <1>4, SentFacts
<1>11. agent'[0] = b /\ \A k \in Agents \ {0} : agent'[k] = agent[k]
  BY <1>2, <1>5
<1>12. inbox'[1] = Append(inbox[1], m) /\ \A k \in Agents \ {1} : inbox'[k] = inbox[k]
  BY <1>2, <1>6
<1>13. inbox[1] = <<>> /\ agent[1].xfer.state # "running"
  <2> DEFINE c == agent[1]
             q == inbox[1]
             n == notifications[0]
             k == notifications'[0]
  <2>1. OperationOK(a, c, q, n) /\ n \in Seq(Nat)
    BY <1>2 DEF LinkOK, a
  <2>2. Awaited(a.op, n, k)
    BY <1>1, <1>2, AwaitFacts DEF a
  <2> HIDE DEF c, q, n, k
  <2>3. PICK z : z = [op |-> 0]
    OBVIOUS
  <2>4. z.op = 0
    BY <2>3
  <2>5. q = <<>> /\ c.xfer.state # "running"
    BY <2>1, <2>2, <2>4, AwaitedLink, ZenonT(60)
  <2>6. QED
    BY <2>5 DEF c, q
<1>14. inbox'[1][1] = m
  BY <1>12, <1>13
<1>15. HasBucket(weights, version, bufs[0][a.side], mt)
  BY <1>1, <1>2, <1>3, <1>4, SentBytes
<1>16. LinkHas(weights, version, bufs'[0], agent[1], inbox'[1])
  <2>1. bufs'[0] = bufs[0]
    BY <1>1
  <2>2. QED
    BY <1>7, <1>13, <1>14, <1>15, <2>1 DEF LinkHas
<1>17. SenderBytes(weights, version, b, bufs[0], <<>>, g)
  <2>1. /\ Packed(g.bucket_meta, g.offset)
        /\ Copying(weights, version, bufs[0][b.side], g.bucket_meta, <<>>)
    BY <1>8, CopyingNone
  <2>2. b.phase = "fill" => g.wi <= Len(weights)
    BY <1>8, <1>9, <1>10
  <2>3. QED
    BY <2>1, <2>2 DEF SenderBytes
<1>18. SenderBytes(weights, version, agent'[0], bufs'[0], stream'[0], fill')
  BY <1>1, <1>11, <1>17, Zenon
<1>19. BufferTypes'
  BY <1>1, <1>3, Zenon DEF BufferTypes, Agents
<1>20. \A k \in Agents \ {0} :
           agent'[k] = agent[k] /\ stream'[k] = stream[k] /\ bufs'[k] = bufs[k]
  BY <1>1, <1>11
<1>21. QED
  BY <1>1, <1>2, <1>12, <1>16, <1>18, <1>19, <1>20, SenderBytesStep

\* The sender's end changes no bytes.
LEMMA FinishSendBytes ==
    ASSUME ChainIInv, BytesInv, FinishSend
    PROVE  BytesInv'
<1> DEFINE a == agent[0]
           b == [a EXCEPT !.phase = "done", !.op = 0]
<1>1. /\ a.phase = "last" /\ agent' = [agent EXCEPT ![0].phase = "done", ![0].op = 0]
      /\ UNCHANGED <<weights, workers, stage, version, fill, bufs, inbox, stream, got>>
  BY DEF FinishSend
<1>2. /\ stage = "update" /\ 0 \in Agents /\ a \in AgentStates
      /\ agent \in [Agents -> AgentStates]
  BY <1>1, SenderStart
<1>3. /\ BufferTypes /\ SenderBytes(weights, version, a, bufs[0], stream[0], fill)
      /\ LinkHas(weights, version, bufs[0], agent[1], inbox[1])
  BY <1>2, SenderBytesStart
<1>4. b = Record("done", a.side, 0, a.keys, a.meta, a.ahead, a.xfer, a.done, a.merge)
  BY <1>2, DoneRecord
<1>5. agent'[0] = b /\ \A k \in Agents \ {0} : agent'[k] = agent[k]
  BY <1>1, <1>2
<1> HIDE DEF a, b
<1>6. b.phase = "done" /\ b.side = a.side
  BY <1>4 DEF Record
<1>7. SenderBytes(weights, version, b, bufs[0], stream[0], fill)
  BY <1>3, <1>6 DEF SenderBytes
<1>8. /\ SenderBytes(weights, version, agent'[0], bufs'[0], stream'[0], fill')
      /\ LinkHas(weights, version, bufs'[0], agent[1], inbox'[1])
  BY <1>1, <1>3, <1>5, <1>7, Zenon
<1>9. BufferTypes'
  BY <1>1, <1>3, Zenon DEF BufferTypes, Agents
<1>10. \A k \in Agents \ {0} :
           agent'[k] = agent[k] /\ stream'[k] = stream[k] /\ bufs'[k] = bufs[k]
  BY <1>1, <1>5
<1>11. \A k \in Agents \ {1} : inbox'[k] = inbox[k]
  BY <1>1
<1>12. QED
  BY <1>1, <1>2, <1>8, <1>9, <1>10, <1>11, SenderBytesStep

-----------------------------------------------------------------------------
(* Steps of the manager, and the bytes *)

\* Buffers as prepare leaves them.
LEMMA ZerosFacts == Zeros \in Buffers
<1>1. <<0, 0, 0>> \in Bytes
  BY DEF Bytes
<1>2. QED
  BY <1>1 DEF Zeros, Buffers

\* Outside an update nothing moves.
LEMMA RestBytes ==
    ASSUME BytesInv, stage # "update", stage' # "update",
           UNCHANGED <<weights, workers, version, bufs, got>>
    PROVE  BytesInv'
<1>1. Workers' = Workers /\ Agents' = Agents
  BY DEF Workers, Agents
<1>2. BufferTypes'
  BY <1>1, Zenon DEF BytesInv, BufferTypes
<1>3. QED
  BY <1>1, <1>2, Zenon DEF BytesInv

\* An update starts with nothing received, in buffers that hold nothing.
LEMMA UpdateBegins ==
    ASSUME ChainIInv, stage = "idle", stage' = "update", version' = version + 1,
           fill' = StartFill, agent' = [i \in Agents |-> Fresh(i, agent[i].keys)],
           bufs' = [i \in Agents |-> [s \in {0, 1} |-> Zeros]],
           got' = [i \in Workers |-> Nothing],
           UNCHANGED <<weights, workers, inbox, stream>>
    PROVE  BytesInv'
<1>1. /\ workers \in Nat \ {0} /\ version \in Nat /\ weights \in Sizes
      /\ agent \in [Agents -> AgentStates]
  BY TransferConstants DEF ChainIInv, Types, ManagerTypes, TransferTypes, FillInv, Sizes
<1>2. Workers' = Workers /\ Agents' = Agents /\ version' \in Nat /\ version' > 0
  BY <1>1 DEF Workers, Agents
<1>3. \A i \in Agents : inbox[i] = <<>> /\ stream[i] = <<>>
  BY DEF ChainIInv, QuietInv
<1>4. ASSUME NEW i \in Agents
      PROVE  /\ agent'[i].xfer.state = "none"
             /\ agent'[i].phase = (IF i = 0 THEN "fill" ELSE "first")
  <2>1. agent'[i] = Fresh(i, agent[i].keys) /\ agent[i].keys \in Nat
    BY <1>1, Fields
  <2>2. QED
    BY <2>1, FreshFacts
<1>5. BufferTypes'
  <2>1. bufs' \in [Agents -> [{0, 1} -> Buffers]]
    BY ZerosFacts
  <2>2. QED
    BY <1>2, <2>1, Zenon DEF BufferTypes
<1>6. SenderBytes(weights', version', agent'[0], bufs'[0], stream'[0], fill')
  <2>1. 0 \in Agents
    BY <1>1 DEF Agents
  <2>2. stream'[0] = <<>> /\ fill'.bucket_meta = <<>> /\ fill'.offset = 0 /\ fill'.wi = 1
    BY <1>3, <2>1, StartFacts
  <2>3. 1 <= Len(weights') \/ weights' = <<>>
    <3>1. weights' \in Sizes /\ Len(weights') \in Nat
      BY <1>1 DEF Sizes
    <3>2. CASE Len(weights') = 0
      BY <3>1, <3>2, EmptyFacts DEF Sizes
    <3>3. CASE Len(weights') # 0
      BY <3>1, <3>3
    <3>4. QED
      BY <3>2, <3>3
  <2>4. /\ Packed(<<>>, fill'.offset)
        /\ Copying(weights', version', bufs'[0][agent'[0].side], <<>>, <<>>)
    BY CopyingNone
  <2>5. QED
    BY <2>2, <2>3, <2>4 DEF SenderBytes
<1>7. Nothing \in Servers(weights') /\ Received(weights', version', Nothing, FirstPos)
  <2>1. Nothing = [n \in 1..Len(weights') |-> <<>>] /\ weights' \in Sizes
    BY <1>1 DEF Nothing
  <2>2. QED
    BY <1>2, <2>1, ReceivedEnds DEF FirstPos
<1>8. Queued(<<>>) = <<>>
  <2>1. <<>> \in Seq(Copies)
    OBVIOUS
  <2>2. QED
    BY <2>1, MetadataFacts
<1>9. ASSUME NEW i \in Workers PROVE WorkerBytes(i)'
  <2>1. i \in Agents /\ i # 0
    BY <1>1 DEF Workers, Agents
  <2>2. /\ agent'[i].phase = "first" /\ agent'[i].xfer.state = "none"
        /\ stream'[i] = <<>> /\ got'[i] = Nothing
    BY <1>3, <1>4, <2>1
  <2>3. BucketsOK(weights', version', agent'[i], bufs'[i])
    BY <2>2 DEF BucketsOK, InHand
  <2>4. MergePos(weights', agent'[i]) = FirstPos
    BY <2>2 DEF MergePos
  <2>5. Held(weights', version', bufs'[i][agent'[i].side], <<>>) /\ Chain(<<>>, FirstPos)
    BY DEF Held, Chain
  <2>6. ServerOK(weights', version', agent'[i], bufs'[i], <<>>, Nothing)
    BY <1>7, <1>8, <2>4, <2>5 DEF ServerOK, Start
  <2>7. QED
    BY <2>2, <2>3, <2>6 DEF WorkerBytes
<1>10. ASSUME NEW i \in 0..workers - 1 PROVE LinkBytes(i)'
  <2>1. i + 1 \in Agents
    BY <1>1 DEF Agents
  <2>2. inbox'[i + 1] = <<>> /\ agent'[i + 1].xfer.state = "none"
    BY <1>3, <1>4, <2>1
  <2>3. QED
    BY <2>2 DEF LinkBytes, LinkHas
<1>11. got' = [i \in Workers' |-> got'[i]]
  BY <1>2
<1>12. (\A i \in Workers : WorkerBytes(i)) ' /\ (\A i \in 0..workers - 1 : LinkBytes(i)) '
  BY <1>2, <1>9, <1>10
<1>13. QED
  BY <1>2, <1>5, <1>6, <1>11, <1>12, Zenon DEF BytesInv

\* An update starts, or is refused and nothing moves.
LEMMA BeginUpdateBytes ==
    ASSUME ChainIInv, BytesInv, BeginUpdate
    PROVE  BytesInv'
<1>1. stage = "idle" /\ UNCHANGED <<weights, workers, inbox, stream>>
  BY DEF BeginUpdate
<1>2. CASE stage' = "aborted" /\ UNCHANGED <<version, bufs, got>>
  <2>1. stage # "update" /\ stage' # "update"
    BY <1>1, <1>2
  <2>2. QED
    BY <1>1, <1>2, <2>1, RestBytes
<1>3. CASE /\ stage' = "update" /\ version' = version + 1
           /\ fill' = StartFill /\ agent' = [i \in Agents |-> Fresh(i, agent[i].keys)]
           /\ bufs' = [i \in Agents |-> [s \in {0, 1} |-> Zeros]]
           /\ got' = [i \in Workers |-> Nothing]
  BY <1>1, <1>3, UpdateBegins
<1>4. QED
  BY <1>2, <1>3 DEF BeginUpdate

\* An update ends when every worker has come to the end.
LEMMA FinalizeBytes ==
    ASSUME ChainIInv, BytesInv, Finalize
    PROVE  BytesInv'
<1>1. /\ stage = "update" /\ stage' = "idle" /\ \A i \in Agents : agent[i].phase = "done"
      /\ UNCHANGED <<weights, workers, version, bufs, got>>
  BY DEF Finalize
<1>2. /\ BufferTypes /\ got = [k \in Workers |-> got[k]]
      /\ \A k \in Workers : WorkerBytes(k)
  BY <1>1, BytesFacts
<1>3. Workers' = Workers /\ Agents' = Agents
  BY <1>1 DEF Workers, Agents
<1>4. Queued(<<>>) = <<>>
  <2>1. <<>> \in Seq(Copies)
    OBVIOUS
  <2>2. QED
    BY <2>1, MetadataFacts
<1>5. ASSUME NEW i \in Workers PROVE Received(weights, version, got[i], WeightsEnd(weights))
  <2>1. i \in Agents /\ i # 0
    BY <1>1, WorkerIsAgent
  <2>2. WorkerOK(i) /\ agent[i].phase = "done"
    BY <1>1, <2>1, AgentFacts
  <2>3. stream[i] = <<>>
    BY <2>2 DEF WorkerOK, PhaseOK
  <2>4. MergePos(weights, agent[i]) = WeightsEnd(weights)
    BY <2>2 DEF MergePos
  <2>5. ServerOK(weights, version, agent[i], bufs[i], <<>>, got[i])
    BY <1>2, <2>3 DEF WorkerBytes
  <2>6. QED
    BY <1>4, <2>4, <2>5 DEF ServerOK, Start
<1>6. BufferTypes'
  BY <1>1, <1>2, <1>3, Zenon DEF BufferTypes
<1>7. stage' # "update"
  BY <1>1
<1>8. QED
  BY <1>1, <1>2, <1>3, <1>5, <1>6, <1>7, Zenon DEF BytesInv

\* Before the first update there is nothing to account for.
LEMMA BytesInit == Init => BytesInv
<1> SUFFICES ASSUME Init PROVE BytesInv
  OBVIOUS
<1>1. /\ stage = "idle" /\ version = 0
      /\ bufs = [i \in Agents |-> [s \in {0, 1} |-> Zeros]]
      /\ got = [i \in Workers |-> Nothing]
  BY DEF Init
<1>2. BufferTypes
  BY <1>1, ZerosFacts DEF BufferTypes
<1>3. ~(version > 0) /\ stage # "update" /\ got = [i \in Workers |-> got[i]]
  BY <1>1
<1>4. QED
  BY <1>2, <1>3, Zenon DEF BytesInv

\* Every step keeps the bytes where they are believed to be.
LEMMA BytesNext == ChainIInv /\ BytesInv /\ [Next]_vars => BytesInv'
<1> SUFFICES ASSUME ChainIInv, BytesInv, [Next]_vars PROVE BytesInv'
  OBVIOUS
<1>1. CASE BeginUpdate \/ Finalize
  BY <1>1, BeginUpdateBytes, FinalizeBytes
<1>2. CASE SenderStep \/ CopyIn
  BY <1>2, FillChunkBytes, SendBucketBytes, FinishSendBytes, CopyInBytes DEF SenderStep
<1>3. ASSUME NEW i \in Workers, Step(i) PROVE BytesInv'
  BY <1>3, BeginReadBytes, FirstBucketBytes, ForwardBytes, YieldChunkBytes, EndRoundBytes,
     FinishReceiveBytes DEF Step
<1>4. ASSUME NEW i \in Workers, EndTransfer(i) PROVE BytesInv'
  BY <1>4, EndTransferBytes
<1>5. ASSUME NEW i \in Workers, CopyOut(i) PROVE BytesInv'
  BY <1>5, CopyOutBytes
<1>6. CASE UNCHANGED vars
  <2>1. UNCHANGED <<weights, workers, stage, version, fill, agent, bufs, inbox, stream, got>>
    BY <1>6 DEF vars
  <2>2. CASE stage # "update"
    <3>1. stage' # "update"
      BY <2>1, <2>2
    <3>2. QED
      BY <2>1, <2>2, <3>1, RestBytes
  <2>3. CASE stage = "update"
    <3>1. /\ BufferTypes /\ SenderBytes(weights, version, agent[0], bufs[0], stream[0], fill)
          /\ LinkHas(weights, version, bufs[0], agent[1], inbox[1])
      BY <2>3, SenderBytesStart
    <3>2. BufferTypes'
      BY <2>1, <3>1, Zenon DEF BufferTypes, Agents
    <3>3. /\ SenderBytes(weights, version, agent'[0], bufs'[0], stream'[0], fill')
          /\ LinkHas(weights, version, bufs'[0], agent[1], inbox'[1])
      BY <2>1, <3>1, Zenon
    <3>4. /\ \A k \in Agents \ {0} :
                agent'[k] = agent[k] /\ stream'[k] = stream[k] /\ bufs'[k] = bufs[k]
          /\ \A k \in Agents \ {1} : inbox'[k] = inbox[k]
      BY <2>1
    <3>5. QED
      BY <2>1, <2>3, <3>2, <3>3, <3>4, SenderBytesStep
  <2>4. QED
    BY <2>2, <2>3
<1>7. QED
  BY <1>1, <1>2, <1>3, <1>4, <1>5, <1>6 DEF Next

-----------------------------------------------------------------------------
(* What the chain promises *)

\* A new update begins only when everyone has everything.
LEMMA BeginDelivers ==
    ASSUME ChainIInv, BytesInv, BeginUpdate, version' = version + 1
    PROVE  Delivery!Begin
<1>1. version \in Nat /\ weights \in Sizes
  BY TransferConstants DEF ChainIInv, Types, ManagerTypes, FillInv, Sizes
<1>2. stage = "idle" /\ weights' = weights /\ got' = [i \in Workers |-> Nothing]
  <2>1. version' # version
    BY <1>1
  <2>2. QED
    BY <2>1 DEF BeginUpdate
<1>3. DOMAIN got = Workers
  BY Zenon DEF BytesInv
<1>4. version = 0 \/ \A r \in DOMAIN got : Delivery!Complete(r)
  <2>1. SUFFICES ASSUME version # 0, NEW r \in DOMAIN got PROVE Delivery!Complete(r)
    OBVIOUS
  <2>2. version > 0 /\ r \in Workers
    BY <1>1, <1>3, <2>1
  <2>3. Received(weights, version, got[r], WeightsEnd(weights))
    BY <1>2, <2>2 DEF BytesInv
  <2>4. \A n \in 1..Len(weights) : Len(got[r][n]) = weights[n]
    BY <1>1, <2>3, ReceivedEnds
  <2>5. QED
    BY <2>4 DEF Delivery!Complete
<1>5. got' = [r \in DOMAIN got' |-> Delivery!Nothing]
  BY <1>2 DEF Nothing, Delivery!Nothing
<1>6. QED
  BY <1>2, <1>4, <1>5 DEF Delivery!Begin

\* What a worker's GPU copies to its server is the next part of the next weight.
LEMMA CopyOutDelivers ==
    ASSUME ChainIInv, BytesInv, NEW i \in Workers, CopyOut(i)
    PROVE  \E r \in DOMAIN got, n \in 1..Len(weights) : Delivery!Deliver(r, n)
<1> DEFINE t == Head(stream[i]).meta
           b == bufs[i][agent[i].side]
           len == t.chunk_offset + t.chunk_size
<1>1. /\ stage = "update" /\ t \in Chunks /\ IsChunk(t) /\ Real(weights, t)
      /\ got[i] \in Servers(weights)
      /\ Received(weights, version, got[i], Pos(t)) /\ Holds(version, b, t)
      /\ got' = [got EXCEPT ![i] = Copied(got[i], b, t)]
  BY CopyOutFacts
<1>2. weights' = weights /\ version' = version
  BY DEF CopyOut
<1>3. version \in Nat \ {0} /\ weights \in Sizes /\ got = [r \in Workers |-> got[r]]
  BY <1>1, BytesFacts
<1> HIDE DEF t, b
<1>4. /\ Copied(got[i], b, t) = [got[i] EXCEPT ![t.name] = Content(version, t.name, len)]
      /\ Len(got[i][t.name]) = t.chunk_offset
      /\ \A n \in 1..t.name - 1 : Len(got[i][n]) = weights[n]
  BY <1>1, <1>3, CopiedFacts
<1>5. /\ t.name \in 1..Len(weights) /\ weights[t.name] \in Nat
      /\ t.chunk_offset \in Nat /\ t.chunk_size \in Nat
      /\ t.chunk_size >= 1 /\ t.chunk_offset + t.chunk_size <= weights[t.name]
  BY <1>1, <1>3, ChunkFacts
<1>6. len \in Len(got[i][t.name]) + 1..weights[t.name]
  BY <1>4, <1>5
<1> HIDE DEF len
<1>7. got' = [got EXCEPT ![i][t.name] = Delivery!Content(t.name, len)]
  <2>1. Delivery!Content(t.name, len) = Content(version, t.name, len)
    BY DEF Content, Delivery!Content
  <2>2. [got EXCEPT ![i][t.name] = Content(version, t.name, len)]
          = [got EXCEPT ![i] = [got[i] EXCEPT ![t.name] = Content(version, t.name, len)]]
    BY <1>3
  <2>3. QED
    BY <1>1, <1>4, <2>1, <2>2
<1>8. version > 0 /\ i \in DOMAIN got
  BY <1>3
<1>9. Delivery!Deliver(i, t.name)
  BY <1>2, <1>4, <1>6, <1>7, <1>8 DEF Delivery!Deliver
<1>10. QED
  BY <1>5, <1>8, <1>9

\* Every step is one of the delivery or none.
LEMMA DeliveryStep ==
    ChainIInv /\ BytesInv /\ [Next]_vars => [Delivery!DNext]_(Delivery!dvars)
<1> SUFFICES ASSUME ChainIInv, BytesInv, [Next]_vars
             PROVE  Delivery!DNext \/ UNCHANGED <<weights, version, got>>
  BY DEF Delivery!dvars
<1>1. CASE UNCHANGED vars
  BY <1>1 DEF vars
<1>2. CASE BeginUpdate
  <2>1. CASE version' = version + 1
    BY <1>2, <2>1, BeginDelivers DEF Delivery!DNext
  <2>2. CASE UNCHANGED <<weights, version, got>>
    BY <2>2
  <2>3. QED
    BY <1>2, <2>1, <2>2 DEF BeginUpdate
<1>3. CASE Finalize
  BY <1>3 DEF Finalize
<1>4. CASE SenderStep \/ CopyIn
  BY <1>4 DEF SenderStep, FillChunk, SendBucket, FinishSend, CopyIn
<1>5. ASSUME NEW i \in Workers, Step(i) \/ EndTransfer(i) PROVE UNCHANGED <<weights, version, got>>
  BY <1>5 DEF Step, BeginRead, FirstBucket, Forward, YieldChunk, EndRound, FinishReceive,
              EndTransfer
<1>6. ASSUME NEW i \in Workers, CopyOut(i) PROVE Delivery!DNext
  BY <1>6, CopyOutDelivers DEF Delivery!DNext
<1>7. QED
  BY <1>1, <1>2, <1>3, <1>4, <1>5, <1>6 DEF Next

\* With any number of workers and any weights, however agents, GPUs, NIXL and
\* ZeroMQ interleave: what a worker's server gets are the bytes of the weights
\* of the update, in the generator's order and none twice, and the next update
\* begins only when every server has them all.
THEOREM ChainDelivers == Spec => ImplementsDelivery
<1>1. Init => Delivery!DInit
  BY DEF Init, Nothing, Delivery!DInit, Delivery!Nothing
<1>2. QED
  BY <1>1, ChainInit, ChainNext, BytesInit, BytesNext, DeliveryStep, PTL
  DEF Spec, ImplementsDelivery, Delivery!DeliverySpec
=============================================================================

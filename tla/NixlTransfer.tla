---------------------------- MODULE NixlTransfer ----------------------------
(***************************************************************************)
(* The NIXL checkpoint engine (checkpoint_engine/nixl_checkpoint_engine.py)*)
(* driven by CheckpointEngineManager.update_weights.  The agents form a    *)
(* chain: agent 0 (trainer rank 0) packs the weights into buckets, every   *)
(* rollout worker reads each bucket from the agent before it, offers it to *)
(* the agent after it and meanwhile hands its chunks to the server.  Each  *)
(* agent has two buffers: send_buf, which the next agent and the consumer  *)
(* read, and recv_buf, which a transfer fills; they swap after a bucket.   *)
(*                                                                         *)
(* Work queued on the GPU runs later and in order: the sender's copies     *)
(* into send_buf and the consumer's copies out of it (stream).  A transfer *)
(* (external: NIXL) moves the remote buffer as it is when it ends and then *)
(* notifies the remote agent; until then the local buffer is garbage.      *)
(***************************************************************************)
EXTENDS WeightChunks

CONSTANTS
    WeightLists,        \* lists of weight sizes to choose from
    RolloutSizes,       \* numbers of rollout workers to choose from
    TrainerWorldSize,
    MaxUpdates          \* bound on updates

ASSUME NixlAssumption ==
    /\ \A w \in WeightLists : w \in Seq(Nat \ {0})
    /\ RolloutSizes \subseteq Nat \ {0}
    /\ TrainerWorldSize \in Nat \ {0}
    /\ MaxUpdates \in Nat

VARIABLES
    weights, workers,   \* chosen at the start: sizes, number of workers
    stage, version,     \* the manager: update in progress, updates begun
    peers,              \* prev_agent and next_agent of every agent
    fill,               \* the sender's packing loop
    agent,              \* local state of every agent
    bufs,               \* the two buffers of every agent
    inbox,              \* ZeroMQ messages to an agent, not yet read
    notifications,      \* keys of finished reads of an agent's buffers
    stream,             \* GPU copies an agent has queued
    got                 \* history: bytes the server of a worker has, by weight

vars == <<weights, workers, stage, version, peers, fill, agent, bufs, inbox,
          notifications, stream, got>>

Agents == 0..workers
Workers == 1..workers
NoAgent == -1
NoPeers == [prev |-> [i \in Agents |-> NoAgent], next |-> [i \in Agents |-> NoAgent]]

-----------------------------------------------------------------------------
(* build_topology and the assertions on what it returns                     *)

\* Python's s[lo:hi] and s[lo:], with negative positions.
From0(s, p) == IF p >= 0 THEN p ELSE Len(s) + p
PySlice(s, lo, hi) == SubSeq(s, From0(s, lo) + 1, From0(s, hi))
PySliceFrom(s, lo) == SubSeq(s, From0(s, lo) + 1, Len(s))

\* metadata as prepare returned it: trainer ranks, then rollout workers.  The
\* trainer's other ranks take no part; they are numbered after the workers.
Metadata ==
    [j \in 1..TrainerWorldSize + workers |->
        IF j = 1 THEN 0
        ELSE IF j <= TrainerWorldSize THEN workers + j - 1
        ELSE j - TrainerWorldSize]

BuildTopology ==
    [first |-> Metadata[TrainerWorldSize + 1],
     prev |-> <<Metadata[1]>> \o PySlice(Metadata, -workers, -1),
     next |-> Append(PySliceFrom(Metadata, -workers + 1), NoAgent)]

\* build_process_group checks the lengths, init_process_group who has
\* neighbours.
TopologyAsserts(t) ==
    /\ Len(t.prev) = workers /\ Len(t.next) = workers
    /\ \A i \in Workers : /\ t.prev[i] # NoAgent
                          /\ (t.next[i] = NoAgent) <=> (i = workers)

-----------------------------------------------------------------------------
NoTransfer == [state |-> "none", src |-> 0, key |-> 0]
NoBucket == [bucket_meta |-> <<>>, is_last |-> FALSE]

\* side: which buffer is send_buf; op: key of the readable operation waited
\* for (0: none); keys: operations ever made, numbering them; done: chunks of
\* meta handed on.
Fresh(i, keys) ==
    [phase |-> IF i = 0 THEN "fill" ELSE "first", side |-> 0, op |-> 0,
     keys |-> keys, meta |-> NoBucket, ahead |-> NoBucket,
     xfer |-> NoTransfer, done |-> 0, merge |-> StartMerge]

Nothing == [n \in 1..Len(weights) |-> <<>>]

Init ==
    /\ weights \in WeightLists
    /\ workers \in RolloutSizes
    /\ stage = "idle"
    /\ version = 0
    /\ peers = NoPeers
    /\ fill = StartFill
    /\ agent = [i \in Agents |-> [Fresh(i, 0) EXCEPT !.phase = "done"]]
    /\ bufs = [i \in Agents |-> [s \in {0, 1} |-> Zeros]]
    /\ inbox = [i \in Agents |-> <<>>]
    /\ notifications = [i \in Agents |-> <<>>]
    /\ stream = [i \in Agents |-> <<>>]
    /\ got = [i \in Workers |-> Nothing]

\* update_weights up to the transfer: prepare, build_topology and
\* init_process_group on all workers; an assertion that fails ends the run.
BeginUpdate ==
    LET t == BuildTopology IN
    /\ stage = "idle"
    /\ version < MaxUpdates
    /\ \/ /\ ~TopologyAsserts(t)
          /\ stage' = "aborted"
          /\ UNCHANGED <<version, peers, fill, agent, bufs, got>>
       \/ /\ TopologyAsserts(t)
          /\ stage' = "update"
          /\ version' = version + 1
          /\ peers' = [prev |-> [i \in Agents |-> IF i = 0 THEN NoAgent ELSE t.prev[i]],
                       next |-> [i \in Agents |-> IF i = 0 THEN t.first ELSE t.next[i]]]
          /\ fill' = StartFill
          /\ agent' = [i \in Agents |-> Fresh(i, agent[i].keys)]
          /\ bufs' = [i \in Agents |-> [s \in {0, 1} |-> Zeros]]
          /\ got' = [i \in Workers |-> Nothing]
    /\ UNCHANGED <<weights, workers, inbox, notifications, stream>>

\* ray.get returned from all workers; finalize forgets the neighbours and the
\* buffers, which prepare makes anew.
Finalize ==
    /\ stage = "update"
    /\ \A i \in Agents : agent[i].phase = "done"
    /\ stage' = "idle"
    /\ peers' = NoPeers
    /\ UNCHANGED <<weights, workers, version, fill, agent, bufs, inbox,
                   notifications, stream, got>>

-----------------------------------------------------------------------------
(* ReadableOperation                                                        *)

\* Offer the bucket in send_buf of agent i to the next agent, if any.
Offer(i, meta) ==
    IF peers.next[i] = NoAgent THEN UNCHANGED inbox
    ELSE inbox' = [inbox EXCEPT ![peers.next[i]] =
                      Append(@, [key |-> agent[i].keys + 1,
                                 side |-> agent[i].side, meta |-> meta])]

Offered(i, a) ==
    IF peers.next[i] = NoAgent THEN [a EXCEPT !.op = 0]
    ELSE [a EXCEPT !.op = a.keys + 1, !.keys = a.keys + 1]

\* Fault: the previous bucket is not waited for.
AwaitNobody(i) == UNCHANGED notifications

\* wait_for_complete of the readable operation, if there is one.
AwaitRead(i) ==
    IF agent[i].op = 0 THEN UNCHANGED notifications
    ELSE /\ notifications[i] # <<>>
         /\ notifications' = [notifications EXCEPT ![i] = Tail(@)]

\* Fault: the GPU is not waited for.
NoSynchronize(i) == TRUE

\* torch.cuda.synchronize(): all queued copies are done.
Synchronize(i) == stream[i] = <<>>

-----------------------------------------------------------------------------
(* send_weights on agent 0                                                  *)

\* One chunk goes into the bucket; the copy is queued.
FillChunk ==
    /\ stage = "update" /\ agent[0].phase = "fill"
    /\ MoreChunks(weights, fill) /\ Fits(weights, fill)
    /\ fill' = PutChunk(weights, fill)
    /\ stream' = [stream EXCEPT ![0] =
                     Append(@, [side |-> agent[0].side,
                                meta |-> TensorMeta(weights, fill)])]
    /\ UNCHANGED <<weights, workers, stage, version, peers, agent, bufs, inbox,
                   notifications, got>>

\* The bucket is full, or there are no more chunks and it is the last one.
SendBucket ==
    LET more == MoreChunks(weights, fill) IN
    /\ stage = "update" /\ agent[0].phase = "fill"
    /\ more => ~Fits(weights, fill)
    /\ Synchronize(0)
    /\ AwaitRead(0)
    /\ Offer(0, Bucket(weights, fill))
    /\ agent' = [agent EXCEPT ![0] =
                    IF more THEN [Offered(0, @) EXCEPT !.side = 1 - agent[0].side]
                            ELSE [Offered(0, @) EXCEPT !.phase = "last"]]
    /\ fill' = NewBucket(fill)
    /\ UNCHANGED <<weights, workers, stage, version, peers, bufs, stream, got>>

FinishSend ==
    /\ agent[0].phase = "last"
    /\ AwaitRead(0)
    /\ agent' = [agent EXCEPT ![0].phase = "done", ![0].op = 0]
    /\ UNCHANGED <<weights, workers, stage, version, peers, fill, bufs, inbox,
                   stream, got>>

\* A queued copy of the sender happens.
CopyIn ==
    /\ stream[0] # <<>>
    /\ LET c == Head(stream[0]) IN
       bufs' = [bufs EXCEPT ![0][c.side] = WriteChunk(@, version, c.meta)]
    /\ stream' = [stream EXCEPT ![0] = Tail(@)]
    /\ UNCHANGED <<weights, workers, stage, version, peers, fill, agent, inbox,
                   notifications, got>>

-----------------------------------------------------------------------------
(* _receive_weight_chunks, with its consumer, on worker i                   *)

\* read_metadata and begin_read: the transfer into recv_buf starts.
BeginRead(i) ==
    /\ agent[i].phase \in {"first", "next"}
    /\ inbox[i] # <<>>
    /\ LET m == Head(inbox[i]) IN
       agent' = [agent EXCEPT
           ![i].phase = IF @ = "first" THEN "reading" ELSE "yield",
           ![i].ahead = m.meta,
           ![i].xfer = [state |-> "running", src |-> m.side, key |-> m.key]]
    /\ inbox' = [inbox EXCEPT ![i] = Tail(@)]
    /\ bufs' = [bufs EXCEPT ![i][1 - agent[i].side] = Garbage]
    /\ UNCHANGED <<weights, workers, stage, version, peers, fill, notifications,
                   stream, got>>

\* The transfer ends and NIXL notifies the agent that was read.
EndTransfer(i) ==
    /\ agent[i].xfer.state = "running"
    /\ bufs' = [bufs EXCEPT ![i][1 - agent[i].side] =
                   bufs[peers.prev[i]][agent[i].xfer.src]]
    /\ notifications' = [notifications EXCEPT ![peers.prev[i]] =
                            Append(@, agent[i].xfer.key)]
    /\ agent' = [agent EXCEPT ![i].xfer.state = "done"]
    /\ UNCHANGED <<weights, workers, stage, version, peers, fill, inbox, stream, got>>

\* The buffers swap and the bucket just read is the one to hand on.
Swapped(a) ==
    [a EXCEPT !.phase = "top", !.side = 1 - a.side, !.meta = a.ahead,
              !.xfer = NoTransfer, !.done = 0, !.op = 0]

FirstBucket(i) ==
    /\ agent[i].phase = "reading" /\ agent[i].xfer.state = "done"
    /\ agent' = [agent EXCEPT ![i] = Swapped(@)]
    /\ UNCHANGED <<weights, workers, stage, version, peers, fill, bufs, inbox,
                   notifications, stream, got>>

\* Fault: only buckets before the last are offered to the next agent.
ForwardUnlessLast(i) ==
    /\ agent[i].phase = "top"
    /\ IF agent[i].meta.is_last THEN UNCHANGED inbox ELSE Offer(i, agent[i].meta)
    /\ agent' = [agent EXCEPT
           ![i] = IF agent[i].meta.is_last THEN [@ EXCEPT !.phase = "yield"]
                  ELSE [Offered(i, @) EXCEPT !.phase = "next"]]
    /\ UNCHANGED <<weights, workers, stage, version, peers, fill, bufs,
                   notifications, stream, got>>

\* Offer the bucket to the next agent; unless it is the last one, the next
\* bucket is asked for before its chunks are handed to the consumer.
Forward(i) ==
    /\ agent[i].phase = "top"
    /\ Offer(i, agent[i].meta)
    /\ agent' = [agent EXCEPT ![i] =
                    [Offered(i, @) EXCEPT
                        !.phase = IF agent[i].meta.is_last THEN "yield" ELSE "next"]]
    /\ UNCHANGED <<weights, workers, stage, version, peers, fill, bufs,
                   notifications, stream, got>>

\* Yield one chunk: merge_weight_chunks takes it, and it or the server's
\* update_weights queues a copy out of send_buf.
YieldChunk(i) ==
    /\ agent[i].phase = "yield"
    /\ agent[i].done < Len(agent[i].meta.bucket_meta)
    /\ LET t == agent[i].meta.bucket_meta[agent[i].done + 1] IN
       /\ agent' = [agent EXCEPT ![i].done = @ + 1,
                                 ![i].merge = MergeChunk(@, t)]
       /\ stream' = [stream EXCEPT ![i] =
                        Append(@, [side |-> agent[i].side, meta |-> t])]
    /\ UNCHANGED <<weights, workers, stage, version, peers, fill, bufs, inbox,
                   notifications, got>>

\* A queued copy of the consumer happens.
CopyOut(i) ==
    /\ stream[i] # <<>>
    /\ LET c == Head(stream[i])  t == c.meta IN
       got' = [got EXCEPT ![i][t.name] =
                  @ \o Slice(bufs[i][c.side], t.offset, t.chunk_size)]
    /\ stream' = [stream EXCEPT ![i] = Tail(@)]
    /\ UNCHANGED <<weights, workers, stage, version, peers, fill, agent, bufs,
                   inbox, notifications>>

Yielded(i) ==
    agent[i].phase = "yield" /\ agent[i].done = Len(agent[i].meta.bucket_meta)

\* The bucket has been read by the next agent, the next bucket has arrived
\* and all copies are done.
EndRound(i) ==
    /\ Yielded(i) /\ ~agent[i].meta.is_last
    /\ AwaitRead(i)
    /\ agent[i].xfer.state = "done"
    /\ Synchronize(i)
    /\ agent' = [agent EXCEPT ![i] = Swapped(@)]
    /\ UNCHANGED <<weights, workers, stage, version, peers, fill, bufs, inbox,
                   stream, got>>

\* After the last bucket; the server's update_weights returns once it has
\* all weights.
FinishReceive(i) ==
    /\ Yielded(i) /\ agent[i].meta.is_last
    /\ AwaitRead(i)
    /\ stream[i] = <<>>
    /\ agent' = [agent EXCEPT ![i].phase = "done", ![i].op = 0]
    /\ UNCHANGED <<weights, workers, stage, version, peers, fill, bufs, inbox,
                   stream, got>>

Step(i) ==
    \/ BeginRead(i) \/ FirstBucket(i) \/ Forward(i) \/ YieldChunk(i)
    \/ EndRound(i) \/ FinishReceive(i)

SenderStep == FillChunk \/ SendBucket \/ FinishSend

Next ==
    \/ BeginUpdate \/ Finalize
    \/ SenderStep \/ CopyIn
    \/ \E i \in Workers : Step(i) \/ EndTransfer(i) \/ CopyOut(i)

Spec == Init /\ [][Next]_vars

\* Every agent is a running process, the GPU and NIXL complete what they
\* were given, and the manager returns from ray.get.
Fairness ==
    /\ WF_vars(Finalize) /\ WF_vars(SenderStep) /\ WF_vars(CopyIn)
    /\ \A i \in UNION {1..n : n \in RolloutSizes} :
          /\ WF_vars(i \in Workers /\ Step(i))
          /\ WF_vars(i \in Workers /\ EndTransfer(i))
          /\ WF_vars(i \in Workers /\ CopyOut(i))

FairSpec == Spec /\ Fairness

-----------------------------------------------------------------------------
Chunks == [name : Nat, nbytes : Nat, chunk_offset : Nat, chunk_size : Nat, offset : Nat]
Metas == [bucket_meta : Seq(Chunks), is_last : BOOLEAN]

\* Every field has its type.
TypeOK ==
    /\ stage \in {"idle", "update", "aborted"}
    /\ version \in 0..MaxUpdates
    /\ fill \in [wi : Nat, co : Nat, offset : 0..BucketSize, bucket_meta : Seq(Chunks)]
    /\ agent \in [Agents ->
          [phase : {"fill", "last", "first", "reading", "top", "next", "yield", "done"},
           side : {0, 1}, op : Nat, keys : Nat, meta : Metas, ahead : Metas,
           xfer : [state : {"none", "running", "done"}, src : {0, 1}, key : Nat],
           done : Nat,
           merge : [name : Nat, offset : Nat, loaded : Seq(Nat)]]]
    /\ inbox \in [Agents -> Seq([key : Nat, side : {0, 1}, meta : Metas])]
    /\ notifications \in [Agents -> Seq(Nat)]
    /\ stream \in [Agents -> Seq([side : {0, 1}, meta : Chunks])]

\* Buffer s of agent i is being filled: by a transfer from the previous
\* agent, or by the sender's queued copies.
BeingFilled(i, s) ==
    \/ i > 0 /\ agent[i].xfer.state = "running" /\ s = 1 - agent[i].side
    \/ i = 0 /\ \E k \in 1..Len(stream[0]) : stream[0][k].side = s

\* Buffer s of agent i is still to be read: by the next agent, which has an
\* offer or a transfer of it, or by the consumer's queued copies.
StillRead(i, s) ==
    \/ \E j \in Workers :
          /\ peers.prev[j] = i
          /\ \/ agent[j].xfer.state = "running" /\ agent[j].xfer.src = s
             \/ \E k \in 1..Len(inbox[j]) : inbox[j][k].side = s
    \/ i > 0 /\ \E k \in 1..Len(stream[i]) : stream[i][k].side = s

\* No buffer is filled while someone still has to read it, although two
\* buffers serve a pipeline of three readers and writers.
BufferExclusive ==
    \A i \in Agents, s \in {0, 1} : ~(BeingFilled(i, s) /\ StillRead(i, s))

\* The assertions in the transfer never fail: a chunk fits and its weight is
\* not yet in the bucket, chunks of a large weight arrive one after another,
\* and the notification waited for is the one that arrives.
NoAssertionFails ==
    /\ agent[0].phase = "fill" /\ MoreChunks(weights, fill) /\ Fits(weights, fill)
          => FillAsserts(weights, fill)
    /\ \A i \in Workers :
          agent[i].phase = "yield" /\ ~Yielded(i) =>
              MergeAsserts(agent[i].merge, agent[i].meta.bucket_meta[agent[i].done + 1])
    /\ \A i \in Agents :
          agent[i].op # 0 /\ notifications[i] # <<>> => Head(notifications[i]) = agent[i].op

\* build_topology links every agent to the next and back, and its result is
\* refused for a single rollout worker only (metadata[-1 + 1:] is the whole
\* list).
TopologyChain ==
    /\ stage = "aborted" => workers = 1
    /\ stage = "update" =>
          /\ \A i \in 0..workers - 1 : peers.next[i] = i + 1 /\ peers.prev[i + 1] = i
          /\ peers.next[workers] = NoAgent

\* Between updates no message, notification or GPU copy is left over that
\* the next update would take for its own.
QuietBetweenUpdates ==
    stage = "idle" =>
        \A i \in Agents : /\ inbox[i] = <<>> /\ notifications[i] = <<>>
                          /\ stream[i] = <<>> /\ agent[i].op = 0

\* The chain is sound at every moment: neighbours, buffers and messages are
\* what the code that uses them next relies on.
ChainInv ==
    TypeOK /\ TopologyChain /\ BufferExclusive /\ NoAssertionFails /\ QuietBetweenUpdates

\* Every update that gets past the topology ends on all agents: the chain
\* never waits on itself.
UpdateCompletes == stage = "update" ~> stage = "idle"

\* Every worker's server gets all bytes of all weights of the update.
Delivery == INSTANCE WeightDelivery WITH sizes <- weights

ImplementsDelivery == Delivery!DeliverySpec
=============================================================================

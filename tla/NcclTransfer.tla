---------------------------- MODULE NcclTransfer ----------------------------
(***************************************************************************)
(* The NCCL checkpoint engine (checkpoint_engine/nccl_checkpoint_engine.py)*)
(* driven by CheckpointEngineManager.  Trainer rank 0 packs the weights    *)
(* into buckets and broadcasts each to all rollout workers; what is in a   *)
(* bucket travels separately, over a ZeroMQ PUB/SUB socket.  Sender and    *)
(* workers have two buffers each and work on one while a                   *)
(* BroadcastOperation, in a thread of its own, uses the other.             *)
(*                                                                         *)
(* External: a broadcast (NCCL) ends when all members of the group have    *)
(* joined it; a PUB socket sends to the subscriptions it knows of, and a   *)
(* new subscription reaches it some time after setsockopt; work queued on  *)
(* the GPU (stream) runs later and in order.                               *)
(***************************************************************************)
EXTENDS WeightChunks, FiniteSets

CONSTANTS
    WeightLists,     \* lists of weight sizes to choose from
    Pool,            \* rollout workers that can be members, positive numbers
    MaxUpdates       \* bound on updates

ASSUME NcclAssumption ==
    /\ \A w \in WeightLists : w \in Seq(Nat \ {0})
    /\ Pool \subseteq Nat \ {0} /\ Pool # {}
    /\ MaxUpdates \in Nat

VARIABLES
    weights,           \* sizes of the weights
    rebuild_group,     \* the option
    replicas,          \* the manager's list of rollout workers
    changed,           \* history: replicas changed since the last update
    stage, version,    \* the manager: update in progress, updates begun
    group,             \* per process: rank, world size and age of its group
    fill,              \* the sender's packing loop
    agent,             \* local state of every process
    op,                \* the broadcast operation of every process
    bufs,              \* the two buffers of every process
    subscribed,        \* workers whose subscription the PUB socket knows
    mail,              \* bucket metadata in a worker's SUB socket
    missed,            \* history: workers that were published past
    stream,            \* GPU copies a process has queued
    got                \* history: bytes the server of a worker has, by weight

managerVars == <<weights, rebuild_group, replicas, changed, stage, version, group>>
zmqVars == <<subscribed, mail, missed>>
vars == <<managerVars, fill, agent, op, bufs, zmqVars, stream, got>>

Master == 0
Processes == {Master} \cup Pool
Members == {replicas[k] : k \in 1..Len(replicas)}

NoGroup == [rank |-> -1, world_size |-> 0, age |-> 0]
NoBucket == [bucket_meta |-> <<>>, is_last |-> FALSE]

\* A broadcast operation: its buffer and the metadata sent or received.
NoOp == [state |-> "none", side |-> 0, meta |-> NoBucket]
NewOp(side, meta) == [state |-> "meta", side |-> side, meta |-> meta]
Idle(p) == op[p].state \in {"none", "done"}

\* side: which buffer is send_buf; done: chunks of meta handed on.
Fresh(p) ==
    [phase |-> IF p = Master THEN "fill" ELSE "first", side |-> 0,
     meta |-> NoBucket, done |-> 0, merge |-> StartMerge]

Nothing == [n \in 1..Len(weights) |-> <<>>]

Init ==
    /\ weights \in WeightLists
    /\ rebuild_group \in BOOLEAN
    /\ \E p \in Pool : replicas = <<p>>
    /\ changed = FALSE
    /\ stage = "idle"
    /\ version = 0
    /\ group = [p \in Processes |-> NoGroup]
    /\ fill = StartFill
    /\ agent = [p \in Processes |-> [Fresh(p) EXCEPT !.phase = "done"]]
    /\ op = [p \in Processes |-> NoOp]
    /\ bufs = [p \in Processes |-> [s \in {0, 1} |-> Zeros]]
    /\ subscribed = {} /\ missed = {}
    /\ mail = [p \in Pool |-> <<>>]
    /\ stream = [p \in Processes |-> <<>>]
    /\ got = [p \in Members |-> Nothing]

-----------------------------------------------------------------------------
(* CheckpointEngineManager                                                  *)

AddReplicas(p) ==
    /\ stage = "idle" /\ p \notin Members
    /\ replicas' = Append(replicas, p)
    /\ changed' = TRUE
    /\ UNCHANGED <<weights, rebuild_group, stage, version, group, fill, agent, op,
                   bufs, zmqVars, stream, got>>

\* The list holds p once; the others keep their order.
RemoveReplicas(p) ==
    /\ stage = "idle" /\ Len(replicas) > 1
    /\ \E k \in 1..Len(replicas) :
          /\ replicas[k] = p
          /\ replicas' = SubSeq(replicas, 1, k - 1)
                           \o SubSeq(replicas, k + 1, Len(replicas))
    /\ changed' = TRUE
    /\ UNCHANGED <<weights, rebuild_group, stage, version, group, fill, agent, op,
                   bufs, zmqVars, stream, got>>

\* build_topology: rank 0 is the master, the workers follow in list order.
RankOf(p) == IF p = Master THEN 0 ELSE CHOOSE k \in 1..Len(replicas) : replicas[k] = p
WorldSize == Len(replicas) + 1

\* init_process_group on p: a new group, or the old one if rank and size are
\* what they were.
MustInit(p) == rebuild_group \/ group[p] = NoGroup

\* Fault: an existing group is taken as it is.
InitAssertsNever(p) == TRUE

InitAsserts(p) ==
    MustInit(p) \/ (group[p].rank = RankOf(p) /\ group[p].world_size = WorldSize)

GroupAfter(p) ==
    IF MustInit(p)
    THEN [rank |-> RankOf(p), world_size |-> WorldSize, age |-> version + 1]
    ELSE group[p]

\* The barrier after init_process_group, and every later collective, needs
\* all ranks in one communicator.
SameGroup == \A p \in Members : GroupAfter(p).age = GroupAfter(Master).age

Everyone == Members \cup {Master}

\* update_weights up to the transfer: prepare and init_process_group.
BeginUpdate ==
    /\ stage = "idle" /\ version < MaxUpdates
    /\ (\A p \in Everyone : InitAsserts(p)) /\ SameGroup
    /\ stage' = "update"
    /\ version' = version + 1
    /\ group' = [p \in Processes |-> IF p \in Everyone THEN GroupAfter(p) ELSE group[p]]
    /\ fill' = StartFill
    /\ agent' = [p \in Processes |-> IF p \in Everyone THEN Fresh(p) ELSE agent[p]]
    /\ op' = [p \in Processes |-> IF p \in Members THEN NewOp(1, NoBucket) ELSE NoOp]
    /\ bufs' = [p \in Processes |-> [s \in {0, 1} |-> Zeros]]
    /\ subscribed' = {}
    /\ mail' = [p \in Pool |-> <<>>]
    /\ got' = [p \in Members |-> Nothing]
    /\ changed' = FALSE
    /\ UNCHANGED <<weights, rebuild_group, replicas, missed, stream>>

\* An assertion of init_process_group ends the run, or the barrier never
\* returns because a process is in a group of its own.
InitGivesUp ==
    /\ stage = "idle" /\ version < MaxUpdates
    /\ \/ (\E p \in Everyone : ~InitAsserts(p)) /\ stage' = "failed"
       \/ (\A p \in Everyone : InitAsserts(p)) /\ ~SameGroup /\ stage' = "hung"
    /\ UNCHANGED <<weights, rebuild_group, replicas, changed, version, group, fill,
                   agent, op, bufs, zmqVars, stream, got>>

Finalize ==
    /\ stage = "update"
    /\ \A p \in Everyone : agent[p].phase = "done"
    /\ stage' = "idle"
    /\ group' = [p \in Processes |->
                    IF rebuild_group /\ p \in Everyone THEN NoGroup
                    ELSE group[p]]
    /\ UNCHANGED <<weights, rebuild_group, replicas, changed, version, fill, agent,
                   op, bufs, zmqVars, stream, got>>

-----------------------------------------------------------------------------
(* BroadcastOperation                                                       *)

\* The subscription of worker p reaches the PUB socket.
Subscribe(p) ==
    /\ stage = "update" /\ p \in Members \ subscribed
    /\ subscribed' = subscribed \cup {p}
    /\ UNCHANGED <<managerVars, fill, agent, op, bufs, mail, missed, stream, got>>

\* The sender's thread publishes the metadata, then joins the broadcast.
PublishMeta ==
    /\ op[Master].state = "meta"
    /\ mail' = [p \in Pool |-> IF p \in subscribed
                               THEN Append(mail[p], op[Master].meta) ELSE mail[p]]
    /\ missed' = missed \cup (Members \ subscribed)
    /\ op' = [op EXCEPT ![Master].state = "nccl"]
    /\ UNCHANGED <<managerVars, fill, agent, bufs, subscribed, stream, got>>

\* A worker's thread receives the metadata, then joins.
ReceiveMeta(p) ==
    /\ op[p].state = "meta" /\ mail[p] # <<>>
    /\ op' = [op EXCEPT ![p].state = "nccl", ![p].meta = Head(mail[p])]
    /\ mail' = [mail EXCEPT ![p] = Tail(@)]
    /\ bufs' = [bufs EXCEPT ![p][op[p].side] = Garbage]
    /\ UNCHANGED <<managerVars, fill, agent, subscribed, missed, stream, got>>

Joined == \A p \in Everyone : op[p].state = "nccl"

Broadcast ==
    /\ Joined
    /\ bufs' = [p \in Processes |-> IF p \in Members
                   THEN [bufs[p] EXCEPT ![op[p].side] = bufs[Master][op[Master].side]]
                   ELSE bufs[p]]
    /\ op' = [p \in Processes |-> IF p \in Everyone
                                  THEN [op[p] EXCEPT !.state = "done"] ELSE op[p]]
    /\ UNCHANGED <<managerVars, fill, agent, zmqVars, stream, got>>

\* Fault: the GPU is not waited for.
NoSynchronize(p) == TRUE

\* torch.cuda.synchronize(): all queued copies are done.
Synchronize(p) == stream[p] = <<>>

\* Fault: the operation before is not waited for.
AwaitNothing(p) == TRUE

\* wait_for_complete of the operation before, if any.
AwaitOp(p) == Idle(p)

-----------------------------------------------------------------------------
(* send_weights on the master                                               *)

FillChunk ==
    /\ stage = "update" /\ agent[Master].phase = "fill"
    /\ MoreChunks(weights, fill) /\ Fits(weights, fill)
    /\ fill' = PutChunk(weights, fill)
    /\ stream' = [stream EXCEPT ![Master] =
                     Append(@, [side |-> agent[Master].side,
                                meta |-> TensorMeta(weights, fill)])]
    /\ UNCHANGED <<managerVars, agent, op, bufs, zmqVars, got>>

SendBucket ==
    LET more == MoreChunks(weights, fill) IN
    /\ stage = "update" /\ agent[Master].phase = "fill"
    /\ more => ~Fits(weights, fill)
    /\ Synchronize(Master)
    /\ AwaitOp(Master)
    /\ op' = [op EXCEPT ![Master] = NewOp(agent[Master].side, Bucket(weights, fill))]
    /\ agent' = IF more THEN [agent EXCEPT ![Master].side = 1 - @]
                ELSE [agent EXCEPT ![Master].phase = "last"]
    /\ fill' = NewBucket(fill)
    /\ UNCHANGED <<managerVars, bufs, zmqVars, stream, got>>

FinishSend ==
    /\ agent[Master].phase = "last"
    /\ AwaitOp(Master)
    /\ agent' = [agent EXCEPT ![Master].phase = "done"]
    /\ UNCHANGED <<managerVars, fill, op, bufs, zmqVars, stream, got>>

CopyIn ==
    /\ stream[Master] # <<>>
    /\ LET c == Head(stream[Master]) IN
       bufs' = [bufs EXCEPT ![Master][c.side] = WriteChunk(@, version, c.meta)]
    /\ stream' = [stream EXCEPT ![Master] = Tail(@)]
    /\ UNCHANGED <<managerVars, fill, agent, op, zmqVars, got>>

-----------------------------------------------------------------------------
(* _receive_weight_chunks, with its consumer, on worker p                   *)

\* The buffers swap and the bucket just received is the one to hand on.
Swapped(p) ==
    [agent[p] EXCEPT !.phase = "top", !.side = 1 - agent[p].side,
                     !.meta = op[p].meta, !.done = 0]

FirstBucket(p) ==
    /\ agent[p].phase = "first" /\ op[p].state = "done"
    /\ agent' = [agent EXCEPT ![p] = Swapped(p)]
    /\ UNCHANGED <<managerVars, fill, op, bufs, zmqVars, stream, got>>

\* The next bucket is asked for before the chunks of this one are yielded.
ReceiveNext(p) ==
    /\ agent[p].phase = "top"
    /\ op' = IF agent[p].meta.is_last THEN op
             ELSE [op EXCEPT ![p] = NewOp(1 - agent[p].side, NoBucket)]
    /\ agent' = [agent EXCEPT ![p].phase = "yield"]
    /\ UNCHANGED <<managerVars, fill, bufs, zmqVars, stream, got>>

YieldChunk(p) ==
    /\ agent[p].phase = "yield"
    /\ agent[p].done < Len(agent[p].meta.bucket_meta)
    /\ LET t == agent[p].meta.bucket_meta[agent[p].done + 1] IN
       /\ agent' = [agent EXCEPT ![p].done = @ + 1,
                                 ![p].merge = MergeChunk(@, t)]
       /\ stream' = [stream EXCEPT ![p] =
                        Append(@, [side |-> agent[p].side, meta |-> t])]
    /\ UNCHANGED <<managerVars, fill, op, bufs, zmqVars, got>>

CopyOut(p) ==
    /\ stream[p] # <<>>
    /\ LET c == Head(stream[p])  t == c.meta IN
       got' = [got EXCEPT ![p][t.name] =
                  @ \o Slice(bufs[p][c.side], t.offset, t.chunk_size)]
    /\ stream' = [stream EXCEPT ![p] = Tail(@)]
    /\ UNCHANGED <<managerVars, fill, agent, op, bufs, zmqVars>>

Yielded(p) ==
    agent[p].phase = "yield" /\ agent[p].done = Len(agent[p].meta.bucket_meta)

EndRound(p) ==
    /\ Yielded(p) /\ ~agent[p].meta.is_last
    /\ AwaitOp(p)
    /\ Synchronize(p)
    /\ agent' = [agent EXCEPT ![p] = Swapped(p)]
    /\ UNCHANGED <<managerVars, fill, op, bufs, zmqVars, stream, got>>

FinishReceive(p) ==
    /\ Yielded(p) /\ agent[p].meta.is_last
    /\ stream[p] = <<>>
    /\ agent' = [agent EXCEPT ![p].phase = "done"]
    /\ UNCHANGED <<managerVars, fill, op, bufs, zmqVars, stream, got>>

-----------------------------------------------------------------------------
SenderStep == FillChunk \/ SendBucket \/ FinishSend

Step(p) ==
    FirstBucket(p) \/ ReceiveNext(p) \/ YieldChunk(p) \/ EndRound(p) \/ FinishReceive(p)

Next ==
    \/ BeginUpdate \/ InitGivesUp \/ Finalize
    \/ SenderStep \/ CopyIn \/ PublishMeta \/ Broadcast
    \/ \E p \in Pool : \/ AddReplicas(p) \/ RemoveReplicas(p)
                       \/ Subscribe(p) \/ ReceiveMeta(p)
                       \/ p \in Members /\ Step(p)
                       \/ CopyOut(p)

Spec == Init /\ [][Next]_vars

\* Processes, their threads, the GPU, NCCL and ZeroMQ make progress; nothing
\* says when a subscription arrives relative to the first message.
Fairness ==
    /\ WF_vars(Finalize) /\ WF_vars(SenderStep) /\ WF_vars(CopyIn)
    /\ WF_vars(PublishMeta) /\ WF_vars(Broadcast)
    /\ \A p \in Pool : /\ WF_vars(Subscribe(p)) /\ WF_vars(ReceiveMeta(p))
                       /\ WF_vars(p \in Members /\ Step(p)) /\ WF_vars(CopyOut(p))

FairSpec == Spec /\ Fairness

-----------------------------------------------------------------------------
Chunks == [name : Nat, nbytes : Nat, chunk_offset : Nat, chunk_size : Nat, offset : Nat]
Metas == [bucket_meta : Seq(Chunks), is_last : BOOLEAN]

\* Every field has its type.
TypeOK ==
    /\ stage \in {"idle", "update", "hung", "failed"}
    /\ version \in 0..MaxUpdates
    /\ replicas \in Seq(Pool)
    /\ group \in [Processes -> [rank : Nat \cup {-1}, world_size : Nat, age : Nat]]
    /\ fill \in [wi : Nat, co : Nat, offset : 0..BucketSize, bucket_meta : Seq(Chunks)]
    /\ agent \in [Processes ->
          [phase : {"fill", "last", "first", "top", "yield", "done"}, side : {0, 1},
           meta : Metas, done : Nat,
           merge : [name : Nat, offset : Nat, loaded : Seq(Nat)]]]
    /\ op \in [Processes ->
          [state : {"none", "meta", "nccl", "done"}, side : {0, 1}, meta : Metas]]
    /\ subscribed \subseteq Pool /\ missed \subseteq Pool
    /\ mail \in [Pool -> Seq(Metas)]
    /\ stream \in [Processes -> Seq([side : {0, 1}, meta : Chunks])]

\* The metadata a worker received and the bucket of the broadcast it joins
\* come over two channels that nothing synchronises; they belong together,
\* also when a worker was published past.
MetadataMatchesBucket ==
    \A p \in Members :
        op[p].state = "nccl" => op[Master].state = "nccl" /\ op[p].meta = op[Master].meta

\* No process touches a buffer that its broadcast operation is using: the
\* sender's copies go to the other one, and so do the consumer's reads.
BufferExclusive ==
    \A p \in Everyone :
        op[p].state \in {"meta", "nccl"} =>
            \A k \in 1..Len(stream[p]) : stream[p][k].side # op[p].side

\* The assertions in the transfer never fail: a chunk fits and its weight is
\* not yet in the bucket, and the chunks of a large weight arrive in order.
NoAssertionFails ==
    /\ agent[Master].phase = "fill" /\ MoreChunks(weights, fill) /\ Fits(weights, fill)
          => FillAsserts(weights, fill)
    /\ \A p \in Members :
          agent[p].phase = "yield" /\ ~Yielded(p) =>
              MergeAsserts(agent[p].merge, agent[p].meta.bucket_meta[agent[p].done + 1])

\* The broadcast is sound at every moment: metadata, bucket and buffers are
\* what the code that uses them next relies on.
BroadcastInv ==
    TypeOK /\ MetadataMatchesBucket /\ BufferExclusive /\ NoAssertionFails

\* An update never runs on a group that is not exactly the current workers in
\* their current order, and with rebuild_group, or while the workers are those
\* of the last update, init_process_group neither fails nor hangs.
GroupMatchesReplicas ==
    /\ stage = "update" =>
          \A p \in Everyone :
              /\ group[p].rank = RankOf(p) /\ group[p].world_size = WorldSize
              /\ group[p].age = group[Master].age
    /\ rebuild_group \/ ~changed => stage \notin {"hung", "failed"}

\* What add_replicas and remove_replicas promise, whatever the options: the
\* process group is rebuilt for the workers there are now, so the update after a
\* change neither fails in init_process_group nor waits for ever.
RebuiltAfterChange == changed => stage \notin {"hung", "failed"}

\* An update in which no subscription came too late ends on all processes.
UpdateCompletes == stage = "update" ~> stage = "idle" \/ missed # {}

\* Every worker's server gets all bytes of all weights of the update.
Delivery == INSTANCE WeightDelivery WITH sizes <- weights

ImplementsDelivery == Delivery!DeliverySpec
=============================================================================

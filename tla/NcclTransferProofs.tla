------------------------- MODULE NcclTransferProofs -------------------------
(***************************************************************************)
(* Proofs about the NCCL checkpoint engine, for every pool of rollout      *)
(* workers and every sequence of updates, additions and removals.          *)
(*                                                                         *)
(* The process groups outlive an update when rebuild_group is off, so what *)
(* init_process_group finds depends on every earlier update.  GroupInv     *)
(* says what may be left over: with rebuild_group nothing, without it      *)
(* either no group at all or, until the workers change, one group that all *)
(* current workers and the master entered together.                        *)
(*                                                                         *)
(* Within an update the bucket travels by NCCL and what is in it by        *)
(* ZeroMQ, and nothing but the broadcast itself keeps the two in step.     *)
(* BroadcastIInv says how far they can be apart, which buffer everyone is  *)
(* using meanwhile, and that the chunks from a worker's merge to the       *)
(* sender's packing loop follow each other without a gap.                  *)
(***************************************************************************)
EXTENDS NcclTransfer, TLAPS

-----------------------------------------------------------------------------
(* The inductive invariant *)

\* Process p is in the communicator of the current workers.
Matched(p) ==
    /\ group[p].rank = RankOf(p)
    /\ group[p].world_size = WorldSize
    /\ group[p].age = group[Master].age

\* A group is as old as the update that made it.
AgesInv ==
    /\ version \in Nat
    /\ group = [p \in Processes |-> group[p]]
    /\ \A p \in Processes : group[p] = NoGroup \/ group[p].age \in Nat \ {0}

\* finalize destroys what init_process_group made.
RebuildInv ==
    rebuild_group =>
        \A p \in Processes :
            stage # "update" \/ p \notin Everyone => group[p] = NoGroup

\* While the workers stay the same, all of them are in one group or none is.
KeptInv ==
    ~changed =>
        \/ \A p \in Everyone : group[p] = NoGroup
        \/ \A p \in Everyone : Matched(p) /\ group[p] # NoGroup

GroupInv ==
    /\ replicas \in Seq(Pool)
    /\ AgesInv
    /\ RebuildInv
    /\ KeptInv
    /\ GroupMatchesReplicas

\* The members of the group are processes.
LEMMA EveryoneFacts ==
    ASSUME replicas \in Seq(Pool)
    PROVE  Everyone \subseteq Processes /\ Master \in Everyone
  BY DEF Everyone, Members, Processes, Master

\* Everything but the manager's own actions leaves groups and workers alone.
LEMMA ManagerSteps ==
    [Next]_vars =>
        \/ BeginUpdate \/ InitGivesUp \/ Finalize
        \/ \E p \in Pool : AddReplicas(p) \/ RemoveReplicas(p)
        \/ UNCHANGED managerVars
  BY Zenon DEF Next, SenderStep, FillChunk, SendBucket, FinishSend, CopyIn,
     PublishMeta, Broadcast, Subscribe, ReceiveMeta, Step, FirstBucket,
     ReceiveNext, YieldChunk, EndRound, FinishReceive, CopyOut, vars

\* Ranks and world size depend on the list of workers only.
LEMMA RanksKept ==
    UNCHANGED replicas =>
        /\ Everyone' = Everyone /\ WorldSize' = WorldSize
        /\ \A p : RankOf(p)' = RankOf(p)
  BY DEF Everyone, Members, WorldSize, RankOf

\* What init_process_group leaves on every process when it succeeds everywhere:
\* one group, in the current order, whether it was made now or kept.
LEMMA GroupsAgree ==
    ASSUME GroupInv, \A p \in Everyone : InitAsserts(p), SameGroup
    PROVE  \A p \in Everyone :
              /\ GroupAfter(p).rank = RankOf(p)
              /\ GroupAfter(p).world_size = WorldSize
              /\ GroupAfter(p).age = GroupAfter(Master).age
              /\ GroupAfter(p).age \in Nat \ {0}
<1> SUFFICES ASSUME NEW p \in Everyone
             PROVE  /\ GroupAfter(p).rank = RankOf(p)
                    /\ GroupAfter(p).world_size = WorldSize
                    /\ GroupAfter(p).age = GroupAfter(Master).age
                    /\ GroupAfter(p).age \in Nat \ {0}
  OBVIOUS
<1>1. p \in Processes /\ version \in Nat
  BY EveryoneFacts DEF GroupInv, AgesInv
<1>2. GroupAfter(p).age = GroupAfter(Master).age
  BY DEF SameGroup, Everyone
<1>3. CASE MustInit(p)
  BY <1>1, <1>2, <1>3 DEF GroupAfter
<1>4. CASE ~MustInit(p)
  <2>1. GroupAfter(p) = group[p]
    BY <1>4 DEF GroupAfter
  <2>2. group[p].age \in Nat \ {0}
    BY <1>1, <1>4 DEF GroupInv, AgesInv, MustInit
  <2>3. group[p].rank = RankOf(p) /\ group[p].world_size = WorldSize
    BY <1>4 DEF InitAsserts
  <2>4. QED
    BY <1>2, <2>1, <2>2, <2>3
<1>5. QED
  BY <1>3, <1>4

\* init_process_group gives up or hangs only on groups that survived a change
\* of the workers.
LEMMA GivesUpAfterChange ==
    ASSUME GroupInv, stage = "idle",
           (\E p \in Everyone : ~InitAsserts(p)) \/ ~SameGroup
    PROVE  ~rebuild_group /\ changed
<1>1. Everyone \subseteq Processes /\ Master \in Everyone
  BY EveryoneFacts DEF GroupInv
<1>2. ASSUME \A p \in Everyone : MustInit(p) PROVE FALSE
  <2>1. \A p \in Everyone : InitAsserts(p)
    BY <1>2 DEF InitAsserts
  <2>2. \A p \in Everyone : GroupAfter(p).age = version + 1
    BY <1>2 DEF GroupAfter
  <2>3. SameGroup
    BY <1>1, <2>2 DEF SameGroup, Everyone
  <2>4. QED
    BY <2>1, <2>3
<1>3. ~rebuild_group
  BY <1>2 DEF MustInit
<1>4. changed
  <2> SUFFICES ASSUME ~changed PROVE FALSE
    OBVIOUS
  <2>1. \/ \A p \in Everyone : group[p] = NoGroup
        \/ \A p \in Everyone : Matched(p) /\ group[p] # NoGroup
    BY DEF GroupInv, KeptInv
  <2>2. CASE \A p \in Everyone : group[p] = NoGroup
    BY <1>2, <2>2 DEF MustInit
  <2>3. CASE \A p \in Everyone : Matched(p) /\ group[p] # NoGroup
    <3>1. \A p \in Everyone : ~MustInit(p)
      BY <1>3, <2>3 DEF MustInit
    <3>2. \A p \in Everyone : InitAsserts(p)
      BY <2>3 DEF InitAsserts, Matched
    <3>3. \A p \in Everyone : GroupAfter(p) = group[p]
      BY <3>1 DEF GroupAfter
    <3>4. SameGroup
      BY <1>1, <2>3, <3>3 DEF SameGroup, Matched, Everyone
    <3>5. QED
      BY <3>2, <3>4
  <2>4. QED
    BY <2>1, <2>2, <2>3
<1>5. QED
  BY <1>3, <1>4

\* Every step keeps the invariant.
LEMMA GroupStep == GroupInv /\ [Next]_vars => GroupInv'
<1> SUFFICES ASSUME GroupInv, [Next]_vars PROVE GroupInv'
  OBVIOUS
<1>t. Everyone \subseteq Processes /\ Master \in Everyone /\ version \in Nat
  BY EveryoneFacts DEF GroupInv, AgesInv
<1>1. CASE BeginUpdate
  <2>1. /\ stage' = "update" /\ version' = version + 1 /\ changed' = FALSE
        /\ UNCHANGED <<rebuild_group, replicas>>
        /\ \A p \in Processes :
              group'[p] = IF p \in Everyone THEN GroupAfter(p) ELSE group[p]
        /\ group' = [p \in Processes |-> group'[p]]
    BY <1>1 DEF BeginUpdate
  <2>2. /\ Everyone' = Everyone /\ WorldSize' = WorldSize
        /\ \A p : RankOf(p)' = RankOf(p)
    BY <2>1, RanksKept
  <2>3. \A p \in Everyone :
              /\ GroupAfter(p).rank = RankOf(p)
              /\ GroupAfter(p).world_size = WorldSize
              /\ GroupAfter(p).age = GroupAfter(Master).age
              /\ GroupAfter(p).age \in Nat \ {0}
    <3>1. (\A p \in Everyone : InitAsserts(p)) /\ SameGroup
      BY <1>1 DEF BeginUpdate
    <3>2. QED
      BY <3>1, GroupsAgree
  <2>4. \A p \in Everyone : group'[p] = GroupAfter(p)
    BY <1>t, <2>1
  <2>5. AgesInv'
    <3>1. ASSUME NEW p \in Processes
          PROVE  group'[p] = NoGroup \/ group'[p].age \in Nat \ {0}
      <4>1. CASE p \in Everyone
        BY <2>3, <2>4, <4>1
      <4>2. CASE p \notin Everyone
        BY <2>1, <4>2 DEF GroupInv, AgesInv
      <4>3. QED
        BY <4>1, <4>2
    <3>2. QED
      BY <1>t, <2>1, <3>1 DEF AgesInv, Processes, NoGroup
  <2>6. RebuildInv'
    <3>1. ASSUME rebuild_group, NEW p \in Processes, p \notin Everyone
          PROVE  group'[p] = NoGroup
      BY <2>1, <3>1 DEF GroupInv, RebuildInv
    <3>2. QED
      BY <2>1, <2>2, <3>1 DEF RebuildInv, Processes, NoGroup
  <2>7. \A p \in Everyone :
           /\ group'[p].rank = RankOf(p) /\ group'[p].world_size = WorldSize
           /\ group'[p].age = group'[Master].age
           /\ group'[p] # NoGroup
    BY <1>t, <2>3, <2>4 DEF NoGroup
  <2>8. KeptInv'
    BY <2>2, <2>7 DEF KeptInv, Matched, Master, NoGroup
  <2>9. GroupMatchesReplicas'
    BY <2>1, <2>2, <2>7 DEF GroupMatchesReplicas, Master
  <2>10. QED
    BY <2>1, <2>5, <2>6, <2>8, <2>9 DEF GroupInv
<1>2. CASE InitGivesUp
  <2>1. /\ stage = "idle" /\ stage' \in {"hung", "failed"}
        /\ (\E p \in Everyone : ~InitAsserts(p)) \/ ~SameGroup
        /\ UNCHANGED <<rebuild_group, replicas, changed, version, group>>
    BY <1>2 DEF InitGivesUp
  <2>2. ~rebuild_group /\ changed
    BY <2>1, GivesUpAfterChange
  <2>3. QED
    BY <2>1, <2>2
    DEF GroupInv, AgesInv, RebuildInv, KeptInv, GroupMatchesReplicas
<1>3. CASE Finalize
  <2>1. /\ stage = "update" /\ stage' = "idle"
        /\ UNCHANGED <<rebuild_group, replicas, changed, version>>
        /\ \A p \in Processes :
              group'[p] = IF rebuild_group /\ p \in Everyone THEN NoGroup
                          ELSE group[p]
        /\ group' = [p \in Processes |-> group'[p]]
    BY <1>3 DEF Finalize
  <2>2. /\ Everyone' = Everyone /\ WorldSize' = WorldSize
        /\ \A p : RankOf(p)' = RankOf(p)
    BY <2>1, RanksKept
  <2>3. AgesInv'
    BY <2>1 DEF GroupInv, AgesInv, Processes, NoGroup
  <2>4. RebuildInv'
    BY <2>1, <2>2 DEF GroupInv, RebuildInv, Processes, NoGroup
  <2>5. KeptInv'
    <3>1. CASE rebuild_group
      <4>1. \A p \in Everyone : group'[p] = NoGroup
        BY <1>t, <2>1, <3>1
      <4>2. QED
        BY <2>2, <4>1 DEF KeptInv, NoGroup
    <3>2. CASE ~rebuild_group
      <4>1. group' = group
        BY <2>1, <3>2 DEF GroupInv, AgesInv
      <4>2. QED
        BY <2>1, <2>2, <4>1 DEF GroupInv, KeptInv, Matched, NoGroup
    <3>3. QED
      BY <3>1, <3>2
  <2>6. GroupMatchesReplicas'
    BY <2>1 DEF GroupMatchesReplicas
  <2>7. QED
    BY <2>1, <2>3, <2>4, <2>5, <2>6 DEF GroupInv
<1>4. CASE \E p \in Pool : AddReplicas(p) \/ RemoveReplicas(p)
  <2>1. /\ stage = "idle" /\ changed'
        /\ UNCHANGED <<rebuild_group, stage, version, group>>
    BY <1>4 DEF AddReplicas, RemoveReplicas
  <2>2. replicas' \in Seq(Pool)
    <3>1. PICK p \in Pool : AddReplicas(p) \/ RemoveReplicas(p)
      BY <1>4
    <3>2. CASE AddReplicas(p)
      BY <3>2 DEF AddReplicas, GroupInv
    <3>3. CASE RemoveReplicas(p)
      <4>1. PICK k \in 1..Len(replicas) :
              replicas' = SubSeq(replicas, 1, k - 1)
                            \o SubSeq(replicas, k + 1, Len(replicas))
        BY <3>3 DEF RemoveReplicas
      <4>2. /\ SubSeq(replicas, 1, k - 1) \in Seq(Pool)
            /\ SubSeq(replicas, k + 1, Len(replicas)) \in Seq(Pool)
        BY DEF GroupInv
      <4>3. QED
        BY <4>1, <4>2
    <3>4. QED
      BY <3>1, <3>2, <3>3
  <2>3. QED
    BY <2>1, <2>2
    DEF GroupInv, AgesInv, RebuildInv, KeptInv, GroupMatchesReplicas
<1>5. CASE UNCHANGED managerVars
  <2>1. UNCHANGED <<rebuild_group, replicas, changed, stage, version, group>>
    BY <1>5 DEF managerVars
  <2>2. /\ Everyone' = Everyone /\ WorldSize' = WorldSize
        /\ \A p : RankOf(p)' = RankOf(p)
    BY <2>1, RanksKept
  <2>3. QED
    BY <2>1, <2>2
    DEF GroupInv, AgesInv, RebuildInv, KeptInv, GroupMatchesReplicas, Matched,
        Processes, NoGroup, Master
<1>6. QED
  BY <1>1, <1>2, <1>3, <1>4, <1>5, ManagerSteps

\* Before the first update no process is in a group.
LEMMA GroupInit == Init => GroupInv
<1> SUFFICES ASSUME Init PROVE GroupInv
  OBVIOUS
<1>1. replicas \in Seq(Pool)
  BY DEF Init
<1>2. \A p \in Processes : group[p] = NoGroup
  BY DEF Init
<1>3. \A p \in Everyone : group[p] = NoGroup
  BY <1>1, <1>2, EveryoneFacts
<1>4. stage = "idle" /\ version = 0
  BY DEF Init
<1>5. AgesInv
  BY <1>2, <1>4 DEF AgesInv, Init
<1>6. QED
  BY <1>1, <1>2, <1>3, <1>4, <1>5
  DEF GroupInv, RebuildInv, KeptInv, GroupMatchesReplicas

\* Whatever replicas were added or removed between updates, the collectives of
\* an update run on exactly the current workers in their current order, and with
\* rebuild_group, or while the workers have not changed, init_process_group
\* neither fails nor hangs.
THEOREM GroupsFollowReplicas == Spec => []GroupMatchesReplicas
<1>1. GroupInv => GroupMatchesReplicas
  BY DEF GroupInv
<1>2. QED
  BY <1>1, GroupInit, GroupStep, PTL DEF Spec
-----------------------------------------------------------------------------
(* The broadcast.  Sender and workers are kept together by NCCL alone: the *)
(* sender's thread is at most one bucket ahead, so a worker's socket holds *)
(* at most the metadata of the bucket that the sender is in.               *)

\* The operation of p uses its buffer.
Active(p) == op[p].state \in {"meta", "nccl"}

\* split_weight_chunks is at a chunk that exists, only a large weight is cut,
\* and a weight that is in the bucket and not finished fills it.
FillInv ==
    /\ weights \in Seq(Nat \ {0})
    /\ fill.wi \in 1..Len(weights) + 1
    /\ fill.wi <= Len(weights) => fill.co < weights[fill.wi]
    /\ fill.wi > Len(weights) => fill.co = 0
    /\ fill.co > 0 => weights[fill.wi] > BucketSize
    /\ \A j \in 1..Len(fill.bucket_meta) :
          /\ fill.bucket_meta[j].name <= fill.wi
          /\ fill.bucket_meta[j].name = fill.wi => fill.offset = BucketSize

\* Outside an update, and on workers that are no members, nothing goes on.
QuietInv ==
    /\ \A p \in Processes :
          stage # "update" \/ p \notin Everyone =>
              Idle(p) /\ stream[p] = <<>> /\ agent[p].phase = "done"
    /\ \A p \in Pool : stage # "update" \/ p \notin Members => mail[p] = <<>>
    /\ stage = "update" => subscribed \subseteq Members

\* What worker p has of the metadata, by where the sender is.
MailOK(p) ==
    /\ op[p].state # "none"
    /\ op[Master].state # "nccl" => op[p].state # "nccl" /\ mail[p] = <<>>
    /\ op[Master].state = "nccl" =>
          \/ /\ op[p].state = "nccl" /\ op[p].meta = op[Master].meta
             /\ mail[p] = <<>>
          \/ /\ op[p].state # "nccl"
             /\ mail[p] = <<>> \/ mail[p] = <<op[Master].meta>>

\* Where worker p can be while its operation runs or copies are queued.
PhaseOK(p) ==
    /\ agent[p].phase \in {"first", "top", "yield", "done"}
    /\ agent[p].phase # "yield" => stream[p] = <<>>
    /\ Active(p) => \/ agent[p].phase = "first"
                    \/ agent[p].phase = "yield" /\ ~agent[p].meta.is_last

\* Queued copies use the buffer in hand, the operation the other one.
SideOK(p) ==
    /\ \A k \in 1..Len(stream[p]) : stream[p][k].side = agent[p].side
    /\ Active(p) /\ (p = Master => agent[p].phase = "fill") =>
          op[p].side = 1 - agent[p].side

\* A place in the generator's order: weight and offset in it.
Pos(t) == <<t.name, t.chunk_offset>>
FillPos == <<fill.wi, fill.co>>

Ends(t) == t.chunk_offset + t.chunk_size = t.nbytes
PosAfter(t) == IF Ends(t) THEN <<t.name + 1, 0>>
               ELSE <<t.name, t.chunk_offset + t.chunk_size>>

\* A chunk as split_weight_chunks cuts it.
IsChunk(t) ==
    /\ t.name > 0 /\ t.chunk_offset < t.nbytes
    /\ t.chunk_size = IF t.nbytes - t.chunk_offset < BucketSize
                      THEN t.nbytes - t.chunk_offset ELSE BucketSize
    /\ t.chunk_offset > 0 => t.nbytes > BucketSize

\* The chunks of s follow each other without a gap and lead to place e.
Chain(s, e) ==
    \A k \in 1..Len(s) :
        /\ IsChunk(s[k])
        /\ PosAfter(s[k]) = IF k = Len(s) THEN e ELSE Pos(s[k + 1])

Start(s, e) == IF s = <<>> THEN e ELSE Pos(s[1])

\* The merge is where the next chunk must begin.
Agrees(m, e) == IF e[2] = 0 THEN m.name = 0 ELSE m.name = e[1] /\ m.offset = e[2]

\* Where the bucket being filled starts, the one being sent, and how far the
\* finished broadcasts reach.
FillStart == Start(fill.bucket_meta, FillPos)
SendStart == Start(op[Master].meta.bucket_meta, FillStart)
SentTo == IF Active(Master) THEN SendStart ELSE FillStart

\* Worker p has received a bucket that it has not turned to yet.
Pending(p) ==
    /\ op[p].state = "done"
    /\ agent[p].phase = "first" \/ (agent[p].phase = "yield" /\ ~agent[p].meta.is_last)

\* Where the bucket that p is handing on ends, and where its merge is.
BucketEnd(p) == IF Pending(p) THEN Start(op[p].meta.bucket_meta, SentTo) ELSE SentTo
MergePos(p) ==
    IF agent[p].phase # "first" /\ agent[p].done < Len(agent[p].meta.bucket_meta)
    THEN Pos(agent[p].meta.bucket_meta[agent[p].done + 1])
    ELSE BucketEnd(p)

\* From the merge of worker p, through the bucket it hands on, the one it has
\* received and the one being sent, to the bucket being filled, the chunks
\* follow each other.
ChunksOK(p) ==
    /\ op[p].state = "done" => Chain(op[p].meta.bucket_meta, SentTo)
    /\ agent[p].phase \in {"top", "yield"} =>
          /\ Chain(agent[p].meta.bucket_meta, BucketEnd(p))
          /\ agent[p].done <= Len(agent[p].meta.bucket_meta)
    /\ agent[p].phase \in {"first", "top", "yield"} =>
          Agrees(agent[p].merge, MergePos(p))

SenderOK ==
    /\ agent[Master].phase \in {"fill", "last", "done"}
    /\ agent[Master].phase # "fill" => stream[Master] = <<>>
    /\ agent[Master].phase = "done" => ~Active(Master)
    /\ SideOK(Master)
    /\ Chain(fill.bucket_meta, FillPos)
    /\ Active(Master) => Chain(op[Master].meta.bucket_meta, FillStart)

WorkerOK(p) == MailOK(p) /\ PhaseOK(p) /\ SideOK(p) /\ ChunksOK(p)

UpdateInv == stage = "update" => SenderOK /\ \A p \in Members : WorkerOK(p)

\* The types of TypeOK, one record at a time.
AgentStates ==
    [phase : {"fill", "last", "first", "top", "yield", "done"}, side : {0, 1},
     meta : Metas, done : Nat,
     merge : [name : Nat, offset : Nat, loaded : Seq(Nat)]]
OpStates == [state : {"none", "meta", "nccl", "done"}, side : {0, 1}, meta : Metas]
FillStates == [wi : Nat, co : Nat, offset : 0..BucketSize, bucket_meta : Seq(Chunks)]
Copies == [side : {0, 1}, meta : Chunks]

ManagerTypes ==
    /\ stage \in {"idle", "update", "hung", "failed"}
    /\ version \in 0..MaxUpdates
    /\ replicas \in Seq(Pool)
    /\ group \in [Processes -> [rank : Nat \cup {-1}, world_size : Nat, age : Nat]]
ZmqTypes ==
    /\ subscribed \subseteq Pool /\ missed \subseteq Pool
    /\ mail \in [Pool -> Seq(Metas)]
TransferTypes ==
    /\ fill \in FillStates
    /\ agent \in [Processes -> AgentStates]
    /\ op \in [Processes -> OpStates]
    /\ stream \in [Processes -> Seq(Copies)]
Types == ManagerTypes /\ ZmqTypes /\ TransferTypes

BroadcastIInv == Types /\ FillInv /\ QuietInv /\ UpdateInv

\* They are TypeOK.
LEMMA TypesAreTypeOK == Types => TypeOK
  BY DEF Types, ManagerTypes, ZmqTypes, TransferTypes, TypeOK, AgentStates, OpStates,
         FillStates, Copies

\* The constants have the types that the assumptions say.
LEMMA TransferConstants ==
    /\ BucketSize \in Nat \ {0} /\ MaxUpdates \in Nat
    /\ Pool \subseteq Nat \ {0} /\ Master \notin Pool
    /\ Processes = {Master} \cup Pool
  BY BucketSizeAssumption, NcclAssumption DEF Master, Processes

\* Everyone is the master and the workers of the list.
LEMMA MembersFacts ==
    ASSUME replicas \in Seq(Pool)
    PROVE  /\ Members \subseteq Pool /\ Master \notin Members
           /\ Everyone = {Master} \cup Members
           /\ Everyone \subseteq Processes /\ Members \subseteq Processes
           /\ Pool \subseteq Processes /\ Master \in Processes
  BY TransferConstants DEF Everyone, Members

\* What putting the next chunk into the bucket does.
LEMMA PutFacts ==
    ASSUME fill \in FillStates, FillInv, MoreChunks(weights, fill), Fits(weights, fill),
           NEW t, t = TensorMeta(weights, fill),
           NEW f, f = PutChunk(weights, fill)
    PROVE  /\ t \in Chunks /\ IsChunk(t) /\ Pos(t) = FillPos
           /\ f \in FillStates
           /\ f.bucket_meta = Append(fill.bucket_meta, t)
           /\ PosAfter(t) = <<f.wi, f.co>>
           /\ f.wi \in 1..Len(weights) + 1
           /\ f.wi <= Len(weights) => f.co < weights[f.wi]
           /\ f.wi > Len(weights) => f.co = 0
           /\ f.co > 0 => weights[f.wi] > BucketSize
           /\ \A j \in 1..Len(f.bucket_meta) :
                 /\ f.bucket_meta[j].name <= f.wi
                 /\ f.bucket_meta[j].name = f.wi => f.offset = BucketSize
           /\ FillAsserts(weights, fill)
<1> DEFINE size == ChunkSize(weights, fill)
           w == weights[fill.wi]
<1>0. BucketSize \in Nat \ {0}
  BY TransferConstants
<1>1. /\ fill.wi \in Nat \ {0} /\ fill.co \in Nat /\ fill.offset \in 0..BucketSize
      /\ fill.bucket_meta \in Seq(Chunks) /\ Len(weights) \in Nat
      /\ fill.wi <= Len(weights) /\ w \in Nat \ {0} /\ fill.co < w
      /\ fill.co > 0 => w > BucketSize
  BY DEF FillInv, FillStates, MoreChunks
<1>2. /\ size \in Nat \ {0} /\ size <= BucketSize /\ fill.co + size <= w
      /\ fill.co + size # w => size = BucketSize /\ w > BucketSize
      /\ size = IF w - fill.co < BucketSize THEN w - fill.co ELSE BucketSize
  BY <1>0, <1>1 DEF ChunkSize
<1>3. fill.offset + size <= BucketSize
  BY DEF Fits
<1>4. /\ t.name = fill.wi /\ t.nbytes = w /\ t.chunk_offset = fill.co
      /\ t.chunk_size = size /\ t.offset = fill.offset
      /\ t = [name |-> fill.wi, nbytes |-> w, chunk_offset |-> fill.co,
              chunk_size |-> size, offset |-> fill.offset]
  BY DEF TensorMeta
<1>5. /\ f.wi = IF fill.co + size = w THEN fill.wi + 1 ELSE fill.wi
      /\ f.co = IF fill.co + size = w THEN 0 ELSE fill.co + size
      /\ f.offset = fill.offset + size
      /\ f.bucket_meta = Append(fill.bucket_meta, t)
      /\ f = [wi |-> f.wi, co |-> f.co, offset |-> f.offset, bucket_meta |-> f.bucket_meta]
  BY DEF PutChunk
<1> HIDE DEF size, w
<1>6. t \in Chunks
  BY <1>0, <1>1, <1>2, <1>4 DEF Chunks
<1>7. IsChunk(t) /\ Pos(t) = FillPos
  BY <1>0, <1>1, <1>2, <1>4 DEF IsChunk, Pos, FillPos
<1>8. PosAfter(t) = <<f.wi, f.co>>
  BY <1>4, <1>5 DEF PosAfter, Ends
<1>9. f.wi \in Nat /\ f.co \in Nat /\ f.offset \in 0..BucketSize
      /\ f.bucket_meta \in Seq(Chunks)
  <2>1. f.offset \in 0..BucketSize
    BY <1>0, <1>1, <1>2, <1>3, <1>5
  <2>2. f.wi \in Nat /\ f.co \in Nat
    BY <1>1, <1>2, <1>5, SMTT(30)
  <2>3. f.bucket_meta \in Seq(Chunks)
    BY <1>1, <1>5, <1>6
  <2>4. QED
    BY <2>1, <2>2, <2>3
<1>10. f \in FillStates
  BY <1>5, <1>9 DEF FillStates
<1>11. /\ f.wi \in 1..Len(weights) + 1
       /\ f.wi <= Len(weights) => f.co < weights[f.wi]
       /\ f.wi > Len(weights) => f.co = 0
       /\ f.co > 0 => weights[f.wi] > BucketSize
  <2>1. CASE fill.co + size = w
    <3>1. f.wi = fill.wi + 1 /\ f.co = 0
      BY <1>5, <2>1
    <3>2. f.wi <= Len(weights) => weights[f.wi] \in Nat \ {0}
      BY <1>1, <3>1 DEF FillInv
    <3>3. QED
      BY <1>1, <3>1, <3>2
  <2>2. CASE fill.co + size # w
    <3>1. f.wi = fill.wi /\ f.co = fill.co + size
      BY <1>5, <2>2
    <3>2. weights[f.wi] = w
      BY <3>1 DEF w
    <3>3. QED
      BY <1>0, <1>1, <1>2, <2>2, <3>1, <3>2
  <2>3. QED
    BY <2>1, <2>2
<1>12. \A j \in 1..Len(fill.bucket_meta) :
          /\ fill.bucket_meta[j].name \in Nat
          /\ fill.bucket_meta[j].name <= fill.wi
          /\ fill.bucket_meta[j].name # fill.wi
  <2> SUFFICES ASSUME NEW j \in 1..Len(fill.bucket_meta)
               PROVE  /\ fill.bucket_meta[j].name \in Nat
                      /\ fill.bucket_meta[j].name <= fill.wi
                      /\ fill.bucket_meta[j].name # fill.wi
    OBVIOUS
  <2>0. fill.bucket_meta[j] \in Chunks
    BY <1>1
  <2>1. fill.bucket_meta[j].name \in Nat
    BY <2>0 DEF Chunks
  <2>2. fill.bucket_meta[j].name <= fill.wi
    BY DEF FillInv
  <2>3. fill.bucket_meta[j].name # fill.wi
    <3>1. fill.bucket_meta[j].name = fill.wi => fill.offset = BucketSize
      BY DEF FillInv
    <3>2. fill.offset # BucketSize
      BY <1>0, <1>1, <1>2, <1>3
    <3>3. QED
      BY <3>1, <3>2
  <2>4. QED
    BY <2>1, <2>2, <2>3
<1>13. ASSUME NEW j \in 1..Len(f.bucket_meta)
       PROVE  /\ f.bucket_meta[j].name <= f.wi
              /\ f.bucket_meta[j].name = f.wi => f.offset = BucketSize
  <2>1. CASE j \in 1..Len(fill.bucket_meta)
    <3>1. f.bucket_meta[j] = fill.bucket_meta[j]
      BY <1>1, <1>5, <2>1
    <3>2. QED
      BY <1>1, <1>5, <1>12, <2>1, <3>1
  <2>2. CASE j = Len(fill.bucket_meta) + 1
    <3>1. f.bucket_meta[j].name = fill.wi
      BY <1>1, <1>4, <1>5, <2>2
    <3>2. f.wi = fill.wi => f.offset = BucketSize
      BY <1>0, <1>1, <1>2, <1>3, <1>5
    <3>3. QED
      BY <1>1, <1>5, <3>1, <3>2
  <2>3. QED
    BY <1>1, <1>5, <2>1, <2>2
<1>14. FillAsserts(weights, fill)
  BY <1>3, <1>12 DEF FillAsserts, size
<1>15. QED
  BY <1>5, <1>6, <1>7, <1>8, <1>10, <1>11, <1>13, <1>14

-----------------------------------------------------------------------------
(* Steps of one worker *)

\* A worker whose own state stays the same is as well off as before, as long
\* as the finished broadcasts reach as far.
LEMMA WorkerKept ==
    ASSUME NEW q, WorkerOK(q), op'[q] = op[q], agent'[q] = agent[q],
           stream'[q] = stream[q], SentTo' = SentTo
    PROVE  /\ PhaseOK(q)' /\ SideOK(q)' /\ ChunksOK(q)'
           /\ mail'[q] = mail[q] /\ op'[Master] = op[Master] => WorkerOK(q)'
<1>1. (Active(q)' <=> Active(q)) /\ (Pending(q)' <=> Pending(q))
  BY DEF Active, Pending
<1>2. BucketEnd(q)' = BucketEnd(q)
  BY <1>1 DEF BucketEnd
<1>3. MergePos(q)' = MergePos(q)
  BY <1>2 DEF MergePos
<1>4. PhaseOK(q)' /\ SideOK(q)'
  BY <1>1 DEF WorkerOK, PhaseOK, SideOK, Master
<1>5. ChunksOK(q)'
  BY <1>2, <1>3 DEF WorkerOK, ChunksOK
<1>6. mail'[q] = mail[q] /\ op'[Master] = op[Master] => MailOK(q)'
  BY DEF WorkerOK, MailOK, Master
<1>7. QED
  BY <1>4, <1>5, <1>6 DEF WorkerOK

\* How far the broadcasts reach depends on the sender only.
LEMMA SentToKept ==
    ASSUME fill' = fill, op'[Master] = op[Master]
    PROVE  /\ SentTo' = SentTo /\ FillStart' = FillStart /\ FillPos' = FillPos
           /\ Active(Master)' <=> Active(Master)
  BY DEF SentTo, SendStart, FillStart, FillPos, Start, Active, Master

\* What a step of one worker leaves alone: to keep the invariant it has to keep
\* the types and the worker's own conditions.
LEMMA WorkerFrame ==
    ASSUME BroadcastIInv, stage = "update", NEW p \in Members,
           UNCHANGED managerVars, UNCHANGED <<fill, subscribed>>,
           \A q \in Processes \ {p} :
               op'[q] = op[q] /\ agent'[q] = agent[q] /\ stream'[q] = stream[q],
           \A q \in Pool \ {p} : mail'[q] = mail[q],
           Types', WorkerOK(p)'
    PROVE  BroadcastIInv'
<1>1. /\ Members \subseteq Pool /\ Master \notin Members /\ Master \in Processes
      /\ Everyone = {Master} \cup Members /\ Members \subseteq Processes
      /\ Pool \subseteq Processes
  BY MembersFacts DEF BroadcastIInv, Types, ManagerTypes
<1>2. stage' = "update" /\ Members' = Members /\ Everyone' = Everyone /\ weights' = weights
  BY DEF managerVars, Members, Everyone
<1>3. op'[Master] = op[Master] /\ agent'[Master] = agent[Master]
      /\ stream'[Master] = stream[Master]
  BY <1>1
<1>4. /\ SentTo' = SentTo /\ FillStart' = FillStart /\ FillPos' = FillPos
      /\ Active(Master)' <=> Active(Master)
  BY <1>3, SentToKept
<1>5. FillInv'
  BY <1>2 DEF BroadcastIInv, FillInv
<1>6. QuietInv'
  <2>1. ASSUME NEW q \in Processes, q \notin Everyone
        PROVE  (Idle(q) /\ stream[q] = <<>> /\ agent[q].phase = "done")'
    <3>1. op'[q] = op[q] /\ agent'[q] = agent[q] /\ stream'[q] = stream[q]
      BY <1>1, <2>1
    <3>2. QED
      BY <2>1, <3>1 DEF BroadcastIInv, QuietInv, Idle
  <2>2. ASSUME NEW q \in Pool, q \notin Members PROVE mail'[q] = <<>>
    BY <1>1, <2>2 DEF BroadcastIInv, QuietInv
  <2>3. QED
    BY <1>1, <1>2, <2>1, <2>2 DEF BroadcastIInv, QuietInv, Processes
<1>7. SenderOK'
  BY <1>3, <1>4 DEF BroadcastIInv, UpdateInv, SenderOK, SideOK, Master
<1>8. ASSUME NEW q \in Members PROVE WorkerOK(q)'
  <2>1. CASE q = p
    BY <2>1
  <2>2. CASE q # p
    <3>1. /\ op'[q] = op[q] /\ agent'[q] = agent[q] /\ stream'[q] = stream[q]
          /\ mail'[q] = mail[q]
      BY <1>1, <2>2
    <3>2. WorkerOK(q)
      BY DEF BroadcastIInv, UpdateInv
    <3>3. QED
      BY <1>3, <1>4, <3>1, <3>2, WorkerKept
  <2>3. QED
    BY <2>1, <2>2
<1>9. QED
  BY <1>2, <1>5, <1>6, <1>7, <1>8 DEF BroadcastIInv, UpdateInv

\* Whoever does something is a member of an update in progress.
LEMMA BusyInUpdate ==
    ASSUME BroadcastIInv, NEW p \in Processes,
           agent[p].phase # "done" \/ ~Idle(p) \/ stream[p] # <<>>
    PROVE  stage = "update" /\ p \in Everyone
  BY DEF BroadcastIInv, QuietInv

\* What is known of a worker in an update.
LEMMA WorkerFacts ==
    ASSUME BroadcastIInv, stage = "update", NEW p \in Members
    PROVE  /\ p \in Pool /\ p \in Processes /\ p # Master /\ Master \in Processes
           /\ agent[p] \in AgentStates /\ op[p] \in OpStates
           /\ stream[p] \in Seq(Copies) /\ mail[p] \in Seq(Metas)
           /\ op[Master] \in OpStates
           /\ Types /\ WorkerOK(p) /\ SenderOK
<1>1. /\ p \in Pool /\ p \in Processes /\ p # Master /\ Master \in Processes
  BY MembersFacts DEF BroadcastIInv, Types, ManagerTypes
<1>2. QED
  BY <1>1 DEF BroadcastIInv, Types, TransferTypes, ZmqTypes, UpdateInv

\* A worker receives the metadata of the bucket that the sender is in.
LEMMA ReceiveMetaStep ==
    ASSUME BroadcastIInv, NEW p \in Pool, ReceiveMeta(p)
    PROVE  BroadcastIInv'
<1>1. op[p].state = "meta" /\ mail[p] # <<>>
  BY DEF ReceiveMeta
<1>2. p \in Processes /\ p # Master
  BY TransferConstants
<1>3. stage = "update" /\ p \in Everyone
  BY <1>1, <1>2, BusyInUpdate DEF Idle
<1>4. p \in Members
  BY <1>2, <1>3 DEF Everyone
<1>5. /\ agent[p] \in AgentStates /\ op[p] \in OpStates
      /\ stream[p] \in Seq(Copies) /\ mail[p] \in Seq(Metas)
      /\ Types /\ WorkerOK(p)
  BY <1>3, <1>4, WorkerFacts
<1>6. op[Master].state = "nccl" /\ mail[p] = <<op[Master].meta>>
  BY <1>1, <1>5 DEF WorkerOK, MailOK
<1>7. Head(mail[p]) = op[Master].meta /\ Tail(mail[p]) = <<>> /\ Head(mail[p]) \in Metas
  BY <1>5, <1>6
<1>8. /\ UNCHANGED managerVars /\ UNCHANGED <<fill, agent, subscribed, missed, stream>>
      /\ op' = [op EXCEPT ![p].state = "nccl", ![p].meta = Head(mail[p])]
      /\ mail' = [mail EXCEPT ![p] = Tail(mail[p])]
  BY DEF ReceiveMeta
<1>9. /\ op'[p].state = "nccl" /\ op'[p].meta = op[Master].meta /\ op'[p].side = op[p].side
      /\ op'[p] \in OpStates /\ op' \in [Processes -> OpStates]
      /\ \A q \in Processes \ {p} : op'[q] = op[q]
  <2>1. op \in [Processes -> OpStates]
    BY <1>5 DEF Types, TransferTypes
  <2>2. op'[p] = [op[p] EXCEPT !.state = "nccl", !.meta = op[Master].meta]
    BY <1>2, <1>7, <1>8, <2>1
  <2>3. op'[p] \in OpStates
    BY <1>5, <1>7, <2>2 DEF OpStates
  <2>4. (\A q \in Processes \ {p} : op'[q] = op[q]) /\ op' \in [Processes -> OpStates]
    BY <1>8, <2>1, <2>3
  <2>5. op'[p].state = "nccl" /\ op'[p].meta = op[Master].meta /\ op'[p].side = op[p].side
    BY <1>5, <2>2 DEF OpStates
  <2>6. QED
    BY <2>3, <2>4, <2>5
<1>10. /\ mail'[p] = <<>> /\ mail' \in [Pool -> Seq(Metas)]
       /\ \A q \in Pool \ {p} : mail'[q] = mail[q]
  <2>1. mail \in [Pool -> Seq(Metas)]
    BY <1>5 DEF Types, ZmqTypes
  <2>2. <<>> \in Seq(Metas)
    OBVIOUS
  <2>3. QED
    BY <1>7, <1>8, <2>1, <2>2
<1>11. op'[Master] = op[Master]
  BY <1>2, <1>9, TransferConstants
<1>12. SentTo' = SentTo
  BY <1>8, <1>11, SentToKept
<1>13. Types'
  BY <1>5, <1>8, <1>9, <1>10
  DEF Types, ManagerTypes, ZmqTypes, TransferTypes, managerVars, Processes, Master
<1>14. MailOK(p)'
  BY <1>6, <1>9, <1>10, <1>11 DEF MailOK, Master
<1>15. PhaseOK(p)' /\ SideOK(p)'
  BY <1>1, <1>2, <1>5, <1>8, <1>9 DEF WorkerOK, PhaseOK, SideOK, Active, Master
<1>16. ChunksOK(p)'
  <2>1. ~Pending(p) /\ ~Pending(p)'
    BY <1>1, <1>9 DEF Pending
  <2>2. BucketEnd(p)' = BucketEnd(p)
    BY <1>12, <2>1 DEF BucketEnd
  <2>3. MergePos(p)' = MergePos(p)
    BY <1>8, <2>2 DEF MergePos
  <2>4. QED
    BY <1>5, <1>8, <1>9, <2>2, <2>3 DEF WorkerOK, ChunksOK
<1>17. QED
  BY <1>3, <1>4, <1>8, <1>9, <1>10, <1>13, <1>14, <1>15, <1>16, WorkerFrame DEF WorkerOK

\* The record of a worker that turns to bucket m in buffer n.
Turned(a, n, m) == [a EXCEPT !.phase = "top", !.side = n, !.meta = m, !.done = 0]

\* Its fields.
LEMMA TurnedFacts ==
    ASSUME NEW a \in AgentStates, NEW n \in {0, 1}, NEW m \in Metas
    PROVE  /\ Turned(a, n, m).phase = "top" /\ Turned(a, n, m).side = n
           /\ Turned(a, n, m).meta = m /\ Turned(a, n, m).done = 0
           /\ Turned(a, n, m).merge = a.merge /\ Turned(a, n, m) \in AgentStates
<1> SUFFICES ASSUME NEW b, b = Turned(a, n, m)
             PROVE  /\ b.phase = "top" /\ b.side = n /\ b.meta = m /\ b.done = 0
                    /\ b.merge = a.merge /\ b \in AgentStates
  OBVIOUS
<1>1. b = [phase |-> "top", side |-> n, meta |-> m, done |-> 0, merge |-> a.merge]
  BY DEF AgentStates, Turned
<1>2. a.merge \in [name : Nat, offset : Nat, loaded : Seq(Nat)]
  BY DEF AgentStates
<1>3. /\ b.phase = "top" /\ b.side = n /\ b.meta = m /\ b.done = 0 /\ b.merge = a.merge
  BY <1>1
<1>4. b \in AgentStates
  BY <1>1, <1>2 DEF AgentStates
<1>5. QED
  BY <1>3, <1>4

\* Turning to the next bucket: it is the one received last, and the merge is
\* where it starts.
LEMMA SwapStep ==
    ASSUME BroadcastIInv, stage = "update", NEW p \in Members, Pending(p),
           stream[p] = <<>>, MergePos(p) = BucketEnd(p),
           agent' = [agent EXCEPT ![p] = Swapped(p)],
           UNCHANGED managerVars, UNCHANGED <<fill, op, subscribed, missed, mail, stream>>
    PROVE  BroadcastIInv'
<1>1. /\ p \in Pool /\ p \in Processes /\ p # Master
      /\ agent[p] \in AgentStates /\ op[p] \in OpStates /\ Types /\ WorkerOK(p)
  BY WorkerFacts
<1>2. agent \in [Processes -> AgentStates]
  BY <1>1 DEF Types, TransferTypes
<1>3. /\ agent'[p] = Swapped(p) /\ \A q \in Processes \ {p} : agent'[q] = agent[q]
  BY <1>1, <1>2
<1>4. /\ agent'[p].phase = "top" /\ agent'[p].side = 1 - agent[p].side
      /\ agent'[p].meta = op[p].meta /\ agent'[p].done = 0
      /\ agent'[p].merge = agent[p].merge /\ agent'[p] \in AgentStates
  <2>1. 1 - agent[p].side \in {0, 1} /\ op[p].meta \in Metas
    BY <1>1 DEF AgentStates, OpStates
  <2>2. agent'[p] = Turned(agent[p], 1 - agent[p].side, op[p].meta)
    BY <1>3 DEF Swapped, Turned
  <2>3. QED
    BY <1>1, <2>1, <2>2, TurnedFacts
<1>5. Types'
  BY <1>1, <1>2, <1>4
  DEF Types, ManagerTypes, ZmqTypes, TransferTypes, managerVars, Processes, Master
<1>6. SentTo' = SentTo
  BY SentToKept
<1>7. op[p].state = "done"
  BY DEF Pending
<1>8. MailOK(p)'
  BY <1>1 DEF WorkerOK, MailOK, Master
<1>9. PhaseOK(p)' /\ SideOK(p)'
  BY <1>4, <1>7 DEF PhaseOK, SideOK, Active, Master
<1>10. BucketEnd(p)' = SentTo
  BY <1>4, <1>6 DEF BucketEnd, Pending
<1>11. Chain(op[p].meta.bucket_meta, SentTo)
  BY <1>1, <1>7 DEF WorkerOK, ChunksOK
<1>12. op[p].meta.bucket_meta \in Seq(Chunks)
  BY <1>1 DEF OpStates, Metas
<1>13. MergePos(p)' = MergePos(p)
  <2>1. MergePos(p) = Start(op[p].meta.bucket_meta, SentTo)
    BY DEF BucketEnd
  <2>2. CASE op[p].meta.bucket_meta = <<>>
    <3>1. ~(0 < Len(op[p].meta.bucket_meta))
      BY <2>2
    <3>2. MergePos(p)' = SentTo
      BY <1>4, <1>10, <3>1 DEF MergePos
    <3>3. QED
      BY <2>1, <2>2, <3>2 DEF Start
  <2>3. CASE op[p].meta.bucket_meta # <<>>
    <3>1. 0 < Len(op[p].meta.bucket_meta)
      BY <1>12, <2>3
    <3>2. MergePos(p)' = Pos(op[p].meta.bucket_meta[0 + 1])
      BY <1>4, <3>1 DEF MergePos
    <3>3. QED
      BY <2>1, <2>3, <3>2 DEF Start
  <2>4. QED
    BY <2>2, <2>3
<1>14. Agrees(agent[p].merge, MergePos(p))
  BY <1>1 DEF WorkerOK, ChunksOK, Pending
<1>15. ChunksOK(p)'
  <2>1. Chain(agent'[p].meta.bucket_meta, BucketEnd(p)')
    BY <1>4, <1>10, <1>11
  <2>2. agent'[p].done <= Len(agent'[p].meta.bucket_meta)
    BY <1>4, <1>12
  <2>3. Chain(op'[p].meta.bucket_meta, SentTo')
    BY <1>6, <1>11
  <2>4. QED
    BY <1>4, <1>13, <1>14, <2>1, <2>2, <2>3 DEF ChunksOK
<1>16. QED
  BY <1>3, <1>5, <1>8, <1>9, <1>15, WorkerFrame DEF WorkerOK

\* The first bucket has arrived.
LEMMA FirstBucketStep ==
    ASSUME BroadcastIInv, NEW p \in Members, FirstBucket(p)
    PROVE  BroadcastIInv'
<1>1. /\ agent[p].phase = "first" /\ op[p].state = "done"
      /\ agent' = [agent EXCEPT ![p] = Swapped(p)]
      /\ UNCHANGED managerVars
      /\ UNCHANGED <<fill, op, subscribed, missed, mail, stream>>
  BY DEF FirstBucket, zmqVars
<1>2. p \in Processes
  BY MembersFacts DEF BroadcastIInv, Types, ManagerTypes
<1>3. stage = "update"
  BY <1>1, <1>2, BusyInUpdate
<1>4. stream[p] = <<>>
  BY <1>1, <1>3, WorkerFacts DEF WorkerOK, PhaseOK
<1>5. Pending(p) /\ MergePos(p) = BucketEnd(p)
  BY <1>1 DEF Pending, MergePos
<1>6. QED
  BY <1>1, <1>3, <1>4, <1>5, SwapStep

\* A round ends when the next bucket is there and the copies of this one are done.
LEMMA EndRoundStep ==
    ASSUME BroadcastIInv, NEW p \in Members, EndRound(p)
    PROVE  BroadcastIInv'
<1>1. /\ agent[p].phase = "yield" /\ ~agent[p].meta.is_last
      /\ agent[p].done = Len(agent[p].meta.bucket_meta)
      /\ Idle(p) /\ stream[p] = <<>>
      /\ agent' = [agent EXCEPT ![p] = Swapped(p)]
      /\ UNCHANGED managerVars
      /\ UNCHANGED <<fill, op, subscribed, missed, mail, stream>>
  BY DEF EndRound, Yielded, AwaitOp, Synchronize, zmqVars
<1>2. p \in Processes
  BY MembersFacts DEF BroadcastIInv, Types, ManagerTypes
<1>3. stage = "update"
  BY <1>1, <1>2, BusyInUpdate
<1>4. op[p].state = "done"
  BY <1>1, <1>3, WorkerFacts DEF WorkerOK, MailOK, Idle
<1>5. Pending(p)
  BY <1>1, <1>4 DEF Pending
<1>6. agent[p].done \in Nat
  BY <1>3, WorkerFacts DEF AgentStates
<1>7. MergePos(p) = BucketEnd(p)
  BY <1>1, <1>6 DEF MergePos
<1>8. QED
  BY <1>1, <1>3, <1>5, <1>7, SwapStep

\* Asking for the next bucket: the buffer given to the operation is not the one
\* the chunks are yielded from.
LEMMA ReceiveNextStep ==
    ASSUME BroadcastIInv, NEW p \in Members, ReceiveNext(p)
    PROVE  BroadcastIInv'
<1>1. /\ agent[p].phase = "top"
      /\ op' = IF agent[p].meta.is_last THEN op
               ELSE [op EXCEPT ![p] = NewOp(1 - agent[p].side, NoBucket)]
      /\ agent' = [agent EXCEPT ![p].phase = "yield"]
      /\ UNCHANGED managerVars
      /\ UNCHANGED <<fill, subscribed, missed, mail, stream>>
  BY DEF ReceiveNext, zmqVars
<1>2. p \in Processes
  BY MembersFacts DEF BroadcastIInv, Types, ManagerTypes
<1>3. stage = "update"
  BY <1>1, <1>2, BusyInUpdate
<1>4. /\ p # Master /\ Master \in Processes
      /\ agent[p] \in AgentStates /\ op[p] \in OpStates /\ Types /\ WorkerOK(p)
  BY <1>3, WorkerFacts
<1>5. stream[p] = <<>> /\ op[p].state = "done"
  BY <1>1, <1>4 DEF WorkerOK, PhaseOK, Active, MailOK, OpStates
<1>6. agent \in [Processes -> AgentStates] /\ op \in [Processes -> OpStates]
  BY <1>4 DEF Types, TransferTypes
<1>7. /\ agent'[p] = [agent[p] EXCEPT !.phase = "yield"]
      /\ \A q \in Processes \ {p} : agent'[q] = agent[q]
  BY <1>1, <1>2, <1>6
<1>8. /\ agent'[p].phase = "yield" /\ agent'[p].side = agent[p].side
      /\ agent'[p].meta = agent[p].meta /\ agent'[p].done = agent[p].done
      /\ agent'[p].merge = agent[p].merge /\ agent'[p] \in AgentStates
  BY <1>4, <1>7 DEF AgentStates
<1>9. NewOp(1 - agent[p].side, NoBucket) \in OpStates
  <2>1. 1 - agent[p].side \in {0, 1}
    BY <1>4 DEF AgentStates
  <2>2. NoBucket \in Metas
    BY DEF NoBucket, Metas
  <2>3. QED
    BY <2>1, <2>2 DEF NewOp, OpStates
<1>10. op' \in [Processes -> OpStates] /\ \A q \in Processes \ {p} : op'[q] = op[q]
  <2>1. CASE agent[p].meta.is_last
    BY <1>1, <1>6, <2>1
  <2>2. CASE ~agent[p].meta.is_last
    BY <1>1, <1>6, <1>9, <2>2
  <2>3. QED
    BY <2>1, <2>2
<1>11. Types'
  BY <1>1, <1>4, <1>6, <1>8, <1>10
  DEF Types, ManagerTypes, ZmqTypes, TransferTypes, managerVars, Processes, Master
<1>12. op'[Master] = op[Master]
  BY <1>4, <1>10
<1>13. SentTo' = SentTo
  BY <1>1, <1>12, SentToKept
<1>14. \/ agent[p].meta.is_last /\ op'[p] = op[p]
       \/ /\ ~agent[p].meta.is_last /\ op'[p].state = "meta"
          /\ op'[p].side = 1 - agent[p].side
  BY <1>1, <1>2, <1>6 DEF NewOp
<1>15. mail[p] = <<>> \/ (op[Master].state = "nccl" /\ mail[p] = <<op[Master].meta>>)
  BY <1>4 DEF WorkerOK, MailOK
<1>16. MailOK(p)'
  BY <1>1, <1>4, <1>5, <1>12, <1>14 DEF WorkerOK, MailOK, Master
<1>17. PhaseOK(p)' /\ SideOK(p)'
  BY <1>1, <1>4, <1>5, <1>8, <1>14 DEF PhaseOK, SideOK, Active, Master
<1>18. ChunksOK(p)'
  <2>1. ~Pending(p) /\ ~Pending(p)'
    BY <1>1, <1>8, <1>14 DEF Pending
  <2>2. BucketEnd(p)' = BucketEnd(p)
    BY <1>13, <2>1 DEF BucketEnd
  <2>3. MergePos(p)' = MergePos(p)
    BY <1>1, <1>8, <2>2 DEF MergePos
  <2>4. op'[p].state = "done" => op'[p] = op[p]
    BY <1>14
  <2>5. QED
    BY <1>1, <1>4, <1>8, <1>13, <2>2, <2>3, <2>4 DEF WorkerOK, ChunksOK
<1>19. QED
  BY <1>1, <1>3, <1>7, <1>10, <1>11, <1>16, <1>17, <1>18, WorkerFrame DEF WorkerOK

\* merge_weight_chunks is where the next chunk begins: its assertions hold and
\* it is where that chunk ends.
LEMMA MergeFacts ==
    ASSUME NEW t \in Chunks, IsChunk(t),
           NEW m \in [name : Nat, offset : Nat, loaded : Seq(Nat)], Agrees(m, Pos(t))
    PROVE  /\ MergeAsserts(m, t)
           /\ Agrees(MergeChunk(m, t), PosAfter(t))
           /\ MergeChunk(m, t) \in [name : Nat, offset : Nat, loaded : Seq(Nat)]
<1>0. BucketSize \in Nat \ {0}
  BY TransferConstants
<1>1. /\ t.name \in Nat \ {0} /\ t.nbytes \in Nat /\ t.chunk_offset \in Nat
      /\ t.chunk_size \in Nat
  BY DEF Chunks, IsChunk
<1>2. /\ t.chunk_offset < t.nbytes
      /\ t.chunk_size = IF t.nbytes - t.chunk_offset < BucketSize
                        THEN t.nbytes - t.chunk_offset ELSE BucketSize
      /\ t.chunk_offset > 0 => t.nbytes > BucketSize
  BY DEF IsChunk
<1>3. m.name \in Nat /\ m.offset \in Nat /\ m.loaded \in Seq(Nat)
  OBVIOUS
<1>4. Whole(t) => t.chunk_offset = 0 /\ Ends(t)
  BY <1>0, <1>1, <1>2 DEF Whole, Ends
<1>5. IF t.chunk_offset = 0 THEN m.name = 0
      ELSE m.name = t.name /\ m.offset = t.chunk_offset
  BY DEF Agrees, Pos
<1>6. MergeAsserts(m, t)
  BY <1>1, <1>4, <1>5 DEF MergeAsserts
<1>7. CASE Ends(t)
  <2>1. MergeChunk(m, t) = [name |-> 0, offset |-> 0, loaded |-> Append(m.loaded, t.name)]
    BY <1>7 DEF MergeChunk, Ends
  <2>2. PosAfter(t) = <<t.name + 1, 0>>
    BY <1>7 DEF PosAfter
  <2>3. Append(m.loaded, t.name) \in Seq(Nat)
    BY <1>1, <1>3
  <2>4. QED
    BY <1>6, <2>1, <2>2, <2>3 DEF Agrees
<1>8. CASE ~Ends(t)
  <2>1. MergeChunk(m, t) = [m EXCEPT !.name = t.name, !.offset = t.chunk_offset + t.chunk_size]
    BY <1>4, <1>8 DEF MergeChunk, Ends
  <2>2. PosAfter(t) = <<t.name, t.chunk_offset + t.chunk_size>>
    BY <1>8 DEF PosAfter
  <2>3. t.chunk_offset + t.chunk_size \in Nat \ {0}
    BY <1>0, <1>1, <1>2
  <2> DEFINE n == t.chunk_offset + t.chunk_size
  <2>4. PosAfter(t) = <<t.name, n>> /\ n \in Nat /\ n # 0
    BY <2>2, <2>3
  <2>5. MergeChunk(m, t) = [name |-> t.name, offset |-> n, loaded |-> m.loaded]
    BY <2>1
  <2> HIDE DEF n
  <2>6. MergeChunk(m, t).name = t.name /\ MergeChunk(m, t).offset = n
    BY <2>5
  <2>7. Agrees(MergeChunk(m, t), PosAfter(t))
    BY <2>4, <2>6 DEF Agrees
  <2>8. QED
    BY <1>1, <1>3, <1>6, <2>4, <2>5, <2>7
<1>9. QED
  BY <1>7, <1>8

\* The record of a worker that has handed on one chunk more.
Advanced(a, n) == [a EXCEPT !.done = a.done + 1, !.merge = n]

\* Its fields.
LEMMA AdvancedFacts ==
    ASSUME NEW a \in AgentStates,
           NEW n \in [name : Nat, offset : Nat, loaded : Seq(Nat)]
    PROVE  /\ Advanced(a, n).phase = a.phase /\ Advanced(a, n).side = a.side
           /\ Advanced(a, n).meta = a.meta /\ Advanced(a, n).done = a.done + 1
           /\ Advanced(a, n).merge = n /\ Advanced(a, n) \in AgentStates
<1> SUFFICES ASSUME NEW b, b = Advanced(a, n)
             PROVE  /\ b.phase = a.phase /\ b.side = a.side /\ b.meta = a.meta
                    /\ b.done = a.done + 1 /\ b.merge = n /\ b \in AgentStates
  OBVIOUS
<1>1. b = [phase |-> a.phase, side |-> a.side, meta |-> a.meta, done |-> a.done + 1,
           merge |-> n]
  BY DEF AgentStates, Advanced
<1>2. /\ a.phase \in {"fill", "last", "first", "top", "yield", "done"} /\ a.side \in {0, 1}
      /\ a.meta \in Metas /\ a.done + 1 \in Nat
  BY DEF AgentStates
<1>3. /\ b.phase = a.phase /\ b.side = a.side /\ b.meta = a.meta
      /\ b.done = a.done + 1 /\ b.merge = n
  BY <1>1
<1>4. b \in AgentStates
  BY <1>1, <1>2 DEF AgentStates
<1>5. QED
  BY <1>3, <1>4

\* Handing on a chunk: its copy uses the buffer in hand.
LEMMA YieldChunkStep ==
    ASSUME BroadcastIInv, NEW p \in Members, YieldChunk(p)
    PROVE  BroadcastIInv'
<1> DEFINE s == agent[p].meta.bucket_meta
           t == s[agent[p].done + 1]
           m == agent[p].merge
<1>1. /\ agent[p].phase = "yield" /\ agent[p].done < Len(s)
      /\ agent' = [agent EXCEPT ![p].done = agent[p].done + 1,
                                ![p].merge = MergeChunk(m, t)]
      /\ stream' = [stream EXCEPT ![p] =
                       Append(stream[p], [side |-> agent[p].side, meta |-> t])]
      /\ UNCHANGED managerVars
      /\ UNCHANGED <<fill, op, subscribed, missed, mail>>
  BY DEF YieldChunk, zmqVars
<1>2. p \in Processes
  BY MembersFacts DEF BroadcastIInv, Types, ManagerTypes
<1>3. stage = "update"
  BY <1>1, <1>2, BusyInUpdate
<1>4. /\ p # Master /\ Master \in Processes
      /\ agent[p] \in AgentStates /\ op[p] \in OpStates /\ stream[p] \in Seq(Copies)
      /\ Types /\ WorkerOK(p)
  BY <1>3, WorkerFacts
<1>5. agent \in [Processes -> AgentStates] /\ stream \in [Processes -> Seq(Copies)]
  BY <1>4 DEF Types, TransferTypes
<1>6. /\ agent[p].done \in Nat /\ agent[p].meta \in Metas /\ agent[p].side \in {0, 1}
      /\ m \in [name : Nat, offset : Nat, loaded : Seq(Nat)]
  BY <1>4 DEF AgentStates
<1>7. s \in Seq(Chunks)
  BY <1>6 DEF Metas
<1>8. agent[p].done + 1 \in 1..Len(s) /\ t \in Chunks /\ Len(s) \in Nat
  BY <1>1, <1>6, <1>7
<1>9. Chain(s, BucketEnd(p)) /\ Agrees(m, MergePos(p))
  BY <1>1, <1>4 DEF WorkerOK, ChunksOK
<1>10. /\ IsChunk(t)
       /\ PosAfter(t) = IF agent[p].done + 1 = Len(s) THEN BucketEnd(p)
                        ELSE Pos(s[agent[p].done + 1 + 1])
  BY <1>8, <1>9 DEF Chain
<1>11. Agrees(m, Pos(t))
  BY <1>1, <1>9 DEF MergePos
<1>12. /\ Agrees(MergeChunk(m, t), PosAfter(t))
       /\ MergeChunk(m, t) \in [name : Nat, offset : Nat, loaded : Seq(Nat)]
  BY <1>6, <1>8, <1>10, <1>11, MergeFacts
<1>13. /\ agent'[p] = Advanced(agent[p], MergeChunk(m, t))
       /\ \A q \in Processes \ {p} : agent'[q] = agent[q]
  BY <1>1, <1>2, <1>5 DEF Advanced
<1>14. /\ agent'[p].phase = "yield" /\ agent'[p].side = agent[p].side
       /\ agent'[p].meta = agent[p].meta /\ agent'[p].done = agent[p].done + 1
       /\ agent'[p].merge = MergeChunk(m, t) /\ agent'[p] \in AgentStates
  <2> DEFINE a == Advanced(agent[p], MergeChunk(m, t))
  <2>1. /\ a.phase = agent[p].phase /\ a.side = agent[p].side
        /\ a.meta = agent[p].meta /\ a.done = agent[p].done + 1
        /\ a.merge = MergeChunk(m, t) /\ a \in AgentStates
    BY <1>4, <1>12, AdvancedFacts
  <2>2. agent'[p] = a
    BY <1>13
  <2> HIDE DEF a
  <2>3. QED
    BY <1>1, <2>1, <2>2
<1> DEFINE c == [side |-> agent[p].side, meta |-> t]
<1>15. c \in Copies /\ c.side = agent[p].side
  BY <1>6, <1>8 DEF Copies
<1>16. /\ stream'[p] = Append(stream[p], c)
       /\ \A q \in Processes \ {p} : stream'[q] = stream[q]
  BY <1>1, <1>2, <1>5
<1> HIDE DEF c, m, t, s
<1>17. stream' \in [Processes -> Seq(Copies)] /\ agent' \in [Processes -> AgentStates]
  <2>1. stream'[p] \in Seq(Copies)
    BY <1>4, <1>15, <1>16
  <2>2. QED
    BY <1>1, <1>5, <1>14, <1>16, <2>1
<1>18. Types'
  BY <1>1, <1>4, <1>17
  DEF Types, ManagerTypes, ZmqTypes, TransferTypes, managerVars, Processes, Master
<1>19. SentTo' = SentTo
  BY <1>1, SentToKept
<1>20. MailOK(p)' /\ PhaseOK(p)'
  BY <1>1, <1>4, <1>14 DEF WorkerOK, MailOK, PhaseOK, Active, Master
<1>21. SideOK(p)'
  <2>1. ASSUME NEW k \in 1..Len(stream'[p]) PROVE stream'[p][k].side = agent'[p].side
    <3>1. CASE k \in 1..Len(stream[p])
      <4>1. stream'[p][k] = stream[p][k]
        BY <1>4, <1>16, <3>1
      <4>2. QED
        BY <1>4, <1>14, <3>1, <4>1 DEF WorkerOK, SideOK
    <3>2. CASE k = Len(stream[p]) + 1
      BY <1>4, <1>14, <1>15, <1>16, <3>2
    <3>3. QED
      BY <1>4, <1>16, <3>1, <3>2
  <2>2. QED
    BY <1>1, <1>4, <1>14, <2>1 DEF WorkerOK, SideOK, Active, Master
<1>22. ChunksOK(p)'
  <2>1. Pending(p)' <=> Pending(p)
    BY <1>1, <1>14 DEF Pending
  <2>2. BucketEnd(p)' = BucketEnd(p)
    BY <1>1, <1>19, <2>1 DEF BucketEnd
  <2>3. MergePos(p)' = PosAfter(t)
    <3>1. CASE agent[p].done + 1 = Len(s)
      <4>1. ~(agent'[p].done < Len(agent'[p].meta.bucket_meta))
        BY <1>8, <1>14, <3>1 DEF s
      <4>2. QED
        BY <1>10, <2>2, <3>1, <4>1 DEF MergePos
    <3>2. CASE agent[p].done + 1 # Len(s)
      <4>1. agent'[p].done < Len(agent'[p].meta.bucket_meta)
        BY <1>8, <1>14, <3>2 DEF s
      <4>2. MergePos(p)' = Pos(agent'[p].meta.bucket_meta[agent'[p].done + 1])
        BY <1>14, <4>1 DEF MergePos
      <4>3. QED
        BY <1>10, <1>14, <3>2, <4>2 DEF s
    <3>3. QED
      BY <3>1, <3>2
  <2>4. agent'[p].done <= Len(agent'[p].meta.bucket_meta)
    BY <1>8, <1>14 DEF s
  <2>5. Chain(agent'[p].meta.bucket_meta, BucketEnd(p)')
    BY <1>9, <1>14, <2>2 DEF s
  <2>6. Agrees(agent'[p].merge, MergePos(p)')
    BY <1>12, <1>14, <2>3
  <2>7. op'[p].state = "done" => Chain(op'[p].meta.bucket_meta, SentTo')
    BY <1>1, <1>4, <1>19 DEF WorkerOK, ChunksOK
  <2>8. QED
    BY <2>4, <2>5, <2>6, <2>7 DEF ChunksOK
<1>23. QED
  BY <1>1, <1>3, <1>13, <1>16, <1>18, <1>20, <1>21, <1>22, WorkerFrame DEF WorkerOK

\* A worker ends with nothing queued and no operation running.
LEMMA FinishReceiveStep ==
    ASSUME BroadcastIInv, NEW p \in Members, FinishReceive(p)
    PROVE  BroadcastIInv'
<1>1. /\ agent[p].phase = "yield" /\ agent[p].meta.is_last /\ stream[p] = <<>>
      /\ agent' = [agent EXCEPT ![p].phase = "done"]
      /\ UNCHANGED managerVars
      /\ UNCHANGED <<fill, op, subscribed, missed, mail, stream>>
  BY DEF FinishReceive, Yielded, zmqVars
<1>2. p \in Processes
  BY MembersFacts DEF BroadcastIInv, Types, ManagerTypes
<1>3. stage = "update"
  BY <1>1, <1>2, BusyInUpdate
<1>4. /\ p # Master /\ agent[p] \in AgentStates /\ Types /\ WorkerOK(p)
  BY <1>3, WorkerFacts
<1>5. agent \in [Processes -> AgentStates]
  BY <1>4 DEF Types, TransferTypes
<1>6. /\ agent'[p] = [agent[p] EXCEPT !.phase = "done"]
      /\ \A q \in Processes \ {p} : agent'[q] = agent[q]
  BY <1>1, <1>2, <1>5
<1>7. /\ agent'[p].phase = "done" /\ agent'[p].side = agent[p].side
      /\ agent'[p].meta = agent[p].meta /\ agent'[p] \in AgentStates
  BY <1>4, <1>6 DEF AgentStates
<1>8. Types'
  BY <1>1, <1>4, <1>5, <1>7
  DEF Types, ManagerTypes, ZmqTypes, TransferTypes, managerVars, Processes, Master
<1>9. ~Active(p)
  BY <1>1, <1>4 DEF WorkerOK, PhaseOK
<1>10. MailOK(p)' /\ PhaseOK(p)' /\ SideOK(p)'
  BY <1>1, <1>4, <1>7, <1>9 DEF WorkerOK, MailOK, PhaseOK, SideOK, Active, Master
<1>11. ChunksOK(p)'
  <2>1. SentTo' = SentTo
    BY <1>1, SentToKept
  <2>2. QED
    BY <1>1, <1>4, <1>7, <2>1 DEF WorkerOK, ChunksOK
<1>12. QED
  BY <1>1, <1>3, <1>6, <1>8, <1>10, <1>11, WorkerFrame DEF WorkerOK

\* What is left of a queue.
LEMMA TailFacts ==
    ASSUME NEW S, NEW s \in Seq(S), s # <<>>
    PROVE  /\ Tail(s) \in Seq(S) /\ Head(s) \in S
           /\ \A k \in 1..Len(Tail(s)) : k + 1 \in 1..Len(s) /\ Tail(s)[k] = s[k + 1]
  OBVIOUS

\* A copy that a worker's GPU has done leaves the queue.
LEMMA CopyOutStep ==
    ASSUME BroadcastIInv, NEW p \in Pool, CopyOut(p)
    PROVE  BroadcastIInv'
<1>1. /\ stream[p] # <<>>
      /\ stream' = [stream EXCEPT ![p] = Tail(stream[p])]
      /\ UNCHANGED managerVars
      /\ UNCHANGED <<fill, agent, op, subscribed, missed, mail>>
  BY DEF CopyOut, zmqVars
<1>2. p \in Processes /\ p # Master
  BY TransferConstants
<1>3. stage = "update" /\ p \in Members
  BY <1>1, <1>2, BusyInUpdate DEF Everyone
<1>4. stream[p] \in Seq(Copies) /\ Types /\ WorkerOK(p)
  BY <1>3, WorkerFacts
<1>5. stream \in [Processes -> Seq(Copies)]
  BY <1>4 DEF Types, TransferTypes
<1>6. /\ stream'[p] = Tail(stream[p]) /\ stream'[p] \in Seq(Copies)
      /\ \A k \in 1..Len(stream'[p]) :
            k + 1 \in 1..Len(stream[p]) /\ stream'[p][k] = stream[p][k + 1]
      /\ \A q \in Processes \ {p} : stream'[q] = stream[q]
  BY <1>1, <1>2, <1>4, <1>5, TailFacts
<1>7. Types'
  BY <1>1, <1>4, <1>5, <1>6
  DEF Types, ManagerTypes, ZmqTypes, TransferTypes, managerVars, Processes, Master
<1>8. agent[p].phase = "yield"
  BY <1>1, <1>4 DEF WorkerOK, PhaseOK
<1>9. MailOK(p)' /\ PhaseOK(p)' /\ SideOK(p)'
  BY <1>1, <1>4, <1>6, <1>8 DEF WorkerOK, MailOK, PhaseOK, SideOK, Active, Master
<1>10. ChunksOK(p)'
  <2>1. SentTo' = SentTo
    BY <1>1, SentToKept
  <2>2. BucketEnd(p)' = BucketEnd(p)
    BY <1>1, <2>1 DEF BucketEnd, Pending
  <2>3. MergePos(p)' = MergePos(p)
    BY <1>1, <2>2 DEF MergePos
  <2>4. QED
    BY <1>1, <1>4, <2>1, <2>2, <2>3 DEF WorkerOK, ChunksOK
<1>11. QED
  BY <1>1, <1>3, <1>6, <1>7, <1>9, <1>10, WorkerFrame DEF WorkerOK

-----------------------------------------------------------------------------
(* Steps of the sender *)

\* What a step of the sender leaves alone: to keep the invariant it has to keep
\* the types, its own conditions, and the mail in step with its operation.
LEMMA SenderFrame ==
    ASSUME BroadcastIInv, stage = "update", UNCHANGED managerVars,
           subscribed' \subseteq Members,
           \A q \in Pool : op'[q] = op[q] /\ agent'[q] = agent[q] /\ stream'[q] = stream[q],
           SentTo' = SentTo, Types', FillInv', SenderOK',
           \A q \in Members : MailOK(q)',
           \A q \in Pool \ Members : mail'[q] = mail[q]
    PROVE  BroadcastIInv'
<1>1. /\ Members \subseteq Pool /\ Master \notin Members /\ Master \in Processes
      /\ Everyone = {Master} \cup Members /\ Processes = {Master} \cup Pool
  BY MembersFacts, TransferConstants DEF BroadcastIInv, Types, ManagerTypes
<1>2. stage' = "update" /\ Members' = Members /\ Everyone' = Everyone
  BY DEF managerVars, Members, Everyone
<1>3. QuietInv'
  <2>1. ASSUME NEW q \in Processes, q \notin Everyone
        PROVE  (Idle(q) /\ stream[q] = <<>> /\ agent[q].phase = "done")'
    <3>1. op'[q] = op[q] /\ agent'[q] = agent[q] /\ stream'[q] = stream[q]
      BY <1>1, <2>1
    <3>2. QED
      BY <2>1, <3>1 DEF BroadcastIInv, QuietInv, Idle
  <2>2. ASSUME NEW q \in Pool, q \notin Members PROVE mail'[q] = <<>>
    BY <2>2 DEF BroadcastIInv, QuietInv
  <2>3. QED
    BY <1>1, <1>2, <2>1, <2>2 DEF QuietInv, Processes, Master
<1>4. ASSUME NEW q \in Members PROVE WorkerOK(q)'
  <2>1. op'[q] = op[q] /\ agent'[q] = agent[q] /\ stream'[q] = stream[q]
    BY <1>1
  <2>2. WorkerOK(q)
    BY DEF BroadcastIInv, UpdateInv
  <2>3. PhaseOK(q)' /\ SideOK(q)' /\ ChunksOK(q)'
    BY <2>1, <2>2, WorkerKept
  <2>4. QED
    BY <2>3 DEF WorkerOK
<1>5. QED
  BY <1>2, <1>3, <1>4 DEF BroadcastIInv, UpdateInv

\* What is known of the sender in an update.
LEMMA SenderFacts ==
    ASSUME BroadcastIInv, stage = "update"
    PROVE  /\ Master \in Processes /\ Master \notin Pool /\ Pool \subseteq Processes
           /\ Members \subseteq Pool /\ subscribed \subseteq Members
           /\ agent[Master] \in AgentStates /\ op[Master] \in OpStates
           /\ stream[Master] \in Seq(Copies) /\ fill \in FillStates
           /\ agent \in [Processes -> AgentStates] /\ op \in [Processes -> OpStates]
           /\ stream \in [Processes -> Seq(Copies)] /\ mail \in [Pool -> Seq(Metas)]
           /\ Types /\ FillInv /\ SenderOK /\ \A q \in Members : WorkerOK(q)
<1>1. /\ Master \in Processes /\ Master \notin Pool /\ Pool \subseteq Processes
      /\ Members \subseteq Pool
  BY MembersFacts, TransferConstants DEF BroadcastIInv, Types, ManagerTypes
<1>2. QED
  BY <1>1 DEF BroadcastIInv, Types, TransferTypes, ZmqTypes, UpdateInv, QuietInv

\* Mail, operations and sender as they were: so are the conditions on them.
LEMMA MailKept ==
    ASSUME BroadcastIInv, stage = "update", mail' = mail, op' = op
    PROVE  \A q \in Members : MailOK(q)'
  BY SenderFacts DEF WorkerOK, MailOK, Master

\* A subscription that arrives only widens who is published to.
LEMMA SubscribeStep ==
    ASSUME BroadcastIInv, NEW p \in Pool, Subscribe(p)
    PROVE  BroadcastIInv'
<1>1. /\ stage = "update" /\ p \in Members /\ subscribed' = subscribed \cup {p}
      /\ UNCHANGED managerVars /\ UNCHANGED <<fill, agent, op, mail, missed, stream>>
  BY DEF Subscribe
<1>2. /\ Members \subseteq Pool /\ subscribed \subseteq Members
      /\ Types /\ FillInv /\ SenderOK
  BY <1>1, SenderFacts
<1>3. /\ SentTo' = SentTo /\ FillStart' = FillStart /\ FillPos' = FillPos
      /\ Active(Master)' <=> Active(Master)
  BY <1>1, SentToKept
<1>4. SenderOK'
  BY <1>1, <1>2, <1>3 DEF SenderOK, SideOK, Master
<1>5. FillInv'
  BY <1>1, <1>2 DEF FillInv, managerVars
<1>6. Types'
  BY <1>1, <1>2
  DEF Types, ManagerTypes, ZmqTypes, TransferTypes, managerVars, Processes, Master
<1>7. \A q \in Members : MailOK(q)'
  BY <1>1, MailKept
<1>8. QED
  BY <1>1, <1>2, <1>3, <1>4, <1>5, <1>6, <1>7, SenderFrame

\* The metadata goes to the workers that the socket knows of, none of which had
\* any left.
LEMMA PublishMetaStep ==
    ASSUME BroadcastIInv, PublishMeta
    PROVE  BroadcastIInv'
<1>1. /\ op[Master].state = "meta"
      /\ mail' = [p \in Pool |-> IF p \in subscribed
                                 THEN Append(mail[p], op[Master].meta) ELSE mail[p]]
      /\ missed' = missed \cup (Members \ subscribed)
      /\ op' = [op EXCEPT ![Master].state = "nccl"]
      /\ UNCHANGED managerVars /\ UNCHANGED <<fill, agent, subscribed, stream>>
  BY DEF PublishMeta
<1>2. stage = "update"
  BY <1>1, BusyInUpdate, TransferConstants DEF Idle
<1>3. /\ Master \in Processes /\ Master \notin Pool /\ Pool \subseteq Processes
      /\ Members \subseteq Pool /\ subscribed \subseteq Members
      /\ op[Master] \in OpStates /\ op \in [Processes -> OpStates]
      /\ mail \in [Pool -> Seq(Metas)]
      /\ Types /\ FillInv /\ SenderOK /\ \A q \in Members : WorkerOK(q)
  BY <1>2, SenderFacts
<1>4. /\ op'[Master] = [op[Master] EXCEPT !.state = "nccl"]
      /\ \A q \in Processes \ {Master} : op'[q] = op[q]
  BY <1>1, <1>3
<1>5. /\ op'[Master].state = "nccl" /\ op'[Master].side = op[Master].side
      /\ op'[Master].meta = op[Master].meta /\ op'[Master] \in OpStates
      /\ op[Master].meta \in Metas
  BY <1>3, <1>4 DEF OpStates
<1>6. Active(Master) /\ Active(Master)'
  BY <1>1, <1>5 DEF Active, Master
<1>7. /\ FillPos' = FillPos /\ FillStart' = FillStart
  BY <1>1 DEF FillPos, FillStart, Start
<1>8. SentTo' = SentTo
  BY <1>5, <1>6, <1>7 DEF SentTo, SendStart, Start, Master
<1>9. SenderOK'
  BY <1>1, <1>3, <1>5, <1>6, <1>7 DEF SenderOK, SideOK, Master
<1>10. FillInv'
  BY <1>1, <1>3 DEF FillInv, managerVars
<1>11. \A q \in Pool \ Members : mail'[q] = mail[q]
  BY <1>1, <1>3
<1>12. ASSUME NEW q \in Members PROVE MailOK(q)'
  <2>1. q \in Pool /\ q \in Processes /\ op'[q] = op[q] /\ WorkerOK(q)
    BY <1>3, <1>4
  <2>2. op[q].state # "none" /\ op[q].state # "nccl" /\ mail[q] = <<>>
    BY <1>1, <2>1 DEF WorkerOK, MailOK
  <2>3. mail'[q] = <<>> \/ mail'[q] = <<op[Master].meta>>
    <3>1. mail'[q] = IF q \in subscribed THEN Append(mail[q], op[Master].meta) ELSE mail[q]
      BY <1>1, <2>1
    <3>2. Append(<<>>, op[Master].meta) = <<op[Master].meta>>
      BY <1>5
    <3>3. QED
      BY <2>2, <3>1, <3>2
  <2>4. QED
    BY <1>5, <2>1, <2>2, <2>3 DEF MailOK, Master
<1>13. Types'
  <2>1. mail' \in [Pool -> Seq(Metas)]
    BY <1>1, <1>3, <1>5
  <2>2. op' \in [Processes -> OpStates]
    BY <1>1, <1>3, <1>4, <1>5
  <2>3. missed' \subseteq Pool
    BY <1>1, <1>3 DEF Types, ZmqTypes
  <2>4. QED
    BY <1>1, <1>3, <2>1, <2>2, <2>3
    DEF Types, ManagerTypes, ZmqTypes, TransferTypes, managerVars, Processes, Master
<1>14. \A q \in Pool : op'[q] = op[q] /\ agent'[q] = agent[q] /\ stream'[q] = stream[q]
  BY <1>1, <1>3, <1>4
<1>15. QED
  BY <1>1, <1>2, <1>3, <1>8, <1>9, <1>10, <1>11, <1>12, <1>13, <1>14, SenderFrame

\* A copy that the sender's GPU has done leaves the queue.
LEMMA CopyInStep ==
    ASSUME BroadcastIInv, CopyIn
    PROVE  BroadcastIInv'
<1>1. /\ stream[Master] # <<>>
      /\ stream' = [stream EXCEPT ![Master] = Tail(stream[Master])]
      /\ UNCHANGED managerVars
      /\ UNCHANGED <<fill, agent, op, subscribed, missed, mail>>
  BY DEF CopyIn, zmqVars
<1>2. stage = "update"
  BY <1>1, BusyInUpdate, TransferConstants
<1>3. /\ Master \in Processes /\ Master \notin Pool /\ Pool \subseteq Processes
      /\ Members \subseteq Pool /\ subscribed \subseteq Members
      /\ stream[Master] \in Seq(Copies) /\ stream \in [Processes -> Seq(Copies)]
      /\ Types /\ FillInv /\ SenderOK
  BY <1>2, SenderFacts
<1>4. /\ stream'[Master] \in Seq(Copies)
      /\ \A k \in 1..Len(stream'[Master]) :
            k + 1 \in 1..Len(stream[Master]) /\ stream'[Master][k] = stream[Master][k + 1]
      /\ \A q \in Processes \ {Master} : stream'[q] = stream[q]
  BY <1>1, <1>3, TailFacts
<1>5. /\ SentTo' = SentTo /\ FillStart' = FillStart /\ FillPos' = FillPos
      /\ Active(Master)' <=> Active(Master)
  BY <1>1, SentToKept
<1>6. agent[Master].phase = "fill"
  BY <1>1, <1>3 DEF SenderOK
<1>7. SenderOK'
  <2>1. SideOK(Master)'
    BY <1>1, <1>3, <1>4, <1>5 DEF SenderOK, SideOK, Master
  <2>2. QED
    BY <1>1, <1>3, <1>5, <1>6, <2>1 DEF SenderOK, Master
<1>8. FillInv'
  BY <1>1, <1>3 DEF FillInv, managerVars
<1>9. Types'
  <2>1. stream' \in [Processes -> Seq(Copies)]
    BY <1>1, <1>3, <1>4
  <2>2. QED
    BY <1>1, <1>3, <2>1
    DEF Types, ManagerTypes, ZmqTypes, TransferTypes, managerVars, Processes, Master
<1>10. \A q \in Members : MailOK(q)'
  BY <1>1, <1>2, MailKept
<1>11. \A q \in Pool : op'[q] = op[q] /\ agent'[q] = agent[q] /\ stream'[q] = stream[q]
  BY <1>1, <1>3, <1>4
<1>12. QED
  BY <1>1, <1>2, <1>3, <1>5, <1>7, <1>8, <1>9, <1>10, <1>11, SenderFrame

\* The sender ends when its last operation has.
LEMMA FinishSendStep ==
    ASSUME BroadcastIInv, FinishSend
    PROVE  BroadcastIInv'
<1>1. /\ agent[Master].phase = "last" /\ Idle(Master)
      /\ agent' = [agent EXCEPT ![Master].phase = "done"]
      /\ UNCHANGED managerVars
      /\ UNCHANGED <<fill, op, subscribed, missed, mail, stream>>
  BY DEF FinishSend, AwaitOp, zmqVars
<1>2. stage = "update"
  BY <1>1, BusyInUpdate, TransferConstants
<1>3. /\ Master \in Processes /\ Master \notin Pool /\ Pool \subseteq Processes
      /\ Members \subseteq Pool /\ subscribed \subseteq Members
      /\ agent[Master] \in AgentStates /\ agent \in [Processes -> AgentStates]
      /\ op[Master] \in OpStates /\ Types /\ FillInv /\ SenderOK
  BY <1>2, SenderFacts
<1>4. /\ agent'[Master] = [agent[Master] EXCEPT !.phase = "done"]
      /\ \A q \in Processes \ {Master} : agent'[q] = agent[q]
  BY <1>1, <1>3
<1>5. agent'[Master].phase = "done" /\ agent'[Master] \in AgentStates
  BY <1>3, <1>4 DEF AgentStates
<1>6. /\ SentTo' = SentTo /\ FillStart' = FillStart /\ FillPos' = FillPos
      /\ Active(Master)' <=> Active(Master)
  BY <1>1, SentToKept
<1>7. ~Active(Master)
  BY <1>1 DEF Idle, Active
<1>8. stream[Master] = <<>>
  BY <1>1, <1>3 DEF SenderOK
<1>9. SenderOK'
  BY <1>1, <1>3, <1>5, <1>6, <1>7, <1>8 DEF SenderOK, SideOK, Master
<1>10. FillInv'
  BY <1>1, <1>3 DEF FillInv, managerVars
<1>11. Types'
  BY <1>1, <1>3, <1>5
  DEF Types, ManagerTypes, ZmqTypes, TransferTypes, managerVars, Processes, Master
<1>12. \A q \in Members : MailOK(q)'
  BY <1>1, <1>2, MailKept
<1>13. \A q \in Pool : op'[q] = op[q] /\ agent'[q] = agent[q] /\ stream'[q] = stream[q]
  BY <1>1, <1>3, <1>4
<1>14. QED
  BY <1>1, <1>2, <1>3, <1>6, <1>9, <1>10, <1>11, <1>12, <1>13, SenderFrame

\* A chunk that begins where the others end prolongs the chain.
LEMMA ChainAppend ==
    ASSUME NEW s \in Seq(Chunks), NEW t \in Chunks, Chain(s, Pos(t)), IsChunk(t)
    PROVE  /\ Chain(Append(s, t), PosAfter(t))
           /\ \A e : Start(Append(s, t), e) = Start(s, Pos(t))
<1> DEFINE u == Append(s, t)
<1>1. /\ u \in Seq(Chunks) /\ Len(u) = Len(s) + 1 /\ Len(s) \in Nat
      /\ \A k \in 1..Len(s) : u[k] = s[k]
      /\ u[Len(s) + 1] = t /\ u # <<>>
  OBVIOUS
<1> HIDE DEF u
<1>2. ASSUME NEW k \in 1..Len(u)
      PROVE  /\ IsChunk(u[k])
             /\ PosAfter(u[k]) = IF k = Len(u) THEN PosAfter(t) ELSE Pos(u[k + 1])
  <2>1. CASE k = Len(s) + 1
    <3>1. u[k] = t /\ k = Len(u)
      BY <1>1, <2>1
    <3>2. QED
      BY <3>1
  <2>2. CASE k \in 1..Len(s) /\ k = Len(s)
    <3>1. u[k] = s[k] /\ u[k + 1] = t /\ k # Len(u)
      BY <1>1, <2>2
    <3>2. IsChunk(s[k]) /\ PosAfter(s[k]) = Pos(t)
      BY <2>2 DEF Chain
    <3>3. QED
      BY <3>1, <3>2
  <2>3. CASE k \in 1..Len(s) /\ k # Len(s)
    <3>1. k + 1 \in 1..Len(s) /\ k # Len(u)
      BY <1>1, <2>3
    <3>2. u[k] = s[k] /\ u[k + 1] = s[k + 1]
      BY <1>1, <2>3, <3>1
    <3>3. IsChunk(s[k]) /\ PosAfter(s[k]) = Pos(s[k + 1])
      BY <2>3 DEF Chain
    <3>4. QED
      BY <3>1, <3>2, <3>3
  <2>4. QED
    BY <1>1, <2>1, <2>2, <2>3
<1>3. Chain(u, PosAfter(t))
  BY <1>2 DEF Chain
<1>4. ASSUME NEW e PROVE Start(u, e) = Start(s, Pos(t))
  <2>1. Start(u, e) = Pos(u[1])
    BY <1>1 DEF Start
  <2>2. CASE s = <<>>
    <3>1. u[1] = t
      BY <1>1, <2>2
    <3>2. QED
      BY <2>1, <2>2, <3>1 DEF Start
  <2>3. CASE s # <<>>
    <3>1. 1 \in 1..Len(s)
      BY <2>3
    <3>2. u[1] = s[1]
      BY <1>1, <3>1
    <3>3. QED
      BY <2>1, <2>3, <3>2 DEF Start
  <2>4. QED
    BY <2>2, <2>3
<1>5. QED
  BY <1>3, <1>4 DEF u

\* Filling a bucket does not move its start.
LEMMA FillChunkStep ==
    ASSUME BroadcastIInv, FillChunk
    PROVE  BroadcastIInv'
<1> DEFINE t == TensorMeta(weights, fill)
           c == [side |-> agent[Master].side, meta |-> t]
<1>1. /\ stage = "update" /\ agent[Master].phase = "fill"
      /\ MoreChunks(weights, fill) /\ Fits(weights, fill)
      /\ fill' = PutChunk(weights, fill)
      /\ stream' = [stream EXCEPT ![Master] = Append(stream[Master], c)]
      /\ UNCHANGED managerVars
      /\ UNCHANGED <<agent, op, subscribed, missed, mail>>
  BY DEF FillChunk, zmqVars
<1>2. /\ Master \in Processes /\ Master \notin Pool /\ Pool \subseteq Processes
      /\ Members \subseteq Pool /\ subscribed \subseteq Members
      /\ agent[Master] \in AgentStates /\ fill \in FillStates
      /\ stream[Master] \in Seq(Copies) /\ stream \in [Processes -> Seq(Copies)]
      /\ Types /\ FillInv /\ SenderOK
  BY <1>1, SenderFacts
<1>3. /\ t \in Chunks /\ IsChunk(t) /\ Pos(t) = FillPos
      /\ fill' \in FillStates
      /\ fill'.bucket_meta = Append(fill.bucket_meta, t)
      /\ PosAfter(t) = <<fill'.wi, fill'.co>>
      /\ fill'.wi \in 1..Len(weights) + 1
      /\ fill'.wi <= Len(weights) => fill'.co < weights[fill'.wi]
      /\ fill'.wi > Len(weights) => fill'.co = 0
      /\ fill'.co > 0 => weights[fill'.wi] > BucketSize
      /\ \A j \in 1..Len(fill'.bucket_meta) :
            /\ fill'.bucket_meta[j].name <= fill'.wi
            /\ fill'.bucket_meta[j].name = fill'.wi => fill'.offset = BucketSize
  BY <1>1, <1>2, PutFacts
<1>4. c \in Copies /\ c.side = agent[Master].side
  BY <1>2, <1>3 DEF AgentStates, Copies
<1> HIDE DEF t, c
<1>5. FillInv'
  BY <1>1, <1>2, <1>3 DEF FillInv, managerVars
<1>6. fill.bucket_meta \in Seq(Chunks) /\ Chain(fill.bucket_meta, Pos(t))
  BY <1>2, <1>3 DEF FillStates, SenderOK
<1>7. FillPos' = PosAfter(t)
  BY <1>3 DEF FillPos
<1>8. Chain(fill'.bucket_meta, FillPos')
  BY <1>3, <1>6, <1>7, ChainAppend
<1>9. FillStart' = FillStart
  <2>1. FillStart' = Start(fill'.bucket_meta, FillPos')
    BY DEF FillStart, Start
  <2>2. Start(fill'.bucket_meta, FillPos') = Start(fill.bucket_meta, Pos(t))
    BY <1>3, <1>6, ChainAppend
  <2>3. QED
    BY <1>3, <2>1, <2>2 DEF FillStart
<1>10. Active(Master)' <=> Active(Master)
  BY <1>1 DEF Active, Master
<1>11. SentTo' = SentTo
  BY <1>1, <1>9, <1>10 DEF SentTo, SendStart, Start, Master
<1>12. /\ stream'[Master] = Append(stream[Master], c)
       /\ \A q \in Processes \ {Master} : stream'[q] = stream[q]
  BY <1>1, <1>2
<1>13. stream'[Master] \in Seq(Copies)
  BY <1>2, <1>4, <1>12
<1>14. SideOK(Master)'
  <2>1. ASSUME NEW k \in 1..Len(stream'[Master])
        PROVE  stream'[Master][k].side = agent[Master].side
    <3>1. CASE k \in 1..Len(stream[Master])
      <4>1. stream'[Master][k] = stream[Master][k]
        BY <1>2, <1>12, <3>1
      <4>2. QED
        BY <1>2, <3>1, <4>1 DEF SenderOK, SideOK
    <3>2. CASE k = Len(stream[Master]) + 1
      BY <1>2, <1>4, <1>12, <3>2
    <3>3. QED
      BY <1>2, <1>12, <3>1, <3>2
  <2>2. QED
    BY <1>1, <1>2, <1>10, <2>1 DEF SenderOK, SideOK, Master
<1>15. SenderOK'
  BY <1>1, <1>2, <1>8, <1>9, <1>10, <1>14 DEF SenderOK, Master
<1>16. Types'
  <2>1. stream' \in [Processes -> Seq(Copies)]
    BY <1>1, <1>2, <1>12, <1>13
  <2>2. QED
    BY <1>1, <1>2, <1>3, <2>1
    DEF Types, ManagerTypes, ZmqTypes, TransferTypes, managerVars, Processes, Master
<1>17. \A q \in Members : MailOK(q)'
  BY <1>1, MailKept
<1>18. \A q \in Pool : op'[q] = op[q] /\ agent'[q] = agent[q] /\ stream'[q] = stream[q]
  BY <1>1, <1>2, <1>12
<1>19. QED
  BY <1>1, <1>2, <1>5, <1>11, <1>15, <1>16, <1>17, <1>18, SenderFrame

\* A new bucket is empty; the generator is where it was.
LEMMA NewBucketFacts ==
    ASSUME NEW f \in FillStates
    PROVE  /\ NewBucket(f).wi = f.wi /\ NewBucket(f).co = f.co /\ NewBucket(f).offset = 0
           /\ NewBucket(f).bucket_meta = <<>> /\ NewBucket(f) \in FillStates
<1> SUFFICES ASSUME NEW g, g = NewBucket(f)
             PROVE  /\ g.wi = f.wi /\ g.co = f.co /\ g.offset = 0
                    /\ g.bucket_meta = <<>> /\ g \in FillStates
  OBVIOUS
<1>1. g = [wi |-> f.wi, co |-> f.co, offset |-> 0, bucket_meta |-> <<>>]
  BY DEF NewBucket, FillStates
<1>2. f.wi \in Nat /\ f.co \in Nat /\ 0 \in 0..BucketSize /\ <<>> \in Seq(Chunks)
  BY TransferConstants DEF FillStates
<1>3. QED
  BY <1>1, <1>2 DEF FillStates

\* The full bucket becomes the one being sent: what workers have seen of the
\* broadcasts ends where it starts.
LEMMA SendBucketStep ==
    ASSUME BroadcastIInv, SendBucket
    PROVE  BroadcastIInv'
<1> DEFINE n == NewOp(agent[Master].side, Bucket(weights, fill))
<1>1. /\ stage = "update" /\ agent[Master].phase = "fill"
      /\ stream[Master] = <<>> /\ Idle(Master)
      /\ op' = [op EXCEPT ![Master] = n]
      /\ \/ agent' = [agent EXCEPT ![Master].side = 1 - agent[Master].side]
         \/ agent' = [agent EXCEPT ![Master].phase = "last"]
      /\ fill' = NewBucket(fill)
      /\ UNCHANGED managerVars
      /\ UNCHANGED <<subscribed, missed, mail, stream>>
  BY DEF SendBucket, Synchronize, AwaitOp, zmqVars
<1>2. /\ Master \in Processes /\ Master \notin Pool /\ Pool \subseteq Processes
      /\ Members \subseteq Pool /\ subscribed \subseteq Members
      /\ agent[Master] \in AgentStates /\ agent \in [Processes -> AgentStates]
      /\ fill \in FillStates /\ op \in [Processes -> OpStates]
      /\ Types /\ FillInv /\ SenderOK /\ \A q \in Members : WorkerOK(q)
  BY <1>1, SenderFacts
<1>3. /\ fill'.wi = fill.wi /\ fill'.co = fill.co /\ fill'.offset = 0
      /\ fill'.bucket_meta = <<>> /\ fill' \in FillStates
  BY <1>1, <1>2, NewBucketFacts
<1>4. /\ n.state = "meta" /\ n.side = agent[Master].side
      /\ n.meta.bucket_meta = fill.bucket_meta /\ n \in OpStates
  <2>1. agent[Master].side \in {0, 1} /\ fill.bucket_meta \in Seq(Chunks)
    BY <1>2 DEF AgentStates, FillStates
  <2>2. (~MoreChunks(weights, fill)) \in BOOLEAN
    OBVIOUS
  <2>3. Bucket(weights, fill) \in Metas /\ Bucket(weights, fill).bucket_meta = fill.bucket_meta
    BY <2>1, <2>2 DEF Bucket, Metas
  <2>4. QED
    BY <2>1, <2>3 DEF NewOp, OpStates
<1> HIDE DEF n
<1>5. op'[Master] = n /\ \A q \in Processes \ {Master} : op'[q] = op[q]
  BY <1>1, <1>2
<1>6. /\ \A q \in Processes \ {Master} : agent'[q] = agent[q]
      /\ agent'[Master] \in AgentStates /\ agent' \in [Processes -> AgentStates]
      /\ \/ agent'[Master].phase = "fill" /\ agent'[Master].side = 1 - agent[Master].side
         \/ agent'[Master].phase = "last"
  <2>1. CASE agent' = [agent EXCEPT ![Master].side = 1 - agent[Master].side]
    <3>1. 1 - agent[Master].side \in {0, 1}
      BY <1>2 DEF AgentStates
    <3>2. agent'[Master] = [agent[Master] EXCEPT !.side = 1 - agent[Master].side]
      BY <1>2, <2>1
    <3>3. /\ agent'[Master] \in AgentStates /\ agent'[Master].phase = agent[Master].phase
          /\ agent'[Master].side = 1 - agent[Master].side
      BY <1>2, <3>1, <3>2 DEF AgentStates
    <3>4. QED
      BY <1>1, <1>2, <2>1, <3>3
  <2>2. CASE agent' = [agent EXCEPT ![Master].phase = "last"]
    <3>1. agent'[Master] = [agent[Master] EXCEPT !.phase = "last"]
      BY <1>2, <2>2
    <3>2. agent'[Master] \in AgentStates /\ agent'[Master].phase = "last"
      BY <1>2, <3>1 DEF AgentStates
    <3>3. QED
      BY <1>2, <2>2, <3>2
  <2>3. QED
    BY <1>1, <2>1, <2>2
<1>7. ~Active(Master) /\ Active(Master)'
  BY <1>1, <1>4, <1>5 DEF Active, Idle, Master
<1>8. FillPos' = FillPos /\ FillStart' = FillPos
  BY <1>3 DEF FillPos, FillStart, Start
<1>9. SentTo' = SentTo
  <2>1. SentTo' = Start(op'[Master].meta.bucket_meta, FillStart')
    BY <1>7 DEF SentTo, SendStart, Start, Master
  <2>2. SentTo = Start(fill.bucket_meta, FillPos)
    BY <1>7 DEF SentTo, FillStart
  <2>3. QED
    BY <1>4, <1>5, <1>8, <2>1, <2>2
<1>10. SenderOK'
  <2>1. Chain(fill'.bucket_meta, FillPos')
    BY <1>3 DEF Chain
  <2>2. Chain(op'[Master].meta.bucket_meta, FillStart')
    BY <1>2, <1>4, <1>5, <1>8 DEF SenderOK
  <2>3. SideOK(Master)'
    <3>1. agent'[Master].phase = "fill" => op'[Master].side = 1 - agent'[Master].side
      <4>1. n.side \in {0, 1} /\ n.side = agent[Master].side
        BY <1>4 DEF OpStates
      <4>2. QED
        BY <1>5, <1>6, <4>1
    <3>2. Len(stream'[Master]) = 0
      BY <1>1
    <3>3. QED
      BY <3>1, <3>2 DEF SideOK, Master
  <2>4. QED
    BY <1>1, <1>6, <2>1, <2>2, <2>3 DEF SenderOK, Master
<1>11. FillInv'
  BY <1>1, <1>2, <1>3 DEF FillInv, managerVars
<1>12. Types'
  <2>1. op' \in [Processes -> OpStates]
    BY <1>1, <1>2, <1>4
  <2>2. QED
    BY <1>1, <1>2, <1>3, <1>6, <2>1
    DEF Types, ManagerTypes, ZmqTypes, TransferTypes, managerVars, Processes, Master
<1>13. ASSUME NEW q \in Members PROVE MailOK(q)'
  <2>1. op'[q] = op[q] /\ WorkerOK(q)
    BY <1>2, <1>5
  <2>2. op[Master].state # "nccl"
    BY <1>1 DEF Idle
  <2>3. op[q].state # "none" /\ op[q].state # "nccl" /\ mail[q] = <<>>
    BY <2>1, <2>2 DEF WorkerOK, MailOK
  <2>4. QED
    BY <1>1, <1>4, <1>5, <2>1, <2>3 DEF MailOK, Master
<1>14. \A q \in Pool : op'[q] = op[q] /\ agent'[q] = agent[q] /\ stream'[q] = stream[q]
  BY <1>1, <1>2, <1>5, <1>6
<1>15. QED
  BY <1>1, <1>2, <1>9, <1>10, <1>11, <1>12, <1>13, <1>14, SenderFrame

-----------------------------------------------------------------------------
(* Steps of all together *)

\* The broadcast gives every worker the bucket that the sender was in: it starts
\* where the finished broadcasts ended and ends where the next one will start.
LEMMA BroadcastStep ==
    ASSUME BroadcastIInv, Broadcast
    PROVE  BroadcastIInv'
<1>1. /\ \A p \in Everyone : op[p].state = "nccl"
      /\ op' = [p \in Processes |-> IF p \in Everyone
                                    THEN [op[p] EXCEPT !.state = "done"] ELSE op[p]]
      /\ UNCHANGED managerVars
      /\ UNCHANGED <<fill, agent, subscribed, missed, mail, stream>>
  BY DEF Broadcast, Joined, zmqVars
<1>2. Master \in Everyone /\ Members \subseteq Everyone
  BY DEF Everyone
<1>3. op[Master].state = "nccl"
  BY <1>1, <1>2
<1>4. stage = "update"
  BY <1>3, BusyInUpdate, TransferConstants DEF Idle
<1>5. /\ Master \in Processes /\ Master \notin Pool /\ Pool \subseteq Processes
      /\ Members \subseteq Pool /\ subscribed \subseteq Members
      /\ op \in [Processes -> OpStates]
      /\ Types /\ FillInv /\ SenderOK /\ \A q \in Members : WorkerOK(q)
  BY <1>4, SenderFacts
<1>6. Everyone \subseteq Processes
  BY <1>5 DEF Everyone
<1>7. ASSUME NEW q \in Everyone
      PROVE  /\ op'[q].state = "done" /\ op'[q].meta = op[q].meta
             /\ op'[q] \in OpStates
  <2>1. op[q] \in OpStates /\ op'[q] = [op[q] EXCEPT !.state = "done"]
    BY <1>1, <1>5, <1>6
  <2>2. QED
    BY <2>1 DEF OpStates
<1>8. op' \in [Processes -> OpStates]
  <2>1. ASSUME NEW q \in Processes PROVE op'[q] \in OpStates
    <3>1. CASE q \in Everyone
      BY <1>7, <3>1
    <3>2. CASE q \notin Everyone
      BY <1>1, <1>5, <3>2
    <3>3. QED
      BY <3>1, <3>2
  <2>2. op' = [q \in Processes |-> op'[q]]
    BY <1>1
  <2>3. QED
    BY <2>1, <2>2
<1>9. Types'
  BY <1>1, <1>5, <1>8
  DEF Types, ManagerTypes, ZmqTypes, TransferTypes, managerVars, Processes, Master
<1>10. FillInv'
  BY <1>1, <1>5 DEF FillInv, managerVars
<1>11. /\ stage' = "update" /\ Members' = Members /\ Everyone' = Everyone
  BY <1>1, <1>4 DEF managerVars, Members, Everyone
<1>12. FillPos' = FillPos /\ FillStart' = FillStart
  BY <1>1 DEF FillPos, FillStart, Start
<1>13. Active(Master) /\ ~Active(Master)'
  BY <1>2, <1>3, <1>7 DEF Active, Master
<1>14. SentTo = Start(op[Master].meta.bucket_meta, FillStart) /\ SentTo' = FillStart
  BY <1>12, <1>13 DEF SentTo, SendStart
<1>15. Chain(op[Master].meta.bucket_meta, FillStart)
  BY <1>5, <1>13 DEF SenderOK
<1>16. SenderOK'
  BY <1>1, <1>5, <1>12, <1>13 DEF SenderOK, SideOK, Master
<1>17. ASSUME NEW q \in Members PROVE WorkerOK(q)'
  <2>1. /\ op[q].state = "nccl" /\ op'[q].state = "done" /\ op'[q].meta = op[q].meta
        /\ op'[Master].state = "done" /\ WorkerOK(q)
    BY <1>1, <1>2, <1>5, <1>7
  <2>2. op[q].meta = op[Master].meta /\ mail[q] = <<>>
    BY <1>3, <2>1 DEF WorkerOK, MailOK
  <2>3. MailOK(q)'
    BY <1>1, <2>1, <2>2 DEF MailOK, Master
  <2>4. PhaseOK(q)' /\ SideOK(q)'
    BY <1>1, <2>1 DEF WorkerOK, PhaseOK, SideOK, Active, Master
  <2>5. ~Pending(q) /\ Pending(q)'
    BY <1>1, <2>1 DEF WorkerOK, PhaseOK, Active, Pending
  <2>6. BucketEnd(q)' = BucketEnd(q)
    <3>1. BucketEnd(q)' = Start(op'[q].meta.bucket_meta, SentTo')
      BY <2>5 DEF BucketEnd, Start
    <3>2. BucketEnd(q) = SentTo
      BY <2>5 DEF BucketEnd
    <3>3. QED
      BY <1>14, <2>1, <2>2, <3>1, <3>2
  <2>7. MergePos(q)' = MergePos(q)
    BY <1>1, <2>6 DEF MergePos
  <2>8. Chain(op'[q].meta.bucket_meta, SentTo')
    BY <1>14, <1>15, <2>1, <2>2
  <2>9. ChunksOK(q)'
    BY <1>1, <2>1, <2>6, <2>7, <2>8 DEF WorkerOK, ChunksOK
  <2>10. QED
    BY <2>3, <2>4, <2>9 DEF WorkerOK
<1>18. QuietInv'
  <2>1. ASSUME NEW q \in Processes, q \notin Everyone
        PROVE  (Idle(q) /\ stream[q] = <<>> /\ agent[q].phase = "done")'
    <3>1. op'[q] = op[q]
      BY <1>1, <2>1
    <3>2. QED
      BY <1>1, <2>1, <3>1 DEF BroadcastIInv, QuietInv, Idle
  <2>2. QED
    BY <1>1, <1>5, <1>11, <2>1 DEF BroadcastIInv, QuietInv, Processes, Master
<1>19. QED
  BY <1>9, <1>10, <1>11, <1>16, <1>17, <1>18 DEF BroadcastIInv, UpdateInv

\* Outside an update the processes are at rest, whatever the manager does.
LEMMA RestStep ==
    ASSUME BroadcastIInv, Types', stage' # "update",
           UNCHANGED <<weights, fill, agent, op, mail, stream>>,
           \A p \in Processes : Idle(p) /\ stream[p] = <<>> /\ agent[p].phase = "done",
           \A p \in Pool : mail[p] = <<>>
    PROVE  BroadcastIInv'
<1>1. FillInv'
  BY DEF BroadcastIInv, FillInv
<1>2. QuietInv'
  BY DEF QuietInv, Idle, Processes, Master
<1>3. QED
  BY <1>1, <1>2 DEF BroadcastIInv, UpdateInv

\* Adding and removing workers, and giving up on a group, happen at rest.
LEMMA ManagerRestStep ==
    ASSUME BroadcastIInv,
           InitGivesUp \/ \E p \in Pool : AddReplicas(p) \/ RemoveReplicas(p)
    PROVE  BroadcastIInv'
<1>1. /\ stage = "idle" /\ stage' \in {"idle", "hung", "failed"}
      /\ UNCHANGED <<weights, version, group, fill, agent, op, subscribed, mail, missed,
                     stream>>
  BY DEF InitGivesUp, AddReplicas, RemoveReplicas, zmqVars
<1>2. replicas \in Seq(Pool) /\ Types
  BY DEF BroadcastIInv, Types, ManagerTypes
<1>3. replicas' \in Seq(Pool)
  <2>1. CASE InitGivesUp
    BY <1>2, <2>1 DEF InitGivesUp
  <2>2. CASE \E p \in Pool : AddReplicas(p)
    BY <1>2, <2>2 DEF AddReplicas
  <2>3. CASE \E p \in Pool : RemoveReplicas(p)
    <3>1. PICK k \in 1..Len(replicas) :
             replicas' = SubSeq(replicas, 1, k - 1)
                           \o SubSeq(replicas, k + 1, Len(replicas))
      BY <2>3 DEF RemoveReplicas
    <3>2. /\ SubSeq(replicas, 1, k - 1) \in Seq(Pool)
          /\ SubSeq(replicas, k + 1, Len(replicas)) \in Seq(Pool)
      BY <1>2
    <3>3. QED
      BY <3>1, <3>2
  <2>4. QED
    BY <2>1, <2>2, <2>3
<1>4. Types'
  BY <1>1, <1>2, <1>3
  DEF Types, ManagerTypes, ZmqTypes, TransferTypes, Processes, Master
<1>5. /\ \A p \in Processes : Idle(p) /\ stream[p] = <<>> /\ agent[p].phase = "done"
      /\ \A p \in Pool : mail[p] = <<>>
  BY <1>1 DEF BroadcastIInv, QuietInv
<1>6. QED
  BY <1>1, <1>4, <1>5, RestStep

\* When all have finished, nothing is on its way any more.
LEMMA FinalizeStep ==
    ASSUME BroadcastIInv, Finalize
    PROVE  BroadcastIInv'
<1>1. /\ stage = "update" /\ stage' = "idle"
      /\ \A p \in Everyone : agent[p].phase = "done"
      /\ group' = [p \in Processes |->
                      IF rebuild_group /\ p \in Everyone THEN NoGroup ELSE group[p]]
      /\ UNCHANGED <<weights, replicas, version, fill, agent, op, subscribed, mail,
                     missed, stream>>
  BY DEF Finalize, zmqVars
<1>2. /\ Types /\ SenderOK /\ \A q \in Members : WorkerOK(q)
      /\ Members \subseteq Pool /\ Master \in Processes
      /\ op \in [Processes -> OpStates]
  BY <1>1, SenderFacts
<1>3. Types'
  <2>1. group \in [Processes -> [rank : Nat \cup {-1}, world_size : Nat, age : Nat]]
    BY <1>2 DEF Types, ManagerTypes
  <2>2. NoGroup \in [rank : Nat \cup {-1}, world_size : Nat, age : Nat]
    BY DEF NoGroup
  <2>3. group' \in [Processes -> [rank : Nat \cup {-1}, world_size : Nat, age : Nat]]
    BY <1>1, <2>1, <2>2
  <2>4. QED
    BY <1>1, <1>2, <2>3
    DEF Types, ManagerTypes, ZmqTypes, TransferTypes, Processes, Master
<1>4. Everyone = {Master} \cup Members
  BY DEF Everyone
<1>5. Idle(Master) /\ stream[Master] = <<>> /\ agent[Master].phase = "done"
  <2>1. op[Master] \in OpStates
    BY <1>2
  <2>2. agent[Master].phase = "done"
    BY <1>1, <1>4
  <2>3. ~Active(Master) /\ stream[Master] = <<>>
    BY <1>2, <2>2 DEF SenderOK
  <2>4. QED
    BY <2>1, <2>2, <2>3 DEF Idle, Active, OpStates
<1>6. ASSUME NEW q \in Members
      PROVE  /\ Idle(q) /\ stream[q] = <<>> /\ agent[q].phase = "done"
             /\ mail[q] = <<>>
  <2>1. agent[q].phase = "done" /\ WorkerOK(q) /\ op[q] \in OpStates
    BY <1>1, <1>2, <1>4, TransferConstants
  <2>2. stream[q] = <<>> /\ ~Active(q)
    BY <2>1 DEF WorkerOK, PhaseOK
  <2>3. mail[q] = <<>>
    BY <1>5, <2>1 DEF WorkerOK, MailOK, Idle
  <2>4. QED
    BY <2>1, <2>2, <2>3 DEF Idle, Active, OpStates
<1>7. \A p \in Processes : Idle(p) /\ stream[p] = <<>> /\ agent[p].phase = "done"
  BY <1>4, <1>5, <1>6 DEF BroadcastIInv, QuietInv
<1>8. \A p \in Pool : mail[p] = <<>>
  BY <1>6 DEF BroadcastIInv, QuietInv
<1>9. QED
  BY <1>1, <1>3, <1>7, <1>8, RestStep

-----------------------------------------------------------------------------
(* The start of an update, and the invariant as a whole *)

\* How every process starts.
LEMMA FreshFacts ==
    ASSUME NEW p \in Processes
    PROVE  /\ Fresh(p) \in AgentStates /\ Fresh(p).side = 0
           /\ Fresh(p).phase = IF p = Master THEN "fill" ELSE "first"
           /\ Fresh(p).merge = StartMerge
           /\ [Fresh(p) EXCEPT !.phase = "done"] \in AgentStates
           /\ [Fresh(p) EXCEPT !.phase = "done"].phase = "done"
<1>1. NoBucket \in Metas
  BY DEF NoBucket, Metas
<1>2. StartMerge \in [name : Nat, offset : Nat, loaded : Seq(Nat)]
  BY DEF StartMerge
<1>3. [Fresh(p) EXCEPT !.phase = "done"] =
         [phase |-> "done", side |-> 0, meta |-> NoBucket, done |-> 0, merge |-> StartMerge]
  BY DEF Fresh
<1>4. [Fresh(p) EXCEPT !.phase = "done"] \in AgentStates
      /\ [Fresh(p) EXCEPT !.phase = "done"].phase = "done"
  BY <1>1, <1>2, <1>3 DEF AgentStates
<1>5. QED
  BY <1>1, <1>2, <1>4 DEF Fresh, AgentStates

\* The operations an update starts with.
LEMMA FreshOps ==
    /\ NoOp \in OpStates /\ NoOp.state = "none"
    /\ NewOp(1, NoBucket) \in OpStates /\ NewOp(1, NoBucket).state = "meta"
    /\ NewOp(1, NoBucket).side = 1
<1>1. NoBucket \in Metas
  BY DEF NoBucket, Metas
<1>2. QED
  BY <1>1 DEF NoOp, NewOp, OpStates

\* The generator starts at the first weight.
LEMMA FreshFill ==
    ASSUME weights \in Seq(Nat \ {0}), fill = StartFill
    PROVE  FillInv /\ fill \in FillStates /\ Chain(fill.bucket_meta, FillPos)
           /\ FillPos = <<1, 0>> /\ FillStart = <<1, 0>>
<1>1. /\ fill.wi = 1 /\ fill.co = 0 /\ fill.offset = 0 /\ fill.bucket_meta = <<>>
      /\ fill \in FillStates
  BY TransferConstants DEF StartFill, FillStates
<1>2. Len(weights) \in Nat /\ \A k \in 1..Len(weights) : weights[k] \in Nat \ {0}
  OBVIOUS
<1>3. FillInv
  BY <1>1, <1>2 DEF FillInv
<1>4. QED
  BY <1>1, <1>3 DEF Chain, FillPos, FillStart, Start

\* The same of a step that starts it.
LEMMA FreshFillNext ==
    ASSUME weights \in Seq(Nat \ {0}), weights' = weights, fill' = StartFill
    PROVE  FillInv' /\ fill' \in FillStates /\ Chain(fill'.bucket_meta, FillPos')
           /\ FillPos' = <<1, 0>> /\ FillStart' = <<1, 0>>
<1>1. /\ fill'.wi = 1 /\ fill'.co = 0 /\ fill'.offset = 0 /\ fill'.bucket_meta = <<>>
      /\ fill' \in FillStates
  BY TransferConstants DEF StartFill, FillStates
<1>2. Len(weights) \in Nat /\ \A k \in 1..Len(weights) : weights[k] \in Nat \ {0}
  OBVIOUS
<1>3. FillInv'
  BY <1>1, <1>2 DEF FillInv
<1>4. QED
  BY <1>1, <1>3 DEF Chain, FillPos, FillStart, Start

\* init_process_group gives a member its rank.
LEMMA GroupAfterType ==
    ASSUME Types, version < MaxUpdates, NEW p \in Everyone
    PROVE  GroupAfter(p) \in [rank : Nat \cup {-1}, world_size : Nat, age : Nat]
<1>1. replicas \in Seq(Pool) /\ Len(replicas) \in Nat /\ version \in Nat
      /\ group \in [Processes -> [rank : Nat \cup {-1}, world_size : Nat, age : Nat]]
  BY TransferConstants DEF Types, ManagerTypes
<1>2. p \in Processes
  BY <1>1, MembersFacts
<1>3. RankOf(p) \in Nat
  <2>1. CASE p = Master
    BY <2>1 DEF RankOf
  <2>2. CASE p # Master
    <3>1. \E k \in 1..Len(replicas) : replicas[k] = p
      BY <2>2 DEF Everyone, Members
    <3>2. (CHOOSE k \in 1..Len(replicas) : replicas[k] = p) \in 1..Len(replicas)
      BY <3>1
    <3>3. QED
      BY <1>1, <2>2, <3>2 DEF RankOf
  <2>3. QED
    BY <2>1, <2>2
<1>4. WorldSize \in Nat
  BY <1>1 DEF WorldSize
<1>5. CASE MustInit(p)
  <2>1. GroupAfter(p) = [rank |-> RankOf(p), world_size |-> WorldSize, age |-> version + 1]
    BY <1>5 DEF GroupAfter
  <2>2. QED
    BY <1>1, <1>3, <1>4, <2>1
<1>6. CASE ~MustInit(p)
  BY <1>1, <1>2, <1>6 DEF GroupAfter
<1>7. QED
  BY <1>5, <1>6

\* An update starts with empty buckets, sockets and queues.
LEMMA BeginUpdateStep ==
    ASSUME BroadcastIInv, BeginUpdate
    PROVE  BroadcastIInv'
<1>1. /\ stage = "idle" /\ version < MaxUpdates /\ stage' = "update"
      /\ version' = version + 1
      /\ group' = [p \in Processes |-> IF p \in Everyone THEN GroupAfter(p) ELSE group[p]]
      /\ fill' = StartFill
      /\ agent' = [p \in Processes |-> IF p \in Everyone THEN Fresh(p) ELSE agent[p]]
      /\ op' = [p \in Processes |-> IF p \in Members THEN NewOp(1, NoBucket) ELSE NoOp]
      /\ subscribed' = {}
      /\ mail' = [p \in Pool |-> <<>>]
      /\ UNCHANGED <<weights, replicas, missed, stream>>
  BY DEF BeginUpdate
<1>2. Types /\ replicas \in Seq(Pool) /\ agent \in [Processes -> AgentStates]
      /\ version \in 0..MaxUpdates
      /\ group \in [Processes -> [rank : Nat \cup {-1}, world_size : Nat, age : Nat]]
  BY DEF BroadcastIInv, Types, ManagerTypes, TransferTypes
<1>3. /\ Members \subseteq Pool /\ Master \notin Members /\ Master \in Processes
      /\ Everyone = {Master} \cup Members /\ Everyone \subseteq Processes
      /\ Pool \subseteq Processes
  BY <1>2, MembersFacts
<1>4. Members' = Members /\ Everyone' = Everyone
  BY <1>1 DEF Members, Everyone
<1>5. \A p \in Processes : stream[p] = <<>> /\ agent[p].phase = "done"
  BY <1>1 DEF BroadcastIInv, QuietInv
<1>6. /\ FillInv' /\ fill' \in FillStates /\ Chain(fill'.bucket_meta, FillPos')
      /\ FillPos' = <<1, 0>> /\ FillStart' = <<1, 0>>
  <2>1. weights \in Seq(Nat \ {0})
    BY DEF BroadcastIInv, FillInv
  <2>2. QED
    BY <1>1, <2>1, FreshFillNext
<1>7. /\ agent'[Master].phase = "fill" /\ op'[Master].state = "none"
      /\ stream'[Master] = <<>>
  BY <1>1, <1>3, <1>5, FreshFacts, FreshOps
<1>8. ~Active(Master)'
  BY <1>7 DEF Active, Master
<1>9. SentTo' = <<1, 0>>
  BY <1>6, <1>8 DEF SentTo
<1>10. SenderOK'
  <2>1. Len(stream'[Master]) = 0
    BY <1>7
  <2>2. SideOK(Master)'
    BY <1>8, <2>1 DEF SideOK, Master
  <2>3. QED
    BY <1>6, <1>7, <1>8, <2>2 DEF SenderOK, Master
<1>11. ASSUME NEW q \in Members PROVE WorkerOK(q)'
  <2>1. q \in Processes /\ q \in Everyone /\ q \in Pool /\ q # Master
    BY <1>3
  <2>2. /\ agent'[q].phase = "first" /\ agent'[q].side = 0
        /\ agent'[q].merge = StartMerge
    BY <1>1, <2>1, FreshFacts
  <2>3. op'[q].state = "meta" /\ op'[q].side = 1
    BY <1>1, <2>1, FreshOps
  <2>4. stream'[q] = <<>> /\ mail'[q] = <<>> /\ Len(stream'[q]) = 0
    BY <1>1, <1>5, <2>1
  <2>5. MailOK(q)'
    BY <1>7, <2>3, <2>4 DEF MailOK, Master
  <2>6. PhaseOK(q)'
    BY <2>2, <2>4 DEF PhaseOK
  <2>7. SideOK(q)'
    BY <2>2, <2>3, <2>4 DEF SideOK
  <2>8. ChunksOK(q)'
    <3>1. ~Pending(q)'
      BY <2>3 DEF Pending
    <3>2. MergePos(q)' = <<1, 0>>
      BY <1>9, <2>2, <3>1 DEF MergePos, BucketEnd
    <3>3. Agrees(agent'[q].merge, <<1, 0>>)
      BY <2>2 DEF Agrees, StartMerge
    <3>4. QED
      BY <2>2, <2>3, <3>2, <3>3 DEF ChunksOK
  <2>9. QED
    BY <2>5, <2>6, <2>7, <2>8 DEF WorkerOK
<1>12. Types'
  <2>1. agent' \in [Processes -> AgentStates]
    <3>1. \A q \in Processes : agent'[q] \in AgentStates
      BY <1>1, <1>2, FreshFacts
    <3>2. QED
      BY <1>1, <3>1
  <2>2. op' \in [Processes -> OpStates]
    BY <1>1, FreshOps
  <2>3. group' \in [Processes -> [rank : Nat \cup {-1}, world_size : Nat, age : Nat]]
    <3>1. \A q \in Processes : group'[q] \in [rank : Nat \cup {-1}, world_size : Nat, age : Nat]
      BY <1>1, <1>2, GroupAfterType
    <3>2. QED
      BY <1>1, <3>1
  <2>4. version' \in 0..MaxUpdates
    BY <1>1, <1>2, TransferConstants
  <2>5. mail' \in [Pool -> Seq(Metas)]
    BY <1>1
  <2>6. QED
    BY <1>1, <1>2, <1>6, <2>1, <2>2, <2>3, <2>4, <2>5
    DEF Types, ManagerTypes, ZmqTypes, TransferTypes, Processes, Master
<1>13. QuietInv'
  <2>1. ASSUME NEW q \in Processes, q \notin Everyone
        PROVE  (Idle(q) /\ stream[q] = <<>> /\ agent[q].phase = "done")'
    <3>1. op'[q].state = "none"
      BY <1>1, <1>3, <2>1, FreshOps
    <3>2. agent'[q] = agent[q] /\ stream'[q] = stream[q]
      BY <1>1, <2>1
    <3>3. QED
      BY <1>5, <3>1, <3>2 DEF Idle
  <2>2. QED
    BY <1>1, <1>4, <2>1 DEF QuietInv, Processes, Master
<1>14. QED
  BY <1>4, <1>6, <1>10, <1>11, <1>12, <1>13 DEF BroadcastIInv, UpdateInv

\* The invariant holds before the first update.
LEMMA BroadcastInit == Init => BroadcastIInv
<1> SUFFICES ASSUME Init PROVE BroadcastIInv
  OBVIOUS
<1>1. weights \in Seq(Nat \ {0}) /\ fill = StartFill
  BY NcclAssumption DEF Init
<1>2. FillInv /\ fill \in FillStates
  BY <1>1, FreshFill
<1>3. /\ stage = "idle" /\ version = 0 /\ subscribed = {} /\ missed = {}
      /\ group = [p \in Processes |-> NoGroup]
      /\ agent = [p \in Processes |-> [Fresh(p) EXCEPT !.phase = "done"]]
      /\ op = [p \in Processes |-> NoOp]
      /\ mail = [p \in Pool |-> <<>>]
      /\ stream = [p \in Processes |-> <<>>]
      /\ \E p \in Pool : replicas = <<p>>
  BY DEF Init
<1>4. /\ agent \in [Processes -> AgentStates]
      /\ \A p \in Processes : agent[p].phase = "done"
  BY <1>3, FreshFacts
<1>5. op \in [Processes -> OpStates] /\ \A p \in Processes : Idle(p)
  BY <1>3, FreshOps DEF Idle
<1>6. Types
  <2>1. group \in [Processes -> [rank : Nat \cup {-1}, world_size : Nat, age : Nat]]
    BY <1>3 DEF NoGroup
  <2>2. mail \in [Pool -> Seq(Metas)] /\ stream \in [Processes -> Seq(Copies)]
    BY <1>3
  <2>3. replicas \in Seq(Pool) /\ version \in 0..MaxUpdates
    BY <1>3, TransferConstants
  <2>4. QED
    BY <1>2, <1>3, <1>4, <1>5, <2>1, <2>2, <2>3
    DEF Types, ManagerTypes, ZmqTypes, TransferTypes
<1>7. QuietInv
  BY <1>3, <1>4, <1>5 DEF QuietInv
<1>8. QED
  BY <1>2, <1>3, <1>6, <1>7 DEF BroadcastIInv, UpdateInv

\* Every step keeps the invariant.
LEMMA BroadcastNext == BroadcastIInv /\ [Next]_vars => BroadcastIInv'
<1> SUFFICES ASSUME BroadcastIInv, [Next]_vars PROVE BroadcastIInv'
  OBVIOUS
<1>1. CASE UNCHANGED vars
  <2>1. UNCHANGED <<weights, replicas, stage, version, group, fill, agent, op, subscribed,
                    mail, missed, stream>>
    BY <1>1 DEF vars, managerVars, zmqVars
  <2>2. Members' = Members /\ Everyone' = Everyone
    BY <2>1 DEF Members, Everyone
  <2>3. Types' /\ FillInv' /\ QuietInv'
    BY <2>1, <2>2
    DEF BroadcastIInv, Types, ManagerTypes, ZmqTypes, TransferTypes, FillInv, QuietInv,
        Idle, Processes, Master
  <2>4. /\ SentTo' = SentTo /\ FillStart' = FillStart /\ FillPos' = FillPos
        /\ Active(Master)' <=> Active(Master)
    BY <2>1, SentToKept
  <2>5. stage = "update" => SenderOK'
    BY <2>1, <2>4 DEF BroadcastIInv, UpdateInv, SenderOK, SideOK, Master
  <2>6. stage = "update" => \A q \in Members : WorkerOK(q)'
    BY <2>1, <2>4, WorkerKept DEF BroadcastIInv, UpdateInv
  <2>7. QED
    BY <2>1, <2>2, <2>3, <2>5, <2>6 DEF BroadcastIInv, UpdateInv
<1>2. CASE BeginUpdate \/ Finalize \/ InitGivesUp
  BY <1>2, BeginUpdateStep, FinalizeStep, ManagerRestStep
<1>3. CASE SenderStep \/ CopyIn \/ PublishMeta \/ Broadcast
  BY <1>3, FillChunkStep, SendBucketStep, FinishSendStep, CopyInStep, PublishMetaStep,
     BroadcastStep DEF SenderStep
<1>4. CASE \E p \in Pool : \/ AddReplicas(p) \/ RemoveReplicas(p)
                           \/ Subscribe(p) \/ ReceiveMeta(p) \/ CopyOut(p)
  BY <1>4, ManagerRestStep, SubscribeStep, ReceiveMetaStep, CopyOutStep
<1>5. CASE \E p \in Pool : p \in Members /\ Step(p)
  BY <1>5, FirstBucketStep, ReceiveNextStep, YieldChunkStep, EndRoundStep,
     FinishReceiveStep DEF Step
<1>6. QED
  BY <1>1, <1>2, <1>3, <1>4, <1>5 DEF Next

\* What the invariant says of the assertions in the code.
LEMMA BroadcastFromInv == BroadcastIInv => BroadcastInv
<1> SUFFICES ASSUME BroadcastIInv PROVE BroadcastInv
  OBVIOUS
<1>1. Types /\ TypeOK /\ replicas \in Seq(Pool)
  BY TypesAreTypeOK DEF BroadcastIInv, Types, ManagerTypes
<1>2. /\ Members \subseteq Pool /\ Master \notin Members /\ Master \in Processes
      /\ Everyone = {Master} \cup Members /\ Everyone \subseteq Processes
  BY <1>1, MembersFacts
<1>3. MetadataMatchesBucket
  <2> SUFFICES ASSUME NEW p \in Members, op[p].state = "nccl"
               PROVE  op[Master].state = "nccl" /\ op[p].meta = op[Master].meta
    BY DEF MetadataMatchesBucket
  <2>1. stage = "update"
    BY <1>2, BusyInUpdate DEF Idle
  <2>2. QED
    BY <2>1, WorkerFacts DEF WorkerOK, MailOK
<1>4. BufferExclusive
  <2> SUFFICES ASSUME NEW p \in Everyone, op[p].state \in {"meta", "nccl"},
                      NEW k \in 1..Len(stream[p])
               PROVE  stream[p][k].side # op[p].side
    BY DEF BufferExclusive
  <2>1. stage = "update" /\ Active(p)
    BY <1>2, BusyInUpdate DEF Idle, Active
  <2>2. agent[p] \in AgentStates
    BY <1>1, <1>2 DEF Types, TransferTypes
  <2>3. SideOK(p)
    BY <1>2, <2>1 DEF BroadcastIInv, UpdateInv, SenderOK, WorkerOK
  <2>4. p = Master => agent[p].phase = "fill"
    <3>1. ASSUME p = Master, agent[p].phase # "fill" PROVE FALSE
      <4>1. stream[p] = <<>>
        BY <2>1, <3>1 DEF BroadcastIInv, UpdateInv, SenderOK
      <4>2. QED
        BY <4>1
    <3>2. QED
      BY <3>1
  <2>5. stream[p][k].side = agent[p].side /\ op[p].side = 1 - agent[p].side
    BY <2>1, <2>3, <2>4 DEF SideOK
  <2>6. agent[p].side \in {0, 1}
    BY <2>2 DEF AgentStates
  <2>7. QED
    BY <2>5, <2>6
<1>5. NoAssertionFails
  <2>1. ASSUME MoreChunks(weights, fill), Fits(weights, fill)
        PROVE  FillAsserts(weights, fill)
    BY <1>1, <2>1, PutFacts DEF BroadcastIInv, Types, TransferTypes
  <2>2. ASSUME NEW p \in Members, agent[p].phase = "yield", ~Yielded(p)
        PROVE  MergeAsserts(agent[p].merge, agent[p].meta.bucket_meta[agent[p].done + 1])
    <3> DEFINE s == agent[p].meta.bucket_meta
    <3>1. stage = "update"
      BY <1>2, <2>2, BusyInUpdate
    <3>2. WorkerOK(p) /\ agent[p] \in AgentStates
      BY <3>1, WorkerFacts
    <3>3. /\ agent[p].done \in Nat /\ s \in Seq(Chunks)
          /\ agent[p].merge \in [name : Nat, offset : Nat, loaded : Seq(Nat)]
      BY <3>2 DEF AgentStates, Metas
    <3>4. /\ agent[p].done <= Len(s) /\ Chain(s, BucketEnd(p))
          /\ Agrees(agent[p].merge, MergePos(p))
      BY <2>2, <3>2 DEF WorkerOK, ChunksOK
    <3>5. agent[p].done # Len(s)
      BY <2>2 DEF Yielded
    <3>6. agent[p].done < Len(s) /\ agent[p].done + 1 \in 1..Len(s)
      BY <3>3, <3>4, <3>5
    <3>7. s[agent[p].done + 1] \in Chunks /\ IsChunk(s[agent[p].done + 1])
      BY <3>3, <3>4, <3>6 DEF Chain
    <3>8. Agrees(agent[p].merge, Pos(s[agent[p].done + 1]))
      BY <2>2, <3>4, <3>6 DEF MergePos
    <3>9. QED
      BY <3>3, <3>7, <3>8, MergeFacts
  <2>3. QED
    BY <2>1, <2>2 DEF NoAssertionFails
<1>6. QED
  BY <1>1, <1>3, <1>4, <1>5 DEF BroadcastInv

\* Whatever the order in which the threads, the GPU, NCCL and ZeroMQ proceed,
\* and even when a subscription came too late: a worker that joins a broadcast
\* has the metadata of that bucket, nobody touches a buffer in use, and the
\* assertions of the packing loop and of merge_weight_chunks hold.
THEOREM BroadcastsAreSound == Spec => []BroadcastInv
<1>1. QED
  BY BroadcastInit, BroadcastNext, BroadcastFromInv, PTL DEF Spec

-----------------------------------------------------------------------------
(* The bytes.  What a worker's server has got so far, what is queued and   *)
(* what is in the buffers make up the weights of the update.  These are    *)
(* operators of values: w the sizes of the weights, v the update, s chunks *)
(* of a bucket, q queued copies, g what a server has got.                  *)

Bytes == Nat \X Nat \X Nat
Buffers == [0..BucketSize - 1 -> Bytes]

\* The chunk is one of a weight of the model and lies in the bucket.
Real(w, t) ==
    /\ t.name \in 1..Len(w) /\ t.nbytes = w[t.name]
    /\ t.offset + t.chunk_size <= BucketSize

\* Buffer buf has the bytes of chunk t where the metadata says.
Holds(v, buf, t) ==
    \A o \in t.offset..t.offset + t.chunk_size - 1 :
        buf[o] = Byte(v, t.name, t.chunk_offset + o - t.offset)

Held(w, v, buf, s) == \A k \in 1..Len(s) : Real(w, s[k]) /\ Holds(v, buf, s[k])

\* Chunks lie in the bucket one after the other, up to end.
Packed(s, end) ==
    \A k \in 1..Len(s) :
        /\ s[k].offset + s[k].chunk_size <= end
        /\ \A j \in 1..k - 1 : s[j].offset + s[j].chunk_size <= s[k].offset

\* The chunks queued for copying are the last ones of the bucket, and those
\* before them are in the buffer.
Copying(w, v, buf, s, q) ==
    /\ Len(s) >= Len(q)
    /\ \A k \in 1..Len(s) : Real(w, s[k])
    /\ \A k \in 1..Len(q) : q[k].meta = s[Len(s) - Len(q) + k]
    /\ \A k \in 1..Len(s) - Len(q) : Holds(v, buf, s[k])

\* The metadata of queued copies.
Metadata(q) == [k \in 1..Len(q) |-> q[k].meta]

\* Of every weight g has the bytes before place e.
Content(v, n, len) == [k \in 1..len |-> Byte(v, n, k - 1)]
Upto(w, n, e) == IF n < e[1] THEN w[n] ELSE IF n = e[1] THEN e[2] ELSE 0
Received(w, v, g, e) == \A n \in 1..Len(w) : g[n] = Content(v, n, Upto(w, n, e))

\* The place behind the last weight.
EndOf(w) == <<Len(w) + 1, 0>>

\* What a server has after a copy of chunk t.
Copied(g, buf, t) == [g EXCEPT ![t.name] = @ \o Slice(buf, t.offset, t.chunk_size)]

Sizes == Seq(Nat \ {0})
Servers(w) == [1..Len(w) -> Seq(Bytes)]

\* A chunk is not empty and lies in its weight.
LEMMA ChunkFacts ==
    ASSUME NEW w \in Sizes, NEW t \in Chunks, IsChunk(t), Real(w, t)
    PROVE  /\ t.name \in 1..Len(w) /\ w[t.name] \in Nat /\ t.nbytes = w[t.name]
           /\ t.chunk_offset \in Nat /\ t.chunk_size \in Nat /\ t.offset \in Nat
           /\ t.chunk_size >= 1 /\ t.chunk_offset + t.chunk_size <= w[t.name]
           /\ t.offset + t.chunk_size <= BucketSize
<1>1. /\ t.name \in 1..Len(w) /\ t.nbytes = w[t.name]
      /\ t.offset + t.chunk_size <= BucketSize
  BY DEF Real
<1>2. /\ t.nbytes \in Nat /\ t.chunk_offset \in Nat /\ t.chunk_size \in Nat /\ t.offset \in Nat
  BY DEF Chunks
<1>3. /\ t.chunk_offset < t.nbytes
      /\ t.chunk_size = IF t.nbytes - t.chunk_offset < BucketSize
                        THEN t.nbytes - t.chunk_offset ELSE BucketSize
  BY DEF IsChunk
<1>4. t.chunk_size >= 1 /\ t.chunk_offset + t.chunk_size <= t.nbytes
  BY <1>2, <1>3, TransferConstants
<1>5. QED
  BY <1>1, <1>2, <1>4

\* Contents are sequences of bytes.
LEMMA ContentFacts ==
    ASSUME NEW v \in Nat, NEW n \in Nat, NEW len \in Nat
    PROVE  Content(v, n, len) \in Seq(Bytes) /\ Len(Content(v, n, len)) = len
<1>1. \A k \in 1..len : Byte(v, n, k - 1) \in Bytes
  BY DEF Byte, Bytes
<1> DEFINE b(k) == Byte(v, n, k - 1)
<1>2. \A k \in 1..len : b(k) \in Bytes
  BY <1>1
<1> HIDE DEF b
<1>3. [k \in 1..len |-> b(k)] \in Seq(Bytes) /\ Len([k \in 1..len |-> b(k)]) = len
  BY <1>2
<1>4. QED
  BY <1>3 DEF Content, b

\* What a chunk adds to the contents before it.
LEMMA ContentGrows ==
    ASSUME NEW v \in Nat, NEW t \in Chunks, NEW buf, Holds(v, buf, t)
    PROVE  Content(v, t.name, t.chunk_offset) \o Slice(buf, t.offset, t.chunk_size)
             = Content(v, t.name, t.chunk_offset + t.chunk_size)
<1> DEFINE n == t.name
           a == t.chunk_offset
           size == t.chunk_size
           o == t.offset
<1>0. /\ n \in Nat /\ a \in Nat /\ size \in Nat /\ o \in Nat
      /\ \A i \in o..o + size - 1 : buf[i] = Byte(v, n, a + i - o)
  BY DEF Chunks, Holds
<1> HIDE DEF n, a, size, o
<1> USE <1>0
<1> DEFINE c == Content(v, n, a)
           d == Content(v, n, a + size)
           s == Slice(buf, o, size)
<1>1. c \in Seq(Bytes) /\ Len(c) = a /\ d \in Seq(Bytes) /\ Len(d) = a + size
  BY ContentFacts
<1>2. ASSUME NEW k \in 1..size PROVE s[k] = Byte(v, n, a + k - 1) /\ s[k] \in Bytes
  <2>1. s[k] = buf[o + k - 1] /\ o + k - 1 \in o..o + size - 1
    BY DEF Slice
  <2>2. buf[o + k - 1] = Byte(v, n, a + (o + k - 1) - o)
    BY <2>1
  <2>3. a + (o + k - 1) - o = a + k - 1 /\ a + k - 1 \in Nat
    OBVIOUS
  <2>4. s[k] = Byte(v, n, a + k - 1)
    BY <2>1, <2>2, <2>3
  <2>5. QED
    BY <2>3, <2>4 DEF Byte, Bytes
<1>3. s \in Seq(Bytes) /\ Len(s) = size
  <2>1. s = [k \in 1..size |-> s[k]]
    BY DEF Slice
  <2> HIDE DEF s
  <2>2. QED
    BY <1>2, <2>1
<1>4. /\ c \o s \in Seq(Bytes) /\ Len(c \o s) = a + size
      /\ \A k \in 1..a + size : (c \o s)[k] = IF k <= a THEN c[k] ELSE s[k - a]
  <2> HIDE DEF c, s
  <2>1. QED
    BY <1>1, <1>3
<1>5. ASSUME NEW k \in 1..a + size PROVE (c \o s)[k] = d[k]
  <2>1. d[k] = Byte(v, n, k - 1)
    BY DEF Content
  <2>2. CASE k <= a
    <3>1. k \in 1..a
      BY <2>2
    <3>2. c[k] = Byte(v, n, k - 1)
      BY <3>1 DEF Content
    <3> HIDE DEF c, d, s
    <3>3. QED
      BY <1>4, <2>1, <2>2, <3>2
  <2>3. CASE k > a
    <3>1. k - a \in 1..size /\ a + (k - a) - 1 = k - 1 /\ ~(k <= a)
      BY <2>3
    <3>2. s[k - a] = Byte(v, n, k - 1)
      BY <1>2, <3>1
    <3> HIDE DEF c, d, s
    <3>3. QED
      BY <1>4, <2>1, <3>1, <3>2
  <2>4. k <= a \/ k > a
    OBVIOUS
  <2>5. QED
    BY <2>2, <2>3, <2>4
<1> HIDE DEF c, d, s
<1>6. c \o s = d
  BY <1>1, <1>4, <1>5
<1>7. QED
  BY <1>6 DEF c, d, s, n, a, size, o

\* How far a weight reaches, when place e is where chunk t begins, and where it
\* ends.
LEMMA UptoFacts ==
    ASSUME NEW w \in Sizes, NEW t \in Chunks, IsChunk(t), Real(w, t), NEW n \in 1..Len(w)
    PROVE  /\ Upto(w, n, Pos(t)) \in Nat /\ Upto(w, n, PosAfter(t)) \in Nat
           /\ n < t.name => Upto(w, n, Pos(t)) = w[n]
           /\ n = t.name => /\ Upto(w, n, Pos(t)) = t.chunk_offset
                            /\ Upto(w, n, PosAfter(t)) = t.chunk_offset + t.chunk_size
           /\ n # t.name => Upto(w, n, PosAfter(t)) = Upto(w, n, Pos(t))
<1>1. /\ t.name \in 1..Len(w) /\ w[t.name] \in Nat /\ t.nbytes = w[t.name]
      /\ t.chunk_offset \in Nat /\ t.chunk_size \in Nat
      /\ t.chunk_offset + t.chunk_size <= w[t.name]
  BY ChunkFacts
<1>2. w[n] \in Nat /\ Len(w) \in Nat
  BY DEF Sizes
<1>3. Pos(t)[1] = t.name /\ Pos(t)[2] = t.chunk_offset
  BY DEF Pos
<1>4. /\ Upto(w, n, Pos(t)) \in Nat
      /\ n < t.name => Upto(w, n, Pos(t)) = w[n]
      /\ n = t.name => Upto(w, n, Pos(t)) = t.chunk_offset
      /\ n > t.name => Upto(w, n, Pos(t)) = 0
  BY <1>1, <1>2, <1>3 DEF Upto
<1>5. CASE Ends(t)
  <2>1. PosAfter(t)[1] = t.name + 1 /\ PosAfter(t)[2] = 0
    BY <1>5 DEF PosAfter
  <2>2. t.chunk_offset + t.chunk_size = w[t.name]
    BY <1>1, <1>5 DEF Ends
  <2>3. /\ n <= t.name => Upto(w, n, PosAfter(t)) = w[n]
        /\ n > t.name => Upto(w, n, PosAfter(t)) = 0
    BY <1>1, <1>2, <2>1 DEF Upto
  <2>4. QED
    BY <1>1, <1>2, <1>4, <2>2, <2>3
<1>6. CASE ~Ends(t)
  <2>1. PosAfter(t)[1] = t.name /\ PosAfter(t)[2] = t.chunk_offset + t.chunk_size
    BY <1>6 DEF PosAfter
  <2>2. /\ n < t.name => Upto(w, n, PosAfter(t)) = w[n]
        /\ n = t.name => Upto(w, n, PosAfter(t)) = t.chunk_offset + t.chunk_size
        /\ n > t.name => Upto(w, n, PosAfter(t)) = 0
    BY <1>1, <1>2, <2>1 DEF Upto
  <2>3. QED
    BY <1>1, <1>2, <1>4, <2>2
<1>7. QED
  BY <1>5, <1>6

\* A copy of the chunk that comes next moves what a server has got to the place
\* behind it.
LEMMA CopiedFacts ==
    ASSUME NEW w \in Sizes, NEW v \in Nat, NEW t \in Chunks, IsChunk(t), Real(w, t),
           NEW buf, Holds(v, buf, t), NEW g \in Servers(w), Received(w, v, g, Pos(t)),
           NEW h, h = Copied(g, buf, t)
    PROVE  /\ h \in Servers(w) /\ Received(w, v, h, PosAfter(t))
           /\ h = [g EXCEPT ![t.name] =
                      Content(v, t.name, t.chunk_offset + t.chunk_size)]
           /\ Len(g[t.name]) = t.chunk_offset
           /\ \A n \in 1..t.name - 1 : Len(g[n]) = w[n]
<1> DEFINE b == Slice(buf, t.offset, t.chunk_size)
           size == t.chunk_offset + t.chunk_size
<1>1. /\ t.name \in 1..Len(w) /\ Len(w) \in Nat /\ t.name \in Nat
      /\ t.chunk_offset \in Nat /\ t.chunk_size \in Nat /\ t.offset \in Nat /\ size \in Nat
  BY ChunkFacts DEF Sizes
<1>2. g[t.name] = Content(v, t.name, t.chunk_offset)
  BY <1>1, UptoFacts DEF Received
<1>3. g[t.name] \o b = Content(v, t.name, size)
  <2>1. Content(v, t.name, t.chunk_offset) \o b = Content(v, t.name, size)
    BY ContentGrows
  <2>2. QED
    BY <1>2, <2>1
<1>4. h = [g EXCEPT ![t.name] = g[t.name] \o b]
  BY DEF Copied
<1> HIDE DEF b, size
<1>5. h = [g EXCEPT ![t.name] = Content(v, t.name, size)]
  BY <1>3, <1>4
<1>6. /\ h[t.name] = Content(v, t.name, size)
      /\ \A n \in 1..Len(w) : n # t.name => h[n] = g[n]
  BY <1>1, <1>5 DEF Servers
<1>7. h \in Servers(w)
  <2>1. Content(v, t.name, size) \in Seq(Bytes)
    BY <1>1, ContentFacts
  <2>2. QED
    BY <1>5, <2>1 DEF Servers
<1>8. ASSUME NEW n \in 1..Len(w) PROVE h[n] = Content(v, n, Upto(w, n, PosAfter(t)))
  <2>1. CASE n = t.name
    <3>1. Upto(w, n, PosAfter(t)) = size
      BY <2>1, UptoFacts DEF size
    <3>2. QED
      BY <1>6, <2>1, <3>1
  <2>2. CASE n # t.name
    <3>1. Upto(w, n, PosAfter(t)) = Upto(w, n, Pos(t))
      BY <2>2, UptoFacts
    <3>2. g[n] = Content(v, n, Upto(w, n, Pos(t)))
      BY DEF Received
    <3>3. QED
      BY <1>6, <2>2, <3>1, <3>2
  <2>3. QED
    BY <2>1, <2>2
<1>9. Len(g[t.name]) = t.chunk_offset
  <2>1. Len(Content(v, t.name, t.chunk_offset)) = t.chunk_offset
    BY <1>1, ContentFacts
  <2>2. QED
    BY <1>2, <2>1
<1>10. ASSUME NEW n \in 1..t.name - 1 PROVE Len(g[n]) = w[n]
  <2>1. n \in 1..Len(w) /\ n < t.name /\ w[n] \in Nat /\ n \in Nat
    BY <1>1 DEF Sizes
  <2>2. Upto(w, n, Pos(t)) = w[n]
    BY <2>1, UptoFacts
  <2>3. g[n] = Content(v, n, w[n])
    BY <2>1, <2>2 DEF Received
  <2>4. QED
    BY <2>1, <2>3, ContentFacts
<1>11. QED
  BY <1>5, <1>7, <1>8, <1>9, <1>10 DEF Received, size

\* Nothing is what comes before the first place, and everything what comes
\* before the last.
LEMMA ReceivedEnds ==
    ASSUME NEW w \in Sizes, NEW v \in Nat
    PROVE  /\ \A g : g = [n \in 1..Len(w) |-> <<>>] =>
                  g \in Servers(w) /\ Received(w, v, g, <<1, 0>>)
           /\ \A g : Received(w, v, g, EndOf(w)) => \A n \in 1..Len(w) : Len(g[n]) = w[n]
<1>1. Len(w) \in Nat /\ \A n \in 1..Len(w) : w[n] \in Nat
  BY DEF Sizes
<1>2. ASSUME NEW g, g = [n \in 1..Len(w) |-> <<>>]
      PROVE  g \in Servers(w) /\ Received(w, v, g, <<1, 0>>)
  <2>1. g \in Servers(w)
    BY <1>2 DEF Servers
  <2>2. ASSUME NEW n \in 1..Len(w) PROVE g[n] = Content(v, n, Upto(w, n, <<1, 0>>))
    <3>1. Upto(w, n, <<1, 0>>) = 0
      BY <1>1 DEF Upto
    <3>2. n \in Nat /\ 0 \in Nat
      BY <1>1
    <3>3. Content(v, n, 0) \in Seq(Bytes) /\ Len(Content(v, n, 0)) = 0
      BY <3>2, ContentFacts
    <3>4. Content(v, n, 0) = <<>>
      BY <3>3
    <3>5. QED
      BY <1>2, <3>1, <3>4
  <2>3. QED
    BY <2>1, <2>2 DEF Received
<1>3. ASSUME NEW g, Received(w, v, g, EndOf(w)), NEW n \in 1..Len(w)
      PROVE  Len(g[n]) = w[n]
  <2>1. EndOf(w)[1] = Len(w) + 1
    BY DEF EndOf
  <2>2. Upto(w, n, EndOf(w)) = w[n]
    BY <1>1, <2>1 DEF Upto
  <2>3. g[n] = Content(v, n, w[n])
    BY <1>3, <2>2 DEF Received
  <2>4. n \in Nat /\ w[n] \in Nat
    BY <1>1
  <2>5. QED
    BY <2>3, <2>4, ContentFacts
<1>4. QED
  BY <1>2, <1>3

-----------------------------------------------------------------------------
(* Queued copies and the buffers they use *)

\* The metadata of a queue that grows at its end and shrinks at its head.
LEMMA MetadataFacts ==
    ASSUME NEW q \in Seq(Copies)
    PROVE  /\ Metadata(q) \in Seq(Chunks) /\ Len(Metadata(q)) = Len(q)
           /\ \A k \in 1..Len(q) : Metadata(q)[k] = q[k].meta
           /\ q = <<>> <=> Metadata(q) = <<>>
<1>1. ASSUME NEW k \in 1..Len(q) PROVE q[k].meta \in Chunks
  <2>1. q[k] \in Copies
    OBVIOUS
  <2>2. QED
    BY <2>1 DEF Copies
<1>2. Len(q) \in Nat
  OBVIOUS
<1> DEFINE m(k) == q[k].meta
<1>3. \A k \in 1..Len(q) : m(k) \in Chunks
  BY <1>1
<1> HIDE DEF m
<1>4. [k \in 1..Len(q) |-> m(k)] \in Seq(Chunks) /\ Len([k \in 1..Len(q) |-> m(k)]) = Len(q)
  BY <1>2, <1>3
<1>5. Metadata(q) = [k \in 1..Len(q) |-> m(k)]
  BY DEF Metadata, m
<1>6. /\ Metadata(q) \in Seq(Chunks) /\ Len(Metadata(q)) = Len(q)
      /\ \A k \in 1..Len(q) : Metadata(q)[k] = m(k)
  BY <1>4, <1>5
<1>7. q = <<>> <=> Metadata(q) = <<>>
  BY <1>6
<1>8. QED
  BY <1>6, <1>7 DEF m

\* A copy put behind the queued ones adds its metadata behind theirs.
LEMMA MetadataAppend ==
    ASSUME NEW q \in Seq(Copies), NEW c \in Copies
    PROVE  Metadata(Append(q, c)) = Append(Metadata(q), c.meta)
<1> DEFINE r == Append(q, c)
           m == Metadata(q)
<1>1. /\ r \in Seq(Copies) /\ Len(r) = Len(q) + 1 /\ r[Len(q) + 1] = c
      /\ \A k \in 1..Len(q) : r[k] = q[k]
  OBVIOUS
<1>2. c.meta \in Chunks
  BY DEF Copies
<1> HIDE DEF r
<1>3. /\ Metadata(r) \in Seq(Chunks) /\ Len(Metadata(r)) = Len(r)
      /\ \A k \in 1..Len(r) : Metadata(r)[k] = r[k].meta
  BY <1>1, MetadataFacts
<1>4. /\ m \in Seq(Chunks) /\ Len(m) = Len(q)
      /\ \A k \in 1..Len(q) : m[k] = q[k].meta
  BY MetadataFacts
<1> HIDE DEF m
<1>5. /\ Append(m, c.meta) \in Seq(Chunks) /\ Len(Append(m, c.meta)) = Len(q) + 1
      /\ Append(m, c.meta)[Len(q) + 1] = c.meta
      /\ \A k \in 1..Len(q) : Append(m, c.meta)[k] = m[k]
  BY <1>2, <1>4
<1>6. ASSUME NEW k \in 1..Len(q) + 1 PROVE Metadata(r)[k] = Append(m, c.meta)[k]
  <2>1. CASE k \in 1..Len(q)
    BY <1>1, <1>3, <1>4, <1>5, <2>1
  <2>2. CASE k = Len(q) + 1
    BY <1>1, <1>3, <1>5, <2>2
  <2>3. k \in 1..Len(q) \/ k = Len(q) + 1
    OBVIOUS
  <2>4. QED
    BY <2>1, <2>2, <2>3
<1>7. Metadata(r) = Append(m, c.meta)
  BY <1>1, <1>3, <1>5, <1>6
<1>8. QED
  BY <1>7 DEF r, m

\* Without its first copy a queue lacks the first metadata.
LEMMA MetadataTail ==
    ASSUME NEW q \in Seq(Copies), q # <<>>
    PROVE  Metadata(Tail(q)) = Tail(Metadata(q))
<1> DEFINE r == Tail(q)
           m == Metadata(q)
<1>1. /\ r \in Seq(Copies) /\ Len(r) = Len(q) - 1 /\ Len(q) \in Nat \ {0}
      /\ \A k \in 1..Len(r) : k + 1 \in 1..Len(q) /\ r[k] = q[k + 1]
  OBVIOUS
<1> HIDE DEF r
<1>2. /\ Metadata(r) \in Seq(Chunks) /\ Len(Metadata(r)) = Len(r)
      /\ \A k \in 1..Len(r) : Metadata(r)[k] = r[k].meta
  BY <1>1, MetadataFacts
<1>3. /\ m \in Seq(Chunks) /\ Len(m) = Len(q)
      /\ \A k \in 1..Len(q) : m[k] = q[k].meta
  BY MetadataFacts
<1> HIDE DEF m
<1>4. /\ Tail(m) \in Seq(Chunks) /\ Len(Tail(m)) = Len(q) - 1
      /\ \A k \in 1..Len(q) - 1 : Tail(m)[k] = m[k + 1]
  BY <1>1, <1>3
<1>5. ASSUME NEW k \in 1..Len(r) PROVE Metadata(r)[k] = Tail(m)[k]
  BY <1>1, <1>2, <1>3, <1>4
<1>6. Metadata(r) = Tail(m)
  BY <1>1, <1>2, <1>4, <1>5
<1>7. QED
  BY <1>6 DEF r, m

\* A chain without its first chunk starts where that one ends.
LEMMA ChainTail ==
    ASSUME NEW s \in Seq(Chunks), s # <<>>, NEW e, Chain(s, e)
    PROVE  /\ s[1] \in Chunks /\ IsChunk(s[1]) /\ Start(s, e) = Pos(s[1])
           /\ Chain(Tail(s), e) /\ Start(Tail(s), e) = PosAfter(s[1])
<1> DEFINE r == Tail(s)
<1>1. /\ r \in Seq(Chunks) /\ Len(r) = Len(s) - 1 /\ Len(s) \in Nat \ {0}
      /\ \A k \in 1..Len(r) : k + 1 \in 1..Len(s) /\ r[k] = s[k + 1]
      /\ 1 \in 1..Len(s) /\ s[1] \in Chunks
  OBVIOUS
<1> HIDE DEF r
<1>2. /\ IsChunk(s[1])
      /\ PosAfter(s[1]) = IF 1 = Len(s) THEN e ELSE Pos(s[1 + 1])
  BY <1>1 DEF Chain
<1>3. Start(s, e) = Pos(s[1])
  BY DEF Start
<1>4. ASSUME NEW k \in 1..Len(r)
      PROVE  /\ IsChunk(r[k])
             /\ PosAfter(r[k]) = IF k = Len(r) THEN e ELSE Pos(r[k + 1])
  <2>1. k + 1 \in 1..Len(s) /\ r[k] = s[k + 1]
    BY <1>1
  <2>2. /\ IsChunk(s[k + 1])
        /\ PosAfter(s[k + 1]) = IF k + 1 = Len(s) THEN e ELSE Pos(s[k + 1 + 1])
    BY <2>1 DEF Chain
  <2>3. CASE k = Len(r)
    <3>1. k + 1 = Len(s)
      BY <1>1, <2>3
    <3>2. QED
      BY <2>1, <2>2, <2>3, <3>1
  <2>4. CASE k # Len(r)
    <3>1. k + 1 # Len(s) /\ k + 1 \in 1..Len(r)
      BY <1>1, <2>4
    <3>2. r[k + 1] = s[k + 1 + 1]
      BY <1>1, <3>1
    <3>3. QED
      BY <2>1, <2>2, <2>4, <3>1, <3>2
  <2>5. QED
    BY <2>3, <2>4
<1>5. Start(r, e) = PosAfter(s[1])
  <2>1. CASE r = <<>>
    <3>1. 1 = Len(s)
      BY <1>1, <2>1
    <3>2. QED
      BY <1>2, <2>1, <3>1 DEF Start
  <2>2. CASE r # <<>>
    <3>1. 1 # Len(s) /\ 1 \in 1..Len(r)
      BY <1>1, <2>2
    <3>2. r[1] = s[1 + 1]
      BY <1>1, <3>1
    <3>3. QED
      BY <1>2, <2>2, <3>1, <3>2 DEF Start
  <2>3. QED
    BY <2>1, <2>2
<1>6. QED
  BY <1>1, <1>2, <1>3, <1>4, <1>5 DEF Chain, r

\* What is held, one chunk more or one less.
LEMMA HeldFacts ==
    ASSUME NEW s \in Seq(Chunks), NEW w, NEW v, NEW buf, Held(w, v, buf, s)
    PROVE  /\ \A t \in Chunks : Real(w, t) /\ Holds(v, buf, t) => Held(w, v, buf, Append(s, t))
           /\ s # <<>> => /\ Real(w, s[1]) /\ Holds(v, buf, s[1])
                          /\ Held(w, v, buf, Tail(s))
<1>1. ASSUME NEW t \in Chunks, Real(w, t), Holds(v, buf, t)
      PROVE  Held(w, v, buf, Append(s, t))
  <2> DEFINE r == Append(s, t)
  <2>1. /\ Len(r) = Len(s) + 1 /\ r[Len(s) + 1] = t
        /\ \A k \in 1..Len(s) : r[k] = s[k]
    OBVIOUS
  <2> HIDE DEF r
  <2>2. ASSUME NEW k \in 1..Len(r) PROVE Real(w, r[k]) /\ Holds(v, buf, r[k])
    <3>1. CASE k \in 1..Len(s)
      BY <2>1, <3>1 DEF Held
    <3>2. CASE k = Len(s) + 1
      BY <1>1, <2>1, <3>2
    <3>3. k \in 1..Len(s) \/ k = Len(s) + 1
      BY <2>1
    <3>4. QED
      BY <3>1, <3>2, <3>3
  <2>3. QED
    BY <2>2 DEF Held, r
<1>2. ASSUME s # <<>>
      PROVE  Real(w, s[1]) /\ Holds(v, buf, s[1]) /\ Held(w, v, buf, Tail(s))
  <2> DEFINE r == Tail(s)
  <2>1. /\ 1 \in 1..Len(s)
        /\ \A k \in 1..Len(r) : k + 1 \in 1..Len(s) /\ r[k] = s[k + 1]
    BY <1>2
  <2> HIDE DEF r
  <2>2. ASSUME NEW k \in 1..Len(r) PROVE Real(w, r[k]) /\ Holds(v, buf, r[k])
    <3>1. k + 1 \in 1..Len(s) /\ r[k] = s[k + 1]
      BY <2>1
    <3>2. QED
      BY <3>1 DEF Held
  <2>3. QED
    BY <2>1, <2>2 DEF Held, r
<1>3. QED
  BY <1>1, <1>2

\* Copying a chunk into a buffer leaves what lies before it alone.
LEMMA WriteFacts ==
    ASSUME NEW v \in Nat, NEW t \in Chunks, t.offset + t.chunk_size <= BucketSize,
           NEW buf \in Buffers, NEW new, new = WriteChunk(buf, v, t)
    PROVE  /\ new \in Buffers /\ Holds(v, new, t)
           /\ \A u \in Chunks : u.offset + u.chunk_size <= t.offset /\ Holds(v, buf, u) =>
                  Holds(v, new, u)
<1>1. /\ t.name \in Nat /\ t.chunk_offset \in Nat /\ t.chunk_size \in Nat
      /\ t.offset \in Nat /\ BucketSize \in Nat
  BY TransferConstants DEF Chunks
<1>2. new = [o \in 0..BucketSize - 1 |->
                IF o \in t.offset..t.offset + t.chunk_size - 1
                THEN Byte(v, t.name, t.chunk_offset + o - t.offset) ELSE buf[o]]
  BY DEF WriteChunk
<1>3. ASSUME NEW o \in t.offset..t.offset + t.chunk_size - 1
      PROVE  /\ o \in 0..BucketSize - 1
             /\ new[o] = Byte(v, t.name, t.chunk_offset + o - t.offset)
             /\ new[o] \in Bytes
  <2>1. o \in 0..BucketSize - 1 /\ t.chunk_offset + o - t.offset \in Nat
    BY <1>1
  <2>2. new[o] = Byte(v, t.name, t.chunk_offset + o - t.offset)
    BY <1>2, <2>1
  <2>3. QED
    BY <1>1, <2>1, <2>2 DEF Byte, Bytes
<1>4. ASSUME NEW o \in 0..BucketSize - 1, o \notin t.offset..t.offset + t.chunk_size - 1
      PROVE  new[o] = buf[o] /\ new[o] \in Bytes
  <2>1. new[o] = buf[o]
    BY <1>2, <1>4
  <2>2. QED
    BY <2>1 DEF Buffers
<1>5. new \in Buffers
  <2>1. \A o \in 0..BucketSize - 1 : new[o] \in Bytes
    BY <1>3, <1>4
  <2>2. QED
    BY <1>2, <2>1 DEF Buffers
<1>6. Holds(v, new, t)
  BY <1>3 DEF Holds
<1>7. ASSUME NEW u \in Chunks, u.offset + u.chunk_size <= t.offset, Holds(v, buf, u)
      PROVE  Holds(v, new, u)
  <2>1. u.offset \in Nat /\ u.chunk_size \in Nat
    BY DEF Chunks
  <2>2. ASSUME NEW o \in u.offset..u.offset + u.chunk_size - 1
        PROVE  new[o] = Byte(v, u.name, u.chunk_offset + o - u.offset)
    <3>1. o \in 0..BucketSize - 1 /\ o \notin t.offset..t.offset + t.chunk_size - 1
      BY <1>1, <1>7, <2>1
    <3>2. new[o] = buf[o]
      BY <1>4, <3>1
    <3>3. buf[o] = Byte(v, u.name, u.chunk_offset + o - u.offset)
      BY <1>7 DEF Holds
    <3>4. QED
      BY <3>2, <3>3
  <2>3. QED
    BY <2>2 DEF Holds
<1>8. QED
  BY <1>5, <1>6, <1>7

\* When all copies are done the buffer holds the bucket.
LEMMA CopyingDone ==
    ASSUME NEW w, NEW v, NEW buf, NEW s \in Seq(Chunks), Copying(w, v, buf, s, <<>>)
    PROVE  Held(w, v, buf, s)
<1>1. Len(s) \in Nat /\ Len(<<>>) = 0
  OBVIOUS
<1>2. \A k \in 1..Len(s) - 0 : Holds(v, buf, s[k])
  BY <1>1 DEF Copying
<1>3. \A k \in 1..Len(s) : Real(w, s[k])
  BY DEF Copying
<1>4. Len(s) - 0 = Len(s)
  BY <1>1
<1>5. QED
  BY <1>2, <1>3, <1>4 DEF Held

\* An empty bucket.
LEMMA CopyingNone ==
    ASSUME NEW w, NEW v, NEW buf
    PROVE  Copying(w, v, buf, <<>>, <<>>) /\ \A e : Packed(<<>>, e)
  BY DEF Copying, Packed

\* What ends at or before an offset ends at or before what begins there.
LEMMA EndsBefore ==
    ASSUME NEW a \in Nat, NEW b \in Nat, NEW o \in Nat, NEW n \in Nat, a + b <= o
    PROVE  a + b <= o + n
  OBVIOUS

\* The head of a sequence that is not empty is its first element.
LEMMA HeadIsFirst ==
    ASSUME NEW S, NEW s \in Seq(S), s # <<>>
    PROVE  1 \in 1..Len(s) /\ Head(s) = s[1]
  OBVIOUS

\* The next chunk is put behind the others and queued.
LEMMA CopyingAppend ==
    ASSUME NEW w, NEW v, NEW buf, NEW s \in Seq(Chunks), NEW q \in Seq(Copies),
           Copying(w, v, buf, s, q), NEW t \in Chunks, Packed(s, t.offset), Real(w, t),
           NEW c \in Copies, c.meta = t, NEW e, e = t.offset + t.chunk_size
    PROVE  /\ Copying(w, v, buf, Append(s, t), Append(q, c))
           /\ Packed(Append(s, t), e)
<1> DEFINE r == Append(s, t)
           p == Append(q, c)
<1>1. /\ Len(r) = Len(s) + 1 /\ r[Len(s) + 1] = t /\ Len(s) \in Nat
      /\ \A k \in 1..Len(s) : r[k] = s[k] /\ s[k] \in Chunks
  OBVIOUS
<1>2. /\ Len(p) = Len(q) + 1 /\ p[Len(q) + 1] = c /\ Len(q) \in Nat
      /\ \A k \in 1..Len(q) : p[k] = q[k]
  OBVIOUS
<1>3. t.offset \in Nat /\ t.chunk_size \in Nat
  BY DEF Chunks
<1> HIDE DEF r, p
<1>4. /\ Len(s) >= Len(q)
      /\ \A k \in 1..Len(s) : Real(w, s[k])
      /\ \A k \in 1..Len(q) : q[k].meta = s[Len(s) - Len(q) + k]
      /\ \A k \in 1..Len(s) - Len(q) : Holds(v, buf, s[k])
  BY DEF Copying
<1>5. Len(r) >= Len(p) /\ Len(r) - Len(p) = Len(s) - Len(q)
  BY <1>1, <1>2, <1>4
<1>6. ASSUME NEW k \in 1..Len(r) PROVE k \in 1..Len(s) \/ k = Len(s) + 1
  BY <1>1
<1>7. ASSUME NEW k \in 1..Len(r) PROVE Real(w, r[k])
  BY <1>1, <1>4, <1>6
<1>8. ASSUME NEW k \in 1..Len(p) PROVE p[k].meta = r[Len(r) - Len(p) + k]
  <2>1. CASE k \in 1..Len(q)
    <3>1. Len(s) - Len(q) + k \in 1..Len(s)
      BY <1>1, <1>2, <1>4, <2>1
    <3>2. r[Len(s) - Len(q) + k] = s[Len(s) - Len(q) + k]
      BY <1>1, <3>1
    <3>3. QED
      BY <1>2, <1>4, <1>5, <2>1, <3>2
  <2>2. CASE k = Len(q) + 1
    <3>1. Len(s) - Len(q) + k = Len(s) + 1
      BY <1>1, <1>2, <2>2
    <3>2. QED
      BY <1>1, <1>2, <1>5, <2>2, <3>1
  <2>3. k \in 1..Len(q) \/ k = Len(q) + 1
    BY <1>2
  <2>4. QED
    BY <2>1, <2>2, <2>3
<1>9. ASSUME NEW k \in 1..Len(r) - Len(p) PROVE Holds(v, buf, r[k])
  <2>1. k \in 1..Len(s) - Len(q) /\ k \in 1..Len(s)
    BY <1>1, <1>2, <1>5
  <2>2. r[k] = s[k]
    BY <1>1, <2>1
  <2>3. QED
    BY <1>4, <2>1, <2>2
<1>10. Copying(w, v, buf, r, p)
  BY <1>5, <1>7, <1>8, <1>9 DEF Copying
<1>11. ASSUME NEW k \in 1..Len(r)
       PROVE  /\ r[k].offset + r[k].chunk_size <= e
              /\ \A j \in 1..k - 1 : r[j].offset + r[j].chunk_size <= r[k].offset
  <2>1. CASE k \in 1..Len(s)
    <3>1. r[k] = s[k] /\ s[k] \in Chunks
      BY <1>1, <2>1
    <3>2. s[k].offset \in Nat /\ s[k].chunk_size \in Nat
      BY <3>1 DEF Chunks
    <3>3. s[k].offset + s[k].chunk_size <= t.offset
      BY <2>1 DEF Packed
    <3>4. ASSUME NEW j \in 1..k - 1 PROVE r[j].offset + r[j].chunk_size <= r[k].offset
      <4>1. j \in 1..Len(s)
        BY <1>1, <2>1
      <4>2. s[j].offset + s[j].chunk_size <= s[k].offset
        BY <2>1 DEF Packed
      <4>3. QED
        BY <1>1, <3>1, <4>1, <4>2
    <3>5. s[k].offset + s[k].chunk_size <= e
      BY ONLY <1>3, <3>2, <3>3, e = t.offset + t.chunk_size, EndsBefore
    <3>6. QED
      BY <3>1, <3>4, <3>5
  <2>2. CASE k = Len(s) + 1
    <3>1. r[k] = t
      BY <1>1, <2>2
    <3>2. ASSUME NEW j \in 1..k - 1 PROVE r[j].offset + r[j].chunk_size <= t.offset
      <4>1. j \in 1..Len(s)
        BY <1>1, <2>2
      <4>2. s[j].offset + s[j].chunk_size <= t.offset
        BY <4>1 DEF Packed
      <4>3. QED
        BY <1>1, <4>1, <4>2
    <3>3. e <= e
      BY <1>3
    <3>4. QED
      BY <3>1, <3>2, <3>3
  <2>3. QED
    BY <1>6, <2>1, <2>2
<1>12. QED
  BY <1>10, <1>11 DEF Packed, r, p

\* A copy that is done is the next chunk of the bucket.
LEMMA CopyingTail ==
    ASSUME NEW w, NEW v \in Nat, NEW buf \in Buffers, NEW s \in Seq(Chunks),
           NEW q \in Seq(Copies), q # <<>>,
           Copying(w, v, buf, s, q), NEW e, Packed(s, e),
           NEW new, new = WriteChunk(buf, v, Head(q).meta)
    PROVE  new \in Buffers /\ Copying(w, v, new, s, Tail(q))
<1> DEFINE n == Len(s) - Len(q)
           t == Head(q).meta
           r == Tail(q)
<1>1. /\ Len(q) \in Nat \ {0} /\ 1 \in 1..Len(q) /\ Head(q) = q[1] /\ q[1] \in Copies
      /\ Len(r) = Len(q) - 1 /\ \A k \in 1..Len(r) : k + 1 \in 1..Len(q) /\ r[k] = q[k + 1]
  OBVIOUS
<1>2. Len(s) \in Nat
  OBVIOUS
<1> HIDE DEF r
<1>3. /\ Len(s) >= Len(q)
      /\ \A k \in 1..Len(s) : Real(w, s[k])
      /\ \A k \in 1..Len(q) : q[k].meta = s[Len(s) - Len(q) + k]
      /\ \A k \in 1..Len(s) - Len(q) : Holds(v, buf, s[k])
  BY DEF Copying
<1>4. /\ n + 1 \in 1..Len(s) /\ n \in Nat
  BY <1>1, <1>2, <1>3
<1>5. t = s[n + 1] /\ s[n + 1] \in Chunks /\ Real(w, s[n + 1])
  BY <1>1, <1>3, <1>4
<1>6. t \in Chunks /\ t.offset + t.chunk_size <= BucketSize /\ new = WriteChunk(buf, v, t)
  BY <1>5 DEF Real
<1> HIDE DEF t
<1>7. /\ new \in Buffers /\ Holds(v, new, t)
      /\ \A u \in Chunks : u.offset + u.chunk_size <= t.offset /\ Holds(v, buf, u) =>
             Holds(v, new, u)
  BY <1>6, WriteFacts
<1>8. Len(s) - Len(r) = n + 1 /\ Len(s) >= Len(r)
  BY <1>1, <1>2, <1>3
<1>9. ASSUME NEW k \in 1..Len(r) PROVE r[k].meta = s[Len(s) - Len(r) + k]
  <2>1. k + 1 \in 1..Len(q) /\ r[k] = q[k + 1]
    BY <1>1
  <2>2. q[k + 1].meta = s[Len(s) - Len(q) + (k + 1)]
    BY <1>3, <2>1
  <2>3. Len(s) - Len(q) + (k + 1) = Len(s) - Len(r) + k
    BY <1>1, <1>2
  <2>4. QED
    BY <2>1, <2>2, <2>3
<1>10. ASSUME NEW k \in 1..Len(s) - Len(r) PROVE Holds(v, new, s[k])
  <2>1. CASE k = n + 1
    BY <1>5, <1>7, <2>1
  <2>2. CASE k \in 1..n
    <3>1. k \in 1..(n + 1) - 1 /\ k \in 1..Len(s)
      BY <1>2, <1>4, <2>2
    <3>2. s[k].offset + s[k].chunk_size <= s[n + 1].offset
      BY <1>4, <3>1 DEF Packed
    <3>3. s[k] \in Chunks /\ Holds(v, buf, s[k])
      BY <1>3, <2>2, <3>1
    <3>4. QED
      BY <1>5, <1>7, <3>2, <3>3
  <2>3. k = n + 1 \/ k \in 1..n
    BY <1>4, <1>8
  <2>4. QED
    BY <2>1, <2>2, <2>3
<1>11. Copying(w, v, new, s, r)
  BY <1>3, <1>8, <1>9, <1>10 DEF Copying
<1>12. QED
  BY <1>7, <1>11 DEF r

-----------------------------------------------------------------------------
(* What the processes have of the bytes *)

\* The sender's bucket, and the one it sends.
SenderBytes ==
    /\ Packed(fill.bucket_meta, fill.offset)
    /\ Copying(weights, version, bufs[Master][agent[Master].side], fill.bucket_meta,
               stream[Master])
    /\ Active(Master) =>
          Held(weights, version, bufs[Master][op[Master].side],
               op[Master].meta.bucket_meta)

\* The last bucket is sent when the generator is at its end, and only then.
SenderLast ==
    /\ agent[Master].phase # "fill" =>
          fill.bucket_meta = <<>> /\ FillPos = EndOf(weights)
    /\ Active(Master) /\ op[Master].meta.is_last => agent[Master].phase # "fill"
LastSent == agent[Master].phase # "fill" /\ ~Active(Master)

\* The buckets worker p has received and hands on are in their buffers.
BucketsOK(p) ==
    /\ op[p].state = "done" =>
          /\ Held(weights, version, bufs[p][op[p].side], op[p].meta.bucket_meta)
          /\ op[p].meta.is_last => LastSent
    /\ Pending(p) => op[p].side = 1 - agent[p].side
    /\ agent[p].phase \in {"top", "yield"} =>
          /\ Held(weights, version, bufs[p][agent[p].side], agent[p].meta.bucket_meta)
          /\ agent[p].meta.is_last => LastSent

\* So are the chunks still to be copied; they lead from what the server has to
\* where the merge is.
Queued(p) == Metadata(stream[p])
GotTo(p) ==
    IF agent[p].phase = "done" THEN EndOf(weights) ELSE Start(Queued(p), MergePos(p))
ServerOK(p) ==
    /\ got[p] \in Servers(weights)
    /\ Held(weights, version, bufs[p][agent[p].side], Queued(p))
    /\ agent[p].phase # "done" => Chain(Queued(p), MergePos(p))
    /\ Received(weights, version, got[p], GotTo(p))

WorkerBytes(p) == BucketsOK(p) /\ ServerOK(p)

BufferTypes == bufs \in [Processes -> [{0, 1} -> Buffers]]

BytesInv ==
    /\ BufferTypes
    /\ stage = "update" =>
          /\ version > 0 /\ DOMAIN got = Members /\ got = [r \in Members |-> got[r]]
          /\ SenderBytes /\ SenderLast
          /\ \A p \in Members : WorkerBytes(p)
    /\ stage # "update" /\ version > 0 =>
          \A r \in DOMAIN got : Received(weights, version, got[r], EndOf(weights))

\* A worker whose own state stays the same has what it had.
LEMMA WorkerBytesKept ==
    ASSUME NEW q, WorkerBytes(q), weights' = weights, version' = version,
           op'[q] = op[q], agent'[q] = agent[q], stream'[q] = stream[q],
           bufs'[q] = bufs[q], got'[q] = got[q], SentTo' = SentTo, LastSent => LastSent'
    PROVE  WorkerBytes(q)'
<1>1. Pending(q)' <=> Pending(q)
  BY DEF Pending
<1>2. BucketEnd(q)' = BucketEnd(q)
  BY <1>1 DEF BucketEnd
<1>3. MergePos(q)' = MergePos(q)
  BY <1>2 DEF MergePos
<1>4. Queued(q)' = Queued(q)
  BY DEF Queued
<1>5. GotTo(q)' = GotTo(q)
  BY <1>3, <1>4 DEF GotTo
<1>6. BucketsOK(q)'
  BY <1>1 DEF WorkerBytes, BucketsOK
<1>7. ServerOK(q)'
  BY <1>3, <1>4, <1>5 DEF WorkerBytes, ServerOK
<1>8. QED
  BY <1>6, <1>7 DEF WorkerBytes

\* A sender whose own state stays the same, too.
LEMMA SenderBytesKept ==
    ASSUME SenderBytes, SenderLast, weights' = weights, version' = version, fill' = fill,
           op'[Master] = op[Master], agent'[Master] = agent[Master],
           stream'[Master] = stream[Master], bufs'[Master] = bufs[Master]
    PROVE  SenderBytes' /\ SenderLast' /\ (LastSent => LastSent')
<1>1. FillPos' = FillPos /\ (Active(Master)' <=> Active(Master))
  BY SentToKept
<1>2. SenderBytes'
  BY <1>1 DEF SenderBytes, Master
<1>3. SenderLast' /\ (LastSent => LastSent')
  BY <1>1 DEF SenderLast, LastSent, Master
<1>4. QED
  BY <1>2, <1>3

\* What is known in an update.
LEMMA UpdateFacts ==
    ASSUME BroadcastIInv, BytesInv, stage = "update"
    PROVE  /\ BufferTypes /\ version \in Nat \ {0} /\ weights \in Sizes
           /\ DOMAIN got = Members /\ got = [r \in Members |-> got[r]]
           /\ SenderBytes /\ SenderLast /\ \A q \in Members : WorkerBytes(q)
           /\ Members \subseteq Pool /\ Members \subseteq Processes
           /\ Master \notin Members /\ Master \in Processes /\ Pool \subseteq Processes
<1>1. /\ Members \subseteq Pool /\ Members \subseteq Processes
      /\ Master \notin Members /\ Master \in Processes /\ Pool \subseteq Processes
  BY MembersFacts DEF BroadcastIInv, Types, ManagerTypes
<1>2. version \in Nat
  BY TransferConstants DEF BroadcastIInv, Types, ManagerTypes
<1>3. weights \in Sizes
  BY DEF BroadcastIInv, FillInv, Sizes
<1>4. version > 0
  BY DEF BytesInv
<1>5. version \in Nat \ {0}
  BY <1>2, <1>4
<1>6. QED
  BY <1>1, <1>3, <1>5 DEF BytesInv

\* A step of worker p.
LEMMA WorkerBytesFrame ==
    ASSUME BroadcastIInv, BytesInv, stage = "update", NEW p \in Members,
           UNCHANGED managerVars, fill' = fill,
           \A q \in Processes \ {p} :
               /\ op'[q] = op[q] /\ agent'[q] = agent[q] /\ stream'[q] = stream[q]
               /\ bufs'[q] = bufs[q],
           DOMAIN got' = Members, got' = [r \in Members |-> got'[r]],
           \A q \in Members \ {p} : got'[q] = got[q],
           BufferTypes', WorkerBytes(p)'
    PROVE  BytesInv'
<1>1. /\ version \in Nat \ {0} /\ SenderBytes /\ SenderLast
      /\ \A q \in Members : WorkerBytes(q)
      /\ Members \subseteq Processes /\ Master \notin Members /\ Master \in Processes
  BY UpdateFacts
<1>2. stage' = "update" /\ Members' = Members /\ weights' = weights /\ version' = version
  BY DEF managerVars, Members
<1>3. /\ op'[Master] = op[Master] /\ agent'[Master] = agent[Master]
      /\ stream'[Master] = stream[Master] /\ bufs'[Master] = bufs[Master]
  BY <1>1
<1>4. SentTo' = SentTo
  BY <1>3, SentToKept
<1>5. SenderBytes' /\ SenderLast' /\ (LastSent => LastSent')
  BY <1>1, <1>2, <1>3, SenderBytesKept
<1>6. ASSUME NEW q \in Members PROVE WorkerBytes(q)'
  <2>1. CASE q = p
    BY <2>1
  <2>2. CASE q # p
    <3>1. /\ op'[q] = op[q] /\ agent'[q] = agent[q] /\ stream'[q] = stream[q]
          /\ bufs'[q] = bufs[q] /\ got'[q] = got[q]
      BY <1>1, <2>2
    <3>2. QED
      BY <1>1, <1>2, <1>4, <1>5, <3>1, WorkerBytesKept
  <2>3. QED
    BY <2>1, <2>2
<1>7. version' > 0
  BY <1>1, <1>2
<1>8. QED
  BY <1>2, <1>5, <1>6, <1>7 DEF BytesInv

\* A step of the sender.
LEMMA SenderBytesFrame ==
    ASSUME BroadcastIInv, BytesInv, stage = "update", UNCHANGED managerVars,
           \A q \in Pool :
               /\ op'[q] = op[q] /\ agent'[q] = agent[q] /\ stream'[q] = stream[q]
               /\ bufs'[q] = bufs[q],
           got' = got, SentTo' = SentTo, LastSent => LastSent',
           BufferTypes', SenderBytes', SenderLast'
    PROVE  BytesInv'
<1>1. /\ version \in Nat \ {0} /\ \A q \in Members : WorkerBytes(q)
      /\ Members \subseteq Pool
      /\ DOMAIN got = Members /\ got = [r \in Members |-> got[r]]
  BY UpdateFacts
<1>2. stage' = "update" /\ Members' = Members /\ weights' = weights /\ version' = version
  BY DEF managerVars, Members
<1>3. ASSUME NEW q \in Members PROVE WorkerBytes(q)'
  <2>1. /\ op'[q] = op[q] /\ agent'[q] = agent[q] /\ stream'[q] = stream[q]
        /\ bufs'[q] = bufs[q] /\ got'[q] = got[q]
    BY <1>1
  <2>2. QED
    BY <1>1, <1>2, <2>1, WorkerBytesKept
<1>4. version' > 0
  BY <1>1, <1>2
<1>5. DOMAIN got' = Members /\ got' = [r \in Members |-> got'[r]]
  BY <1>1
<1>6. QED
  BY <1>2, <1>3, <1>4, <1>5 DEF BytesInv

-----------------------------------------------------------------------------
(* Steps of one worker *)

\* A worker that waits for a bucket has nothing in the buffer it is to come to.
LEMMA ReceiveMetaBytes ==
    ASSUME BroadcastIInv, BytesInv, NEW p \in Pool, ReceiveMeta(p)
    PROVE  BytesInv'
<1>1. /\ op[p].state = "meta"
      /\ op' = [op EXCEPT ![p].state = "nccl", ![p].meta = Head(mail[p])]
      /\ bufs' = [bufs EXCEPT ![p][op[p].side] = Garbage]
      /\ UNCHANGED managerVars /\ UNCHANGED <<fill, agent, stream, got>>
  BY DEF ReceiveMeta
<1>2. p \in Processes /\ p # Master
  BY TransferConstants
<1>3. stage = "update" /\ p \in Members
  BY <1>1, <1>2, BusyInUpdate DEF Idle, Everyone
<1>4. /\ agent[p] \in AgentStates /\ op[p] \in OpStates /\ Types /\ WorkerOK(p)
  BY <1>3, WorkerFacts
<1>5. /\ BufferTypes /\ WorkerBytes(p) /\ Members \subseteq Processes
      /\ got = [r \in Members |-> got[r]] /\ DOMAIN got = Members
  BY <1>3, UpdateFacts
<1>6. op \in [Processes -> OpStates]
  BY <1>4 DEF Types, TransferTypes
<1>7. op'[p].state = "nccl" /\ \A q \in Processes \ {p} : op'[q] = op[q]
  <2>1. op'[p] = [op[p] EXCEPT !.state = "nccl", !.meta = Head(mail[p])]
    BY <1>1, <1>2, <1>6
  <2>2. op'[p].state = "nccl"
    BY <1>4, <2>1 DEF OpStates
  <2>3. QED
    BY <1>1, <1>6, <2>2
<1>8. op[p].side \in {0, 1} /\ agent[p].side \in {0, 1}
  BY <1>4 DEF OpStates, AgentStates
<1>9. op[p].side # agent[p].side
  <2>1. op[p].side = 1 - agent[p].side
    BY <1>1, <1>2, <1>4 DEF WorkerOK, SideOK, Active
  <2>2. QED
    BY <1>8, <2>1
<1>10. /\ BufferTypes' /\ bufs'[p][agent[p].side] = bufs[p][agent[p].side]
       /\ \A q \in Processes \ {p} : bufs'[q] = bufs[q]
  <2>1. Garbage \in Buffers
    <3>1. <<0, 0, 1>> \in Bytes
      BY DEF Bytes
    <3>2. QED
      BY <3>1 DEF Garbage, Buffers
  <2>2. bufs \in [Processes -> [{0, 1} -> Buffers]]
    BY <1>5 DEF BufferTypes
  <2>3. bufs' = [bufs EXCEPT ![p] = [bufs[p] EXCEPT ![op[p].side] = Garbage]]
    BY <1>1, <1>2, <2>2
  <2>4. [bufs[p] EXCEPT ![op[p].side] = Garbage] \in [{0, 1} -> Buffers]
    BY <1>2, <1>8, <2>1, <2>2
  <2>5. [bufs[p] EXCEPT ![op[p].side] = Garbage][agent[p].side] = bufs[p][agent[p].side]
    BY <1>2, <1>8, <1>9, <2>2
  <2> DEFINE b == [bufs[p] EXCEPT ![op[p].side] = Garbage]
  <2>6. b \in [{0, 1} -> Buffers] /\ bufs' = [bufs EXCEPT ![p] = b]
        /\ b[agent[p].side] = bufs[p][agent[p].side]
    BY <2>3, <2>4, <2>5
  <2> HIDE DEF b
  <2>7. bufs'[p] = b /\ (\A q \in Processes \ {p} : bufs'[q] = bufs[q])
        /\ bufs' \in [Processes -> [{0, 1} -> Buffers]]
    BY <1>2, <2>2, <2>6
  <2>8. QED
    BY <2>6, <2>7 DEF BufferTypes, Processes, Master
<1>11. SentTo' = SentTo /\ (LastSent => LastSent')
  <2>1. op'[Master] = op[Master]
    BY <1>2, <1>7, TransferConstants
  <2>2. QED
    BY <1>1, <2>1, SentToKept DEF LastSent, Active, Master
<1>12. MergePos(p)' = MergePos(p)
  <2>1. ~Pending(p) /\ ~Pending(p)'
    BY <1>1, <1>7 DEF Pending
  <2>2. BucketEnd(p)' = BucketEnd(p)
    BY <1>11, <2>1 DEF BucketEnd
  <2>3. QED
    BY <1>1, <2>2 DEF MergePos
<1>13. weights' = weights /\ version' = version
  BY <1>1 DEF managerVars
<1>14. BucketsOK(p)'
  BY <1>1, <1>5, <1>7, <1>10, <1>11, <1>13 DEF WorkerBytes, BucketsOK, Pending
<1>15. ServerOK(p)'
  <2>1. Queued(p)' = Queued(p) /\ GotTo(p)' = GotTo(p)
    BY <1>1, <1>12, <1>13 DEF Queued, GotTo
  <2>2. QED
    BY <1>1, <1>5, <1>10, <1>12, <1>13, <2>1 DEF WorkerBytes, ServerOK
<1>16. DOMAIN got' = Members /\ got' = [r \in Members |-> got'[r]]
  BY <1>1, <1>5
<1>17. WorkerBytes(p)'
  BY <1>14, <1>15 DEF WorkerBytes
<1>18. \A q \in Processes \ {p} :
               /\ op'[q] = op[q] /\ agent'[q] = agent[q] /\ stream'[q] = stream[q]
               /\ bufs'[q] = bufs[q]
  BY <1>1, <1>7, <1>10
<1>19. QED
  BY <1>1, <1>3, <1>10, <1>16, <1>17, <1>18, WorkerBytesFrame

\* A step of worker p in which its agent moves on within the bucket in hand or
\* turns to the one received.
LEMMA AgentBytesFrame ==
    ASSUME BroadcastIInv, BytesInv, stage = "update", NEW p \in Members,
           UNCHANGED managerVars, UNCHANGED <<fill, bufs, got>>,
           \A q \in Processes \ {p} :
               op'[q] = op[q] /\ agent'[q] = agent[q] /\ stream'[q] = stream[q],
           WorkerBytes(p)'
    PROVE  BytesInv'
<1>1. /\ BufferTypes /\ got = [r \in Members |-> got[r]] /\ DOMAIN got = Members
  BY UpdateFacts
<1>2. BufferTypes'
  BY <1>1 DEF BufferTypes, Processes, Master
<1>3. DOMAIN got' = Members /\ got' = [r \in Members |-> got'[r]]
  BY <1>1
<1>4. QED
  BY <1>2, <1>3, WorkerBytesFrame

\* Turning to the bucket just received.
LEMMA SwapBytes ==
    ASSUME BroadcastIInv, BytesInv, stage = "update", NEW p \in Members, Pending(p),
           stream[p] = <<>>, MergePos(p) = BucketEnd(p),
           agent' = [agent EXCEPT ![p] = Swapped(p)],
           UNCHANGED managerVars, UNCHANGED <<fill, op, bufs, stream, got>>
    PROVE  BytesInv'
<1>1. /\ p \in Processes /\ p # Master /\ Master \in Processes
      /\ agent[p] \in AgentStates /\ op[p] \in OpStates /\ Types /\ WorkerOK(p)
  BY WorkerFacts
<1>2. WorkerBytes(p) /\ weights' = weights /\ version' = version
  BY UpdateFacts DEF managerVars
<1>3. agent \in [Processes -> AgentStates]
  BY <1>1 DEF Types, TransferTypes
<1>4. /\ agent'[p] = Swapped(p) /\ \A q \in Processes \ {p} : agent'[q] = agent[q]
  BY <1>1, <1>3
<1>5. /\ agent'[p].phase = "top" /\ agent'[p].side = 1 - agent[p].side
      /\ agent'[p].meta = op[p].meta /\ agent'[p].done = 0
  <2>1. 1 - agent[p].side \in {0, 1} /\ op[p].meta \in Metas
    BY <1>1 DEF AgentStates, OpStates
  <2>2. agent'[p] = Turned(agent[p], 1 - agent[p].side, op[p].meta)
    BY <1>4 DEF Swapped, Turned
  <2>3. QED
    BY <1>1, <2>1, <2>2, TurnedFacts
<1>6. SentTo' = SentTo /\ (LastSent => LastSent')
  <2>1. agent'[Master] = agent[Master]
    BY <1>1, <1>4
  <2>2. QED
    BY <2>1, SentToKept DEF LastSent, Active, Master
<1>7. op[p].state = "done" /\ op[p].side = 1 - agent[p].side /\ agent[p].phase # "done"
  BY <1>2 DEF Pending, WorkerBytes, BucketsOK
<1>8. MergePos(p)' = MergePos(p)
  <2>1. BucketEnd(p)' = SentTo
    BY <1>5, <1>6 DEF BucketEnd, Pending
  <2>2. MergePos(p) = Start(op[p].meta.bucket_meta, SentTo)
    BY DEF BucketEnd
  <2>3. op[p].meta.bucket_meta \in Seq(Chunks)
    BY <1>1 DEF OpStates, Metas
  <2>4. CASE op[p].meta.bucket_meta = <<>>
    <3>1. ~(0 < Len(op[p].meta.bucket_meta))
      BY <2>4
    <3>2. MergePos(p)' = SentTo
      BY <1>5, <2>1, <3>1 DEF MergePos
    <3>3. QED
      BY <2>2, <2>4, <3>2 DEF Start
  <2>5. CASE op[p].meta.bucket_meta # <<>>
    <3>1. 0 < Len(op[p].meta.bucket_meta)
      BY <2>3, <2>5
    <3>2. MergePos(p)' = Pos(op[p].meta.bucket_meta[0 + 1])
      BY <1>5, <3>1 DEF MergePos
    <3>3. QED
      BY <2>2, <2>5, <3>2 DEF Start
  <2>6. QED
    BY <2>4, <2>5
<1>9. BucketsOK(p)'
  BY <1>2, <1>5, <1>6, <1>7 DEF WorkerBytes, BucketsOK, Pending
<1>10. ServerOK(p)'
  <2>1. Queued(p) = <<>> /\ Queued(p)' = <<>>
    <3>1. <<>> \in Seq(Copies)
      OBVIOUS
    <3>2. Metadata(<<>>) = <<>>
      BY <3>1, MetadataFacts
    <3>3. QED
      BY <3>2 DEF Queued
  <2>2. GotTo(p)' = GotTo(p)
    BY <1>5, <1>7, <1>8, <2>1 DEF GotTo
  <2>3. Chain(Queued(p)', MergePos(p)')
    BY <2>1 DEF Chain
  <2>4. Held(weights', version', bufs'[p][agent'[p].side], Queued(p)')
    BY <2>1 DEF Held
  <2>5. got'[p] \in Servers(weights') /\ Received(weights', version', got'[p], GotTo(p)')
    BY <1>2, <2>2 DEF WorkerBytes, ServerOK
  <2>6. QED
    BY <2>3, <2>4, <2>5 DEF ServerOK
<1>11. WorkerBytes(p)'
  BY <1>9, <1>10 DEF WorkerBytes
<1>12. QED
  BY <1>4, <1>11, AgentBytesFrame

\* The first bucket is turned to once its broadcast is done.
LEMMA FirstBucketBytes ==
    ASSUME BroadcastIInv, BytesInv, NEW p \in Members, FirstBucket(p)
    PROVE  BytesInv'
<1>1. /\ agent[p].phase = "first" /\ op[p].state = "done"
      /\ agent' = [agent EXCEPT ![p] = Swapped(p)]
      /\ UNCHANGED managerVars
      /\ UNCHANGED <<fill, op, bufs, stream, got>>
  BY DEF FirstBucket, zmqVars
<1>2. p \in Processes
  BY MembersFacts DEF BroadcastIInv, Types, ManagerTypes
<1>3. stage = "update"
  BY <1>1, <1>2, BusyInUpdate
<1>4. stream[p] = <<>>
  BY <1>1, <1>3, WorkerFacts DEF WorkerOK, PhaseOK
<1>5. Pending(p) /\ MergePos(p) = BucketEnd(p)
  BY <1>1 DEF Pending, MergePos
<1>6. QED
  BY <1>1, <1>3, <1>4, <1>5, SwapBytes

\* A worker turns to the next bucket when all of this one is handed on.
LEMMA EndRoundBytes ==
    ASSUME BroadcastIInv, BytesInv, NEW p \in Members, EndRound(p)
    PROVE  BytesInv'
<1>1. /\ agent[p].phase = "yield" /\ ~agent[p].meta.is_last
      /\ agent[p].done = Len(agent[p].meta.bucket_meta)
      /\ Idle(p) /\ stream[p] = <<>>
      /\ agent' = [agent EXCEPT ![p] = Swapped(p)]
      /\ UNCHANGED managerVars
      /\ UNCHANGED <<fill, op, bufs, stream, got>>
  BY DEF EndRound, Yielded, AwaitOp, Synchronize, zmqVars
<1>2. p \in Processes
  BY MembersFacts DEF BroadcastIInv, Types, ManagerTypes
<1>3. stage = "update"
  BY <1>1, <1>2, BusyInUpdate
<1>4. op[p].state = "done"
  BY <1>1, <1>3, WorkerFacts DEF WorkerOK, MailOK, Idle
<1>5. Pending(p)
  BY <1>1, <1>4 DEF Pending
<1>6. agent[p].done \in Nat
  BY <1>3, WorkerFacts DEF AgentStates
<1>7. MergePos(p) = BucketEnd(p)
  BY <1>1, <1>6 DEF MergePos
<1>8. QED
  BY <1>1, <1>3, <1>5, <1>7, SwapBytes

\* Asking for the next bucket.
LEMMA ReceiveNextBytes ==
    ASSUME BroadcastIInv, BytesInv, NEW p \in Members, ReceiveNext(p)
    PROVE  BytesInv'
<1>1. /\ agent[p].phase = "top"
      /\ op' = IF agent[p].meta.is_last THEN op
               ELSE [op EXCEPT ![p] = NewOp(1 - agent[p].side, NoBucket)]
      /\ agent' = [agent EXCEPT ![p].phase = "yield"]
      /\ UNCHANGED managerVars
      /\ UNCHANGED <<fill, bufs, stream, got>>
  BY DEF ReceiveNext, zmqVars
<1>2. p \in Processes
  BY MembersFacts DEF BroadcastIInv, Types, ManagerTypes
<1>3. stage = "update"
  BY <1>1, <1>2, BusyInUpdate
<1>4. /\ p # Master /\ Master \in Processes /\ agent[p] \in AgentStates /\ Types
  BY <1>3, WorkerFacts
<1>5. WorkerBytes(p) /\ weights' = weights /\ version' = version
  BY <1>1, <1>3, UpdateFacts DEF managerVars
<1>6. agent \in [Processes -> AgentStates] /\ op \in [Processes -> OpStates]
  BY <1>4 DEF Types, TransferTypes
<1>7. /\ agent'[p].phase = "yield" /\ agent'[p].side = agent[p].side
      /\ agent'[p].meta = agent[p].meta /\ agent'[p].done = agent[p].done
      /\ \A q \in Processes \ {p} : agent'[q] = agent[q]
  <2>1. /\ agent'[p] = [agent[p] EXCEPT !.phase = "yield"]
        /\ \A q \in Processes \ {p} : agent'[q] = agent[q]
    BY <1>1, <1>2, <1>6
  <2>2. QED
    BY <1>4, <2>1 DEF AgentStates
<1>8. /\ \A q \in Processes \ {p} : op'[q] = op[q]
      /\ \/ agent[p].meta.is_last /\ op'[p] = op[p]
         \/ ~agent[p].meta.is_last /\ op'[p].state = "meta"
  BY <1>1, <1>2, <1>6 DEF NewOp
<1>9. SentTo' = SentTo /\ (LastSent => LastSent')
  <2>1. op'[Master] = op[Master] /\ agent'[Master] = agent[Master]
    BY <1>4, <1>7, <1>8
  <2>2. QED
    BY <1>1, <2>1, SentToKept DEF LastSent, Active, Master
<1>10. ~Pending(p) /\ ~Pending(p)'
  BY <1>1, <1>7, <1>8 DEF Pending
<1>11. MergePos(p)' = MergePos(p)
  <2>1. BucketEnd(p)' = BucketEnd(p)
    BY <1>9, <1>10 DEF BucketEnd
  <2>2. QED
    BY <1>1, <1>7, <2>1 DEF MergePos
<1>12. BucketsOK(p)'
  <2>1. op'[p].state = "done" => op'[p] = op[p]
    BY <1>8
  <2>2. QED
    BY <1>1, <1>5, <1>7, <1>9, <1>10, <2>1 DEF WorkerBytes, BucketsOK
<1>13. ServerOK(p)'
  <2>1. Queued(p)' = Queued(p) /\ GotTo(p)' = GotTo(p)
    BY <1>1, <1>5, <1>7, <1>11 DEF Queued, GotTo
  <2>2. QED
    BY <1>1, <1>5, <1>7, <1>11, <2>1 DEF WorkerBytes, ServerOK
<1>14. WorkerBytes(p)'
  BY <1>12, <1>13 DEF WorkerBytes
<1>15. \A q \in Processes \ {p} :
          op'[q] = op[q] /\ agent'[q] = agent[q] /\ stream'[q] = stream[q]
  BY <1>1, <1>7, <1>8
<1>16. QED
  BY <1>1, <1>3, <1>14, <1>15, AgentBytesFrame

\* Handing on a chunk: it comes after the ones that are queued.
LEMMA YieldChunkBytes ==
    ASSUME BroadcastIInv, BytesInv, NEW p \in Members, YieldChunk(p)
    PROVE  BytesInv'
<1> DEFINE s == agent[p].meta.bucket_meta
           t == s[agent[p].done + 1]
           m == agent[p].merge
           c == [side |-> agent[p].side, meta |-> t]
<1>1. /\ agent[p].phase = "yield" /\ agent[p].done < Len(s)
      /\ agent' = [agent EXCEPT ![p].done = agent[p].done + 1,
                                ![p].merge = MergeChunk(m, t)]
      /\ stream' = [stream EXCEPT ![p] = Append(stream[p], c)]
      /\ UNCHANGED managerVars
      /\ UNCHANGED <<fill, op, bufs, got>>
  BY DEF YieldChunk, zmqVars
<1>2. p \in Processes
  BY MembersFacts DEF BroadcastIInv, Types, ManagerTypes
<1>3. stage = "update"
  BY <1>1, <1>2, BusyInUpdate
<1>4. /\ p # Master /\ Master \in Processes
      /\ agent[p] \in AgentStates /\ stream[p] \in Seq(Copies) /\ Types /\ WorkerOK(p)
  BY <1>3, WorkerFacts
<1>5. WorkerBytes(p) /\ weights' = weights /\ version' = version
  BY <1>1, <1>3, UpdateFacts DEF managerVars
<1>6. agent \in [Processes -> AgentStates] /\ stream \in [Processes -> Seq(Copies)]
  BY <1>4 DEF Types, TransferTypes
<1>7. /\ agent[p].done \in Nat /\ agent[p].side \in {0, 1} /\ s \in Seq(Chunks)
      /\ m \in [name : Nat, offset : Nat, loaded : Seq(Nat)]
  BY <1>4 DEF AgentStates, Metas
<1>8. agent[p].done + 1 \in 1..Len(s) /\ t \in Chunks /\ Len(s) \in Nat
  BY <1>1, <1>7
<1>9. Chain(s, BucketEnd(p)) /\ Agrees(m, MergePos(p)) /\ MergePos(p) = Pos(t)
  BY <1>1, <1>4 DEF WorkerOK, ChunksOK, MergePos
<1>10. /\ IsChunk(t)
       /\ PosAfter(t) = IF agent[p].done + 1 = Len(s) THEN BucketEnd(p)
                        ELSE Pos(s[agent[p].done + 1 + 1])
  BY <1>8, <1>9 DEF Chain
<1>11. MergeChunk(m, t) \in [name : Nat, offset : Nat, loaded : Seq(Nat)]
  BY <1>7, <1>8, <1>9, <1>10, MergeFacts
<1>12. /\ agent'[p] = Advanced(agent[p], MergeChunk(m, t))
       /\ \A q \in Processes \ {p} : agent'[q] = agent[q]
  BY <1>1, <1>2, <1>6 DEF Advanced
<1>13. /\ agent'[p].phase = "yield" /\ agent'[p].side = agent[p].side
       /\ agent'[p].meta = agent[p].meta /\ agent'[p].done = agent[p].done + 1
  <2> DEFINE a == Advanced(agent[p], MergeChunk(m, t))
  <2>1. /\ a.phase = agent[p].phase /\ a.side = agent[p].side
        /\ a.meta = agent[p].meta /\ a.done = agent[p].done + 1
    BY <1>4, <1>11, AdvancedFacts
  <2>2. agent'[p] = a
    BY <1>12
  <2> HIDE DEF a
  <2>3. QED
    BY <1>1, <2>1, <2>2
<1>14. c \in Copies /\ c.meta = t
  BY <1>7, <1>8 DEF Copies
<1>15. Real(weights, t) /\ Holds(version, bufs[p][agent[p].side], t)
  BY <1>1, <1>5, <1>8 DEF WorkerBytes, BucketsOK, Held
<1>16. /\ stream'[p] = Append(stream[p], c)
       /\ \A q \in Processes \ {p} : stream'[q] = stream[q]
  BY <1>1, <1>2, <1>6
<1> HIDE DEF c, m, t, s
<1>17. SentTo' = SentTo /\ (LastSent => LastSent')
  <2>1. agent'[Master] = agent[Master]
    BY <1>4, <1>12
  <2>2. QED
    BY <1>1, <2>1, SentToKept DEF LastSent, Active, Master
<1>18. Pending(p)' <=> Pending(p)
  BY <1>1, <1>13 DEF Pending
<1>19. MergePos(p)' = PosAfter(t)
  <2>1. BucketEnd(p)' = BucketEnd(p)
    BY <1>1, <1>17, <1>18 DEF BucketEnd
  <2>2. CASE agent[p].done + 1 = Len(s)
    <3>1. ~(agent'[p].done < Len(agent'[p].meta.bucket_meta))
      BY <1>8, <1>13, <2>2 DEF s
    <3>2. QED
      BY <1>10, <2>1, <2>2, <3>1 DEF MergePos
  <2>3. CASE agent[p].done + 1 # Len(s)
    <3>1. agent'[p].done < Len(agent'[p].meta.bucket_meta)
      BY <1>8, <1>13, <2>3 DEF s
    <3>2. MergePos(p)' = Pos(agent'[p].meta.bucket_meta[agent'[p].done + 1])
      BY <1>13, <3>1 DEF MergePos
    <3>3. QED
      BY <1>10, <1>13, <2>3, <3>2 DEF s
  <2>4. QED
    BY <2>2, <2>3
<1>20. BucketsOK(p)'
  BY <1>1, <1>5, <1>13, <1>17, <1>18 DEF WorkerBytes, BucketsOK
<1>21. /\ Queued(p) \in Seq(Chunks) /\ Queued(p)' = Append(Queued(p), t)
  <2>1. Metadata(Append(stream[p], c)) = Append(Metadata(stream[p]), c.meta)
    BY <1>4, <1>14, MetadataAppend
  <2>2. Metadata(stream[p]) \in Seq(Chunks)
    BY <1>4, MetadataFacts
  <2>3. QED
    BY <1>14, <1>16, <2>1, <2>2 DEF Queued
<1>22. Chain(Queued(p), Pos(t))
  BY <1>1, <1>5, <1>9 DEF WorkerBytes, ServerOK
<1>23. /\ Chain(Queued(p)', MergePos(p)')
       /\ Start(Queued(p)', MergePos(p)') = Start(Queued(p), Pos(t))
  <2>1. /\ Chain(Append(Queued(p), t), PosAfter(t))
        /\ \A e : Start(Append(Queued(p), t), e) = Start(Queued(p), Pos(t))
    BY <1>8, <1>10, <1>21, <1>22, ChainAppend
  <2>2. QED
    BY <1>19, <1>21, <2>1
<1>24. GotTo(p)' = GotTo(p)
  BY <1>1, <1>9, <1>13, <1>23 DEF GotTo
<1>25. Held(weights', version', bufs'[p][agent'[p].side], Queued(p)')
  <2>1. Held(weights, version, bufs[p][agent[p].side], Queued(p))
    BY <1>5 DEF WorkerBytes, ServerOK
  <2>2. Held(weights, version, bufs[p][agent[p].side], Append(Queued(p), t))
    BY <1>8, <1>15, <1>21, <2>1, HeldFacts
  <2>3. QED
    BY <1>1, <1>5, <1>13, <1>21, <2>2
<1>26. got'[p] \in Servers(weights') /\ Received(weights', version', got'[p], GotTo(p)')
  BY <1>1, <1>5, <1>24 DEF WorkerBytes, ServerOK
<1>27. ServerOK(p)'
  BY <1>23, <1>25, <1>26 DEF ServerOK
<1>28. WorkerBytes(p)'
  BY <1>20, <1>27 DEF WorkerBytes
<1>29. \A q \in Processes \ {p} :
          op'[q] = op[q] /\ agent'[q] = agent[q] /\ stream'[q] = stream[q]
  BY <1>1, <1>12, <1>16
<1>30. QED
  BY <1>1, <1>3, <1>28, <1>29, AgentBytesFrame

\* A worker ends behind the last bucket, which ends behind the last weight.
LEMMA FinishReceiveBytes ==
    ASSUME BroadcastIInv, BytesInv, NEW p \in Members, FinishReceive(p)
    PROVE  BytesInv'
<1>1. /\ agent[p].phase = "yield" /\ agent[p].meta.is_last /\ stream[p] = <<>>
      /\ agent[p].done = Len(agent[p].meta.bucket_meta)
      /\ agent' = [agent EXCEPT ![p].phase = "done"]
      /\ UNCHANGED managerVars
      /\ UNCHANGED <<fill, op, bufs, stream, got>>
  BY DEF FinishReceive, Yielded, zmqVars
<1>2. p \in Processes
  BY MembersFacts DEF BroadcastIInv, Types, ManagerTypes
<1>3. stage = "update"
  BY <1>1, <1>2, BusyInUpdate
<1>4. /\ p # Master /\ Master \in Processes /\ agent[p] \in AgentStates /\ Types
  BY <1>3, WorkerFacts
<1>5. WorkerBytes(p) /\ SenderLast /\ weights' = weights /\ version' = version
  BY <1>1, <1>3, UpdateFacts DEF managerVars
<1>6. agent \in [Processes -> AgentStates]
  BY <1>4 DEF Types, TransferTypes
<1>7. /\ agent'[p].phase = "done" /\ agent'[p].side = agent[p].side
      /\ \A q \in Processes \ {p} : agent'[q] = agent[q]
  <2>1. /\ agent'[p] = [agent[p] EXCEPT !.phase = "done"]
        /\ \A q \in Processes \ {p} : agent'[q] = agent[q]
    BY <1>1, <1>2, <1>6
  <2>2. QED
    BY <1>4, <2>1 DEF AgentStates
<1>8. LastSent => LastSent'
  <2>1. agent'[Master] = agent[Master]
    BY <1>4, <1>7
  <2>2. QED
    BY <1>1, <2>1 DEF LastSent, Active, Master
<1>9. MergePos(p) = EndOf(weights)
  <2>1. LastSent
    BY <1>1, <1>5 DEF WorkerBytes, BucketsOK
  <2>2. fill.bucket_meta = <<>> /\ FillPos = EndOf(weights) /\ ~Active(Master)
    BY <1>5, <2>1 DEF SenderLast, LastSent
  <2>3. SentTo = EndOf(weights)
    BY <2>2 DEF SentTo, FillStart, Start
  <2>4. ~Pending(p)
    BY <1>1 DEF Pending
  <2>5. agent[p].done \in Nat
    BY <1>4 DEF AgentStates
  <2>6. MergePos(p) = BucketEnd(p)
    BY <1>1, <2>5 DEF MergePos
  <2>7. QED
    BY <2>3, <2>4, <2>6 DEF BucketEnd
<1>10. Queued(p) = <<>> /\ Queued(p)' = <<>>
  <2>1. <<>> \in Seq(Copies)
    OBVIOUS
  <2>2. Metadata(<<>>) = <<>>
    BY <2>1, MetadataFacts
  <2>3. QED
    BY <1>1, <2>2 DEF Queued
<1>11. GotTo(p)' = GotTo(p)
  BY <1>1, <1>5, <1>7, <1>9, <1>10 DEF GotTo, Start
<1>12. BucketsOK(p)'
  BY <1>1, <1>5, <1>7, <1>8 DEF WorkerBytes, BucketsOK, Pending
<1>13. ServerOK(p)'
  <2>1. Held(weights', version', bufs'[p][agent'[p].side], Queued(p)')
    BY <1>10 DEF Held
  <2>2. got'[p] \in Servers(weights') /\ Received(weights', version', got'[p], GotTo(p)')
    BY <1>1, <1>5, <1>11 DEF WorkerBytes, ServerOK
  <2>3. QED
    BY <1>7, <2>1, <2>2 DEF ServerOK
<1>14. WorkerBytes(p)'
  BY <1>12, <1>13 DEF WorkerBytes
<1>15. \A q \in Processes \ {p} :
          op'[q] = op[q] /\ agent'[q] = agent[q] /\ stream'[q] = stream[q]
  BY <1>1, <1>7
<1>16. QED
  BY <1>1, <1>3, <1>14, <1>15, AgentBytesFrame

\* The chunk that a worker's GPU copies is the one that comes next, and the
\* buffer still has it.
LEMMA CopyOutFacts ==
    ASSUME BroadcastIInv, BytesInv, NEW p \in Pool, CopyOut(p),
           NEW t, t = Head(stream[p]).meta
    PROVE  /\ stage = "update" /\ p \in Members /\ p \in Processes
           /\ t \in Chunks /\ IsChunk(t) /\ Real(weights, t)
           /\ Queued(p) \in Seq(Chunks) /\ Queued(p) # <<>> /\ t = Queued(p)[1]
           /\ agent[p].phase = "yield" /\ Chain(Queued(p), MergePos(p))
           /\ Received(weights, version, got[p], Pos(t))
           /\ Holds(version, bufs[p][agent[p].side], t)
           /\ stream[p] \in Seq(Copies) /\ stream[p] # <<>>
           /\ got' = [got EXCEPT ![p] = Copied(got[p], bufs[p][agent[p].side], t)]
<1>1. /\ stream[p] # <<>>
      /\ got' = [got EXCEPT ![p][t.name] =
                    @ \o Slice(bufs[p][Head(stream[p]).side], t.offset, t.chunk_size)]
  BY DEF CopyOut
<1>2. p \in Processes /\ p # Master
  BY TransferConstants
<1>3. stage = "update" /\ p \in Members
  BY <1>1, <1>2, BusyInUpdate DEF Everyone
<1>4. stream[p] \in Seq(Copies) /\ WorkerOK(p)
  BY <1>3, WorkerFacts
<1>5. /\ WorkerBytes(p) /\ DOMAIN got = Members /\ got = [r \in Members |-> got[r]]
  BY <1>3, UpdateFacts
<1>6. agent[p].phase = "yield"
  BY <1>1, <1>4 DEF WorkerOK, PhaseOK
<1>7. 1 \in 1..Len(stream[p]) /\ Head(stream[p]) = stream[p][1]
  BY <1>1, <1>4, HeadIsFirst
<1>8. Head(stream[p]).side = agent[p].side
  BY <1>4, <1>7 DEF WorkerOK, SideOK
<1>9. Queued(p) \in Seq(Chunks) /\ Queued(p) # <<>> /\ t = Queued(p)[1]
  <2>1. /\ Metadata(stream[p]) \in Seq(Chunks) /\ Metadata(stream[p]) # <<>>
        /\ Metadata(stream[p])[1] = stream[p][1].meta
    BY <1>1, <1>4, <1>7, MetadataFacts
  <2>2. QED
    BY <1>7, <2>1 DEF Queued
<1>10. /\ Chain(Queued(p), MergePos(p))
       /\ Held(weights, version, bufs[p][agent[p].side], Queued(p))
       /\ Received(weights, version, got[p], Start(Queued(p), MergePos(p)))
  BY <1>5, <1>6 DEF WorkerBytes, ServerOK, GotTo
<1>11. t \in Chunks /\ IsChunk(t) /\ Start(Queued(p), MergePos(p)) = Pos(t)
  BY <1>9, <1>10, ChainTail
<1>12. Real(weights, t) /\ Holds(version, bufs[p][agent[p].side], t)
  BY <1>9, <1>10, HeldFacts
<1>13. got' = [got EXCEPT ![p] = Copied(got[p], bufs[p][agent[p].side], t)]
  BY <1>1, <1>3, <1>5, <1>8 DEF Copied
<1>14. QED
  BY <1>1, <1>2, <1>3, <1>4, <1>6, <1>9, <1>10, <1>11, <1>12, <1>13

\* So a server gets the bytes in order.
LEMMA CopyOutBytes ==
    ASSUME BroadcastIInv, BytesInv, NEW p \in Pool, CopyOut(p)
    PROVE  BytesInv'
<1> DEFINE t == Head(stream[p]).meta
           b == bufs[p][agent[p].side]
           g == Copied(got[p], b, t)
<1>1. /\ stage = "update" /\ p \in Members /\ p \in Processes
      /\ t \in Chunks /\ IsChunk(t) /\ Real(weights, t)
      /\ Queued(p) \in Seq(Chunks) /\ Queued(p) # <<>> /\ t = Queued(p)[1]
      /\ agent[p].phase = "yield" /\ Chain(Queued(p), MergePos(p))
      /\ Received(weights, version, got[p], Pos(t))
      /\ Holds(version, b, t)
      /\ stream[p] \in Seq(Copies) /\ stream[p] # <<>>
      /\ got' = [got EXCEPT ![p] = g]
  BY CopyOutFacts
<1>2. /\ stream' = [stream EXCEPT ![p] = Tail(stream[p])]
      /\ UNCHANGED managerVars /\ UNCHANGED <<fill, agent, op, bufs>>
  BY DEF CopyOut
<1>3. /\ WorkerBytes(p) /\ BufferTypes /\ weights \in Sizes /\ version \in Nat
      /\ DOMAIN got = Members /\ got = [r \in Members |-> got[r]]
      /\ Master \notin Members /\ Master \in Processes
  BY <1>1, UpdateFacts
<1>4. weights' = weights /\ version' = version
  BY <1>2 DEF managerVars
<1>5. g \in Servers(weights) /\ Received(weights, version, g, PosAfter(t))
  <2>1. got[p] \in Servers(weights)
    BY <1>3 DEF WorkerBytes, ServerOK
  <2> HIDE DEF t, b, g
  <2>2. QED
    BY <1>1, <1>3, <2>1, CopiedFacts DEF g
<1> HIDE DEF t, b, g
<1>6. /\ got'[p] = g /\ DOMAIN got' = Members /\ got' = [r \in Members |-> got'[r]]
      /\ \A q \in Members \ {p} : got'[q] = got[q]
  BY <1>1, <1>3
<1>7. stream'[p] = Tail(stream[p]) /\ \A q \in Processes \ {p} : stream'[q] = stream[q]
  <2>1. stream \in [Processes -> Seq(Copies)]
    BY DEF BroadcastIInv, Types, TransferTypes
  <2>2. QED
    BY <1>1, <1>2, <2>1
<1>8. Queued(p)' = Tail(Queued(p))
  <2>1. Metadata(Tail(stream[p])) = Tail(Metadata(stream[p]))
    BY <1>1, MetadataTail
  <2>2. QED
    BY <1>7, <2>1 DEF Queued
<1>9. SentTo' = SentTo /\ (LastSent => LastSent')
  BY <1>2, SentToKept DEF LastSent, Active, Master
<1>10. Pending(p)' <=> Pending(p)
  BY <1>2 DEF Pending
<1>11. MergePos(p)' = MergePos(p)
  <2>1. BucketEnd(p)' = BucketEnd(p)
    BY <1>2, <1>9, <1>10 DEF BucketEnd
  <2>2. QED
    BY <1>2, <2>1 DEF MergePos
<1>12. Chain(Queued(p)', MergePos(p)') /\ Start(Queued(p)', MergePos(p)') = PosAfter(t)
  <2>1. /\ Chain(Tail(Queued(p)), MergePos(p))
        /\ Start(Tail(Queued(p)), MergePos(p)) = PosAfter(Queued(p)[1])
    BY <1>1, ChainTail
  <2>2. QED
    BY <1>1, <1>8, <1>11, <2>1
<1>13. Held(weights', version', bufs'[p][agent'[p].side], Queued(p)')
  <2>1. Held(weights, version, b, Queued(p))
    BY <1>3 DEF WorkerBytes, ServerOK, b
  <2>2. Held(weights, version, b, Tail(Queued(p)))
    BY <1>1, <2>1, HeldFacts
  <2>3. QED
    BY <1>2, <1>4, <1>8, <2>2 DEF b
<1>14. GotTo(p)' = PosAfter(t)
  BY <1>1, <1>2, <1>12 DEF GotTo
<1>15. ServerOK(p)'
  BY <1>4, <1>5, <1>6, <1>12, <1>13, <1>14 DEF ServerOK
<1>16. BucketsOK(p)'
  BY <1>2, <1>3, <1>4, <1>9, <1>10 DEF WorkerBytes, BucketsOK
<1>17. WorkerBytes(p)'
  BY <1>15, <1>16 DEF WorkerBytes
<1>18. BufferTypes'
  BY <1>2, <1>3 DEF BufferTypes, Processes, Master
<1>19. \A q \in Processes \ {p} :
          /\ op'[q] = op[q] /\ agent'[q] = agent[q] /\ stream'[q] = stream[q]
          /\ bufs'[q] = bufs[q]
  BY <1>2, <1>7
<1>20. QED
  BY <1>1, <1>2, <1>6, <1>17, <1>18, <1>19, WorkerBytesFrame

-----------------------------------------------------------------------------
(* Steps of the sender *)

\* A chunk is put behind the others and its copy queued.
LEMMA FillChunkBytes ==
    ASSUME BroadcastIInv, BytesInv, FillChunk
    PROVE  BytesInv'
<1> DEFINE t == TensorMeta(weights, fill)
           c == [side |-> agent[Master].side, meta |-> t]
<1>1. /\ stage = "update" /\ agent[Master].phase = "fill"
      /\ MoreChunks(weights, fill) /\ Fits(weights, fill)
      /\ fill' = PutChunk(weights, fill)
      /\ stream' = [stream EXCEPT ![Master] = Append(stream[Master], c)]
      /\ UNCHANGED managerVars
      /\ UNCHANGED <<agent, op, bufs, got>>
  BY DEF FillChunk, zmqVars
<1>2. /\ Master \in Processes /\ Master \notin Pool /\ Pool \subseteq Processes
      /\ agent[Master] \in AgentStates /\ fill \in FillStates
      /\ stream[Master] \in Seq(Copies) /\ stream \in [Processes -> Seq(Copies)]
      /\ FillInv /\ SenderOK
  BY <1>1, SenderFacts
<1>3. /\ t \in Chunks /\ IsChunk(t) /\ Pos(t) = FillPos
      /\ fill'.bucket_meta = Append(fill.bucket_meta, t)
      /\ PosAfter(t) = <<fill'.wi, fill'.co>>
  BY <1>1, <1>2, PutFacts
<1>4. SenderBytes /\ SenderLast /\ BufferTypes /\ weights \in Sizes
  BY <1>1, UpdateFacts
<1>5. Real(weights, t) /\ t.offset = fill.offset /\ fill'.offset = t.offset + t.chunk_size
  <2>1. /\ t.name = fill.wi /\ t.nbytes = weights[fill.wi] /\ t.offset = fill.offset
        /\ t.chunk_size = ChunkSize(weights, fill)
    BY DEF TensorMeta
  <2>2. fill'.offset = fill.offset + ChunkSize(weights, fill)
    BY <1>1 DEF PutChunk
  <2>3. fill.offset + ChunkSize(weights, fill) <= BucketSize
    BY <1>1 DEF Fits
  <2>4. fill.wi \in 1..Len(weights)
    <3>1. fill.wi \in Nat /\ Len(weights) \in Nat /\ fill.wi <= Len(weights)
      BY <1>1, <1>2, <1>4 DEF FillStates, MoreChunks, Sizes
    <3>2. fill.wi \in 1..Len(weights) + 1
      BY <1>2 DEF FillInv
    <3>3. QED
      BY <3>1, <3>2
  <2>5. QED
    BY <2>1, <2>2, <2>3, <2>4 DEF Real
<1>6. c \in Copies /\ c.meta = t
  BY <1>2, <1>3 DEF AgentStates, Copies
<1> HIDE DEF t, c
<1>7. weights' = weights /\ version' = version
  BY <1>1 DEF managerVars
<1>8. fill.bucket_meta \in Seq(Chunks) /\ Chain(fill.bucket_meta, Pos(t))
  BY <1>2, <1>3 DEF FillStates, SenderOK
<1>9. FillStart' = FillStart
  <2>1. FillStart' = Start(fill'.bucket_meta, FillPos')
    BY DEF FillStart, Start
  <2>2. Start(fill'.bucket_meta, FillPos') = Start(fill.bucket_meta, Pos(t))
    BY <1>3, <1>8, ChainAppend
  <2>3. QED
    BY <1>3, <2>1, <2>2 DEF FillStart
<1>10. Active(Master)' <=> Active(Master)
  BY <1>1 DEF Active, Master
<1>11. SentTo' = SentTo
  BY <1>1, <1>9, <1>10 DEF SentTo, SendStart, Start, Master
<1>12. /\ stream'[Master] = Append(stream[Master], c)
       /\ \A q \in Pool : stream'[q] = stream[q]
  BY <1>1, <1>2
<1>13. SenderBytes'
  <2> DEFINE b == bufs[Master][agent[Master].side]
  <2>1. Copying(weights, version, b, fill.bucket_meta, stream[Master])
        /\ Packed(fill.bucket_meta, t.offset)
    BY <1>4, <1>5 DEF SenderBytes
  <2> HIDE DEF b
  <2>2. /\ Copying(weights, version, b, Append(fill.bucket_meta, t), Append(stream[Master], c))
        /\ Packed(Append(fill.bucket_meta, t), fill'.offset)
    BY <1>2, <1>3, <1>5, <1>6, <1>8, <2>1, CopyingAppend
  <2>3. Active(Master)' =>
           Held(weights', version', bufs'[Master][op'[Master].side],
                op'[Master].meta.bucket_meta)
    BY <1>1, <1>4, <1>7, <1>10 DEF SenderBytes
  <2>4. QED
    BY <1>1, <1>3, <1>7, <1>12, <2>2, <2>3 DEF SenderBytes, b, Master
<1>14. SenderLast' /\ (LastSent => LastSent')
  BY <1>1, <1>4, <1>10 DEF SenderLast, LastSent, Master
<1>15. BufferTypes'
  BY <1>1, <1>4 DEF BufferTypes, Processes, Master
<1>16. \A q \in Pool :
          /\ op'[q] = op[q] /\ agent'[q] = agent[q] /\ stream'[q] = stream[q]
          /\ bufs'[q] = bufs[q]
  BY <1>1, <1>12
<1>17. QED
  BY <1>1, <1>11, <1>13, <1>14, <1>15, <1>16, SenderBytesFrame

\* A bucket is sent when all its copies are done.
LEMMA SendBucketBytes ==
    ASSUME BroadcastIInv, BytesInv, SendBucket
    PROVE  BytesInv'
<1> DEFINE n == NewOp(agent[Master].side, Bucket(weights, fill))
<1>1. /\ stage = "update" /\ agent[Master].phase = "fill"
      /\ stream[Master] = <<>> /\ Idle(Master)
      /\ op' = [op EXCEPT ![Master] = n]
      /\ agent' = IF MoreChunks(weights, fill)
                  THEN [agent EXCEPT ![Master].side = 1 - agent[Master].side]
                  ELSE [agent EXCEPT ![Master].phase = "last"]
      /\ fill' = NewBucket(fill)
      /\ UNCHANGED managerVars
      /\ UNCHANGED <<bufs, stream, got>>
  BY DEF SendBucket, Synchronize, AwaitOp, zmqVars
<1>2. /\ Master \in Processes /\ Master \notin Pool /\ Pool \subseteq Processes
      /\ agent[Master] \in AgentStates /\ agent \in [Processes -> AgentStates]
      /\ fill \in FillStates /\ op \in [Processes -> OpStates] /\ FillInv
  BY <1>1, SenderFacts
<1>3. /\ fill'.wi = fill.wi /\ fill'.co = fill.co /\ fill'.offset = 0
      /\ fill'.bucket_meta = <<>>
  BY <1>1, <1>2, NewBucketFacts
<1>4. /\ n.state = "meta" /\ n.side = agent[Master].side
      /\ n.meta.bucket_meta = fill.bucket_meta
      /\ n.meta.is_last <=> ~MoreChunks(weights, fill)
  BY DEF NewOp, Bucket
<1>5. SenderBytes /\ BufferTypes /\ weights \in Sizes
  BY <1>1, UpdateFacts
<1>6. weights' = weights /\ version' = version
  BY <1>1 DEF managerVars
<1> HIDE DEF n
<1>7. op'[Master] = n /\ \A q \in Pool : op'[q] = op[q]
  BY <1>1, <1>2
<1>8. /\ \A q \in Pool : agent'[q] = agent[q]
      /\ \/ MoreChunks(weights, fill) /\ agent'[Master].phase = "fill"
         \/ ~MoreChunks(weights, fill) /\ agent'[Master].phase = "last"
  <2>1. CASE MoreChunks(weights, fill)
    <3>1. agent'[Master] = [agent[Master] EXCEPT !.side = 1 - agent[Master].side]
      BY <1>1, <1>2, <2>1
    <3>2. agent'[Master].phase = agent[Master].phase
      BY <1>2, <3>1 DEF AgentStates
    <3>3. QED
      BY <1>1, <1>2, <2>1, <3>2
  <2>2. CASE ~MoreChunks(weights, fill)
    <3>1. agent'[Master] = [agent[Master] EXCEPT !.phase = "last"]
      BY <1>1, <1>2, <2>2
    <3>2. agent'[Master].phase = "last"
      BY <1>2, <3>1 DEF AgentStates
    <3>3. QED
      BY <1>1, <1>2, <2>2, <3>2
  <2>3. QED
    BY <2>1, <2>2
<1>9. ~Active(Master) /\ Active(Master)'
  BY <1>1, <1>4, <1>7 DEF Active, Idle, Master
<1>10. FillPos' = FillPos /\ FillStart' = FillPos
  BY <1>3 DEF FillPos, FillStart, Start
<1>11. SentTo' = SentTo
  <2>1. SentTo' = Start(op'[Master].meta.bucket_meta, FillStart')
    BY <1>9 DEF SentTo, SendStart, Start, Master
  <2>2. SentTo = Start(fill.bucket_meta, FillPos)
    BY <1>9 DEF SentTo, FillStart
  <2>3. QED
    BY <1>4, <1>7, <1>10, <2>1, <2>2
<1>12. SenderBytes'
  <2>1. Held(weights, version, bufs[Master][agent[Master].side], fill.bucket_meta)
    <3>1. fill.bucket_meta \in Seq(Chunks)
      BY <1>2 DEF FillStates
    <3>2. Copying(weights, version, bufs[Master][agent[Master].side], fill.bucket_meta, <<>>)
      BY <1>1, <1>5 DEF SenderBytes
    <3>3. QED
      BY <3>1, <3>2, CopyingDone
  <2>2. Held(weights', version', bufs'[Master][op'[Master].side],
             op'[Master].meta.bucket_meta)
    BY <1>1, <1>4, <1>6, <1>7, <2>1
  <2>3. /\ Copying(weights', version', bufs'[Master][agent'[Master].side], <<>>, <<>>)
        /\ Packed(<<>>, fill'.offset)
    BY CopyingNone
  <2>4. QED
    BY <1>1, <1>3, <2>2, <2>3 DEF SenderBytes, Master
<1>13. SenderLast'
  <2>1. ASSUME ~MoreChunks(weights, fill) PROVE FillPos = EndOf(weights)
    <3>1. fill.wi \in Nat /\ Len(weights) \in Nat /\ ~(fill.wi <= Len(weights))
      BY <1>2, <1>5, <2>1 DEF FillStates, MoreChunks, Sizes
    <3>2. fill.wi \in 1..Len(weights) + 1 /\ (fill.wi > Len(weights) => fill.co = 0)
      BY <1>2 DEF FillInv
    <3>3. fill.wi = Len(weights) + 1 /\ fill.co = 0
      BY <3>1, <3>2
    <3>4. QED
      BY <3>3 DEF FillPos, EndOf
  <2>2. agent'[Master].phase # "fill" => fill'.bucket_meta = <<>> /\ FillPos' = EndOf(weights')
    BY <1>3, <1>6, <1>8, <1>10, <2>1
  <2>3. op'[Master].meta.is_last => agent'[Master].phase # "fill"
    BY <1>4, <1>7, <1>8
  <2>4. QED
    BY <2>2, <2>3 DEF SenderLast, Master
<1>14. LastSent => LastSent'
  BY <1>1 DEF LastSent
<1>15. BufferTypes'
  BY <1>1, <1>5 DEF BufferTypes, Processes, Master
<1>16. \A q \in Pool :
          /\ op'[q] = op[q] /\ agent'[q] = agent[q] /\ stream'[q] = stream[q]
          /\ bufs'[q] = bufs[q]
  BY <1>1, <1>7, <1>8
<1>17. QED
  BY <1>1, <1>11, <1>12, <1>13, <1>14, <1>15, <1>16, SenderBytesFrame

\* The sender ends with an empty bucket.
LEMMA FinishSendBytes ==
    ASSUME BroadcastIInv, BytesInv, FinishSend
    PROVE  BytesInv'
<1>1. /\ agent[Master].phase = "last"
      /\ agent' = [agent EXCEPT ![Master].phase = "done"]
      /\ UNCHANGED managerVars
      /\ UNCHANGED <<fill, op, bufs, stream, got>>
  BY DEF FinishSend, zmqVars
<1>2. stage = "update"
  BY <1>1, BusyInUpdate, TransferConstants
<1>3. /\ Master \in Processes /\ Master \notin Pool /\ Pool \subseteq Processes
      /\ agent[Master] \in AgentStates /\ agent \in [Processes -> AgentStates]
  BY <1>2, SenderFacts
<1>4. SenderBytes /\ SenderLast /\ BufferTypes
  BY <1>2, UpdateFacts
<1>5. /\ agent'[Master].phase = "done" /\ agent'[Master].side = agent[Master].side
      /\ \A q \in Pool : agent'[q] = agent[q]
  <2>1. /\ agent'[Master] = [agent[Master] EXCEPT !.phase = "done"]
        /\ \A q \in Pool : agent'[q] = agent[q]
    BY <1>1, <1>3
  <2>2. QED
    BY <1>3, <2>1 DEF AgentStates
<1>6. SentTo' = SentTo /\ FillPos' = FillPos /\ (Active(Master)' <=> Active(Master))
  BY <1>1, SentToKept
<1>7. weights' = weights /\ version' = version
  BY <1>1 DEF managerVars
<1>8. SenderBytes'
  BY <1>1, <1>4, <1>5, <1>6, <1>7 DEF SenderBytes, Master
<1>9. SenderLast' /\ (LastSent => LastSent')
  BY <1>1, <1>4, <1>5, <1>6, <1>7 DEF SenderLast, LastSent, Master
<1>10. BufferTypes'
  BY <1>1, <1>4 DEF BufferTypes, Processes, Master
<1>11. \A q \in Pool :
          /\ op'[q] = op[q] /\ agent'[q] = agent[q] /\ stream'[q] = stream[q]
          /\ bufs'[q] = bufs[q]
  BY <1>1, <1>5
<1>12. QED
  BY <1>1, <1>2, <1>6, <1>8, <1>9, <1>10, <1>11, SenderBytesFrame

\* A copy into the bucket does not touch the one being sent.
LEMMA CopyInBytes ==
    ASSUME BroadcastIInv, BytesInv, CopyIn
    PROVE  BytesInv'
<1> DEFINE c == Head(stream[Master])
           i == agent[Master].side
           old == bufs[Master][i]
           new == WriteChunk(old, version, c.meta)
<1>1. /\ stream[Master] # <<>>
      /\ bufs' = [bufs EXCEPT ![Master][c.side] = WriteChunk(@, version, c.meta)]
      /\ stream' = [stream EXCEPT ![Master] = Tail(stream[Master])]
      /\ UNCHANGED managerVars
      /\ UNCHANGED <<fill, agent, op, got>>
  BY DEF CopyIn, zmqVars
<1>2. stage = "update"
  BY <1>1, BusyInUpdate, TransferConstants
<1>3. /\ Master \in Processes /\ Master \notin Pool /\ Pool \subseteq Processes
      /\ stream[Master] \in Seq(Copies) /\ stream \in [Processes -> Seq(Copies)]
      /\ agent[Master] \in AgentStates /\ op[Master] \in OpStates /\ fill \in FillStates
      /\ SenderOK
  BY <1>2, SenderFacts
<1>4. SenderBytes /\ SenderLast /\ version \in Nat
      /\ bufs \in [Processes -> [{0, 1} -> Buffers]]
  BY <1>2, UpdateFacts DEF BufferTypes
<1>5. i \in {0, 1} /\ op[Master].side \in {0, 1} /\ fill.bucket_meta \in Seq(Chunks)
  BY <1>3 DEF AgentStates, OpStates, FillStates
<1>6. c.side = i /\ agent[Master].phase = "fill"
  <2>1. 1 \in 1..Len(stream[Master]) /\ c = stream[Master][1]
    BY <1>1, <1>3
  <2>2. QED
    BY <1>1, <1>3, <2>1 DEF SenderOK, SideOK
<1>7. old \in Buffers
  BY <1>3, <1>4, <1>5
<1>8. Copying(weights, version, old, fill.bucket_meta, stream[Master])
      /\ Packed(fill.bucket_meta, fill.offset)
  BY <1>4 DEF SenderBytes
<1> HIDE DEF old
<1>9. new \in Buffers /\ Copying(weights, version, new, fill.bucket_meta, Tail(stream[Master]))
  BY <1>1, <1>3, <1>4, <1>5, <1>7, <1>8, CopyingTail
<1>10. bufs' = [bufs EXCEPT ![Master] = [bufs[Master] EXCEPT ![i] = new]]
  BY <1>1, <1>3, <1>4, <1>6 DEF old
<1> HIDE DEF new, i, c
<1>11. /\ bufs' \in [Processes -> [{0, 1} -> Buffers]]
       /\ bufs'[Master][i] = new
       /\ \A j \in {0, 1} : j # i => bufs'[Master][j] = bufs[Master][j]
       /\ \A q \in Pool : bufs'[q] = bufs[q]
  <2> DEFINE b == [bufs[Master] EXCEPT ![i] = new]
  <2>1. bufs[Master] \in [{0, 1} -> Buffers]
    BY <1>3, <1>4
  <2>2. b \in [{0, 1} -> Buffers] /\ b[i] = new
        /\ \A j \in {0, 1} : j # i => b[j] = bufs[Master][j]
    BY <1>5, <1>9, <2>1
  <2>3. bufs' = [bufs EXCEPT ![Master] = b]
    BY <1>10
  <2> HIDE DEF b
  <2>4. bufs'[Master] = b /\ \A q \in Pool : bufs'[q] = bufs[q]
    BY <1>3, <1>4, <2>3
  <2>5. bufs' \in [Processes -> [{0, 1} -> Buffers]]
    BY <1>4, <2>2, <2>3
  <2>6. QED
    BY <2>2, <2>4, <2>5
<1>12. /\ SentTo' = SentTo /\ FillPos' = FillPos /\ (Active(Master)' <=> Active(Master))
  BY <1>1, SentToKept
<1>13. weights' = weights /\ version' = version
  BY <1>1 DEF managerVars
<1>14. stream'[Master] = Tail(stream[Master]) /\ \A q \in Pool : stream'[q] = stream[q]
  BY <1>1, <1>3
<1>15. SenderBytes'
  <2>1. Copying(weights', version', bufs'[Master][agent'[Master].side], fill'.bucket_meta,
                stream'[Master])
    BY <1>1, <1>9, <1>11, <1>13, <1>14 DEF i
  <2>2. ASSUME Active(Master)
        PROVE  bufs'[Master][op[Master].side] = bufs[Master][op[Master].side]
    <3>1. op[Master].side = 1 - i
      BY <1>3, <1>6, <2>2 DEF SenderOK, SideOK, i
    <3>2. op[Master].side # i
      BY <1>5, <3>1
    <3>3. QED
      BY <1>5, <1>11, <3>2
  <2>3. Active(Master) =>
           Held(weights', version', bufs'[Master][op'[Master].side],
                op'[Master].meta.bucket_meta)
    BY <1>1, <1>4, <1>13, <2>2 DEF SenderBytes
  <2>4. Packed(fill'.bucket_meta, fill'.offset)
    BY <1>1, <1>8
  <2>5. QED
    BY <1>12, <2>1, <2>3, <2>4 DEF SenderBytes, Master
<1>16. SenderLast' /\ (LastSent => LastSent')
  BY <1>1, <1>4, <1>12, <1>13 DEF SenderLast, LastSent, Master
<1>17. BufferTypes'
  BY <1>11 DEF BufferTypes, Processes, Master
<1>18. \A q \in Pool :
          /\ op'[q] = op[q] /\ agent'[q] = agent[q] /\ stream'[q] = stream[q]
          /\ bufs'[q] = bufs[q]
  BY <1>1, <1>11, <1>14
<1>19. QED
  BY <1>1, <1>2, <1>12, <1>15, <1>16, <1>17, <1>18, SenderBytesFrame

\* Publishing and subscribing move no bytes.
LEMMA PublishMetaBytes ==
    ASSUME BroadcastIInv, BytesInv, PublishMeta
    PROVE  BytesInv'
<1>1. /\ op[Master].state = "meta"
      /\ op' = [op EXCEPT ![Master].state = "nccl"]
      /\ UNCHANGED managerVars /\ UNCHANGED <<fill, agent, bufs, stream, got>>
  BY DEF PublishMeta
<1>2. stage = "update"
  BY <1>1, BusyInUpdate, TransferConstants DEF Idle
<1>3. /\ Master \in Processes /\ Master \notin Pool /\ Pool \subseteq Processes
      /\ op[Master] \in OpStates /\ op \in [Processes -> OpStates]
  BY <1>2, SenderFacts
<1>4. SenderBytes /\ SenderLast /\ BufferTypes
  BY <1>2, UpdateFacts
<1>5. /\ op'[Master].state = "nccl" /\ op'[Master].side = op[Master].side
      /\ op'[Master].meta = op[Master].meta /\ \A q \in Pool : op'[q] = op[q]
  <2>1. /\ op'[Master] = [op[Master] EXCEPT !.state = "nccl"]
        /\ \A q \in Pool : op'[q] = op[q]
    BY <1>1, <1>3
  <2>2. QED
    BY <1>3, <2>1 DEF OpStates
<1>6. Active(Master) /\ Active(Master)'
  BY <1>1, <1>5 DEF Active, Master
<1>7. FillPos' = FillPos /\ FillStart' = FillStart
  BY <1>1 DEF FillPos, FillStart, Start
<1>8. SentTo' = SentTo
  BY <1>5, <1>6, <1>7 DEF SentTo, SendStart, Start, Master
<1>9. weights' = weights /\ version' = version
  BY <1>1 DEF managerVars
<1>10. SenderBytes'
  BY <1>1, <1>4, <1>5, <1>6, <1>9 DEF SenderBytes, Master
<1>11. SenderLast' /\ (LastSent => LastSent')
  BY <1>1, <1>4, <1>5, <1>6, <1>7, <1>9 DEF SenderLast, LastSent, Master
<1>12. BufferTypes'
  BY <1>1, <1>4 DEF BufferTypes, Processes, Master
<1>13. \A q \in Pool :
          /\ op'[q] = op[q] /\ agent'[q] = agent[q] /\ stream'[q] = stream[q]
          /\ bufs'[q] = bufs[q]
  BY <1>1, <1>5
<1>14. QED
  BY <1>1, <1>2, <1>8, <1>10, <1>11, <1>12, <1>13, SenderBytesFrame

\* Subscribing to the metadata moves no bytes.
LEMMA SubscribeBytes ==
    ASSUME BroadcastIInv, BytesInv, NEW p \in Pool, Subscribe(p)
    PROVE  BytesInv'
<1>1. /\ stage = "update"
      /\ UNCHANGED managerVars /\ UNCHANGED <<fill, agent, op, bufs, stream, got>>
  BY DEF Subscribe
<1>2. SenderBytes /\ SenderLast /\ BufferTypes
  BY <1>1, UpdateFacts
<1>3. weights' = weights /\ version' = version
  BY <1>1 DEF managerVars
<1>4. SenderBytes' /\ SenderLast' /\ (LastSent => LastSent')
  BY <1>1, <1>2, <1>3, SenderBytesKept
<1>5. SentTo' = SentTo
  BY <1>1, SentToKept
<1>6. BufferTypes'
  BY <1>1, <1>2 DEF BufferTypes, Processes, Master
<1>7. QED
  BY <1>1, <1>4, <1>5, <1>6, SenderBytesFrame

-----------------------------------------------------------------------------
(* Steps of all together *)

\* The broadcast puts the sender's bucket where the metadata of every worker
\* says it is, and leaves alone what the worker hands on.
LEMMA BroadcastBytes ==
    ASSUME BroadcastIInv, BytesInv, Broadcast
    PROVE  BytesInv'
<1> DEFINE b == bufs[Master][op[Master].side]
<1>1. /\ \A p \in Everyone : op[p].state = "nccl"
      /\ bufs' = [p \in Processes |-> IF p \in Members
                     THEN [bufs[p] EXCEPT ![op[p].side] = b] ELSE bufs[p]]
      /\ op' = [p \in Processes |-> IF p \in Everyone
                                    THEN [op[p] EXCEPT !.state = "done"] ELSE op[p]]
      /\ UNCHANGED managerVars
      /\ UNCHANGED <<fill, agent, stream, got>>
  BY DEF Broadcast, Joined, zmqVars
<1>2. Master \in Everyone /\ Members \subseteq Everyone
  BY DEF Everyone
<1>3. op[Master].state = "nccl"
  BY <1>1, <1>2
<1>4. stage = "update"
  BY <1>3, BusyInUpdate, TransferConstants DEF Idle
<1>5. /\ Master \in Processes /\ op \in [Processes -> OpStates]
      /\ agent \in [Processes -> AgentStates] /\ \A q \in Members : WorkerOK(q)
  BY <1>4, SenderFacts
<1>6. /\ BufferTypes /\ version \in Nat \ {0} /\ SenderBytes /\ SenderLast
      /\ DOMAIN got = Members /\ got = [r \in Members |-> got[r]]
      /\ \A q \in Members : WorkerBytes(q)
      /\ Members \subseteq Processes /\ Master \notin Members
  BY <1>4, UpdateFacts
<1>7. bufs \in [Processes -> [{0, 1} -> Buffers]]
  BY <1>6 DEF BufferTypes
<1>8. ASSUME NEW q \in Everyone
      PROVE  /\ op'[q].state = "done" /\ op'[q].meta = op[q].meta
             /\ op'[q].side = op[q].side /\ op[q].side \in {0, 1}
  <2>1. q \in Processes
    BY <1>5, <1>6 DEF Everyone
  <2>2. op[q] \in OpStates /\ op'[q] = [op[q] EXCEPT !.state = "done"]
    BY <1>1, <1>5, <2>1
  <2>3. QED
    BY <2>2 DEF OpStates
<1>9. b \in Buffers
  BY <1>2, <1>5, <1>7, <1>8
<1> HIDE DEF b
<1>10. ASSUME NEW q \in Members
       PROVE  /\ bufs'[q] \in [{0, 1} -> Buffers] /\ bufs'[q][op[q].side] = b
              /\ \A j \in {0, 1} : j # op[q].side => bufs'[q][j] = bufs[q][j]
  <2>1. q \in Processes /\ op[q].side \in {0, 1} /\ bufs[q] \in [{0, 1} -> Buffers]
    BY <1>2, <1>6, <1>7, <1>8
  <2>2. bufs'[q] = [bufs[q] EXCEPT ![op[q].side] = b]
    BY <1>1, <2>1
  <2>3. QED
    BY <1>9, <2>1, <2>2
<1>11. bufs'[Master] = bufs[Master]
  BY <1>1, <1>5, <1>6
<1>12. BufferTypes'
  <2>1. ASSUME NEW q \in Processes PROVE bufs'[q] \in [{0, 1} -> Buffers]
    <3>1. CASE q \in Members
      BY <1>10, <3>1
    <3>2. CASE q \notin Members
      BY <1>1, <1>7, <3>2
    <3>3. QED
      BY <3>1, <3>2
  <2>2. bufs' = [q \in Processes |-> bufs'[q]]
    BY <1>1
  <2>3. bufs' \in [Processes -> [{0, 1} -> Buffers]]
    BY <2>1, <2>2
  <2>4. QED
    BY <2>3 DEF BufferTypes, Processes, Master
<1>13. stage' = "update" /\ Members' = Members /\ weights' = weights /\ version' = version
  BY <1>1, <1>4 DEF managerVars, Members
<1>14. Active(Master) /\ ~Active(Master)'
  BY <1>2, <1>3, <1>8 DEF Active, Master
<1>15. FillPos' = FillPos /\ FillStart' = FillStart
  BY <1>1 DEF FillPos, FillStart, Start
<1>16. SentTo = Start(op[Master].meta.bucket_meta, FillStart) /\ SentTo' = FillStart
  BY <1>14, <1>15 DEF SentTo, SendStart
<1>17. SenderBytes' /\ SenderLast'
  BY <1>1, <1>6, <1>11, <1>13, <1>14, <1>15 DEF SenderBytes, SenderLast, Master
<1>18. (op[Master].meta.is_last => LastSent') /\ ~LastSent
  BY <1>1, <1>6, <1>14 DEF SenderLast, LastSent, Master
<1>19. Held(weights, version, b, op[Master].meta.bucket_meta)
  BY <1>6, <1>14 DEF SenderBytes, b
<1>20. ASSUME NEW q \in Members PROVE WorkerBytes(q)'
  <2>1. /\ op[q].state = "nccl" /\ op'[q].state = "done" /\ op'[q].meta = op[q].meta
        /\ op'[q].side = op[q].side /\ op[q].side \in {0, 1} /\ WorkerOK(q)
        /\ WorkerBytes(q) /\ agent[q] \in AgentStates /\ q # Master
    BY <1>1, <1>2, <1>5, <1>6, <1>8
  <2>2. op[q].meta = op[Master].meta
    BY <1>3, <2>1 DEF WorkerOK, MailOK
  <2>3. op[q].side = 1 - agent[q].side
    BY <2>1 DEF WorkerOK, SideOK, Active
  <2>4. agent[q].side \in {0, 1} /\ agent[q].side # op[q].side
    <3>1. agent[q].side \in {0, 1}
      BY <2>1 DEF AgentStates
    <3>2. QED
      BY <2>3, <3>1
  <2>5. bufs'[q][agent[q].side] = bufs[q][agent[q].side] /\ bufs'[q][op[q].side] = b
    BY <1>10, <2>4
  <2>6. ~Pending(q) /\ Pending(q)'
    BY <1>1, <2>1 DEF WorkerOK, PhaseOK, Active, Pending
  <2>7. MergePos(q)' = MergePos(q)
    <3>1. BucketEnd(q)' = Start(op'[q].meta.bucket_meta, SentTo')
      BY <2>6 DEF BucketEnd, Start
    <3>2. BucketEnd(q) = SentTo
      BY <2>6 DEF BucketEnd
    <3>3. BucketEnd(q)' = BucketEnd(q)
      BY <1>16, <2>1, <2>2, <3>1, <3>2
    <3>4. QED
      BY <1>1, <3>3 DEF MergePos
  <2>8. BucketsOK(q)'
    <3>1. Held(weights', version', bufs'[q][op'[q].side], op'[q].meta.bucket_meta)
      BY <1>13, <1>19, <2>1, <2>2, <2>5
    <3>2. op'[q].meta.is_last => LastSent'
      BY <1>18, <2>1, <2>2
    <3>3. op'[q].side = 1 - agent'[q].side
      BY <1>1, <2>1, <2>3
    <3>4. agent[q].phase \in {"top", "yield"} =>
             /\ Held(weights', version', bufs'[q][agent'[q].side], agent'[q].meta.bucket_meta)
             /\ agent'[q].meta.is_last => LastSent'
      BY <1>1, <1>13, <1>18, <2>1, <2>5 DEF WorkerBytes, BucketsOK
    <3>5. QED
      BY <1>1, <3>1, <3>2, <3>3, <3>4 DEF BucketsOK
  <2>9. ServerOK(q)'
    <3>1. Queued(q)' = Queued(q) /\ GotTo(q)' = GotTo(q)
      BY <1>1, <1>13, <2>7 DEF Queued, GotTo
    <3>2. QED
      BY <1>1, <1>13, <2>1, <2>5, <2>7, <3>1 DEF WorkerBytes, ServerOK
  <2>10. QED
    BY <2>8, <2>9 DEF WorkerBytes
<1>21. version' > 0 /\ DOMAIN got' = Members /\ got' = [r \in Members |-> got'[r]]
  <2>1. version' > 0
    BY <1>6, <1>13
  <2>2. DOMAIN got' = Members /\ got' = [r \in Members |-> got'[r]]
    BY <1>1, <1>6
  <2>3. QED
    BY <2>1, <2>2
<1>22. QED
  BY <1>12, <1>13, <1>17, <1>20, <1>21 DEF BytesInv

\* An update starts with nothing received, in buffers that hold nothing.
LEMMA BeginUpdateBytes ==
    ASSUME BroadcastIInv, BytesInv, BeginUpdate
    PROVE  BytesInv'
<1>1. /\ stage = "idle" /\ stage' = "update" /\ version' = version + 1
      /\ fill' = StartFill
      /\ agent' = [p \in Processes |-> IF p \in Everyone THEN Fresh(p) ELSE agent[p]]
      /\ op' = [p \in Processes |-> IF p \in Members THEN NewOp(1, NoBucket) ELSE NoOp]
      /\ bufs' = [p \in Processes |-> [s \in {0, 1} |-> Zeros]]
      /\ got' = [p \in Members |-> Nothing]
      /\ UNCHANGED <<weights, replicas, stream>>
  BY DEF BeginUpdate
<1>2. replicas \in Seq(Pool) /\ version \in Nat /\ weights \in Sizes
  BY TransferConstants DEF BroadcastIInv, Types, ManagerTypes, FillInv, Sizes
<1>3. /\ Members \subseteq Processes /\ Master \notin Members /\ Master \in Processes
      /\ Everyone = {Master} \cup Members
  BY <1>2, MembersFacts
<1>4. Members' = Members
  BY <1>1 DEF Members
<1>5. \A p \in Processes : stream[p] = <<>>
  BY <1>1 DEF BroadcastIInv, QuietInv
<1>6. fill'.offset = 0 /\ fill'.bucket_meta = <<>> /\ FillPos' = <<1, 0>>
      /\ FillStart' = <<1, 0>>
  BY <1>1 DEF StartFill, FillPos, FillStart, Start
<1>7. agent'[Master].phase = "fill" /\ op'[Master].state = "none" /\ stream'[Master] = <<>>
  BY <1>1, <1>3, <1>5, FreshFacts, FreshOps
<1>8. ~Active(Master)' /\ SentTo' = <<1, 0>>
  <2>1. ~Active(Master)'
    BY <1>7 DEF Active, Master
  <2>2. QED
    BY <1>6, <2>1 DEF SentTo
<1>9. BufferTypes'
  <2>1. <<0, 0, 0>> \in Bytes
    BY DEF Bytes
  <2>2. Zeros \in Buffers
    BY <2>1 DEF Zeros, Buffers
  <2>3. bufs' \in [Processes -> [{0, 1} -> Buffers]]
    BY <1>1, <2>2
  <2>4. QED
    BY <2>3 DEF BufferTypes, Processes, Master
<1>10. SenderBytes'
  <2>1. /\ Copying(weights', version', bufs'[Master][agent'[Master].side], <<>>, <<>>)
        /\ Packed(<<>>, fill'.offset)
    BY CopyingNone
  <2>2. QED
    BY <1>6, <1>7, <1>8, <2>1 DEF SenderBytes, Master
<1>11. SenderLast'
  BY <1>7, <1>8 DEF SenderLast, Master
<1>12. version' \in Nat /\ version' > 0
  BY <1>1, <1>2
<1>13. /\ Nothing \in Servers(weights') /\ Received(weights', version', Nothing, <<1, 0>>)
  <2>1. Nothing = [n \in 1..Len(weights') |-> <<>>] /\ weights' \in Sizes
    BY <1>1, <1>2 DEF Nothing
  <2>2. QED
    BY <1>12, <2>1, ReceivedEnds
<1>14. Metadata(<<>>) = <<>>
  <2>1. <<>> \in Seq(Copies)
    OBVIOUS
  <2>2. QED
    BY <2>1, MetadataFacts
<1>15. ASSUME NEW q \in Members PROVE WorkerBytes(q)'
  <2>1. q \in Processes /\ q \in Everyone /\ q # Master
    BY <1>3
  <2>2. agent'[q].phase = "first" /\ op'[q].state = "meta" /\ got'[q] = Nothing
    BY <1>1, <2>1, FreshFacts, FreshOps
  <2>3. Queued(q)' = <<>>
    BY <1>1, <1>5, <1>14, <2>1 DEF Queued
  <2>4. ~Pending(q)' /\ MergePos(q)' = <<1, 0>>
    <3>1. ~Pending(q)'
      BY <2>2 DEF Pending
    <3>2. QED
      BY <1>8, <2>2, <3>1 DEF MergePos, BucketEnd
  <2>5. GotTo(q)' = <<1, 0>>
    BY <2>2, <2>3, <2>4 DEF GotTo, Start
  <2>6. BucketsOK(q)'
    BY <2>2, <2>4 DEF BucketsOK
  <2>7. Chain(<<>>, MergePos(q)')
    BY DEF Chain
  <2>8. Held(weights', version', bufs'[q][agent'[q].side], <<>>)
    BY DEF Held
  <2>9. ServerOK(q)'
    BY <1>13, <2>2, <2>3, <2>5, <2>7, <2>8 DEF ServerOK
  <2>10. QED
    BY <2>6, <2>9 DEF WorkerBytes
<1>16. DOMAIN got' = Members /\ got' = [r \in Members |-> got'[r]]
  BY <1>1
<1>17. QED
  BY <1>1, <1>4, <1>9, <1>10, <1>11, <1>12, <1>15, <1>16 DEF BytesInv

\* An update ends when every worker has come to the end.
LEMMA FinalizeBytes ==
    ASSUME BroadcastIInv, BytesInv, Finalize
    PROVE  BytesInv'
<1>1. /\ stage = "update" /\ stage' = "idle"
      /\ \A p \in Everyone : agent[p].phase = "done"
      /\ UNCHANGED <<weights, version, bufs, got>>
  BY DEF Finalize
<1>2. /\ BufferTypes /\ DOMAIN got = Members /\ \A q \in Members : WorkerBytes(q)
  BY <1>1, UpdateFacts
<1>3. ASSUME NEW r \in DOMAIN got PROVE Received(weights, version, got[r], EndOf(weights))
  <2>1. r \in Members /\ agent[r].phase = "done"
    BY <1>1, <1>2 DEF Everyone
  <2>2. QED
    BY <1>2, <2>1 DEF WorkerBytes, ServerOK, GotTo
<1>4. BufferTypes'
  BY <1>1, <1>2 DEF BufferTypes, Processes, Master
<1>5. QED
  BY <1>1, <1>3, <1>4 DEF BytesInv

\* Outside an update nothing moves.
LEMMA RestBytes ==
    ASSUME BytesInv, stage # "update", stage' # "update",
           UNCHANGED <<weights, version, bufs, got>>
    PROVE  BytesInv'
  BY DEF BytesInv, BufferTypes, Processes, Master

\* Before the first update there is nothing to account for.
LEMMA BytesInit == Init => BytesInv
<1> SUFFICES ASSUME Init PROVE BytesInv
  OBVIOUS
<1>1. /\ stage = "idle" /\ version = 0
      /\ bufs = [p \in Processes |-> [s \in {0, 1} |-> Zeros]]
  BY DEF Init
<1>2. <<0, 0, 0>> \in Bytes
  BY DEF Bytes
<1>3. Zeros \in Buffers
  BY <1>2 DEF Zeros, Buffers
<1>4. BufferTypes
  BY <1>1, <1>3 DEF BufferTypes
<1>5. ~(version > 0)
  BY <1>1
<1>6. QED
  BY <1>1, <1>4, <1>5 DEF BytesInv

\* Every step keeps the bytes where they are believed to be.
LEMMA BytesNext == BroadcastIInv /\ BytesInv /\ [Next]_vars => BytesInv'
<1> SUFFICES ASSUME BroadcastIInv, BytesInv, [Next]_vars PROVE BytesInv'
  OBVIOUS
<1>1. CASE UNCHANGED vars
  <2>1. UNCHANGED managerVars /\ UNCHANGED <<fill, agent, op, bufs, stream, got>>
    BY <1>1 DEF vars
  <2>2. CASE stage = "update"
    <3>1. SenderBytes /\ SenderLast /\ BufferTypes
      BY <2>2, UpdateFacts
    <3>2. weights' = weights /\ version' = version
      BY <2>1 DEF managerVars
    <3>3. SenderBytes' /\ SenderLast' /\ (LastSent => LastSent')
      BY <2>1, <3>1, <3>2, SenderBytesKept
    <3>4. SentTo' = SentTo
      BY <2>1, SentToKept
    <3>5. BufferTypes'
      BY <2>1, <3>1 DEF BufferTypes, Processes, Master
    <3>6. QED
      BY <2>1, <2>2, <3>3, <3>4, <3>5, SenderBytesFrame
  <2>3. CASE stage # "update"
    BY <2>1, <2>3, RestBytes DEF managerVars
  <2>4. QED
    BY <2>2, <2>3
<1>2. CASE BeginUpdate \/ Finalize
  BY <1>2, BeginUpdateBytes, FinalizeBytes
<1>3. CASE InitGivesUp \/ \E p \in Pool : AddReplicas(p) \/ RemoveReplicas(p)
  <2>1. /\ stage = "idle" /\ stage' \in {"idle", "hung", "failed"}
        /\ UNCHANGED <<weights, version, bufs, got>>
    BY <1>3 DEF InitGivesUp, AddReplicas, RemoveReplicas
  <2>2. stage # "update" /\ stage' # "update"
    BY <2>1
  <2>3. QED
    BY <2>1, <2>2, RestBytes
<1>4. CASE SenderStep \/ CopyIn \/ PublishMeta \/ Broadcast
  BY <1>4, FillChunkBytes, SendBucketBytes, FinishSendBytes, CopyInBytes,
     PublishMetaBytes, BroadcastBytes DEF SenderStep
<1>5. CASE \E p \in Pool : Subscribe(p) \/ ReceiveMeta(p) \/ CopyOut(p)
  BY <1>5, SubscribeBytes, ReceiveMetaBytes, CopyOutBytes
<1>6. CASE \E p \in Pool : p \in Members /\ Step(p)
  BY <1>6, FirstBucketBytes, ReceiveNextBytes, YieldChunkBytes, EndRoundBytes,
     FinishReceiveBytes DEF Step
<1>7. QED
  BY <1>1, <1>2, <1>3, <1>4, <1>5, <1>6 DEF Next

-----------------------------------------------------------------------------
(* What the broadcasts promise *)

\* A new update begins only when everyone has everything.
LEMMA BeginDelivers ==
    ASSUME BroadcastIInv, BytesInv, BeginUpdate
    PROVE  Delivery!Begin
<1>1. /\ stage = "idle" /\ version' = version + 1 /\ weights' = weights
      /\ got' = [p \in Members |-> Nothing]
  BY DEF BeginUpdate
<1>2. version \in Nat /\ weights \in Sizes
  BY TransferConstants DEF BroadcastIInv, Types, ManagerTypes, FillInv, Sizes
<1>3. version = 0 \/ \A r \in DOMAIN got : Delivery!Complete(r)
  <2>1. SUFFICES ASSUME version # 0, NEW r \in DOMAIN got PROVE Delivery!Complete(r)
    OBVIOUS
  <2>2. version > 0
    BY <1>2, <2>1
  <2>3. Received(weights, version, got[r], EndOf(weights))
    BY <1>1, <2>2 DEF BytesInv
  <2>4. \A n \in 1..Len(weights) : Len(got[r][n]) = weights[n]
    BY <1>2, <2>3, ReceivedEnds
  <2>5. QED
    BY <2>4 DEF Delivery!Complete
<1>4. got' = [r \in DOMAIN got' |-> Delivery!Nothing]
  BY <1>1 DEF Nothing, Delivery!Nothing
<1>5. QED
  BY <1>1, <1>3, <1>4 DEF Delivery!Begin

\* What a worker's GPU copies to its server is the next part of the next weight.
LEMMA CopyOutDelivers ==
    ASSUME BroadcastIInv, BytesInv, NEW p \in Pool, CopyOut(p)
    PROVE  \E r \in DOMAIN got, n \in 1..Len(weights) : Delivery!Deliver(r, n)
<1> DEFINE t == Head(stream[p]).meta
           b == bufs[p][agent[p].side]
           len == t.chunk_offset + t.chunk_size
<1>1. /\ stage = "update" /\ p \in Members
      /\ t \in Chunks /\ IsChunk(t) /\ Real(weights, t)
      /\ Received(weights, version, got[p], Pos(t)) /\ Holds(version, b, t)
      /\ got' = [got EXCEPT ![p] = Copied(got[p], b, t)]
  BY CopyOutFacts
<1>2. weights' = weights /\ version' = version
  BY DEF CopyOut, managerVars
<1>3. /\ version \in Nat \ {0} /\ weights \in Sizes /\ WorkerBytes(p)
      /\ DOMAIN got = Members /\ got = [r \in Members |-> got[r]]
  BY <1>1, UpdateFacts
<1>4. got[p] \in Servers(weights)
  BY <1>3 DEF WorkerBytes, ServerOK
<1> HIDE DEF t, b
<1>5. /\ Copied(got[p], b, t) = [got[p] EXCEPT ![t.name] = Content(version, t.name, len)]
      /\ Len(got[p][t.name]) = t.chunk_offset
      /\ \A n \in 1..t.name - 1 : Len(got[p][n]) = weights[n]
  BY <1>1, <1>3, <1>4, CopiedFacts
<1>6. /\ t.name \in 1..Len(weights) /\ weights[t.name] \in Nat
      /\ t.chunk_offset \in Nat /\ t.chunk_size \in Nat
      /\ t.chunk_size >= 1 /\ t.chunk_offset + t.chunk_size <= weights[t.name]
  BY <1>1, <1>3, ChunkFacts
<1>7. len \in Len(got[p][t.name]) + 1..weights[t.name]
  BY <1>5, <1>6
<1> HIDE DEF len
<1>8. got' = [got EXCEPT ![p][t.name] = Delivery!Content(t.name, len)]
  <2>1. Delivery!Content(t.name, len) = Content(version, t.name, len)
    BY DEF Content, Delivery!Content
  <2>2. [got EXCEPT ![p][t.name] = Content(version, t.name, len)]
          = [got EXCEPT ![p] = [got[p] EXCEPT ![t.name] = Content(version, t.name, len)]]
    BY <1>1, <1>3
  <2>3. QED
    BY <1>1, <1>5, <2>1, <2>2
<1>9. version > 0
  BY <1>3
<1>10. Delivery!Deliver(p, t.name)
  BY <1>2, <1>5, <1>7, <1>8, <1>9 DEF Delivery!Deliver
<1>11. QED
  BY <1>1, <1>3, <1>6, <1>10

\* Every step is one of the delivery or none.
LEMMA DeliveryStep ==
    BroadcastIInv /\ BytesInv /\ [Next]_vars => [Delivery!DNext]_(Delivery!dvars)
<1> SUFFICES ASSUME BroadcastIInv, BytesInv, [Next]_vars
             PROVE  Delivery!DNext \/ UNCHANGED <<weights, version, got>>
  BY DEF Delivery!dvars
<1>1. CASE UNCHANGED vars
  BY <1>1 DEF vars, managerVars
<1>2. CASE BeginUpdate
  BY <1>2, BeginDelivers DEF Delivery!DNext
<1>3. CASE \E p \in Pool : CopyOut(p)
  BY <1>3, CopyOutDelivers DEF Delivery!DNext
<1>4. CASE \/ InitGivesUp \/ Finalize
           \/ \E p \in Pool : AddReplicas(p) \/ RemoveReplicas(p)
  BY <1>4 DEF InitGivesUp, Finalize, AddReplicas, RemoveReplicas
<1>5. CASE SenderStep \/ CopyIn \/ PublishMeta \/ Broadcast
  BY <1>5 DEF SenderStep, FillChunk, SendBucket, FinishSend, CopyIn, PublishMeta,
              Broadcast, managerVars
<1>6. CASE \E p \in Pool : Subscribe(p) \/ ReceiveMeta(p)
  BY <1>6 DEF Subscribe, ReceiveMeta, managerVars
<1>7. CASE \E p \in Pool : p \in Members /\ Step(p)
  BY <1>7 DEF Step, FirstBucket, ReceiveNext, YieldChunk, EndRound, FinishReceive,
              managerVars
<1>8. QED
  BY <1>1, <1>2, <1>3, <1>4, <1>5, <1>6, <1>7 DEF Next

\* With any number of workers and any weights, however threads, GPUs, NCCL and
\* ZeroMQ interleave and whichever subscriptions come too late: what a worker's
\* server gets are the bytes of the weights of the update, in the generator's
\* order and none twice, and the next update begins only when every server of
\* the last one has them all.
THEOREM BroadcastDelivers == Spec => ImplementsDelivery
<1>1. Init => Delivery!DInit
  BY DEF Init, Nothing, Delivery!DInit, Delivery!Nothing
<1>2. QED
  BY <1>1, BroadcastInit, BroadcastNext, BytesInit, BytesNext, DeliveryStep, PTL
  DEF Spec, ImplementsDelivery, Delivery!DeliverySpec
=============================================================================

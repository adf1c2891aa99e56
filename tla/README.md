# TLA+ verification of the asynchronous reinforcement-learning trainer

The repository (`src/task/verl/verl`) is a distributed reinforcement-learning
trainer for language models. Its fully asynchronous mode generates samples on
one set of GPUs while another set trains on earlier samples. This directory
holds TLA+ modules that model the parts of that mode whose correctness depends
on the order in which concurrent steps happen, TLC configurations that check
them on small instances, and TLAPS proofs for every value of the parameters.

Paths below are relative to `src/task/verl/verl/`; `fully_async_policy/`
stands for `experimental/fully_async_policy/`.

## 1. Inventory

### Message queue (`fully_async_policy/message_queue.py`)
State: a bounded deque, counters of samples produced, consumed and dropped, a
running flag, a second queue for validation results, an `asyncio.Lock` and a
condition. Operations: `put_sample` (drops the oldest entry at capacity),
`get_sample` (waits on the condition), `clear_queue`, `shutdown`,
`put_validate`, `get_validate`. It is a Ray actor that rollouter and trainer
call. Hard: consumers woken together, shutdown while a consumer waits, dropping
at capacity. Correct when it keeps the newest samples, delivers in order and
never leaves a caller waiting for nothing.

### Fully asynchronous loop (`fully_async_rollouter.py`, `fully_async_trainer.py`, `fully_async_main.py`)
State of the rollouter: pending queue, set of active tasks, `paused` with its
event, `staleness_samples`, one lock. Coroutines: `_feed_samples`,
`_processor_worker`, one task per sample, `_async_monitor_loop` and
`_streaming_generation_main`. State of the trainer: batch under collection,
`local_trigger_step`, `current_param_version`. The trainer takes samples from
the queue and, after each parameter version, calls `reset_staleness` on the
rollouter. Hard: the counter is written by the processor without the lock and
overwritten by a reset that is suspended in the middle; a pause is decided on
figures that are old when it takes effect; a failing task ends the processor
while other tasks go on. Correct when the number of samples started and not
trained on stays within the configured staleness, the end-of-run signal always
arrives, nothing is lost silently, and training terminates.

### Checkpoint saving and retention (`_save_checkpoint`, `load_checkpoint`, `utils/checkpoint/`)
State on disk: shards per role and version, `data.pt`, the tracker file
`latest_checkpointed_iteration.txt`. State in memory: `previous_saved_paths`
per role, `last_ckpt_version`. Operations: the save decision, capacity check,
write, registration with rotation, tracker update, resume. Hard: a kill between
any two of these. Correct when the tracked checkpoint is complete, a restart
succeeds, and lost progress and disk use are bounded.

### Load balancer (`GlobalRequestLoadBalancer` in `workers/rollout/llm_server.py`)
State: requests in flight per server (the pool), an LRU cache of the server each
conversation used. Operations: `acquire_server`, `release_server`,
`add_servers`, `remove_servers`. Releases are not awaited and may arrive late.
Correct when counts reflect the work a server holds.

### Server client, weight synchronisation and hybrid validation
`FullyAsyncLLMServerClient.generate` repeats an aborted request with the tokens
so far. `CheckpointEngineManager.update_weights` (`checkpoint_engine/base.py`)
aborts all requests, frees the KV cache, transfers weights, restores the cache
and resumes generation, each on all replicas before the next.
`_trainer_side_validate` wakes servers on the trainer's own GPUs, adds them to
the pool, validates, removes them and puts them to sleep. Hard: clients retry
during all of it. Correct when no request runs on half-written weights, all
servers that take requests hold one version, the reported span of versions is
true, and calls end.

### Weight transfer (`checkpoint_engine/`: `base.py`, `nccl_checkpoint_engine.py`, `nixl_checkpoint_engine.py`)
State: two buffers per process, the metadata of the bucket being filled or
handed on, a pending broadcast or read, the process group, queued GPU copies.
Operations: `split_weight_chunks`, `merge_weight_chunks`, `send_weights`,
`_receive_weight_chunks`, `init_process_group`, `finalize`, and the manager's
`add_replicas` and `remove_replicas`. NCCL broadcasts each bucket and publishes
its metadata on ZeroMQ; NIXL passes buckets along a chain by remote reads. Hard:
buffers are refilled while someone may still read them, metadata and bytes take
different channels, a subscription may come too late, the set of workers
changes. Correct when every server gets every byte of every weight and updates
end.

### Agent loop (`experimental/agent_loop/`)
State per sample: tokens, mask, log-probabilities, images, turn counters, tool
calls under way, tool instances. Operations: the states PENDING, GENERATING and
PROCESSING_TOOLS, `_call_tool`, padding, scoring, `_postprocess`. Hard: tools
run concurrently and fail at any point, new weights arrive between turns,
lengths meet their limits exactly. Correct when the rows of the batch hold what
was said with everything aligned, and the batch ends.

### Reward loop (`experimental/reward_loop/`)
State: per worker two token buckets and a semaphore; per request its phase,
attempt and timer. Operations: `AsyncTokenBucket.acquire`, `run_single`,
`_post_request`, `compute_rm_score`. Hard: sleeping requests overtake each
other, a timeout leaves its thread running, items return different keys.
Correct when the rate is kept, batches come back complete and in order, and
failures have a cause the code names.

### One-step-off-policy trainer (`one_step_off_policy/ray_trainer.py`, `separation/ray_trainer.py`, `trainer/ppo/ray_trainer.py`)
State: step counter, data loader, the generation in flight, actor and server
versions, the latest checkpoint. Operations: `fit`, `fit_step`,
`_fit_generate`, validation, save, load. Hard: the next batch is drawn before
the step is saved, and the job may be killed anywhere. Correct when a batch is
at most one synchronisation old, weights move only between generations, and
restarts neither repeat nor lose more than stated.

### Not modelled, or only in part
| Part | Why |
|---|---|
| user interaction in the tool agent, text truncation of tool answers | text only |
| reward model on the rollout servers' GPUs (sleep and wake in `_validate`) | not yet |
| PPO algorithms (`core_algos.py`), rest of the synchronous trainer | tensor arithmetic, sequential driver |
| `DataProto` other than `chunk` | pure tensor containers |
| sequence-length balancing | pure functions, candidates for operator checks |
| single controller | dispatch over Ray |
| Megatron checkpoint manager | same retention interface, external asynchronous writer |
| failing calls of `add_replicas` / `remove_replicas` on the balancer | not yet |
| failed RDMA transfers | the worker exits and the job ends |
| benchmark harness (`scripts`, `eval_tests`), vendored vLLM | no state of this system; vLLM is third-party source |

The repository carries a complete copy of vLLM and model and kernel code of
several hundred thousand lines. They are outside this project, which models the
coordination logic of `verl` itself.

`PROJECT.json` lists every component and every hazard with its line in the
source and the properties that would catch it.

## 2. Modules

| Module | Models |
|---|---|
| `DropOldest` | `put_sample` on the buffer, as an operator on sequences |
| `MessageQueue` | the queue actor with any number of consumers |
| `LossyFifo` | what the queue promises: an ordered channel that loses only from the old end, only at capacity or on clear |
| `FullyAsync` | rollouter, queue and trainer together |
| `CheckpointStore` | trainer, checkpoint managers, disk, kills and restarts |
| `LoadBalancer` | the balancer's operations as functions on its state |
| `LLMServing` | clients, balancer, servers, weight synchronisation, hybrid validation |
| `WeightChunks` | cutting weights into chunks, packing them into buckets, merging them, as operators |
| `WeightDelivery` | what a transfer promises: all bytes of all weights of the update, in order, at every worker |
| `NixlTransfer` | manager and agents of the NIXL engine |
| `NcclTransfer` | manager and processes of the NCCL engine |
| `TokenBucket` | the rate limiter's arithmetic, as operators |
| `RewardLoop` | one batch through the reward workers |
| `AgentLoop` | one batch through an agent loop worker |
| `OneStepOff` | the one-step-off-policy trainer with crashes and restarts |
| `AgentLoopProofs`, `FullyAsyncProofs`, `CheckpointStoreProofs`, `LLMServingProofs`, `NcclTransferProofs`, `NixlTransferProofs`, `RewardLoopProofs`, `OneStepOffProofs` | theorems (section 4); those of `MessageQueue` are in `FullyAsyncProofs` |
| `MCMessageQueue`, `MCFullyAsync`, `MCCheckpointStore`, `MCLLMServing`, `MCNixlTransfer`, `MCNcclTransfer`, `MCRewardLoop`, `MCAgentLoop`, `MCOneStepOff` | small instances for TLC |

`MessageQueue` and `FullyAsync` share `DropOldest`; `LLMServing` extends
`LoadBalancer`; `NixlTransfer` and `NcclTransfer` extend `WeightChunks` and are
both shown to implement `WeightDelivery`, the step that `LLMServing` takes as
one ("load"); `RewardLoop` uses `TokenBucket`. Definitions whose comment begins
with "Fault:" are wrong on purpose: each is a plausible bug in the definition
that follows it, and shows that a property notices it. No specification uses
them.

### How state and actions correspond to the code

**MessageQueue.** One action per method. `get_sample` is split at its only
await: `GetSample` collects or waits, `Resume` is the caller re-acquiring the
lock after a notification. Samples are their production numbers.

**FullyAsync.** The rollouter is one event loop, so an action is the code
between two awaits; a reply of the queue actor may be old when it is used, so
reading and using it are two actions (`ProcCheck`/`ProcDecide`,
`MonReadStats`/`MonDecide`, `ResetQueueSize`/`ResetWrite`).
- Generation tasks differ only in how far they are, so `active_tasks` is four
  counts: `generating`, `putting` (sample in the queue, reply pending),
  `returned` and `raised` (finished, not yet reaped by the processor).
- `paused` also stands for `_resume_event`, which is always changed with it.
- `_feed_samples` suspends only on a full pending queue, so `Feed` fills it.
- An entry of the queue records the version at which it was put (history).
- A sample whose generation raises ends the processor at the next
  `task.result()`; `MaxFailures` bounds how often this happens.

**CheckpointStore.** Every part of a checkpoint is absent, partial or complete.
All ranks of a role are one writer, since rotation happens on rank 0 behind a
barrier that follows every rank's write. Opening the tracker file truncates it;
the write is a separate action. Whether the instance is about to expire is a
free choice. Assumed: `save_freq > 0`, the same limit for actor and critic (0
stands for `None`), `resume_mode` auto, local storage. `Kill` also stands for a
job that ended and is submitted again.

**LLMServing.** A call is `sent` from the moment the balancer chose a server
until the engine starts it, whether it travels or waits behind a pause. The
engine is external: `pause_generation` with mode "abort" holds back requests
that have not started and returns once none runs. The trainer's operations are
the table `Script`; `todo` are the servers whose call has not returned
(`asyncio.gather`). A worker's release reaches the balancer before its next
acquire, since Ray keeps the order of one caller's calls. `alive_replicas` are
the hybrid servers of the pool. The balancer's LRU cache is kept as the age of
each entry, the number of other conversations that used the cache since; an
entry is evicted when its age reaches the size of the cache, which is when the
code's `LRUCache` evicts it. Token lists and log-probabilities are left out.

**NixlTransfer, NcclTransfer.** A byte is the update it belongs to, its weight
and its index, so a byte of an old update or of another weight is told apart. A
copy queued on the GPU (`stream`) happens later than the call, in order, until a
`torch.cuda.synchronize()`. External parts, modelled from how the engines use
them: a NIXL read delivers the remote buffer as it is when the read ends and
then notifies its owner; an NCCL broadcast happens when all ranks have joined;
ZeroMQ keeps the order of one sender, and PUB/SUB loses what is published before
the subscription arrives. While a transfer runs, its target is garbage.
Trainer ranks other than 0 consume their weights and are not represented. In the
NCCL model replicas are added and removed between updates only.

**RewardLoop.** Time is a clock in units that divide the buckets' rates; a timer
fires between its due time and `LoopDelay` later, which is all that is assumed
of the event loop. The kind of scoring is chosen at the start: the rate-limited
manager, alone or with a reward model behind it, or a discriminative reward model
asked over HTTP. What `compute_score` does is decided per item, as its data source
does: a number, a dict with or without `acc`, or an exception. A discriminative
model is refused for engines other than SGLang, and its answer may lack a score. A timeout cancels a reward function that is a coroutine; of a
synchronous one it leaves the thread in the executor (`ThreadEnds`). The HTTP back-off is `min(2^attempt, MaxPause)`. Rates are
integers, where the code has floats.

**AgentLoop.** A token is its origin: prompt, image placeholder, generated, tool,
padding. A server answers with any number of tokens up to its cap (the cap
itself is computed as in `SGLangHttpServer.generate`); tool calls advance one by
one and may raise in each of their three steps. A tool answers with a list of any
length in which `None` may stand for an image; its message has one placeholder. Negative Python slices
(`prompt_ids[-n:]` with `n = 0`) are kept. Weight versions are read per turn.

**OneStepOff.** Python's data loader and iterator are a position in the data; an
action is the code between two awaits that matter. `Restart` may happen
anywhere, also after the job has finished. A checkpoint is written in one step
here: `CheckpointStore` is about how it is written.

## 3. Runs

| Run | Checks | Result |
|---|---|---|
| `message_queue` | `HoldsNewestRun`, `NoLostWakeup`, `ShutdownReleasesConsumers`, `ImplementsFifo` | hold |
| `fully_async` | `StalenessBound`, `QueueLag`, `FinishSignalKept`, `EverySampleAccounted`, `PauseOwned`, `Terminates`, `PauseRecovered` | hold |
| `checkpoint_store` | `TrackedComplete`, `BrokenOnlyWhenTorn`, `LostProgress`, `DiskInv` | hold |
| `serving` | `QuietDuringSync`, `PoolUniform`, `SpanCovers`, `ValidatedVersion`, `PoolInv`, `CallsComplete`, `StagesComplete` | hold |
| `nixl_transfer` | `ChainInv`, `UpdateCompletes`, `ImplementsDelivery` | hold |
| `nccl_transfer` | `BroadcastInv`, `GroupMatchesReplicas`, `UpdateCompletes`, `ImplementsDelivery` | hold |
| `nccl_rebuild` | `RebuiltAfterChange` | violated |
| `reward_loop` | `BucketInv`, `SlotsKept`, `BatchOutcome`, `LimitedBatchEnds` | hold |
| `reward_limits` | `LimitsAsDocumented` | violated |
| `agent_loop` | `BatchInv`, `RowsExact`, `StepsCover`, `BatchEnds` | hold |
| `agent_images` | `ImagesAligned` | violated |
| `one_step_off` | `OffPolicyInv`, `RestartCost`, `FitEnds` | hold |

Where a component has several invariants that describe one thing, the run checks
their conjunction; the parts keep their names and their own comments in the module:

| Invariant | Parts |
|---|---|
| `DiskInv` (CheckpointStore) | `TrackedPathsOnDisk`, `DiskGrowth` |
| `PoolInv` (LLMServing) | `TypeOK`, `AliveReady`, `InflightSound` |
| `ChainInv` (NixlTransfer) | `TypeOK`, `TopologyChain`, `BufferExclusive`, `NoAssertionFails`, `QuietBetweenUpdates` |
| `BroadcastInv` (NcclTransfer) | `TypeOK`, `MetadataMatchesBucket`, `BufferExclusive`, `NoAssertionFails` |
| `BucketInv` (RewardLoop) | `TypeOK`, `RateBound`, `NoOversleep` |
| `BatchOutcome` (RewardLoop) | `ReturnedComplete`, `FailureCause` |
| `BatchInv` (AgentLoop) | `TypeOK`, `TurnsBounded`, `NoShapeError`, `ReturnedClean` |
| `OffPolicyInv` (OneStepOff) | `TypeOK`, `SyncQuiet`, `AtMostOneStepOff` |
| `RestartCost` (OneStepOff) | `NoBatchTwice`, `SkippedPerRestart`, `StepsBounded`, `DataSuffices`, `FinishedSaved` |

The type invariants of `MessageQueue`, `FullyAsync` and `CheckpointStore`, and the
queue's `Conservation` and `DeliveredInOrder`, are theorems (section 4) and are not
repeated in the runs; `ImplementsFifo` also implies the order of delivery.

### Bounds and why they are enough
- `message_queue`: a buffer of two and five samples let the buffer fill, drop
  twice and drain; two consumers compete for one wake-up.
- `fully_async`: one sample per step, two steps per version, staleness 125 %, so
  the limit is truncated from 4.5 to 4; seven samples give three full versions
  and an incomplete fourth, and the queue fills; two slots, so that `Terminates`
  applies; one failure, and a pending queue of one that the feeder blocks on.
- `checkpoint_store`: two roles, two kept, two kills, five versions saved every
  second version or early: the lists of paths rotate in every incarnation.
- `serving`: two standalone servers, so one can be ahead of the other, and a
  hybrid one; a conversation of two turns and a validation share a cache of one
  entry and evict each other. A validation may run before training and after each
  of two synchronisations, so a later one meets what an earlier one left behind,
  and a call can be aborted up to eight times. The theorems of section 4 are for
  any numbers of servers and conversations.
- `nixl_transfer`, `nccl_transfer`: a bucket of two bytes and every list of up
  to two weights of one to three bytes, with two longer ones, cover weights
  below, at and above the bucket size in every order and up to four buckets,
  more than there are buffers. A chain of three has a first, a middle and a last
  worker. Two updates show what one leaves to the next.
- `reward_loop`: three items compete for one slot and a request bucket of one;
  token estimates of two and four against a bucket of three take both branches
  of `acquire`; one worker holds all items, three hold one each; every item's
  call ends in each of the possible ways, so batches of mixed sources occur.
- `agent_loop`: rows of four response tokens and two prompt tokens are reached,
  met exactly and exceeded; answers have no image, `[None]` or two images; five
  configurations vary limits, log-probabilities, vision, reward workers and the
  tool format. `agent_images` has answers with no, one and two images.
- `nccl_rebuild` uses the instance of the passing run; `reward_limits` has four
  items on two workers, so that one worker can pass on a slot and two can grant at
  the same time.
- `one_step_off`: nine batches in three epochs against totals one below, equal
  to and one above; saves at every second step fall on and off the epoch
  boundary; three restarts.

Deadlock checking is off: every one of these systems ends (training is over,
the queue is shut down, the batch is returned, the bound on updates is reached).

### Fairness
Coroutines and remote calls are weakly fair: asyncio and Ray run what is ready.
Steps that acquire the rollouter's `asyncio.Lock` are strongly fair, because
that lock serves waiters in order. An engine works on every request it has
started; GPU copies, NIXL reads, NCCL broadcasts and ZeroMQ deliveries that were
started complete; tools and generations return or raise. Timers fire. Nothing is
assumed of failures, kills, a further turn, a reward model's answer over HTTP, or the
start of a new synchronisation, and `FitEnds` relies on restarts being finitely
many (`MaxRestarts`).

### What the violated runs show
`PROJECT.json`, "findings", quotes the lines.
- `reward_limits`: the docstring of the rate-limited manager makes two promises.
  Its limiters are shared by all workers (`SharedRateLimit`): they are class
  attributes, and every worker is a process with its own class, so two workers
  grant two requests at once where the rate allows one. And `max_concurrent`
  limits the simultaneous requests (`ConcurrencyLimited`): when a synchronous
  `compute_score` times out, its slot is passed on while its thread still runs.
  `LimitsAsDocumented` is the disjunction of the two, so the state TLC reports
  breaks both. What does hold, per worker: `RateBound`, and `SlotsKept`, which
  says that no slot is lost and that the limit is kept for a coroutine, since a
  timeout cancels it.
- `agent_images`: `apply_chat_template` relies on one placeholder per image. An
  answer with two images, which `ToolResponse` offers, gets one placeholder, one
  with `[None]` a placeholder and no image, and with `gpt-oss` and `gemma4` images
  come without placeholders. Some processors refuse such a mismatch, others do
  not (`ProcessorMayRaise`). `SingleImagesAlign` proves alignment where the chat
  template formats the answers and tools return at most one image each.
- `nccl_rebuild`: the docstrings of `add_replicas` and `remove_replicas` say that
  they rebuild the process group. They change a list; the next update builds a
  new group only with `rebuild_group`, which is off by default, and otherwise
  fails or hangs in `init_process_group`.

### What the passing properties say about known limits of the code
Several properties are exact about a limit that a reader may not expect:
- `StalenessBound`: `staleness_samples += 1` is executed outside the lock and
  the sample in the processor's hands is in neither sum of `reset_staleness`, so
  `max_required_samples` can be exceeded, by one and never more.
- `Terminates` needs `MaxConcurrent + SamplesPerSync <= MaxRequired`:
  `reset_staleness` counts a finished task that has not been reaped together
  with its sample in the queue, and enough of them pause the rollouter before it
  has produced a batch.
- `TrackedComplete` holds for every retention limit but one; with
  `max_ckpt_to_keep = 1` the old actor is deleted before the new checkpoint is
  complete. `BrokenOnlyWhenTorn`: the tracker file is truncated before it is
  written, and a kill in between makes restarts fail. `DiskGrowth`: each restart
  forgets the checkpoints before it, which stay on disk.
- A request that chose a hybrid server before it left the pool waits behind the
  pause and starts once generation is resumed there, when the server is asleep.
  It stays there until the next validation aborts it: `CallsComplete` names this
  as the one way a call does not end, and `AliveReady` is about the servers the
  pool lists.
- `TopologyChain`: the NIXL engine cannot be used with a single rollout worker
  (`metadata[-1 + 1:]` is the whole list, which the length check refuses).
- The NCCL properties rest on a broadcast being a barrier that blocks every
  member until all have joined; `UpdateCompletes` excepts a subscription that
  arrives after the first publication.
- `FailureCause`: a batch also fails when its items carry different extra keys,
  which needs no failed item: what `compute_score` returns depends on the data
  source, and a batch whose first item has a key that another one lacks raises
  `KeyError`. A reward model that never answers blocks its
  batch, since the HTTP timeout is None; `LimitedBatchEnds` is about the
  rate-limited manager.
- `SkippedPerRestart`: a checkpoint stores the loader after the next batch was
  drawn, so a restart skips one batch. `NoBatchTwice` holds up to the first
  restart: later the step number used to recognise the end of an epoch no longer
  agrees with the loader. `StepsBounded`: restarting a finished job trains one
  more step.

## 4. Proofs

All proofs are for every value of the constants under the assumptions the
modules name (`FullyAsyncAssumption`, `CheckpointAssumption`,
`MaxQueueSizeAssumption`, `ServingAssumption`, `CacheSizeAssumption`,
`NcclAssumption`, `NixlAssumption`, `BucketSizeAssumption`, `RewardAssumption`,
`OneStepOffAssumption`, `AgentLoopAssumption`): counts are natural numbers, positive where the code divides
by them or uses them as a size, and sets of servers, requests and samples are
disjoint and finite where they must be.
`BackoffAssumption` says that powers of two are natural numbers, which the provers
do not know. TLC evaluates all of them on the instances. The strengthened
invariants were checked with TLC before they were proved.

**MessageQueue** (`MQTypeCorrect`, `MQHoldsNewestRun`, `MQConservation`,
`MQNoLostWakeup`, `MQDeliveredInOrder`, `MQImplementsFifo`). The invariant
`MQInv` joins types, `HoldsNewestRun`, `Conservation` (which places the last
delivery before everything buffered) and `NoLostWakeup`: nobody
waits while there is a sample, because `put_sample` notifies everyone and a
delivery happens only to a caller that is not waiting. Refinement maps the
channel's loss counter to `total_produced - Len(queue)`.

Both queue models are proved about in `FullyAsyncProofs`: the actor of
`FullyAsync` is the one of `MessageQueue`, reduced to the entries in it.

**FullyAsync** (`TypeCorrect`, `StalenessBounded`, `QueueLagBounded`,
`FinishSignalSafe`, `PauseOwnership`, `SamplesConserved`). `StalenessBound` is not inductive: the
limit is tested on a counter, not on the work itself. `Accounting` relates
them: outstanding plus consumed samples never exceed the counter by more than
one, also between the two reads of a reset, and a processor about to take a
sample has room for it. `Control` says who holds the lock at which place;
`Concurrency` bounds the active tasks; `SignalRoom` says that what can still be
put behind the finish signal fits into the queue, so the signal is never the
entry dropped. `QueueLag` then follows from FIFO order and the staleness bound.
`SamplesConserved` rests on a second layer: while the processor lives, every
sample it took is held, being generated, in a raised task not yet reaped, queued,
consumed or counted as dropped (`Conserved`), and once it is done nothing follows
the finish signal (`EndLast`).

**CheckpointStore** (`CheckpointTypeCorrect`, `TrackedCheckpointComplete`,
`RestartFailsOnlyWhenTorn`, `ProgressLostBounded`, `DiskUseBounded`; the second and
third for every `Keep` other than one, the last for `Keep > 1`, since 0 stands for
no limit and a limit of one is exceeded while a checkpoint is being written).
`PathsInv` says that the paths a manager holds are, but for the newest, older
than the tracked checkpoint (while a role is registered and the tracker not yet
written, not newer than it); rotation removes from the old
end and, unless `Keep = 1`, never the newest. `WrittenInv` says that the parts
already written by the save in progress are complete and of one content, so the
tracker only ever names a complete checkpoint.

`ProgressLostBounded` follows from the save condition and the tracker; for
`DiskUseBounded`, `ListInv` says that a manager's list is sorted, within its
limit and leaves room for the save that has begun, and `LeftBehind` that what a
role has on disk beyond that list is at most `Keep` checkpoints per kill.

**OneStepOff** (`OffPolicyByOne`, `RestartsCostOneBatch`). `PlaceInv` places the
data loader relative to the step, in the running job and in the checkpoint: at
most one batch ahead, and one more per restart. `VersionInv` then says of which
update the weights of servers, future and batch are, `EndInv` what the last step
has tested and saved, `GapInv` that the batches up to the loader's place that
were not learned from are no more than the restarts, `OrderInv` that batches are
learned from in order up to the first restart, and `CountInv` that they are no
more than the steps, which leaves a gap whenever the data runs out early.

**RewardLoop** (`BucketsKeepTheRate`, `SlotsStayKept`, `BatchesEndForACause`).
A request above the capacity takes its tokens when it goes to sleep and is granted
them when it wakes, so `RateBound` is not inductive. `Balanced` counts those that
have paid and still sleep with what was granted, against what the bucket was
filled with; `Timely` says the same for every later moment, counting those whose
sleep is over by then. `PermitInv` equates permits taken with calls, `ThreadInv`
says whose threads are left behind, `EndedInv` what an ended request says.

**LLMServing** (`SyncIsQuiet`, `PoolServesOneVersion`, `SpansCoverVersions`,
`ValidationMeasuresVersion`, `PoolStaysSound`). What a server is at a stage is
read off the script: `PauseInv` says that a stopped server is paused and quiet,
`MemoryInv` which servers are ready, `WeightsInv` what they have loaded. The
version that generates anywhere is `Settled`, the old one until every standalone
server has loaded the new one. `SpanInv` says that what a call has used beyond
the span it reports is that version, `ValidatorInv` that a validation knows no
other. `HoldInv` says that acquiring and releasing alternate, so that `ChargeInv`
can compare the balancer's counts with the sets of holders by cardinality; the
cache stays within its size because no two of its entries are equally old.

**NcclTransfer** (`GroupsFollowReplicas`, `BroadcastsAreSound`, `BroadcastDelivers`). Without `rebuild_group` the groups
outlive an update. `RebuildInv` says that with it nothing is left over, `KeptInv`
that without it either no process is in a group or, until the workers change, all
are in one with their current ranks; `AgesInv` tells a group from none.
Within an update, `BroadcastIInv` is needed because metadata and bucket travel
apart. `MailOK` says that a worker's socket holds at most the metadata of the
bucket the sender is in, and nothing unless the sender waits in the broadcast;
`PhaseOK` and `SideOK` say that an operation runs only where the code has just
given it the other buffer, and that queued copies stay on the one in hand.
`ChunksOK` and `SenderOK` follow the chunks: from the place where a worker's merge
is, through the bucket it hands on, the one it has received and the one being
sent, to the place where the packing loop is, each chunk begins where the one
before it ends. `FillInv` says that an unfinished weight fills its bucket, so no
weight is in a bucket twice; `QuietInv` that an update leaves nothing behind.
Lost metadata is part of this: a worker that was published past never joins, and
so never joins with the wrong metadata.
For `BroadcastDelivers`, `BytesInv` adds what is in the buffers. `Copying` says
that the copies a sender has queued, once done, leave in its bucket the bytes its
metadata describes; `Held` that the buffer a worker has in hand holds the bytes of
the bucket it hands on; `Received` that what a server has got are the weights up
to the place `GotTo`, in order and of this update; `SenderLast` and `LastSent`
that the bucket marked `is_last` ends behind the last weight. `BeginUpdate` is
then a `Begin` of `WeightDelivery`, `CopyOut` a `Deliver` of what one chunk adds,
and every other step leaves what the servers have got unchanged.

**NixlTransfer** (`ChainIsSound`, `ChainDelivers`). Only neighbours wait for each other, so
nothing that one agent knows says anything about an agent two links away, and
the invariant is one of agents and links. `WorkerOK` and `SenderOK` say what an
agent may be doing: a transfer runs only where the code has begun one
(`PhaseOK`), queued copies stay on the buffer in hand (`SideOK`), and the merge is
where the bucket in hand continues (`ChunksOK`). `LinkOK` says what is on the way
from an agent to the next: without a readable operation nothing, and with one
exactly one of an offer, a running transfer and a notification, of that
operation's key and buffer (`OperationOK`). A bucket is followed through the
links: an offered one begins where what the next agent has read ends (`OfferOK`),
and the one being filled or handed on begins where what was offered ends
(`FillOK`, `HandOK`). `FillInv` is as for NCCL. `ChainOK` and `EndsOK` say what the topology
is and that nobody writes to its ends, `QuietInv` that an update leaves no
message, operation or copy behind, on which the next one relies because inboxes
and notifications are not cleared. `BufferExclusive` follows: an agent swaps its
buffers only after the notification of the read, which the link then no longer
has.
For `ChainDelivers`, `BytesInv` follows the bytes along the same lines:
`HasBucket`, that a buffer has the bytes its metadata describes and that a last
bucket ends behind the last weight, is claimed of the bucket a worker has in hand
and the one it has read (`BucketsOK`), and of the one on offer or being read
(`LinkHas`). A transfer takes the remote buffer as it is when it ends, so the claim
must survive whatever the remote agent does meanwhile; it does because an agent
writes only to the buffer that is not `OfferSide` (`OfferUntouched`).
`SenderBytes` says, as for NCCL, that the queued copies complete the sender's
bucket, and `ServerOK` that the copies a worker has queued lead without a gap from
what its server has got to where its merge is. The steps map to
`WeightDelivery` as for NCCL; an update whose topology is refused is a stutter.

**AgentLoop** (`RolloutInvariant`, `BatchSafe`, `RowsAreExact`,
`StepsAlwaysCover`, `SingleImagesAlign`). The invariant `RolloutInv` says that what a trajectory keeps
in separate lists is one history. `IdsOK`: the prompt ids are the cut prompt
followed by what was said since; `Marks`: mask and log-probs have one entry per
token said and mark the generated ones; `SaidOK`: only generated tokens lie
beyond `response_length`, so cutting the row there loses no image placeholder;
`Alignable` names the settings in which there are as many of those as images
(`SingleImagesAlign`), and the invariant claims the equality in those only; `TurnsOK` says that a user turn follows every assistant
turn but the last, and relates both counts to the limits; `StepsOK` and `Covered`
say that the global steps a sample reports enclose the step of every token
generated so far; `CallsOK` says which tool calls are open and answered; `RowOK`
carries all this over to the padded row. `InstancesInv` ties every live tool
instance to a call that will release it, `FinishedInv` a returned batch to samples
that are all done. These parts are constant
operators of one sample's values, so that the effect of a step is a lemma about
values, and one frame lemma (`OneSample`) lifts it to the state.

Only model-checked: all liveness properties (the prover does not handle
fairness), and the violated runs.

## 5. Plan

1. Failing calls of `add_replicas` and `remove_replicas` in `LLMServing`;
   resuming `FullyAsync` from a checkpoint.
2. A reward model on the GPUs of the rollout servers: `_validate` puts servers to
   sleep while the next batch may still be generated.
3. Operators for sequence-length balancing against a reference definition over
   bounded inputs.

----------------------------- MODULE FullyAsync -----------------------------
(***************************************************************************)
(* The fully asynchronous training loop: the rollouter's event loop (feed, *)
(* processor, generation tasks, monitor, main), the message queue and the  *)
(* trainer, with the flow control that ties them together.                 *)
(*                                                                         *)
(* The rollouter is one asyncio event loop, so code between two awaits is  *)
(* atomic and an action is a stretch of code between two awaits.  A call   *)
(* to the MessageQueue actor takes effect at some moment between the call  *)
(* and its reply, so what it returns may be stale when it is used: the     *)
(* step that reads the queue and the step that uses the answer are two     *)
(* actions.                                                                *)
(*                                                                         *)
(* Generation tasks are told apart by nothing but how far they are, so     *)
(* self.active_tasks is four counts.  A queue entry is a sample stamped    *)
(* (history) with the parameter version at which it was put, or the finish *)
(* signal None.  _resume_event is set and cleared together with `paused',  *)
(* under the lock, so `paused' stands for both.                            *)
(***************************************************************************)
EXTENDS DropOldest, Integers

CONSTANTS
    TotalSamples,       \* samples _feed_samples will feed in this run
    RequiredSamples,    \* samples per training step
    TriggerSyncStep,    \* trigger_parameter_sync_step
    StalenessPercent,   \* 100 * staleness_threshold
    ReplicaSlots,       \* 16 * number of rollout replicas
    PendingCap,         \* maxsize of pending_queue
    TestFreq,           \* trainer.test_freq
    MaxFailures         \* bound on generation tasks that raise

ASSUME FullyAsyncAssumption ==
    /\ TotalSamples \in Nat \ {0}
    /\ RequiredSamples \in Nat \ {0}
    /\ TriggerSyncStep \in Nat \ {0}
    /\ StalenessPercent \in Nat
    /\ ReplicaSlots \in Nat \ {0}
    /\ PendingCap \in Nat \ {0}
    /\ TestFreq \in Nat \ {0}
    /\ MaxFailures \in Nat

\* Samples consumed between two parameter synchronisations.
SamplesPerSync == RequiredSamples * TriggerSyncStep

\* set_max_required_samples: int(required * (threshold + 1) * trigger).
MaxRequired == (SamplesPerSync * (StalenessPercent + 100)) \div 100

MessageQueueSize == MaxRequired

MaxConcurrent == IF ReplicaSlots < MaxRequired THEN ReplicaSlots ELSE MaxRequired

VARIABLES
    \* message queue
    messages, dropped,
    \* rollouter: shared fields
    lock, paused, rollouterRunning, staleness,
    \* rollouter: feed and processor
    fed, taken, feeder, procPc, procFull,
    \* rollouter: active_tasks by stage
    generating, putting, returned, raised, failures,
    \* rollouter: monitor, main
    monPc, monFull, mainPc,
    \* trainer, and the reset_staleness call it makes
    trPc, got, localStep, version, stopping, resetActive, resetQueue

queueVars == <<messages, dropped>>
sharedVars == <<lock, paused, rollouterRunning, staleness>>
feedVars == <<fed, feeder>>
procVars == <<taken, procPc, procFull>>
taskVars == <<generating, putting, returned, raised, failures>>
monVars == <<monPc, monFull>>
trainVars == <<trPc, got, localStep, version, stopping>>
resetVars == <<resetActive, resetQueue>>

vars == <<queueVars, sharedVars, feedVars, procVars, taskVars, monVars,
          mainPc, trainVars, resetVars>>

Init ==
    /\ messages = <<>> /\ dropped = 0
    /\ lock = "free" /\ paused = FALSE /\ rollouterRunning = TRUE /\ staleness = 0
    /\ fed = 0 /\ taken = 0 /\ feeder = "feeding"
    /\ procPc = "check" /\ procFull = FALSE
    /\ generating = 0 /\ putting = 0 /\ returned = 0 /\ raised = 0
    /\ failures = 0
    /\ monPc = "idle" /\ monFull = FALSE /\ mainPc = "run"
    /\ trPc = "get" /\ got = 0 /\ localStep = 1 /\ version = 0
    /\ stopping = FALSE /\ resetActive = 0 /\ resetQueue = 0

-----------------------------------------------------------------------------
(* Derived state *)

\* len(self.active_tasks): nothing but the processor takes a task out.
ActiveTasks == generating + putting + returned + raised

Sample(v) == [end |-> FALSE, version |-> v]

FinishSignal(v) == [end |-> TRUE, version |-> v]

Pending == fed - taken

\* Fault: the limit is tested with > instead of >=.
TooStaleLate == staleness > MaxRequired

\* The second condition of _should_pause_generation.
TooStale == staleness >= MaxRequired

\* Its first condition, as the queue actor evaluates it.
QueueFull == Len(messages) >= MessageQueueSize

-----------------------------------------------------------------------------
(* Rollouter: _feed_samples *)

\* put() suspends only on a full pending_queue, so the feeder fills it in one
\* stretch.  Item TotalSamples + 1 is the end signal.
Feed ==
    /\ feeder = "feeding"
    /\ Pending < PendingCap
    /\ \E n \in {fed + PendingCap - Pending, TotalSamples + 1} :
        /\ n <= fed + PendingCap - Pending
        /\ n <= TotalSamples + 1
        /\ fed' = n
        /\ feeder' = IF n = TotalSamples + 1 THEN "done" ELSE "feeding"
    /\ UNCHANGED <<queueVars, sharedVars, procVars, taskVars, monVars, mainPc,
                   trainVars, resetVars>>

-----------------------------------------------------------------------------
(* Rollouter: _processor_worker *)

ProcessorStep == UNCHANGED <<queueVars, rollouterRunning, feedVars, monVars, mainPc,
                             trainVars, resetVars>>

\* `if self.paused or await self._should_pause_generation()': a paused
\* rollouter does not ask the queue; otherwise the queue answers its size.
ProcCheck ==
    /\ procPc = "check"
    /\ procPc' = IF paused THEN "pause" ELSE "decide"
    /\ procFull' = (~paused /\ QueueFull)
    /\ UNCHANGED <<lock, paused, staleness, taken, taskVars>>
    /\ ProcessorStep

ProcDecide ==
    /\ procPc = "decide"
    /\ procPc' = IF procFull \/ TooStale THEN "pause" ELSE "take"
    /\ procFull' = FALSE
    /\ UNCHANGED <<lock, paused, staleness, taken, taskVars>>
    /\ ProcessorStep

ProcPause ==
    /\ procPc = "pause"
    /\ lock = "free"
    /\ paused' = TRUE
    /\ procPc' = "drain"
    /\ UNCHANGED <<lock, staleness, taken, procFull, taskVars>>
    /\ ProcessorStep

\* One round of the drain loop: asyncio.wait returned some finished tasks,
\* which are discarded under the lock; awaiting one that raised ends the
\* processor.
ProcDrain ==
    /\ procPc = "drain"
    /\ lock = "free"
    /\ \E ok \in 0..returned, bad \in {0, 1} :
        /\ ok + bad > 0
        /\ bad <= raised
        /\ returned' = returned - ok
        /\ raised' = raised - bad
        /\ procPc' = IF bad = 1 THEN "failed" ELSE "drain"
    /\ UNCHANGED <<lock, paused, staleness, taken, procFull, generating,
                   putting, failures>>
    /\ ProcessorStep

\* Fault: the block after the drain loop is missing.
ResumeSignalledOrIdle == ~paused \/ ActiveTasks = 0

ResumeSignalled == ~paused

\* resume_future is done: leave the drain loop or the block after it.
ProcResumed ==
    /\ procPc = "drain"
    /\ ResumeSignalled
    /\ procPc' = "check"
    /\ UNCHANGED <<lock, paused, staleness, taken, procFull, taskVars>>
    /\ ProcessorStep

\* pending_queue.get(), then staleness_samples += 1, which holds no lock and
\* counts the end signal too.
ProcTake ==
    /\ procPc = "take"
    /\ Pending > 0
    /\ taken' = taken + 1
    /\ staleness' = staleness + 1
    /\ procPc' = IF taken = TotalSamples THEN "finish" ELSE "limit"
    /\ UNCHANGED <<lock, paused, procFull, taskVars>>
    /\ ProcessorStep

\* The concurrency limit and the final wait share their body: take the lock,
\* keep it until some task finishes, drop every finished task.
ProcAcquire(at, wait) ==
    /\ procPc = at
    /\ lock = "free"
    /\ lock' = "processor"
    /\ procPc' = wait
    /\ UNCHANGED <<paused, staleness, taken, procFull, taskVars>>
    /\ ProcessorStep

ProcReapAll(wait, at) ==
    /\ procPc = wait
    /\ returned + raised > 0
    /\ returned' = 0
    /\ raised' = 0
    /\ lock' = "free"
    /\ procPc' = IF raised > 0 THEN "failed" ELSE at
    /\ UNCHANGED <<paused, staleness, taken, procFull, generating, putting,
                   failures>>
    /\ ProcessorStep

OverLimit == ActiveTasks >= MaxConcurrent

ProcLimitWait ==
    \/ OverLimit /\ ProcAcquire("limit", "limitwait")
    \/ ProcReapAll("limitwait", "limit")

ProcLimitPass ==
    /\ procPc = "limit"
    /\ ~OverLimit
    /\ procPc' = "submit"
    /\ UNCHANGED <<lock, paused, staleness, taken, procFull, taskVars>>
    /\ ProcessorStep

ProcSubmit ==
    /\ procPc = "submit"
    /\ ~paused
    /\ lock = "free"
    /\ generating' = generating + 1
    /\ procPc' = "check"
    /\ UNCHANGED <<lock, paused, staleness, taken, procFull, putting,
                   returned, raised, failures>>
    /\ ProcessorStep

\* Fault: leave at the end signal with tasks still running.
NothingActiveSkipped == TRUE

NothingActive == ActiveTasks = 0

ProcFinishWait ==
    \/ ~NothingActive /\ ProcAcquire("finish", "finishwait")
    \/ ProcReapAll("finishwait", "finish")

ProcFinished ==
    /\ procPc = "finish"
    /\ NothingActive
    /\ procPc' = "done"
    /\ UNCHANGED <<lock, paused, staleness, taken, procFull, taskVars>>
    /\ ProcessorStep

Processor ==
    \/ ProcCheck \/ ProcDecide
    \/ ProcPause \/ ProcDrain \/ ProcResumed
    \/ ProcTake \/ ProcLimitWait \/ ProcLimitPass \/ ProcSubmit
    \/ ProcFinishWait \/ ProcFinished

-----------------------------------------------------------------------------
(* Rollouter: _process_single_sample_streaming, one task of many *)

TaskStep == UNCHANGED <<sharedVars, feedVars, procVars, monVars, mainPc,
                        trainVars, resetVars>>

\* Generation is over and put_sample takes effect in the queue actor.
TaskPut ==
    /\ generating > 0
    /\ generating' = generating - 1
    /\ putting' = putting + 1
    /\ messages' = Offer(messages, MessageQueueSize, Sample(version))
    /\ dropped' = IF Displaces(messages, MessageQueueSize) THEN dropped + 1 ELSE dropped
    /\ UNCHANGED <<returned, raised, failures>>
    /\ TaskStep

\* The reply of put_sample arrives and the coroutine ends.  The task stays in
\* active_tasks until the processor reaps it.
TaskReturn ==
    /\ putting > 0
    /\ putting' = putting - 1
    /\ returned' = returned + 1
    /\ UNCHANGED <<queueVars, generating, raised, failures>>
    /\ TaskStep

\* generate_sequences_single raises.
TaskRaise ==
    /\ generating > 0
    /\ failures < MaxFailures
    /\ generating' = generating - 1
    /\ raised' = raised + 1
    /\ failures' = failures + 1
    /\ UNCHANGED <<queueVars, putting, returned>>
    /\ TaskStep

-----------------------------------------------------------------------------
(* Rollouter: _streaming_generation_main after the two tasks are started *)

MainStep == UNCHANGED <<lock, paused, staleness, procVars, taskVars, monVars,
                        trainVars, resetVars>>

ProcessorEnded == procPc \in {"done", "failed"}

\* The processor ended, well or badly: the finally block cancels the feeder.
MainFinally ==
    /\ mainPc = "run"
    /\ ProcessorEnded
    /\ mainPc' = "signal"
    /\ feeder' = IF feeder = "feeding" THEN "cancelled" ELSE feeder
    /\ UNCHANGED <<queueVars, rollouterRunning, fed>>
    /\ MainStep

MainSignal ==
    /\ mainPc = "signal"
    /\ mainPc' = "stop"
    /\ messages' = Offer(messages, MessageQueueSize, FinishSignal(version))
    /\ dropped' = IF Displaces(messages, MessageQueueSize) THEN dropped + 1 ELSE dropped
    /\ UNCHANGED <<rollouterRunning, feedVars>>
    /\ MainStep

MainStop ==
    /\ mainPc = "stop"
    /\ lock = "free"
    /\ mainPc' = "ended"
    /\ rollouterRunning' = FALSE
    /\ UNCHANGED <<queueVars, feedVars>>
    /\ MainStep

Main == MainFinally \/ MainSignal \/ MainStop

-----------------------------------------------------------------------------
(* Rollouter: _async_monitor_loop, one round every check_interval *)

MonitorStep == UNCHANGED <<queueVars, lock, rollouterRunning, staleness, feedVars,
                           procVars, taskVars, mainPc, trainVars, resetVars>>

\* `if not self.running: break' under the lock, else sleep.
MonRound ==
    /\ monPc = "idle"
    /\ lock = "free"
    /\ monPc' = IF rollouterRunning THEN "asleep" ELSE "stopped"
    /\ UNCHANGED <<monFull, paused>>
    /\ MonitorStep

MonReadStats ==
    /\ monPc = "asleep"
    /\ monPc' = IF paused THEN "decide" ELSE "idle"
    /\ monFull' = (paused /\ QueueFull)
    /\ UNCHANGED paused
    /\ MonitorStep

\* Fault: the monitor only logs.
RecoveryDueNever == FALSE

RecoveryDue == ~monFull /\ ~TooStale

MonDecide ==
    /\ monPc = "decide"
    /\ monPc' = IF ~RecoveryDue THEN "idle" ELSE "resume"
    /\ monFull' = FALSE
    /\ UNCHANGED paused
    /\ MonitorStep

MonResume ==
    /\ monPc = "resume"
    /\ lock = "free"
    /\ paused' = FALSE
    /\ monPc' = "idle"
    /\ UNCHANGED monFull
    /\ MonitorStep

Monitor == MonRound \/ MonReadStats \/ MonDecide \/ MonResume

-----------------------------------------------------------------------------
(* Trainer: fit, fit_step, and reset_staleness in the rollouter *)

TrainerStep == UNCHANGED <<dropped, rollouterRunning, feedVars, procVars, taskVars,
                           monVars, mainPc>>

BatchComplete(n) == n >= RequiredSamples

\* One get_sample of _get_samples_from_queue.
TrainerGet ==
    /\ trPc = "get"
    /\ messages # <<>>
    /\ messages' = Tail(messages)
    /\ IF Head(messages).end
       THEN /\ trPc' = "final"
            /\ stopping' = TRUE
            /\ UNCHANGED got
       ELSE /\ got' = got + 1
            /\ trPc' = IF BatchComplete(got + 1) THEN "train" ELSE "get"
            /\ UNCHANGED stopping
    /\ UNCHANGED <<lock, paused, staleness, localStep, version, resetVars>>
    /\ TrainerStep

\* The model update, then _fit_update_local_step; a new parameter version is
\* pushed to the replicas and the rollouter's staleness is reset.
TrainerUpdate ==
    /\ trPc = "train"
    /\ got' = 0
    /\ IF localStep < TriggerSyncStep
       THEN /\ localStep' = localStep + 1
            /\ trPc' = "get"
            /\ UNCHANGED version
       ELSE /\ localStep' = 1
            /\ version' = version + 1
            /\ trPc' = "reset"
    /\ UNCHANGED <<messages, lock, paused, staleness, stopping, resetVars>>
    /\ TrainerStep

\* reset_staleness up to its await: the left operand of the sum is read here.
ResetBegin ==
    /\ trPc = "reset"
    /\ lock = "free"
    /\ lock' = "reset"
    /\ paused' = FALSE
    /\ resetActive' = ActiveTasks
    /\ trPc' = "resetsize"
    /\ UNCHANGED <<messages, staleness, got, localStep, version, stopping,
                   resetQueue>>
    /\ TrainerStep

\* The queue actor answers get_queue_size.
ResetQueueSize ==
    /\ trPc = "resetsize"
    /\ resetQueue' = Len(messages)
    /\ trPc' = "resetwrite"
    /\ UNCHANGED <<messages, lock, paused, staleness, got, localStep, version,
                   stopping, resetActive>>
    /\ TrainerStep

ResetValue == resetActive + resetQueue

\* The answer is used: whatever the processor added meanwhile is overwritten.
ResetWrite ==
    /\ trPc = "resetwrite"
    /\ staleness' = ResetValue
    /\ lock' = "free"
    /\ resetActive' = 0
    /\ resetQueue' = 0
    /\ trPc' = IF stopping THEN "stopped" ELSE "get"
    /\ UNCHANGED <<messages, paused, got, localStep, version, stopping>>
    /\ TrainerStep

\* After TrainingStopException: fit calls _fit_update_weights when the version
\* was not validated or local updates are pending, and _fit_update_weights
\* returns at once unless local_trigger_step is 1.
TrainerFinal ==
    /\ trPc = "final"
    /\ trPc' = IF version % TestFreq # 0 /\ localStep = 1
               THEN "reset" ELSE "stopped"
    /\ UNCHANGED <<messages, lock, paused, staleness, got, localStep, version,
                   stopping, resetVars>>
    /\ TrainerStep

Reset == ResetBegin \/ ResetQueueSize \/ ResetWrite

Trainer == TrainerGet \/ TrainerUpdate \/ Reset \/ TrainerFinal

-----------------------------------------------------------------------------

Tasks == TaskPut \/ TaskReturn \/ TaskRaise

Next == Feed \/ Processor \/ Tasks \/ Main \/ Monitor \/ Trainer

Spec == Init /\ [][Next]_vars

\* Every coroutine that can run does; the asyncio lock is FIFO, so a coroutine
\* waiting for it gets it although others take it in between.  No generation is
\* obliged to fail.
Fairness ==
    /\ WF_vars(Feed)
    /\ WF_vars(Processor) /\ SF_vars(ProcPause) /\ SF_vars(ProcSubmit)
    /\ WF_vars(TaskPut) /\ WF_vars(TaskReturn)
    /\ WF_vars(Main) /\ SF_vars(MainStop)
    /\ WF_vars(Monitor) /\ SF_vars(MonRound) /\ SF_vars(MonResume)
    /\ WF_vars(Trainer) /\ SF_vars(ResetBegin)

FairSpec == Spec /\ Fairness

-----------------------------------------------------------------------------
(* Properties *)

Entries == [end : BOOLEAN, version : Nat]

QueueOK == messages \in Seq(Entries)

FlagsOK ==
    /\ paused \in BOOLEAN /\ rollouterRunning \in BOOLEAN /\ procFull \in BOOLEAN
    /\ monFull \in BOOLEAN /\ stopping \in BOOLEAN

PlacesOK ==
    /\ lock \in {"free", "processor", "reset"}
    /\ feeder \in {"feeding", "done", "cancelled"}
    /\ procPc \in {"check", "decide", "pause", "drain", "take", "limit",
                   "limitwait", "submit", "finish", "finishwait", "done",
                   "failed"}
    /\ monPc \in {"idle", "asleep", "decide", "resume", "stopped"}
    /\ mainPc \in {"run", "signal", "stop", "ended"}
    /\ trPc \in {"get", "train", "reset", "resetsize", "resetwrite", "final",
                 "stopped"}

CountsOK ==
    /\ dropped \in Nat /\ staleness \in Nat
    /\ fed \in 0..(TotalSamples + 1) /\ taken \in 0..fed
    /\ generating \in Nat /\ putting \in Nat /\ returned \in Nat
    /\ raised \in Nat /\ failures \in Nat
    /\ got \in 0..RequiredSamples /\ localStep \in 1..TriggerSyncStep
    /\ version \in Nat /\ resetActive \in Nat /\ resetQueue \in Nat

\* Every field has its type; the trainer never holds more than a batch.
TypeOK == QueueOK /\ FlagsOK /\ PlacesOK /\ CountsOK

\* The end-of-run signal is on its way to the queue, or the processor holds an
\* item it took from pending_queue.
Held == IF /\ procPc \in {"limit", "limitwait", "submit", "finish",
                          "finishwait", "done", "failed"}
           /\ mainPc \in {"run", "signal"}
        THEN 1 ELSE 0

\* Work the rollouter has started that the trainer has not consumed.
Outstanding == Held + generating + raised + Len(messages)

\* Samples the trainer consumed since the last parameter version.
ConsumedThisVersion == (localStep - 1) * RequiredSamples + got

\* Samples the trainer consumed since staleness_samples was last reset: until
\* reset_staleness is through, those of the version just finished.
ConsumedSinceReset ==
    IF trPc \in {"reset", "resetsize", "resetwrite"} /\ ~stopping
    THEN SamplesPerSync ELSE ConsumedThisVersion

\* The staleness limit that the flow control really enforces: whatever the
\* interleaving of reset_staleness with the processor, the samples started but
\* not yet trained on exceed max_required_samples by at most one.  At a
\* parameter synchronisation this leaves at most max_required_samples -
\* SamplesPerSync + 1 samples of older versions.
StalenessBound == Outstanding + ConsumedSinceReset <= MaxRequired + 1

\* How stale a sample can get in the queue: FIFO delivery and the bound above
\* make the number of versions a sample waits at most
\* max_required_samples / SamplesPerSync.
QueueLag ==
    \A i \in 1..Len(messages) :
        i + ConsumedThisVersion + SamplesPerSync * (version - messages[i].version)
            <= MaxRequired + 1

\* The None that ends training is never the sample that put_sample drops, even
\* when tasks that outlive a failed processor keep putting.
FinishSignalKept ==
    mainPc \in {"stop", "ended"} /\ ~stopping
        => \E i \in 1..Len(messages) : messages[i].end

\* A normal end loses nothing silently: everything fed was trained on, is in
\* the trainer's last incomplete batch, or was reported as dropped.
EverySampleAccounted ==
    trPc = "stopped" /\ procPc = "done"
        => /\ messages = <<>>
           /\ version * SamplesPerSync + ConsumedThisVersion + dropped
                = TotalSamples

\* The trainer ends and the rollouter's main coroutine and monitor end.
Terminates == <>(trPc = "stopped" /\ mainPc = "ended" /\ monPc = "stopped")

\* A pause decided on figures that reset_staleness has since replaced does not
\* last: while the rollouter runs, the monitor resumes it.
PauseRecovered ==
    paused /\ rollouterRunning /\ ~TooStale /\ ~QueueFull
        ~> ~paused \/ ~rollouterRunning \/ TooStale \/ QueueFull

\* Only the processor pauses, and it stays in the drain until resumed: it never
\* meets its own pause at the head of its loop or before a submission.
PauseOwned == paused => procPc \in {"drain", "failed"}
=============================================================================

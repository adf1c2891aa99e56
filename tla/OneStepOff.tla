----------------------------- MODULE OneStepOff -----------------------------
(***************************************************************************)
(* OneStepOffRayTrainer.fit: the servers generate the next batch while the *)
(* trainer learns from the current one.  A batch is the place of its data  *)
(* in the order of the data set; a weight version counts actor updates.    *)
(* The job may crash at any time and is started again with resume_mode     *)
(* auto.  Reward, log-probability and advantage computations leave all of  *)
(* this state alone and are part of Train.                                 *)
(***************************************************************************)
EXTENDS Integers, FiniteSets

CONSTANTS
    StepsPerEpoch,  \* len(train_dataloader)
    TotalEpochs,    \* trainer.total_epochs
    TotalSteps,     \* values of total_training_steps to choose from
    CriticWarmup,   \* trainer.critic_warmup
    TestFreq,       \* trainer.test_freq
    SaveFreq,       \* trainer.save_freq
    MaxRestarts     \* bound: restarts of the job

ASSUME OneStepOffAssumption ==
    /\ StepsPerEpoch \in Nat \ {0} /\ TotalEpochs \in Nat \ {0}
    /\ TotalSteps \subseteq Nat \ {0} /\ CriticWarmup \in Nat
    /\ TestFreq \in Nat \ {0} /\ SaveFreq \in Nat \ {0} /\ MaxRestarts \in Nat

VARIABLES
    total,     \* total_training_steps
    pc,        \* where fit is
    step,      \* global_steps
    last,      \* is_last_step
    loader,    \* the data loader and the iterator over it
    future,    \* batch_data_future
    batch,     \* the batch of the current step
    actor,     \* version of the actor's weights
    rollout,   \* version of the servers' weights
    ckpt,      \* the latest checkpoint
    tested,    \* version last validated
    trained,   \* history: batches learned from, without those a crash undid
    restarts   \* number of restarts

vars == <<total, pc, step, last, loader, future, batch, actor, rollout, ckpt, tested,
          trained, restarts>>

NoBatch == [id |-> 0, version |-> 0]
NoFuture == [st |-> "none", id |-> 0, version |-> 0]

\* at: batches drawn in the current pass; pass: passes begun, of total_epochs;
\* done: batches of the passes before it.
NewLoader == [at |-> 0, pass |-> 1, done |-> 0]

NoCheckpoint == [step |-> 0, actor |-> 0, loader |-> NewLoader, trained |-> {}]

Init ==
    /\ total \in TotalSteps
    /\ pc = "load" /\ step = 0 /\ last = FALSE
    /\ loader = NewLoader /\ future = NoFuture /\ batch = NoBatch
    /\ actor = 0 /\ rollout = 0
    /\ ckpt = NoCheckpoint /\ tested = 0 /\ trained = {} /\ restarts = 0

-----------------------------------------------------------------------------
(* The data loader                                                          *)

AtEpochBoundary(c) == c.step % StepsPerEpoch = 0

\* Fault: the saved state of the data loader is not used.
RestoredFresh(c) == NewLoader

\* _load_checkpoint, and the new iterator of fit: the first pass goes on where
\* the saved state says, unless the step is the last of an epoch.
Restored(c) ==
    IF AtEpochBoundary(c) THEN [at |-> 0, pass |-> 1, done |-> c.step]
    ELSE [c.loader EXCEPT !.pass = 1]

\* The next pass begins when the current one is over.
Turned(l) ==
    IF l.at = StepsPerEpoch /\ l.pass < TotalEpochs
    THEN [at |-> 0, pass |-> l.pass + 1, done |-> l.done + StepsPerEpoch]
    ELSE l

Exhausted(l) == Turned(l).at = StepsPerEpoch

Drawn(l) == [Turned(l) EXCEPT !.at = @ + 1]

\* _async_gen_next_batch up to its first await: the batch is drawn and sent to
\* the servers, whose weights have the given version.  Without data the task's
\* result is None.  It is None as well when the loader raises, which ends fit
\* where the task is awaited, as a generation that fails does.
Launch(version) ==
    IF Exhausted(loader)
    THEN future' = [NoFuture EXCEPT !.st = "exhausted"] /\ UNCHANGED loader
    ELSE /\ loader' = Drawn(loader)
         /\ future' = [st |-> "running", id |-> Drawn(loader).done + Drawn(loader).at,
                       version |-> version]

-----------------------------------------------------------------------------
(* fit                                                                      *)

IsLast(s) == s >= total

UpdatesAt(s) == CriticWarmup <= s

\* Fault: the servers keep their weights.
SyncedNever(s, v) == rollout

\* The weights the servers have after _fit_update_weights.
Synced(s, v) == IF UpdatesAt(s) THEN v ELSE rollout

Load ==
    /\ pc = "load"
    /\ step' = ckpt.step
    /\ actor' = ckpt.actor
    /\ trained' = ckpt.trained
    /\ loader' = Restored(ckpt)
    /\ rollout' = Synced(ckpt.step, ckpt.actor)
    /\ pc' = "begin"
    /\ UNCHANGED <<total, last, future, batch, ckpt, tested, restarts>>

\* _validate before the training, then the first task.
Begin ==
    /\ pc = "begin"
    /\ tested' = rollout
    /\ step' = step + 1
    /\ Launch(rollout)
    /\ last' = IsLast(step + 1)
    /\ pc' = "await"
    /\ UNCHANGED <<total, batch, actor, rollout, ckpt, trained, restarts>>

\* The servers finish the batch; a failure, theirs or the data loader's, is
\* raised where the task is awaited.
GenerationEnds ==
    /\ future.st = "running"
    /\ \E st \in {"ready", "failed"} : future' = [future EXCEPT !.st = st]
    /\ UNCHANGED <<total, pc, step, last, loader, batch, actor, rollout, ckpt, tested,
                   trained, restarts>>

\* Fault: a task that failed, or has no batch, is waited for as if it ran.
ArrivedReady(f) == f.st = "ready"

Arrived(f) == f.st \notin {"none", "running"}

\* _fit_generate: the result is unpacked, which None does not survive.
AwaitBatch ==
    /\ pc = "await" /\ Arrived(future)
    /\ \/ /\ future.st \notin {"failed", "exhausted"}
          /\ batch' = [id |-> future.id, version |-> future.version]
          /\ pc' = "sync"
       \/ /\ future.st \in {"failed", "exhausted"}
          /\ pc' = "raised"
          /\ UNCHANGED batch
    /\ UNCHANGED <<total, step, last, loader, future, actor, rollout, ckpt, tested,
                   trained, restarts>>

\* The servers get the weights of the previous step, then the next batch.
SyncAndLaunch ==
    /\ pc = "sync"
    /\ rollout' = Synced(step, actor)
    /\ IF last THEN future' = NoFuture /\ UNCHANGED loader
       ELSE Launch(Synced(step, actor))
    /\ pc' = "train"
    /\ UNCHANGED <<total, step, last, batch, actor, ckpt, tested, trained, restarts>>

Train ==
    /\ pc = "train"
    /\ actor' = IF UpdatesAt(step) THEN actor + 1 ELSE actor
    /\ trained' = trained \cup {batch.id}
    /\ pc' = "validate"
    /\ UNCHANGED <<total, step, last, loader, future, batch, rollout, ckpt, tested,
                   restarts>>

\* _fit_validate, with the weights the servers have, while they generate.
Validate ==
    /\ pc = "validate"
    /\ tested' = IF last \/ step % TestFreq = 0 THEN rollout ELSE tested
    /\ pc' = "save"
    /\ UNCHANGED <<total, step, last, loader, future, batch, actor, rollout, ckpt,
                   trained, restarts>>

SaveDue == last \/ step % SaveFreq = 0

Checkpoint == [step |-> step, actor |-> actor, loader |-> loader, trained |-> trained]

\* _fit_save_checkpoint, also when the instance is about to expire.
Save ==
    /\ pc = "save"
    /\ \/ ckpt' = Checkpoint
       \/ ~SaveDue /\ UNCHANGED ckpt
    /\ pc' = "post"
    /\ UNCHANGED <<total, step, last, loader, future, batch, actor, rollout, tested,
                   trained, restarts>>

\* _fit_postprocess_step, the end of fit or the next _fit_prepare_step.
Post ==
    /\ pc = "post"
    /\ step' = step + 1
    /\ last' = (last \/ IsLast(step + 1))
    /\ pc' = IF last THEN "finished" ELSE "await"
    /\ UNCHANGED <<total, loader, future, batch, actor, rollout, ckpt, tested, trained,
                   restarts>>

\* The job dies, has raised or has finished, and is started again: new servers,
\* with the weights they were configured with.
Restart ==
    /\ pc # "load" /\ restarts < MaxRestarts
    /\ restarts' = restarts + 1
    /\ pc' = "load" /\ rollout' = 0 /\ future' = NoFuture /\ batch' = NoBatch
    /\ last' = FALSE
    /\ UNCHANGED <<total, step, loader, actor, ckpt, tested, trained>>

Fit == Load \/ Begin \/ AwaitBatch \/ SyncAndLaunch \/ Train \/ Validate \/ Save \/ Post

Next == Fit \/ GenerationEnds \/ Restart

Spec == Init /\ [][Next]_vars

\* fit goes on when it can, and the servers answer every request.
Fairness == WF_vars(Fit) /\ WF_vars(GenerationEnds)

FairSpec == Spec /\ Fairness

-----------------------------------------------------------------------------
Batches == 0..(total + MaxRestarts + 1)

\* Every variable has its type: in particular no more than one batch more than
\* the steps so far, and one per restart, has been drawn.
TypeOK ==
    /\ pc \in {"load", "begin", "await", "sync", "train", "validate", "save", "post",
               "finished", "raised"}
    /\ step \in 0..total + restarts + 1 /\ last \in BOOLEAN /\ restarts \in 0..MaxRestarts
    /\ loader.at \in 0..StepsPerEpoch /\ loader.pass \in 1..TotalEpochs
    /\ future \in [st : {"none", "running", "ready", "failed", "exhausted"},
                   id : Batches, version : Nat]
    /\ batch \in [id : Batches, version : Nat]
    /\ actor \in Nat /\ rollout \in Nat /\ tested \in Nat
    /\ trained \subseteq Batches /\ ckpt.trained \subseteq Batches

\* A batch was generated with the weights of the step before, or with those it
\* is used to update: off by at most one update, also after a restart.
AtMostOneStepOff == pc = "train" => batch.version \in {actor - 1, actor}

\* Weights are never synchronised while the servers generate: the client of
\* this trainer does not resume an aborted request.
SyncQuiet == pc = "sync" => future.st # "running"

\* How far off policy the trainer can be: weights and generation take turns, and
\* a batch is at most one update old.
OffPolicyInv == TypeOK /\ SyncQuiet /\ AtMostOneStepOff

\* A restart never leads to a batch being learned from twice, as long as no
\* earlier restart made the number of steps differ from that of batches.
NoBatchTwice == pc = "train" /\ restarts <= 1 => batch.id \notin trained

Skipped == {b \in 1..batch.id : b \notin trained \cup {batch.id}}

\* A restart in the middle of an epoch skips the batch that was being generated
\* when the checkpoint was saved, and only that one.
SkippedPerRestart == pc = "train" => Cardinality(Skipped) <= restarts

\* fit runs out of data only if more steps are asked for than there is data,
\* or if batches were skipped.
DataSuffices ==
    future.st = "exhausted" =>
        \/ total > StepsPerEpoch * TotalEpochs
        \/ \E b \in 1..(loader.done + loader.at) : b \notin trained \cup {batch.id}

\* When fit returns, the last step is in the checkpoint, and what was validated
\* last are the weights before its update or newer ones.
FinishedSaved == pc = "finished" => tested >= actor - 1 /\ ckpt.actor = actor

\* Every restart of a job whose last step is saved adds one step, no more.
StepsBounded == ckpt.step <= total + restarts

\* What restarts may cost: no batch twice, one batch skipped and one step added
\* per restart, data for every step otherwise, and a saved last step.
RestartCost ==
    NoBatchTwice /\ SkippedPerRestart /\ StepsBounded /\ DataSuffices /\ FinishedSaved

\* fit ends.
FitEnds == <>[](pc \in {"finished", "raised"})
=============================================================================

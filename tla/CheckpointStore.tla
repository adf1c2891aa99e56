-------------------------- MODULE CheckpointStore --------------------------
(***************************************************************************)
(* Saving, rotating and resuming checkpoints in fully asynchronous         *)
(* training: the trainer's fit loop and _save_checkpoint, one checkpoint   *)
(* manager per role (actor, critic), the rollouter's data.pt, the tracker  *)
(* file, and a job that may be killed between any two writes.              *)
(*                                                                         *)
(* A role's shards and data.pt are each abstracted to whether they are     *)
(* absent, partial or complete on disk; a complete part records how many   *)
(* model updates it holds.  The ranks of a worker group are one writer:    *)
(* rank 0 rotates only behind a barrier that follows every rank's write.   *)
(***************************************************************************)
EXTENDS Integers, Sequences, FiniteSets

CONSTANTS
    Roles,              \* sequence of roles in the order they are saved
    Keep,               \* max_actor_ckpt_to_keep = max_critic_ckpt_to_keep, 0: None
    SaveFreq,           \* trainer.save_freq
    TriggerSyncStep,    \* trigger_parameter_sync_step
    VersionBound,       \* bound on current_param_version
    CrashBound          \* bound on kills of the job

Versions == 1..VersionBound

\* Sequence of writes of one checkpoint: every role, then data.pt.
SaveOrder == Append(Roles, "data")

RoleSet == {Roles[i] : i \in 1..Len(Roles)}

Parts == RoleSet \cup {"data"}

ASSUME CheckpointAssumption ==
    /\ Roles \in Seq({"actor", "critic"}) /\ Len(Roles) > 0
    /\ \A i, j \in 1..Len(Roles) : Roles[i] = Roles[j] => i = j
    /\ Keep \in Nat
    /\ SaveFreq \in Nat \ {0}
    /\ TriggerSyncStep \in Nat \ {0}
    /\ VersionBound \in Nat \ {0}
    /\ CrashBound \in Nat

VARIABLES
    \* disk
    disk, content, folders, tracker, torn,
    \* memory of the job
    pc, part, version, localStep, updates, lastCkpt, saved, ending,
    \* history
    crashes

diskVars == <<disk, content, folders, tracker, torn>>
modelVars == <<version, localStep, updates, lastCkpt>>
vars == <<diskVars, pc, part, modelVars, saved, ending, crashes>>

Init ==
    /\ disk = [p \in Parts |-> [v \in Versions |-> "absent"]]
    /\ content = [p \in Parts |-> [v \in Versions |-> 0]]
    /\ folders = {} /\ tracker = 0 /\ torn = FALSE
    /\ pc = "train" /\ part = 1
    /\ version = 0 /\ localStep = 1 /\ updates = 0 /\ lastCkpt = 0
    /\ saved = [r \in RoleSet |-> <<>>]
    /\ ending = FALSE /\ crashes = 0

Current == SaveOrder[part]

-----------------------------------------------------------------------------
(* Checkpoint manager: retention *)

\* remove_previous_save_local_path for the first n of the paths of role r.
WithoutFirst(r, paths, n) ==
    [disk EXCEPT ![r] = [v \in Versions |->
        IF \E i \in 1..n : paths[i] = v THEN "absent" ELSE disk[r][v]]]

\* Fault: one checkpoint more is kept before a save.
ExcessBeforeSaveOne(r) ==
    IF Keep > 1 /\ Len(saved[r]) >= Keep THEN Len(saved[r]) - Keep ELSE 0

\* ensure_checkpoint_capacity: how many checkpoints of r go before a save.
ExcessBeforeSave(r) ==
    IF Keep > 1 /\ Len(saved[r]) >= Keep THEN Len(saved[r]) - Keep + 1 ELSE 0

\* Fault: register_checkpoint keeps one checkpoint less.
ExcessAfterSaveOne(n) == IF Keep > 0 /\ n >= Keep THEN n - Keep + 1 ELSE 0

\* register_checkpoint: how many of n tracked checkpoints go after a save.
ExcessAfterSave(n) == IF Keep > 0 /\ n > Keep THEN n - Keep ELSE 0

-----------------------------------------------------------------------------
(* Trainer: fit *)

MemoryKept == UNCHANGED <<modelVars, saved, ending, crashes>>

MoreLocalSteps == localStep < TriggerSyncStep

\* One fit_step up to _fit_update_local_step; the save decision comes next.
TrainStep ==
    /\ pc = "train"
    /\ updates' = updates + 1
    /\ IF MoreLocalSteps
       THEN localStep' = localStep + 1 /\ UNCHANGED version
       ELSE version < VersionBound /\ version' = version + 1 /\ localStep' = 1
    /\ pc' = "decide"
    /\ UNCHANGED <<diskVars, part, lastCkpt, saved, ending, crashes>>

\* The early return of _fit_save_checkpoint.
SaveAllowed == version # lastCkpt

\* Fault: the period is off by one.
SaveDueLate == version % (SaveFreq + 1) = 0

SaveDue == version % SaveFreq = 0

\* _fit_save_checkpoint: the frequency, or an expiring instance (esi).
SaveDecision ==
    /\ pc = "decide"
    /\ \E esi \in BOOLEAN :
        pc' = IF SaveAllowed /\ (SaveDue \/ esi)
              THEN "begin" ELSE "train"
    /\ part' = 1
    /\ UNCHANGED diskVars
    /\ MemoryKept

\* The queue ended: fit leaves its loop and forces a last save.
FinalSave ==
    /\ pc = "train"
    /\ ending' = TRUE
    /\ pc' = IF SaveAllowed THEN "begin" ELSE "ended"
    /\ part' = 1
    /\ UNCHANGED <<diskVars, modelVars, saved, crashes>>

-----------------------------------------------------------------------------
(* Trainer: _save_checkpoint *)

\* save_checkpoint of a role rotates, then makes the directory and starts to
\* write; the rollouter's save_checkpoint starts to write data.pt.
BeginPart ==
    /\ pc = "begin"
    /\ LET n == IF Current = "data" THEN 0 ELSE ExcessBeforeSave(Current)
           rest == IF Current = "data" THEN disk
                   ELSE WithoutFirst(Current, saved[Current], n)
       IN  /\ disk' = [rest EXCEPT ![Current][version] = "partial"]
           /\ saved' = IF Current = "data" THEN saved
                       ELSE [saved EXCEPT ![Current] =
                                SubSeq(@, n + 1, Len(@))]
    /\ folders' = folders \cup {version}
    /\ pc' = "write"
    /\ UNCHANGED <<content, tracker, torn, part, modelVars, ending, crashes>>

\* Every rank has written its shards, or torch.save of data.pt returned.
WritePart ==
    /\ pc = "write"
    /\ disk' = [disk EXCEPT ![Current][version] = "complete"]
    /\ content' = [content EXCEPT ![Current][version] = updates]
    /\ pc' = IF Current = "data" THEN "open" ELSE "register"
    /\ UNCHANGED <<folders, tracker, torn, part>>
    /\ MemoryKept

\* register_checkpoint, after the barrier.
Register ==
    /\ pc = "register"
    /\ LET n == ExcessAfterSave(Len(saved[Current]) + 1)
           paths == Append(saved[Current], version)
       IN  /\ saved' = [saved EXCEPT ![Current] = SubSeq(paths, n + 1, Len(paths))]
           /\ disk' = WithoutFirst(Current, paths, n)
    /\ part' = part + 1
    /\ pc' = "begin"
    /\ UNCHANGED <<content, folders, tracker, torn, modelVars, ending, crashes>>

\* open(tracker, "w") truncates the file; f.write and close fill it.
TrackerOpen ==
    /\ pc = "open"
    /\ torn' = TRUE
    /\ pc' = "track"
    /\ UNCHANGED <<disk, content, folders, tracker, part>>
    /\ MemoryKept

TrackerWrite ==
    /\ pc = "track"
    /\ tracker' = version
    /\ torn' = FALSE
    /\ lastCkpt' = version
    /\ pc' = IF ending THEN "ended" ELSE "train"
    /\ UNCHANGED <<disk, content, folders, part, version, localStep, updates,
                   saved, ending, crashes>>

Save == BeginPart \/ WritePart \/ Register \/ TrackerOpen \/ TrackerWrite

-----------------------------------------------------------------------------
(* Kill and restart *)

\* The job is killed, or has ended and is submitted again: memory is lost.
Kill ==
    /\ pc \notin {"down", "broken"}
    /\ crashes < CrashBound
    /\ crashes' = crashes + 1
    /\ pc' = "down"
    /\ version' = 0 /\ localStep' = 1 /\ updates' = 0 /\ lastCkpt' = 0
    /\ saved' = [r \in RoleSet |-> <<>>]
    /\ ending' = FALSE
    /\ part' = 1
    /\ UNCHANGED diskVars

\* find_latest_ckpt_path returns a folder.
LatestFound == tracker > 0 /\ tracker \in folders

\* torch.load succeeds for every part; a missing data.pt is only a warning.
Loadable(v) ==
    /\ \A r \in RoleSet : disk[r][v] = "complete"
    /\ disk["data"][v] # "partial"

\* load_checkpoint of trainer and rollouter with resume_mode = auto, no
\* checkpoint found: train from scratch.
StartFromScratch ==
    /\ pc = "down"
    /\ ~torn
    /\ ~LatestFound
    /\ pc' = "train"
    /\ UNCHANGED <<diskVars, part>>
    /\ MemoryKept

\* Fault: last_ckpt_version is left at its initial value.
LastCkptForgotten == 0

LastCkptLoaded == tracker

Resume ==
    /\ pc = "down"
    /\ ~torn
    /\ LatestFound
    /\ Loadable(tracker)
    /\ version' = tracker
    /\ lastCkpt' = LastCkptLoaded
    /\ localStep' = 1
    /\ updates' = content[Roles[1]][tracker]
    /\ pc' = "train"
    /\ UNCHANGED <<diskVars, part, saved, ending, crashes>>

\* int() of an empty tracker file or torch.load of a missing shard raises, and
\* does so again at every restart.
ResumeFails ==
    /\ pc = "down"
    /\ torn \/ (LatestFound /\ ~Loadable(tracker))
    /\ pc' = "broken"
    /\ UNCHANGED <<diskVars, part>>
    /\ MemoryKept

Restart == StartFromScratch \/ Resume \/ ResumeFails

Next == TrainStep \/ SaveDecision \/ FinalSave \/ Save \/ Kill \/ Restart

Spec == Init /\ [][Next]_vars

-----------------------------------------------------------------------------
(* Properties *)

\* Every field has its type.
TypeOK ==
    /\ disk \in [Parts -> [Versions -> {"absent", "partial", "complete"}]]
    /\ content \in [Parts -> [Versions -> Nat]]
    /\ folders \in SUBSET Versions
    /\ tracker \in 0..VersionBound /\ torn \in BOOLEAN
    /\ pc \in {"train", "decide", "begin", "write", "register", "open",
               "track", "ended", "down", "broken"}
    /\ part \in 1..Len(SaveOrder)
    /\ version \in 0..VersionBound /\ localStep \in 1..TriggerSyncStep
    /\ updates \in Nat /\ lastCkpt \in 0..VersionBound
    /\ saved \in [RoleSet -> Seq(Versions)]
    /\ ending \in BOOLEAN /\ crashes \in 0..CrashBound

\* What makes a kill survivable: whatever save was in progress, the checkpoint
\* that latest_checkpointed_iteration.txt names has all its parts, written by
\* one save.
TrackedComplete ==
    tracker > 0 =>
        \A p \in Parts : /\ disk[p][tracker] = "complete"
                         /\ content[p][tracker] = content["data"][tracker]

\* With two or more checkpoints kept, the only kill a restart cannot survive is
\* one between the truncation of the tracker file and the write.
BrokenOnlyWhenTorn == pc = "broken" => torn

\* A kill costs at most SaveFreq parameter versions.
LostProgress ==
    pc \notin {"down", "broken"} => version - tracker <= SaveFreq

\* A path a checkpoint manager still tracks is a complete checkpoint on disk:
\* rotation never deletes a directory it goes on counting.
TrackedPathsOnDisk ==
    \A r \in RoleSet : \A i \in 1..Len(saved[r]) :
        disk[r][saved[r][i]] = "complete"

\* Checkpoints of a role that take space, complete or not.
Present(r) == {v \in Versions : disk[r][v] # "absent"}

\* Disk use: every incarnation of the job leaves at most Keep checkpoints of a
\* role, also in the middle of a save.
DiskGrowth ==
    \A r \in RoleSet : Cardinality(Present(r)) <= Keep * (crashes + 1)

\* What the disk holds: every path a manager counts is complete, and disk use
\* grows by at most Keep checkpoints of a role per restart.
DiskInv == TrackedPathsOnDisk /\ DiskGrowth
=============================================================================

----------------------------- MODULE LLMServing -----------------------------
(***************************************************************************)
(* Generation requests against servers whose weights the trainer replaces. *)
(*                                                                         *)
(* Clients (FullyAsyncLLMServerClient.generate) acquire a server from the  *)
(* load balancer, send it the request and, when the answer is an abort,    *)
(* try again with the tokens so far.  The trainer drives the servers       *)
(* through CheckpointEngineManager: to synchronise weights it aborts and   *)
(* pauses all standalone servers, and to validate it wakes the hybrid      *)
(* servers on its own GPUs, adds them to the pool for the validation, and  *)
(* puts them back to sleep.                                                *)
(*                                                                         *)
(* The inference engine is external.  pause_generation with mode "abort"   *)
(* holds back requests that have not started and returns once none runs;   *)
(* an engine whose memory is released makes no progress.                   *)
(***************************************************************************)
EXTENDS LoadBalancer, FiniteSets

CONSTANTS
    Standalone,      \* servers on rollout GPUs, always in the pool
    Hybrid,          \* servers sharing the trainer's GPUs (may be empty)
    Requests,        \* conversations of the rollouter
    Validators,      \* conversations of one validation
    MaxTurns,        \* bound on generate calls per conversation
    MaxVersion,      \* bound on parameter versions
    PartialRollout   \* async_training.partial_rollout

ASSUME ServingAssumption ==
    /\ Standalone # {} /\ Standalone \cap Hybrid = {}
    /\ Requests \cap Validators = {}
    /\ IsFiniteSet(Requests) /\ IsFiniteSet(Validators)
    /\ MaxTurns \in Nat \ {0} /\ MaxVersion \in Nat
    /\ PartialRollout \in BOOLEAN

Servers == Standalone \cup Hybrid
Clients == Requests \cup Validators

\* Not a parameter version: weights never loaded, a span not begun.
NoVersion == -1

VARIABLES
    balancer,   \* state of the GlobalRequestLoadBalancer actor
    client,     \* per conversation: the generate call in progress
    releasing,  \* per conversation: servers of release calls on their way
    paused, memory, weights, label,     \* per server
    stage, todo, \* the manager operation in progress and who is left in it
    version     \* current_param_version

vars == <<balancer, client, releasing, paused, memory, weights, label,
          stage, todo, version>>

serverVars == <<paused, memory, weights, label>>
trainerVars == <<stage, todo, version>>

\* on, aborted and answer describe the last attempt; lo and hi are
\* min_global_steps and max_global_steps; used (history) is the set of
\* versions whose weights generated tokens of this call.
Fresh == [phase |-> "idle", on |-> CHOOSE s \in Standalone : TRUE,
          aborted |-> FALSE, answer |-> NoVersion, lo |-> NoVersion,
          hi |-> NoVersion, used |-> {}, turn |-> 1]

\* The state after the first synchronisation and the first sleep_replicas.
Init ==
    /\ balancer = Balancer(Standalone)
    /\ client = [r \in Clients |-> Fresh]
    /\ releasing = [r \in Clients |-> {}]
    /\ paused = [s \in Servers |-> FALSE]
    /\ memory = [s \in Servers |-> IF s \in Hybrid THEN "asleep" ELSE "ready"]
    /\ weights = [s \in Servers |-> IF s \in Hybrid THEN NoVersion ELSE 0]
    /\ label = [s \in Servers |-> IF s \in Hybrid THEN NoVersion ELSE 0]
    /\ stage = "synced" /\ todo = {} /\ version = 0

At(s, phases) == {r \in Clients : client[r].on = s /\ client[r].phase \in phases}

RunningOn(s) == At(s, {"running"})

-----------------------------------------------------------------------------
(* The client: generate *)

\* A worker's calls to the balancer arrive in order, so its release of the
\* last attempt precedes this acquire.
Acquire(r) ==
    /\ client[r].phase \in {"idle", "backoff"}
    /\ r \in Validators => stage = "validate"
    /\ releasing[r] = {}
    /\ \E s \in Candidates(balancer, r) :
        /\ balancer' = AcquireServer(balancer, r, s)
        /\ client' = [client EXCEPT ![r].phase = "sent", ![r].on = s]
    /\ UNCHANGED <<releasing, serverVars, trainerVars>>

\* Fault: the first label is kept as the upper end.
MergeFirst(c) ==
    [c EXCEPT !.lo = IF @ = NoVersion THEN c.answer ELSE @,
              !.hi = IF @ = NoVersion THEN c.answer ELSE @]

\* Merging an output into final_output.
Merge(c) == [c EXCEPT !.lo = IF @ = NoVersion THEN c.answer ELSE @,
                      !.hi = c.answer]

\* `output.stop_reason not in ("aborted", "abort") or not partial_rollout'.
TriesAgain(c) == c.aborted /\ PartialRollout

\* The answer arrives: release without waiting, merge, stop or go on.
Return(r) ==
    /\ client[r].phase = "replied"
    /\ releasing' = [releasing EXCEPT ![r] = {client[r].on}]
    /\ client' = [client EXCEPT ![r] =
                    [Merge(client[r]) EXCEPT
                        !.phase = IF TriesAgain(client[r]) THEN "backoff" ELSE "done",
                        !.aborted = FALSE, !.answer = NoVersion]]
    /\ UNCHANGED <<balancer, serverVars, trainerVars>>

\* The next turn of a conversation uses the same request id.
NextTurn(r) ==
    /\ r \in Requests
    /\ client[r].phase = "done" /\ client[r].turn < MaxTurns
    /\ client' = [client EXCEPT ![r] = [Fresh EXCEPT !.on = client[r].on,
                                                     !.turn = client[r].turn + 1]]
    /\ UNCHANGED <<balancer, releasing, serverVars, trainerVars>>

\* The release call reaches the balancer.
Release(r) ==
    /\ \E s \in releasing[r] : balancer' = ReleaseServer(balancer, s)
    /\ releasing' = [releasing EXCEPT ![r] = {}]
    /\ UNCHANGED <<client, serverVars, trainerVars>>

-----------------------------------------------------------------------------
(* The server: generate, on an external engine *)

UsedNow(r) == IF memory[client[r].on] = "ready" THEN {weights[client[r].on]} ELSE {}

Start(r) ==
    /\ client[r].phase = "sent"
    /\ ~paused[client[r].on]
    /\ client' = [client EXCEPT ![r].phase = "running", ![r].used = @ \cup UsedNow(r)]
    /\ UNCHANGED <<balancer, releasing, serverVars, trainerVars>>

\* The engine is done with the request, and the server labels the answer with
\* the global_steps it holds at this moment.
Finish(r, aborted) ==
    LET s == client[r].on
    IN  /\ client[r].phase = "running"
        /\ IF aborted THEN paused[s] ELSE memory[s] = "ready"
        /\ client' = [client EXCEPT ![r].phase = "replied",
                                    ![r].aborted = aborted,
                                    ![r].answer = label[s],
                                    ![r].used = @ \cup UsedNow(r)]
        /\ UNCHANGED <<balancer, releasing, serverVars, trainerVars>>

\* The server raises: the finally clause releases it and generate raises.  (A
\* validation that raises ends the run, so validators do not.)
Fail(r) ==
    /\ r \in Requests
    /\ client[r].phase = "running"
    /\ releasing' = [releasing EXCEPT ![r] = {client[r].on}]
    /\ client' = [client EXCEPT ![r].phase = "failed"]
    /\ UNCHANGED <<balancer, serverVars, trainerVars>>

-----------------------------------------------------------------------------
(* The trainer: update_weights and _trainer_side_validate *)

\* Operation op on the servers on, followed by the operation named next.
Step(op, on, next) == [op |-> op, on |-> on, next |-> next]

\* Fault: generation is not resumed after a synchronisation.
SyncScriptNoContinue == [
    sync_abort    |-> Step("abort",    Standalone, "sync_release"),
    sync_release  |-> Step("no_kv",    Standalone, "sync_load"),
    sync_load     |-> Step("load",     Standalone, "sync_kv"),
    sync_kv       |-> Step("ready",    Standalone, "synced"),
    sync_continue |-> Step("continue", Standalone, "synced")]

\* CheckpointEngineManager.update_weights on the standalone servers.
SyncScript == [
    sync_abort    |-> Step("abort",    Standalone, "sync_release"),
    sync_release  |-> Step("no_kv",    Standalone, "sync_load"),
    sync_load     |-> Step("load",     Standalone, "sync_kv"),
    sync_kv       |-> Step("ready",    Standalone, "sync_continue"),
    sync_continue |-> Step("continue", Standalone, "synced")]

\* Fault: the hybrid servers are woken with the weights they had.
WakeScriptNoLoad == [
    wake_weights |-> Step("no_kv", Hybrid, "wake_kv"),
    wake_load    |-> Step("load",  Hybrid, "wake_kv"),
    wake_kv      |-> Step("ready", Hybrid, "in_abort")]

\* update_weights with the naive backend: the hybrid servers wake up.  The
\* gather of sharded weights keeps the trainer's ranks, and so the servers on
\* their GPUs, in step.
WakeScript == [
    wake_weights |-> Step("no_kv", Hybrid, "wake_load"),
    wake_load    |-> Step("load",  Hybrid, "wake_kv"),
    wake_kv      |-> Step("ready", Hybrid, "in_abort")]

\* The rest of phase 1 of _trainer_side_validate, and phase 2.
EnterScript == [
    in_abort      |-> Step("abort",    Standalone, "in_abort_h"),
    in_abort_h    |-> Step("abort",    Hybrid,     "add"),
    add           |-> Step("add",      {},         "in_continue"),
    in_continue   |-> Step("continue", Standalone, "in_continue_h"),
    in_continue_h |-> Step("continue", Hybrid,     "validate"),
    validate      |-> Step("validate", {},
                           IF Hybrid = {} THEN "train" ELSE "out_abort")]

\* Phase 3 of _trainer_side_validate.
LeaveScript == [
    out_abort      |-> Step("abort",    Standalone, "out_abort_h"),
    out_abort_h    |-> Step("abort",    Hybrid,     "remove"),
    remove         |-> Step("remove",   {},         "out_sleep"),
    out_sleep      |-> Step("asleep",   Hybrid,     "out_continue"),
    out_continue   |-> Step("continue", Standalone, "out_continue_h"),
    out_continue_h |-> Step("continue", Hybrid,     "train")]

\* The operations of two scripts with different stages.
And(f, g) == [st \in DOMAIN f \cup DOMAIN g |-> IF st \in DOMAIN f THEN f[st] ELSE g[st]]

\* The operations in the order the trainer awaits them.
Script == And(And(SyncScript, WakeScript), And(EnterScript, LeaveScript))

\* Who an operation is sent to (asyncio.gather).
Sent(st) == IF st \in DOMAIN Script THEN Script[st].on ELSE {}

Enter(st) == stage' = st /\ todo' = Sent(st)

Doing(s, op) == s \in todo /\ Script[stage].op = op

\* A stage that is one call of the trainer and not one per server.
Calling(op) == stage \in DOMAIN Script /\ Script[stage].op = op

Advance == Enter(Script[stage].next)

\* One server's call returns.
Returned(s) == todo' = todo \ {s} /\ UNCHANGED stage

AllReturned == todo = {}

BeginUpdate ==
    /\ stage = "train" /\ version < MaxVersion
    /\ version' = version + 1
    /\ Enter("sync_abort")
    /\ UNCHANGED <<balancer, client, releasing, serverVars>>

\* No validation is due for this version.
SkipValidation ==
    /\ stage = "synced"
    /\ Enter("train")
    /\ UNCHANGED <<balancer, client, releasing, serverVars, version>>

\* Without hybrid servers, the rollouter validates on the standalone ones.
\* Every validation has request ids of its own; what the cache holds for those
\* of the last one still takes room but serves nobody.
BeginValidation ==
    /\ stage = "synced"
    /\ Enter(IF Hybrid = {} THEN "validate" ELSE "wake_weights")
    /\ client' = [r \in Clients |-> IF r \in Validators THEN Fresh ELSE client[r]]
    /\ balancer' = [balancer EXCEPT
                      !.age = Restrict(@, DOMAIN @ \ Validators),
                      !.route = Restrict(@, DOMAIN @ \ Validators)]
    /\ UNCHANGED <<releasing, serverVars, version>>

NextStage ==
    /\ stage \in DOMAIN Script
    /\ Sent(stage) # {} /\ AllReturned
    /\ Advance
    /\ UNCHANGED <<balancer, client, releasing, serverVars, version>>

\* Fault: requests that wait for the server count as running.
QuietAll(s) == At(s, {"sent", "running"}) = {}

\* Fault: pause_generation returns with requests still running.
QuietEarly(s) == TRUE

\* pause_generation keeps aborting until no request runs.
Quiet(s) == RunningOn(s) = {}

AbortPause(s) ==
    /\ Doing(s, "abort") /\ ~paused[s]
    /\ paused' = [paused EXCEPT ![s] = TRUE]
    /\ UNCHANGED <<balancer, client, releasing, memory, weights, label, trainerVars>>

AbortReturn(s) ==
    /\ Doing(s, "abort") /\ paused[s] /\ Quiet(s)
    /\ Returned(s)
    /\ UNCHANGED <<balancer, client, releasing, serverVars, version>>

ContinueGeneration(s) ==
    /\ Doing(s, "continue")
    /\ paused' = [paused EXCEPT ![s] = FALSE]
    /\ Returned(s)
    /\ UNCHANGED <<balancer, client, releasing, memory, weights, label, version>>

\* release_kv_cache and resume(["weights"]) leave the weights without a KV
\* cache, resume_kv_cache completes the memory and sleep frees all of it.
SetMemory(s) ==
    /\ \E m \in {"no_kv", "ready", "asleep"} :
        Doing(s, m) /\ memory' = [memory EXCEPT ![s] = m]
    /\ Returned(s)
    /\ UNCHANGED <<balancer, client, releasing, paused, weights, label, version>>

\* The server's weights, complete ...
LoadWeights(s) ==
    /\ Doing(s, "load")
    /\ weights[s] # version
    /\ weights' = [weights EXCEPT ![s] = version]
    /\ UNCHANGED <<balancer, client, releasing, paused, memory, label, trainerVars>>

\* Fault: global_steps is not passed on to the server.
SetGlobalStepsForgotten(s) ==
    /\ Doing(s, "load")
    /\ weights[s] = version
    /\ Returned(s)
    /\ UNCHANGED <<balancer, client, releasing, serverVars, version>>

\* ... before set_global_steps.
SetGlobalSteps(s) ==
    /\ Doing(s, "load")
    /\ weights[s] = version
    /\ label' = [label EXCEPT ![s] = version]
    /\ Returned(s)
    /\ UNCHANGED <<balancer, client, releasing, paused, memory, weights, version>>

\* add_replicas and remove_replicas of FullyAsyncLLMServerManager, whose
\* alive_replicas are the hybrid servers of the pool.
AddReplicas ==
    /\ Calling("add")
    /\ balancer' = AddServers(balancer, Hybrid)
    /\ Advance
    /\ UNCHANGED <<client, releasing, serverVars, version>>

RemoveReplicas ==
    /\ Calling("remove")
    /\ balancer' = RemoveServers(balancer, Hybrid)
    /\ Advance
    /\ UNCHANGED <<client, releasing, serverVars, version>>

\* do_validate returns when every validation conversation is complete.
EndValidation ==
    /\ Calling("validate")
    /\ \A r \in Validators : client[r].phase = "done"
    /\ Advance
    /\ UNCHANGED <<balancer, client, releasing, serverVars, version>>

-----------------------------------------------------------------------------
ClientStep(r) == Acquire(r) \/ Return(r) \/ Release(r)

EngineStep(r) == Start(r) \/ \E aborted \in BOOLEAN : Finish(r, aborted)

ServerControl(s) == AbortPause(s) \/ AbortReturn(s) \/ ContinueGeneration(s)
                    \/ SetMemory(s) \/ LoadWeights(s) \/ SetGlobalSteps(s)

TrainerStep == NextStage \/ SkipValidation \/ BeginValidation \/ AddReplicas
               \/ RemoveReplicas \/ EndValidation
               \/ \E s \in Servers : ServerControl(s)

Next ==
    \/ \E r \in Clients : ClientStep(r) \/ EngineStep(r) \/ NextTurn(r) \/ Fail(r)
    \/ TrainerStep
    \/ BeginUpdate

Spec == Init /\ [][Next]_vars

\* Clients and the trainer are coroutines that are resumed when what they
\* await has happened; the engine works on every request it has started.
\* Nothing obliges a request to fail, a conversation to have another turn or
\* the trainer to begin something new.
Fairness ==
    /\ \A r \in Clients : WF_vars(ClientStep(r)) /\ WF_vars(EngineStep(r))
    /\ WF_vars(TrainerStep)

FairSpec == Spec /\ Fairness

-----------------------------------------------------------------------------
(* Properties *)

\* The requests charged to s: sent, being served, or not yet released.
Held(s) == At(s, {"sent", "running", "replied"})
           \cup {r \in Clients : s \in releasing[r]}

Versions == NoVersion .. MaxVersion

\* Every field has its type.
TypeOK ==
    /\ Standalone \subseteq Pool(balancer) /\ Pool(balancer) \subseteq Servers
    /\ balancer.inflight \in [Pool(balancer) -> 0 .. Cardinality(Clients)]
    /\ DOMAIN balancer.age \subseteq Clients
    /\ balancer.age \in Injection(DOMAIN balancer.age, 0 .. CacheSize - 1)
    /\ balancer.route \in [DOMAIN balancer.age -> Servers]
    /\ client \in [Clients ->
         [phase : {"idle", "sent", "running", "replied", "backoff", "done", "failed"},
          on : Servers, aborted : BOOLEAN, answer : Versions, lo : Versions,
          hi : Versions, used : SUBSET Versions, turn : 1 .. MaxTurns]]
    /\ releasing \in [Clients -> SUBSET Servers]
    /\ paused \in [Servers -> BOOLEAN]
    /\ memory \in [Servers -> {"ready", "no_kv", "asleep"}]
    /\ weights \in [Servers -> Versions] /\ label \in [Servers -> Versions]
    /\ stage \in DOMAIN Script \cup {"synced", "train"}
    /\ todo \subseteq Servers /\ version \in 0 .. MaxVersion

\* While a standalone server is without its KV cache, or holds weights other
\* than its label says, no request runs on it: the abort of update_weights is
\* complete on every server before memory and weights are touched.
QuietDuringSync ==
    \A s \in Standalone :
        memory[s] # "ready" \/ weights[s] # label[s] => RunningOn(s) = {}

\* Servers of the pool that take requests hold the same parameter version, so
\* the tokens of a batch do not depend on how its requests were routed.
PoolUniform ==
    \A s, t \in Pool(balancer) :
        ~paused[s] /\ ~paused[t] => weights[s] = weights[t]

\* The span [min_global_steps, max_global_steps] a call reports, taken from the
\* first and the last answer, contains every version that generated tokens.
SpanCovers ==
    \A r \in Clients : client[r].phase \in {"backoff", "done"} =>
        /\ client[r].lo <= client[r].hi
        /\ client[r].used \subseteq client[r].lo .. client[r].hi

\* What _fit_validate measures at a version was generated by that version,
\* on standalone and hybrid servers alike.
ValidatedVersion ==
    \A r \in Validators : stage = "validate" /\ client[r].phase = "done" =>
        client[r].used = {version} /\ client[r].lo = version /\ client[r].hi = version

\* The balancer never charges a server more than it works on, and charges a
\* server that never left the pool exactly that.  (A hybrid server that rejoins
\* may be charged less: add_servers starts it at zero, and a late release of an
\* earlier request takes away the charge of a new one.)
InflightSound ==
    \A s \in Pool(balancer) :
        /\ balancer.inflight[s] <= Cardinality(Held(s))
        /\ s \in Standalone => balancer.inflight[s] = Cardinality(Held(s))

\* A hybrid server of the pool is awake: add_replicas comes after the wake-up
\* and remove_replicas before the sleep.
AliveReady == \A s \in Hybrid \cap Pool(balancer) : memory[s] = "ready"

\* The pool is what the balancer believes: its servers are awake, and it charges
\* them for the requests they hold.
PoolInv == TypeOK /\ AliveReady /\ InflightSound

\* A generate call that reached a server ends although synchronisations and
\* validations abort it again and again: each abort is answered by another
\* attempt, on whichever server the balancer then names.  The one way not to end
\* is to be held by a hybrid server that was put to sleep: the call chose it
\* before it left the pool and started when it was no longer paused.
CallsComplete ==
    \A r \in Requests :
        client[r].phase = "sent" ~>
            \/ client[r].phase \in {"done", "failed"}
            \/ client[r].phase = "running" /\ memory[client[r].on] = "asleep"

\* A synchronisation or a validation that has begun comes to its end: the abort
\* does not wait for requests that wait for the abort to be over, and the
\* validation's own calls survive being routed to servers that come and go.
StagesComplete == (stage # "train") ~> (stage = "train")
=============================================================================

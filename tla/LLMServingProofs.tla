-------------------------- MODULE LLMServingProofs --------------------------
(***************************************************************************)
(* Proofs about the serving side: pool, balancer, conversations and the    *)
(* manager's synchronisations and validations, for every set of standalone *)
(* and hybrid servers, every set of conversations and every cache size.    *)
(*                                                                         *)
(* The manager's operations are the steps of a script.  What a server is   *)
(* at a stage (stopped, ready, holding which weights) is read off the      *)
(* script, which gives ServerInv without any mention of conversations.     *)
(* A stopped server runs nothing, so weights change under no conversation, *)
(* and every server that may generate holds one version, Settled: the new  *)
(* version counts once all standalone servers have loaded it.  The spans   *)
(* that conversations report and the versions that a validation measures   *)
(* follow.  Slots are counted by cardinality of the sets of conversations  *)
(* that hold them, and the cache is bounded because ages are distinct.     *)
(***************************************************************************)
EXTENDS LLMServing, FiniteSetTheorems, TLAPS

\* The stages of each part of the manager's script.
SyncStages == {"sync_abort", "sync_release", "sync_load", "sync_kv", "sync_continue"}
WakeStages == {"wake_weights", "wake_load", "wake_kv"}
EnterStages == {"in_abort", "in_abort_h", "add", "in_continue", "in_continue_h", "validate"}
LeaveStages == {"out_abort", "out_abort_h", "remove", "out_sleep", "out_continue",
                "out_continue_h"}

\* The stages of each part of the script.
LEMMA PartStages ==
    /\ DOMAIN SyncScript = SyncStages /\ DOMAIN WakeScript = WakeStages
    /\ DOMAIN EnterScript = EnterStages /\ DOMAIN LeaveScript = LeaveStages
BY DEF SyncScript, WakeScript, EnterScript, LeaveScript, SyncStages, WakeStages,
       EnterStages, LeaveStages

\* A stage means in the whole script what it means in its part.
LEMMA ScriptParts ==
    /\ DOMAIN Script = SyncStages \cup WakeStages \cup EnterStages \cup LeaveStages
    /\ \A st \in SyncStages : Script[st] = SyncScript[st]
    /\ \A st \in WakeStages : Script[st] = WakeScript[st]
    /\ \A st \in EnterStages : Script[st] = EnterScript[st]
    /\ \A st \in LeaveStages : Script[st] = LeaveScript[st]
BY PartStages DEF Script, And, SyncStages, WakeStages, EnterStages, LeaveStages

\* What each stage of a synchronisation does, to whom, and what follows.
LEMMA SyncTable ==
    /\ Script["sync_abort"] = Step("abort", Standalone, "sync_release")
    /\ Script["sync_release"] = Step("no_kv", Standalone, "sync_load")
    /\ Script["sync_load"] = Step("load", Standalone, "sync_kv")
    /\ Script["sync_kv"] = Step("ready", Standalone, "sync_continue")
    /\ Script["sync_continue"] = Step("continue", Standalone, "synced")
BY ScriptParts DEF SyncScript, SyncStages

\* The same for waking the hybrid servers,
LEMMA WakeTable ==
    /\ Script["wake_weights"] = Step("no_kv", Hybrid, "wake_load")
    /\ Script["wake_load"] = Step("load", Hybrid, "wake_kv")
    /\ Script["wake_kv"] = Step("ready", Hybrid, "in_abort")
BY ScriptParts DEF WakeScript, WakeStages

\* for bringing them into the pool,
LEMMA EnterTable ==
    /\ Script["in_abort"] = Step("abort", Standalone, "in_abort_h")
    /\ Script["in_abort_h"] = Step("abort", Hybrid, "add")
    /\ Script["add"] = Step("add", {}, "in_continue")
    /\ Script["in_continue"] = Step("continue", Standalone, "in_continue_h")
    /\ Script["in_continue_h"] = Step("continue", Hybrid, "validate")
    /\ Script["validate"] =
         Step("validate", {}, IF Hybrid = {} THEN "train" ELSE "out_abort")
BY ScriptParts DEF EnterScript, EnterStages

\* and for taking them out again.
LEMMA LeaveTable ==
    /\ Script["out_abort"] = Step("abort", Standalone, "out_abort_h")
    /\ Script["out_abort_h"] = Step("abort", Hybrid, "remove")
    /\ Script["remove"] = Step("remove", {}, "out_sleep")
    /\ Script["out_sleep"] = Step("asleep", Hybrid, "out_continue")
    /\ Script["out_continue"] = Step("continue", Standalone, "out_continue_h")
    /\ Script["out_continue_h"] = Step("continue", Hybrid, "train")
BY ScriptParts DEF LeaveScript, LeaveStages

-----------------------------------------------------------------------------
(* The inductive invariant *)

\* Every stage the manager can be in.
Stages == SyncStages \cup WakeStages \cup EnterStages \cup LeaveStages
          \cup {"synced", "train"}

\* The stages in which an operation is under way on the standalone servers, or
\* on the hybrid ones.
StandaloneStages ==
    SyncStages \cup {"in_abort", "in_continue", "out_abort", "out_continue"}
HybridStages ==
    WakeStages \cup {"in_abort_h", "in_continue_h", "out_abort_h", "out_sleep",
                     "out_continue_h"}

\* The abort of a server has returned and its generation was not resumed yet.
StandaloneStopped(s) ==
    \/ stage \in {"sync_abort", "in_abort", "out_abort"} /\ s \notin todo
    \/ stage \in {"sync_release", "sync_load", "sync_kv", "in_abort_h", "add",
                  "out_abort_h", "remove", "out_sleep"}
    \/ stage \in {"sync_continue", "in_continue", "out_continue"} /\ s \in todo

\* The same for a hybrid server, which the script aborts and resumes apart.
HybridStopped(s) ==
    \/ stage \in {"in_abort_h", "out_abort_h"} /\ s \notin todo
    \/ stage \in {"add", "in_continue", "remove", "out_sleep", "out_continue"}
    \/ stage \in {"in_continue_h", "out_continue_h"} /\ s \in todo

\* No request runs on a server that is stopped.
Stopped(s) == IF s \in Hybrid THEN HybridStopped(s) ELSE StandaloneStopped(s)

\* The abort of a server is under way.
Aborting(s) ==
    /\ s \in todo
    /\ stage \in {"sync_abort", "in_abort", "in_abort_h", "out_abort", "out_abort_h"}

\* The stages in which the hybrid servers are awake, and those in which they
\* are in the pool.
AwakeStages ==
    {"in_abort", "in_abort_h", "add", "in_continue", "in_continue_h", "validate",
     "out_abort", "out_abort_h", "remove"}
AliveStages ==
    {"in_continue", "in_continue_h", "validate", "out_abort", "out_abort_h", "remove"}

\* The trainer has given a server all of its memory.
Ready(s) ==
    IF s \in Hybrid
    THEN \/ stage = "wake_kv" /\ s \notin todo
         \/ stage \in AwakeStages
         \/ stage = "out_sleep" /\ s \in todo
    ELSE ~(\/ stage = "sync_release" /\ s \notin todo
           \/ stage = "sync_load"
           \/ stage = "sync_kv" /\ s \in todo)

\* The version that generates: the new one counts once every standalone server
\* has loaded it.
Settled == IF stage \in {"sync_abort", "sync_release", "sync_load"}
           THEN version - 1 ELSE version

\* What a conversation is: its place, its server and the versions it reports.
ClientRecords ==
    [phase : {"idle", "sent", "running", "replied", "backoff", "done", "failed"},
     on : Servers, aborted : BOOLEAN, answer : Versions, lo : Versions,
     hi : Versions, used : SUBSET Versions, turn : 1 .. MaxTurns]

\* The types of everything but the balancer, whose pool is enough here.
TypesInv ==
    /\ DOMAIN balancer = {"inflight", "route", "age"}
    /\ Standalone \subseteq Pool(balancer) /\ Pool(balancer) \subseteq Servers
    /\ client \in [Clients -> ClientRecords]
    /\ releasing \in [Clients -> SUBSET Servers]
    /\ paused \in [Servers -> BOOLEAN]
    /\ memory \in [Servers -> {"ready", "no_kv", "asleep"}]
    /\ weights \in [Servers -> Versions] /\ label \in [Servers -> Versions]
    /\ stage \in Stages /\ version \in 0 .. MaxVersion

\* Only servers that the operation under way was sent to are waited for, and
\* the new version of a synchronisation is not the first one.
StageInv ==
    /\ stage \in StandaloneStages => todo \subseteq Standalone
    /\ stage \in HybridStages => todo \subseteq Hybrid
    /\ stage \notin StandaloneStages \cup HybridStages => todo = {}
    /\ stage \in SyncStages => version > 0

\* A stopped server is paused and runs nothing, and a server is paused only
\* while it is being aborted or is stopped.
PauseInv ==
    \A s \in Servers :
        /\ Stopped(s) => paused[s] /\ RunningOn(s) = {}
        /\ paused[s] => Stopped(s) \/ Aborting(s)

\* A server is ready exactly when the script has given it all of its memory.
MemoryInv == \A s \in Servers : memory[s] = "ready" <=> Ready(s)

\* What a server has loaded and what it says of itself.
StandaloneWeights(s) ==
    IF stage = "sync_load"
    THEN /\ s \in todo => label[s] = version - 1 /\ weights[s] \in {version - 1, version}
         /\ s \notin todo => label[s] = version /\ weights[s] = version
    ELSE label[s] = Settled /\ weights[s] = Settled

\* The hybrid servers hold the current version since they were woken.
WokenUp(s) ==
    \/ stage = "wake_load" /\ s \notin todo
    \/ stage = "wake_kv"
    \/ stage \in AwakeStages \cup LeaveStages

\* The standalone servers hold the settled version outside a load, the hybrid
\* ones the current version once they were woken.
WeightsInv ==
    /\ \A s \in Standalone : StandaloneWeights(s)
    /\ \A s \in Hybrid : WokenUp(s) => label[s] = version /\ weights[s] = version

\* Hybrid servers are in the pool between add_replicas and remove_replicas.
AliveInv == \A s \in Hybrid \cap Pool(balancer) : stage \in AliveStages

\* What the servers are, whatever the conversations do.
ServerInv == TypesInv /\ StageInv /\ PauseInv /\ MemoryInv /\ WeightsInv /\ AliveInv

\* The versions a call reports so far.
Reported(c) == IF c.lo = NoVersion THEN {} ELSE c.lo .. c.hi

\* What a call has used beyond what it reports so far is the version now that
\* generates, on a server that is ready, until the answer names it.
SpanOf(c, mem, now) ==
    /\ c.lo <= c.hi /\ c.hi <= now
    /\ c.lo = NoVersion => c.hi = NoVersion
    /\ c.phase \in {"idle", "sent"} => c.used \subseteq Reported(c)
    /\ c.phase = "running" =>
          \A v \in c.used : v \in Reported(c) \/ (mem = "ready" /\ v = now)
    /\ c.phase = "replied" =>
          /\ c.used \subseteq Reported(c) \cup {c.answer}
          /\ c.answer \in 0 .. now /\ c.hi <= c.answer
    /\ c.phase \in {"backoff", "done"} => c.lo # NoVersion /\ c.used \subseteq Reported(c)

\* So it is for every conversation.
SpanInv ==
    \A r \in Clients : SpanOf(client[r], memory[client[r].on], Settled)

\* The stages from the start of a validation to its end.
ValidationStages == WakeStages \cup EnterStages

\* A validation conversation knows no version but the validated one, and has
\* used it once it has an answer.
ValidatorOf(c, now) ==
    /\ c.lo \in {NoVersion, now} /\ c.used \subseteq {now}
    /\ c.phase \in {"replied", "backoff", "done"} => c.used # {}
    /\ c.phase = "replied" => c.answer = now

\* So it is from waking the hybrid servers to the end of the validation;
\* elsewhere no validation conversation is under way.
ValidatorInv ==
    /\ stage \in ValidationStages => \A r \in Validators : ValidatorOf(client[r], version)
    /\ stage # "validate" => \A r \in Validators : client[r].phase \in {"idle", "done"}

\* A conversation that holds a server has no release on its way, and never two.
Holding == {"sent", "running", "replied"}

\* Acquiring and releasing alternate.
HoldInv ==
    \A r \in Clients :
        /\ client[r].phase \in Holding => releasing[r] = {}
        /\ \A s, t \in releasing[r] : s = t

\* A server is charged for exactly the slots that conversations hold on it.
ChargeInv ==
    /\ balancer.inflight \in [Pool(balancer) -> Nat]
    /\ InflightSound

\* No two conversations of the cache are equally old, so it is never overfull.
CacheOf(b) ==
    /\ DOMAIN b.age \subseteq Clients /\ IsInjective(b.age)
    /\ b.age \in [DOMAIN b.age -> 0 .. CacheSize - 1]
    /\ b.route \in [DOMAIN b.age -> Servers]

\* The inductive invariant.
ServingIInv ==
    /\ ServerInv /\ SpanInv /\ ValidatorInv /\ HoldInv /\ ChargeInv
    /\ CacheOf(balancer)

-----------------------------------------------------------------------------
(* The trainer's operations, read off the script *)

USE DEF NoVersion

\* Whom each operation is sent to.
LEMMA SentTo ==
    ASSUME NEW st \in Stages
    PROVE  Sent(st) = IF st \in StandaloneStages THEN Standalone
                      ELSE IF st \in HybridStages THEN Hybrid ELSE {}
BY ScriptParts, SyncTable, WakeTable, EnterTable, LeaveTable, SMTT(60)
   DEF Sent, Step, Stages, StandaloneStages, HybridStages, SyncStages, WakeStages,
       EnterStages, LeaveStages

\* The stages in which a server is asked for each operation.
LEMMA DoingStages ==
    ASSUME TypesInv, StageInv, NEW s
    PROVE  /\ s \in todo => s \in Servers /\ stage \in StandaloneStages \cup HybridStages
           /\ Doing(s, "abort") => Aborting(s)
           /\ Doing(s, "continue") =>
                 s \in todo /\ stage \in {"sync_continue", "in_continue", "in_continue_h",
                                          "out_continue", "out_continue_h"}
           /\ Doing(s, "no_kv") => s \in todo /\ stage \in {"sync_release", "wake_weights"}
           /\ Doing(s, "ready") => s \in todo /\ stage \in {"sync_kv", "wake_kv"}
           /\ Doing(s, "asleep") => s \in todo /\ stage = "out_sleep"
           /\ Doing(s, "load") => s \in todo /\ stage \in {"sync_load", "wake_load"}
<1>1. s \in todo => s \in Servers /\ stage \in StandaloneStages \cup HybridStages
  BY DEF StageInv, Servers
<1>2. QED
  BY <1>1, SyncTable, WakeTable, EnterTable, LeaveTable
     DEF Doing, Aborting, Step, StandaloneStages, HybridStages, SyncStages, WakeStages

\* The stages of the calls that go to no server.
LEMMA CallingStages ==
    ASSUME stage \in Stages
    PROVE  /\ Calling("add") => stage = "add"
           /\ Calling("remove") => stage = "remove"
           /\ Calling("validate") => stage = "validate"
BY ScriptParts, SyncTable, WakeTable, EnterTable, LeaveTable
   DEF Calling, Step, Stages, SyncStages, WakeStages, EnterStages, LeaveStages

\* One stage follows another.
Follows(st, nx) ==
    \/ st = "train" /\ nx = "sync_abort"
    \/ st = "sync_abort" /\ nx = "sync_release"
    \/ st = "sync_release" /\ nx = "sync_load"
    \/ st = "sync_load" /\ nx = "sync_kv"
    \/ st = "sync_kv" /\ nx = "sync_continue"
    \/ st = "sync_continue" /\ nx = "synced"
    \/ st = "synced" /\ nx = "train"
    \/ st = "synced" /\ nx = "validate" /\ Hybrid = {}
    \/ st = "synced" /\ nx = "wake_weights"
    \/ st = "wake_weights" /\ nx = "wake_load"
    \/ st = "wake_load" /\ nx = "wake_kv"
    \/ st = "wake_kv" /\ nx = "in_abort"
    \/ st = "in_abort" /\ nx = "in_abort_h"
    \/ st = "in_abort_h" /\ nx = "add"
    \/ st = "add" /\ nx = "in_continue"
    \/ st = "in_continue" /\ nx = "in_continue_h"
    \/ st = "in_continue_h" /\ nx = "validate"
    \/ st = "validate" /\ nx = "train" /\ Hybrid = {}
    \/ st = "validate" /\ nx = "out_abort"
    \/ st = "out_abort" /\ nx = "out_abort_h"
    \/ st = "out_abort_h" /\ nx = "remove"
    \/ st = "remove" /\ nx = "out_sleep"
    \/ st = "out_sleep" /\ nx = "out_continue"
    \/ st = "out_continue" /\ nx = "out_continue_h"
    \/ st = "out_continue_h" /\ nx = "train"

\* The trainer goes on, once nobody is waited for.
Moved ==
    /\ todo = {} /\ Follows(stage, stage')
    /\ todo' = IF stage' \in StandaloneStages THEN Standalone
               ELSE IF stage' \in HybridStages THEN Hybrid ELSE {}
    /\ version' = IF stage = "train" THEN version + 1 ELSE version
    /\ version' \in 0 .. MaxVersion
    /\ UNCHANGED serverVars

\* What the script names next is what follows.
LEMMA NextFollows ==
    ASSUME stage \in DOMAIN Script
    PROVE  Follows(stage, Script[stage].next)
BY ScriptParts, SyncTable, WakeTable, EnterTable, LeaveTable
   DEF Follows, Step, SyncStages, WakeStages, EnterStages, LeaveStages

\* The script leads from stages to stages.
LEMMA FollowsStages ==
    ASSUME NEW st, NEW nx, Follows(st, nx)
    PROVE  st \in Stages /\ nx \in Stages
BY DEF Follows, Stages, SyncStages, WakeStages, EnterStages, LeaveStages

\* A stage that is entered: whom the trainer waits for then.
LEMMA EnterFacts ==
    ASSUME NEW nx, Enter(nx), Follows(stage, nx)
    PROVE  /\ stage' = nx /\ Follows(stage, stage')
           /\ todo' = IF stage' \in StandaloneStages THEN Standalone
                      ELSE IF stage' \in HybridStages THEN Hybrid ELSE {}
<1>1. nx \in Stages
  BY FollowsStages
<1>2. QED
  BY <1>1, SentTo DEF Enter

\* The actions with which the trainer goes on.
Onward == NextStage \/ SkipValidation \/ BeginValidation \/ AddReplicas
          \/ RemoveReplicas \/ EndValidation \/ BeginUpdate

\* Moving on follows the script.
LEMMA OnwardMoves ==
    ASSUME TypesInv, StageInv, Onward
    PROVE  Moved
<1>a. stage \in Stages /\ version \in 0 .. MaxVersion /\ MaxVersion \in Nat
  BY ServingAssumption DEF TypesInv
<1>b. stage \notin StandaloneStages \cup HybridStages => todo = {}
  BY DEF StageInv
<1>1. CASE NextStage
  <2>1. stage \in DOMAIN Script /\ todo = {} /\ Enter(Script[stage].next)
    BY <1>1 DEF NextStage, AllReturned, Advance
  <2>2. stage # "train"
    BY <2>1, ScriptParts DEF SyncStages, WakeStages, EnterStages, LeaveStages
  <2>3. QED
    BY <1>1, <1>a, <2>1, <2>2, NextFollows, EnterFacts DEF NextStage, Moved
<1>2. CASE SkipValidation
  <2>1. Follows(stage, "train") /\ Enter("train") /\ stage = "synced"
    BY <1>2 DEF SkipValidation, Follows
  <2>2. QED
    BY <1>2, <1>a, <1>b, <2>1, EnterFacts
       DEF SkipValidation, Moved, StandaloneStages, HybridStages, SyncStages, WakeStages
<1>3. CASE BeginValidation
  <2> DEFINE nx == IF Hybrid = {} THEN "validate" ELSE "wake_weights"
  <2>1. Follows(stage, nx) /\ Enter(nx) /\ stage = "synced"
    BY <1>3 DEF BeginValidation, Follows
  <2>2. QED
    BY <1>3, <1>a, <1>b, <2>1, EnterFacts
       DEF BeginValidation, Moved, StandaloneStages, HybridStages, SyncStages, WakeStages
<1>4. CASE AddReplicas
  <2>1. stage = "add" /\ Enter("in_continue") /\ Follows(stage, "in_continue")
    BY <1>4, <1>a, CallingStages, EnterTable DEF AddReplicas, Advance, Step, Follows
  <2>2. QED
    BY <1>4, <1>a, <1>b, <2>1, EnterFacts
       DEF AddReplicas, Moved, StandaloneStages, HybridStages, SyncStages, WakeStages
<1>5. CASE RemoveReplicas
  <2>1. stage = "remove" /\ Enter("out_sleep") /\ Follows(stage, "out_sleep")
    BY <1>5, <1>a, CallingStages, LeaveTable DEF RemoveReplicas, Advance, Step, Follows
  <2>2. QED
    BY <1>5, <1>a, <1>b, <2>1, EnterFacts
       DEF RemoveReplicas, Moved, StandaloneStages, HybridStages, SyncStages, WakeStages
<1>6. CASE EndValidation
  <2> DEFINE nx == IF Hybrid = {} THEN "train" ELSE "out_abort"
  <2>1. stage = "validate" /\ Enter(nx) /\ Follows(stage, nx)
    BY <1>6, <1>a, CallingStages, EnterTable DEF EndValidation, Advance, Step, Follows
  <2>2. QED
    BY <1>6, <1>a, <1>b, <2>1, EnterFacts
       DEF EndValidation, Moved, StandaloneStages, HybridStages, SyncStages, WakeStages
<1>7. CASE BeginUpdate
  <2>1. stage = "train" /\ Enter("sync_abort") /\ Follows(stage, "sync_abort")
    BY <1>7 DEF BeginUpdate, Follows
  <2>2. version' = version + 1 /\ version' \in 0 .. MaxVersion
    BY <1>7, <1>a DEF BeginUpdate
  <2>3. QED
    BY <1>7, <1>a, <1>b, <2>1, <2>2, EnterFacts
       DEF BeginUpdate, Moved, StandaloneStages, HybridStages, SyncStages, WakeStages
<1>8. QED
  BY <1>1, <1>2, <1>3, <1>4, <1>5, <1>6, <1>7 DEF Onward

-----------------------------------------------------------------------------
(* The servers *)

\* The steps of a conversation, on the client's or on the server's side.
ClientMoves == \E r \in Clients : ClientStep(r) \/ EngineStep(r) \/ NextTurn(r) \/ Fail(r)

\* A step is one of a conversation, one of a server for the trainer, or one
\* with which the trainer goes on.
LEMMA StepKinds ==
    ASSUME Next
    PROVE  ClientMoves \/ Onward \/ \E s \in Servers : ServerControl(s)
BY DEF Next, ClientMoves, Onward, TrainerStep

\* Conversations touch neither servers nor trainer.
LEMMA ClientLeaves ==
    ASSUME ClientMoves
    PROVE  UNCHANGED <<serverVars, trainerVars>>
<1>1. PICK r \in Clients : ClientStep(r) \/ EngineStep(r) \/ NextTurn(r) \/ Fail(r)
  BY DEF ClientMoves
<1>2. CASE ClientStep(r)
  BY <1>2 DEF ClientStep, Acquire, Return, Release
<1>3. CASE EngineStep(r)
  BY <1>3 DEF EngineStep, Start, Finish
<1>4. CASE NextTurn(r) \/ Fail(r)
  BY <1>4 DEF NextTurn, Fail
<1>5. QED
  BY <1>1, <1>2, <1>3, <1>4

\* What a server's operation for the trainer does: the stage stays, and the
\* server is waited for until its call returns.
LEMMA ControlFacts ==
    ASSUME TypesInv, StageInv, NEW s \in Servers, ServerControl(s)
    PROVE  /\ s \in todo /\ stage' = stage /\ version' = version
           /\ todo' = todo \/ todo' = todo \ {s}
           /\ UNCHANGED <<balancer, client, releasing>>
<1>1. CASE AbortPause(s)
  BY <1>1 DEF AbortPause, Doing, trainerVars
<1>2. CASE AbortReturn(s)
  BY <1>2 DEF AbortReturn, Doing, Returned
<1>3. CASE ContinueGeneration(s)
  BY <1>3 DEF ContinueGeneration, Doing, Returned
<1>4. CASE SetMemory(s)
  BY <1>4 DEF SetMemory, Doing, Returned
<1>5. CASE LoadWeights(s)
  BY <1>5 DEF LoadWeights, Doing, trainerVars
<1>6. CASE SetGlobalSteps(s)
  BY <1>6 DEF SetGlobalSteps, Doing, Returned
<1>7. QED
  BY <1>1, <1>2, <1>3, <1>4, <1>5, <1>6 DEF ServerControl

\* Every step keeps the place in the script consistent with who is waited for.
LEMMA StageStep ==
    ASSUME TypesInv, StageInv, [Next]_vars
    PROVE  StageInv' /\ stage' \in Stages /\ version' \in 0 .. MaxVersion
<1>1. CASE UNCHANGED <<serverVars, trainerVars>>
  BY <1>1 DEF TypesInv, StageInv, trainerVars
<1>2. CASE Onward
  <2>1. Moved
    BY <1>2, OnwardMoves
  <2>2. stage \in SyncStages => version > 0
    BY DEF StageInv
  <2>3. stage' \in Stages
    BY <2>1, FollowsStages DEF Moved
  <2>4. stage' \in SyncStages => version' > 0
    BY <2>1, <2>2, ServingAssumption DEF Moved, TypesInv, Follows, SyncStages
  <2>5. stage' \notin StandaloneStages \/ stage' \notin HybridStages
    BY DEF StandaloneStages, HybridStages, SyncStages, WakeStages
  <2>6. QED
    BY <2>1, <2>3, <2>4, <2>5 DEF Moved, StageInv
<1>3. CASE \E s \in Servers : ServerControl(s)
  <2>1. PICK s \in Servers : ServerControl(s)
    BY <1>3
  <2>2. stage' = stage /\ version' = version /\ todo' \subseteq todo
    BY <2>1, ControlFacts
  <2>3. QED
    BY <2>2 DEF StageInv, TypesInv
<1>4. QED
  BY <1>1, <1>2, <1>3, StepKinds, ClientLeaves DEF vars, serverVars, trainerVars

\* A quiet server runs no conversation.
LEMMA QuietMeans ==
    ASSUME NEW s
    PROVE  Quiet(s) <=> \A r \in Clients : client[r].on = s => client[r].phase # "running"
BY DEF Quiet, RunningOn, At

\* The same in the next state.
LEMMA QuietMeansNext ==
    ASSUME NEW s
    PROVE  Quiet(s)' <=> \A r \in Clients : client'[r].on = s => client'[r].phase # "running"
BY DEF Quiet, RunningOn, At

\* A paused server that runs nothing starts nothing.
LEMMA QuietKept ==
    ASSUME TypesInv, StageInv, [Next]_vars, NEW s, paused[s], Quiet(s)
    PROVE  Quiet(s)'
<1> DEFINE Calm(c) == c.on = s => c.phase # "running"
<1>a. client \in [Clients -> ClientRecords]
  BY DEF TypesInv
<1>b. \A r \in Clients : Calm(client[r])
  BY QuietMeans
<1>1. CASE client' = client
  BY <1>1, <1>b, QuietMeansNext
<1>2. CASE BeginValidation
  <2>1. \A r \in Clients : client'[r] = IF r \in Validators THEN Fresh ELSE client[r]
    BY <1>2 DEF BeginValidation
  <2>2. Calm(Fresh)
    BY DEF Fresh
  <2>3. QED
    BY <1>b, <2>1, <2>2, QuietMeansNext
<1>3. CASE ClientMoves
  <2>1. PICK q \in Clients : ClientStep(q) \/ EngineStep(q) \/ NextTurn(q) \/ Fail(q)
    BY <1>3 DEF ClientMoves
  <2>2. CASE Release(q)
    BY <2>2, <1>1 DEF Release
  <2>3. CASE Start(q)
    <3>1. client[q].on # s
      BY <2>3 DEF Start
    <3>2. \A r \in Clients : /\ client'[r].on = client[r].on
                             /\ r # q => client'[r].phase = client[r].phase
      BY <2>3, <1>a DEF Start, ClientRecords
    <3>3. QED
      BY <1>b, <3>1, <3>2, QuietMeansNext
  <2>4. CASE ~Release(q) /\ ~Start(q)
    <3>1. client'[q].phase # "running"
      <4>1. CASE Acquire(q)
        BY <4>1, <1>a DEF Acquire, ClientRecords
      <4>2. CASE Return(q)
        BY <4>2, <1>a DEF Return, ClientRecords, Merge
      <4>3. CASE NextTurn(q)
        BY <4>3, <1>a DEF NextTurn, ClientRecords, Fresh
      <4>4. CASE Fail(q)
        BY <4>4, <1>a DEF Fail, ClientRecords
      <4>5. CASE \E aborted \in BOOLEAN : Finish(q, aborted)
        BY <4>5, <1>a DEF Finish, ClientRecords
      <4>6. QED
        BY <2>1, <2>4, <4>1, <4>2, <4>3, <4>4, <4>5 DEF ClientStep, EngineStep
    <3>2. \A r \in Clients \ {q} : client'[r] = client[r]
      <4>1. CASE ClientStep(q)
        BY <4>1, <1>a DEF ClientStep, Acquire, Return, Release
      <4>2. CASE EngineStep(q)
        BY <4>2, <1>a DEF EngineStep, Start, Finish
      <4>3. CASE NextTurn(q) \/ Fail(q)
        BY <4>3, <1>a DEF NextTurn, Fail
      <4>4. QED
        BY <2>1, <4>1, <4>2, <4>3
    <3>3. QED
      BY <1>b, <3>1, <3>2, QuietMeansNext
  <2>5. QED
    BY <2>2, <2>3, <2>4
<1>4. CASE Onward /\ ~BeginValidation
  BY <1>4, <1>1 DEF Onward, NextStage, SkipValidation, AddReplicas, RemoveReplicas,
                    EndValidation, BeginUpdate
<1>5. CASE \E t \in Servers : ServerControl(t)
  BY <1>5, <1>1, ControlFacts
<1>6. QED
  BY <1>1, <1>2, <1>3, <1>4, <1>5, StepKinds DEF vars

\* Going on stops no server and resumes none.
LEMMA MovedStopped ==
    ASSUME Moved, NEW s \in Servers
    PROVE  Stopped(s)' <=> Stopped(s)
<1>a. (s \in Standalone /\ s \notin Hybrid) \/ (s \in Hybrid /\ s \notin Standalone)
  BY ServingAssumption DEF Servers
<1>b. todo = {} /\ Follows(stage, stage')
  BY DEF Moved
<1>c. todo' = IF stage' \in StandaloneStages THEN Standalone
              ELSE IF stage' \in HybridStages THEN Hybrid ELSE {}
  BY DEF Moved
<1>1. CASE s \in Standalone /\ s \notin Hybrid
  <2>1. StandaloneStopped(s)' <=> StandaloneStopped(s)
    BY <1>1, <1>b, <1>c DEF StandaloneStopped, Follows, StandaloneStages, HybridStages,
                            SyncStages, WakeStages
  <2>2. QED
    BY <1>1, <2>1 DEF Stopped
<1>2. CASE s \in Hybrid
  <2>1. HybridStopped(s)' <=> HybridStopped(s)
    BY <1>2, <1>a, <1>b, <1>c DEF HybridStopped, Follows, StandaloneStages, HybridStages,
                            SyncStages, WakeStages
  <2>2. QED
    BY <1>2, <2>1 DEF Stopped
<1>3. QED
  BY <1>a, <1>1, <1>2

\* The pause of one server.
PauseOf(s) ==
    /\ Stopped(s) => paused[s] /\ Quiet(s)
    /\ paused[s] => Stopped(s) \/ Aborting(s)

\* The pause invariant, server by server.
LEMMA PauseMeans == PauseInv <=> \A s \in Servers : PauseOf(s)
BY DEF PauseInv, PauseOf, Quiet

\* A server's operation changes the stopping of no other server, and of its
\* own only with the end of an abort or with the end of the pause.
LEMMA ControlStopped ==
    ASSUME TypesInv, StageInv, NEW s \in Servers, ServerControl(s), NEW t \in Servers,
           t # s \/ todo' = todo
    PROVE  (Stopped(t)' <=> Stopped(t)) /\ (Aborting(t)' <=> Aborting(t))
<1>1. stage' = stage /\ (t \in todo' <=> t \in todo)
  BY ControlFacts
<1>2. QED
  BY <1>1 DEF Stopped, StandaloneStopped, HybridStopped, Aborting

\* Every step keeps a stopped server paused and quiet.
LEMMA PauseStep ==
    ASSUME TypesInv, StageInv, PauseInv, [Next]_vars
    PROVE  PauseInv'
<1> SUFFICES ASSUME NEW t \in Servers
             PROVE  PauseOf(t)'
  BY PauseMeans DEF PauseInv, PauseOf, Quiet
<1>a. PauseOf(t)
  BY PauseMeans
<1>b. paused \in [Servers -> BOOLEAN]
  BY DEF TypesInv
<1>c. paused[t] /\ Quiet(t) => Quiet(t)'
  BY QuietKept
<1>1. CASE UNCHANGED <<serverVars, trainerVars>>
  <2>1. (Stopped(t)' <=> Stopped(t)) /\ (Aborting(t)' <=> Aborting(t))
    BY <1>1 DEF Stopped, StandaloneStopped, HybridStopped, Aborting, trainerVars
  <2>2. paused' = paused
    BY <1>1 DEF serverVars
  <2>3. QED
    BY <1>a, <1>c, <2>1, <2>2 DEF PauseOf
<1>2. CASE Onward
  <2>1. Moved
    BY <1>2, OnwardMoves
  <2>2. paused' = paused /\ ~Aborting(t)
    BY <2>1 DEF Moved, serverVars, Aborting
  <2>3. QED
    BY <1>a, <1>c, <2>1, <2>2, MovedStopped DEF PauseOf
<1>3. CASE \E s \in Servers : ServerControl(s)
  <2>1. PICK s \in Servers : ServerControl(s)
    BY <1>3
  <2>a. stage' = stage /\ s \in todo /\ client' = client
    BY <2>1, ControlFacts
  <2>2. CASE t # s
    <3>1. paused'[t] = paused[t]
      BY <2>1, <2>2, <1>b DEF ServerControl, AbortPause, AbortReturn, ContinueGeneration,
                         SetMemory, LoadWeights, SetGlobalSteps, serverVars
    <3>2. QED
      BY <1>a, <1>c, <2>1, <2>2, <3>1, ControlStopped DEF PauseOf
  <2>3. CASE t = s /\ AbortPause(s)
    <3>1. todo' = todo /\ paused'[t] /\ Aborting(t) /\ ~paused[t]
      BY <2>3, <1>b, DoingStages DEF AbortPause, trainerVars
    <3>2. QED
      BY <1>a, <2>1, <3>1, ControlStopped DEF PauseOf
  <2>4. CASE t = s /\ AbortReturn(s)
    <3>1. paused' = paused /\ paused[t] /\ Quiet(t)
      BY <2>4 DEF AbortReturn, serverVars
    <3>2. Aborting(t) /\ todo' = todo \ {t}
      BY <2>4, DoingStages DEF AbortReturn, Returned
    <3>3. t \in Hybrid <=> stage \in {"in_abort_h", "out_abort_h"}
      BY <3>2, ServingAssumption
         DEF StageInv, Aborting, StandaloneStages, HybridStages, SyncStages
    <3>4. Stopped(t)'
      BY <2>a, <3>2, <3>3 DEF Stopped, StandaloneStopped, HybridStopped, Aborting
    <3>5. QED
      BY <1>c, <3>1, <3>4 DEF PauseOf
  <2>5. CASE t = s /\ ContinueGeneration(s)
    <3>1. ~paused'[t] /\ todo' = todo \ {t}
      BY <2>5, <1>b DEF ContinueGeneration, Returned
    <3>2. stage \in {"sync_continue", "in_continue", "in_continue_h", "out_continue",
                     "out_continue_h"}
      BY <2>5, DoingStages DEF ContinueGeneration
    <3>3. t \in Hybrid <=> stage \in {"in_continue_h", "out_continue_h"}
      BY <2>5, <2>a, <3>2, ServingAssumption
         DEF StageInv, StandaloneStages, HybridStages, SyncStages
    <3>4. ~Stopped(t)'
      BY <2>a, <3>1, <3>2, <3>3 DEF Stopped, StandaloneStopped, HybridStopped
    <3>5. QED
      BY <3>1, <3>4 DEF PauseOf
  <2>6. CASE t = s /\ (SetMemory(s) \/ LoadWeights(s) \/ SetGlobalSteps(s))
    <3>1. paused' = paused
      BY <2>6 DEF SetMemory, LoadWeights, SetGlobalSteps
    <3>2. stage \in {"sync_release", "wake_weights", "sync_kv", "wake_kv", "out_sleep",
                     "sync_load", "wake_load"}
      BY <2>6, DoingStages DEF SetMemory, LoadWeights, SetGlobalSteps
    <3>3. (Stopped(t)' <=> Stopped(t)) /\ ~Aborting(t)
      BY <2>a, <3>2 DEF Stopped, StandaloneStopped, HybridStopped, Aborting
    <3>4. QED
      BY <1>a, <1>c, <3>1, <3>3 DEF PauseOf
  <2>7. QED
    BY <2>1, <2>2, <2>3, <2>4, <2>5, <2>6 DEF ServerControl
<1>4. QED
  BY <1>1, <1>2, <1>3, StepKinds, ClientLeaves DEF vars, serverVars, trainerVars

\* Going on changes no server's memory.
LEMMA MovedReady ==
    ASSUME Moved, NEW s \in Servers
    PROVE  Ready(s)' <=> Ready(s)
<1>a. (s \in Standalone /\ s \notin Hybrid) \/ (s \in Hybrid /\ s \notin Standalone)
  BY ServingAssumption DEF Servers
<1>b. todo = {} /\ Follows(stage, stage')
  BY DEF Moved
<1>c. todo' = IF stage' \in StandaloneStages THEN Standalone
              ELSE IF stage' \in HybridStages THEN Hybrid ELSE {}
  BY DEF Moved
<1>1. CASE s \in Standalone /\ s \notin Hybrid
  BY <1>1, <1>b, <1>c DEF Ready, Follows, StandaloneStages, HybridStages,
                          SyncStages, WakeStages
<1>2. CASE s \in Hybrid /\ s \notin Standalone
  BY <1>2, <1>b, <1>c DEF Ready, AwakeStages, Follows, StandaloneStages, HybridStages,
                          SyncStages, WakeStages
<1>3. QED
  BY <1>a, <1>1, <1>2

\* A server is in the part of the deployment that the operation is for.
LEMMA TodoSide ==
    ASSUME StageInv, NEW s \in todo
    PROVE  /\ stage \in StandaloneStages => s \in Standalone /\ s \notin Hybrid
           /\ stage \in HybridStages => s \in Hybrid /\ s \notin Standalone
BY ServingAssumption DEF StageInv

\* Every step keeps memory in step with the script.
LEMMA MemoryStep ==
    ASSUME TypesInv, StageInv, MemoryInv, [Next]_vars
    PROVE  MemoryInv'
<1> SUFFICES ASSUME NEW t \in Servers
             PROVE  memory'[t] = "ready" <=> Ready(t)'
  BY DEF MemoryInv
<1>a. memory[t] = "ready" <=> Ready(t)
  BY DEF MemoryInv
<1>b. memory \in [Servers -> {"ready", "no_kv", "asleep"}]
  BY DEF TypesInv
<1>1. CASE UNCHANGED <<serverVars, trainerVars>>
  BY <1>1, <1>a DEF serverVars, trainerVars, Ready
<1>2. CASE Onward
  BY <1>2, <1>a, OnwardMoves, MovedReady DEF Moved, serverVars
<1>3. CASE \E s \in Servers : ServerControl(s)
  <2>1. PICK s \in Servers : ServerControl(s)
    BY <1>3
  <2>2. stage' = stage /\ s \in todo /\ (todo' = todo \/ todo' = todo \ {s})
    BY <2>1, ControlFacts
  <2>3. CASE SetMemory(s)
    <3>1. PICK m \in {"no_kv", "ready", "asleep"} :
              Doing(s, m) /\ memory' = [memory EXCEPT ![s] = m]
      BY <2>3 DEF SetMemory
    <3>2. todo' = todo \ {s}
      BY <2>3 DEF SetMemory, Returned
    <3>3. CASE t # s
      BY <1>a, <1>b, <2>2, <3>1, <3>2, <3>3 DEF Ready
    <3>4. CASE t = s
      <4>1. memory'[t] = m
        BY <1>b, <3>1, <3>4
      <4>2. CASE m = "no_kv"
        BY <2>2, <3>1, <3>2, <3>4, <4>1, <4>2, DoingStages, TodoSide
           DEF Ready, AwakeStages, StandaloneStages, HybridStages, SyncStages, WakeStages
      <4>3. CASE m = "ready"
        BY <2>2, <3>1, <3>2, <3>4, <4>1, <4>3, DoingStages, TodoSide
           DEF Ready, AwakeStages, StandaloneStages, HybridStages, SyncStages, WakeStages
      <4>4. CASE m = "asleep"
        BY <2>2, <3>1, <3>2, <3>4, <4>1, <4>4, DoingStages, TodoSide
           DEF Ready, AwakeStages, StandaloneStages, HybridStages, SyncStages, WakeStages
      <4>5. QED
        BY <4>2, <4>3, <4>4
    <3>5. QED
      BY <3>3, <3>4
  <2>4. CASE AbortPause(s) \/ AbortReturn(s) \/ ContinueGeneration(s)
    <3>1. memory' = memory
      BY <2>4 DEF AbortPause, AbortReturn, ContinueGeneration, serverVars
    <3>2. stage \notin {"sync_release", "sync_kv", "wake_kv", "out_sleep"}
      BY <2>4, DoingStages DEF AbortPause, AbortReturn, ContinueGeneration, Aborting
    <3>3. QED
      BY <1>a, <2>2, <3>1, <3>2 DEF Ready
  <2>5. CASE LoadWeights(s) \/ SetGlobalSteps(s)
    <3>1. memory' = memory
      BY <2>5 DEF LoadWeights, SetGlobalSteps
    <3>2. stage \notin {"sync_release", "sync_kv", "wake_kv", "out_sleep"}
      BY <2>5, DoingStages DEF LoadWeights, SetGlobalSteps
    <3>3. QED
      BY <1>a, <2>2, <3>1, <3>2 DEF Ready
  <2>6. QED
    BY <2>1, <2>3, <2>4, <2>5 DEF ServerControl
<1>4. QED
  BY <1>1, <1>2, <1>3, StepKinds, ClientLeaves DEF vars, serverVars, trainerVars

\* Every step keeps the settled version on every server that can generate.
LEMMA WeightsStep ==
    ASSUME TypesInv, StageInv, WeightsInv, [Next]_vars
    PROVE  WeightsInv'
<1>b. /\ weights \in [Servers -> Versions] /\ label \in [Servers -> Versions]
      /\ version \in Nat /\ Standalone \cap Hybrid = {}
      /\ Standalone \subseteq Servers /\ Hybrid \subseteq Servers
  BY ServingAssumption DEF TypesInv, Servers
<1>1. CASE UNCHANGED <<serverVars, trainerVars>>
  BY <1>1 DEF serverVars, trainerVars, WeightsInv, StandaloneWeights, WokenUp, Settled
<1>2. CASE Onward
  <2>1. Moved
    BY <1>2, OnwardMoves
  <2>a. /\ todo = {} /\ Follows(stage, stage') /\ weights' = weights /\ label' = label
        /\ version' = IF stage = "train" THEN version + 1 ELSE version
        /\ todo' = IF stage' \in StandaloneStages THEN Standalone
                   ELSE IF stage' \in HybridStages THEN Hybrid ELSE {}
    BY <2>1 DEF Moved, serverVars
  <2>2. ASSUME NEW s \in Standalone
        PROVE  StandaloneWeights(s)'
    <3>1. StandaloneWeights(s)
      BY DEF WeightsInv
    <3>2. QED
      BY <1>b, <2>a, <3>1 DEF StandaloneWeights, Settled, Follows, StandaloneStages,
                              HybridStages, SyncStages, WakeStages
  <2>3. ASSUME NEW s \in Hybrid, WokenUp(s)'
        PROVE  label'[s] = version' /\ weights'[s] = version'
    <3>1. WokenUp(s) /\ stage # "train"
      BY <2>a, <2>3 DEF WokenUp, Follows, StandaloneStages, HybridStages, SyncStages,
                        WakeStages, AwakeStages, LeaveStages
    <3>2. QED
      BY <2>a, <3>1 DEF WeightsInv
  <2>4. QED
    BY <2>2, <2>3 DEF WeightsInv
<1>3. CASE \E s \in Servers : ServerControl(s)
  <2>1. PICK s \in Servers : ServerControl(s)
    BY <1>3
  <2>2. /\ stage' = stage /\ s \in todo /\ (todo' = todo \/ todo' = todo \ {s})
        /\ version' = version
    BY <2>1, ControlFacts
  <2>3. CASE ~LoadWeights(s) /\ ~SetGlobalSteps(s)
    <3>1. weights' = weights /\ label' = label
      BY <2>1, <2>3 DEF ServerControl, AbortPause, AbortReturn, ContinueGeneration,
                        SetMemory, serverVars
    <3>2. stage \notin {"sync_load", "wake_load"}
      BY <2>1, <2>3, DoingStages DEF ServerControl, AbortPause, AbortReturn,
                        ContinueGeneration, SetMemory, Aborting
    <3>3. QED
      BY <2>2, <3>1, <3>2 DEF WeightsInv, StandaloneWeights, WokenUp, Settled
  <2>4. CASE LoadWeights(s)
    <3>1. /\ weights' = [weights EXCEPT ![s] = version] /\ label' = label /\ todo' = todo
          /\ stage \in {"sync_load", "wake_load"}
      BY <2>4, DoingStages DEF LoadWeights, trainerVars
    <3>2. \A t \in Standalone : StandaloneWeights(t)'
      BY <1>b, <2>2, <3>1, TodoSide
         DEF WeightsInv, StandaloneWeights, Settled, StandaloneStages, HybridStages,
             SyncStages, WakeStages
    <3>3. \A t \in Hybrid : WokenUp(t)' => label'[t] = version' /\ weights'[t] = version'
      BY <1>b, <2>2, <3>1 DEF WeightsInv, WokenUp, AwakeStages, LeaveStages
    <3>4. QED
      BY <3>2, <3>3 DEF WeightsInv
  <2>5. CASE SetGlobalSteps(s)
    <3>1. /\ label' = [label EXCEPT ![s] = version] /\ weights' = weights
          /\ todo' = todo \ {s} /\ weights[s] = version
          /\ stage \in {"sync_load", "wake_load"}
      BY <2>5, DoingStages DEF SetGlobalSteps, Returned
    <3>2. \A t \in Standalone : StandaloneWeights(t)'
      BY <1>b, <2>2, <3>1, TodoSide
         DEF WeightsInv, StandaloneWeights, Settled, StandaloneStages, HybridStages,
             SyncStages, WakeStages
    <3>3. \A t \in Hybrid : WokenUp(t)' => label'[t] = version' /\ weights'[t] = version'
      BY <1>b, <2>2, <3>1 DEF WeightsInv, WokenUp, AwakeStages, LeaveStages
    <3>4. QED
      BY <3>2, <3>3 DEF WeightsInv
  <2>6. QED
    BY <2>3, <2>4, <2>5
<1>4. QED
  BY <1>1, <1>2, <1>3, StepKinds, ClientLeaves DEF vars, serverVars, trainerVars

-----------------------------------------------------------------------------
(* The pool *)

\* The fields of the balancer.
Fields == {"inflight", "route", "age"}

\* What the balancer's operations do to the charges; the routing cache plays
\* no part.
LEMMA AcquireCharges ==
    ASSUME NEW b, DOMAIN b = Fields, NEW r, NEW s
    PROVE  /\ DOMAIN AcquireServer(b, r, s) = Fields
           /\ AcquireServer(b, r, s).inflight = [b.inflight EXCEPT ![s] = @ + 1]
BY DEF AcquireServer, Remember, Fields

\* release_server frees a slot and touches neither pool nor cache.
LEMMA ReleaseCharges ==
    ASSUME NEW b, DOMAIN b = Fields, NEW s
    PROVE  /\ DOMAIN ReleaseServer(b, s) = Fields
           /\ ReleaseServer(b, s).inflight =
                IF s \in Pool(b) /\ b.inflight[s] > 0
                THEN [b.inflight EXCEPT ![s] = @ - 1] ELSE b.inflight
BY DEF ReleaseServer, Fields

\* add_servers gives every new server an empty slot count.
LEMMA AddCharges ==
    ASSUME NEW b, DOMAIN b = Fields, NEW S
    PROVE  /\ DOMAIN AddServers(b, S) = Fields
           /\ AddServers(b, S).inflight =
                [s \in Pool(b) \cup S |-> IF s \in S THEN 0 ELSE b.inflight[s]]
BY DEF AddServers, Fields

\* remove_servers forgets the servers and their slots.
LEMMA RemoveCharges ==
    ASSUME NEW b, DOMAIN b = Fields, NEW S
    PROVE  /\ DOMAIN RemoveServers(b, S) = Fields
           /\ RemoveServers(b, S).inflight = [s \in Pool(b) \ S |-> b.inflight[s]]
BY DEF RemoveServers, Fields

\* A server that may be acquired is in the pool.
LEMMA CandidatesInPool ==
    ASSUME NEW b, NEW r
    PROVE  Candidates(b, r) \subseteq Pool(b)
BY DEF Candidates, Sticky, LeastLoaded

\* The charges after a step, by who changes them.
LEMMA ChargeCases ==
    ASSUME TypesInv, StageInv, [Next]_vars
    PROVE  /\ DOMAIN balancer' = Fields
           /\ \/ balancer'.inflight = balancer.inflight
              \/ \E r \in Clients : \E s \in Pool(balancer) :
                    /\ Acquire(r) /\ client'[r].on = s
                    /\ balancer'.inflight = [balancer.inflight EXCEPT ![s] = @ + 1]
              \/ \E r \in Clients : \E s \in releasing[r] :
                    /\ Release(r) /\ balancer' = ReleaseServer(balancer, s)
              \/ /\ AddReplicas
                 /\ balancer'.inflight = [s \in Pool(balancer) \cup Hybrid |->
                                            IF s \in Hybrid THEN 0 ELSE balancer.inflight[s]]
              \/ /\ RemoveReplicas
                 /\ balancer'.inflight = [s \in Pool(balancer) \ Hybrid |->
                                            balancer.inflight[s]]
<1>a. DOMAIN balancer = Fields /\ client \in [Clients -> ClientRecords]
  BY DEF TypesInv, Fields
<1>1. CASE balancer' = balancer
  BY <1>1, <1>a
<1>2. CASE BeginValidation
  BY <1>2, <1>a DEF BeginValidation, Fields
<1>3. CASE AddReplicas
  BY <1>3, <1>a, AddCharges, ZenonT(60) DEF AddReplicas
<1>4. CASE RemoveReplicas
  BY <1>4, <1>a, RemoveCharges DEF RemoveReplicas
<1>5. CASE Onward /\ ~BeginValidation /\ ~AddReplicas /\ ~RemoveReplicas
  BY <1>5, <1>1 DEF Onward, NextStage, SkipValidation, EndValidation, BeginUpdate
<1>6. CASE \E s \in Servers : ServerControl(s)
  BY <1>6, <1>1, ControlFacts
<1>7. CASE ClientMoves
  <2>1. PICK r \in Clients : ClientStep(r) \/ EngineStep(r) \/ NextTurn(r) \/ Fail(r)
    BY <1>7 DEF ClientMoves
  <2>2. CASE Acquire(r)
    <3>1. PICK s \in Candidates(balancer, r) :
              /\ balancer' = AcquireServer(balancer, r, s)
              /\ client' = [client EXCEPT ![r].phase = "sent", ![r].on = s]
      BY <2>2 DEF Acquire
    <3>2. s \in Pool(balancer) /\ client'[r].on = s
      BY <1>a, <3>1, CandidatesInPool DEF ClientRecords
    <3>3. /\ DOMAIN balancer' = Fields
          /\ balancer'.inflight = [balancer.inflight EXCEPT ![s] = @ + 1]
      <4>1. DOMAIN balancer = Fields /\ balancer' = AcquireServer(balancer, r, s)
        BY <1>a, <3>1
      <4>2. QED
        BY <4>1, AcquireCharges
    <3>4. QED
      BY <2>2, <3>2, <3>3
  <2>3. CASE Release(r)
    <3>1. PICK s \in releasing[r] : balancer' = ReleaseServer(balancer, s)
      BY <2>3 DEF Release
    <3>2. DOMAIN balancer' = Fields
      BY <1>a, <3>1, ReleaseCharges
    <3>3. QED
      BY <2>3, <3>1, <3>2
  <2>4. CASE Return(r) \/ EngineStep(r) \/ NextTurn(r) \/ Fail(r)
    BY <2>4, <1>1 DEF Return, EngineStep, Start, Finish, NextTurn, Fail
  <2>5. QED
    BY <2>1, <2>2, <2>3, <2>4 DEF ClientStep
<1>8. QED
  BY <1>1, <1>2, <1>3, <1>4, <1>5, <1>6, <1>7, StepKinds DEF vars

\* The pool after a step: it changes with add_replicas and remove_replicas.
LEMMA PoolCases ==
    ASSUME TypesInv, StageInv, [Next]_vars
    PROVE  \/ Pool(balancer') = Pool(balancer)
           \/ AddReplicas /\ Pool(balancer') = Pool(balancer) \cup Hybrid
           \/ RemoveReplicas /\ Pool(balancer') = Pool(balancer) \ Hybrid
<1>1. CASE \E r \in Clients : \E s \in releasing[r] :
              Release(r) /\ balancer' = ReleaseServer(balancer, s)
  <2>1. PICK s : balancer' = ReleaseServer(balancer, s)
    BY <1>1
  <2>2. balancer'.inflight = IF s \in Pool(balancer) /\ balancer.inflight[s] > 0
                             THEN [balancer.inflight EXCEPT ![s] = @ - 1]
                             ELSE balancer.inflight
    BY <2>1, ReleaseCharges DEF TypesInv, Fields
  <2>3. QED
    BY <2>2 DEF Pool
<1>2. QED
  BY <1>1, ChargeCases DEF Pool

\* Every step keeps the pool the standalone servers, with the hybrid ones in
\* validation.
LEMMA AliveStep ==
    ASSUME TypesInv, StageInv, AliveInv, [Next]_vars
    PROVE  AliveInv'
<1> SUFFICES ASSUME NEW s \in Hybrid, s \in Pool(balancer')
             PROVE  stage' \in AliveStages
  BY DEF AliveInv
<1>a. stage \in Stages
  BY DEF TypesInv
<1>1. CASE AddReplicas
  BY <1>1, <1>a, CallingStages, EnterTable DEF AddReplicas, Advance, Enter, Step, AliveStages
<1>2. CASE s \in Pool(balancer) /\ ~RemoveReplicas
  <2>1. stage \in AliveStages
    BY <1>2 DEF AliveInv
  <2>2. CASE Onward
    <3>1. Moved
      BY <2>2, OnwardMoves
    <3>2. stage # "remove"
      <4>1. SUFFICES ASSUME stage = "remove"
                     PROVE  FALSE
        OBVIOUS
      <4>2. NextStage
        BY <1>2, <2>2, <4>1, CallingStages, <1>a
           DEF Onward, SkipValidation, BeginValidation, AddReplicas, EndValidation, BeginUpdate
      <4>3. Sent("remove") = {}
        BY SentTo, <4>1, <1>a DEF StandaloneStages, HybridStages, SyncStages, WakeStages
      <4>4. QED
        BY <4>1, <4>2, <4>3 DEF NextStage
    <3>3. QED
      BY <2>1, <3>1, <3>2 DEF Moved, Follows, AliveStages
  <2>3. CASE ~Onward
    <3>1. stage' = stage
      BY <2>3, StepKinds, ClientLeaves, ControlFacts DEF vars, trainerVars
    <3>2. QED
      BY <2>1, <3>1
  <2>4. QED
    BY <2>2, <2>3
<1>3. CASE RemoveReplicas
  <2>1. balancer'.inflight = [t \in Pool(balancer) \ Hybrid |-> balancer.inflight[t]]
    BY <1>3, RemoveCharges DEF RemoveReplicas, TypesInv, Fields
  <2>2. QED
    BY <2>1 DEF Pool
<1>4. QED
  BY <1>1, <1>2, <1>3, PoolCases

-----------------------------------------------------------------------------
(* The conversations *)

\* One conversation's record is replaced.
Becomes(r, d) == d \in ClientRecords /\ client' = [client EXCEPT ![r] = d]

\* A version is never below the mark for none.
LEMMA VersionFacts ==
    /\ NoVersion \in Versions /\ \A v \in Versions : v \in Int /\ v >= NoVersion
    /\ 0 .. MaxVersion \subseteq Versions
BY ServingAssumption DEF Versions

\* A new conversation is a conversation.
LEMMA FreshType ==
    /\ Fresh \in ClientRecords /\ Fresh.phase = "idle" /\ Fresh.on \in Standalone
    /\ Fresh.lo = NoVersion /\ Fresh.hi = NoVersion /\ Fresh.used = {}
<1>1. (CHOOSE s \in Standalone : TRUE) \in Standalone
  BY ServingAssumption
<1>2. 1 \in 1 .. MaxTurns
  BY ServingAssumption
<1>3. QED
  BY <1>1, <1>2, VersionFacts DEF Fresh, ClientRecords, Servers

\* acquire_server: only the phase and the server change.
LEMMA AcquireFacts ==
    ASSUME TypesInv, NEW r \in Clients, Acquire(r)
    PROVE  \E d : /\ Becomes(r, d) /\ d.phase = "sent" /\ d.on \in Pool(balancer)
                  /\ d.lo = client[r].lo /\ d.hi = client[r].hi /\ d.used = client[r].used
<1>1. PICK s \in Candidates(balancer, r) :
          client' = [client EXCEPT ![r].phase = "sent", ![r].on = s]
  BY DEF Acquire
<1>2. s \in Pool(balancer) /\ s \in Servers /\ client \in [Clients -> ClientRecords]
  BY CandidatesInPool DEF TypesInv
<1> DEFINE d == [client[r] EXCEPT !.phase = "sent", !.on = s]
<1>3. client' = [client EXCEPT ![r] = d]
  BY <1>1, <1>2
<1>4. d \in ClientRecords /\ d.phase = "sent" /\ d.on = s
  BY <1>2 DEF ClientRecords
<1>5. d.lo = client[r].lo /\ d.hi = client[r].hi /\ d.used = client[r].used
  BY <1>2 DEF ClientRecords
<1>6. QED
  BY <1>2, <1>3, <1>4, <1>5 DEF Becomes

\* An answer is merged: it ends the span, and begins it if it is the first.
LEMMA ReturnFacts ==
    ASSUME TypesInv, NEW r \in Clients, Return(r)
    PROVE  \E d : /\ Becomes(r, d) /\ d.phase \in {"backoff", "done"}
                  /\ d.lo = (IF client[r].lo = NoVersion THEN client[r].answer
                                                         ELSE client[r].lo)
                  /\ d.hi = client[r].answer /\ d.used = client[r].used
                  /\ d.on = client[r].on
<1>a. client \in [Clients -> ClientRecords] /\ client[r] \in ClientRecords
  BY DEF TypesInv
<1> DEFINE d == [Merge(client[r]) EXCEPT
                   !.phase = IF TriesAgain(client[r]) THEN "backoff" ELSE "done",
                   !.aborted = FALSE, !.answer = NoVersion]
<1>1. client' = [client EXCEPT ![r] = d]
  BY DEF Return
<1>2. d \in ClientRecords /\ d.phase \in {"backoff", "done"} /\ d.on = client[r].on
  BY <1>a, VersionFacts DEF Merge, ClientRecords
<1>3. /\ d.lo = (IF client[r].lo = NoVersion THEN client[r].answer ELSE client[r].lo)
      /\ d.hi = client[r].answer /\ d.used = client[r].used
  BY <1>a DEF Merge, ClientRecords
<1>4. QED
  BY <1>1, <1>2, <1>3 DEF Becomes

\* A next turn starts with an empty span.
LEMMA NextTurnFacts ==
    ASSUME TypesInv, NEW r \in Clients, NextTurn(r)
    PROVE  \E d : /\ Becomes(r, d) /\ d.phase = "idle" /\ d.lo = NoVersion
                  /\ d.hi = NoVersion /\ d.used = {}
<1>a. client \in [Clients -> ClientRecords] /\ client[r] \in ClientRecords
  BY DEF TypesInv
<1> DEFINE d == [Fresh EXCEPT !.on = client[r].on, !.turn = client[r].turn + 1]
<1>1. client' = [client EXCEPT ![r] = d]
  BY DEF NextTurn
<1>2. client[r].turn + 1 \in 1 .. MaxTurns
  BY <1>a, ServingAssumption DEF NextTurn, ClientRecords
<1>3. client[r].on \in Servers
  BY <1>a DEF ClientRecords
<1>4. d \in ClientRecords /\ d.phase = "idle" /\ d.lo = NoVersion /\ d.hi = NoVersion
      /\ d.used = {}
  BY <1>2, <1>3, FreshType DEF ClientRecords
<1>5. QED
  BY <1>1, <1>4 DEF Becomes

\* The versions used are versions.
LEMMA UsedNowType ==
    ASSUME TypesInv, NEW r \in Clients
    PROVE  UsedNow(r) \in SUBSET Versions
BY DEF TypesInv, UsedNow, ClientRecords

\* What starting to generate does to the conversation.
LEMMA StartFacts ==
    ASSUME TypesInv, NEW r \in Clients, Start(r)
    PROVE  \E d : /\ Becomes(r, d) /\ d.phase = "running" /\ d.on = client[r].on
                  /\ d.lo = client[r].lo /\ d.hi = client[r].hi
                  /\ d.used = client[r].used \cup UsedNow(r)
<1>a. client \in [Clients -> ClientRecords] /\ client[r] \in ClientRecords
  BY DEF TypesInv
<1> DEFINE d == [client[r] EXCEPT !.phase = "running", !.used = @ \cup UsedNow(r)]
<1>1. client' = [client EXCEPT ![r] = d]
  BY <1>a DEF Start
<1>2. /\ d \in ClientRecords /\ d.phase = "running" /\ d.on = client[r].on
      /\ d.lo = client[r].lo /\ d.hi = client[r].hi
      /\ d.used = client[r].used \cup UsedNow(r)
  BY <1>a, UsedNowType DEF ClientRecords
<1>3. QED
  BY <1>1, <1>2 DEF Becomes

\* What an answer does to it.
LEMMA FinishFacts ==
    ASSUME TypesInv, NEW r \in Clients, NEW aborted \in BOOLEAN, Finish(r, aborted)
    PROVE  \E d : /\ Becomes(r, d) /\ d.phase = "replied" /\ d.on = client[r].on
                  /\ d.answer = label[client[r].on]
                  /\ d.lo = client[r].lo /\ d.hi = client[r].hi
                  /\ d.used = client[r].used \cup UsedNow(r)
<1>a. /\ client \in [Clients -> ClientRecords] /\ client[r] \in ClientRecords
      /\ label[client[r].on] \in Versions
  BY DEF TypesInv, ClientRecords
<1> DEFINE d == [client[r] EXCEPT !.phase = "replied", !.aborted = aborted,
                                  !.answer = label[client[r].on],
                                  !.used = @ \cup UsedNow(r)]
<1>1. client' = [client EXCEPT ![r] = d]
  BY <1>a DEF Finish
<1>2. /\ d \in ClientRecords /\ d.phase = "replied" /\ d.on = client[r].on
      /\ d.answer = label[client[r].on] /\ d.lo = client[r].lo /\ d.hi = client[r].hi
      /\ d.used = client[r].used \cup UsedNow(r)
  BY <1>a, UsedNowType DEF ClientRecords
<1>3. QED
  BY <1>1, <1>2 DEF Becomes

\* What an error does to it.
LEMMA FailFacts ==
    ASSUME TypesInv, NEW r \in Clients, Fail(r)
    PROVE  \E d : /\ Becomes(r, d) /\ d.phase = "failed" /\ d.on = client[r].on
                  /\ d.lo = client[r].lo /\ d.hi = client[r].hi /\ d.used = client[r].used
<1>a. client \in [Clients -> ClientRecords] /\ client[r] \in ClientRecords
  BY DEF TypesInv
<1> DEFINE d == [client[r] EXCEPT !.phase = "failed"]
<1>1. client' = [client EXCEPT ![r] = d]
  BY <1>a DEF Fail
<1>2. /\ d \in ClientRecords /\ d.phase = "failed" /\ d.on = client[r].on
      /\ d.lo = client[r].lo /\ d.hi = client[r].hi /\ d.used = client[r].used
  BY <1>a DEF ClientRecords
<1>3. QED
  BY <1>1, <1>2 DEF Becomes

\* A conversation step changes one conversation, or none with a release.
LEMMA ConversationCases ==
    ASSUME TypesInv, ClientMoves
    PROVE  client' = client \/ \E r \in Clients : \E d : Becomes(r, d)
<1>1. PICK r \in Clients : ClientStep(r) \/ EngineStep(r) \/ NextTurn(r) \/ Fail(r)
  BY DEF ClientMoves
<1>2. CASE ClientStep(r)
  BY <1>2, AcquireFacts, ReturnFacts DEF ClientStep, Release
<1>3. CASE EngineStep(r)
  BY <1>3, StartFacts, FinishFacts DEF EngineStep
<1>4. CASE NextTurn(r) \/ Fail(r)
  BY <1>4, NextTurnFacts, FailFacts
<1>5. QED
  BY <1>1, <1>2, <1>3, <1>4

\* A step of the trainer or of a server touches a conversation only to begin a
\* new validation.
LEMMA ClientKept ==
    ASSUME TypesInv, StageInv, [Next]_vars, ~ClientMoves, ~BeginValidation
    PROVE  client' = client /\ releasing' = releasing
<1>1. CASE Onward
  BY <1>1 DEF Onward, NextStage, SkipValidation, AddReplicas, RemoveReplicas,
              EndValidation, BeginUpdate
<1>2. CASE \E s \in Servers : ServerControl(s)
  BY <1>2, ControlFacts
<1>3. QED
  BY <1>1, <1>2, StepKinds DEF vars

\* Every step keeps the types.
LEMMA TypesStep ==
    ASSUME TypesInv, StageInv, [Next]_vars
    PROVE  TypesInv'
<1>1. DOMAIN balancer' = {"inflight", "route", "age"}
  BY ChargeCases DEF Fields
<1>2. Standalone \subseteq Pool(balancer') /\ Pool(balancer') \subseteq Servers
  BY PoolCases, ServingAssumption DEF TypesInv, Servers
<1>3. client' \in [Clients -> ClientRecords]
  <2>1. CASE ClientMoves
    BY <2>1, ConversationCases DEF TypesInv, Becomes
  <2>2. CASE BeginValidation
    BY <2>2, FreshType DEF BeginValidation, TypesInv
  <2>3. CASE ~ClientMoves /\ ~BeginValidation
    BY <2>3, ClientKept DEF TypesInv
  <2>4. QED
    BY <2>1, <2>2, <2>3
<1>4. releasing' \in [Clients -> SUBSET Servers]
  <2>a. /\ releasing \in [Clients -> SUBSET Servers]
        /\ \A r \in Clients : client[r].on \in Servers
    BY DEF TypesInv, ClientRecords
  <2>1. CASE ClientMoves
    <3>1. PICK r \in Clients : ClientStep(r) \/ EngineStep(r) \/ NextTurn(r) \/ Fail(r)
      BY <2>1 DEF ClientMoves
    <3>2. \/ releasing' = releasing
          \/ releasing' = [releasing EXCEPT ![r] = {client[r].on}]
          \/ releasing' = [releasing EXCEPT ![r] = {}]
      BY <3>1 DEF ClientStep, Acquire, Return, Release, EngineStep, Start, Finish,
                  NextTurn, Fail
    <3>3. QED
      BY <2>a, <3>2
  <2>2. CASE BeginValidation
    BY <2>2, <2>a DEF BeginValidation
  <2>3. CASE ~ClientMoves /\ ~BeginValidation
    BY <2>3, <2>a, ClientKept
  <2>4. QED
    BY <2>1, <2>2, <2>3
<1>5. /\ paused' \in [Servers -> BOOLEAN]
      /\ memory' \in [Servers -> {"ready", "no_kv", "asleep"}]
      /\ weights' \in [Servers -> Versions] /\ label' \in [Servers -> Versions]
  <2>a. /\ paused \in [Servers -> BOOLEAN]
        /\ memory \in [Servers -> {"ready", "no_kv", "asleep"}]
        /\ weights \in [Servers -> Versions] /\ label \in [Servers -> Versions]
        /\ version \in Versions
    BY VersionFacts DEF TypesInv
  <2>1. CASE UNCHANGED serverVars
    BY <2>1, <2>a DEF serverVars
  <2>2. CASE \E s \in Servers : ServerControl(s)
    BY <2>2, <2>a DEF ServerControl, AbortPause, AbortReturn, ContinueGeneration,
                      SetMemory, LoadWeights, SetGlobalSteps, serverVars
  <2>3. QED
    BY <2>1, <2>2, StepKinds, ClientLeaves, OnwardMoves DEF Moved, vars, serverVars
<1>6. stage' \in Stages /\ version' \in 0 .. MaxVersion
  BY StageStep
<1>7. QED
  BY <1>1, <1>2, <1>3, <1>4, <1>5, <1>6 DEF TypesInv

\* Every step keeps what the servers are.
LEMMA ServerStep ==
    ASSUME ServerInv, [Next]_vars
    PROVE  ServerInv'
BY TypesStep, StageStep, PauseStep, MemoryStep, WeightsStep, AliveStep DEF ServerInv

\* The initial state satisfies it.
LEMMA ServerInit ==
    ASSUME Init
    PROVE  ServerInv
<1>a. /\ paused = [s \in Servers |-> FALSE] /\ stage = "synced" /\ todo = {} /\ version = 0
      /\ memory = [s \in Servers |-> IF s \in Hybrid THEN "asleep" ELSE "ready"]
      /\ weights = [s \in Servers |-> IF s \in Hybrid THEN NoVersion ELSE 0]
      /\ label = [s \in Servers |-> IF s \in Hybrid THEN NoVersion ELSE 0]
      /\ client = [r \in Clients |-> Fresh] /\ releasing = [r \in Clients |-> {}]
  BY DEF Init
<1>b. /\ balancer = [inflight |-> [s \in Standalone |-> 0], route |-> [r \in {} |-> 0],
                     age |-> [r \in {} |-> 0]]
  BY DEF Init, Balancer
<1>c. DOMAIN balancer = {"inflight", "route", "age"} /\ Pool(balancer) = Standalone
  BY <1>b DEF Pool
<1>1. TypesInv
  <2>1. 0 \in 0 .. MaxVersion /\ 0 \in Versions /\ NoVersion \in Versions
    BY VersionFacts, ServingAssumption
  <2>2. QED
    BY <1>a, <1>c, <2>1, FreshType DEF TypesInv, Servers, Stages
<1>2. StageInv
  BY <1>a DEF StageInv, StandaloneStages, HybridStages, SyncStages, WakeStages
<1>3. PauseInv
  BY <1>a DEF PauseInv, Stopped, StandaloneStopped, HybridStopped
<1>4. MemoryInv
  BY <1>a DEF MemoryInv, Ready, AwakeStages
<1>5. WeightsInv
  BY <1>a, ServingAssumption
     DEF WeightsInv, StandaloneWeights, WokenUp, Settled, AwakeStages, LeaveStages, Servers
<1>6. AliveInv
  BY <1>c, ServingAssumption DEF AliveInv
<1>7. QED
  BY <1>1, <1>2, <1>3, <1>4, <1>5, <1>6 DEF ServerInv

-----------------------------------------------------------------------------
(* What a server generates with *)

\* A server with all of its memory holds the version that generates, and says so.
LEMMA ReadySettled ==
    ASSUME ServerInv, NEW s \in Servers, memory[s] = "ready"
    PROVE  weights[s] = Settled /\ label[s] = Settled
<1>1. Ready(s)
  BY DEF ServerInv, MemoryInv
<1>2. CASE s \in Hybrid
  BY <1>1, <1>2 DEF ServerInv, WeightsInv, WokenUp, Ready, Settled, AwakeStages, LeaveStages
<1>3. CASE s \notin Hybrid
  BY <1>1, <1>3 DEF ServerInv, WeightsInv, StandaloneWeights, Ready, Servers
<1>4. QED
  BY <1>2, <1>3

\* The settled version is a version.
LEMMA SettledType ==
    ASSUME ServerInv
    PROVE  Settled \in 0 .. MaxVersion /\ Settled \in Int
BY ServingAssumption DEF ServerInv, TypesInv, StageInv, Settled, SyncStages

\* The same in the next state.
LEMMA SettledTypeNext ==
    ASSUME ServerInv'
    PROVE  Settled' \in 0 .. MaxVersion
<1>1. version' \in 0 .. MaxVersion /\ (stage' \in SyncStages => version' > 0)
  BY DEF ServerInv, TypesInv, StageInv
<1>2. Settled' = IF stage' \in {"sync_abort", "sync_release", "sync_load"}
                 THEN version' - 1 ELSE version'
  BY DEF Settled
<1>3. stage' \in {"sync_abort", "sync_release", "sync_load"} => version' > 0
  BY <1>1 DEF SyncStages
<1>4. ASSUME NEW v \in 0 .. MaxVersion
      PROVE  v \in 0 .. MaxVersion /\ (v > 0 => v - 1 \in 0 .. MaxVersion)
  BY ServingAssumption
<1>5. QED
  BY <1>1, <1>2, <1>3, <1>4

\* A request that runs on a paused server is being aborted there, and the
\* server has all of its memory.
LEMMA AbortedReady ==
    ASSUME ServerInv, NEW r \in Clients, client[r].phase = "running",
           paused[client[r].on]
    PROVE  memory[client[r].on] = "ready"
<1> DEFINE s == client[r].on
<1>a. s \in Servers
  BY DEF ServerInv, TypesInv, ClientRecords
<1>1. r \in RunningOn(s)
  BY DEF RunningOn, At
<1>2. Aborting(s)
  BY <1>a, <1>1 DEF ServerInv, PauseInv
<1>3. Ready(s)
  BY <1>2, TodoSide DEF ServerInv, Aborting, Ready, AwakeStages, StandaloneStages,
                        HybridStages, SyncStages, WakeStages
<1>4. QED
  BY <1>a, <1>3 DEF ServerInv, MemoryInv

\* Whatever the engine answers, it answers with the version that generates.
LEMMA FinishSettled ==
    ASSUME ServerInv, NEW r \in Clients, NEW aborted \in BOOLEAN, Finish(r, aborted)
    PROVE  label[client[r].on] = Settled /\ UsedNow(r) = {Settled}
<1>1. client[r].on \in Servers
  BY DEF ServerInv, TypesInv, ClientRecords
<1>2. memory[client[r].on] = "ready"
  BY AbortedReady DEF Finish
<1>3. QED
  BY <1>1, <1>2, ReadySettled DEF UsedNow

\* The version that generates never goes back.
LEMMA SettledStep ==
    ASSUME ServerInv, [Next]_vars
    PROVE  /\ Settled <= Settled'
           /\ Settled' # Settled => Moved /\ stage = "sync_load"
<1>a. version \in Int
  BY DEF ServerInv, TypesInv
<1>1. CASE stage' = stage /\ version' = version
  BY <1>1, <1>a DEF Settled
<1>2. CASE Moved
  BY <1>2, <1>a DEF Moved, Settled, Follows
<1>3. QED
  BY <1>1, <1>2, StepKinds, ClientLeaves, ControlFacts, OnwardMoves
     DEF ServerInv, vars, trainerVars

\* While a request runs on a server with all of its memory, neither is taken
\* from it.
LEMMA RunningStable ==
    ASSUME ServerInv, [Next]_vars, NEW r \in Clients, client[r].phase = "running",
           NEW s, s = client[r].on, memory[s] = "ready"
    PROVE  memory'[s] = "ready" /\ Settled' = Settled
<1>a. s \in Servers
  BY DEF ServerInv, TypesInv, ClientRecords
<1>b. Ready(s) /\ ~Stopped(s)
  <2>1. r \in RunningOn(s)
    BY DEF RunningOn, At
  <2>2. QED
    BY <1>a, <2>1 DEF ServerInv, PauseInv, MemoryInv
<1>c. memory'[s] = "ready" <=> Ready(s)'
  BY <1>a, ServerStep DEF ServerInv, MemoryInv
<1>1. CASE Moved
  <2>1. Ready(s)'
    BY <1>a, <1>b, <1>1, MovedReady
  <2>2. stage # "sync_load"
    BY <1>b DEF Ready, AwakeStages
  <2>3. QED
    BY <1>c, <2>1, <2>2, SettledStep
<1>2. CASE UNCHANGED <<serverVars, trainerVars>>
  BY <1>2, <1>b, <1>c DEF serverVars, trainerVars, Ready, Settled
<1>3. CASE \E t \in Servers : ServerControl(t)
  <2>1. PICK t \in Servers : ServerControl(t)
    BY <1>3
  <2>2. /\ stage' = stage /\ version' = version
        /\ s # t => (s \in todo' <=> s \in todo)
        /\ s = t => s \in todo
    BY <2>1, ControlFacts DEF ServerInv
  <2>3. CASE s # t
    BY <1>b, <1>c, <2>2, <2>3 DEF Ready, Settled
  <2>4. CASE s = t
    <3>1. s \in Hybrid => stage \notin {"wake_kv", "out_sleep"}
      BY <1>b, <2>2, <2>4 DEF Ready, Stopped, HybridStopped, AwakeStages
    <3>2. s \notin Hybrid => stage \notin {"sync_release", "sync_kv"}
      BY <1>b, <2>2, <2>4 DEF Ready, Stopped, StandaloneStopped
    <3>3. QED
      BY <1>b, <1>c, <2>2, <3>1, <3>2 DEF Ready, Settled
  <2>5. QED
    BY <2>3, <2>4
<1>4. QED
  BY <1>1, <1>2, <1>3, StepKinds, ClientLeaves, OnwardMoves
     DEF ServerInv, vars, serverVars, trainerVars

\* A span stays one as time goes on.
LEMMA SpanLater ==
    ASSUME NEW c \in ClientRecords, NEW mem, NEW mem2, NEW now \in Int, NEW now2 \in Int,
           SpanOf(c, mem, now), now <= now2,
           c.phase = "running" /\ mem = "ready" => mem2 = "ready" /\ now2 = now
    PROVE  SpanOf(c, mem2, now2)
<1>1. c.hi \in Int /\ c.answer \in Int
  BY VersionFacts DEF ClientRecords
<1>2. c.lo <= c.hi /\ c.hi <= now2 /\ (c.phase = "replied" => c.answer \in 0 .. now2)
  BY <1>1 DEF SpanOf
<1>3. c.phase = "running" =>
          \A v \in c.used : v \in Reported(c) \/ (mem2 = "ready" /\ v = now2)
  BY DEF SpanOf
<1>4. QED
  BY <1>2, <1>3 DEF SpanOf

\* A conversation that has no answer yet and used nothing.
LEMMA SpanEmpty ==
    ASSUME NEW d, d.lo = NoVersion, d.hi = NoVersion, d.used = {}, d.phase = "idle",
           NEW mem, NEW now \in Nat
    PROVE  SpanOf(d, mem, now)
BY DEF SpanOf

\* No conversation has used a version initially.
LEMMA SpanInit ==
    ASSUME Init
    PROVE  SpanInv
<1>1. Settled \in Nat
  BY ServerInit, SettledType
<1>2. \A r \in Clients : client[r] = Fresh
  BY DEF Init
<1>3. QED
  BY <1>1, <1>2, FreshType, SpanEmpty DEF SpanInv

\* The span of the conversation that moves.
LEMMA SpanMoves ==
    ASSUME ServerInv, SpanInv, NEW r \in Clients,
           ClientStep(r) \/ EngineStep(r) \/ NextTurn(r) \/ Fail(r)
    PROVE  /\ \A q \in Clients \ {r} : client'[q] = client[q]
           /\ SpanOf(client'[r], memory[client'[r].on], Settled)
<1> DEFINE c == client[r]
           live == memory[c.on]
<1>a. c \in ClientRecords /\ client \in [Clients -> ClientRecords] /\ TypesInv
  BY DEF ServerInv, TypesInv
<1>b. SpanOf(c, live, Settled) /\ Settled \in 0 .. MaxVersion /\ Settled \in Nat
  BY SettledType, ServingAssumption DEF SpanInv
<1>c. c.lo \in Int /\ c.hi \in Int /\ c.answer \in Int /\ c.lo >= NoVersion
  BY <1>a, VersionFacts DEF ClientRecords
<1>d. \A v \in c.used : v \in Int
  BY <1>a, VersionFacts DEF ClientRecords
<1>e. ASSUME NEW d, Becomes(r, d)
      PROVE  client'[r] = d /\ \A q \in Clients \ {r} : client'[q] = client[q]
  BY <1>a, <1>e DEF Becomes
<1> HIDE DEF c
<1>1. CASE Acquire(r)
  <2>1. PICK d : /\ Becomes(r, d) /\ d.phase = "sent"
                 /\ d.lo = c.lo /\ d.hi = c.hi /\ d.used = c.used
    BY <1>1, <1>a, AcquireFacts DEF c
  <2>2. c.phase \in {"idle", "backoff"}
    BY <1>1 DEF Acquire, c
  <2>3. SpanOf(d, memory[d.on], Settled)
    BY <1>b, <2>1, <2>2 DEF SpanOf, Reported
  <2>4. QED
    BY <1>e, <2>1, <2>3
<1>2. CASE Return(r)
  <2>1. PICK d : /\ Becomes(r, d) /\ d.phase \in {"backoff", "done"}
                 /\ d.lo = (IF c.lo = NoVersion THEN c.answer ELSE c.lo)
                 /\ d.hi = c.answer /\ d.used = c.used
    BY <1>2, <1>a, ReturnFacts DEF c
  <2>2. /\ c.used \subseteq Reported(c) \cup {c.answer} /\ c.answer \in 0 .. Settled
        /\ c.hi <= c.answer /\ c.lo <= c.hi /\ (c.lo = NoVersion => c.hi = NoVersion)
    BY <1>2, <1>b DEF Return, SpanOf, c
  <2>3. d.lo \in Nat /\ d.lo <= d.hi /\ d.hi <= Settled
    BY <1>b, <1>c, <2>1, <2>2
  <2>4. \A v \in d.used : v \in d.lo .. d.hi
    <3>1. SUFFICES ASSUME NEW v \in c.used
                   PROVE  v \in d.lo .. d.hi
      BY <2>1
    <3>2. v \in Reported(c) \/ v = c.answer
      BY <2>2
    <3>3. CASE v = c.answer
      BY <1>c, <2>1, <2>2, <3>3
    <3>4. CASE v \in Reported(c)
      BY <1>c, <2>1, <2>2, <3>4 DEF Reported
    <3>5. QED
      BY <3>2, <3>3, <3>4
  <2>5. SpanOf(d, memory[d.on], Settled)
    BY <2>1, <2>3, <2>4 DEF SpanOf, Reported
  <2>6. QED
    BY <1>e, <2>1, <2>5
<1>3. CASE Release(r)
  <2>1. client' = client
    BY <1>3 DEF Release
  <2>2. QED
    BY <1>b, <2>1 DEF c
<1>4. CASE Start(r)
  <2>1. PICK d : /\ Becomes(r, d) /\ d.phase = "running" /\ d.on = c.on
                 /\ d.lo = c.lo /\ d.hi = c.hi /\ d.used = c.used \cup UsedNow(r)
    BY <1>4, <1>a, StartFacts DEF c
  <2>2. c.phase = "sent" /\ c.on \in Servers
    BY <1>4, <1>a DEF Start, ClientRecords, c
  <2>3. \A v \in UsedNow(r) : live = "ready" /\ v = Settled
    BY <2>2, ReadySettled DEF UsedNow, c
  <2>4. SpanOf(d, live, Settled)
    BY <1>b, <2>1, <2>2, <2>3 DEF SpanOf, Reported
  <2>5. QED
    BY <1>e, <2>1, <2>4
<1>5. CASE \E aborted \in BOOLEAN : Finish(r, aborted)
  <2>0. PICK aborted \in BOOLEAN : Finish(r, aborted)
    BY <1>5
  <2>1. PICK d : /\ Becomes(r, d) /\ d.phase = "replied"
                 /\ d.answer = label[c.on] /\ d.lo = c.lo /\ d.hi = c.hi
                 /\ d.used = c.used \cup UsedNow(r)
    BY <2>0, <1>a, FinishFacts DEF c
  <2>2. label[c.on] = Settled /\ UsedNow(r) = {Settled} /\ c.phase = "running"
    BY <2>0, FinishSettled DEF Finish, c
  <2>3. /\ \A v \in c.used : v \in Reported(c) \/ v = Settled
        /\ c.lo <= c.hi /\ c.hi <= Settled /\ (c.lo = NoVersion => c.hi = NoVersion)
    BY <1>b, <2>2 DEF SpanOf
  <2>4. Reported(d) = Reported(c)
    BY <2>1 DEF Reported
  <2>5. SpanOf(d, memory[d.on], Settled)
    BY <1>b, <2>1, <2>2, <2>3, <2>4 DEF SpanOf
  <2>6. QED
    BY <1>e, <2>1, <2>5
<1>6. CASE NextTurn(r)
  <2>1. PICK d : /\ Becomes(r, d) /\ d.phase = "idle" /\ d.lo = NoVersion
                 /\ d.hi = NoVersion /\ d.used = {}
    BY <1>6, <1>a, NextTurnFacts
  <2>2. SpanOf(d, memory[d.on], Settled)
    BY <1>b, <2>1, SpanEmpty
  <2>3. QED
    BY <1>e, <2>1, <2>2
<1>7. CASE Fail(r)
  <2>1. PICK d : /\ Becomes(r, d) /\ d.phase = "failed"
                 /\ d.lo = c.lo /\ d.hi = c.hi /\ d.used = c.used
    BY <1>7, <1>a, FailFacts DEF c
  <2>2. SpanOf(d, memory[d.on], Settled)
    BY <1>b, <2>1 DEF SpanOf
  <2>3. QED
    BY <1>e, <2>1, <2>2
<1>8. QED
  BY <1>1, <1>2, <1>3, <1>4, <1>5, <1>6, <1>7 DEF ClientStep, EngineStep

\* Every step keeps the spans: a conversation uses only the settled version.
LEMMA SpanStep ==
    ASSUME ServerInv, SpanInv, [Next]_vars
    PROVE  SpanInv'
<1> SUFFICES ASSUME NEW q \in Clients
             PROVE  SpanOf(client'[q], memory'[client'[q].on], Settled')
  BY DEF SpanInv
<1>a. TypesInv /\ StageInv /\ client[q] \in ClientRecords
  BY DEF ServerInv, TypesInv
<1>b. Settled \in Int /\ Settled' \in Nat /\ Settled <= Settled'
  <2>1. Settled \in 0 .. MaxVersion /\ Settled' \in 0 .. MaxVersion /\ MaxVersion \in Nat
    BY ServerStep, SettledType, SettledTypeNext, ServingAssumption
  <2>2. QED
    BY <2>1, SettledStep
<1>1. CASE client'[q] = client[q]
  <2>1. PICK s : s = client[q].on
    OBVIOUS
  <2>2. SpanOf(client[q], memory[s], Settled)
    BY <2>1 DEF SpanInv
  <2>3. client[q].phase = "running" /\ memory[s] = "ready"
          => memory'[s] = "ready" /\ Settled' = Settled
    BY <2>1, RunningStable
  <2>4. SpanOf(client[q], memory'[s], Settled')
    BY <1>a, <1>b, <2>2, <2>3, SpanLater
  <2>5. QED
    BY <1>1, <2>1, <2>4
<1>2. CASE ClientMoves
  <2>1. PICK r \in Clients : ClientStep(r) \/ EngineStep(r) \/ NextTurn(r) \/ Fail(r)
    BY <1>2 DEF ClientMoves
  <2>2. memory' = memory /\ Settled' = Settled
    BY <1>2, ClientLeaves DEF serverVars, trainerVars, Settled
  <2>3. QED
    BY <1>1, <2>1, <2>2, SpanMoves
<1>3. CASE BeginValidation
  <2>1. client'[q] = Fresh \/ client'[q] = client[q]
    BY <1>3 DEF BeginValidation
  <2>2. CASE client'[q] = Fresh
    BY <1>b, <2>2, FreshType, SpanEmpty
  <2>3. QED
    BY <1>1, <2>1, <2>2
<1>4. QED
  BY <1>a, <1>1, <1>2, <1>3, ClientKept

-----------------------------------------------------------------------------
(* Validation *)

\* Only do_validate's end and the start of a new validation lead out of and
\* into the stages of a validation.
LEMMA ValidationEdges ==
    ASSUME ServerInv, [Next]_vars
    PROVE  /\ stage' \in ValidationStages /\ stage \notin ValidationStages => BeginValidation
           /\ stage' # "validate" /\ stage = "validate" => EndValidation
           /\ BeginValidation => stage = "synced" /\ version' = version
           /\ stage \in ValidationStages => Settled = version /\ version' = version
<1>a. TypesInv /\ StageInv /\ stage \in Stages
  BY DEF ServerInv, TypesInv
<1>b. stage \in ValidationStages => Settled = version
  BY DEF Settled, ValidationStages, WakeStages, EnterStages
<1>c. BeginValidation => stage = "synced" /\ version' = version
  BY DEF BeginValidation
<1>1. CASE stage' = stage /\ version' = version
  BY <1>1, <1>b, <1>c
<1>2. CASE Onward
  <2>1. Moved
    BY <1>a, <1>2, OnwardMoves
  <2>2. stage \in ValidationStages => version' = version
    BY <2>1 DEF Moved, ValidationStages, WakeStages, EnterStages
  <2>3. ASSUME stage' \in ValidationStages, stage \notin ValidationStages
        PROVE  BeginValidation
    <3>1. stage = "synced"
      BY <2>1, <2>3 DEF Moved, Follows, ValidationStages, WakeStages, EnterStages
    <3>2. ~NextStage
      BY <3>1, ScriptParts DEF NextStage, SyncStages, WakeStages, EnterStages, LeaveStages
    <3>3. ~SkipValidation
      BY <2>3 DEF SkipValidation, Enter, ValidationStages, WakeStages, EnterStages
    <3>4. QED
      BY <1>2, <1>a, <3>1, <3>2, <3>3, CallingStages
         DEF Onward, AddReplicas, RemoveReplicas, EndValidation, BeginUpdate
  <2>4. ASSUME stage = "validate"
        PROVE  EndValidation
    <3>1. Sent("validate") = {}
      BY <1>a, <2>4, SentTo DEF StandaloneStages, HybridStages, SyncStages, WakeStages
    <3>2. QED
      BY <1>2, <1>a, <2>4, <3>1, CallingStages
         DEF Onward, NextStage, SkipValidation, BeginValidation, AddReplicas,
             RemoveReplicas, BeginUpdate
  <2>5. QED
    BY <1>b, <1>c, <2>2, <2>3, <2>4
<1>3. QED
  BY <1>1, <1>2, <1>a, StepKinds, ClientLeaves, ControlFacts DEF vars, trainerVars

\* A validation conversation moves only during do_validate, and then knows
\* nothing but the validated version.
LEMMA ValidatorMoves ==
    ASSUME ServerInv, SpanInv, ValidatorInv, NEW r \in Validators,
           ClientStep(r) \/ EngineStep(r) \/ NextTurn(r) \/ Fail(r)
    PROVE  /\ stage \in ValidationStages => ValidatorOf(client'[r], version)
           /\ stage # "validate" => client'[r] = client[r]
<1> DEFINE c == client[r]
<1>a. /\ r \in Clients /\ r \notin Requests /\ TypesInv
      /\ client \in [Clients -> ClientRecords] /\ c \in ClientRecords
  BY ServingAssumption DEF ServerInv, TypesInv, Clients
<1>b. ~NextTurn(r) /\ ~Fail(r)
  BY <1>a DEF NextTurn, Fail
<1>c. stage \in ValidationStages => Settled = version
  BY DEF Settled, ValidationStages, WakeStages, EnterStages
<1>d. /\ stage \in ValidationStages => ValidatorOf(c, version)
      /\ stage # "validate" => c.phase \in {"idle", "done"}
  BY DEF ValidatorInv
<1>e. ASSUME NEW d, Becomes(r, d)
      PROVE  client'[r] = d
  BY <1>a, <1>e DEF Becomes
<1>1. CASE Acquire(r)
  <2>1. PICK d : /\ Becomes(r, d) /\ d.phase = "sent" /\ d.lo = c.lo /\ d.used = c.used
    BY <1>1, <1>a, AcquireFacts
  <2>2. stage = "validate"
    BY <1>1 DEF Acquire
  <2>3. ValidatorOf(c, version) => ValidatorOf(d, version)
    BY <2>1 DEF ValidatorOf
  <2>4. QED
    BY <1>d, <1>e, <2>1, <2>2, <2>3
<1>2. CASE Return(r)
  <2>1. PICK d : /\ Becomes(r, d) /\ d.phase \in {"backoff", "done"} /\ d.used = c.used
                 /\ d.lo = (IF c.lo = NoVersion THEN c.answer ELSE c.lo)
    BY <1>2, <1>a, ReturnFacts
  <2>2. c.phase = "replied"
    BY <1>2 DEF Return
  <2>3. ValidatorOf(c, version) => ValidatorOf(d, version)
    BY <2>1, <2>2 DEF ValidatorOf
  <2>4. QED
    BY <1>d, <1>e, <2>1, <2>2, <2>3
<1>3. CASE Release(r)
  BY <1>3, <1>d DEF Release
<1>4. CASE Start(r)
  <2>1. PICK d : /\ Becomes(r, d) /\ d.phase = "running" /\ d.lo = c.lo
                 /\ d.used = c.used \cup UsedNow(r)
    BY <1>4, <1>a, StartFacts
  <2>2. c.phase = "sent" /\ c.on \in Servers
    BY <1>4, <1>a DEF Start, ClientRecords
  <2>3. UsedNow(r) \subseteq {Settled}
    BY <2>2, ReadySettled DEF UsedNow
  <2>4. Settled = version /\ ValidatorOf(c, version) => ValidatorOf(d, version)
    BY <2>1, <2>3 DEF ValidatorOf
  <2>5. QED
    BY <1>c, <1>d, <1>e, <2>1, <2>2, <2>4
<1>5. CASE \E aborted \in BOOLEAN : Finish(r, aborted)
  <2>0. PICK aborted \in BOOLEAN : Finish(r, aborted)
    BY <1>5
  <2>1. PICK d : /\ Becomes(r, d) /\ d.phase = "replied" /\ d.lo = c.lo
                 /\ d.answer = label[c.on] /\ d.used = c.used \cup UsedNow(r)
    BY <2>0, <1>a, FinishFacts
  <2>2. label[c.on] = Settled /\ UsedNow(r) = {Settled} /\ c.phase = "running"
    BY <2>0, <1>a, FinishSettled DEF Finish
  <2>3. Settled = version /\ ValidatorOf(c, version) => ValidatorOf(d, version)
    BY <2>1, <2>2 DEF ValidatorOf
  <2>4. QED
    BY <1>c, <1>d, <1>e, <2>1, <2>2, <2>3
<1>6. QED
  BY <1>b, <1>1, <1>2, <1>3, <1>4, <1>5 DEF ClientStep, EngineStep

\* Every step keeps validation within one version.
LEMMA ValidatorStep ==
    ASSUME ServerInv, SpanInv, ValidatorInv, [Next]_vars
    PROVE  ValidatorInv'
<1> SUFFICES ASSUME NEW q \in Validators
             PROVE  /\ stage' \in ValidationStages => ValidatorOf(client'[q], version')
                    /\ stage' # "validate" => client'[q].phase \in {"idle", "done"}
  BY DEF ValidatorInv
<1>a. TypesInv /\ StageInv /\ q \in Clients
  BY DEF ServerInv, Clients
<1>b. /\ stage \in ValidationStages => ValidatorOf(client[q], version)
      /\ stage # "validate" => client[q].phase \in {"idle", "done"}
  BY DEF ValidatorInv
<1>1. CASE BeginValidation
  <2>1. client'[q] = Fresh
    BY <1>1, <1>a DEF BeginValidation
  <2>2. ValidatorOf(Fresh, version')
    BY FreshType DEF ValidatorOf
  <2>3. QED
    BY <2>1, <2>2, FreshType
<1>2. CASE ~BeginValidation /\ client'[q] = client[q]
  <2>1. stage' \in ValidationStages => stage \in ValidationStages /\ version' = version
    BY <1>2, ValidationEdges
  <2>2. stage' # "validate" /\ stage = "validate" => client[q].phase = "done"
    BY ValidationEdges DEF EndValidation
  <2>3. QED
    BY <1>b, <1>2, <2>1, <2>2
<1>3. CASE ClientMoves
  <2>1. PICK r \in Clients : ClientStep(r) \/ EngineStep(r) \/ NextTurn(r) \/ Fail(r)
    BY <1>3 DEF ClientMoves
  <2>2. stage' = stage /\ version' = version
    BY <1>3, ClientLeaves DEF trainerVars
  <2>3. CASE r = q
    BY <1>b, <2>1, <2>2, <2>3, ValidatorMoves
  <2>4. CASE r # q
    <3>1. client'[q] = client[q]
      BY <1>a, <2>1, <2>4, SpanMoves
    <3>2. QED
      BY <1>b, <2>2, <3>1
  <2>5. QED
    BY <2>3, <2>4
<1>4. QED
  BY <1>a, <1>1, <1>2, <1>3, ClientKept

\* No validation runs initially.
LEMMA ValidatorInit ==
    ASSUME Init
    PROVE  ValidatorInv
<1>1. stage = "synced" /\ \A r \in Validators : client[r] = Fresh
  BY DEF Init, Clients
<1>2. QED
  BY <1>1, FreshType DEF ValidatorInv, ValidationStages, WakeStages, EnterStages

-----------------------------------------------------------------------------
(* The charges *)

\* Server s is charged for conversation r.
Holds(r, s) == (client[r].on = s /\ client[r].phase \in Holding) \/ s \in releasing[r]

\* The slots held on a server, conversation by conversation.
LEMMA HeldMeans == \A s : Held(s) = {r \in Clients : Holds(r, s)}
BY DEF Held, Holds, At, Holding

\* The same in the next state.
LEMMA HeldMeansNext ==
    ASSUME NEW s
    PROVE  Held(s)' = {r \in Clients : Holds(r, s)'}
BY DEF Held, Holds, At, Holding

\* There are finitely many conversations,
LEMMA ClientsFinite == IsFiniteSet(Clients)
BY FS_Union, ServingAssumption DEF Clients

\* so the slots held on a server can be counted.
LEMMA HeldFinite ==
    ASSUME NEW s
    PROVE  IsFiniteSet(Held(s)) /\ Cardinality(Held(s)) \in Nat
<1>1. IsFiniteSet(Held(s))
  BY ClientsFinite, HeldMeans, FS_Subset
<1>2. QED
  BY <1>1, FS_CardinalityType

\* What a conversation step does to what is held: acquiring a server adds to
\* it, a release that arrives takes away, and everything else only moves a
\* conversation from one kind of holding to another.
LEMMA HoldMoves ==
    ASSUME ServerInv, HoldInv, NEW r \in Clients,
           ClientStep(r) \/ EngineStep(r) \/ NextTurn(r) \/ Fail(r)
    PROVE  /\ \A q \in Clients \ {r} : client'[q] = client[q] /\ releasing'[q] = releasing[q]
           /\ client'[r].phase \in Holding => releasing'[r] = {}
           /\ \A s, t \in releasing'[r] : s = t
           /\ ~Acquire(r) /\ ~Release(r) => \A s : Holds(r, s)' <=> Holds(r, s)
<1>a. /\ client \in [Clients -> ClientRecords] /\ TypesInv
      /\ releasing \in [Clients -> SUBSET Servers]
  BY DEF ServerInv, TypesInv
<1>b. /\ client[r].phase \in Holding => releasing[r] = {}
      /\ \A s, t \in releasing[r] : s = t
  BY DEF HoldInv
<1>e. ASSUME NEW d, Becomes(r, d)
      PROVE  client'[r] = d /\ \A q \in Clients \ {r} : client'[q] = client[q]
  BY <1>a, <1>e DEF Becomes
<1>1. CASE Acquire(r)
  <2>1. PICK d : Becomes(r, d) /\ d.phase = "sent"
    BY <1>1, <1>a, AcquireFacts
  <2>2. releasing' = releasing /\ releasing[r] = {}
    BY <1>1 DEF Acquire
  <2>3. QED
    BY <1>1, <1>e, <2>1, <2>2
<1>2. CASE Return(r)
  <2>1. PICK d : /\ Becomes(r, d) /\ d.phase \in {"backoff", "done"}
                 /\ d.on = client[r].on
    BY <1>2, <1>a, ReturnFacts
  <2>2. /\ releasing' = [releasing EXCEPT ![r] = {client[r].on}]
        /\ client[r].phase = "replied"
    BY <1>2 DEF Return
  <2>3. QED
    BY <1>a, <1>b, <1>e, <2>1, <2>2 DEF Holds, Holding
<1>3. CASE Release(r)
  <2>1. client' = client /\ releasing' = [releasing EXCEPT ![r] = {}]
    BY <1>3 DEF Release
  <2>2. QED
    BY <1>3, <1>a, <2>1
<1>4. CASE Start(r)
  <2>1. PICK d : Becomes(r, d) /\ d.phase = "running" /\ d.on = client[r].on
    BY <1>4, <1>a, StartFacts
  <2>2. releasing' = releasing /\ client[r].phase = "sent"
    BY <1>4 DEF Start
  <2>3. QED
    BY <1>b, <1>e, <2>1, <2>2 DEF Holds, Holding
<1>5. CASE \E aborted \in BOOLEAN : Finish(r, aborted)
  <2>1. PICK d : Becomes(r, d) /\ d.phase = "replied" /\ d.on = client[r].on
    BY <1>5, <1>a, FinishFacts
  <2>2. releasing' = releasing /\ client[r].phase = "running"
    BY <1>5 DEF Finish
  <2>3. QED
    BY <1>b, <1>e, <2>1, <2>2 DEF Holds, Holding
<1>6. CASE NextTurn(r)
  <2>1. PICK d : Becomes(r, d) /\ d.phase = "idle"
    BY <1>6, <1>a, NextTurnFacts
  <2>2. releasing' = releasing /\ client[r].phase = "done"
    BY <1>6 DEF NextTurn
  <2>3. QED
    BY <1>b, <1>e, <2>1, <2>2 DEF Holds, Holding
<1>7. CASE Fail(r)
  <2>1. PICK d : Becomes(r, d) /\ d.phase = "failed" /\ d.on = client[r].on
    BY <1>7, <1>a, FailFacts
  <2>2. /\ releasing' = [releasing EXCEPT ![r] = {client[r].on}]
        /\ client[r].phase = "running"
    BY <1>7 DEF Fail
  <2>3. QED
    BY <1>a, <1>b, <1>e, <2>1, <2>2 DEF Holds, Holding
<1>8. QED
  BY <1>1, <1>2, <1>3, <1>4, <1>5, <1>6, <1>7 DEF ClientStep, EngineStep

\* Every step keeps held slots on servers of the pool.
LEMMA HoldStep ==
    ASSUME ServerInv, HoldInv, [Next]_vars
    PROVE  HoldInv'
<1>a. TypesInv /\ StageInv
  BY DEF ServerInv
<1>1. CASE ClientMoves
  <2>1. PICK r \in Clients : ClientStep(r) \/ EngineStep(r) \/ NextTurn(r) \/ Fail(r)
    BY <1>1 DEF ClientMoves
  <2>2. QED
    BY <2>1, HoldMoves DEF HoldInv
<1>2. CASE BeginValidation
  <2>1. /\ releasing' = releasing
        /\ \A r \in Clients : client'[r] = Fresh \/ client'[r] = client[r]
    BY <1>2 DEF BeginValidation
  <2>2. Fresh.phase \notin Holding
    BY FreshType DEF Holding
  <2>3. QED
    BY <2>1, <2>2 DEF HoldInv
<1>3. CASE ~ClientMoves /\ ~BeginValidation
  BY <1>3, <1>a, ClientKept DEF HoldInv
<1>4. QED
  BY <1>1, <1>2, <1>3

\* Apart from acquiring and releasing, no step changes what is held.
LEMMA HeldKept ==
    ASSUME ServerInv, HoldInv, ValidatorInv, [Next]_vars,
           \A r \in Clients : ~Acquire(r) /\ ~Release(r), NEW s
    PROVE  Held(s)' = Held(s)
<1> SUFFICES ASSUME NEW q \in Clients
             PROVE  Holds(q, s)' <=> Holds(q, s)
  BY HeldMeans, HeldMeansNext
<1>a. TypesInv /\ StageInv
  BY DEF ServerInv
<1>1. CASE ClientMoves
  <2>1. PICK r \in Clients : ClientStep(r) \/ EngineStep(r) \/ NextTurn(r) \/ Fail(r)
    BY <1>1 DEF ClientMoves
  <2>2. CASE q = r
    BY <2>1, <2>2, HoldMoves
  <2>3. CASE q # r
    <3>1. client'[q] = client[q] /\ releasing'[q] = releasing[q]
      BY <2>1, <2>3, HoldMoves
    <3>2. QED
      BY <3>1 DEF Holds
  <2>4. QED
    BY <2>2, <2>3
<1>2. CASE BeginValidation
  <2>1. /\ releasing' = releasing
        /\ client'[q] = IF q \in Validators THEN Fresh ELSE client[q]
    BY <1>2 DEF BeginValidation
  <2>2. q \in Validators => client[q].phase \notin Holding
    BY <1>2 DEF BeginValidation, ValidatorInv, Holding
  <2>3. Fresh.phase \notin Holding
    BY FreshType DEF Holding
  <2>4. QED
    BY <2>1, <2>2, <2>3 DEF Holds
<1>3. CASE ~ClientMoves /\ ~BeginValidation
  BY <1>3, <1>a, ClientKept DEF Holds
<1>4. QED
  BY <1>1, <1>2, <1>3

\* acquire_server adds one holder on the chosen server and none elsewhere.
LEMMA HeldAcquire ==
    ASSUME ServerInv, HoldInv, NEW r \in Clients, Acquire(r), NEW s
    PROVE  /\ r \notin Held(s)
           /\ client'[r].on = s => Held(s)' = Held(s) \cup {r}
           /\ client'[r].on # s => Held(s)' = Held(s)
<1>1. /\ \A q \in Clients \ {r} : client'[q] = client[q] /\ releasing'[q] = releasing[q]
      /\ client[r].phase \notin Holding /\ releasing[r] = {} /\ releasing' = releasing
  BY HoldMoves DEF ClientStep, Acquire, Holding
<1>2. client'[r].phase = "sent"
  <2>1. PICK d : Becomes(r, d) /\ d.phase = "sent"
    BY AcquireFacts DEF ServerInv
  <2>2. QED
    BY <2>1 DEF Becomes, ServerInv, TypesInv
<1>3. \A q \in Clients \ {r} : Holds(q, s)' <=> Holds(q, s)
  BY <1>1 DEF Holds
<1>4. ~Holds(r, s) /\ (Holds(r, s)' <=> client'[r].on = s)
  BY <1>1, <1>2 DEF Holds, Holding
<1>5. QED
  BY <1>3, <1>4, HeldMeans, HeldMeansNext

\* A release removes one holder on its server and none elsewhere.
LEMMA HeldRelease ==
    ASSUME ServerInv, HoldInv, NEW r \in Clients, Release(r), NEW t \in releasing[r], NEW s
    PROVE  /\ r \in Held(t)
           /\ s = t => Held(s)' = Held(s) \ {r}
           /\ s # t => Held(s)' = Held(s)
<1>1. /\ client' = client /\ releasing' = [releasing EXCEPT ![r] = {}]
      /\ releasing \in [Clients -> SUBSET Servers]
  BY DEF Release, ServerInv, TypesInv
<1>2. client[r].phase \notin Holding /\ \A u \in releasing[r] : u = t
  BY DEF HoldInv
<1>3. \A q \in Clients \ {r} : Holds(q, s)' <=> Holds(q, s)
  BY <1>1 DEF Holds
<1>4. Holds(r, t) /\ ~Holds(r, s)' /\ (s # t => ~Holds(r, s))
  BY <1>1, <1>2 DEF Holds
<1>5. QED
  BY <1>3, <1>4, HeldMeans, HeldMeansNext

\* Every step keeps the charges equal to the numbers of holders.
LEMMA ChargeStep ==
    ASSUME ServerInv, HoldInv, ValidatorInv, ChargeInv, [Next]_vars
    PROVE  ChargeInv'
<1>a. /\ TypesInv /\ StageInv /\ DOMAIN balancer = Fields
      /\ Standalone \subseteq Pool(balancer) /\ Standalone \cap Hybrid = {}
  BY ServingAssumption DEF ServerInv, TypesInv, Fields
<1>b. /\ balancer.inflight \in [Pool(balancer) -> Nat]
      /\ \A s \in Pool(balancer) :
            /\ balancer.inflight[s] <= Cardinality(Held(s))
            /\ s \in Standalone => balancer.inflight[s] = Cardinality(Held(s))
  BY DEF ChargeInv, InflightSound
<1> SUFFICES /\ balancer'.inflight \in [Pool(balancer') -> Nat]
             /\ \A s \in Pool(balancer') :
                   /\ balancer'.inflight[s] <= Cardinality(Held(s)')
                   /\ s \in Standalone => balancer'.inflight[s] = Cardinality(Held(s)')
  BY DEF ChargeInv, InflightSound
<1>1. ASSUME NEW r \in Clients, Acquire(r)
      PROVE  /\ balancer'.inflight \in [Pool(balancer') -> Nat]
             /\ \A s \in Pool(balancer') :
                   /\ balancer'.inflight[s] <= Cardinality(Held(s)')
                   /\ s \in Standalone => balancer'.inflight[s] = Cardinality(Held(s)')
  <2>1. PICK t \in Candidates(balancer, r) :
            /\ balancer' = AcquireServer(balancer, r, t)
            /\ client' = [client EXCEPT ![r].phase = "sent", ![r].on = t]
    BY <1>1 DEF Acquire
  <2>2. t \in Pool(balancer) /\ client'[r].on = t
    BY <1>a, <2>1, CandidatesInPool DEF TypesInv, ClientRecords
  <2>3. balancer'.inflight = [balancer.inflight EXCEPT ![t] = @ + 1]
    <3>1. balancer' = AcquireServer(balancer, r, t)
      BY <2>1
    <3>2. QED
      BY <1>a, <3>1, AcquireCharges
  <2>4. /\ Pool(balancer') = Pool(balancer) /\ balancer'.inflight \in [Pool(balancer) -> Nat]
        /\ balancer'.inflight[t] = balancer.inflight[t] + 1
        /\ \A s \in Pool(balancer) \ {t} : balancer'.inflight[s] = balancer.inflight[s]
    BY <1>b, <2>2, <2>3 DEF Pool
  <2>5. Cardinality(Held(t)') = Cardinality(Held(t)) + 1
    BY <1>1, <2>2, HeldAcquire, HeldFinite, FS_AddElement, ZenonT(60)
  <2>6. \A s : s # t => Held(s)' = Held(s)
    BY <1>1, <2>2, HeldAcquire
  <2>7. ASSUME NEW s \in Pool(balancer)
        PROVE  /\ balancer'.inflight[s] <= Cardinality(Held(s)')
               /\ s \in Standalone => balancer'.inflight[s] = Cardinality(Held(s)')
    <3>1. CASE s = t
      BY <1>b, <2>2, <2>4, <2>5, <3>1, HeldFinite
    <3>2. CASE s # t
      BY <1>b, <2>4, <2>6, <3>2
    <3>3. QED
      BY <3>1, <3>2
  <2>8. QED
    BY <2>4, <2>7
<1>2. ASSUME NEW r \in Clients, Release(r)
      PROVE  /\ balancer'.inflight \in [Pool(balancer') -> Nat]
             /\ \A s \in Pool(balancer') :
                   /\ balancer'.inflight[s] <= Cardinality(Held(s)')
                   /\ s \in Standalone => balancer'.inflight[s] = Cardinality(Held(s)')
  <2>1. PICK t \in releasing[r] : balancer' = ReleaseServer(balancer, t)
    BY <1>2 DEF Release
  <2>2. balancer'.inflight = IF t \in Pool(balancer) /\ balancer.inflight[t] > 0
                             THEN [balancer.inflight EXCEPT ![t] = @ - 1]
                             ELSE balancer.inflight
    BY <1>a, <2>1, ReleaseCharges
  <2>3. /\ Pool(balancer') = Pool(balancer) /\ balancer'.inflight \in [Pool(balancer) -> Nat]
        /\ t \in Pool(balancer) =>
              balancer'.inflight[t] = IF balancer.inflight[t] > 0
                                      THEN balancer.inflight[t] - 1 ELSE 0
        /\ \A s \in Pool(balancer) \ {t} : balancer'.inflight[s] = balancer.inflight[s]
    BY <1>b, <2>2 DEF Pool
  <2>4. Cardinality(Held(t)') = Cardinality(Held(t)) - 1
    BY <1>2, HeldRelease, HeldFinite, FS_RemoveElement
  <2>5. Cardinality(Held(t)) > 0
    BY <1>2, HeldRelease, HeldFinite, FS_EmptySet
  <2>6. \A s : s # t => Held(s)' = Held(s)
    BY <1>2, HeldRelease
  <2>7. ASSUME NEW s \in Pool(balancer)
        PROVE  /\ balancer'.inflight[s] <= Cardinality(Held(s)')
               /\ s \in Standalone => balancer'.inflight[s] = Cardinality(Held(s)')
    <3>1. CASE s = t
      BY <1>b, <2>3, <2>4, <2>5, <3>1, HeldFinite
    <3>2. CASE s # t
      BY <1>b, <2>3, <2>6, <3>2
    <3>3. QED
      BY <3>1, <3>2
  <2>8. QED
    BY <2>3, <2>7
<1>3. CASE \A r \in Clients : ~Acquire(r) /\ ~Release(r)
  <2>1. \A s : Held(s)' = Held(s)
    BY <1>3, HeldKept
  <2>2. CASE balancer'.inflight = balancer.inflight
    BY <1>b, <2>1, <2>2 DEF Pool
  <2>3. CASE balancer'.inflight = [s \in Pool(balancer) \cup Hybrid |->
                                     IF s \in Hybrid THEN 0 ELSE balancer.inflight[s]]
    <3>1. Pool(balancer') = Pool(balancer) \cup Hybrid
      BY <2>3 DEF Pool
    <3>2. \A s \in Pool(balancer') :
             balancer'.inflight[s] = IF s \in Hybrid THEN 0 ELSE balancer.inflight[s]
      BY <2>3, <3>1
    <3>3. balancer'.inflight \in [Pool(balancer') -> Nat]
      BY <1>b, <2>3, <3>1
    <3>4. QED
      BY <1>a, <1>b, <2>1, <3>1, <3>2, <3>3, HeldFinite
  <2>4. CASE balancer'.inflight = [s \in Pool(balancer) \ Hybrid |-> balancer.inflight[s]]
    BY <1>b, <2>1, <2>4 DEF Pool
  <2>5. QED
    BY <1>a, <1>3, <2>2, <2>3, <2>4, ChargeCases
<1>4. QED
  BY <1>1, <1>2, <1>3

\* No slot is held initially.
LEMMA HoldInit ==
    ASSUME Init
    PROVE  HoldInv /\ ChargeInv
<1>1. \A r \in Clients : client[r] = Fresh /\ releasing[r] = {}
  BY DEF Init
<1>2. HoldInv
  BY <1>1 DEF HoldInv
<1>3. balancer.inflight = [s \in Standalone |-> 0] /\ Pool(balancer) = Standalone
  BY DEF Init, Balancer, Pool
<1>4. \A s : Held(s) = {}
  BY <1>1, FreshType, HeldMeans DEF Holds, Holding
<1>5. QED
  BY <1>2, <1>3, <1>4, FS_EmptySet DEF ChargeInv, InflightSound

-----------------------------------------------------------------------------
(* The routing cache *)

\* A use of the cache keeps the ages apart and within the size of the cache.
LEMMA RememberCache ==
    ASSUME NEW b, DOMAIN b = Fields, CacheOf(b), NEW r \in Clients, NEW s \in Servers
    PROVE  CacheOf(Remember(b, r, s))
<1> DEFINE D == DOMAIN b.age
           Aged(x) == IF r \in D /\ b.age[r] < b.age[x] THEN b.age[x] ELSE b.age[x] + 1
           kept == {x \in D \ {r} : Aged(x) < CacheSize}
           age == [x \in kept \cup {r} |-> IF x = r THEN 0 ELSE Aged(x)]
           route == [x \in kept \cup {r} |-> IF x = r THEN s ELSE b.route[x]]
<1>1. Remember(b, r, s).age = age /\ Remember(b, r, s).route = route
  BY DEF Remember, Fields
<1>a. /\ D \subseteq Clients /\ \A x \in D : b.age[x] \in Nat
      /\ \A x, y \in D : b.age[x] = b.age[y] => x = y
      /\ \A x \in D : b.route[x] \in Servers
      /\ CacheSize \in Nat \ {0}
  BY CacheSizeAssumption DEF CacheOf, IsInjective
<1>2. \A x \in kept : Aged(x) \in 1 .. CacheSize - 1
  <2>1. SUFFICES ASSUME NEW x \in kept
                 PROVE  Aged(x) \in 1 .. CacheSize - 1
    OBVIOUS
  <2>2. b.age[x] \in Nat /\ Aged(x) < CacheSize /\ (r \in D => b.age[r] \in Nat)
    BY <1>a
  <2>3. QED
    BY <1>a, <2>2
<1>3. ASSUME NEW x \in kept, NEW y \in kept, Aged(x) = Aged(y)
      PROVE  x = y
  <2>1. x \in D /\ y \in D /\ x # r /\ y # r
    OBVIOUS
  <2>2. r \in D => b.age[r] \in Nat /\ b.age[r] # b.age[x] /\ b.age[r] # b.age[y]
    BY <1>a, <2>1
  <2>3. b.age[x] \in Nat /\ b.age[y] \in Nat
    BY <1>a, <2>1
  <2>4. b.age[x] = b.age[y]
    BY <1>3, <2>2, <2>3
  <2>5. QED
    BY <1>a, <2>1, <2>4
<1>4. /\ DOMAIN age = kept \cup {r} /\ kept \subseteq D /\ r \notin kept
      /\ age[r] = 0 /\ \A x \in kept : age[x] = Aged(x)
  OBVIOUS
<1> HIDE DEF Aged, kept, age
<1>5. IsInjective(age)
  BY <1>2, <1>3, <1>4 DEF IsInjective
<1>6. \A x \in DOMAIN age : age[x] \in 0 .. CacheSize - 1
  BY <1>2, <1>4, <1>a
<1>7. age \in [DOMAIN age -> 0 .. CacheSize - 1]
  BY <1>6 DEF age
<1>8. route \in [DOMAIN age -> Servers]
  BY <1>4, <1>a
<1>9. QED
  BY <1>1, <1>4, <1>5, <1>7, <1>8, <1>a DEF CacheOf

\* Only the ages and the routes matter.
LEMMA CacheSame ==
    ASSUME NEW b, NEW b2, CacheOf(b), b2.age = b.age, b2.route = b.route
    PROVE  CacheOf(b2)
BY DEF CacheOf

\* Every step keeps the routing cache within its size and on live servers.
LEMMA CacheStep ==
    ASSUME ServerInv, CacheOf(balancer), [Next]_vars
    PROVE  CacheOf(balancer')
<1>a. /\ TypesInv /\ StageInv /\ DOMAIN balancer = Fields
      /\ Pool(balancer) \subseteq Servers
  BY DEF ServerInv, TypesInv, Fields
<1>1. CASE balancer'.age = balancer.age /\ balancer'.route = balancer.route
  BY <1>1, CacheSame
<1>2. ASSUME NEW r \in Clients, Acquire(r)
      PROVE  CacheOf(balancer')
  <2>1. PICK s \in Candidates(balancer, r) : balancer' = AcquireServer(balancer, r, s)
    BY <1>2 DEF Acquire
  <2>2. s \in Servers
    BY <1>a, CandidatesInPool
  <2>3. PICK b : b = [balancer EXCEPT !.inflight[s] = @ + 1]
    OBVIOUS
  <2>4. DOMAIN b = Fields /\ b.age = balancer.age /\ b.route = balancer.route
    BY <1>a, <2>3 DEF Fields
  <2>5. balancer' = Remember(b, r, s)
    BY <2>1, <2>3 DEF AcquireServer
  <2>6. QED
    BY <2>2, <2>4, <2>5, CacheSame, RememberCache
<1>3. ASSUME NEW r \in Clients, Release(r)
      PROVE  CacheOf(balancer')
  <2>1. PICK s : balancer' = ReleaseServer(balancer, s)
    BY <1>3 DEF Release
  <2>2. QED
    BY <1>1, <1>a, <2>1 DEF ReleaseServer, Fields
<1>4. CASE AddReplicas \/ RemoveReplicas
  BY <1>1, <1>4, <1>a DEF AddReplicas, RemoveReplicas, AddServers, RemoveServers, Fields
<1>5. CASE BeginValidation
  <2>1. /\ balancer'.age = Restrict(balancer.age, DOMAIN balancer.age \ Validators)
        /\ balancer'.route = Restrict(balancer.route, DOMAIN balancer.route \ Validators)
    BY <1>5, <1>a DEF BeginValidation, Fields
  <2>2. DOMAIN balancer.route = DOMAIN balancer.age
    BY DEF CacheOf
  <2>3. QED
    BY <2>1, <2>2 DEF CacheOf, Restrict, IsInjective
<1>6. CASE ClientMoves
  <2>1. PICK r \in Clients : ClientStep(r) \/ EngineStep(r) \/ NextTurn(r) \/ Fail(r)
    BY <1>6 DEF ClientMoves
  <2>2. CASE Return(r) \/ EngineStep(r) \/ NextTurn(r) \/ Fail(r)
    BY <2>2, <1>1 DEF Return, EngineStep, Start, Finish, NextTurn, Fail
  <2>3. QED
    BY <1>2, <1>3, <2>1, <2>2 DEF ClientStep
<1>7. CASE Onward /\ ~BeginValidation /\ ~AddReplicas /\ ~RemoveReplicas
  BY <1>7, <1>1 DEF Onward, NextStage, SkipValidation, EndValidation, BeginUpdate
<1>8. CASE \E s \in Servers : ServerControl(s)
  BY <1>8, <1>1, <1>a, ControlFacts
<1>9. QED
  BY <1>1, <1>4, <1>5, <1>6, <1>7, <1>8, StepKinds DEF vars

\* The cache is empty initially.
LEMMA CacheInit ==
    ASSUME Init
    PROVE  CacheOf(balancer)
<1>1. balancer.age = [r \in {} |-> 0] /\ balancer.route = [r \in {} |-> 0]
  BY DEF Init, Balancer
<1>2. QED
  BY <1>1 DEF CacheOf, IsInjective

-----------------------------------------------------------------------------
(* The theorems *)

\* The inductive invariant holds always.
LEMMA ServingIInvHolds == Spec => []ServingIInv
<1>1. Init => ServingIInv
  BY ServerInit, SpanInit, ValidatorInit, HoldInit, CacheInit DEF ServingIInv
<1>2. ServingIInv /\ [Next]_vars => ServingIInv'
  <2> SUFFICES ASSUME ServingIInv, [Next]_vars
               PROVE  ServingIInv'
    OBVIOUS
  <2>1. ServerInv' /\ SpanInv' /\ ValidatorInv'
    BY ServerStep, SpanStep, ValidatorStep DEF ServingIInv
  <2>2. HoldInv' /\ ChargeInv' /\ CacheOf(balancer')
    BY HoldStep, ChargeStep, CacheStep DEF ServingIInv
  <2>3. QED
    BY <2>1, <2>2 DEF ServingIInv
<1>3. QED
  BY <1>1, <1>2, PTL DEF Spec

\* For any number of servers and conversations: while update_weights has taken
\* the KV cache of a standalone server, or its weights and its global_steps
\* disagree, no request runs on that server.
THEOREM SyncIsQuiet == Spec => []QuietDuringSync
<1>1. ServingIInv => QuietDuringSync
  <2> SUFFICES ASSUME ServingIInv, NEW s \in Standalone,
                      memory[s] # "ready" \/ weights[s] # label[s]
               PROVE  RunningOn(s) = {}
    BY DEF QuietDuringSync
  <2>1. s \in Servers /\ s \notin Hybrid
    BY ServingAssumption DEF Servers
  <2>2. Stopped(s)
    <3>1. CASE memory[s] # "ready"
      BY <2>1, <3>1 DEF ServingIInv, ServerInv, MemoryInv, Ready, Stopped, StandaloneStopped
    <3>2. CASE weights[s] # label[s]
      BY <2>1, <3>2 DEF ServingIInv, ServerInv, WeightsInv, StandaloneWeights, Stopped,
                        StandaloneStopped
    <3>3. QED
      BY <3>1, <3>2
  <2>3. QED
    BY <2>1, <2>2 DEF ServingIInv, ServerInv, PauseInv
<1>2. QED
  BY <1>1, ServingIInvHolds, PTL

\* For any number of standalone and hybrid servers: all servers of the pool
\* that take requests hold the same parameter version.
THEOREM PoolServesOneVersion == Spec => []PoolUniform
<1>1. ServingIInv => PoolUniform
  <2>1. ASSUME ServingIInv, NEW s \in Pool(balancer), ~paused[s]
        PROVE  weights[s] = Settled
    <3>1. s \in Servers
      BY <2>1 DEF ServingIInv, ServerInv, TypesInv
    <3>2. CASE s \in Hybrid
      <4>1. stage \in AliveStages
        BY <2>1, <3>2 DEF ServingIInv, ServerInv, AliveInv
      <4>2. Ready(s)
        BY <3>2, <4>1 DEF Ready, AliveStages, AwakeStages
      <4>3. memory[s] = "ready"
        BY <2>1, <3>1, <4>2 DEF ServingIInv, ServerInv, MemoryInv
      <4>4. QED
        BY <2>1, <3>1, <4>3, ReadySettled DEF ServingIInv
    <3>3. CASE s \notin Hybrid
      <4>1. ~Stopped(s) /\ s \in Standalone
        BY <2>1, <3>1, <3>3 DEF ServingIInv, ServerInv, PauseInv, Servers
      <4>2. stage # "sync_load"
        BY <3>3, <4>1 DEF Stopped, StandaloneStopped
      <4>3. QED
        BY <2>1, <4>1, <4>2 DEF ServingIInv, ServerInv, WeightsInv, StandaloneWeights
    <3>4. QED
      BY <3>2, <3>3
  <2>2. QED
    BY <2>1 DEF PoolUniform
<1>2. QED
  BY <1>1, ServingIInvHolds, PTL

\* Whatever the trainer does during a call of generate, and however often the
\* call is aborted and resumed elsewhere: min_global_steps and max_global_steps
\* enclose every version that generated tokens of it.
THEOREM SpansCoverVersions == Spec => []SpanCovers
<1>1. ServingIInv => SpanCovers
  BY DEF ServingIInv, SpanInv, SpanOf, Reported, SpanCovers
<1>2. QED
  BY <1>1, ServingIInvHolds, PTL

\* A validation conversation that is complete was generated by the version
\* under validation alone, and reports it as its span.
THEOREM ValidationMeasuresVersion == Spec => []ValidatedVersion
<1>1. ServingIInv => ValidatedVersion
  <2> SUFFICES ASSUME ServingIInv, NEW r \in Validators, stage = "validate",
                      client[r].phase = "done"
               PROVE  /\ client[r].used = {version} /\ client[r].lo = version
                      /\ client[r].hi = version
    BY DEF ValidatedVersion
  <2> DEFINE c == client[r]
  <2>1. ValidatorOf(c, version)
    BY DEF ServingIInv, ValidatorInv, ValidationStages, EnterStages
  <2>2. r \in Clients /\ Settled = version
    BY DEF Clients, Settled
  <2>3. SpanOf(c, memory[c.on], version)
    BY <2>2 DEF ServingIInv, SpanInv
  <2>4. version \in Int /\ c.hi \in Int /\ c.lo \in Int
    BY <2>2, VersionFacts DEF ServingIInv, ServerInv, TypesInv, ClientRecords
  <2>5. c.used = {version}
    BY <2>1 DEF ValidatorOf
  <2>6. c.lo = version /\ c.lo <= c.hi /\ c.hi <= version
    BY <2>1, <2>3 DEF ValidatorOf, SpanOf
  <2>7. QED
    BY <2>4, <2>5, <2>6
<1>2. QED
  BY <1>1, ServingIInvHolds, PTL

\* The balancer's view of the pool is right for any number of servers, clients
\* and cache entries: its servers are awake, none is charged for more than it
\* holds and a standalone one for exactly that, and the cache keeps its size.
THEOREM PoolStaysSound == Spec => []PoolInv
<1>1. ServingIInv => PoolInv
  <2> SUFFICES ASSUME ServingIInv
               PROVE  PoolInv
    OBVIOUS
  <2>1. TypeOK
    <3>1. todo \subseteq Servers
      BY DEF ServingIInv, ServerInv, StageInv, Servers
    <3>2. stage \in DOMAIN Script \cup {"synced", "train"}
      BY ScriptParts DEF ServingIInv, ServerInv, TypesInv, Stages
    <3>3. \A s \in Pool(balancer) :
              balancer.inflight[s] \in 0 .. Cardinality(Clients)
      <4>1. SUFFICES ASSUME NEW s \in Pool(balancer)
                     PROVE  balancer.inflight[s] \in 0 .. Cardinality(Clients)
        OBVIOUS
      <4>2. balancer.inflight[s] \in Nat /\ balancer.inflight[s] <= Cardinality(Held(s))
        BY DEF ServingIInv, ChargeInv, InflightSound
      <4>3. /\ Cardinality(Held(s)) <= Cardinality(Clients)
            /\ Cardinality(Held(s)) \in Nat /\ Cardinality(Clients) \in Nat
        BY HeldMeans, HeldFinite, ClientsFinite, FS_Subset, FS_CardinalityType
      <4>4. QED
        BY <4>2, <4>3
    <3>4. balancer.inflight \in [Pool(balancer) -> 0 .. Cardinality(Clients)]
      BY <3>3 DEF ServingIInv, ChargeInv
    <3>5. /\ DOMAIN balancer.age \subseteq Clients
          /\ balancer.age \in Injection(DOMAIN balancer.age, 0 .. CacheSize - 1)
          /\ balancer.route \in [DOMAIN balancer.age -> Servers]
      BY DEF ServingIInv, CacheOf, Injection
    <3>6. QED
      BY <3>1, <3>2, <3>4, <3>5 DEF ServingIInv, ServerInv, TypesInv, TypeOK, ClientRecords
  <2>2. AliveReady
    <3>1. SUFFICES ASSUME NEW s \in Hybrid \cap Pool(balancer)
                   PROVE  memory[s] = "ready"
      BY DEF AliveReady
    <3>2. stage \in AliveStages /\ s \in Servers
      BY DEF ServingIInv, ServerInv, AliveInv, Servers
    <3>3. Ready(s)
      BY <3>2 DEF Ready, AliveStages, AwakeStages
    <3>4. QED
      BY <3>2, <3>3 DEF ServingIInv, ServerInv, MemoryInv
  <2>3. InflightSound
    BY DEF ServingIInv, ChargeInv
  <2>4. QED
    BY <2>1, <2>2, <2>3 DEF PoolInv
<1>2. QED
  BY <1>1, ServingIInvHolds, PTL
=============================================================================

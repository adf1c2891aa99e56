-------------------------- MODULE OneStepOffProofs --------------------------
(***************************************************************************)
(* Theorems about OneStepOff, for every length of the data set, every      *)
(* number of steps, every frequency and any number of restarts:            *)
(*                                                                         *)
(*   - a batch is at most one update off policy and the servers are quiet  *)
(*     when their weights change (OffPolicyInv);                           *)
(*   - what restarts cost (RestartCost).                                   *)
(*                                                                         *)
(* The layers of the inductive invariant: types and the place of the data  *)
(* loader relative to the step (PlaceInv), the versions of the weights     *)
(* (VersionInv), what is saved at the end (EndInv), which batches were     *)
(* learned from (LearnedInv) and how many (CountInv).                      *)
(***************************************************************************)
EXTENDS OneStepOff, FiniteSetTheorems, TLAPS

\* The place of the last batch drawn.
Pos(l) == l.done + l.at

\* A dataloader: its place in the epoch, the epoch, and the batches handed out.
Loaders == [at : 0..StepsPerEpoch, pass : 1..TotalEpochs, done : Nat]

\* The passes before the current one are whole epochs.
GoodLoader(l) ==
    /\ l \in Loaders
    /\ \E k \in Int : l.done = StepsPerEpoch * k
    /\ l.done >= StepsPerEpoch * (l.pass - 1)

\* Numbers of batches: a restart may draw one more.
Ids == 0..(total + restarts)

\* The types of the variables.
InvTypes ==
    /\ total \in Nat \ {0} /\ last \in BOOLEAN
    /\ pc \in {"load", "begin", "await", "sync", "train", "validate", "save", "post",
               "finished", "raised"}
    /\ step \in Nat /\ restarts \in 0..MaxRestarts
    /\ GoodLoader(loader)
    /\ ckpt \in [step : Nat, actor : Nat, loader : Loaders, trained : SUBSET Ids]
    /\ GoodLoader(ckpt.loader)
    /\ future \in [st : {"none", "running", "ready", "failed", "exhausted"},
                   id : Ids, version : Nat]
    /\ batch \in [id : Ids, version : Nat]
    /\ actor \in Nat /\ rollout \in Nat /\ tested \in Nat
    /\ trained \subseteq Ids

\* Where fit is: loading the checkpoint, waiting for a batch, or inside a step.
Restoring == pc \in {"load", "begin"}
Waiting == pc \in {"await", "sync"}
Stepping == pc \in {"train", "validate", "save", "post"}

\* future stands for a batch that was drawn.
Underway == future.st \in {"running", "ready", "failed"}

\* The checkpoint: its loader is at most one batch ahead of its step, and one
\* per restart; a restart turns the first into the second.
CkptPlace ==
    /\ ckpt.step <= Pos(ckpt.loader)
    /\ Pos(ckpt.loader) <= ckpt.step + restarts + 1
    /\ Pos(ckpt.loader) <= total + restarts
    /\ Restoring => /\ Pos(ckpt.loader) <= ckpt.step + restarts
                    /\ Pos(ckpt.loader) < total + restarts

\* How far step can be, and what last says of it.
StepPlace ==
    /\ step <= total + restarts + 1
    /\ pc # "finished" /\ pc # "load" => step <= total + restarts
    /\ pc = "begin" => step < total + restarts
    /\ Waiting \/ Stepping => (last <=> step >= total)

\* The running job: the batch under way is the last one drawn, and the batch
\* of the step the one before it.
LoaderPlace ==
    /\ pc # "load" => Pos(loader) <= total + restarts
    /\ pc = "begin" => /\ step <= Pos(loader) /\ Pos(loader) <= step + restarts
                       /\ Pos(loader) < total + restarts
    /\ Waiting => /\ Pos(loader) <= step + restarts
                  /\ Underway => step <= Pos(loader) /\ future.id = Pos(loader)
    /\ pc = "sync" => future.st = "ready" /\ batch.id = Pos(loader)
    /\ Stepping =>
          /\ step <= Pos(loader) /\ Pos(loader) <= step + restarts + 1
          /\ batch.id <= step + restarts
          /\ IF Underway
             THEN /\ future.id = Pos(loader) /\ batch.id + 1 = Pos(loader)
                  /\ step + 1 <= Pos(loader)
             ELSE batch.id = Pos(loader)

\* Where everything is.
PlaceInv == InvTypes /\ CkptPlace /\ StepPlace /\ LoaderPlace

\* The weights of the actor, or the ones just before.
Recent(v) == v \in {actor - 1, actor}

\* The weights of the servers and of the batches are those of the actor or the
\* ones before, and nothing is updated before critic_warmup.
VersionInv ==
    /\ actor > 0 /\ pc # "load" => CriticWarmup <= step
    /\ ckpt.actor > 0 => CriticWarmup <= ckpt.step
    /\ pc = "load" => rollout = 0
    /\ pc \in {"begin", "train"} => rollout = actor
    /\ Waiting \/ Stepping => Recent(rollout)
    /\ Waiting /\ Underway => Recent(future.version)
    /\ pc \in {"sync", "train"} => Recent(batch.version)
    /\ Stepping /\ Underway => Recent(future.version)
    /\ pc = "train" /\ Underway => future.version = actor

\* What the last step has tested and saved.
EndInv ==
    /\ pc \in {"save", "post"} /\ last => tested >= actor - 1
    /\ pc = "post" /\ last => ckpt.actor = actor
    /\ FinishedSaved

\* Batches up to n that were not trained on.
Gap(n, T) == {b \in 1..n : b \notin T}

\* Batches up to the place of the loader that were not learned from.
GapInv ==
    /\ Cardinality(Gap(Pos(ckpt.loader), ckpt.trained)) <= restarts + 1
    /\ pc = "load" => Cardinality(Gap(Pos(ckpt.loader), ckpt.trained)) <= restarts
    /\ pc = "begin" => Cardinality(Gap(Pos(loader), trained)) <= restarts
    /\ pc = "await" /\ Underway => Cardinality(Gap(Pos(loader) - 1, trained)) <= restarts
    /\ pc \in {"sync", "train"} => Cardinality(Gap(batch.id - 1, trained)) <= restarts
    /\ Stepping /\ pc # "train" => Cardinality(Gap(batch.id, trained)) <= restarts

\* Until the second restart batches are learned from in their order.
OrderInv ==
    /\ restarts = 0 \/ (restarts = 1 /\ pc = "load") =>
          ckpt.trained \subseteq 0..ckpt.step
    /\ restarts <= 1 =>
          /\ pc = "begin" => trained \subseteq 0..Pos(loader)
          /\ pc = "await" /\ Underway => trained \subseteq 0..(Pos(loader) - 1)
          /\ pc \in {"sync", "train"} => trained \subseteq 0..(batch.id - 1)
          /\ Stepping /\ pc # "train" => trained \subseteq 0..batch.id

\* What was learned so far.
LearnedInv == GapInv /\ OrderInv

\* No more batches than steps.
CountInv ==
    /\ Cardinality(ckpt.trained) <= ckpt.step
    /\ pc = "begin" => Cardinality(trained) <= step
    /\ Waiting \/ pc = "train" => Cardinality(trained) <= step - 1
    /\ Stepping /\ pc # "train" => Cardinality(trained) <= step
    /\ Restoring => batch.id = 0 /\ future.st = "none"
    /\ pc = "begin" => step = ckpt.step /\ loader = Restored(ckpt)
    /\ DataSuffices

-----------------------------------------------------------------------------
(* Remainders and the data loader                                           *)

\* A number is a multiple of the divisor plus its remainder.
LEMMA ModSplit ==
    ASSUME NEW v \in Nat, NEW F \in Nat \ {0}
    PROVE  \E q \in Int, r \in 0..(F - 1) : v = F * q + r /\ v % F = r
<1>1. v \div F \in Int /\ v = F * (v \div F) + (v % F)
  OBVIOUS
<1>2. v % F \in 0..(F - 1)
  OBVIOUS
<1>3. QED
  BY <1>1, <1>2, Zenon

\* The remainder is zero exactly for the multiples.
LEMMA ModZero ==
    ASSUME NEW v \in Nat, NEW F \in Nat \ {0}
    PROVE  v % F = 0 <=> \E k \in Int : v = F * k
<1>1. PICK q \in Int, r \in 0..(F - 1) : v = F * q + r /\ v % F = r
  BY ModSplit
<1>2. ASSUME NEW k \in Int, v = F * k
      PROVE  r = 0
  <2>1. F * (k - q) = r
    BY <1>1, <1>2
  <2>2. \A d \in Int : (d >= 1 => F * d >= F) /\ (d <= -1 => F * d <= -F)
    OBVIOUS
  <2>3. k - q = 0
    BY <2>1, <2>2
  <2>4. QED
    BY <2>1, <2>3
<1>3. r = 0 => v = F * q
  BY <1>1
<1>4. QED
  BY <1>1, <1>2, <1>3, Zenon

\* A new pass moves the loader to the next epoch and not to another place.
LEMMA TurnedFacts ==
    ASSUME NEW l, GoodLoader(l)
    PROVE  GoodLoader(Turned(l)) /\ Pos(Turned(l)) = Pos(l) /\ Pos(l) \in Nat
<1>1. PICK k \in Int : l.done = StepsPerEpoch * k
  BY DEF GoodLoader
<1>2. /\ l \in Loaders /\ l.done >= StepsPerEpoch * (l.pass - 1)
      /\ l.at \in Nat /\ l.done \in Nat /\ l.pass \in Nat
      /\ StepsPerEpoch \in Nat \ {0} /\ TotalEpochs \in Nat \ {0}
  BY OneStepOffAssumption DEF GoodLoader, Loaders
<1>3. CASE l.at = StepsPerEpoch /\ l.pass < TotalEpochs
  <2> DEFINE t == [at |-> 0, pass |-> l.pass + 1, done |-> l.done + StepsPerEpoch]
  <2>1. Turned(l) = t
    BY <1>3 DEF Turned
  <2>2. t \in Loaders
    BY <1>2, <1>3 DEF Loaders
  <2>3. l.done + StepsPerEpoch = StepsPerEpoch * (k + 1) /\ k + 1 \in Int
    BY <1>1, <1>2
  <2>4. StepsPerEpoch * (l.pass - 1) + StepsPerEpoch = StepsPerEpoch * l.pass
    BY <1>2
  <2>5. t.done = l.done + StepsPerEpoch /\ t.pass - 1 = l.pass /\ t.at = 0
    BY <1>2
  <2>6. t.done >= StepsPerEpoch * (t.pass - 1)
    <3>1. StepsPerEpoch * (l.pass - 1) \in Int /\ StepsPerEpoch * l.pass \in Int
      BY <1>2
    <3>2. QED
      BY <3>1, <2>4, <2>5, <1>2
  <2>7. GoodLoader(t)
    <3>1. \E j \in Int : t.done = StepsPerEpoch * j
      BY <2>3, <2>5, Zenon
    <3>2. QED
      BY <2>2, <3>1, <2>6 DEF GoodLoader
  <2>8. Pos(t) = Pos(l)
    BY <2>5, <1>2, <1>3 DEF Pos
  <2>9. QED
    BY <2>1, <2>7, <2>8, <1>2 DEF Pos
<1>4. CASE ~(l.at = StepsPerEpoch /\ l.pass < TotalEpochs)
  BY <1>2, <1>4 DEF Turned, Pos
<1>5. QED
  BY <1>3, <1>4

\* Drawing moves the loader by one.
LEMMA DrawnFacts ==
    ASSUME NEW l, GoodLoader(l), ~Exhausted(l)
    PROVE  /\ GoodLoader(Drawn(l)) /\ Pos(Drawn(l)) = Pos(l) + 1 /\ Pos(l) \in Nat
<1> DEFINE t == Turned(l)
<1>1. GoodLoader(t) /\ Pos(t) = Pos(l) /\ Pos(l) \in Nat
  BY TurnedFacts
<1>2. t \in Loaders /\ t.at # StepsPerEpoch /\ StepsPerEpoch \in Nat
  BY <1>1, OneStepOffAssumption DEF GoodLoader, Exhausted
<1> HIDE DEF t
<1>3. /\ [t EXCEPT !.at = @ + 1] \in Loaders
      /\ [t EXCEPT !.at = @ + 1].done = t.done /\ [t EXCEPT !.at = @ + 1].pass = t.pass
      /\ [t EXCEPT !.at = @ + 1].at = t.at + 1
  BY <1>2 DEF Loaders
<1>4. GoodLoader([t EXCEPT !.at = @ + 1])
  BY <1>1, <1>3 DEF GoodLoader
<1>5. Pos([t EXCEPT !.at = @ + 1]) = Pos(t) + 1
  BY <1>2, <1>3 DEF Pos, Loaders
<1>6. Drawn(l) = [t EXCEPT !.at = @ + 1]
  BY DEF Drawn, t
<1>7. QED
  BY <1>1, <1>4, <1>5, <1>6

\* An exhausted loader has gone through total_epochs epochs, to the end of one.
LEMMA ExhaustedFacts ==
    ASSUME NEW l, GoodLoader(l), Exhausted(l)
    PROVE  /\ Pos(l) >= StepsPerEpoch * TotalEpochs
           /\ Pos(l) % StepsPerEpoch = 0
<1>1. PICK k \in Int : l.done = StepsPerEpoch * k
  BY DEF GoodLoader
<1>2. /\ l \in Loaders /\ l.done >= StepsPerEpoch * (l.pass - 1)
      /\ l.at \in Nat /\ l.done \in Nat /\ l.pass \in Nat /\ l.pass <= TotalEpochs
      /\ StepsPerEpoch \in Nat \ {0} /\ TotalEpochs \in Nat \ {0}
  BY OneStepOffAssumption DEF GoodLoader, Loaders
<1>3. ~(l.at = StepsPerEpoch /\ l.pass < TotalEpochs)
  BY <1>2 DEF Exhausted, Turned
<1>4. l.at = StepsPerEpoch /\ l.pass = TotalEpochs
  <2>1. Turned(l) = l
    BY <1>3, Zenon DEF Turned
  <2>2. l.at = StepsPerEpoch
    BY <2>1 DEF Exhausted
  <2>3. QED
    BY <2>2, <1>2, <1>3
<1>5. Pos(l) = l.done + StepsPerEpoch
  BY <1>4 DEF Pos
<1>6. /\ StepsPerEpoch * (TotalEpochs - 1) + StepsPerEpoch = StepsPerEpoch * TotalEpochs
      /\ StepsPerEpoch * (TotalEpochs - 1) \in Int
  BY <1>2
<1>7. l.done + StepsPerEpoch = StepsPerEpoch * (k + 1) /\ k + 1 \in Int
  BY <1>1, <1>2
<1>8. Pos(l) \in Nat /\ \E j \in Int : Pos(l) = StepsPerEpoch * j
  BY <1>2, <1>5, <1>7
<1>9. Pos(l) % StepsPerEpoch = 0
  BY <1>2, <1>8, ModZero
<1>10. Pos(l) >= StepsPerEpoch * TotalEpochs
  <2>1. l.done >= StepsPerEpoch * (TotalEpochs - 1)
    BY <1>2, <1>4
  <2>2. QED
    BY <2>1, <1>5, <1>6, <1>2
<1>11. QED
  BY <1>9, <1>10

\* A restart takes the loader back to the step, or leaves it where it was saved.
LEMMA RestoredFacts ==
    ASSUME NEW c, c.step \in Nat, GoodLoader(c.loader), c.step <= Pos(c.loader)
    PROVE  /\ GoodLoader(Restored(c))
           /\ Pos(Restored(c)) \in Nat /\ c.step <= Pos(Restored(c))
           /\ Pos(Restored(c)) <= Pos(c.loader)
<1>1. /\ StepsPerEpoch \in Nat \ {0} /\ TotalEpochs \in Nat \ {0}
      /\ c.loader \in Loaders
      /\ c.loader.at \in Nat /\ c.loader.done \in Nat
  BY OneStepOffAssumption DEF GoodLoader, Loaders
<1>2. StepsPerEpoch * (1 - 1) = 0
  BY <1>1
<1>3. CASE AtEpochBoundary(c)
  <2> DEFINE t == [at |-> 0, pass |-> 1, done |-> c.step]
  <2>1. Restored(c) = t
    BY <1>3 DEF Restored
  <2>2. \E k \in Int : c.step = StepsPerEpoch * k
    BY <1>1, <1>3, ModZero DEF AtEpochBoundary
  <2>3. t \in Loaders /\ t.done = c.step /\ t.at = 0 /\ t.pass = 1
    BY <1>1 DEF Loaders
  <2>4. GoodLoader(t)
    BY <1>2, <2>2, <2>3 DEF GoodLoader
  <2>5. Pos(t) = c.step
    BY <2>3 DEF Pos
  <2>6. QED
    BY <2>1, <2>4, <2>5
<1>4. CASE ~AtEpochBoundary(c)
  <2> DEFINE t == [c.loader EXCEPT !.pass = 1]
  <2>1. Restored(c) = t
    BY <1>4 DEF Restored
  <2>2. t \in Loaders /\ t.done = c.loader.done /\ t.at = c.loader.at /\ t.pass = 1
    BY <1>1 DEF Loaders
  <2>3. GoodLoader(t)
    BY <1>1, <1>2, <2>2 DEF GoodLoader
  <2>4. Pos(t) = Pos(c.loader) /\ Pos(t) \in Nat
    BY <1>1, <2>2 DEF Pos
  <2>5. QED
    BY <2>1, <2>3, <2>4
<1>5. QED
  BY <1>3, <1>4

-----------------------------------------------------------------------------
(* Types and the place of the data loader                                   *)

\* A launch draws the next batch, or finds no data and moves nothing.
LEMMA LaunchFacts ==
    ASSUME NEW v, GoodLoader(loader), Launch(v)
    PROVE  /\ Pos(loader) \in Nat /\ Pos(loader') \in Nat /\ GoodLoader(loader')
           /\ \/ /\ Exhausted(loader) /\ loader' = loader
                 /\ future' = [st |-> "exhausted", id |-> 0, version |-> 0]
              \/ /\ Pos(loader') = Pos(loader) + 1
                 /\ future' = [st |-> "running", id |-> Pos(loader'), version |-> v]
<1>1. CASE Exhausted(loader)
  <2>1. loader' = loader /\ future' = [NoFuture EXCEPT !.st = "exhausted"]
    BY <1>1 DEF Launch
  <2>2. future' = [st |-> "exhausted", id |-> 0, version |-> 0]
    BY <2>1 DEF NoFuture
  <2>3. QED
    BY <1>1, <2>1, <2>2, TurnedFacts
<1>2. CASE ~Exhausted(loader)
  <2>1. /\ loader' = Drawn(loader)
        /\ future' = [st |-> "running", id |-> Drawn(loader).done + Drawn(loader).at,
                      version |-> v]
    BY <1>2 DEF Launch
  <2>2. /\ GoodLoader(Drawn(loader)) /\ Pos(Drawn(loader)) = Pos(loader) + 1
        /\ Pos(loader) \in Nat
    BY <1>2, DrawnFacts
  <2>3. Drawn(loader).done + Drawn(loader).at = Pos(loader')
    BY <2>1 DEF Pos
  <2>4. QED
    BY <2>1, <2>2, <2>3
<1>3. QED
  BY <1>1, <1>2

\* The records that stand for nothing.
LEMMA EmptyFacts ==
    /\ NoBatch.id = 0 /\ NoBatch.version = 0
    /\ NoFuture.st = "none" /\ NoFuture.id = 0 /\ NoFuture.version = 0
    /\ NoCheckpoint.step = 0 /\ NoCheckpoint.actor = 0
    /\ NoCheckpoint.loader = NewLoader /\ NoCheckpoint.trained = {}
    /\ Pos(NewLoader) = 0 /\ GoodLoader(NewLoader)
<1>1. /\ NoBatch.id = 0 /\ NoBatch.version = 0
      /\ NoFuture.st = "none" /\ NoFuture.id = 0 /\ NoFuture.version = 0
      /\ NoCheckpoint.step = 0 /\ NoCheckpoint.actor = 0
      /\ NoCheckpoint.loader = NewLoader /\ NoCheckpoint.trained = {}
  BY DEF NoBatch, NoFuture, NoCheckpoint
<1>2. NewLoader.at = 0 /\ NewLoader.pass = 1 /\ NewLoader.done = 0
  BY DEF NewLoader
<1>3. NewLoader \in Loaders
  BY OneStepOffAssumption DEF NewLoader, Loaders
<1>4. NewLoader.done = StepsPerEpoch * 0 /\ StepsPerEpoch * (NewLoader.pass - 1) = 0
  BY <1>2, OneStepOffAssumption
<1>5. GoodLoader(NewLoader)
  BY <1>2, <1>3, <1>4 DEF GoodLoader
<1>6. QED
  BY <1>1, <1>2, <1>5 DEF Pos

\* The initial state.
LEMMA PlaceInit == Init => PlaceInv
<1> SUFFICES ASSUME Init PROVE PlaceInv
  OBVIOUS
<1>1. total \in Nat \ {0} /\ restarts = 0 /\ MaxRestarts \in Nat
  BY OneStepOffAssumption DEF Init
<1>2. /\ Pos(loader) = 0 /\ Pos(ckpt.loader) = 0 /\ ckpt.step = 0
      /\ GoodLoader(loader) /\ GoodLoader(ckpt.loader)
  BY EmptyFacts DEF Init
<1>3. InvTypes
  <2>1. ckpt \in [step : Nat, actor : Nat, loader : Loaders, trained : SUBSET Ids]
    BY <1>2 DEF Init, NoCheckpoint, GoodLoader
  <2>2. future \in [st : {"none", "running", "ready", "failed", "exhausted"},
                    id : Ids, version : Nat]
        /\ batch \in [id : Ids, version : Nat]
    BY <1>1 DEF Init, NoFuture, NoBatch, Ids
  <2>3. last \in BOOLEAN /\ trained \subseteq Ids
    BY Zenon DEF Init
  <2>4. /\ step \in Nat /\ restarts \in 0..MaxRestarts
        /\ actor \in Nat /\ rollout \in Nat /\ tested \in Nat
    BY <1>1 DEF Init
  <2>5. pc \in {"load", "begin", "await", "sync", "train", "validate", "save", "post",
                "finished", "raised"}
    BY Zenon DEF Init
  <2>6. QED
    BY <1>1, <1>2, <2>1, <2>2, <2>3, <2>4, <2>5 DEF InvTypes
<1>4. CkptPlace /\ StepPlace /\ LoaderPlace
  BY <1>1, <1>2 DEF Init, CkptPlace, StepPlace, LoaderPlace, Restoring, Waiting, Stepping
<1>5. QED
  BY <1>3, <1>4 DEF PlaceInv

\* The facts of PlaceInv that a step uses, with the numbers typed.
LEMMA PlaceNumbers ==
    ASSUME PlaceInv
    PROVE  /\ total \in Nat \ {0} /\ step \in Nat /\ restarts \in Nat
           /\ Pos(loader) \in Nat /\ Pos(ckpt.loader) \in Nat /\ ckpt.step \in Nat
           /\ ckpt.actor \in Nat /\ ckpt.trained \subseteq Ids
           /\ future.id \in Ids /\ batch.id \in Ids /\ future.id \in Nat /\ batch.id \in Nat
           /\ future.version \in Nat /\ batch.version \in Nat
           /\ MaxRestarts \in Nat /\ CriticWarmup \in Nat
<1>1. InvTypes
  BY DEF PlaceInv
<1>2. total \in Nat \ {0} /\ step \in Nat /\ restarts \in Nat /\ MaxRestarts \in Nat
      /\ CriticWarmup \in Nat
  BY <1>1, OneStepOffAssumption DEF InvTypes
<1>3. Pos(loader) \in Nat /\ Pos(ckpt.loader) \in Nat
  BY <1>1, TurnedFacts DEF InvTypes
<1>4. ckpt.step \in Nat /\ ckpt.actor \in Nat /\ ckpt.trained \subseteq Ids
  BY <1>1 DEF InvTypes
<1>5. future.id \in Ids /\ batch.id \in Ids /\ future.version \in Nat /\ batch.version \in Nat
  BY <1>1 DEF InvTypes
<1>6. QED
  BY <1>2, <1>3, <1>4, <1>5 DEF Ids

\* What is_last_step is set to.
LEMMA LastFacts ==
    ASSUME total \in Nat, NEW s \in Nat
    PROVE  IsLast(s) \in BOOLEAN /\ (IsLast(s) <=> s >= total)
<1>1. (s >= total) \in BOOLEAN
  OBVIOUS
<1>2. QED
  BY <1>1 DEF IsLast

\* A new checkpoint, or the old one, is where PlaceInv has it.
LEMMA PlaceSave ==
    ASSUME PlaceInv, Save
    PROVE  PlaceInv'
<1> USE PlaceNumbers
<1>1. InvTypes /\ CkptPlace /\ StepPlace /\ LoaderPlace
  BY DEF PlaceInv
<1>2. /\ pc = "save" /\ pc' = "post"
      /\ UNCHANGED <<total, step, last, loader, future, batch, actor, rollout, tested,
                     trained, restarts>>
      /\ ckpt' = Checkpoint \/ ckpt' = ckpt
  BY DEF Save
<1>3. InvTypes'
  <2>1. ckpt' \in [step : Nat, actor : Nat, loader : Loaders, trained : SUBSET Ids]
    BY <1>1, <1>2 DEF InvTypes, Checkpoint, GoodLoader
  <2>2. ckpt'.loader = loader \/ ckpt'.loader = ckpt.loader
    BY <1>2 DEF Checkpoint
  <2>3. GoodLoader(ckpt'.loader)
    BY <1>1, <2>2 DEF InvTypes
  <2>4. QED
    BY <1>1, <1>2, <2>1, <2>3 DEF InvTypes, Ids, GoodLoader
<1>4. CkptPlace'
  <2>1. CASE ckpt' = ckpt
    BY <1>1, <1>2, <2>1 DEF CkptPlace, Restoring, Pos
  <2>2. CASE ckpt' = Checkpoint
    <3>1. ckpt'.step = step /\ Pos(ckpt'.loader) = Pos(loader)
      BY <2>2 DEF Checkpoint
    <3>2. /\ step <= Pos(loader) /\ Pos(loader) <= step + restarts + 1
          /\ Pos(loader) <= total + restarts
      BY <1>1, <1>2 DEF LoaderPlace, Stepping
    <3>3. QED
      BY <1>2, <3>1, <3>2 DEF CkptPlace, Restoring, Pos
  <2>3. QED
    BY <1>2, <2>1, <2>2
<1>5. StepPlace' /\ LoaderPlace'
  BY <1>1, <1>2 DEF StepPlace, LoaderPlace, Waiting, Stepping, Underway, Pos
<1>6. QED
  BY <1>3, <1>4, <1>5 DEF PlaceInv

\* Restoring a checkpoint.
LEMMA PlaceLoad ==
    ASSUME PlaceInv, Load
    PROVE  PlaceInv'
<1> USE PlaceNumbers
<1>1. InvTypes /\ CkptPlace /\ StepPlace /\ LoaderPlace
  BY DEF PlaceInv
<1>2. /\ pc = "load" /\ pc' = "begin" /\ step' = ckpt.step /\ actor' = ckpt.actor
      /\ trained' = ckpt.trained /\ loader' = Restored(ckpt)
      /\ rollout' = Synced(ckpt.step, ckpt.actor)
      /\ UNCHANGED <<total, last, future, batch, ckpt, tested, restarts>>
  BY DEF Load
<1>3. /\ GoodLoader(loader') /\ Pos(loader') \in Nat /\ ckpt.step <= Pos(loader')
      /\ Pos(loader') <= Pos(ckpt.loader)
  <2>1. ckpt.step \in Nat /\ GoodLoader(ckpt.loader) /\ ckpt.step <= Pos(ckpt.loader)
    BY <1>1 DEF InvTypes, CkptPlace
  <2>2. QED
    BY <1>2, <2>1, RestoredFacts
<1>4. rollout' \in Nat
  BY <1>1, <1>2 DEF Synced, InvTypes
<1>5. InvTypes'
  BY <1>1, <1>2, <1>3, <1>4 DEF InvTypes, Ids, GoodLoader
<1>6. CkptPlace' /\ StepPlace' /\ LoaderPlace'
  <2>1. /\ Pos(ckpt.loader) <= ckpt.step + restarts
        /\ Pos(ckpt.loader) < total + restarts
    BY <1>1, <1>2 DEF CkptPlace, Restoring
  <2>2. CkptPlace'
    BY <1>1, <1>2 DEF CkptPlace, Restoring, Pos
  <2>3. StepPlace'
    BY <1>2, <1>3, <2>1 DEF StepPlace, Waiting, Stepping
  <2>4. LoaderPlace'
    BY <1>2, <1>3, <2>1 DEF LoaderPlace, Waiting, Stepping
  <2>5. QED
    BY <2>2, <2>3, <2>4
<1>7. QED
  BY <1>5, <1>6 DEF PlaceInv

\* The first batch of a run.
LEMMA PlaceBegin ==
    ASSUME PlaceInv, Begin
    PROVE  PlaceInv'
<1> USE PlaceNumbers
<1>1. InvTypes /\ CkptPlace /\ StepPlace /\ LoaderPlace
  BY DEF PlaceInv
<1>2. /\ pc = "begin" /\ pc' = "await" /\ step' = step + 1 /\ tested' = rollout
      /\ Launch(rollout) /\ last' = IsLast(step + 1)
      /\ UNCHANGED <<total, batch, actor, rollout, ckpt, trained, restarts>>
  BY DEF Begin
<1>a. last' \in BOOLEAN /\ (last' <=> step + 1 >= total)
  <2>1. IsLast(step + 1) \in BOOLEAN /\ (IsLast(step + 1) <=> step + 1 >= total)
    BY LastFacts
  <2>2. QED
    BY <1>2, <2>1, Zenon
<1>3. /\ Pos(loader) \in Nat /\ Pos(loader') \in Nat /\ GoodLoader(loader')
      /\ \/ /\ Exhausted(loader) /\ loader' = loader
            /\ future' = [st |-> "exhausted", id |-> 0, version |-> 0]
         \/ /\ Pos(loader') = Pos(loader) + 1
            /\ future' = [st |-> "running", id |-> Pos(loader'), version |-> rollout]
  BY <1>1, <1>2, LaunchFacts DEF InvTypes
<1>4. /\ step < total + restarts /\ step <= Pos(loader) /\ Pos(loader) <= step + restarts
      /\ Pos(loader) < total + restarts
  BY <1>1, <1>2 DEF StepPlace, LoaderPlace
<1>5. /\ future' \in [st : {"none", "running", "ready", "failed", "exhausted"},
                      id : Ids, version : Nat]
      /\ Underway' => future'.id = Pos(loader') /\ Pos(loader') = Pos(loader) + 1
      /\ Pos(loader') <= Pos(loader) + 1
  <2>1. CASE loader' = loader /\ future' = [st |-> "exhausted", id |-> 0, version |-> 0]
    BY <1>3, <2>1 DEF Ids, Underway
  <2>2. CASE /\ Pos(loader') = Pos(loader) + 1
             /\ future' = [st |-> "running", id |-> Pos(loader'), version |-> rollout]
    <3>1. Pos(loader') \in Ids /\ rollout \in Nat
      BY <1>1, <1>3, <1>4, <2>2 DEF Ids, InvTypes
    <3>2. QED
      BY <1>3, <2>2, <3>1 DEF Underway
  <2>3. QED
    BY <1>3, <2>1, <2>2
<1>6. InvTypes'
  <2>1. step' \in Nat
    BY <1>2
  <2>2. QED
    BY <1>a, <1>1, <1>2, <1>3, <1>5, <2>1 DEF InvTypes, Ids, GoodLoader
<1>7. CkptPlace'
  BY <1>1, <1>2 DEF CkptPlace, Restoring, Pos
<1>8. StepPlace'
  BY <1>2, <1>a, <1>4 DEF StepPlace, Waiting, Stepping
<1>9. LoaderPlace'
  BY <1>2, <1>3, <1>4, <1>5 DEF LoaderPlace, Waiting, Stepping
<1>10. QED
  BY <1>6, <1>7, <1>8, <1>9 DEF PlaceInv

\* The previous weights go to the servers, then the next batch.
LEMMA PlaceSync ==
    ASSUME PlaceInv, SyncAndLaunch
    PROVE  PlaceInv'
<1> USE PlaceNumbers
<1>1. InvTypes /\ CkptPlace /\ StepPlace /\ LoaderPlace
  BY DEF PlaceInv
<1>2. /\ pc = "sync" /\ pc' = "train" /\ rollout' = Synced(step, actor)
      /\ UNCHANGED <<total, step, last, batch, actor, ckpt, tested, trained, restarts>>
  BY DEF SyncAndLaunch
<1>3. /\ step <= total + restarts /\ (last <=> step >= total)
      /\ Pos(loader) <= total + restarts /\ Pos(loader) <= step + restarts
      /\ step <= Pos(loader) /\ batch.id = Pos(loader)
  BY <1>1, <1>2 DEF StepPlace, LoaderPlace, Waiting, Stepping, Underway
<1>4. rollout' \in Nat
  BY <1>1, <1>2 DEF Synced, InvTypes
<1>5. /\ GoodLoader(loader') /\ Pos(loader') \in Nat
      /\ \/ /\ loader' = loader
            /\ \/ future' = [st |-> "none", id |-> 0, version |-> 0]
               \/ future' = [st |-> "exhausted", id |-> 0, version |-> 0]
         \/ /\ Pos(loader') = Pos(loader) + 1 /\ step < total
            /\ future' = [st |-> "running", id |-> Pos(loader'), version |-> rollout']
  <2>1. CASE last
    BY <1>1, <2>1 DEF SyncAndLaunch, NoFuture, InvTypes
  <2>2. CASE ~last
    <3>1. Launch(rollout')
      BY <2>2, <1>2 DEF SyncAndLaunch
    <3>2. step < total
      BY <1>3, <2>2
    <3>3. /\ Pos(loader') \in Nat /\ GoodLoader(loader')
          /\ \/ /\ Exhausted(loader) /\ loader' = loader
                /\ future' = [st |-> "exhausted", id |-> 0, version |-> 0]
             \/ /\ Pos(loader') = Pos(loader) + 1
                /\ future' = [st |-> "running", id |-> Pos(loader'), version |-> rollout']
      BY <1>1, <3>1, LaunchFacts DEF InvTypes
    <3>4. QED
      BY <3>2, <3>3
  <2>3. QED
    BY <2>1, <2>2
<1>6. /\ future' \in [st : {"none", "running", "ready", "failed", "exhausted"},
                      id : Ids, version : Nat]
      /\ IF Underway'
         THEN /\ future'.id = Pos(loader') /\ Pos(loader') = Pos(loader) + 1
              /\ step < total
         ELSE Pos(loader') = Pos(loader)
  <2>1. CASE /\ loader' = loader
             /\ \/ future' = [st |-> "none", id |-> 0, version |-> 0]
                \/ future' = [st |-> "exhausted", id |-> 0, version |-> 0]
    BY <2>1 DEF Ids, Underway
  <2>2. CASE /\ Pos(loader') = Pos(loader) + 1 /\ step < total
             /\ future' = [st |-> "running", id |-> Pos(loader'), version |-> rollout']
    <3>1. Pos(loader') \in Ids
      BY <1>3, <1>5, <2>2 DEF Ids
    <3>2. QED
      BY <1>4, <2>2, <3>1 DEF Underway
  <2>3. QED
    BY <1>5, <2>1, <2>2
<1>7. InvTypes'
  BY <1>1, <1>2, <1>4, <1>5, <1>6 DEF InvTypes, Ids, GoodLoader
<1>8. CkptPlace'
  BY <1>1, <1>2 DEF CkptPlace, Restoring, Pos
<1>9. StepPlace'
  BY <1>1, <1>2, <1>3 DEF StepPlace, Waiting, Stepping
<1>10. LoaderPlace'
  <2>1. CASE Underway'
    BY <1>2, <1>3, <1>5, <1>6, <2>1 DEF LoaderPlace, Waiting, Stepping
  <2>2. CASE ~Underway'
    BY <1>2, <1>3, <1>5, <1>6, <2>2 DEF LoaderPlace, Waiting, Stepping
  <2>3. QED
    BY <2>1, <2>2
<1>11. QED
  BY <1>7, <1>8, <1>9, <1>10 DEF PlaceInv

\* The other steps of fit leave the loader and the checkpoint alone.
LEMMA PlaceOther ==
    ASSUME PlaceInv,
           AwaitBatch \/ Train \/ Validate \/ Post \/ GenerationEnds \/ Restart
    PROVE  PlaceInv'
<1> USE PlaceNumbers
<1>1. InvTypes /\ CkptPlace /\ StepPlace /\ LoaderPlace
  BY DEF PlaceInv
<1>2. CASE AwaitBatch
  <2>1. /\ pc = "await" /\ future.st \notin {"none", "running"}
        /\ UNCHANGED <<total, step, last, loader, future, actor, rollout, ckpt, tested,
                       trained, restarts>>
        /\ \/ /\ future.st \notin {"failed", "exhausted"}
              /\ batch' = [id |-> future.id, version |-> future.version]
              /\ pc' = "sync"
           \/ pc' = "raised" /\ batch' = batch
    BY <1>2 DEF AwaitBatch, Arrived
  <2>2. batch' \in [id : Ids, version : Nat]
    BY <1>1, <2>1 DEF InvTypes
  <2>3. InvTypes'
    BY <1>1, <2>1, <2>2 DEF InvTypes, Ids, GoodLoader
  <2>4. CkptPlace' /\ StepPlace'
    BY <1>1, <2>1 DEF CkptPlace, StepPlace, Restoring, Waiting, Stepping, Pos
  <2>5. LoaderPlace'
    <3>1. CASE pc' = "raised" /\ batch' = batch
      BY <1>1, <2>1, <3>1 DEF LoaderPlace, Waiting, Stepping, Underway, Pos
    <3>2. CASE /\ future.st \notin {"failed", "exhausted"}
               /\ batch' = [id |-> future.id, version |-> future.version]
               /\ pc' = "sync"
      <4>1. future.st = "ready"
        BY <1>1, <2>1, <3>2 DEF InvTypes
      <4>2. batch'.id = future.id
        BY <3>2
      <4>3. QED
        BY <1>1, <2>1, <3>2, <4>1, <4>2 DEF LoaderPlace, Waiting, Stepping, Underway, Pos
    <3>3. QED
      BY <2>1, <3>1, <3>2
  <2>6. QED
    BY <2>3, <2>4, <2>5 DEF PlaceInv
<1>3. CASE Train
  <2>1. /\ pc = "train" /\ pc' = "validate"
        /\ actor' = IF UpdatesAt(step) THEN actor + 1 ELSE actor
        /\ trained' = trained \cup {batch.id}
        /\ UNCHANGED <<total, step, last, loader, future, batch, rollout, ckpt, tested,
                       restarts>>
    BY <1>3 DEF Train
  <2>2. actor' \in Nat /\ trained' \subseteq Ids
    BY <1>1, <2>1 DEF InvTypes
  <2>3. InvTypes'
    BY <1>1, <2>1, <2>2 DEF InvTypes, Ids, GoodLoader
  <2>4. CkptPlace' /\ StepPlace' /\ LoaderPlace'
    BY <1>1, <2>1
    DEF CkptPlace, StepPlace, LoaderPlace, Restoring, Waiting, Stepping, Underway, Pos
  <2>5. QED
    BY <2>3, <2>4 DEF PlaceInv
<1>4. CASE Validate
  <2>1. /\ pc = "validate" /\ pc' = "save" /\ tested' \in {rollout, tested}
        /\ UNCHANGED <<total, step, last, loader, future, batch, actor, rollout, ckpt,
                       trained, restarts>>
    BY <1>4 DEF Validate
  <2>2. InvTypes'
    BY <1>1, <2>1 DEF InvTypes, Ids, GoodLoader
  <2>3. CkptPlace' /\ StepPlace' /\ LoaderPlace'
    BY <1>1, <2>1
    DEF CkptPlace, StepPlace, LoaderPlace, Restoring, Waiting, Stepping, Underway, Pos
  <2>4. QED
    BY <2>2, <2>3 DEF PlaceInv
<1>5. CASE Post
  <2>1. /\ pc = "post" /\ step' = step + 1 /\ last' = (last \/ IsLast(step + 1))
        /\ pc' = IF last THEN "finished" ELSE "await"
        /\ UNCHANGED <<total, loader, future, batch, actor, rollout, ckpt, tested, trained,
                       restarts>>
    BY <1>5 DEF Post
  <2>2. IsLast(step + 1) \in BOOLEAN /\ (IsLast(step + 1) <=> step + 1 >= total)
    BY LastFacts
  <2>3. last' \in BOOLEAN /\ (last' <=> last \/ step + 1 >= total)
    BY <2>1, <2>2, Zenon
  <2>4. pc' \in {"finished", "await"} /\ step' \in Nat
    BY <2>1
  <2>5. InvTypes'
    BY <1>1, <2>1, <2>3, <2>4 DEF InvTypes, Ids, GoodLoader
  <2>6. CkptPlace'
    BY <1>1, <2>1, <2>4 DEF CkptPlace, Restoring, Pos
  <2>7. step <= total + restarts /\ (last <=> step >= total)
    BY <1>1, <2>1 DEF StepPlace, Stepping
  <2>8. CASE last
    <3>1. pc' = "finished"
      BY <2>1, <2>8
    <3>2. StepPlace'
      BY <2>1, <2>7, <3>1 DEF StepPlace, Waiting, Stepping
    <3>3. LoaderPlace'
      BY <1>1, <2>1, <3>1 DEF LoaderPlace, Waiting, Stepping, Pos
    <3>4. QED
      BY <2>5, <2>6, <3>2, <3>3 DEF PlaceInv
  <2>9. CASE ~last
    <3>1. pc' = "await" /\ step < total
      BY <2>1, <2>7, <2>9
    <3>2. StepPlace'
      BY <2>1, <2>3, <2>7, <2>9, <3>1 DEF StepPlace, Waiting, Stepping
    <3>3. LoaderPlace'
      <4>1. /\ Pos(loader') = Pos(loader) /\ Pos(loader) <= step + restarts + 1
            /\ Pos(loader) <= total + restarts
            /\ Underway' => step + 1 <= Pos(loader) /\ future'.id = Pos(loader)
        BY <1>1, <2>1 DEF LoaderPlace, Stepping, Underway, Pos
      <4>2. QED
        BY <2>1, <3>1, <4>1 DEF LoaderPlace, Waiting, Stepping
    <3>4. QED
      BY <2>5, <2>6, <3>2, <3>3 DEF PlaceInv
  <2>10. QED
    BY <2>8, <2>9
<1>6. CASE GenerationEnds
  <2>1. /\ UNCHANGED <<total, pc, step, last, loader, batch, actor, rollout, ckpt, tested,
                       trained, restarts>>
        /\ future.st = "running"
        /\ \/ future' = [future EXCEPT !.st = "ready"]
           \/ future' = [future EXCEPT !.st = "failed"]
    BY <1>6 DEF GenerationEnds
  <2>2. /\ future' \in [st : {"none", "running", "ready", "failed", "exhausted"},
                        id : Ids, version : Nat]
        /\ future'.id = future.id
    BY <1>1, <2>1 DEF InvTypes
  <2>3. InvTypes'
    BY <1>1, <2>1, <2>2 DEF InvTypes, Ids, GoodLoader
  <2>4. CkptPlace' /\ StepPlace'
    BY <1>1, <2>1 DEF CkptPlace, StepPlace, Restoring, Waiting, Stepping, Pos
  <2>5. Underway /\ Underway' /\ pc # "sync"
    BY <1>1, <2>1, <2>2 DEF Underway, LoaderPlace, InvTypes
  <2>6. LoaderPlace'
    BY <1>1, <2>1, <2>2, <2>5 DEF LoaderPlace, Waiting, Stepping, Pos
  <2>7. QED
    BY <2>3, <2>4, <2>6 DEF PlaceInv
<1>7. CASE Restart
  <2>1. /\ pc # "load" /\ restarts < MaxRestarts /\ restarts' = restarts + 1
        /\ pc' = "load" /\ rollout' = 0 /\ last' = FALSE
        /\ future' = [st |-> "none", id |-> 0, version |-> 0]
        /\ batch' = [id |-> 0, version |-> 0]
        /\ UNCHANGED <<total, step, loader, actor, ckpt, tested, trained>>
    BY <1>7 DEF Restart, NoFuture, NoBatch
  <2>2. Ids \subseteq Ids' /\ 0 \in Ids'
    BY <2>1 DEF Ids
  <2>3. InvTypes'
    <3>1. /\ future' \in [st : {"none", "running", "ready", "failed", "exhausted"},
                          id : Ids', version : Nat]
          /\ batch' \in [id : Ids', version : Nat]
      BY <2>1, <2>2
    <3>2. ckpt' \in [step : Nat, actor : Nat, loader : Loaders, trained : SUBSET Ids']
      BY <1>1, <2>1, <2>2 DEF InvTypes
    <3>3. restarts' \in 0..MaxRestarts /\ rollout' \in Nat
      BY <2>1
    <3>a. last' \in BOOLEAN
      BY <2>1, Zenon
    <3>4. trained' \subseteq Ids'
      BY <1>1, <2>1, <2>2 DEF InvTypes
    <3>5. QED
      BY <1>1, <2>1, <3>1, <3>2, <3>3, <3>a, <3>4 DEF InvTypes, GoodLoader
  <2>4. CkptPlace'
    BY <1>1, <2>1 DEF CkptPlace, Restoring, Pos
  <2>5. StepPlace' /\ LoaderPlace'
    BY <1>1, <2>1 DEF StepPlace, LoaderPlace, Waiting, Stepping
  <2>6. QED
    BY <2>3, <2>4, <2>5 DEF PlaceInv
<1>8. QED
  BY <1>2, <1>3, <1>4, <1>5, <1>6, <1>7

\* Every step keeps types and places.
LEMMA PlaceStep ==
    ASSUME PlaceInv, [Next]_vars
    PROVE  PlaceInv'
<1>1. CASE Next
  BY <1>1, PlaceLoad, PlaceBegin, PlaceSync, PlaceSave, PlaceOther DEF Next, Fit
<1>2. CASE UNCHANGED vars
  <2>1. InvTypes' /\ CkptPlace' /\ StepPlace' /\ LoaderPlace'
    BY <1>2 DEF PlaceInv, InvTypes, CkptPlace, StepPlace, LoaderPlace, Ids, GoodLoader,
                Restoring, Waiting, Stepping, Underway, Pos, vars
  <2>2. QED
    BY <2>1 DEF PlaceInv
<1>3. QED
  BY <1>1, <1>2

-----------------------------------------------------------------------------
(* Versions of the weights, and what is saved at the end                    *)

\* The weights the servers have after a synchronisation: those of the actor,
\* which before critic_warmup are the first ones.
LEMMA SyncedFacts ==
    ASSUME NEW s \in Nat, NEW v \in Nat, rollout \in Nat, CriticWarmup \in Nat,
           v > 0 => CriticWarmup <= s, rollout <= v
    PROVE  Synced(s, v) = v
  BY DEF Synced, UpdatesAt

\* The initial state satisfies both.
LEMMA VersionInit == Init => VersionInv /\ EndInv
  BY EmptyFacts
  DEF Init, VersionInv, EndInv, FinishedSaved, Waiting, Stepping

\* Every step keeps the versions in flight recent.
LEMMA VersionStep ==
    ASSUME PlaceInv, VersionInv, [Next]_vars
    PROVE  VersionInv'
<1> USE PlaceNumbers
<1>0. /\ actor \in Nat /\ rollout \in Nat /\ tested \in Nat
      /\ GoodLoader(loader)
  BY DEF PlaceInv, InvTypes
<1>1. CASE Load
  <2>1. /\ pc = "load" /\ pc' = "begin" /\ step' = ckpt.step /\ actor' = ckpt.actor
        /\ rollout' = Synced(ckpt.step, ckpt.actor) /\ ckpt' = ckpt
    BY <1>1 DEF Load
  <2>2. Synced(ckpt.step, ckpt.actor) = ckpt.actor
    BY <1>0, <2>1, SyncedFacts DEF VersionInv
  <2>3. QED
    BY <2>1, <2>2 DEF VersionInv, Waiting, Stepping
<1>2. CASE Begin
  <2>1. /\ pc = "begin" /\ pc' = "await" /\ step' = step + 1 /\ Launch(rollout)
        /\ actor' = actor /\ rollout' = rollout /\ ckpt' = ckpt
    BY <1>2 DEF Begin
  <2>2. Underway' => future'.version = rollout
    BY <1>0, <2>1, LaunchFacts DEF Underway
  <2>3. QED
    BY <1>0, <2>1, <2>2 DEF VersionInv, Waiting, Stepping, Recent
<1>3. CASE AwaitBatch
  <2>1. /\ pc = "await" /\ pc' \in {"sync", "raised"}
        /\ UNCHANGED <<step, future, actor, rollout, ckpt>>
        /\ pc' = "sync" => future.st = "ready" /\ batch'.version = future.version
    BY <1>3 DEF AwaitBatch, Arrived, PlaceInv, InvTypes
  <2>2. QED
    BY <1>0, <2>1 DEF VersionInv, Waiting, Stepping, Recent, Underway
<1>4. CASE SyncAndLaunch
  <2>1. /\ pc = "sync" /\ pc' = "train" /\ rollout' = Synced(step, actor)
        /\ UNCHANGED <<step, batch, actor, ckpt>>
        /\ future' = NoFuture \/ Launch(Synced(step, actor))
    BY <1>4 DEF SyncAndLaunch
  <2>2. Synced(step, actor) = actor
    BY <1>0, <2>1, SyncedFacts DEF VersionInv, Waiting, Recent
  <2>3. Underway' => future'.version = actor
    <3>1. CASE future' = NoFuture
      BY <3>1 DEF Underway, NoFuture
    <3>2. CASE Launch(actor)
      BY <1>0, <3>2, LaunchFacts DEF Underway
    <3>3. QED
      BY <2>1, <2>2, <3>1, <3>2
  <2>4. QED
    BY <1>0, <2>1, <2>2, <2>3 DEF VersionInv, Waiting, Stepping, Recent
<1>5. CASE Train
  <2>1. /\ pc = "train" /\ pc' = "validate"
        /\ UNCHANGED <<step, future, batch, rollout, ckpt>>
        /\ actor' = IF CriticWarmup <= step THEN actor + 1 ELSE actor
    BY <1>5 DEF Train, UpdatesAt
  <2>2. CASE CriticWarmup <= step
    BY <1>0, <2>1, <2>2 DEF VersionInv, Waiting, Stepping, Recent, Underway
  <2>3. CASE ~(CriticWarmup <= step)
    BY <1>0, <2>1, <2>3 DEF VersionInv, Waiting, Stepping, Recent, Underway
  <2>4. QED
    BY <2>2, <2>3
<1>6. CASE Validate
  <2>1. /\ pc = "validate" /\ pc' = "save"
        /\ UNCHANGED <<step, future, batch, actor, rollout, ckpt>>
    BY <1>6 DEF Validate
  <2>2. QED
    BY <1>0, <2>1 DEF VersionInv, Waiting, Stepping, Recent, Underway
<1>7. CASE Save
  <2>1. /\ pc = "save" /\ pc' = "post"
        /\ UNCHANGED <<step, future, batch, actor, rollout>>
        /\ \/ ckpt'.actor = actor /\ ckpt'.step = step
           \/ ckpt' = ckpt
    BY <1>7 DEF Save, Checkpoint
  <2>2. QED
    BY <1>0, <2>1 DEF VersionInv, Waiting, Stepping, Recent, Underway
<1>8. CASE Post
  <2>1. /\ pc = "post" /\ pc' \in {"finished", "await"} /\ step' = step + 1
        /\ UNCHANGED <<future, batch, actor, rollout, ckpt>>
    BY <1>8 DEF Post
  <2>2. QED
    BY <1>0, <2>1 DEF VersionInv, Waiting, Stepping, Recent, Underway
<1>9. CASE GenerationEnds
  <2>1. /\ UNCHANGED <<pc, step, batch, actor, rollout, ckpt>> /\ Underway
    BY <1>9 DEF GenerationEnds, Underway
  <2>2. future'.version = future.version
    BY <1>9 DEF GenerationEnds, PlaceInv, InvTypes
  <2>3. QED
    BY <1>0, <2>1, <2>2 DEF VersionInv, Waiting, Stepping, Recent
<1>10. CASE Restart
  <2>1. pc' = "load" /\ rollout' = 0 /\ ckpt' = ckpt
    BY <1>10 DEF Restart
  <2>2. QED
    BY <2>1 DEF VersionInv, Waiting, Stepping
<1>11. CASE UNCHANGED vars
  BY <1>11 DEF vars, VersionInv, Waiting, Stepping, Recent, Underway
<1>12. QED
  BY <1>1, <1>2, <1>3, <1>4, <1>5, <1>6, <1>7, <1>8, <1>9, <1>10, <1>11 DEF Next, Fit

\* Every step keeps what the last step has tested and saved.
LEMMA EndStep ==
    ASSUME PlaceInv, VersionInv, EndInv, [Next]_vars
    PROVE  EndInv'
<1>0. actor \in Nat /\ rollout \in Nat /\ tested \in Nat
  BY DEF PlaceInv, InvTypes
<1>1. CASE Validate
  <2>1. /\ pc = "validate" /\ pc' = "save" /\ UNCHANGED <<last, actor>>
        /\ last => tested' = rollout
    BY <1>1 DEF Validate
  <2>2. rollout >= actor - 1
    BY <1>0, <2>1 DEF VersionInv, Stepping, Recent
  <2>3. QED
    BY <2>1, <2>2 DEF EndInv, FinishedSaved
<1>2. CASE Save
  <2>1. /\ pc = "save" /\ pc' = "post" /\ UNCHANGED <<last, actor, tested>>
        /\ last => ckpt'.actor = actor
    BY <1>2 DEF Save, SaveDue, Checkpoint
  <2>2. QED
    BY <2>1 DEF EndInv, FinishedSaved
<1>3. CASE Post
  <2>1. /\ pc = "post" /\ UNCHANGED <<actor, tested, ckpt>>
        /\ pc' = IF last THEN "finished" ELSE "await"
    BY <1>3 DEF Post
  <2>2. QED
    BY <2>1 DEF EndInv, FinishedSaved
<1>4. CASE Load \/ Begin \/ AwaitBatch \/ SyncAndLaunch \/ Train \/ Restart
  <2>1. pc' \notin {"save", "post", "finished"}
    BY <1>4 DEF Load, Begin, AwaitBatch, SyncAndLaunch, Train, Restart
  <2>2. QED
    BY <2>1 DEF EndInv, FinishedSaved
<1>5. CASE GenerationEnds \/ UNCHANGED vars
  <2>1. UNCHANGED <<pc, last, actor, tested, ckpt>>
    BY <1>5 DEF GenerationEnds, vars
  <2>2. QED
    BY <2>1 DEF EndInv, FinishedSaved
<1>6. QED
  BY <1>1, <1>2, <1>3, <1>4, <1>5 DEF Next, Fit

\* What the runs check, from the invariants.
LEMMA OffPolicyFromInv == PlaceInv /\ VersionInv => OffPolicyInv
<1> SUFFICES ASSUME PlaceInv, VersionInv PROVE OffPolicyInv
  OBVIOUS
<1> USE PlaceNumbers
<1>1. InvTypes /\ StepPlace /\ LoaderPlace
  BY DEF PlaceInv
<1>2. Ids \subseteq Batches
  BY <1>1 DEF InvTypes, Ids, Batches
<1>3. TypeOK
  <2>1. step \in 0..total + restarts + 1
    BY <1>1 DEF StepPlace
  <2>2. loader.at \in 0..StepsPerEpoch /\ loader.pass \in 1..TotalEpochs
    BY <1>1 DEF InvTypes, GoodLoader, Loaders
  <2>3. /\ future \in [st : {"none", "running", "ready", "failed", "exhausted"},
                       id : Batches, version : Nat]
        /\ batch \in [id : Batches, version : Nat]
        /\ trained \subseteq Batches /\ ckpt.trained \subseteq Batches
    BY <1>1, <1>2 DEF InvTypes
  <2>4. QED
    BY <1>1, <2>1, <2>2, <2>3 DEF TypeOK, InvTypes
<1>4. SyncQuiet
  BY <1>1 DEF LoaderPlace, SyncQuiet
<1>5. AtMostOneStepOff
  BY DEF VersionInv, AtMostOneStepOff, Recent
<1>6. QED
  BY <1>3, <1>4, <1>5 DEF OffPolicyInv

\* For every data set, warm-up, frequency and number of restarts: the servers
\* do not generate when their weights change, and a batch is learned from with
\* the weights that generated it or the ones after them.
THEOREM OffPolicyByOne == Spec => []OffPolicyInv
<1>1. Init => PlaceInv /\ VersionInv
  BY PlaceInit, VersionInit
<1>2. PlaceInv /\ VersionInv /\ [Next]_vars => (PlaceInv /\ VersionInv)'
  BY PlaceStep, VersionStep
<1>3. PlaceInv /\ VersionInv => OffPolicyInv
  BY OffPolicyFromInv
<1>4. QED
  BY <1>1, <1>2, <1>3, PTL DEF Spec

-----------------------------------------------------------------------------
(* Which batches were learned from                                          *)

\* The batches left out are finitely many, more of them the further one looks
\* and the fewer were learned from.
LEMMA GapMono ==
    ASSUME NEW m \in Int, NEW n \in Int, m <= n, NEW T, NEW U, T \subseteq U
    PROVE  /\ Cardinality(Gap(m, U)) \in Nat /\ Cardinality(Gap(n, T)) \in Nat
           /\ Cardinality(Gap(m, U)) <= Cardinality(Gap(n, T))
<1>1. IsFiniteSet(1..n)
  BY FS_Interval
<1>2. Gap(n, T) \subseteq 1..n /\ Gap(m, U) \subseteq Gap(n, T)
  BY DEF Gap
<1>3. IsFiniteSet(Gap(n, T))
  BY <1>1, <1>2, FS_Subset
<1>4. IsFiniteSet(Gap(m, U)) /\ Cardinality(Gap(m, U)) <= Cardinality(Gap(n, T))
  BY <1>2, <1>3, FS_Subset
<1>5. QED
  BY <1>3, <1>4, FS_CardinalityType

\* One place further there is at most one more.
LEMMA GapNext ==
    ASSUME NEW n \in Nat, NEW T
    PROVE  Cardinality(Gap(n + 1, T)) <= Cardinality(Gap(n, T)) + 1
<1>1. IsFiniteSet(1..n)
  BY FS_Interval
<1>2. Gap(n, T) \subseteq 1..n
  BY DEF Gap
<1>3. IsFiniteSet(Gap(n, T))
  BY <1>1, <1>2, FS_Subset
<1>4. /\ IsFiniteSet(Gap(n, T) \cup {n + 1})
      /\ Cardinality(Gap(n, T) \cup {n + 1}) =
            IF n + 1 \in Gap(n, T) THEN Cardinality(Gap(n, T)) ELSE Cardinality(Gap(n, T)) + 1
  BY <1>3, FS_AddElement
<1>5. Gap(n + 1, T) \subseteq Gap(n, T) \cup {n + 1}
  BY DEF Gap
<1>6. Cardinality(Gap(n + 1, T)) <= Cardinality(Gap(n, T) \cup {n + 1})
  BY <1>4, <1>5, FS_Subset
<1>7. /\ Cardinality(Gap(n, T)) \in Nat /\ Cardinality(Gap(n, T) \cup {n + 1}) \in Nat
      /\ Cardinality(Gap(n + 1, T)) \in Nat
  <2>1. IsFiniteSet(Gap(n + 1, T))
    BY <1>4, <1>5, FS_Subset
  <2>2. QED
    BY <1>3, <1>4, <2>1, FS_CardinalityType
<1>8. QED
  BY <1>4, <1>6, <1>7

\* Learning from batch n closes its gap.
LEMMA GapLearn ==
    ASSUME NEW n \in Nat, NEW T
    PROVE  /\ Cardinality(Gap(n, T \cup {n})) <= Cardinality(Gap(n - 1, T))
           /\ Cardinality(Gap(n, T \cup {n})) \in Nat /\ Cardinality(Gap(n - 1, T)) \in Nat
<1>1. Gap(n, T \cup {n}) = Gap(n - 1, T \cup {n})
  BY DEF Gap
<1>2. QED
  BY <1>1, GapMono

\* Nothing is missing initially.
LEMMA GapInit == Init => GapInv /\ OrderInv
<1> SUFFICES ASSUME Init PROVE GapInv /\ OrderInv
  OBVIOUS
<1>1. /\ pc = "load" /\ restarts = 0 /\ Pos(ckpt.loader) = 0 /\ ckpt.trained = {}
  BY EmptyFacts DEF Init
<1>2. Gap(Pos(ckpt.loader), ckpt.trained) = {}
  BY <1>1 DEF Gap
<1>3. Cardinality(Gap(Pos(ckpt.loader), ckpt.trained)) = 0
  BY <1>2, FS_EmptySet
<1>4. QED
  BY <1>1, <1>3 DEF GapInv, OrderInv, Stepping

\* Every step keeps the gaps within the number of restarts.
LEMMA GapStep ==
    ASSUME PlaceInv, PlaceInv', GapInv, [Next]_vars
    PROVE  GapInv'
<1> USE PlaceNumbers
<1> DEFINE Size(n, T) == Cardinality(Gap(n, T))
<1>0. InvTypes /\ CkptPlace /\ LoaderPlace /\ LoaderPlace'
  BY DEF PlaceInv
<1>a. GoodLoader(loader) /\ GoodLoader(ckpt.loader)
  BY <1>0 DEF InvTypes
<1>1. CASE Load
  <2>1. /\ pc = "load" /\ pc' = "begin" /\ trained' = ckpt.trained
        /\ loader' = Restored(ckpt) /\ UNCHANGED <<ckpt, restarts>>
    BY <1>1 DEF Load
  <2>2. Pos(loader') \in Nat /\ Pos(loader') <= Pos(ckpt.loader)
    BY <1>0, <1>a, <2>1, RestoredFacts DEF CkptPlace
  <2>3. /\ Size(Pos(loader'), ckpt.trained) <= Size(Pos(ckpt.loader), ckpt.trained)
        /\ Size(Pos(loader'), ckpt.trained) \in Nat
        /\ Size(Pos(ckpt.loader), ckpt.trained) \in Nat
    BY <2>2, GapMono
  <2>4. QED
    BY <2>1, <2>3 DEF GapInv, Stepping
<1>2. CASE Begin
  <2>1. /\ pc = "begin" /\ pc' = "await" /\ Launch(rollout)
        /\ UNCHANGED <<trained, ckpt, restarts>>
    BY <1>2 DEF Begin
  <2>2. Underway' => Pos(loader') - 1 = Pos(loader)
    BY <1>a, <2>1, LaunchFacts DEF Underway
  <2>3. QED
    BY <2>1, <2>2 DEF GapInv, Stepping
<1>3. CASE AwaitBatch
  <2>1. /\ pc = "await" /\ pc' \in {"sync", "raised"}
        /\ UNCHANGED <<trained, ckpt, restarts, loader, future>>
        /\ pc' = "sync" => future.st = "ready"
    BY <1>3 DEF AwaitBatch, Arrived, PlaceInv, InvTypes
  <2>2. pc' = "sync" => batch'.id = Pos(loader)
    BY <1>0, <2>1 DEF LoaderPlace, Pos
  <2>3. QED
    BY <2>1, <2>2 DEF GapInv, Stepping, Underway
<1>4. CASE SyncAndLaunch
  <2>1. pc = "sync" /\ pc' = "train" /\ UNCHANGED <<batch, trained, ckpt, restarts>>
    BY <1>4 DEF SyncAndLaunch
  <2>2. QED
    BY <2>1 DEF GapInv, Stepping
<1>5. CASE Train
  <2>1. /\ pc = "train" /\ pc' = "validate" /\ trained' = trained \cup {batch.id}
        /\ UNCHANGED <<batch, ckpt, restarts>>
    BY <1>5 DEF Train
  <2>2. /\ Size(batch.id, trained') <= Size(batch.id - 1, trained)
        /\ Size(batch.id, trained') \in Nat /\ Size(batch.id - 1, trained) \in Nat
    BY <2>1, GapLearn
  <2>3. QED
    BY <2>1, <2>2 DEF GapInv, Stepping
<1>6. CASE Validate
  <2>1. pc = "validate" /\ pc' = "save" /\ UNCHANGED <<batch, trained, ckpt, restarts>>
    BY <1>6 DEF Validate
  <2>2. QED
    BY <2>1 DEF GapInv, Stepping
<1>7. CASE Save
  <2>1. /\ pc = "save" /\ pc' = "post" /\ UNCHANGED <<batch, trained, restarts>>
        /\ \/ ckpt'.loader = loader /\ ckpt'.trained = trained
           \/ ckpt' = ckpt
    BY <1>7 DEF Save, Checkpoint
  <2>2. Pos(loader) = batch.id \/ Pos(loader) = batch.id + 1
    BY <1>0, <2>1 DEF LoaderPlace, Stepping
  <2>3. Size(batch.id, trained) <= restarts /\ Size(batch.id, trained) \in Nat
    <3>1. Size(batch.id, trained) \in Nat
      BY GapMono, SMTT(60)
    <3>2. QED
      BY <2>1, <3>1 DEF GapInv, Stepping
  <2>4. /\ Size(batch.id + 1, trained) <= Size(batch.id, trained) + 1
        /\ Size(batch.id + 1, trained) \in Nat
    BY GapNext, GapMono
  <2>5. Size(Pos(loader), trained) <= restarts + 1
    BY <2>2, <2>3, <2>4
  <2>6. QED
    BY <2>1, <2>5 DEF GapInv, Stepping
<1>8. CASE Post
  <2>1. /\ pc = "post" /\ pc' \in {"finished", "await"}
        /\ UNCHANGED <<loader, future, batch, trained, ckpt, restarts>>
    BY <1>8 DEF Post
  <2>2. Underway => Pos(loader) - 1 = batch.id
    BY <1>0, <2>1 DEF LoaderPlace, Stepping
  <2>3. QED
    BY <2>1, <2>2 DEF GapInv, Stepping, Underway
<1>9. CASE GenerationEnds
  <2>1. /\ UNCHANGED <<pc, loader, batch, trained, ckpt, restarts>> /\ Underway
    BY <1>9 DEF GenerationEnds, Underway
  <2>2. QED
    BY <2>1 DEF GapInv, Stepping
<1>10. CASE Restart
  <2>1. pc' = "load" /\ restarts' = restarts + 1 /\ ckpt' = ckpt
    BY <1>10 DEF Restart
  <2>2. Size(Pos(ckpt.loader), ckpt.trained) \in Nat
    BY GapMono
  <2>3. QED
    BY <2>1, <2>2 DEF GapInv, Stepping
<1>11. CASE UNCHANGED vars
  BY <1>11 DEF vars, GapInv, Stepping, Underway
<1>12. QED
  BY <1>1, <1>2, <1>3, <1>4, <1>5, <1>6, <1>7, <1>8, <1>9, <1>10, <1>11 DEF Next, Fit

\* Every step keeps the order.
LEMMA OrderStep ==
    ASSUME PlaceInv, PlaceInv', OrderInv, [Next]_vars
    PROVE  OrderInv'
<1> USE PlaceNumbers
<1>0. InvTypes /\ CkptPlace /\ LoaderPlace /\ LoaderPlace'
  BY DEF PlaceInv
<1>a. GoodLoader(loader) /\ GoodLoader(ckpt.loader)
  BY <1>0 DEF InvTypes
<1>1. CASE Load
  <2>1. /\ pc = "load" /\ pc' = "begin" /\ trained' = ckpt.trained
        /\ loader' = Restored(ckpt) /\ UNCHANGED <<ckpt, restarts>>
    BY <1>1 DEF Load
  <2>2. Pos(loader') \in Nat /\ ckpt.step <= Pos(loader')
    BY <1>0, <1>a, <2>1, RestoredFacts DEF CkptPlace
  <2>3. restarts <= 1 => ckpt.trained \subseteq 0..ckpt.step
    BY <2>1 DEF OrderInv
  <2>4. 0..ckpt.step \subseteq 0..Pos(loader')
    BY <2>2
  <2>5. QED
    BY <2>1, <2>3, <2>4 DEF OrderInv, Stepping
<1>2. CASE Begin
  <2>1. /\ pc = "begin" /\ pc' = "await" /\ Launch(rollout)
        /\ UNCHANGED <<trained, ckpt, restarts>>
    BY <1>2 DEF Begin
  <2>2. Underway' => Pos(loader') - 1 = Pos(loader)
    BY <1>a, <2>1, LaunchFacts DEF Underway
  <2>3. QED
    BY <2>1, <2>2 DEF OrderInv, Stepping
<1>3. CASE AwaitBatch
  <2>1. /\ pc = "await" /\ pc' \in {"sync", "raised"}
        /\ UNCHANGED <<trained, ckpt, restarts, loader, future>>
        /\ pc' = "sync" => future.st = "ready"
    BY <1>3 DEF AwaitBatch, Arrived, PlaceInv, InvTypes
  <2>2. pc' = "sync" => batch'.id = Pos(loader)
    BY <1>0, <2>1 DEF LoaderPlace, Pos
  <2>3. QED
    BY <2>1, <2>2 DEF OrderInv, Stepping, Underway
<1>4. CASE SyncAndLaunch
  <2>1. pc = "sync" /\ pc' = "train" /\ UNCHANGED <<batch, trained, ckpt, restarts>>
    BY <1>4 DEF SyncAndLaunch
  <2>2. QED
    BY <2>1 DEF OrderInv, Stepping
<1>5. CASE Train
  <2>1. /\ pc = "train" /\ pc' = "validate" /\ trained' = trained \cup {batch.id}
        /\ UNCHANGED <<batch, ckpt, restarts>>
    BY <1>5 DEF Train
  <2>2. restarts <= 1 => trained \subseteq 0..(batch.id - 1)
    BY <2>1 DEF OrderInv
  <2>3. restarts <= 1 => trained' \subseteq 0..batch.id
    BY <2>1, <2>2
  <2>4. QED
    BY <2>1, <2>3 DEF OrderInv, Stepping
<1>6. CASE Validate
  <2>1. pc = "validate" /\ pc' = "save" /\ UNCHANGED <<batch, trained, ckpt, restarts>>
    BY <1>6 DEF Validate
  <2>2. QED
    BY <2>1 DEF OrderInv, Stepping
<1>7. CASE Save
  <2>1. /\ pc = "save" /\ pc' = "post" /\ UNCHANGED <<batch, trained, restarts, step>>
        /\ \/ ckpt'.step = step /\ ckpt'.trained = trained
           \/ ckpt' = ckpt
    BY <1>7 DEF Save, Checkpoint
  <2>2. restarts = 0 => batch.id <= step
    BY <1>0, <2>1 DEF LoaderPlace, Stepping
  <2>3. restarts = 0 => trained \subseteq 0..batch.id
    BY <2>1 DEF OrderInv, Stepping
  <2>4. restarts = 0 => trained \subseteq 0..step
    BY <2>2, <2>3
  <2>5. QED
    BY <2>1, <2>4 DEF OrderInv, Stepping
<1>8. CASE Post
  <2>1. /\ pc = "post" /\ pc' \in {"finished", "await"}
        /\ UNCHANGED <<loader, future, batch, trained, ckpt, restarts>>
    BY <1>8 DEF Post
  <2>2. Underway => Pos(loader) - 1 = batch.id
    BY <1>0, <2>1 DEF LoaderPlace, Stepping
  <2>3. QED
    BY <2>1, <2>2 DEF OrderInv, Stepping, Underway
<1>9. CASE GenerationEnds
  <2>1. /\ UNCHANGED <<pc, loader, batch, trained, ckpt, restarts>> /\ Underway
    BY <1>9 DEF GenerationEnds, Underway
  <2>2. QED
    BY <2>1 DEF OrderInv, Stepping
<1>10. CASE Restart
  <2>1. pc' = "load" /\ restarts' = restarts + 1 /\ ckpt' = ckpt
    BY <1>10 DEF Restart
  <2>2. QED
    BY <2>1 DEF OrderInv, Stepping
<1>11. CASE UNCHANGED vars
  BY <1>11 DEF vars, OrderInv, Stepping, Underway
<1>12. QED
  BY <1>1, <1>2, <1>3, <1>4, <1>5, <1>6, <1>7, <1>8, <1>9, <1>10, <1>11 DEF Next, Fit

-----------------------------------------------------------------------------
(* How many batches were learned from, and whether the data suffices        *)

\* The batches trained on can be counted.
LEMMA TrainedFinite ==
    ASSUME PlaceInv
    PROVE  /\ IsFiniteSet(trained) /\ Cardinality(trained) \in Nat
           /\ IsFiniteSet(ckpt.trained) /\ Cardinality(ckpt.trained) \in Nat
<1> USE PlaceNumbers
<1>1. IsFiniteSet(0..(total + restarts))
  BY FS_Interval
<1>2. trained \subseteq 0..(total + restarts) /\ ckpt.trained \subseteq 0..(total + restarts)
  BY DEF PlaceInv, InvTypes, Ids
<1>3. IsFiniteSet(trained) /\ IsFiniteSet(ckpt.trained)
  BY <1>1, <1>2, FS_Subset
<1>4. QED
  BY <1>3, FS_CardinalityType

\* A set with fewer than n members leaves out one of the first n batches.
LEMMA SomeLeftOut ==
    ASSUME NEW n \in Nat, NEW T, IsFiniteSet(T), Cardinality(T) < n
    PROVE  \E b \in 1..n : b \notin T
<1> SUFFICES ASSUME \A b \in 1..n : b \in T PROVE FALSE
  OBVIOUS
<1>1. 1..n \subseteq T
  OBVIOUS
<1>2. Cardinality(1..n) = IF 1 > n THEN 0 ELSE n - 1 + 1
  BY FS_Interval
<1>3. Cardinality(1..n) <= Cardinality(T) /\ Cardinality(T) \in Nat
  BY <1>1, FS_Subset, FS_CardinalityType
<1>4. QED
  BY <1>2, <1>3

\* Nothing is counted initially.
LEMMA CountInit == Init => CountInv
<1> SUFFICES ASSUME Init PROVE CountInv
  OBVIOUS
<1>1. /\ pc = "load" /\ ckpt.trained = {} /\ ckpt.step = 0 /\ batch.id = 0
      /\ future.st = "none"
  BY EmptyFacts DEF Init
<1>2. Cardinality(ckpt.trained) = 0
  BY <1>1, FS_EmptySet
<1>3. QED
  BY <1>1, <1>2 DEF CountInv, DataSuffices, Waiting, Stepping

\* The first launch of a run finds no data only if a batch was skipped: a
\* restored loader is past the last step of an epoch, or at its place in one.
LEMMA BeginHasData ==
    ASSUME PlaceInv, CountInv, pc = "begin", Exhausted(loader)
    PROVE  \E b \in 1..(loader.done + loader.at) : b \notin trained \cup {batch.id}
<1> USE PlaceNumbers
<1>0. /\ GoodLoader(loader) /\ StepsPerEpoch \in Nat \ {0}
      /\ IsFiniteSet(trained) /\ Cardinality(trained) \in Nat
  BY TrainedFinite, OneStepOffAssumption DEF PlaceInv, InvTypes
<1>1. /\ Cardinality(trained) <= step /\ batch.id = 0 /\ step = ckpt.step
      /\ loader = Restored(ckpt) /\ step <= Pos(loader)
  BY DEF CountInv, Restoring, PlaceInv, LoaderPlace
<1>2. Pos(loader) % StepsPerEpoch = 0
  BY <1>0, ExhaustedFacts
<1>3. Pos(loader) # step
  <2> SUFFICES ASSUME Pos(loader) = step PROVE FALSE
    OBVIOUS
  <2>1. AtEpochBoundary(ckpt)
    BY <1>1, <1>2 DEF AtEpochBoundary
  <2>2. loader = [at |-> 0, pass |-> 1, done |-> ckpt.step]
    BY <1>1, <2>1 DEF Restored
  <2>3. loader.at = 0 /\ loader.at # StepsPerEpoch
    BY <1>0, <2>2
  <2>4. Turned(loader) = loader
    BY <2>3, Zenon DEF Turned
  <2>5. QED
    BY <2>3, <2>4 DEF Exhausted
<1>4. Cardinality(trained) < Pos(loader)
  BY <1>0, <1>1, <1>3
<1>5. PICK b \in 1..Pos(loader) : b \notin trained
  BY <1>0, <1>4, SomeLeftOut
<1>6. b # 0
  BY <1>5
<1>7. QED
  BY <1>1, <1>5, <1>6 DEF Pos

\* So does a later launch, when the data set is as large as the steps asked for.
LEMMA LaunchHasData ==
    ASSUME PlaceInv, CountInv, pc = "sync", ~last, Exhausted(loader),
           ~(total > StepsPerEpoch * TotalEpochs)
    PROVE  \E b \in 1..(loader.done + loader.at) : b \notin trained \cup {batch.id}
<1> USE PlaceNumbers
<1>0. /\ GoodLoader(loader) /\ IsFiniteSet(trained) /\ Cardinality(trained) \in Nat
  BY TrainedFinite DEF PlaceInv, InvTypes
<1>1. Cardinality(trained) <= step - 1 /\ step < total
  BY DEF CountInv, Waiting, PlaceInv, StepPlace
<1>2. Pos(loader) >= StepsPerEpoch * TotalEpochs /\ StepsPerEpoch * TotalEpochs \in Int
  BY <1>0, ExhaustedFacts, OneStepOffAssumption
<1>3. step < Pos(loader)
  BY <1>1, <1>2
<1>4. /\ IsFiniteSet(trained \cup {batch.id})
      /\ Cardinality(trained \cup {batch.id}) =
            IF batch.id \in trained THEN Cardinality(trained) ELSE Cardinality(trained) + 1
  BY <1>0, FS_AddElement
<1>5. Cardinality(trained \cup {batch.id}) < Pos(loader)
  BY <1>0, <1>1, <1>3, <1>4
<1>6. \E b \in 1..Pos(loader) : b \notin trained \cup {batch.id}
  BY <1>4, <1>5, SomeLeftOut
<1>7. QED
  BY <1>6 DEF Pos

\* Every step keeps the number of batches within the number of steps.
LEMMA CountStep ==
    ASSUME PlaceInv, PlaceInv', CountInv, [Next]_vars
    PROVE  CountInv'
<1> USE PlaceNumbers, TrainedFinite
<1>0. GoodLoader(loader) /\ total \in Nat /\ step \in Nat
  BY DEF PlaceInv, InvTypes
<1>1. CASE Load
  <2>1. /\ pc = "load" /\ pc' = "begin" /\ step' = ckpt.step /\ trained' = ckpt.trained
        /\ loader' = Restored(ckpt) /\ UNCHANGED <<total, future, batch, ckpt>>
    BY <1>1 DEF Load
  <2>2. Restored(ckpt)' = Restored(ckpt)
    BY <2>1
  <2>3. QED
    BY <2>1, <2>2 DEF CountInv, DataSuffices, Restoring, Waiting, Stepping
<1>2. CASE Begin
  <2>1. /\ pc = "begin" /\ pc' = "await" /\ step' = step + 1 /\ Launch(rollout)
        /\ UNCHANGED <<total, batch, trained, ckpt>>
    BY <1>2 DEF Begin
  <2>2. future'.st = "exhausted" => Exhausted(loader) /\ loader' = loader
    BY <1>0, <2>1, LaunchFacts
  <2>3. DataSuffices'
    BY <2>1, <2>2, BeginHasData DEF DataSuffices
  <2>4. Cardinality(trained) <= step' - 1
    BY <2>1 DEF CountInv
  <2>5. QED
    BY <2>1, <2>3, <2>4 DEF CountInv, Restoring, Waiting, Stepping
<1>3. CASE AwaitBatch
  <2>1. /\ pc = "await" /\ pc' \in {"sync", "raised"}
        /\ UNCHANGED <<total, step, loader, future, trained, ckpt>>
        /\ batch' = batch \/ future.st # "exhausted"
    BY <1>3 DEF AwaitBatch
  <2>2. DataSuffices'
    BY <2>1 DEF CountInv, DataSuffices
  <2>3. QED
    BY <2>1, <2>2 DEF CountInv, Restoring, Waiting, Stepping
<1>4. CASE SyncAndLaunch
  <2>1. /\ pc = "sync" /\ pc' = "train" /\ UNCHANGED <<total, step, batch, trained, ckpt>>
        /\ \/ future' = NoFuture
           \/ ~last /\ Launch(Synced(step, actor))
    BY <1>4 DEF SyncAndLaunch
  <2>2. future'.st = "exhausted" => ~last /\ Exhausted(loader) /\ loader' = loader
    <3>1. CASE future' = NoFuture
      BY <3>1 DEF NoFuture
    <3>2. CASE ~last /\ Launch(Synced(step, actor))
      BY <1>0, <3>2, LaunchFacts
    <3>3. QED
      BY <2>1, <3>1, <3>2
  <2>3. DataSuffices'
    BY <2>1, <2>2, LaunchHasData DEF DataSuffices
  <2>4. QED
    BY <2>1, <2>3 DEF CountInv, Restoring, Waiting, Stepping
<1>5. CASE Train
  <2>1. /\ pc = "train" /\ pc' = "validate" /\ trained' = trained \cup {batch.id}
        /\ UNCHANGED <<total, step, loader, future, batch, ckpt>>
    BY <1>5 DEF Train
  <2>2. trained' \cup {batch'.id} = trained \cup {batch.id}
    BY <2>1
  <2>3. DataSuffices'
    BY <2>1, <2>2 DEF CountInv, DataSuffices
  <2>4. Cardinality(trained') =
            IF batch.id \in trained THEN Cardinality(trained) ELSE Cardinality(trained) + 1
    BY <2>1, FS_AddElement
  <2>5. Cardinality(trained) <= step - 1
    BY <2>1 DEF CountInv
  <2>6. Cardinality(trained') <= step
    BY <2>4, <2>5
  <2>7. QED
    BY <2>1, <2>3, <2>6 DEF CountInv, Restoring, Waiting, Stepping
<1>6. CASE Validate
  <2>1. /\ pc = "validate" /\ pc' = "save"
        /\ UNCHANGED <<total, step, loader, future, batch, trained, ckpt>>
    BY <1>6 DEF Validate
  <2>2. QED
    BY <2>1 DEF CountInv, DataSuffices, Restoring, Waiting, Stepping
<1>7. CASE Save
  <2>1. /\ pc = "save" /\ pc' = "post"
        /\ UNCHANGED <<total, step, loader, future, batch, trained>>
        /\ \/ ckpt'.trained = trained /\ ckpt'.step = step
           \/ ckpt' = ckpt
    BY <1>7 DEF Save, Checkpoint
  <2>2. QED
    BY <2>1 DEF CountInv, DataSuffices, Restoring, Waiting, Stepping
<1>8. CASE Post
  <2>1. /\ pc = "post" /\ pc' \in {"finished", "await"} /\ step' = step + 1
        /\ UNCHANGED <<total, loader, future, batch, trained, ckpt>>
    BY <1>8 DEF Post
  <2>2. Cardinality(trained) <= step' - 1
    BY <2>1 DEF CountInv, Stepping
  <2>3. QED
    BY <2>1, <2>2 DEF CountInv, DataSuffices, Restoring, Waiting, Stepping
<1>9. CASE GenerationEnds
  <2>1. /\ UNCHANGED <<total, pc, step, loader, batch, trained, ckpt>>
        /\ future.st = "running"
        /\ \/ future' = [future EXCEPT !.st = "ready"]
           \/ future' = [future EXCEPT !.st = "failed"]
    BY <1>9 DEF GenerationEnds
  <2>2. future'.st # "exhausted"
    BY <2>1 DEF PlaceInv, InvTypes
  <2>3. UNCHANGED Restored(ckpt)
    BY <2>1
  <2>4. QED
    BY <2>1, <2>2, <2>3 DEF CountInv, DataSuffices, Restoring, Waiting, Stepping
<1>10. CASE Restart
  <2>1. pc' = "load" /\ ckpt' = ckpt /\ batch'.id = 0 /\ future'.st = "none"
    BY <1>10, EmptyFacts DEF Restart
  <2>2. QED
    BY <2>1 DEF CountInv, DataSuffices, Restoring, Waiting, Stepping
<1>11. CASE UNCHANGED vars
  <2>1. UNCHANGED Restored(ckpt)
    BY <1>11 DEF vars
  <2>2. QED
    BY <1>11, <2>1 DEF vars, CountInv, DataSuffices, Restoring, Waiting, Stepping
<1>12. QED
  BY <1>1, <1>2, <1>3, <1>4, <1>5, <1>6, <1>7, <1>8, <1>9, <1>10, <1>11 DEF Next, Fit

-----------------------------------------------------------------------------
\* The inductive invariant.
RestartIInv == PlaceInv /\ VersionInv /\ EndInv /\ LearnedInv /\ CountInv

\* What the runs check, from the invariants.
LEMMA RestartCostFromInv == RestartIInv => RestartCost
<1> SUFFICES ASSUME RestartIInv PROVE RestartCost
  OBVIOUS
<1>0. PlaceInv /\ GapInv /\ OrderInv
  BY DEF RestartIInv, LearnedInv
<1> USE <1>0, PlaceNumbers
<1>1. NoBatchTwice
  <2> SUFFICES ASSUME pc = "train", restarts <= 1 PROVE batch.id \notin trained
    BY DEF NoBatchTwice
  <2>1. trained \subseteq 0..(batch.id - 1)
    BY DEF OrderInv
  <2>2. QED
    BY <2>1
<1>2. SkippedPerRestart
  <2> SUFFICES ASSUME pc = "train" PROVE Cardinality(Skipped) <= restarts
    BY DEF SkippedPerRestart
  <2>1. Skipped = Gap(batch.id, trained \cup {batch.id})
    BY DEF Skipped, Gap
  <2>2. /\ Cardinality(Skipped) <= Cardinality(Gap(batch.id - 1, trained))
        /\ Cardinality(Skipped) \in Nat /\ Cardinality(Gap(batch.id - 1, trained)) \in Nat
    BY <2>1, GapLearn
  <2>3. Cardinality(Gap(batch.id - 1, trained)) <= restarts
    BY DEF GapInv
  <2>4. QED
    BY <2>2, <2>3
<1>3. StepsBounded
  BY DEF PlaceInv, CkptPlace, StepsBounded
<1>4. DataSuffices /\ FinishedSaved
  BY DEF RestartIInv, CountInv, EndInv
<1>5. QED
  BY <1>1, <1>2, <1>3, <1>4 DEF RestartCost

\* For every data set, frequency and number of restarts: no batch is learned
\* from twice until a second restart, a restart skips one batch or adds one
\* step, the data runs out only for a reason, and the last step is saved.
THEOREM RestartsCostOneBatch == Spec => []RestartCost
<1>1. Init => RestartIInv
  BY PlaceInit, VersionInit, GapInit, CountInit DEF RestartIInv, LearnedInv
<1>2. RestartIInv /\ [Next]_vars => RestartIInv'
  BY PlaceStep, VersionStep, EndStep, GapStep, OrderStep, CountStep
  DEF RestartIInv, LearnedInv
<1>3. RestartIInv => RestartCost
  BY RestartCostFromInv
<1>4. QED
  BY <1>1, <1>2, <1>3, PTL DEF Spec
=============================================================================

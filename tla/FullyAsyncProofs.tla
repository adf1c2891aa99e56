-------------------------- MODULE FullyAsyncProofs --------------------------
(***************************************************************************)
(* Proofs about the fully asynchronous loop, for every batch size, sync    *)
(* interval, staleness threshold, number of replicas and number of         *)
(* failures, and about the message queue actor between its two halves.     *)
(***************************************************************************)
EXTENDS FullyAsync, MessageQueue, TLAPS

\* put_sample on the buffer: its length and its newest element.
LEMMA OfferFacts ==
    ASSUME NEW T, NEW q \in Seq(T), NEW cap \in Nat \ {0}, NEW x \in T
    PROVE  /\ Offer(q, cap, x) \in Seq(T)
           /\ Len(q) >= cap => Len(Offer(q, cap, x)) = Len(q)
           /\ Len(q) < cap => Len(Offer(q, cap, x)) = Len(q) + 1
           /\ Offer(q, cap, x)[Len(Offer(q, cap, x))] = x
<1>1. CASE Len(q) >= cap
  <2>1. Tail(q) \in Seq(T) /\ Len(Tail(q)) = Len(q) - 1
    BY <1>1
  <2>2. Offer(q, cap, x) = Append(Tail(q), x)
    BY <1>1 DEF Offer
  <2>3. /\ Append(Tail(q), x) \in Seq(T)
        /\ Len(Append(Tail(q), x)) = Len(q)
        /\ Append(Tail(q), x)[Len(q)] = x
    BY <1>1, <2>1
  <2>4. Len(q) \in Nat /\ ~(Len(q) < cap)
    BY <1>1
  <2>5. QED
    BY <2>2, <2>3, <2>4, Zenon
<1>2. CASE Len(q) < cap
  <2>1. Offer(q, cap, x) = Append(q, x)
    BY <1>2 DEF Offer
  <2>2. QED
    BY <1>2, <2>1
<1>3. QED
  BY <1>1, <1>2

\* Where every other element of the buffer comes from.
LEMMA OfferShifts ==
    ASSUME NEW T, NEW q \in Seq(T), NEW cap \in Nat \ {0}, NEW x \in T,
           NEW i \in Nat \ {0}
    PROVE  /\ Len(q) >= cap /\ i < Len(q) => Offer(q, cap, x)[i] = q[i + 1]
           /\ Len(q) < cap /\ i <= Len(q) => Offer(q, cap, x)[i] = q[i]
<1>1. Len(q) \in Nat
  OBVIOUS
<1>2. CASE Len(q) >= cap /\ i < Len(q)
  <2>1. /\ Tail(q) \in Seq(T)
        /\ Len(Tail(q)) = Len(q) - 1
        /\ i \in 1..Len(Tail(q)) /\ Tail(q)[i] = q[i + 1]
    BY <1>1, <1>2
  <2>2. Append(Tail(q), x)[i] = Tail(q)[i]
    BY <2>1
  <2>3. QED
    BY <1>1, <1>2, <2>1, <2>2 DEF Offer
<1>3. CASE Len(q) < cap /\ i <= Len(q)
  <2>1. Offer(q, cap, x) = Append(q, x)
    BY <1>3 DEF Offer
  <2>2. QED
    BY <1>1, <1>3, <2>1
<1>4. QED
  BY <1>2, <1>3

\* popleft: the oldest element goes, the others move up.
LEMMA TailFacts ==
    ASSUME NEW T, NEW q \in Seq(T), q # <<>>
    PROVE  /\ Len(q) >= 1
           /\ Head(q) = q[1]
           /\ Head(q) \in T
           /\ Tail(q) \in Seq(T)
           /\ Len(Tail(q)) = Len(q) - 1
           /\ \A i \in 1..Len(Tail(q)) : Tail(q)[i] = q[i + 1]
  OBVIOUS

-----------------------------------------------------------------------------
(* The inductive invariant *)

\* The finish signal has not been put yet.
Unsignalled == mainPc \in {"run", "signal"}

\* Who holds the lock where, and how far each coroutine must be.
Control ==
    /\ lock = "reset" <=> trPc \in {"resetsize", "resetwrite"}
    /\ lock = "processor" <=> procPc \in {"limitwait", "finishwait"}
    /\ mainPc # "run" => procPc \in {"done", "failed"}
    /\ Unsignalled => ~stopping
    /\ trPc \in {"get", "train"} => ~stopping
    /\ trPc \in {"reset", "resetsize", "resetwrite"}
         => localStep = 1 /\ (~stopping => got = 0)
    /\ trPc = "get" => got < RequiredSamples
    /\ trPc = "train" => got = RequiredSamples
    /\ trPc \in {"final", "stopped"} => stopping

\* max_concurrent_samples is respected, and a processor that failed took the
\* task that raised out of active_tasks.
Concurrency ==
    /\ ActiveTasks <= MaxConcurrent
    /\ procPc \in {"submit", "failed"} => ActiveTasks < MaxConcurrent
    /\ procPc = "done" => ActiveTasks = 0

\* staleness_samples misses at most one outstanding sample, in every phase of a
\* reset, and a processor about to take has room for what it takes.
Accounting ==
    /\ Unsignalled => Outstanding + ConsumedSinceReset <= staleness + 1
    /\ procPc = "take" => Outstanding + ConsumedSinceReset <= MaxRequired
    /\ trPc = "resetsize" => generating + raised <= resetActive
    /\ trPc = "resetwrite" /\ Unsignalled
         => generating + raised + Len(messages) <= resetActive + resetQueue

\* What is put after the finish signal fits behind it.
SignalRoom ==
    \A i \in 1..Len(messages) :
        messages[i].end => /\ ~Unsignalled
                        /\ generating + Len(messages) - i < MaxConcurrent

BufferBounded == Len(messages) <= MessageQueueSize

IndInv ==
    /\ TypeOK
    /\ Control
    /\ PauseOwned
    /\ Concurrency
    /\ StalenessBound
    /\ Accounting
    /\ BufferBounded
    /\ QueueLag
    /\ SignalRoom
    /\ FinishSignalKept

-----------------------------------------------------------------------------
(* Constants *)

\* set_max_required_samples: the limit covers at least one sync interval, and
\* max_concurrent_samples never exceeds it.
LEMMA ConstantFacts ==
    /\ SamplesPerSync \in Nat \ {0}
    /\ SamplesPerSync = RequiredSamples * TriggerSyncStep
    /\ MaxRequired \in Nat
    /\ MaxRequired >= SamplesPerSync
    /\ MaxConcurrent \in Nat \ {0}
    /\ MaxConcurrent <= MaxRequired
    /\ MessageQueueSize = MaxRequired
<1> DEFINE S == SamplesPerSync
<1>1. S \in Nat \ {0}
  BY FullyAsyncAssumption DEF SamplesPerSync
<1>2. S * (StalenessPercent + 100) = S * StalenessPercent + S * 100
  BY <1>1, FullyAsyncAssumption
<1>3. S * StalenessPercent \in Nat
  BY <1>1, FullyAsyncAssumption
<1>4. S * (StalenessPercent + 100) >= S * 100
  BY <1>1, <1>2, <1>3
<1> HIDE DEF S
<1>5. \A n \in Nat : n >= S * 100 => n \div 100 \in Nat /\ n \div 100 >= S
  BY <1>1
<1>6. MaxRequired \in Nat /\ MaxRequired >= S
  BY <1>1, <1>2, <1>3, <1>4, <1>5 DEF MaxRequired, S
<1>7. QED
  BY <1>1, <1>6, FullyAsyncAssumption
  DEF S, SamplesPerSync, MaxConcurrent, MessageQueueSize

\* Only a put, the finish signal and the trainer's get change the buffer.
LEMMA QueueSteps ==
    [Next]_vars => TaskPut \/ MainSignal \/ TrainerGet \/ UNCHANGED messages
  BY Zenon DEF Next, Feed, Processor, ProcCheck, ProcDecide, ProcPause,
     ProcDrain, ProcResumed, ProcTake, ProcLimitWait, ProcLimitPass, ProcSubmit,
     ProcFinishWait, ProcFinished, ProcAcquire, ProcReapAll, ProcessorStep,
     Tasks, TaskReturn, TaskRaise, Main, MainFinally, MainStop, Monitor,
     MonRound, MonReadStats, MonDecide, MonResume, MonitorStep, Trainer,
     TrainerUpdate, Reset, ResetBegin, ResetQueueSize, ResetWrite,
     TrainerFinal, queueVars, vars

-----------------------------------------------------------------------------
(* Type correctness *)

\* Every step keeps the flags (paused, running, stopping, ...) Boolean.
LEMMA FlagsStep == FlagsOK /\ [Next]_vars => FlagsOK'
<1> SUFFICES ASSUME FlagsOK, [Next]_vars PROVE FlagsOK'
  OBVIOUS
<1> USE DEF FlagsOK, queueVars, sharedVars, feedVars, procVars, taskVars,
      monVars, trainVars, resetVars
<1>1. CASE Feed
  BY <1>1, Zenon DEF Feed, Pending
<1>2. CASE ProcCheck
  BY <1>2, Zenon DEF ProcCheck, ProcessorStep
<1>3. CASE ProcDecide
  BY <1>3, Zenon DEF ProcDecide, ProcessorStep
<1>4. CASE ProcPause
  BY <1>4, Zenon DEF ProcPause, ProcessorStep
<1>5. CASE ProcDrain
  BY <1>5, Zenon DEF ProcDrain, ProcessorStep
<1>6. CASE ProcResumed
  BY <1>6, Zenon DEF ProcResumed, ProcessorStep
<1>7. CASE ProcTake
  BY <1>7, Zenon DEF ProcTake, ProcessorStep, Pending
<1>8. CASE ProcLimitWait
  BY <1>8, Zenon DEF ProcLimitWait, ProcessorStep, ProcAcquire, ProcReapAll
<1>9. CASE ProcLimitPass
  BY <1>9, Zenon DEF ProcLimitPass, ProcessorStep
<1>10. CASE ProcSubmit
  BY <1>10, Zenon DEF ProcSubmit, ProcessorStep
<1>11. CASE ProcFinishWait
  BY <1>11, Zenon DEF ProcFinishWait, ProcessorStep, ProcAcquire, ProcReapAll
<1>12. CASE ProcFinished
  BY <1>12, Zenon DEF ProcFinished, ProcessorStep
<1>13. CASE TaskPut
  BY <1>13, Zenon DEF TaskPut, TaskStep
<1>14. CASE TaskReturn
  BY <1>14, Zenon DEF TaskReturn, TaskStep
<1>15. CASE TaskRaise
  BY <1>15, Zenon DEF TaskRaise, TaskStep
<1>16. CASE MainFinally
  BY <1>16, Zenon DEF MainFinally, MainStep
<1>17. CASE MainSignal
  BY <1>17, Zenon DEF MainSignal, MainStep
<1>18. CASE MainStop
  BY <1>18, Zenon DEF MainStop, MainStep
<1>19. CASE MonRound
  BY <1>19, Zenon DEF MonRound, MonitorStep
<1>20. CASE MonReadStats
  BY <1>20, Zenon DEF MonReadStats, MonitorStep
<1>21. CASE MonDecide
  BY <1>21, Zenon DEF MonDecide, MonitorStep, RecoveryDue
<1>22. CASE MonResume
  BY <1>22, Zenon DEF MonResume, MonitorStep
<1>23. CASE TrainerGet
  BY <1>23, Zenon DEF TrainerGet, TrainerStep
<1>24. CASE TrainerUpdate
  BY <1>24, Zenon DEF TrainerUpdate, TrainerStep
<1>25. CASE ResetBegin
  BY <1>25, Zenon DEF ResetBegin, TrainerStep, ActiveTasks
<1>26. CASE ResetQueueSize
  BY <1>26, Zenon DEF ResetQueueSize, TrainerStep
<1>27. CASE ResetWrite
  BY <1>27, Zenon DEF ResetWrite, TrainerStep, ResetValue
<1>28. CASE TrainerFinal
  BY <1>28, Zenon DEF TrainerFinal, TrainerStep
<1>29. CASE UNCHANGED vars
  BY <1>29, Zenon DEF vars
<1>30. QED
  BY <1>1, <1>2, <1>3, <1>4, <1>5, <1>6, <1>7, <1>8, <1>9, <1>10, <1>11,
     <1>12, <1>13, <1>14, <1>15, <1>16, <1>17, <1>18, <1>19, <1>20, <1>21,
     <1>22, <1>23, <1>24, <1>25, <1>26, <1>27, <1>28, <1>29
  DEF Next, Processor, Tasks, Main, Monitor, Trainer, Reset


\* Every step keeps each coroutine at one of its places.
LEMMA PlacesStep == PlacesOK /\ [Next]_vars => PlacesOK'
<1> SUFFICES ASSUME PlacesOK, [Next]_vars PROVE PlacesOK'
  OBVIOUS
<1> USE DEF PlacesOK,
      queueVars, sharedVars, feedVars, procVars, taskVars,
      monVars, trainVars, resetVars
<1>1. CASE Feed
  BY <1>1 DEF Feed
<1>2. CASE ProcCheck
  BY <1>2 DEF ProcCheck, ProcessorStep
<1>3. CASE ProcDecide
  BY <1>3 DEF ProcDecide, ProcessorStep
<1>4. CASE ProcPause
  BY <1>4 DEF ProcPause, ProcessorStep
<1>5. CASE ProcDrain
  BY <1>5 DEF ProcDrain, ProcessorStep
<1>6. CASE ProcResumed
  BY <1>6 DEF ProcResumed, ProcessorStep
<1>7. CASE ProcTake
  BY <1>7 DEF ProcTake, ProcessorStep
<1>8. CASE ProcLimitWait
  BY <1>8 DEF ProcLimitWait, ProcessorStep, ProcAcquire, ProcReapAll
<1>9. CASE ProcLimitPass
  BY <1>9 DEF ProcLimitPass, ProcessorStep
<1>10. CASE ProcSubmit
  BY <1>10 DEF ProcSubmit, ProcessorStep
<1>11. CASE ProcFinishWait
  BY <1>11 DEF ProcFinishWait, ProcessorStep, ProcAcquire, ProcReapAll
<1>12. CASE ProcFinished
  BY <1>12 DEF ProcFinished, ProcessorStep
<1>13. CASE TaskPut
  BY <1>13 DEF TaskPut, TaskStep
<1>14. CASE TaskReturn
  BY <1>14 DEF TaskReturn, TaskStep
<1>15. CASE TaskRaise
  BY <1>15 DEF TaskRaise, TaskStep
<1>16. CASE MainFinally
  BY <1>16 DEF MainFinally, MainStep
<1>17. CASE MainSignal
  BY <1>17 DEF MainSignal, MainStep
<1>18. CASE MainStop
  BY <1>18 DEF MainStop, MainStep
<1>19. CASE MonRound
  BY <1>19 DEF MonRound, MonitorStep
<1>20. CASE MonReadStats
  BY <1>20 DEF MonReadStats, MonitorStep
<1>21. CASE MonDecide
  BY <1>21 DEF MonDecide, MonitorStep
<1>22. CASE MonResume
  BY <1>22 DEF MonResume, MonitorStep
<1>23. CASE TrainerGet
  BY <1>23 DEF TrainerGet, TrainerStep
<1>24. CASE TrainerUpdate
  BY <1>24 DEF TrainerUpdate, TrainerStep
<1>25. CASE ResetBegin
  BY <1>25 DEF ResetBegin, TrainerStep
<1>26. CASE ResetQueueSize
  BY <1>26 DEF ResetQueueSize, TrainerStep
<1>27. CASE ResetWrite
  BY <1>27 DEF ResetWrite, TrainerStep
<1>28. CASE TrainerFinal
  BY <1>28 DEF TrainerFinal, TrainerStep
<1>29. CASE UNCHANGED vars
  BY <1>29 DEF vars
<1>30. QED
  BY <1>1, <1>2, <1>3, <1>4, <1>5, <1>6, <1>7, <1>8, <1>9, <1>10, <1>11, <1>12, <1>13, <1>14,
     <1>15, <1>16, <1>17, <1>18, <1>19, <1>20, <1>21, <1>22, <1>23, <1>24, <1>25, <1>26, <1>27, <1>28, <1>29
  DEF Next, Processor, Tasks, Main, Monitor, Trainer, Reset

\* Every step keeps the counters natural numbers within their limits.
LEMMA CountsStep == QueueOK /\ CountsOK /\ Control /\ [Next]_vars => CountsOK'
<1> SUFFICES ASSUME QueueOK, CountsOK, Control, [Next]_vars PROVE CountsOK'
  OBVIOUS
<1>0. Len(messages) \in Nat
  BY DEF QueueOK
<1> USE FullyAsyncAssumption
<1> USE DEF CountsOK,
      queueVars, sharedVars, feedVars, procVars, taskVars,
      monVars, trainVars, resetVars
<1>1. CASE Feed
  BY <1>1 DEF Feed, Pending
<1>2. CASE ProcCheck
  BY <1>2 DEF ProcCheck, ProcessorStep
<1>3. CASE ProcDecide
  BY <1>3 DEF ProcDecide, ProcessorStep
<1>4. CASE ProcPause
  BY <1>4 DEF ProcPause, ProcessorStep
<1>5. CASE ProcDrain
  BY <1>5 DEF ProcDrain, ProcessorStep
<1>6. CASE ProcResumed
  BY <1>6 DEF ProcResumed, ProcessorStep
<1>7. CASE ProcTake
  BY <1>7 DEF ProcTake, ProcessorStep, Pending
<1>8. CASE ProcLimitWait
  BY <1>8 DEF ProcLimitWait, ProcessorStep, ProcAcquire, ProcReapAll
<1>9. CASE ProcLimitPass
  BY <1>9 DEF ProcLimitPass, ProcessorStep
<1>10. CASE ProcSubmit
  BY <1>10 DEF ProcSubmit, ProcessorStep
<1>11. CASE ProcFinishWait
  BY <1>11 DEF ProcFinishWait, ProcessorStep, ProcAcquire, ProcReapAll
<1>12. CASE ProcFinished
  BY <1>12 DEF ProcFinished, ProcessorStep
<1>13. CASE TaskPut
  BY <1>13 DEF TaskPut, TaskStep
<1>14. CASE TaskReturn
  BY <1>14 DEF TaskReturn, TaskStep
<1>15. CASE TaskRaise
  BY <1>15 DEF TaskRaise, TaskStep
<1>16. CASE MainFinally
  BY <1>16 DEF MainFinally, MainStep
<1>17. CASE MainSignal
  BY <1>17 DEF MainSignal, MainStep
<1>18. CASE MainStop
  BY <1>18 DEF MainStop, MainStep
<1>19. CASE MonRound
  BY <1>19 DEF MonRound, MonitorStep
<1>20. CASE MonReadStats
  BY <1>20 DEF MonReadStats, MonitorStep
<1>21. CASE MonDecide
  BY <1>21 DEF MonDecide, MonitorStep
<1>22. CASE MonResume
  BY <1>22 DEF MonResume, MonitorStep
<1>23. CASE TrainerGet
  BY <1>23 DEF TrainerGet, TrainerStep, BatchComplete, Control
<1>24. CASE TrainerUpdate
  BY <1>24 DEF TrainerUpdate, TrainerStep
<1>25. CASE ResetBegin
  BY <1>25 DEF ResetBegin, TrainerStep, ActiveTasks
<1>26. CASE ResetQueueSize
  BY <1>26, <1>0 DEF ResetQueueSize, TrainerStep
<1>27. CASE ResetWrite
  BY <1>27 DEF ResetWrite, TrainerStep, ResetValue
<1>28. CASE TrainerFinal
  BY <1>28 DEF TrainerFinal, TrainerStep
<1>29. CASE UNCHANGED vars
  BY <1>29 DEF vars
<1>30. QED
  BY <1>1, <1>2, <1>3, <1>4, <1>5, <1>6, <1>7, <1>8, <1>9, <1>10, <1>11, <1>12, <1>13, <1>14,
     <1>15, <1>16, <1>17, <1>18, <1>19, <1>20, <1>21, <1>22, <1>23, <1>24, <1>25, <1>26, <1>27, <1>28, <1>29
  DEF Next, Processor, Tasks, Main, Monitor, Trainer, Reset

\* Every step keeps the buffer a sequence of entries within max_queue_size.
LEMMA QueueStep == QueueOK /\ CountsOK /\ [Next]_vars => QueueOK'
<1> SUFFICES ASSUME QueueOK, CountsOK, [Next]_vars PROVE QueueOK'
  OBVIOUS
<1>1. /\ Sample(version) \in Entries
      /\ FinishSignal(version) \in Entries
  BY DEF CountsOK, Sample, FinishSignal, Entries
<1>2. MessageQueueSize \in Nat \ {0}
  BY ConstantFacts
<1>3. CASE TaskPut
  BY <1>1, <1>2, <1>3, OfferFacts DEF TaskPut, QueueOK
<1>4. CASE MainSignal
  BY <1>1, <1>2, <1>4, OfferFacts DEF MainSignal, QueueOK
<1>5. CASE TrainerGet
  BY <1>5, TailFacts DEF TrainerGet, QueueOK
<1>6. CASE UNCHANGED messages
  BY <1>6 DEF QueueOK
<1>7. QED
  BY <1>3, <1>4, <1>5, <1>6, QueueSteps

-----------------------------------------------------------------------------
(* Control, pausing and concurrency *)

\* Every step keeps the relations between places: who may hold the lock, when
\* the feed is over, and which place of the trainer goes with which step count.
LEMMA ControlStep ==
    TypeOK /\ Control /\ SignalRoom /\ [Next]_vars => Control'
<1> SUFFICES ASSUME TypeOK, Control, SignalRoom, [Next]_vars PROVE Control'
  OBVIOUS
<1> USE FullyAsyncAssumption
<1> USE DEF Control, Unsignalled, TypeOK, FlagsOK, PlacesOK, CountsOK,
      queueVars, sharedVars, feedVars, procVars, taskVars,
      monVars, trainVars, resetVars
<1>1. CASE Feed
  BY <1>1 DEF Feed
<1>2. CASE ProcCheck
  BY <1>2 DEF ProcCheck, ProcessorStep
<1>3. CASE ProcDecide
  BY <1>3 DEF ProcDecide, ProcessorStep
<1>4. CASE ProcPause
  BY <1>4 DEF ProcPause, ProcessorStep
<1>5. CASE ProcDrain
  BY <1>5 DEF ProcDrain, ProcessorStep
<1>6. CASE ProcResumed
  BY <1>6 DEF ProcResumed, ProcessorStep
<1>7. CASE ProcTake
  BY <1>7 DEF ProcTake, ProcessorStep
<1>8. CASE ProcLimitWait
  BY <1>8 DEF ProcLimitWait, ProcessorStep, ProcAcquire, ProcReapAll
<1>9. CASE ProcLimitPass
  BY <1>9 DEF ProcLimitPass, ProcessorStep
<1>10. CASE ProcSubmit
  BY <1>10 DEF ProcSubmit, ProcessorStep
<1>11. CASE ProcFinishWait
  BY <1>11 DEF ProcFinishWait, ProcessorStep, ProcAcquire, ProcReapAll
<1>12. CASE ProcFinished
  BY <1>12 DEF ProcFinished, ProcessorStep
<1>13. CASE TaskPut
  BY <1>13 DEF TaskPut, TaskStep
<1>14. CASE TaskReturn
  BY <1>14 DEF TaskReturn, TaskStep
<1>15. CASE TaskRaise
  BY <1>15 DEF TaskRaise, TaskStep
<1>16. CASE MainFinally
  BY <1>16 DEF MainFinally, MainStep, ProcessorEnded
<1>17. CASE MainSignal
  BY <1>17 DEF MainSignal, MainStep
<1>18. CASE MainStop
  BY <1>18 DEF MainStop, MainStep
<1>19. CASE MonRound
  BY <1>19 DEF MonRound, MonitorStep
<1>20. CASE MonReadStats
  BY <1>20 DEF MonReadStats, MonitorStep
<1>21. CASE MonDecide
  BY <1>21 DEF MonDecide, MonitorStep
<1>22. CASE MonResume
  BY <1>22 DEF MonResume, MonitorStep
<1>23. CASE TrainerGet
  BY <1>23 DEF TrainerGet, TrainerStep, BatchComplete, SignalRoom, QueueOK
<1>24. CASE TrainerUpdate
  BY <1>24 DEF TrainerUpdate, TrainerStep
<1>25. CASE ResetBegin
  BY <1>25 DEF ResetBegin, TrainerStep
<1>26. CASE ResetQueueSize
  BY <1>26 DEF ResetQueueSize, TrainerStep
<1>27. CASE ResetWrite
  BY <1>27 DEF ResetWrite, TrainerStep
<1>28. CASE TrainerFinal
  BY <1>28 DEF TrainerFinal, TrainerStep
<1>29. CASE UNCHANGED vars
  BY <1>29 DEF vars
<1>30. QED
  BY <1>1, <1>2, <1>3, <1>4, <1>5, <1>6, <1>7, <1>8, <1>9, <1>10, <1>11, <1>12, <1>13, <1>14,
     <1>15, <1>16, <1>17, <1>18, <1>19, <1>20, <1>21, <1>22, <1>23, <1>24, <1>25, <1>26, <1>27, <1>28, <1>29
  DEF Next, Processor, Tasks, Main, Monitor, Trainer, Reset

\* Every step keeps the ownership of the pause: only the processor sets it.
LEMMA PauseStep == Control /\ PauseOwned /\ [Next]_vars => PauseOwned'
<1> SUFFICES ASSUME Control, PauseOwned, [Next]_vars PROVE PauseOwned'
  OBVIOUS
<1> USE DEF PauseOwned,
      queueVars, sharedVars, feedVars, procVars, taskVars,
      monVars, trainVars, resetVars
<1>1. CASE Feed
  BY <1>1 DEF Feed
<1>2. CASE ProcCheck
  BY <1>2 DEF ProcCheck, ProcessorStep
<1>3. CASE ProcDecide
  BY <1>3 DEF ProcDecide, ProcessorStep
<1>4. CASE ProcPause
  BY <1>4 DEF ProcPause, ProcessorStep
<1>5. CASE ProcDrain
  BY <1>5 DEF ProcDrain, ProcessorStep
<1>6. CASE ProcResumed
  BY <1>6 DEF ProcResumed, ProcessorStep, ResumeSignalled
<1>7. CASE ProcTake
  BY <1>7 DEF ProcTake, ProcessorStep
<1>8. CASE ProcLimitWait
  BY <1>8 DEF ProcLimitWait, ProcessorStep, ProcAcquire, ProcReapAll
<1>9. CASE ProcLimitPass
  BY <1>9 DEF ProcLimitPass, ProcessorStep
<1>10. CASE ProcSubmit
  BY <1>10 DEF ProcSubmit, ProcessorStep
<1>11. CASE ProcFinishWait
  BY <1>11 DEF ProcFinishWait, ProcessorStep, ProcAcquire, ProcReapAll
<1>12. CASE ProcFinished
  BY <1>12 DEF ProcFinished, ProcessorStep
<1>13. CASE TaskPut
  BY <1>13 DEF TaskPut, TaskStep
<1>14. CASE TaskReturn
  BY <1>14 DEF TaskReturn, TaskStep
<1>15. CASE TaskRaise
  BY <1>15 DEF TaskRaise, TaskStep
<1>16. CASE MainFinally
  BY <1>16 DEF MainFinally, MainStep
<1>17. CASE MainSignal
  BY <1>17 DEF MainSignal, MainStep
<1>18. CASE MainStop
  BY <1>18 DEF MainStop, MainStep
<1>19. CASE MonRound
  BY <1>19 DEF MonRound, MonitorStep
<1>20. CASE MonReadStats
  BY <1>20 DEF MonReadStats, MonitorStep
<1>21. CASE MonDecide
  BY <1>21 DEF MonDecide, MonitorStep
<1>22. CASE MonResume
  BY <1>22 DEF MonResume, MonitorStep
<1>23. CASE TrainerGet
  BY <1>23 DEF TrainerGet, TrainerStep
<1>24. CASE TrainerUpdate
  BY <1>24 DEF TrainerUpdate, TrainerStep
<1>25. CASE ResetBegin
  BY <1>25 DEF ResetBegin, TrainerStep
<1>26. CASE ResetQueueSize
  BY <1>26 DEF ResetQueueSize, TrainerStep
<1>27. CASE ResetWrite
  BY <1>27 DEF ResetWrite, TrainerStep
<1>28. CASE TrainerFinal
  BY <1>28 DEF TrainerFinal, TrainerStep
<1>29. CASE UNCHANGED vars
  BY <1>29 DEF vars
<1>30. QED
  BY <1>1, <1>2, <1>3, <1>4, <1>5, <1>6, <1>7, <1>8, <1>9, <1>10, <1>11, <1>12, <1>13, <1>14,
     <1>15, <1>16, <1>17, <1>18, <1>19, <1>20, <1>21, <1>22, <1>23, <1>24, <1>25, <1>26, <1>27, <1>28, <1>29
  DEF Next, Processor, Tasks, Main, Monitor, Trainer, Reset

\* Every step keeps the number of active tasks within max_concurrent_samples.
LEMMA ConcurrencyStep ==
    TypeOK /\ Concurrency /\ [Next]_vars => Concurrency'
<1> SUFFICES ASSUME TypeOK, Concurrency, [Next]_vars PROVE Concurrency'
  OBVIOUS
<1>0. MaxConcurrent \in Nat \ {0}
  BY ConstantFacts
<1> USE DEF Concurrency, ActiveTasks, TypeOK, CountsOK,
      queueVars, sharedVars, feedVars, procVars, taskVars,
      monVars, trainVars, resetVars
<1>1. CASE Feed
  BY <1>1, <1>0 DEF Feed
<1>2. CASE ProcCheck
  BY <1>2, <1>0 DEF ProcCheck, ProcessorStep
<1>3. CASE ProcDecide
  BY <1>3, <1>0 DEF ProcDecide, ProcessorStep
<1>4. CASE ProcPause
  BY <1>4, <1>0 DEF ProcPause, ProcessorStep
<1>5. CASE ProcDrain
  BY <1>5, <1>0 DEF ProcDrain, ProcessorStep
<1>6. CASE ProcResumed
  BY <1>6, <1>0 DEF ProcResumed, ProcessorStep
<1>7. CASE ProcTake
  BY <1>7, <1>0 DEF ProcTake, ProcessorStep
<1>8. CASE ProcLimitWait
  BY <1>8, <1>0 DEF ProcLimitWait, ProcessorStep, ProcAcquire, ProcReapAll
<1>9. CASE ProcLimitPass
  BY <1>9, <1>0 DEF ProcLimitPass, ProcessorStep, OverLimit
<1>10. CASE ProcSubmit
  BY <1>10, <1>0 DEF ProcSubmit, ProcessorStep
<1>11. CASE ProcFinishWait
  BY <1>11, <1>0 DEF ProcFinishWait, ProcessorStep, ProcAcquire, ProcReapAll
<1>12. CASE ProcFinished
  BY <1>12, <1>0 DEF ProcFinished, ProcessorStep, NothingActive
<1>13. CASE TaskPut
  BY <1>13, <1>0 DEF TaskPut, TaskStep
<1>14. CASE TaskReturn
  BY <1>14, <1>0 DEF TaskReturn, TaskStep
<1>15. CASE TaskRaise
  BY <1>15, <1>0 DEF TaskRaise, TaskStep
<1>16. CASE MainFinally
  BY <1>16, <1>0 DEF MainFinally, MainStep
<1>17. CASE MainSignal
  BY <1>17, <1>0 DEF MainSignal, MainStep
<1>18. CASE MainStop
  BY <1>18, <1>0 DEF MainStop, MainStep
<1>19. CASE MonRound
  BY <1>19, <1>0 DEF MonRound, MonitorStep
<1>20. CASE MonReadStats
  BY <1>20, <1>0 DEF MonReadStats, MonitorStep
<1>21. CASE MonDecide
  BY <1>21, <1>0 DEF MonDecide, MonitorStep
<1>22. CASE MonResume
  BY <1>22, <1>0 DEF MonResume, MonitorStep
<1>23. CASE TrainerGet
  BY <1>23, <1>0 DEF TrainerGet, TrainerStep
<1>24. CASE TrainerUpdate
  BY <1>24, <1>0 DEF TrainerUpdate, TrainerStep
<1>25. CASE ResetBegin
  BY <1>25, <1>0 DEF ResetBegin, TrainerStep
<1>26. CASE ResetQueueSize
  BY <1>26, <1>0 DEF ResetQueueSize, TrainerStep
<1>27. CASE ResetWrite
  BY <1>27, <1>0 DEF ResetWrite, TrainerStep
<1>28. CASE TrainerFinal
  BY <1>28, <1>0 DEF TrainerFinal, TrainerStep
<1>29. CASE UNCHANGED vars
  BY <1>29 DEF vars
<1>30. QED
  BY <1>1, <1>2, <1>3, <1>4, <1>5, <1>6, <1>7, <1>8, <1>9, <1>10, <1>11, <1>12, <1>13, <1>14,
     <1>15, <1>16, <1>17, <1>18, <1>19, <1>20, <1>21, <1>22, <1>23, <1>24, <1>25, <1>26, <1>27, <1>28, <1>29
  DEF Next, Processor, Tasks, Main, Monitor, Trainer, Reset

-----------------------------------------------------------------------------
(* The staleness bound *)

\* How the trainer's progress counters move: a get adds one, a training step
\* moves the count from the batch to the version, and a reset starts over.
LEMMA ConsumedFacts ==
    ASSUME TypeOK, Control
    PROVE  /\ ConsumedThisVersion \in Nat
           /\ ConsumedSinceReset \in Nat
           /\ ConsumedThisVersion <= ConsumedSinceReset
           /\ trPc = "train" => ConsumedSinceReset = localStep * RequiredSamples
           /\ localStep = 1 => ConsumedThisVersion = got
<1> USE FullyAsyncAssumption DEF TypeOK, CountsOK
<1>1. localStep - 1 \in Nat /\ got \in Nat /\ RequiredSamples \in Nat
  OBVIOUS
<1>2. (localStep - 1) * RequiredSamples \in Nat
  BY <1>1
<1>3. ConsumedThisVersion \in Nat
  BY <1>1, <1>2 DEF ConsumedThisVersion
<1>4. localStep = 1 => ConsumedThisVersion = got
  BY <1>1 DEF ConsumedThisVersion
<1>5. trPc = "train" => ConsumedSinceReset = localStep * RequiredSamples
  <2> SUFFICES ASSUME trPc = "train"
               PROVE  ConsumedSinceReset = localStep * RequiredSamples
    OBVIOUS
  <2>1. ConsumedSinceReset = (localStep - 1) * RequiredSamples + RequiredSamples
    BY DEF Control, ConsumedSinceReset, ConsumedThisVersion
  <2>2. (localStep - 1) * RequiredSamples + RequiredSamples
          = localStep * RequiredSamples
    BY <1>1
  <2>3. QED
    BY <2>1, <2>2
<1>6. QED
  BY <1>3, <1>4, <1>5, ConstantFacts DEF ConsumedSinceReset, Control

\* A training step moves samples from the batch to the step count without
\* changing how many were consumed since the last reset.
LEMMA UpdateKeepsConsumed ==
    ASSUME TypeOK, Control, TrainerUpdate
    PROVE  /\ ConsumedSinceReset' = ConsumedSinceReset
           /\ localStep < TriggerSyncStep =>
                ConsumedThisVersion' = ConsumedThisVersion
           /\ localStep >= TriggerSyncStep =>
                ConsumedThisVersion' = 0 /\ ConsumedThisVersion = SamplesPerSync
<1> USE FullyAsyncAssumption DEF TypeOK, CountsOK
<1>1. /\ trPc = "train" /\ ~stopping /\ stopping' = stopping /\ got' = 0
      /\ got = RequiredSamples
      /\ localStep < TriggerSyncStep => localStep' = localStep + 1 /\ trPc' = "get"
      /\ localStep >= TriggerSyncStep => localStep' = 1 /\ trPc' = "reset"
  BY DEF TrainerUpdate, Control
<1>2. ConsumedSinceReset = localStep * RequiredSamples
  BY <1>1, ConsumedFacts
<1>3. ConsumedThisVersion = localStep * RequiredSamples
  BY <1>1, <1>2 DEF ConsumedSinceReset
<1>4. CASE localStep < TriggerSyncStep
  <2>1. ConsumedThisVersion' = localStep * RequiredSamples
    <3>1. ConsumedThisVersion' = (localStep + 1 - 1) * RequiredSamples + 0
      BY <1>1, <1>4 DEF ConsumedThisVersion
    <3>2. localStep + 1 - 1 = localStep /\ localStep * RequiredSamples \in Nat
      OBVIOUS
    <3>3. QED
      BY <3>1, <3>2
  <2>2. ConsumedSinceReset' = ConsumedThisVersion'
    BY <1>1, <1>4 DEF ConsumedSinceReset
  <2>3. QED
    BY <1>2, <1>3, <1>4, <2>1, <2>2
<1>5. CASE localStep >= TriggerSyncStep
  <2>1. localStep = TriggerSyncStep
    BY <1>5
  <2>2. localStep * RequiredSamples = SamplesPerSync
    BY <2>1 DEF SamplesPerSync
  <2>3. ConsumedSinceReset' = SamplesPerSync
    BY <1>1, <1>5 DEF ConsumedSinceReset, SamplesPerSync
  <2>4. ConsumedThisVersion' = 0
    BY <1>1, <1>5 DEF ConsumedThisVersion
  <2>5. QED
    BY <1>2, <1>3, <1>5, <2>1, <2>2, <2>3, <2>4
<1>6. QED
  BY <1>4, <1>5

\* A get consumes one sample.
LEMMA GetAddsOne ==
    ASSUME TypeOK, Control, TrainerGet
    PROVE  /\ Head(messages).end => ConsumedSinceReset' = ConsumedSinceReset
                               /\ ConsumedThisVersion' = ConsumedThisVersion
           /\ ~Head(messages).end => ConsumedSinceReset' = ConsumedSinceReset + 1
                               /\ ConsumedThisVersion' = ConsumedThisVersion + 1
<1> USE FullyAsyncAssumption DEF TypeOK, CountsOK
<1>1. /\ trPc = "get" /\ localStep' = localStep
      /\ trPc' \in {"get", "train", "final"}
      /\ got' = IF Head(messages).end THEN got ELSE got + 1
  BY DEF TrainerGet
<1>2. /\ ConsumedSinceReset = ConsumedThisVersion
      /\ ConsumedSinceReset' = ConsumedThisVersion'
  BY <1>1 DEF ConsumedSinceReset
<1>3. ConsumedThisVersion' = (localStep - 1) * RequiredSamples + got'
  BY <1>1 DEF ConsumedThisVersion
<1>4. (localStep - 1) * RequiredSamples \in Int /\ got \in Int
  OBVIOUS
<1>5. QED
  BY <1>1, <1>2, <1>3, <1>4 DEF ConsumedThisVersion

\* Moves of the work counters.

\* A put lengthens the buffer by one unless it displaces an entry.
LEMMA PutLength ==
    ASSUME TypeOK, TaskPut \/ MainSignal
    PROVE  /\ Len(messages') \in {Len(messages), Len(messages) + 1}
           /\ Len(messages) <= MessageQueueSize => Len(messages') <= MessageQueueSize
<1>1. PICK x \in Entries :
        messages' = Offer(messages, MessageQueueSize, x)
  BY DEF TypeOK, CountsOK, TaskPut, MainSignal, Sample, FinishSignal,
     Entries
<1>2. MessageQueueSize \in Nat \ {0}
  BY ConstantFacts
<1>3. messages \in Seq(Entries) /\ Len(messages) \in Nat
  BY DEF TypeOK, QueueOK
<1>4. /\ Len(messages) >= MessageQueueSize =>
             Len(Offer(messages, MessageQueueSize, x)) = Len(messages)
      /\ Len(messages) < MessageQueueSize =>
             Len(Offer(messages, MessageQueueSize, x)) = Len(messages) + 1
  BY <1>2, <1>3, OfferFacts
<1>5. QED
  BY <1>1, <1>2, <1>3, <1>4

\* Every step keeps the staleness bound: what is being generated, queued or held
\* is paid for by the counter, up to the one sample in the processor's hands.
LEMMA BoundStep ==
    TypeOK /\ Control /\ StalenessBound /\ Accounting /\ [Next]_vars
        => StalenessBound' /\ Accounting'
<1> SUFFICES ASSUME TypeOK, Control, StalenessBound, Accounting, [Next]_vars
             PROVE  StalenessBound' /\ Accounting'
  OBVIOUS
<1>a. UNCHANGED trainVars => ConsumedSinceReset' = ConsumedSinceReset
  BY DEF trainVars, ConsumedSinceReset, ConsumedThisVersion
<1>b. ConsumedSinceReset \in Nat
  BY ConsumedFacts
<1>c. Len(messages) \in Nat
  BY DEF TypeOK, QueueOK
<1>d. MaxRequired \in Nat /\ MessageQueueSize \in Nat \ {0}
  BY ConstantFacts
<1> USE <1>b, <1>c, <1>d
<1> USE DEF StalenessBound, Accounting, Outstanding, Held, Unsignalled, Control,
      TypeOK, PlacesOK, CountsOK,
      queueVars, sharedVars, feedVars, procVars, taskVars,
      monVars, trainVars, resetVars
<1>1. CASE Feed
  BY <1>1, <1>a DEF Feed
<1>2. CASE ProcCheck
  BY <1>2, <1>a DEF ProcCheck, ProcessorStep
<1>3. CASE ProcDecide
  BY <1>3, <1>a DEF ProcDecide, ProcessorStep, TooStale
<1>4. CASE ProcPause
  BY <1>4, <1>a DEF ProcPause, ProcessorStep
<1>5. CASE ProcDrain
  BY <1>5, <1>a DEF ProcDrain, ProcessorStep
<1>6. CASE ProcResumed
  BY <1>6, <1>a DEF ProcResumed, ProcessorStep
<1>7. CASE ProcTake
  BY <1>7, <1>a DEF ProcTake, ProcessorStep
<1>8. CASE ProcLimitWait
  <2>1. CASE ProcAcquire("limit", "limitwait")
    BY <2>1, <1>a DEF ProcAcquire, ProcessorStep
  <2>2. CASE ProcReapAll("limitwait", "limit")
    BY <2>2, <1>a DEF ProcReapAll, ProcessorStep
  <2>3. QED
    BY <1>8, <2>1, <2>2 DEF ProcLimitWait
<1>9. CASE ProcLimitPass
  BY <1>9, <1>a DEF ProcLimitPass, ProcessorStep
<1>10. CASE ProcSubmit
  BY <1>10, <1>a DEF ProcSubmit, ProcessorStep
<1>11. CASE ProcFinishWait
  <2>1. CASE ProcAcquire("finish", "finishwait")
    BY <2>1, <1>a DEF ProcAcquire, ProcessorStep
  <2>2. CASE ProcReapAll("finishwait", "finish")
    BY <2>2, <1>a DEF ProcReapAll, ProcessorStep
  <2>3. QED
    BY <1>11, <2>1, <2>2 DEF ProcFinishWait
<1>12. CASE ProcFinished
  BY <1>12, <1>a DEF ProcFinished, ProcessorStep, NothingActive
<1>13. CASE TaskPut
  <2>1. /\ generating > 0 /\ generating' = generating - 1
        /\ UNCHANGED <<raised, staleness, procPc, mainPc, trPc, resetActive,
                       resetQueue, trainVars>>
    BY <1>13 DEF TaskPut, TaskStep
  <2>2. Len(messages') \in {Len(messages), Len(messages) + 1}
    BY <1>13, PutLength
  <2>3. QED
    BY <1>a, <2>1, <2>2, SMTT(60)
<1>14. CASE TaskReturn
  BY <1>14, <1>a DEF TaskReturn, TaskStep
<1>15. CASE TaskRaise
  BY <1>15, <1>a, SMTT(60) DEF TaskRaise, TaskStep
<1>16. CASE MainFinally
  BY <1>16, <1>a DEF MainFinally, MainStep
<1>17. CASE MainSignal
  <2>1. /\ mainPc = "signal" /\ mainPc' = "stop"
        /\ UNCHANGED <<generating, raised, staleness, procPc, trPc,
                       resetActive, resetQueue, trainVars>>
    BY <1>17 DEF MainSignal, MainStep
  <2>2. Len(messages') \in {Len(messages), Len(messages) + 1}
    BY <1>17, PutLength
  <2>3. QED
    BY <1>a, <2>1, <2>2
<1>18. CASE MainStop
  BY <1>18, <1>a DEF MainStop, MainStep
<1>19. CASE MonRound
  BY <1>19, <1>a DEF MonRound, MonitorStep
<1>20. CASE MonReadStats
  BY <1>20, <1>a DEF MonReadStats, MonitorStep
<1>21. CASE MonDecide
  BY <1>21, <1>a DEF MonDecide, MonitorStep
<1>22. CASE MonResume
  BY <1>22, <1>a DEF MonResume, MonitorStep
<1>23. CASE TrainerGet
  <2>1. Len(messages') = Len(messages) - 1
    BY <1>23, TailFacts DEF TrainerGet, QueueOK
  <2>2. ConsumedSinceReset' \in {ConsumedSinceReset, ConsumedSinceReset + 1}
    BY <1>23, GetAddsOne
  <2>3. QED
    BY <1>23, <2>1, <2>2, SMTT(60) DEF TrainerGet, TrainerStep
<1>24. CASE TrainerUpdate
  <2>1. ConsumedSinceReset' = ConsumedSinceReset
    BY <1>24, UpdateKeepsConsumed
  <2>2. QED
    BY <1>24, <2>1 DEF TrainerUpdate, TrainerStep
<1>25. CASE ResetBegin
  <2>1. ConsumedSinceReset' = ConsumedSinceReset
    BY <1>25 DEF ResetBegin, ConsumedSinceReset, ConsumedThisVersion, Control
  <2>2. QED
    BY <1>25, <2>1 DEF ResetBegin, TrainerStep, ActiveTasks
<1>26. CASE ResetQueueSize
  <2>1. ConsumedSinceReset' = ConsumedSinceReset
    BY <1>26 DEF ResetQueueSize, ConsumedSinceReset, ConsumedThisVersion, Control
  <2>2. QED
    BY <1>26, <2>1 DEF ResetQueueSize, TrainerStep
<1>27. CASE ResetWrite
  <2>1. /\ ConsumedSinceReset' <= ConsumedSinceReset
        /\ ConsumedSinceReset' \in Nat
        /\ Unsignalled => ConsumedSinceReset' = 0
    <3>1. ConsumedThisVersion' = ConsumedThisVersion
      BY <1>27 DEF ResetWrite, ConsumedThisVersion
    <3>2. ConsumedSinceReset' = ConsumedThisVersion'
      BY <1>27 DEF ResetWrite, ConsumedSinceReset
    <3>3. Unsignalled => ConsumedThisVersion = 0
      BY <1>27, ConsumedFacts DEF ResetWrite
    <3>4. QED
      BY <3>1, <3>2, <3>3, ConsumedFacts
  <2>2. QED
    BY <1>27, <2>1 DEF ResetWrite, TrainerStep, ResetValue
<1>28. CASE TrainerFinal
  <2>1. ConsumedSinceReset' = ConsumedSinceReset
    BY <1>28 DEF TrainerFinal, ConsumedSinceReset, ConsumedThisVersion, Control
  <2>2. QED
    BY <1>28, <2>1 DEF TrainerFinal, TrainerStep
<1>29. CASE UNCHANGED vars
  BY <1>29, <1>a DEF vars
<1>30. QED
  BY <1>1, <1>2, <1>3, <1>4, <1>5, <1>6, <1>7, <1>8, <1>9, <1>10, <1>11, <1>12, <1>13, <1>14,
     <1>15, <1>16, <1>17, <1>18, <1>19, <1>20, <1>21, <1>22, <1>23, <1>24, <1>25, <1>26, <1>27, <1>28, <1>29
  DEF Next, Processor, Tasks, Main, Monitor, Trainer, Reset

-----------------------------------------------------------------------------
(* The queue: residence of samples and the finish signal *)

\* What put_sample of entry x does to the buffer, entry by entry.
LEMMA PutEntries ==
    ASSUME TypeOK, NEW x \in Entries, messages' = Offer(messages, MessageQueueSize, x)
    PROVE  /\ Len(messages) \in Nat
           /\ messages' \in Seq(Entries)
           /\ messages'[Len(messages')] = x
           /\ Len(messages) >= MessageQueueSize =>
                /\ Len(messages') = Len(messages)
                /\ \A i \in 1..(Len(messages) - 1) : messages'[i] = messages[i + 1]
           /\ Len(messages) < MessageQueueSize =>
                /\ Len(messages') = Len(messages) + 1
                /\ \A i \in 1..Len(messages) : messages'[i] = messages[i]
<1>1. MessageQueueSize \in Nat \ {0}
  BY ConstantFacts
<1>2. messages \in Seq(Entries) /\ Len(messages) \in Nat
  BY DEF TypeOK, QueueOK
<1> DEFINE r == Offer(messages, MessageQueueSize, x)
<1>3. r \in Seq(Entries) /\ r[Len(r)] = x
  BY <1>1, <1>2, OfferFacts
<1>4. Len(messages) >= MessageQueueSize =>
        /\ Len(r) = Len(messages)
        /\ \A i \in 1..(Len(messages) - 1) : r[i] = messages[i + 1]
  <2>1. Len(messages) >= MessageQueueSize => Len(r) = Len(messages)
    BY <1>1, <1>2, OfferFacts
  <2>2. ASSUME Len(messages) >= MessageQueueSize, NEW i \in 1..(Len(messages) - 1)
        PROVE  r[i] = messages[i + 1]
    BY <1>1, <1>2, <2>2, OfferShifts
  <2>3. QED
    BY <2>1, <2>2
<1>5. Len(messages) < MessageQueueSize =>
        /\ Len(r) = Len(messages) + 1
        /\ \A i \in 1..Len(messages) : r[i] = messages[i]
  <2>1. Len(messages) < MessageQueueSize => Len(r) = Len(messages) + 1
    BY <1>1, <1>2, OfferFacts
  <2>2. ASSUME Len(messages) < MessageQueueSize, NEW i \in 1..Len(messages)
        PROVE  r[i] = messages[i]
    BY <1>1, <1>2, <2>2, OfferShifts
  <2>3. QED
    BY <2>1, <2>2
<1> HIDE DEF r
<1>6. messages' = r
  BY DEF r
<1>7. QED
  BY <1>2, <1>3, <1>4, <1>5, <1>6

\* Samples and the finish signal are queue entries.
LEMMA EntryTypes ==
    /\ \A v \in Nat : /\ Sample(v) \in Entries /\ FinishSignal(v) \in Entries
                      /\ Sample(v).version = v /\ FinishSignal(v).version = v
                      /\ ~Sample(v).end /\ FinishSignal(v).end
    /\ \A e \in Entries : e.version \in Nat
  BY DEF Entries, Sample, FinishSignal

\* Every step keeps the buffer within max_queue_size.
LEMMA BufferStep ==
    TypeOK /\ BufferBounded /\ [Next]_vars => BufferBounded'
<1> SUFFICES ASSUME TypeOK, BufferBounded, [Next]_vars PROVE BufferBounded'
  OBVIOUS
<1>0. MessageQueueSize' = MessageQueueSize /\ MessageQueueSize \in Nat
  BY ConstantFacts DEF MessageQueueSize, MaxRequired, SamplesPerSync
<1>1. CASE TaskPut \/ MainSignal
  BY <1>0, <1>1, PutLength DEF BufferBounded
<1>2. CASE TrainerGet
  <2>1. Len(messages') = Len(messages) - 1 /\ Len(messages) \in Nat
    BY <1>2, TailFacts DEF TrainerGet, TypeOK, QueueOK
  <2>2. QED
    BY <1>0, <2>1 DEF BufferBounded
<1>3. CASE UNCHANGED messages
  BY <1>0, <1>3 DEF BufferBounded
<1>4. QED
  BY <1>1, <1>2, <1>3, QueueSteps

\* Every step but a training step that ends a version keeps the version and
\* the count of samples consumed in it, except a get.
LEMMA VersionSteps ==
    ASSUME [Next]_vars
    PROVE  \/ TrainerGet \/ TrainerUpdate
           \/ UNCHANGED <<version, ConsumedThisVersion>>
<1>1. \/ TrainerGet \/ TrainerUpdate \/ UNCHANGED <<version, localStep, got>>
  BY Zenon DEF Next, Feed, Processor, ProcCheck, ProcDecide, ProcPause,
     ProcDrain, ProcResumed, ProcTake, ProcLimitWait, ProcLimitPass, ProcSubmit,
     ProcFinishWait, ProcFinished, ProcAcquire, ProcReapAll, ProcessorStep,
     Tasks, TaskPut, TaskReturn, TaskRaise, TaskStep, Main, MainFinally,
     MainSignal, MainStop, MainStep, Monitor, MonRound, MonReadStats,
     MonDecide, MonResume, MonitorStep, Trainer, Reset, ResetBegin,
     ResetQueueSize, ResetWrite, TrainerFinal, trainVars, vars
<1>2. QED
  BY <1>1 DEF ConsumedThisVersion

\* Every step keeps the bound on the versions an entry has waited.
LEMMA LagStep ==
    /\ TypeOK /\ Control /\ StalenessBound /\ QueueLag /\ [Next]_vars
    /\ StalenessBound'
    => QueueLag'
<1> SUFFICES ASSUME TypeOK, Control, StalenessBound, QueueLag, [Next]_vars,
                    StalenessBound',
                    NEW i \in 1..Len(messages')
             PROVE  i + ConsumedThisVersion'
                      + SamplesPerSync * (version' - messages'[i].version)
                    <= MaxRequired + 1
  BY DEF QueueLag, MaxRequired, SamplesPerSync
<1> DEFINE Lag(j) == SamplesPerSync * (version - messages[j].version)
           Consumed == ConsumedThisVersion
<1>1. /\ Consumed \in Nat /\ ConsumedSinceReset \in Nat
      /\ Consumed <= ConsumedSinceReset
  BY ConsumedFacts
<1>2. SamplesPerSync \in Nat /\ MaxRequired \in Nat
  BY ConstantFacts
<1>3. version \in Nat /\ Len(messages) \in Nat
  BY DEF TypeOK, CountsOK, QueueOK
<1>4. \A j \in 1..Len(messages) : messages[j] \in Entries /\ messages[j].version \in Nat
  BY EntryTypes DEF TypeOK, QueueOK
<1>5. \A j \in 1..Len(messages) :
        Lag(j) \in Int /\ j + Consumed + Lag(j) <= MaxRequired + 1
  BY <1>2, <1>3, <1>4 DEF QueueLag
<1>6. CASE TaskPut \/ MainSignal
  <2>1. PICK x \in Entries : /\ x.version = version
                             /\ messages' = Offer(messages, MessageQueueSize, x)
    BY <1>3, <1>6, EntryTypes DEF TaskPut, MainSignal
  <2>2. UNCHANGED <<trainVars, trPc, stopping, version>>
    BY <1>6 DEF TaskPut, TaskStep, MainSignal, MainStep, trainVars
  <2>3. /\ ConsumedThisVersion' = Consumed
        /\ ConsumedSinceReset' = ConsumedSinceReset
    BY <2>2 DEF trainVars, ConsumedThisVersion, ConsumedSinceReset
  <2>4. Len(messages') \in Nat
    BY <2>1, PutEntries
  <2>5. CASE i = Len(messages')
    <3>1. messages'[i] = x
      BY <2>1, <2>5, PutEntries
    <3>2. SamplesPerSync * (version' - messages'[i].version) = 0
      BY <1>2, <1>3, <2>1, <2>2, <3>1
    <3>3. generating' \in Nat /\ raised' \in Nat
      BY <1>6, SMTT(60) DEF TypeOK, CountsOK, TaskPut, MainSignal, MainStep, taskVars
    <3>4. Len(messages') + ConsumedSinceReset' <= MaxRequired + 1
      <4>1. Held' \in Nat
        BY DEF Held
      <4>2. Outstanding' + ConsumedSinceReset' <= MaxRequired + 1
        BY DEF StalenessBound, MaxRequired, SamplesPerSync
      <4>3. Outstanding' = Held' + generating' + raised' + Len(messages')
        BY DEF Outstanding
      <4>4. \A a, b, c, d, e, m \in Nat :
              a + b + c + d + e <= m + 1 => d + e <= m + 1
        OBVIOUS
      <4>5. Held' + generating' + raised' + Len(messages') + ConsumedSinceReset
              <= MaxRequired + 1
        BY <2>3, <4>2, <4>3
      <4>6. QED
        BY <1>1, <1>2, <2>3, <2>4, <3>3, <4>1, <4>4, <4>5
    <3>5. QED
      BY <1>1, <1>2, <2>3, <2>4, <2>5, <3>2, <3>4
  <2>6. CASE i < Len(messages')
    <3>1. PICK j \in 1..Len(messages) : i <= j /\ messages'[i] = messages[j]
      <4>1. CASE Len(messages) >= MessageQueueSize
        BY <2>1, <2>6, <4>1, PutEntries
      <4>2. CASE Len(messages) < MessageQueueSize
        BY <2>1, <2>6, <4>2, PutEntries
      <4>3. QED
        BY <1>3, <4>1, <4>2, ConstantFacts
    <3>2. SamplesPerSync * (version' - messages'[i].version) = Lag(j)
      BY <2>2, <3>1
    <3> HIDE DEF Lag, Consumed
    <3>3. QED
      BY <1>1, <1>2, <1>3, <1>5, <2>3, <3>1, <3>2, SMTT(60)
  <2>7. QED
    BY <2>4, <2>5, <2>6
<1>7. CASE TrainerGet
  <2>1. /\ Len(messages') = Len(messages) - 1
        /\ messages'[i] = messages[i + 1]
        /\ i + 1 \in 1..Len(messages)
    BY <1>3, <1>7, TailFacts DEF TrainerGet, TypeOK, QueueOK
  <2>2. ConsumedThisVersion' <= Consumed + 1 /\ ConsumedThisVersion' \in Nat
    BY <1>1, <1>7, GetAddsOne
  <2>3. SamplesPerSync * (version' - messages'[i].version) = Lag(i + 1)
    BY <1>7, <2>1 DEF TrainerGet
  <2> HIDE DEF Lag, Consumed
  <2>4. QED
    BY <1>1, <1>2, <1>5, <2>1, <2>2, <2>3
<1>8. CASE TrainerUpdate
  <2>1. messages' = messages
    BY <1>8 DEF TrainerUpdate
  <2>2. CASE localStep < TriggerSyncStep
    BY <1>5, <1>8, <2>1, <2>2, UpdateKeepsConsumed DEF TrainerUpdate
  <2>3. CASE localStep >= TriggerSyncStep
    <3>1. version' = version + 1
      BY <1>8, <2>3, FullyAsyncAssumption DEF TrainerUpdate, TypeOK, CountsOK
    <3>2. ConsumedThisVersion' = 0 /\ Consumed = SamplesPerSync
      BY <1>8, <2>3, UpdateKeepsConsumed
    <3>3. SamplesPerSync * (version' - messages'[i].version)
            = Lag(i) + SamplesPerSync
      <4>1. version - messages[i].version \in Int
        BY <1>3, <1>4, <2>1
      <4>2. version' - messages'[i].version = (version - messages[i].version) + 1
        BY <1>3, <1>4, <2>1, <3>1, SMTT(60)
      <4>3. \A n, a \in Int : n * (a + 1) = n * a + n
        OBVIOUS
      <4>4. QED
        BY <1>2, <4>1, <4>2, <4>3
    <3> HIDE DEF Lag, Consumed
    <3>4. QED
      BY <1>1, <1>2, <1>5, <2>1, <3>2, <3>3
  <2>4. QED
    BY <2>2, <2>3, FullyAsyncAssumption DEF TypeOK, CountsOK
<1>9. CASE UNCHANGED messages /\ UNCHANGED <<version, ConsumedThisVersion>>
  BY <1>5, <1>9
<1>10. QED
  BY <1>6, <1>7, <1>8, <1>9, QueueSteps, VersionSteps

\* The finish signal.

\* Steps that leave the buffer alone start no generation once the signal is out.
LEMMA GeneratingSteps ==
    ASSUME TypeOK, Control, [Next]_vars, UNCHANGED messages, ~Unsignalled
    PROVE  ~Unsignalled' /\ (generating' = generating \/ generating' = generating - 1)
<1>1. procPc \in {"done", "failed"}
  BY DEF Control, Unsignalled, TypeOK, PlacesOK
<1>2. mainPc \in {"stop", "ended"}
  BY DEF Unsignalled, TypeOK, PlacesOK
<1>3. mainPc' \in {"stop", "ended"}
  BY <1>2, Zenon DEF Next, Feed, Processor, ProcCheck, ProcDecide, ProcPause,
     ProcDrain, ProcResumed, ProcTake, ProcLimitWait, ProcLimitPass, ProcSubmit,
     ProcFinishWait, ProcFinished, ProcAcquire, ProcReapAll, ProcessorStep,
     Tasks, TaskPut, TaskReturn, TaskRaise, TaskStep, Main, MainFinally,
     MainSignal, MainStop, Monitor, MonRound, MonReadStats, MonDecide,
     MonResume, MonitorStep, Trainer, TrainerGet, TrainerUpdate, Reset,
     ResetBegin, ResetQueueSize, ResetWrite, TrainerFinal, TrainerStep, vars
<1>4. \/ generating' = generating
      \/ generating' = generating - 1
      \/ procPc \notin {"done", "failed"}
  BY Zenon DEF Next, Feed, Processor, ProcCheck, ProcDecide, ProcPause,
     ProcDrain, ProcResumed, ProcTake, ProcLimitWait, ProcLimitPass, ProcSubmit,
     ProcFinishWait, ProcFinished, ProcAcquire, ProcReapAll,
     Tasks, TaskPut, TaskReturn, TaskRaise, Main, MainFinally, MainSignal,
     MainStop, MainStep, Monitor, MonRound, MonReadStats, MonDecide,
     MonResume, MonitorStep, Trainer, TrainerGet, TrainerUpdate, Reset,
     ResetBegin, ResetQueueSize, ResetWrite, TrainerFinal, TrainerStep,
     taskVars, vars
<1>5. QED
  BY <1>1, <1>3, <1>4 DEF Unsignalled

\* Every step keeps the finish signal in the buffer until the trainer takes it,
\* because what can still be put behind it fits.
LEMMA SignalStep ==
    /\ TypeOK /\ Control /\ Concurrency /\ BufferBounded /\ SignalRoom
    /\ FinishSignalKept /\ [Next]_vars
    => SignalRoom' /\ FinishSignalKept'
<1> SUFFICES ASSUME TypeOK, Control, Concurrency, BufferBounded, SignalRoom,
                    FinishSignalKept, [Next]_vars
             PROVE  SignalRoom' /\ FinishSignalKept'
  OBVIOUS
<1>1. /\ MaxConcurrent \in Nat \ {0} /\ MessageQueueSize \in Nat
      /\ MaxConcurrent <= MessageQueueSize /\ MaxConcurrent' = MaxConcurrent
  BY ConstantFacts
  DEF MaxConcurrent, MaxRequired, SamplesPerSync
<1>2. Len(messages) \in Nat /\ generating \in Nat /\ version \in Nat
  BY DEF TypeOK, QueueOK, CountsOK
<1>3. CASE TaskPut
  <2>1. /\ generating > 0 /\ generating' = generating - 1
        /\ mainPc' = mainPc /\ stopping' = stopping
        /\ messages' = Offer(messages, MessageQueueSize, Sample(version))
        /\ Sample(version) \in Entries /\ ~Sample(version).end
    BY <1>2, <1>3, EntryTypes DEF TaskPut, TaskStep, trainVars
  <2>2. CASE Len(messages) >= MessageQueueSize
    <3>1. /\ Len(messages') = Len(messages) /\ Len(messages) = MessageQueueSize
          /\ messages'[Len(messages')] = Sample(version)
          /\ \A i \in 1..(Len(messages) - 1) : messages'[i] = messages[i + 1]
      BY <1>1, <1>2, <2>1, <2>2, PutEntries DEF BufferBounded
    <3>2. ASSUME NEW i \in 1..Len(messages'), messages'[i].end
          PROVE  /\ ~Unsignalled'
                 /\ generating' + Len(messages') - i < MaxConcurrent
      <4>1. i + 1 \in 1..Len(messages) /\ messages[i + 1].end
        BY <1>2, <2>1, <3>1, <3>2
      <4>2. ~Unsignalled /\ generating + Len(messages) - (i + 1) < MaxConcurrent
        BY <4>1 DEF SignalRoom
      <4>3. QED
        BY <1>1, <1>2, <2>1, <3>1, <4>1, <4>2 DEF Unsignalled
    <3>3. ASSUME mainPc' \in {"stop", "ended"}, ~stopping'
          PROVE  \E i \in 1..Len(messages') : messages'[i].end
      <4>1. PICK j \in 1..Len(messages) : messages[j].end
        BY <2>1, <3>3 DEF FinishSignalKept
      <4>2. generating + Len(messages) - j < MaxConcurrent
        BY <4>1 DEF SignalRoom
      <4>3. j > 1
        BY <1>1, <1>2, <2>1, <3>1, <4>1, <4>2
      <4>4. j - 1 \in 1..(Len(messages) - 1) /\ (j - 1) + 1 = j
        BY <1>2, <4>1, <4>3
      <4>5. messages'[j - 1].end /\ j - 1 \in 1..Len(messages')
        BY <1>2, <3>1, <4>1, <4>4
      <4>6. QED
        BY <4>5
    <3>4. QED
      BY <1>1, <3>2, <3>3 DEF SignalRoom, FinishSignalKept
  <2>3. CASE Len(messages) < MessageQueueSize
    <3>1. /\ Len(messages') = Len(messages) + 1
          /\ messages'[Len(messages')] = Sample(version)
          /\ \A i \in 1..Len(messages) : messages'[i] = messages[i]
      BY <1>1, <1>2, <2>1, <2>3, PutEntries
    <3>2. ASSUME NEW i \in 1..Len(messages'), messages'[i].end
          PROVE  /\ ~Unsignalled'
                 /\ generating' + Len(messages') - i < MaxConcurrent
      <4>1. i \in 1..Len(messages) /\ messages[i].end
        BY <1>2, <2>1, <3>1, <3>2
      <4>2. ~Unsignalled /\ generating + Len(messages) - i < MaxConcurrent
        BY <4>1 DEF SignalRoom
      <4>3. QED
        BY <1>1, <1>2, <2>1, <3>1, <4>1, <4>2 DEF Unsignalled
    <3>3. ASSUME mainPc' \in {"stop", "ended"}, ~stopping'
          PROVE  \E i \in 1..Len(messages') : messages'[i].end
      <4>1. PICK j \in 1..Len(messages) : messages[j].end
        BY <2>1, <3>3 DEF FinishSignalKept
      <4>2. messages'[j].end /\ j \in 1..Len(messages')
        BY <1>2, <3>1, <4>1
      <4>3. QED
        BY <4>2
    <3>4. QED
      BY <1>1, <3>2, <3>3 DEF SignalRoom, FinishSignalKept
  <2>4. QED
    BY <1>1, <1>2, <2>2, <2>3
<1>4. CASE MainSignal
  <2>1. /\ mainPc = "signal" /\ mainPc' = "stop" /\ generating' = generating
        /\ messages' = Offer(messages, MessageQueueSize, FinishSignal(version))
        /\ FinishSignal(version) \in Entries /\ FinishSignal(version).end
    BY <1>2, <1>4, EntryTypes DEF MainSignal, MainStep, taskVars
  <2>2. generating < MaxConcurrent
    <3>1. procPc \in {"done", "failed"}
      BY <2>1 DEF Control
    <3>2. ActiveTasks < MaxConcurrent
      BY <1>1, <3>1 DEF Concurrency
    <3>3. QED
      BY <1>1, <3>2 DEF ActiveTasks, TypeOK, CountsOK
  <2>3. \A j \in 1..Len(messages) : ~messages[j].end
    BY <2>1 DEF SignalRoom, Unsignalled
  <2>4. Len(messages') \in Nat \ {0} /\ messages'[Len(messages')].end
    <3>1. Len(messages) < MessageQueueSize \/ Len(messages) >= MessageQueueSize
      BY <1>1, <1>2
    <3>2. messages'[Len(messages')] = FinishSignal(version)
      BY <2>1, PutEntries
    <3>3. Len(messages') \in {Len(messages), Len(messages) + 1} /\ Len(messages') >= 1
      BY <1>1, <1>2, <2>1, <3>1, PutEntries
    <3>4. QED
      BY <1>2, <2>1, <3>2, <3>3
  <2>5. ASSUME NEW i \in 1..Len(messages'), messages'[i].end PROVE i = Len(messages')
    <3>1. CASE Len(messages) >= MessageQueueSize
      <4>1. /\ Len(messages') = Len(messages)
            /\ \A j \in 1..(Len(messages) - 1) : messages'[j] = messages[j + 1]
        BY <2>1, <3>1, PutEntries
      <4>2. QED
        BY <1>2, <2>3, <2>5, <4>1
    <3>2. CASE Len(messages) < MessageQueueSize
      <4>1. /\ Len(messages') = Len(messages) + 1
            /\ \A j \in 1..Len(messages) : messages'[j] = messages[j]
        BY <2>1, <3>2, PutEntries
      <4>2. QED
        BY <1>2, <2>3, <2>5, <4>1
    <3>3. QED
      BY <1>1, <1>2, <3>1, <3>2
  <2>6. SignalRoom'
    BY <1>1, <1>2, <2>1, <2>2, <2>4, <2>5 DEF SignalRoom, Unsignalled
  <2>7. FinishSignalKept'
    BY <2>4 DEF FinishSignalKept
  <2>8. QED
    BY <2>6, <2>7
<1>5. CASE TrainerGet
  <2>1. /\ Len(messages') = Len(messages) - 1 /\ Head(messages) = messages[1]
        /\ \A i \in 1..Len(messages') : messages'[i] = messages[i + 1]
    BY <1>5, TailFacts DEF TrainerGet, TypeOK, QueueOK
  <2>2. generating' = generating /\ mainPc' = mainPc
    BY <1>5 DEF TrainerGet, TrainerStep, taskVars
  <2>3. SignalRoom'
    BY <1>1, <1>2, <2>1, <2>2, SMTT(60) DEF SignalRoom, Unsignalled
  <2>4. ASSUME mainPc' \in {"stop", "ended"}, ~stopping'
        PROVE  \E i \in 1..Len(messages') : messages'[i].end
    <3>1. ~stopping /\ ~messages[1].end
      BY <1>5, <2>1, <2>4 DEF TrainerGet, Control
    <3>2. PICK j \in 1..Len(messages) : messages[j].end
      BY <2>2, <2>4, <3>1 DEF FinishSignalKept
    <3>3. j - 1 \in 1..Len(messages') /\ (j - 1) + 1 = j
      BY <1>2, <2>1, <3>1, <3>2
    <3>4. messages'[j - 1].end
      BY <2>1, <3>2, <3>3
    <3>5. QED
      BY <3>3, <3>4
  <2>5. QED
    BY <2>3, <2>4 DEF FinishSignalKept
<1>6. CASE UNCHANGED messages
  <2>1. SignalRoom'
    <3>1. CASE Unsignalled
      BY <1>6, <3>1 DEF SignalRoom
    <3>2. CASE ~Unsignalled
      BY <1>1, <1>2, <1>6, <3>2, GeneratingSteps DEF SignalRoom
    <3>3. QED
      BY <3>1, <3>2
  <2>2. FinishSignalKept'
    <3>1. mainPc' \in {"stop", "ended"} => mainPc \in {"stop", "ended"}
                                           \/ MainSignal
      BY Zenon DEF Next, Feed, Processor, ProcCheck, ProcDecide, ProcPause,
         ProcDrain, ProcResumed, ProcTake, ProcLimitWait, ProcLimitPass,
         ProcSubmit, ProcFinishWait, ProcFinished, ProcAcquire, ProcReapAll,
         ProcessorStep, Tasks, TaskPut, TaskReturn, TaskRaise, TaskStep, Main,
         MainFinally, MainStop, Monitor, MonRound, MonReadStats, MonDecide,
         MonResume, MonitorStep, Trainer, TrainerGet, TrainerUpdate, Reset,
         ResetBegin, ResetQueueSize, ResetWrite, TrainerFinal, TrainerStep, vars
    <3>2. stopping' = stopping \/ TrainerGet
      BY Zenon DEF Next, Feed, Processor, ProcCheck, ProcDecide, ProcPause,
         ProcDrain, ProcResumed, ProcTake, ProcLimitWait, ProcLimitPass,
         ProcSubmit, ProcFinishWait, ProcFinished, ProcAcquire, ProcReapAll,
         ProcessorStep, Tasks, TaskPut, TaskReturn, TaskRaise, TaskStep, Main,
         MainFinally, MainSignal, MainStop, MainStep, Monitor, MonRound,
         MonReadStats, MonDecide, MonResume, MonitorStep, Trainer,
         TrainerUpdate, Reset, ResetBegin, ResetQueueSize, ResetWrite,
         TrainerFinal, trainVars, vars
    <3>3. QED
      BY <1>4, <1>5, <1>6, <3>1, <3>2 DEF FinishSignalKept
  <2>3. QED
    BY <2>1, <2>2
<1>7. QED
  BY <1>3, <1>4, <1>5, <1>6, QueueSteps

-----------------------------------------------------------------------------
(* Theorems *)

\* The initial state satisfies the inductive invariant.
LEMMA InitInv == Init => IndInv
<1> SUFFICES ASSUME Init PROVE IndInv
  OBVIOUS
<1> USE FullyAsyncAssumption, ConstantFacts DEF Init
<1>1. messages = <<>> /\ Len(messages) = 0
  OBVIOUS
<1>2. QueueOK
  BY <1>1 DEF QueueOK
<1>3. FlagsOK
  BY Zenon DEF FlagsOK
<1>4. PlacesOK /\ CountsOK
  BY DEF PlacesOK, CountsOK
<1>5. Control /\ PauseOwned
  BY DEF Control, PauseOwned, Unsignalled
<1>6. Concurrency
  BY DEF Concurrency, ActiveTasks
<1>7. ConsumedThisVersion = 0 /\ ConsumedSinceReset = 0
  BY DEF ConsumedThisVersion, ConsumedSinceReset
<1>8. Outstanding = 0
  BY <1>1 DEF Outstanding, Held
<1>9. StalenessBound /\ Accounting
  BY <1>7, <1>8 DEF StalenessBound, Accounting
<1>10. BufferBounded /\ QueueLag /\ SignalRoom /\ FinishSignalKept
  BY <1>1 DEF BufferBounded, QueueLag, SignalRoom, FinishSignalKept
<1>11. QED
  BY <1>2, <1>3, <1>4, <1>5, <1>6, <1>9, <1>10 DEF IndInv, TypeOK

\* The invariant is inductive.
LEMMA NextInv == IndInv /\ [Next]_vars => IndInv'
<1> SUFFICES ASSUME IndInv, [Next]_vars PROVE IndInv'
  OBVIOUS
<1>1. TypeOK'
  BY QueueStep, FlagsStep, PlacesStep, CountsStep DEF IndInv, TypeOK
<1>2. Control' /\ PauseOwned' /\ Concurrency'
  BY ControlStep, PauseStep, ConcurrencyStep DEF IndInv
<1>3. StalenessBound' /\ Accounting'
  BY BoundStep DEF IndInv
<1>4. BufferBounded' /\ QueueLag'
  BY <1>3, BufferStep, LagStep DEF IndInv
<1>5. SignalRoom' /\ FinishSignalKept'
  BY SignalStep DEF IndInv
<1>6. QED
  BY <1>1, <1>2, <1>3, <1>4, <1>5 DEF IndInv

\* The inductive invariant holds in every reachable state.
LEMMA Invariance == Spec => []IndInv
<1>1. QED
  BY InitInv, NextInv, PTL DEF Spec

\* Every field of rollouter, queue and trainer keeps its type; in particular the
\* trainer never collects more than required_samples.
THEOREM TypeCorrect == Spec => []TypeOK
<1>1. IndInv => TypeOK
  BY DEF IndInv
<1>2. QED
  BY <1>1, Invariance, PTL

\* The staleness limit holds up to one sample for every configuration and every
\* interleaving of reset_staleness with the processor, the tasks and the trainer.
THEOREM StalenessBounded == Spec => []StalenessBound
<1>1. IndInv => StalenessBound
  BY DEF IndInv
<1>2. QED
  BY <1>1, Invariance, PTL

\* No sample waits in the message queue for more than max_required_samples /
\* SamplesPerSync parameter versions.
THEOREM QueueLagBounded == Spec => []QueueLag
<1>1. IndInv => QueueLag
  BY DEF IndInv
<1>2. QED
  BY <1>1, Invariance, PTL

\* The finish signal is never dropped by the drop-oldest queue, whatever tasks
\* outlive the processor.
THEOREM FinishSignalSafe == Spec => []FinishSignalKept
<1>1. IndInv => FinishSignalKept
  BY DEF IndInv
<1>2. QED
  BY <1>1, Invariance, PTL

\* The wait on _resume_event before a submission is never reached with the
\* rollouter paused: only the processor pauses, and it then stays in its drain.
THEOREM PauseOwnership == Spec => []PauseOwned
<1>1. IndInv => PauseOwned
  BY DEF IndInv
<1>2. QED
  BY <1>1, Invariance, PTL

-----------------------------------------------------------------------------
(* Conservation of samples *)

\* The sample the processor took from pending_queue and has not submitted.
HeldSample == IF procPc \in {"limit", "limitwait", "submit"} THEN 1 ELSE 0

\* Samples taken from pending_queue: the end signal is not one.
SamplesTaken ==
    IF procPc \in {"finish", "finishwait", "done"} THEN TotalSamples ELSE taken

\* The finish signal is in the buffer.
SignalQueued == IF ~Unsignalled /\ ~stopping THEN 1 ELSE 0

Consumed == version * SamplesPerSync + ConsumedThisVersion

\* The processor has not taken the end signal yet.
TakenInv ==
    procPc \notin {"finish", "finishwait", "done", "failed"}
        => taken <= TotalSamples

\* While the processor lives, every sample it took is held, being generated,
\* lost with a task that raised and is not reaped yet, queued, consumed or
\* counted as dropped.
Conserved ==
    procPc # "failed"
        => /\ failures = raised
           /\ HeldSample + generating + failures + (Len(messages) - SignalQueued)
                + Consumed + dropped = SamplesTaken

\* After a normal end of the processor nothing follows the finish signal.
EndLast ==
    procPc = "done"
        => /\ \A i \in 1..Len(messages) : messages[i].end => i = Len(messages)
           /\ stopping => messages = <<>>

ConservationInv == TakenInv /\ Conserved /\ EndLast

\* A get moves one sample from the buffer to the trainer, an update moves a
\* batch into a version; nothing else changes what was consumed.
LEMMA ConsumedMoves ==
    ASSUME TypeOK, Control, [Next]_vars
    PROVE  /\ Consumed \in Nat
           /\ UNCHANGED <<got, localStep, version>> => Consumed' = Consumed
           /\ TrainerGet => Consumed' = IF Head(messages).end THEN Consumed
                                        ELSE Consumed + 1
           /\ TrainerUpdate => Consumed' = Consumed
<1>1. /\ version \in Nat /\ SamplesPerSync \in Nat
      /\ version * SamplesPerSync \in Nat /\ ConsumedThisVersion \in Nat
  BY ConstantFacts, ConsumedFacts DEF TypeOK, CountsOK
<1>2. SamplesPerSync' = SamplesPerSync
  BY DEF SamplesPerSync
<1>3. Consumed \in Nat
  BY <1>1 DEF Consumed
<1>4. UNCHANGED <<got, localStep, version>> => Consumed' = Consumed
  BY DEF Consumed, ConsumedThisVersion, SamplesPerSync
<1>5. ASSUME TrainerGet
      PROVE  Consumed' = IF Head(messages).end THEN Consumed ELSE Consumed + 1
  <2>1. version' = version
    BY <1>5 DEF TrainerGet
  <2>2. ConsumedThisVersion'
          = IF Head(messages).end THEN ConsumedThisVersion
            ELSE ConsumedThisVersion + 1
    BY <1>5, GetAddsOne
  <2>3. Consumed' = version * SamplesPerSync + ConsumedThisVersion'
    BY <1>2, <2>1 DEF Consumed
  <2>4. QED
    BY <1>1, <2>2, <2>3 DEF Consumed
<1>6. ASSUME TrainerUpdate PROVE Consumed' = Consumed
  <2>1. CASE localStep < TriggerSyncStep
    <3>1. version' = version
      BY <1>6, <2>1 DEF TrainerUpdate
    <3>2. QED
      BY <1>2, <1>6, <2>1, <3>1, UpdateKeepsConsumed DEF Consumed
  <2>2. CASE localStep >= TriggerSyncStep
    <3>1. version' = version + 1
      BY <1>6, <2>2, FullyAsyncAssumption
      DEF TrainerUpdate, TypeOK, CountsOK
    <3>2. ConsumedThisVersion' = 0 /\ ConsumedThisVersion = SamplesPerSync
      BY <1>6, <2>2, UpdateKeepsConsumed
    <3>3. Consumed' = (version + 1) * SamplesPerSync + 0
      BY <1>2, <3>1, <3>2 DEF Consumed
    <3>4. (version + 1) * SamplesPerSync
            = version * SamplesPerSync + SamplesPerSync
      BY <1>1
    <3>5. QED
      BY <1>1, <3>2, <3>3, <3>4 DEF Consumed
  <2>3. QED
    BY <2>1, <2>2, FullyAsyncAssumption DEF TypeOK, CountsOK
<1>7. QED
  BY <1>3, <1>4, <1>5, <1>6

\* A put that finds the buffer full drops one entry and counts it, so buffer
\* and drops together grow by one.
LEMMA PutCounts ==
    ASSUME TypeOK, TaskPut \/ MainSignal
    PROVE  /\ Len(messages') \in Nat /\ dropped' \in Nat
           /\ Len(messages') + dropped' = Len(messages) + dropped + 1
<1>1. PICK x \in Entries : messages' = Offer(messages, MessageQueueSize, x)
  BY DEF TypeOK, CountsOK, TaskPut, MainSignal, Sample, FinishSignal,
     Entries
<1>2. dropped' = IF Len(messages) >= MessageQueueSize THEN dropped + 1 ELSE dropped
  BY DEF TaskPut, MainSignal, Displaces
<1>3. MessageQueueSize \in Nat /\ Len(messages) \in Nat /\ dropped \in Nat
  BY ConstantFacts DEF TypeOK, QueueOK, CountsOK
<1>4. CASE Len(messages) >= MessageQueueSize
  <2>1. Len(messages') = Len(messages)
    BY <1>1, <1>4, PutEntries
  <2>2. QED
    BY <1>2, <1>3, <1>4, <2>1
<1>5. CASE Len(messages) < MessageQueueSize
  <2>1. Len(messages') = Len(messages) + 1
    BY <1>1, <1>5, PutEntries
  <2>2. QED
    BY <1>2, <1>3, <1>5, <2>1
<1>6. QED
  BY <1>3, <1>4, <1>5

\* Every step moves a sample from one of the places to the next one.
LEMMA ConservedStep ==
    IndInv /\ TakenInv /\ Conserved /\ [Next]_vars => TakenInv' /\ Conserved'
<1> SUFFICES ASSUME IndInv, TakenInv, Conserved, [Next]_vars
             PROVE  TakenInv' /\ Conserved'
  OBVIOUS
<1>t. TypeOK /\ Control
  BY DEF IndInv
<1>a. UNCHANGED trainVars => Consumed' = Consumed
  BY <1>t, ConsumedMoves DEF trainVars
<1>b. Consumed \in Nat
  BY <1>t, ConsumedMoves
<1>c. Len(messages) \in Nat
  BY <1>t DEF TypeOK, QueueOK
<1> USE <1>t, <1>b, <1>c, FullyAsyncAssumption
<1> USE DEF TakenInv, Conserved, HeldSample, SamplesTaken, SignalQueued,
      Unsignalled, Control, TypeOK, PlacesOK, CountsOK,
      queueVars, sharedVars, feedVars, procVars, taskVars,
      monVars, trainVars, resetVars
<1>1. CASE Feed
  BY <1>1, <1>a DEF Feed
<1>2. CASE ProcCheck
  BY <1>2, <1>a DEF ProcCheck, ProcessorStep
<1>3. CASE ProcDecide
  BY <1>3, <1>a DEF ProcDecide, ProcessorStep, TooStale
<1>4. CASE ProcPause
  BY <1>4, <1>a DEF ProcPause, ProcessorStep
<1>5. CASE ProcDrain
  BY <1>5, <1>a DEF ProcDrain, ProcessorStep
<1>6. CASE ProcResumed
  BY <1>6, <1>a DEF ProcResumed, ProcessorStep
<1>7. CASE ProcTake
  BY <1>7, <1>a DEF ProcTake, ProcessorStep
<1>8. CASE ProcLimitWait
  <2>1. CASE ProcAcquire("limit", "limitwait")
    BY <2>1, <1>a DEF ProcAcquire, ProcessorStep
  <2>2. CASE ProcReapAll("limitwait", "limit")
    BY <2>2, <1>a DEF ProcReapAll, ProcessorStep
  <2>3. QED
    BY <1>8, <2>1, <2>2 DEF ProcLimitWait
<1>9. CASE ProcLimitPass
  BY <1>9, <1>a DEF ProcLimitPass, ProcessorStep
<1>10. CASE ProcSubmit
  BY <1>10, <1>a DEF ProcSubmit, ProcessorStep
<1>11. CASE ProcFinishWait
  <2>1. CASE ProcAcquire("finish", "finishwait")
    BY <2>1, <1>a DEF ProcAcquire, ProcessorStep
  <2>2. CASE ProcReapAll("finishwait", "finish")
    BY <2>2, <1>a DEF ProcReapAll, ProcessorStep
  <2>3. QED
    BY <1>11, <2>1, <2>2 DEF ProcFinishWait
<1>12. CASE ProcFinished
  BY <1>12, <1>a DEF ProcFinished, ProcessorStep
<1>13. CASE TaskPut
  <2>1. /\ generating > 0 /\ generating' = generating - 1
        /\ UNCHANGED <<raised, failures, taken, procPc, mainPc, trainVars>>
    BY <1>13 DEF TaskPut, TaskStep
  <2>2. /\ Len(messages') \in Nat /\ dropped' \in Nat
        /\ Len(messages') + dropped' = Len(messages) + dropped + 1
    BY <1>13, PutCounts
  <2>3. /\ UNCHANGED <<HeldSample, SamplesTaken, SignalQueued, Consumed>>
        /\ HeldSample \in Nat /\ SignalQueued \in Nat /\ SamplesTaken \in Nat
    BY <1>a, <2>1
  <2> HIDE DEF HeldSample, SamplesTaken, SignalQueued
  <2>4. QED
    BY <2>1, <2>2, <2>3
<1>14. CASE TaskReturn
  BY <1>14, <1>a DEF TaskReturn, TaskStep
<1>15. CASE TaskRaise
  BY <1>15, <1>a DEF TaskRaise, TaskStep
<1>16. CASE MainFinally
  BY <1>16, <1>a DEF MainFinally, MainStep
<1>17. CASE MainSignal
  <2>1. /\ mainPc = "signal" /\ mainPc' = "stop" /\ ~stopping
        /\ UNCHANGED <<generating, raised, failures, taken, procPc, trainVars>>
    BY <1>17 DEF MainSignal, MainStep
  <2>2. /\ Len(messages') \in Nat /\ dropped' \in Nat
        /\ Len(messages') + dropped' = Len(messages) + dropped + 1
    BY <1>17, PutCounts
  <2>3. SignalQueued = 0 /\ SignalQueued' = 1
    BY <2>1
  <2>4. QED
    BY <1>a, <2>1, <2>2, <2>3
<1>18. CASE MainStop
  BY <1>18, <1>a DEF MainStop, MainStep
<1>19. CASE MonRound
  BY <1>19, <1>a DEF MonRound, MonitorStep
<1>20. CASE MonReadStats
  BY <1>20, <1>a DEF MonReadStats, MonitorStep
<1>21. CASE MonDecide
  BY <1>21, <1>a DEF MonDecide, MonitorStep
<1>22. CASE MonResume
  BY <1>22, <1>a DEF MonResume, MonitorStep
<1>23. CASE TrainerGet
  <2>1. Len(messages') = Len(messages) - 1 /\ Head(messages) = messages[1]
        /\ Len(messages) > 0
    BY <1>23, TailFacts DEF TrainerGet, QueueOK
  <2>2. /\ ~stopping
        /\ Head(messages).end => stopping'
        /\ ~Head(messages).end => ~stopping'
        /\ UNCHANGED <<generating, raised, failures, taken, procPc, mainPc,
                       dropped>>
    BY <1>23 DEF TrainerGet, TrainerStep
  <2>3. Consumed' = IF Head(messages).end THEN Consumed ELSE Consumed + 1
    BY <1>23, ConsumedMoves
  <2>4. Head(messages).end => ~Unsignalled
    BY <2>1 DEF IndInv, SignalRoom
  <2>5. CASE Head(messages).end
    <3>1. SignalQueued = 1 /\ SignalQueued' = 0
      BY <2>2, <2>4, <2>5
    <3>2. QED
      BY <2>1, <2>2, <2>3, <2>5, <3>1
  <2>6. CASE ~Head(messages).end
    <3>1. /\ UNCHANGED <<HeldSample, SamplesTaken, SignalQueued>>
          /\ HeldSample \in Nat /\ SignalQueued \in Nat /\ SamplesTaken \in Nat
      BY <2>2, <2>6
    <3> HIDE DEF HeldSample, SamplesTaken, SignalQueued
    <3>2. QED
      BY <2>1, <2>2, <2>3, <2>6, <3>1
  <2>7. QED
    BY <2>5, <2>6
<1>24. CASE TrainerUpdate
  <2>1. Consumed' = Consumed
    BY <1>24, ConsumedMoves
  <2>2. QED
    BY <1>24, <2>1 DEF TrainerUpdate, TrainerStep
<1>25. CASE ResetBegin \/ ResetQueueSize \/ ResetWrite \/ TrainerFinal
  <2>1. UNCHANGED <<got, localStep, version, stopping, messages, dropped,
                    generating, raised, failures, taken, procPc, mainPc>>
    BY <1>25, Zenon
    DEF ResetBegin, ResetQueueSize, ResetWrite, TrainerFinal, TrainerStep,
        taskVars, procVars
  <2>2. Consumed' = Consumed
    BY <2>1, ConsumedMoves
  <2>3. QED
    BY <2>1, <2>2
<1>26. CASE UNCHANGED vars
  BY <1>26, <1>a DEF vars
<1>27. QED
  BY <1>1, <1>2, <1>3, <1>4, <1>5, <1>6, <1>7, <1>8, <1>9, <1>10, <1>11,
     <1>12, <1>13, <1>14, <1>15, <1>16, <1>17, <1>18, <1>19, <1>20, <1>21,
     <1>22, <1>23, <1>24, <1>25, <1>26
  DEF Next, Processor, Tasks, Main, Monitor, Trainer, Reset

\* Once the processor is done, no task is left to put behind the finish signal.
LEMMA EndLastStep == IndInv /\ EndLast /\ [Next]_vars => EndLast'
<1> SUFFICES ASSUME IndInv, EndLast, [Next]_vars, procPc' = "done"
             PROVE  /\ \A i \in 1..Len(messages') :
                         messages'[i].end => i = Len(messages')
                    /\ stopping' => messages' = <<>>
  BY DEF EndLast
<1>t. TypeOK /\ Control /\ Len(messages) \in Nat
  BY DEF IndInv, TypeOK, QueueOK
<1>1. procPc = "done" \/ ProcFinished
  BY Zenon DEF Next, Feed, Processor, ProcCheck, ProcDecide, ProcPause,
     ProcDrain, ProcResumed, ProcTake, ProcLimitWait, ProcLimitPass,
     ProcSubmit, ProcFinishWait, ProcAcquire, ProcReapAll,
     Tasks, TaskPut, TaskReturn, TaskRaise, TaskStep, Main, MainFinally,
     MainSignal, MainStop, MainStep, Monitor, MonRound, MonReadStats,
     MonDecide, MonResume, MonitorStep, Trainer, TrainerGet, TrainerUpdate,
     Reset, ResetBegin, ResetQueueSize, ResetWrite, TrainerFinal,
     TrainerStep, procVars, vars
<1>2. CASE ProcFinished
  <2>1. procPc = "finish" /\ UNCHANGED <<messages, stopping>>
    BY <1>2 DEF ProcFinished, ProcessorStep, queueVars, trainVars
  <2>2. Unsignalled /\ ~stopping
    BY <1>t, <2>1 DEF Control, Unsignalled
  <2>3. QED
    BY <2>1, <2>2 DEF IndInv, SignalRoom
<1>3. CASE procPc = "done"
  <2>1. ~TaskPut
    BY <1>3, <1>t DEF IndInv, Concurrency, ActiveTasks, TaskPut, TypeOK,
       CountsOK
  <2>2. CASE MainSignal
    <3>1. /\ Unsignalled /\ stopping' = stopping
          /\ messages' = Offer(messages, MessageQueueSize, FinishSignal(version))
          /\ FinishSignal(version) \in Entries
      BY <1>t, <2>2, EntryTypes
      DEF MainSignal, MainStep, trainVars, Unsignalled, TypeOK, CountsOK
    <3>2. ~stopping /\ \A j \in 1..Len(messages) : ~messages[j].end
      BY <1>t, <3>1 DEF Control, IndInv, SignalRoom
    <3>3. CASE Len(messages) >= MessageQueueSize
      <4>1. /\ Len(messages') = Len(messages)
            /\ \A j \in 1..(Len(messages) - 1) : messages'[j] = messages[j + 1]
        BY <1>t, <3>1, <3>3, PutEntries
      <4>2. QED
        BY <1>t, <3>1, <3>2, <4>1
    <3>4. CASE Len(messages) < MessageQueueSize
      <4>1. /\ Len(messages') = Len(messages) + 1
            /\ \A j \in 1..Len(messages) : messages'[j] = messages[j]
        BY <1>t, <3>1, <3>4, PutEntries
      <4>2. QED
        BY <1>t, <3>1, <3>2, <4>1
    <3>5. QED
      BY <1>t, <3>3, <3>4, ConstantFacts
  <2>3. CASE TrainerGet
    <3>1. /\ Len(messages') = Len(messages) - 1 /\ Head(messages) = messages[1]
          /\ \A i \in 1..Len(messages') : messages'[i] = messages[i + 1]
          /\ Len(messages) > 0 /\ messages' = Tail(messages)
      BY <1>t, <2>3, TailFacts DEF TrainerGet, TypeOK, QueueOK
    <3>2. ~stopping /\ (stopping' => messages[1].end)
      BY <1>t, <2>3, <3>1 DEF TrainerGet, Control
    <3>3. stopping' => Len(messages) = 1
      <4>1. 1 \in 1..Len(messages)
        BY <1>t, <3>1
      <4>2. messages[1].end => 1 = Len(messages)
        BY <1>3, <4>1 DEF EndLast
      <4>3. QED
        BY <3>2, <4>2
    <3>4. stopping' => messages' = <<>>
      <4>1. messages' \in Seq(Entries)
        BY <1>t, <3>1 DEF TypeOK, QueueOK
      <4>2. QED
        BY <3>1, <3>3, <4>1
    <3>5. ASSUME NEW i \in 1..Len(messages'), messages'[i].end PROVE i = Len(messages')
      <4>1. i + 1 \in 1..Len(messages) /\ messages[i + 1].end
        BY <1>t, <3>1, <3>5
      <4>2. i + 1 = Len(messages)
        BY <1>3, <4>1 DEF EndLast
      <4>3. QED
        BY <1>t, <3>1, <4>2
    <3>6. QED
      BY <3>4, <3>5
  <2>4. CASE UNCHANGED messages /\ ~TrainerGet
    <3>1. stopping' = stopping
      BY <2>4, Zenon DEF Next, Feed, Processor, ProcCheck, ProcDecide,
         ProcPause, ProcDrain, ProcResumed, ProcTake, ProcLimitWait,
         ProcLimitPass, ProcSubmit, ProcFinishWait, ProcFinished, ProcAcquire,
         ProcReapAll, ProcessorStep, Tasks, TaskPut, TaskReturn, TaskRaise,
         TaskStep, Main, MainFinally, MainSignal, MainStop, MainStep, Monitor,
         MonRound, MonReadStats, MonDecide, MonResume, MonitorStep, Trainer,
         TrainerUpdate, Reset, ResetBegin, ResetQueueSize, ResetWrite,
         TrainerFinal, trainVars, vars
    <3>2. QED
      BY <1>3, <2>4, <3>1 DEF EndLast
  <2>5. QED
    BY <2>1, <2>2, <2>3, <2>4, QueueSteps
<1>4. QED
  BY <1>1, <1>2, <1>3

\* The conservation invariant holds in every reachable state.
LEMMA ConservationHolds == Spec => [](IndInv /\ ConservationInv)
<1>1. Init => ConservationInv
  <2> SUFFICES ASSUME Init PROVE ConservationInv
    OBVIOUS
  <2>1. Len(messages) = 0 /\ SamplesPerSync \in Nat /\ version = 0
    BY ConstantFacts DEF Init
  <2>2. ConsumedThisVersion = 0
    BY FullyAsyncAssumption DEF Init, ConsumedThisVersion
  <2>3. Consumed = 0
    BY <2>1, <2>2 DEF Consumed
  <2>4. QED
    BY <2>1, <2>3, FullyAsyncAssumption
    DEF Init, ConservationInv, TakenInv, Conserved, EndLast, HeldSample,
        SamplesTaken, SignalQueued, Unsignalled
<1>2. IndInv /\ ConservationInv /\ [Next]_vars => ConservationInv'
  BY ConservedStep, EndLastStep DEF ConservationInv
<1>3. QED
  BY <1>1, <1>2, InitInv, NextInv, PTL DEF Spec

\* A run that ends normally has trained on, or reported as dropped, every sample
\* that _feed_samples fed, however pauses, resets and drops interleaved.
THEOREM SamplesConserved == Spec => []EverySampleAccounted
<1>1. IndInv /\ ConservationInv => EverySampleAccounted
  <2> SUFFICES ASSUME IndInv, ConservationInv, trPc = "stopped", procPc = "done"
               PROVE  messages = <<>> /\ Consumed + dropped = TotalSamples
    BY DEF EverySampleAccounted, Consumed
  <2>1. TypeOK /\ stopping /\ ActiveTasks = 0
    BY DEF IndInv, Control, Concurrency
  <2>2. messages = <<>> /\ Len(messages) = 0
    BY <2>1 DEF ConservationInv, EndLast
  <2>3. generating = 0 /\ raised = 0
    BY <2>1 DEF ActiveTasks, TypeOK, CountsOK
  <2>4. HeldSample = 0 /\ SignalQueued = 0 /\ SamplesTaken = TotalSamples
    BY <2>1 DEF HeldSample, SignalQueued, SamplesTaken
  <2>5. Consumed \in Nat /\ dropped \in Nat
    <3>1. Consumed \in Nat
      BY ConstantFacts, ConsumedFacts
      DEF IndInv, Consumed, TypeOK, CountsOK
    <3>2. QED
      BY <2>1, <3>1 DEF TypeOK, CountsOK
  <2>6. QED
    BY <2>2, <2>3, <2>4, <2>5 DEF ConservationInv, Conserved
<1>2. QED
  BY <1>1, ConservationHolds, PTL

-----------------------------------------------------------------------------
(* The message queue actor by itself (module MessageQueue), for a buffer of *)
(* any size, any number of consumers and any number of samples.             *)

\* The inductive invariant of the queue actor.
MQInv ==
    /\ MQTypeOK
    /\ HoldsNewestRun
    /\ Conservation
    /\ NoLostWakeup

\* The empty queue satisfies the invariant.
LEMMA QueueStarts == MQInit => MQInv
<1> SUFFICES ASSUME MQInit PROVE MQInv
  OBVIOUS
<1>1. queue = <<>> /\ Len(queue) = 0 /\ queue \in Seq(Nat)
  BY DEF MQInit
<1>2. MQTypeOK
  BY <1>1, MaxQueueSizeAssumption DEF MQInit, MQTypeOK, ConsumerStates
<1>3. HoldsNewestRun /\ Conservation /\ NoLostWakeup
  BY <1>1 DEF MQInit, HoldsNewestRun, Conservation, NoLostWakeup
<1>4. QED
  BY <1>2, <1>3 DEF MQInv

\* What put_sample does to the buffer of production numbers.
LEMMA PutShape ==
    ASSUME MQInv, PutSample
    PROVE  /\ queue' \in Seq(Nat)
           /\ queue'[Len(queue')] = total_produced + 1
           /\ Len(queue) >= MaxQueueSize =>
                /\ Len(queue') = Len(queue)
                /\ \A i \in 1..(Len(queue) - 1) : queue'[i] = queue[i + 1]
           /\ Len(queue) < MaxQueueSize =>
                /\ Len(queue') = Len(queue) + 1
                /\ \A i \in 1..Len(queue) : queue'[i] = queue[i]
<1> DEFINE Ids == Nat
           n == total_produced + 1
           r == Offer(queue, MaxQueueSize, n)
<1>1. /\ queue \in Seq(Ids) /\ n \in Ids /\ MaxQueueSize \in Nat \ {0}
      /\ Len(queue) \in Nat
  BY MaxQueueSizeAssumption DEF MQInv, MQTypeOK
<1>2. queue' = r
  BY DEF PutSample
<1> HIDE DEF Ids, n
<1>3. /\ r \in Seq(Ids) /\ r[Len(r)] = n
      /\ Len(queue) >= MaxQueueSize => Len(r) = Len(queue)
      /\ Len(queue) < MaxQueueSize => Len(r) = Len(queue) + 1
  BY <1>1, OfferFacts
<1>4. ASSUME Len(queue) >= MaxQueueSize, NEW i \in 1..(Len(queue) - 1)
      PROVE  r[i] = queue[i + 1]
  BY <1>1, <1>4, OfferShifts
<1>5. ASSUME Len(queue) < MaxQueueSize, NEW i \in 1..Len(queue)
      PROVE  r[i] = queue[i]
  BY <1>1, <1>5, OfferShifts
<1> HIDE DEF r
<1>6. QED
  BY <1>2, <1>3, <1>4, <1>5 DEF Ids, n

\* put_sample keeps the invariant: it notifies every waiter, and what it
\* discards is the oldest sample.
LEMMA PutKeeps == MQInv /\ PutSample => MQInv'
<1> SUFFICES ASSUME MQInv, PutSample PROVE MQInv'
  OBVIOUS
<1>1. /\ Len(queue) \in Nat /\ total_produced \in Nat
      /\ Len(queue) <= MaxQueueSize /\ MaxQueueSize \in Nat \ {0}
  BY MaxQueueSizeAssumption DEF MQInv, MQTypeOK
<1>2. total_produced' = total_produced + 1
  BY DEF PutSample
<1>3. /\ queue' \in Seq(Nat) /\ queue'[Len(queue')] = total_produced + 1
      /\ Len(queue) >= MaxQueueSize => Len(queue') = Len(queue)
      /\ Len(queue) < MaxQueueSize => Len(queue') = Len(queue) + 1
  BY PutShape
<1>4. MQTypeOK'
  <2>1. consumer' \in [Consumers -> ConsumerStates]
    BY DEF MQInv, MQTypeOK, PutSample, NotifyAll, ConsumerStates
  <2>2. Len(queue') <= MaxQueueSize
    BY <1>1, <1>3
  <2>3. QED
    BY <1>1, <1>3, <2>1, <2>2 DEF MQInv, MQTypeOK, PutSample
<1>5. HoldsNewestRun'
  <2> SUFFICES ASSUME NEW i \in 1..Len(queue')
               PROVE  queue'[i] = total_produced' - Len(queue') + i
    BY DEF HoldsNewestRun
  <2>1. CASE i = Len(queue')
    BY <1>1, <1>2, <1>3, <2>1
  <2>2. CASE i # Len(queue') /\ Len(queue) >= MaxQueueSize
    <3>1. i + 1 \in 1..Len(queue) /\ i < Len(queue) /\ i \in Nat \ {0}
      BY <1>1, <1>3, <2>2
    <3>2. queue'[i] = queue[i + 1]
      BY <1>1, <2>2, <3>1, PutShape
    <3>3. queue[i + 1] = total_produced - Len(queue) + (i + 1)
      BY <3>1 DEF MQInv, HoldsNewestRun
    <3>4. QED
      BY <1>1, <1>2, <1>3, <2>2, <3>1, <3>2, <3>3
  <2>3. CASE i # Len(queue') /\ Len(queue) < MaxQueueSize
    <3>1. i \in 1..Len(queue) /\ i <= Len(queue) /\ i \in Nat \ {0}
      BY <1>1, <1>3, <2>3
    <3>2. queue'[i] = queue[i]
      BY <1>1, <2>3, <3>1, PutShape
    <3>3. queue[i] = total_produced - Len(queue) + i
      BY <3>1 DEF MQInv, HoldsNewestRun
    <3>4. QED
      BY <1>1, <1>2, <1>3, <2>3, <3>1, <3>2, <3>3, SMTT(60)
  <2>4. QED
    BY <1>1, <2>1, <2>2, <2>3
<1>6. Conservation'
  <2>1. /\ total_consumed \in Nat /\ dropped_samples \in Nat /\ cleared \in Nat
        /\ lastDelivered \in Nat
        /\ total_produced =
             total_consumed + dropped_samples + cleared + Len(queue)
        /\ lastDelivered <= total_produced - Len(queue)
    BY DEF MQInv, MQTypeOK, Conservation
  <2>2. /\ UNCHANGED <<total_consumed, cleared, lastDelivered>>
        /\ Len(queue) >= MaxQueueSize => dropped_samples' = dropped_samples + 1
        /\ ~(Len(queue) >= MaxQueueSize) => dropped_samples' = dropped_samples
    BY DEF PutSample, Displaces
  <2>3. CASE Len(queue) >= MaxQueueSize
    <3>1. Len(queue') = Len(queue) /\ dropped_samples' = dropped_samples + 1
      BY <1>3, <2>2, <2>3
    <3>2. QED
      BY <1>1, <1>2, <2>1, <2>2, <3>1 DEF Conservation
  <2>4. CASE Len(queue) < MaxQueueSize
    <3>1. Len(queue') = Len(queue) + 1 /\ dropped_samples' = dropped_samples
      BY <1>1, <1>3, <2>2, <2>4
    <3>2. QED
      BY <1>1, <1>2, <2>1, <2>2, <3>1 DEF Conservation
  <2>5. QED
    BY <1>1, <2>3, <2>4
<1>7. NoLostWakeup'
  BY DEF MQInv, MQTypeOK, NoLostWakeup, PutSample, NotifyAll, ConsumerStates
<1>8. QED
  BY <1>4, <1>5, <1>6, <1>7 DEF MQInv

\* A delivery keeps the invariant; nobody waits while there is a sample.
LEMMA DeliverKeeps ==
    ASSUME MQInv, NEW c \in Consumers, Deliver(c) PROVE MQInv'
<1>1. /\ Len(queue) >= 1 /\ Head(queue) = queue[1] /\ Head(queue) \in Nat
      /\ queue' \in Seq(Nat) /\ Len(queue') = Len(queue) - 1
      /\ \A i \in 1..Len(queue') : queue'[i] = queue[i + 1]
  BY TailFacts DEF MQInv, MQTypeOK, Deliver
<1>2. Len(queue) \in Nat /\ total_produced \in Nat
  BY DEF MQInv, MQTypeOK
<1>3. MQTypeOK'
  BY <1>1, <1>2, MaxQueueSizeAssumption
  DEF MQInv, MQTypeOK, Deliver, ConsumerStates
<1>4. HoldsNewestRun'
  BY <1>1, <1>2 DEF MQInv, HoldsNewestRun, Deliver
<1>5. Conservation'
  BY <1>1, <1>2 DEF MQInv, MQTypeOK, HoldsNewestRun, Conservation, Deliver
<1>6. NoLostWakeup'
  BY DEF MQInv, MQTypeOK, NoLostWakeup, Deliver
<1>7. QED
  BY <1>3, <1>4, <1>5, <1>6 DEF MQInv

\* The other operations.
LEMMA OthersKeep ==
    ASSUME MQInv,
           \/ \E c \in Consumers : ReturnNone(c) \/ Wait(c)
           \/ ClearQueue \/ Shutdown \/ PutValidate \/ GetValidate
           \/ UNCHANGED mqVars
    PROVE  MQInv'
<1>0. Len(queue) \in Nat
  BY DEF MQInv, MQTypeOK
<1>1. ASSUME NEW c \in Consumers, ReturnNone(c) \/ Wait(c) PROVE MQInv'
  <2>1. MQTypeOK'
    BY <1>1 DEF MQInv, MQTypeOK, ReturnNone, Wait, ConsumerStates
  <2>2. HoldsNewestRun' /\ Conservation'
    BY <1>1 DEF MQInv, HoldsNewestRun, Conservation, ReturnNone, Wait
  <2>3. NoLostWakeup'
    BY <1>1 DEF MQInv, MQTypeOK, NoLostWakeup, ReturnNone, Wait
  <2>4. QED
    BY <2>1, <2>2, <2>3 DEF MQInv
<1>2. CASE ClearQueue
  <2>1. queue' = <<>> /\ Len(queue') = 0 /\ queue' \in Seq(Nat)
    BY <1>2 DEF ClearQueue
  <2>2. MQTypeOK'
    BY <1>0, <1>2, <2>1, MaxQueueSizeAssumption DEF MQInv, MQTypeOK, ClearQueue
  <2>3. HoldsNewestRun' /\ Conservation'
    BY <1>0, <1>2, <2>1
    DEF MQInv, MQTypeOK, HoldsNewestRun, Conservation, ClearQueue
  <2>4. NoLostWakeup'
    BY <1>2 DEF MQInv, NoLostWakeup, ClearQueue
  <2>5. QED
    BY <2>2, <2>3, <2>4 DEF MQInv
<1>3. CASE Shutdown
  <2>1. MQTypeOK'
    BY <1>3 DEF MQInv, MQTypeOK, Shutdown, NotifyAll, ConsumerStates
  <2>2. HoldsNewestRun' /\ Conservation'
    BY <1>3 DEF MQInv, HoldsNewestRun, Conservation, Shutdown
  <2>3. NoLostWakeup'
    BY <1>3 DEF MQInv, MQTypeOK, NoLostWakeup, Shutdown, NotifyAll, ConsumerStates
  <2>4. QED
    BY <2>1, <2>2, <2>3 DEF MQInv
<1>4. CASE PutValidate \/ GetValidate
  <2>1. MQTypeOK'
    BY <1>4, BoundsAssumption DEF MQInv, MQTypeOK, PutValidate, GetValidate
  <2>2. HoldsNewestRun' /\ Conservation' /\ NoLostWakeup'
    BY <1>4 DEF MQInv, HoldsNewestRun, Conservation, NoLostWakeup,
                PutValidate, GetValidate
  <2>3. QED
    BY <2>1, <2>2 DEF MQInv
<1>5. CASE UNCHANGED mqVars
  BY <1>5
  DEF mqVars, MQInv, MQTypeOK, HoldsNewestRun, Conservation, NoLostWakeup
<1>6. QED
  BY <1>1, <1>2, <1>3, <1>4, <1>5

\* The invariant is inductive.
LEMMA QueueKeeps == MQInv /\ [MQNext]_mqVars => MQInv'
  BY PutKeeps, DeliverKeeps, OthersKeep
  DEF MQNext, GetSample, Resume, Attempt

\* The inductive invariant of the queue holds in every reachable state.
LEMMA MQInvariance == MQSpec => []MQInv
<1>1. QED
  BY QueueStarts, QueueKeeps, PTL DEF MQSpec

\* Types, and the buffer stays within max_queue_size.
THEOREM MQTypeCorrect == MQSpec => []MQTypeOK
<1>1. MQInv => MQTypeOK
  BY DEF MQInv
<1>2. QED
  BY <1>1, MQInvariance, PTL

\* The buffer is always the newest unbroken run of samples.
THEOREM MQHoldsNewestRun == MQSpec => []HoldsNewestRun
<1>1. MQInv => HoldsNewestRun
  BY DEF MQInv
<1>2. QED
  BY <1>1, MQInvariance, PTL

\* get_statistics adds up: every sample ever put is buffered, consumed, counted
\* as dropped, or was discarded by clear_queue.
THEOREM MQConservation == MQSpec => []Conservation
<1>1. MQInv => Conservation
  BY DEF MQInv
<1>2. QED
  BY <1>1, MQInvariance, PTL

\* A caller parked on the condition variable has nothing to collect.
THEOREM MQNoLostWakeup == MQSpec => []NoLostWakeup
<1>1. MQInv => NoLostWakeup
  BY DEF MQInv
<1>2. QED
  BY <1>1, MQInvariance, PTL

\* Deliveries are in production order, each sample at most once.
THEOREM MQDeliveredInOrder == MQSpec => DeliveredInOrder
<1> DEFINE InOrder == total_consumed' # total_consumed =>
                        lastDelivered' > lastDelivered
<1>1. MQInv /\ [MQNext]_mqVars => [InOrder]_mqVars
  <2> SUFFICES ASSUME MQInv, MQNext PROVE InOrder
    OBVIOUS
  <2>1. ASSUME NEW c \in Consumers, Deliver(c) PROVE InOrder
    <3>1. /\ Len(queue) \in Nat /\ Len(queue) >= 1 /\ total_produced \in Nat
          /\ lastDelivered \in Nat
          /\ Head(queue) = queue[1]
      BY <2>1, TailFacts DEF MQInv, MQTypeOK, Deliver
    <3>2. queue[1] = total_produced - Len(queue) + 1
      BY <3>1 DEF MQInv, HoldsNewestRun
    <3>3. lastDelivered <= total_produced - Len(queue)
      BY DEF MQInv, Conservation
    <3>4. lastDelivered' = queue[1]
      BY <2>1, <3>1 DEF Deliver
    <3>5. QED
      BY <3>1, <3>2, <3>3, <3>4
  <2>2. ASSUME UNCHANGED total_consumed PROVE InOrder
    BY <2>2
  <2>3. QED
    BY <2>1, <2>2
    DEF MQNext, PutSample, ClearQueue, Shutdown, PutValidate, GetValidate,
        GetSample, Resume, Attempt, ReturnNone, Wait
<1>2. QED
  BY <1>1, MQInvariance, PTL DEF MQSpec, DeliveredInOrder

\* The actor implements the lossy FIFO channel: losing only from the old end,
\* and only at capacity or on clear_queue.
THEOREM MQImplementsFifo == MQSpec => ImplementsFifo
<1>1. MQInit => Fifo!FifoInit
  <2> SUFFICES ASSUME MQInit PROVE Fifo!FifoInit
    OBVIOUS
  <2>1. Len(queue) = 0 /\ total_produced = 0 /\ lastDelivered = 0
    BY DEF MQInit
  <2>2. QED
    BY <2>1 DEF Fifo!FifoInit
<1>2. MQInv /\ [MQNext]_mqVars => [Fifo!FifoNext]_(Fifo!fifoVars)
  <2> SUFFICES ASSUME MQInv, [MQNext]_mqVars
               PROVE  [Fifo!FifoNext]_(Fifo!fifoVars)
    OBVIOUS
  <2>0. /\ Len(queue) \in Nat /\ total_produced \in Nat
        /\ Len(queue) <= MaxQueueSize /\ MaxQueueSize \in Nat \ {0}
    BY MaxQueueSizeAssumption DEF MQInv, MQTypeOK
  <2>1. CASE PutSample
    <3>1. /\ Len(queue) >= MaxQueueSize => Len(queue') = Len(queue)
          /\ Len(queue) < MaxQueueSize => Len(queue') = Len(queue) + 1
          /\ total_produced' = total_produced + 1
          /\ lastDelivered' = lastDelivered
      BY <2>1, PutShape DEF PutSample
    <3>2. Fifo!Send
      BY <2>0, <3>1 DEF Fifo!Send, Fifo!InTransit
    <3>3. QED
      BY <3>2 DEF Fifo!FifoNext
  <2>2. ASSUME NEW c \in Consumers, Deliver(c) PROVE Fifo!Deliver
    <3>1. /\ Len(queue) >= 1 /\ Len(queue') = Len(queue) - 1
          /\ lastDelivered' = queue[1]
          /\ total_produced' = total_produced
      BY <2>2, TailFacts DEF MQInv, MQTypeOK, Deliver
    <3>2. queue[1] = total_produced - Len(queue) + 1
      BY <2>0, <3>1 DEF MQInv, HoldsNewestRun
    <3>3. QED
      BY <2>0, <3>1, <3>2 DEF Fifo!Deliver
  <2>3. CASE ClearQueue
    <3>1. /\ Len(queue') = 0 /\ total_produced' = total_produced
          /\ lastDelivered' = lastDelivered
      BY <2>3 DEF ClearQueue
    <3>2. Fifo!Flush
      BY <2>0, <3>1 DEF Fifo!Flush
    <3>3. QED
      BY <3>2 DEF Fifo!FifoNext
  <2>4. CASE UNCHANGED <<queue, total_produced, lastDelivered>>
    BY <2>4 DEF Fifo!fifoVars
  <2>5. QED
    BY <2>1, <2>2, <2>3, <2>4
    DEF MQNext, mqVars, Shutdown, PutValidate, GetValidate, GetSample, Resume,
        Attempt, ReturnNone, Wait, Fifo!FifoNext
<1>3. QED
  BY <1>1, <1>2, MQInvariance, PTL DEF MQSpec, ImplementsFifo, Fifo!FifoSpec
=============================================================================

---------------------------- MODULE MessageQueue ----------------------------
(***************************************************************************)
(* The MessageQueue actor (fully_async_policy/message_queue.py).           *)
(*                                                                         *)
(* Every method body runs under one asyncio lock and awaits nothing while  *)
(* it holds it, except get_sample, which waits on the condition variable   *)
(* and gives the lock up while it does.  A method is therefore one action, *)
(* and get_sample is one action per attempt: it is taken from the start of *)
(* the call and again after every notification.                            *)
(*                                                                         *)
(* Samples are opaque to the queue: a sample is its production number.     *)
(***************************************************************************)
EXTENDS DropOldest, Integers

CONSTANTS
    Consumers,       \* callers of get_sample
    MaxQueueSize,    \* max_queue_size
    ProducedBound,   \* bound on total_produced
    ValidateBound    \* bound on the length of val_queue

ASSUME MaxQueueSizeAssumption == MaxQueueSize \in Nat \ {0}
ASSUME BoundsAssumption == ProducedBound \in Nat /\ ValidateBound \in Nat

VARIABLES
    queue,            \* production numbers, oldest first
    valQueue,         \* length of val_queue; its payloads are opaque
    running,
    consumer,         \* where each caller of get_sample is
    total_produced,
    total_consumed,
    dropped_samples,
    cleared,          \* history: samples discarded by clear_queue
    lastDelivered     \* history: number of the last sample delivered

mqVars == <<queue, valQueue, running, consumer, total_produced, total_consumed,
          dropped_samples, cleared, lastDelivered>>

ConsumerStates == {"idle", "waiting", "notified", "closed"}

MQInit ==
    /\ queue = <<>>
    /\ valQueue = 0
    /\ running = TRUE
    /\ consumer = [c \in Consumers |-> "idle"]
    /\ total_produced = 0
    /\ total_consumed = 0
    /\ dropped_samples = 0
    /\ cleared = 0
    /\ lastDelivered = 0

\* Fault: nobody is notified.
NotifyNobody == UNCHANGED consumer

\* _consumer_condition.notify_all(): every waiter will try again.
NotifyAll ==
    consumer' = [c \in Consumers |->
                    IF consumer[c] = "waiting" THEN "notified" ELSE consumer[c]]

PutSample ==
    /\ total_produced < ProducedBound
    /\ queue' = Offer(queue, MaxQueueSize, total_produced + 1)
    /\ dropped_samples' = IF Displaces(queue, MaxQueueSize)
                          THEN dropped_samples + 1 ELSE dropped_samples
    /\ total_produced' = total_produced + 1
    /\ NotifyAll
    /\ UNCHANGED <<valQueue, running, total_consumed, cleared, lastDelivered>>

\* Fault: pop instead of popleft.
DeliverNewest(c) ==
    /\ queue # <<>>
    /\ queue' = SubSeq(queue, 1, Len(queue) - 1)
    /\ total_consumed' = total_consumed + 1
    /\ lastDelivered' = queue[Len(queue)]
    /\ consumer' = [consumer EXCEPT ![c] = "idle"]
    /\ UNCHANGED <<running, total_produced, dropped_samples, cleared, valQueue>>

\* One evaluation of get_sample's while condition by caller c, with what
\* follows it: deliver, return None (the caller sees "closed"), or wait.
Deliver(c) ==
    /\ queue # <<>>
    /\ queue' = Tail(queue)
    /\ total_consumed' = total_consumed + 1
    /\ lastDelivered' = Head(queue)
    /\ consumer' = [consumer EXCEPT ![c] = "idle"]
    /\ UNCHANGED <<running, total_produced, dropped_samples, cleared, valQueue>>

ReturnNone(c) ==
    /\ queue = <<>>
    /\ ~running
    /\ consumer' = [consumer EXCEPT ![c] = "closed"]
    /\ UNCHANGED <<queue, valQueue, running, total_produced, total_consumed,
                   dropped_samples, cleared, lastDelivered>>

Wait(c) ==
    /\ queue = <<>>
    /\ running
    /\ consumer' = [consumer EXCEPT ![c] = "waiting"]
    /\ UNCHANGED <<queue, valQueue, running, total_produced, total_consumed,
                   dropped_samples, cleared, lastDelivered>>

Attempt(c) == Deliver(c) \/ ReturnNone(c) \/ Wait(c)

GetSample(c) == consumer[c] = "idle" /\ Attempt(c)

Resume(c) == consumer[c] = "notified" /\ Attempt(c)

ClearQueue ==
    /\ queue # <<>>
    /\ cleared' = cleared + Len(queue)
    /\ queue' = <<>>
    /\ UNCHANGED <<valQueue, running, consumer, total_produced, total_consumed,
                   dropped_samples, lastDelivered>>

\* Fault: shutdown only lowers the flag.
ShutdownSilent ==
    /\ running
    /\ running' = FALSE
    /\ UNCHANGED <<consumer, queue, valQueue, total_produced, total_consumed,
                   dropped_samples, cleared, lastDelivered>>

Shutdown ==
    /\ running
    /\ running' = FALSE
    /\ NotifyAll
    /\ UNCHANGED <<queue, valQueue, total_produced, total_consumed,
                   dropped_samples, cleared, lastDelivered>>

PutValidate ==
    /\ valQueue < ValidateBound
    /\ valQueue' = valQueue + 1
    /\ UNCHANGED <<queue, running, consumer, total_produced, total_consumed,
                   dropped_samples, cleared, lastDelivered>>

\* get_validate never waits: on an empty queue it returns None.
GetValidate ==
    /\ valQueue > 0
    /\ valQueue' = valQueue - 1
    /\ UNCHANGED <<queue, running, consumer, total_produced, total_consumed,
                   dropped_samples, cleared, lastDelivered>>

MQNext ==
    \/ PutSample
    \/ ClearQueue
    \/ Shutdown
    \/ PutValidate \/ GetValidate
    \/ \E c \in Consumers : GetSample(c) \/ Resume(c)

\* A notified caller holds a place in the lock's FIFO queue, so it runs.
MQFairness == \A c \in Consumers : WF_mqVars(Resume(c))

MQSpec == MQInit /\ [][MQNext]_mqVars

MQFairSpec == MQSpec /\ MQFairness

-----------------------------------------------------------------------------

\* Every field has its type and the buffer never exceeds max_queue_size.
MQTypeOK ==
    /\ queue \in Seq(Nat) /\ Len(queue) <= MaxQueueSize
    /\ valQueue \in Nat
    /\ running \in BOOLEAN
    /\ consumer \in [Consumers -> ConsumerStates]
    /\ total_produced \in Nat
    /\ total_consumed \in Nat
    /\ dropped_samples \in Nat
    /\ cleared \in Nat
    /\ lastDelivered \in Nat

\* The buffer is always the newest unbroken run of samples: put_sample loses
\* from the old end only, and nothing is lost in between.
HoldsNewestRun ==
    \A i \in 1..Len(queue) : queue[i] = total_produced - Len(queue) + i

\* get_statistics adds up: every sample ever put is buffered, consumed,
\* counted as dropped, or was discarded by clear_queue, and the last sample a
\* consumer saw is older than everything still buffered.
Conservation ==
    /\ total_produced =
         total_consumed + dropped_samples + cleared + Len(queue)
    /\ lastDelivered <= total_produced - Len(queue)

\* No lost wake-up: a caller parked in _consumer_condition.wait() has nothing
\* to collect and no shutdown to notice; put_sample and shutdown notify.
NoLostWakeup ==
    (\E c \in Consumers : consumer[c] = "waiting") => queue = <<>> /\ running

\* Deliveries are in production order, each sample at most once, whoever
\* consumes it.
DeliveredInOrder ==
    [][total_consumed' # total_consumed => lastDelivered' > lastDelivered]_mqVars

\* After shutdown no caller stays blocked inside get_sample.
ShutdownReleasesConsumers ==
    \A c \in Consumers :
        ~running /\ consumer[c] \in {"waiting", "notified"}
            ~> consumer[c] \notin {"waiting", "notified"}

\* The actor implements the lossy FIFO channel.
Fifo == INSTANCE LossyFifo WITH
            Capacity <- MaxQueueSize,
            sent <- total_produced,
            gone <- total_produced - Len(queue),
            last <- lastDelivered

ImplementsFifo == Fifo!FifoSpec
=============================================================================

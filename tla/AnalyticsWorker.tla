--------------------------- MODULE AnalyticsWorker ---------------------------
(***************************************************************************)
(* The in-process analytics worker of internal/worker/analytics_worker.go: *)
(* a buffered channel, Enqueue that never blocks, N consumers, and Start,  *)
(* which waits for its context, closes the channel and then waits for the  *)
(* consumers or for five seconds.                                          *)
(*                                                                         *)
(* Go's channel is modelled by what the code relies on: a send finds the   *)
(* channel closed, full or with room; a receive takes the oldest event,    *)
(* also after close, and ends the range loop once it is closed and empty.  *)
(***************************************************************************)
EXTENDS Integers, Sequences, FiniteSets, SequencesExt

CONSTANTS
  Events,      \* the click events offered to Enqueue
  Consumers,   \* the consume goroutines, concurrency of them
  BufferSize,  \* capacity of the channel
  NoEvent

ASSUME WorkerAssumption ==
  /\ BufferSize \in Nat \ {0}
  /\ IsFiniteSet(Consumers) /\ Consumers # {}
  /\ NoEvent \notin Events

VARIABLES
  queue,     \* the events in the channel, oldest first
  closed,    \* whether the channel has been closed
  canceled,  \* whether the context of Start has been canceled
  starter,   \* where Start is, and at the end which case of its select ran
  consumer,  \* where each consumer is
  holds,     \* the event each consumer is processing, or NoEvent
  done,      \* tokens in the done channel
  offered,   \* history: events that Enqueue has been called with
  dropped,   \* history: events dropped because the queue was full
  received,  \* history: events taken from the channel, in order
  panicked   \* a send on the closed channel has killed the process

vars == <<queue, closed, canceled, starter, consumer, holds, done,
          offered, dropped, received, panicked>>

Ended == starter \in {"drained", "timed_out"}

-----------------------------------------------------------------------------
Init ==
  /\ queue = <<>>
  /\ closed = FALSE
  /\ canceled = FALSE
  /\ starter = "serving"
  /\ consumer = [k \in Consumers |-> "ready"]
  /\ holds = [k \in Consumers |-> NoEvent]
  /\ done = 0
  /\ offered = {}
  /\ dropped = {}
  /\ received = <<>>
  /\ panicked = FALSE

-----------------------------------------------------------------------------
(* Slip: one event more than the buffer holds. *)
Room_OffByOne == Len(queue) <= BufferSize

Room == Len(queue) < BufferSize

(* Enqueue, called by whoever has a click event: a send on the closed       *)
(* channel panics, a full channel drops the event.                          *)
Enqueue(e) ==
  /\ e \notin offered
  /\ offered' = offered \cup {e}
  /\ \/ /\ closed
        /\ panicked' = TRUE
        /\ UNCHANGED <<queue, dropped>>
     \/ /\ ~closed /\ Room
        /\ queue' = Append(queue, e)
        /\ UNCHANGED <<dropped, panicked>>
     \/ /\ ~closed /\ ~Room
        /\ dropped' = dropped \cup {e}
        /\ UNCHANGED <<queue, panicked>>
  /\ UNCHANGED <<closed, canceled, starter, consumer, holds, done, received>>

(* The owner of the worker cancels the context. *)
Cancel ==
  /\ ~canceled
  /\ canceled' = TRUE
  /\ UNCHANGED <<queue, closed, starter, consumer, holds, done, offered, dropped, received, panicked>>

-----------------------------------------------------------------------------
(* Start: <-ctx.Done(), then close(queue). *)
CloseQueue ==
  /\ starter = "serving" /\ canceled
  /\ closed' = TRUE
  /\ starter' = "draining"
  /\ UNCHANGED <<queue, canceled, consumer, holds, done, offered, dropped, received, panicked>>

(* Every consumer has put its token into done. *)
DrainDone ==
  /\ starter = "draining" /\ done = Cardinality(Consumers)
  /\ starter' = "drained"
  /\ UNCHANGED <<queue, closed, canceled, consumer, holds, done, offered, dropped, received, panicked>>

(* The five seconds are over, whatever the consumers are doing. *)
DrainTimeout ==
  /\ starter = "draining"
  /\ starter' = "timed_out"
  /\ UNCHANGED <<queue, closed, canceled, consumer, holds, done, offered, dropped, received, panicked>>

-----------------------------------------------------------------------------
(* Slip: the event stays at the head of the channel. *)
Rest_Peek(q) == q

Rest(q) == Tail(q)

Receive(k) ==
  /\ consumer[k] = "ready" /\ queue # <<>>
  /\ consumer' = [consumer EXCEPT ![k] = "processing"]
  /\ holds' = [holds EXCEPT ![k] = Head(queue)]
  /\ queue' = Rest(queue)
  /\ received' = Append(received, Head(queue))
  /\ UNCHANGED <<closed, canceled, starter, done, offered, dropped, panicked>>

(* ProcessClickEvent returns, with or without an error, which is only logged. *)
Process(k) ==
  /\ consumer[k] = "processing"
  /\ consumer' = [consumer EXCEPT ![k] = "checking"]
  /\ holds' = [holds EXCEPT ![k] = NoEvent]
  /\ UNCHANGED <<queue, closed, canceled, starter, done, offered, dropped, received, panicked>>

Leave(k) ==
  /\ consumer' = [consumer EXCEPT ![k] = "gone"]
  /\ done' = done + 1
  /\ UNCHANGED <<queue, closed, canceled, starter, holds, offered, dropped, received, panicked>>

(* Between two events the consumer looks at the context. *)
Check(k) ==
  /\ consumer[k] = "checking"
  /\ \/ canceled /\ Leave(k)
     \/ /\ ~canceled
        /\ consumer' = [consumer EXCEPT ![k] = "ready"]
        /\ UNCHANGED <<queue, closed, canceled, starter, holds, done, offered, dropped, received, panicked>>

(* Slip: the consumer does not wait on an empty queue. *)
RangeEnds_OnEmpty(k) == consumer[k] = "ready" /\ queue = <<>> /\ Leave(k)

(* Slip: a consumer waiting for an event never learns that none will come. *)
RangeEnds_Never(k) == FALSE /\ Leave(k)

(* The range loop ends: the channel is closed and empty. *)
RangeEnds(k) == consumer[k] = "ready" /\ closed /\ queue = <<>> /\ Leave(k)

-----------------------------------------------------------------------------
Consume(k) == Receive(k) \/ Process(k) \/ Check(k) \/ RangeEnds(k)

Next ==
  /\ ~panicked
  /\ \/ \E e \in Events : Enqueue(e)
     \/ Cancel
     \/ CloseQueue \/ DrainDone \/ DrainTimeout
     \/ \E k \in Consumers : Consume(k)

Spec == Init /\ [][Next]_vars

(* The scheduler runs every goroutine that can go on, the timer fires, and  *)
(* processing one event is limited to ten seconds. Nobody has to cancel.    *)
Fairness ==
  /\ WF_vars(~panicked /\ CloseQueue)
  /\ WF_vars(~panicked /\ (DrainDone \/ DrainTimeout))
  /\ \A k \in Consumers : WF_vars(~panicked /\ Consume(k))

FairSpec == Spec /\ Fairness

-----------------------------------------------------------------------------
TypeOK ==
  /\ queue \in Seq(Events) /\ Len(queue) <= BufferSize
  /\ closed \in BOOLEAN /\ canceled \in BOOLEAN /\ panicked \in BOOLEAN
  /\ starter \in {"serving", "draining", "drained", "timed_out"}
  /\ consumer \in [Consumers -> {"ready", "processing", "checking", "gone"}]
  /\ holds \in [Consumers -> Events \cup {NoEvent}]
  /\ done \in 0..Cardinality(Consumers)
  /\ offered \subseteq Events /\ dropped \subseteq offered
  /\ received \in Seq(Events)

Held == {holds[k] : k \in Consumers} \ {NoEvent}

Handoff == INSTANCE EventHandoff WITH
  Capacity <- BufferSize,
  waiting <- queue,
  working <- Held,
  past <- dropped \cup (ToSet(received) \ Held),
  open <- ~closed

(* The channel and its consumers hand events on in their order, each to one *)
(* consumer and never again, and drop one only when the buffer is full.     *)
ImplementsHandoff == Handoff!Spec

(* Somebody takes every event that waits, however many come after it: the  *)
(* consumers outlast an empty queue and events whose processing failed.     *)
(* Only the end of the worker or of the process may leave it behind.        *)
QueuedIsReceived ==
  \A e \in Events : e \in ToSet(queue) ~> e \in ToSet(received) \/ canceled \/ panicked

(* Once its context is canceled Start returns and no consumer is left       *)
(* behind, unless a late Enqueue has brought the process down.              *)
StartReturns ==
  canceled ~> panicked \/ (Ended /\ \A k \in Consumers : consumer[k] = "gone")
=============================================================================

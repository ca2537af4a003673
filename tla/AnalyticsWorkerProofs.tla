----------------------- MODULE AnalyticsWorkerProofs -----------------------
(***************************************************************************)
(* For any number of events and consumers and any buffer: the types and    *)
(* the counts of AnalyticsWorker, and that it implements EventHandoff.     *)
(***************************************************************************)
EXTENDS AnalyticsWorker, FiniteSetTheorems, TLAPS

Gone == {k \in Consumers : consumer[k] = "gone"}

(* The channel is closed by Start, once its context is canceled. *)
ClosedByStart ==
  /\ closed <=> starter # "serving"
  /\ closed => canceled

(* A token in done for each consumer that has left. *)
DoneCounts == done = Cardinality(Gone)

CountInv == TypeOK /\ ClosedByStart /\ DoneCounts

-----------------------------------------------------------------------------
(* One more consumer makes one more, and there are never more of them than *)
(* consumers.                                                              *)
LEMMA OneMore ==
  ASSUME NEW S \in SUBSET Consumers, NEW k \in Consumers \ S
  PROVE  /\ Cardinality(S \cup {k}) = Cardinality(S) + 1
         /\ Cardinality(S \cup {k}) <= Cardinality(Consumers)
         /\ Cardinality(S) \in Nat
<1>1. IsFiniteSet(S) /\ S \cup {k} \subseteq Consumers
  BY WorkerAssumption, FS_Subset
<1> QED
  BY <1>1, WorkerAssumption, FS_AddElement, FS_Subset, FS_CardinalityType

(* The numbers of consumers are numbers. *)
LEMMA Counted == Cardinality(Gone) \in Nat /\ Cardinality(Consumers) \in Nat
<1>1. Gone \subseteq Consumers
  BY DEF Gone
<1> QED
  BY <1>1, WorkerAssumption, FS_Subset, FS_CardinalityType

-----------------------------------------------------------------------------
(* The counts hold when the worker starts. *)
LEMMA InitCounts == Init => CountInv
<1> SUFFICES ASSUME Init PROVE CountInv
  OBVIOUS
<1> USE DEF Init
<1>1. Cardinality(Gone) = 0
  <2>1. Gone = {}
    BY DEF Gone
  <2> QED
    BY <2>1, FS_EmptySet
<1>2. TypeOK
  <2>1. <<>> \in Seq(Events) /\ Len(<<>>) = 0
    OBVIOUS
  <2>2. BufferSize \in Nat
    BY WorkerAssumption
  <2>3. 0 \in 0..Cardinality(Consumers)
    BY Counted
  <2>4. queue \in Seq(Events) /\ Len(queue) <= BufferSize /\ received \in Seq(Events)
    BY <2>1, <2>2
  <2>5. /\ consumer \in [Consumers -> {"ready", "processing", "checking", "gone"}]
        /\ holds \in [Consumers -> Events \cup {NoEvent}]
    OBVIOUS
  <2> QED
    BY <2>3, <2>4, <2>5 DEF TypeOK
<1> QED
  BY <1>1, <1>2 DEF CountInv, ClosedByStart, DoneCounts

(* A consumer leaves: done and Gone grow together. *)
LEMMA LeaveCounts ==
  ASSUME CountInv, NEW k \in Consumers, consumer[k] \in {"ready", "checking"}, Leave(k)
  PROVE  CountInv'
<1> USE DEF CountInv, TypeOK, Leave
<1>1. Gone' = Gone \cup {k} /\ k \in Consumers \ Gone /\ Gone \subseteq Consumers
  BY DEF Gone
<1>2. Cardinality(Gone') = Cardinality(Gone) + 1 /\ Cardinality(Gone') <= Cardinality(Consumers)
  BY <1>1, OneMore
<1>3. DoneCounts' /\ done' \in 0..Cardinality(Consumers)
  BY <1>2, Counted DEF DoneCounts
<1> QED
  BY <1>3 DEF ClosedByStart

(* A consumer takes an event. *)
LEMMA ReceiveCounts ==
  ASSUME CountInv, NEW k \in Consumers, Receive(k)
  PROVE  CountInv'
<1> USE DEF CountInv, TypeOK, Receive
<1>1. Head(queue) \in Events /\ Tail(queue) \in Seq(Events) /\ Len(Tail(queue)) = Len(queue) - 1
  OBVIOUS
<1>2. TypeOK'
  <2>1. queue' \in Seq(Events) /\ Len(queue') <= BufferSize
    BY <1>1, WorkerAssumption DEF Rest
  <2>2. received' \in Seq(Events)
    BY <1>1
  <2>3. holds' \in [Consumers -> Events \cup {NoEvent}]
    BY <1>1
  <2> QED
    BY <2>1, <2>2, <2>3
<1>3. Gone' = Gone
  BY DEF Gone
<1> QED
  BY <1>2, <1>3 DEF ClosedByStart, DoneCounts

(* Every step of the worker keeps the counts. *)
LEMMA StepCounts == CountInv /\ [Next]_vars => CountInv'
<1> SUFFICES ASSUME CountInv, [Next]_vars PROVE CountInv'
  OBVIOUS
<1> USE DEF CountInv, TypeOK
<1>1. ASSUME NEW e \in Events, Enqueue(e) PROVE CountInv'
  <2> USE <1>1 DEF Enqueue
  <2>1. queue' \in Seq(Events) /\ Len(queue') <= BufferSize
    <3>1. CASE UNCHANGED queue
      BY <3>1
    <3>2. CASE Room /\ queue' = Append(queue, e)
      <4>1. Append(queue, e) \in Seq(Events) /\ Len(Append(queue, e)) = Len(queue) + 1
        OBVIOUS
      <4>2. Len(queue) \in Nat /\ BufferSize \in Nat
        BY WorkerAssumption
      <4> QED
        BY <3>2, <4>1, <4>2 DEF Room
    <3> QED
      BY <3>1, <3>2
  <2>2. TypeOK'
    BY <2>1
  <2>3. Gone' = Gone
    BY DEF Gone
  <2> QED
    BY <2>2, <2>3 DEF ClosedByStart, DoneCounts
<1>2. CASE Cancel
  <2> USE <1>2 DEF Cancel
  <2>1. Gone' = Gone
    BY DEF Gone
  <2> QED
    BY <2>1 DEF ClosedByStart, DoneCounts
<1>3. CASE CloseQueue \/ DrainDone \/ DrainTimeout
  <2> USE <1>3 DEF CloseQueue, DrainDone, DrainTimeout
  <2>1. Gone' = Gone
    BY DEF Gone
  <2>2. TypeOK' /\ ClosedByStart'
    BY DEF ClosedByStart
  <2> QED
    BY <2>1, <2>2 DEF DoneCounts
<1>4. ASSUME NEW k \in Consumers, Receive(k) PROVE CountInv'
  BY <1>4, ReceiveCounts
<1>5. ASSUME NEW k \in Consumers, Process(k) PROVE CountInv'
  <2> USE <1>5 DEF Process
  <2>1. Gone' = Gone
    BY DEF Gone
  <2> QED
    BY <2>1 DEF ClosedByStart, DoneCounts
<1>6. ASSUME NEW k \in Consumers, Check(k) PROVE CountInv'
  <2>1. CASE canceled
    BY <1>6, <2>1, LeaveCounts DEF Check
  <2>2. CASE ~canceled
    <3> USE <1>6, <2>2 DEF Check
    <3>1. Gone' = Gone
      BY DEF Gone
    <3> QED
      BY <3>1 DEF ClosedByStart, DoneCounts
  <2> QED
    BY <2>1, <2>2
<1>7. ASSUME NEW k \in Consumers, RangeEnds(k) PROVE CountInv'
  BY <1>7, LeaveCounts DEF RangeEnds
<1>8. CASE UNCHANGED vars
  <2> USE <1>8 DEF vars
  <2>1. Gone' = Gone
    BY DEF Gone
  <2> QED
    BY <2>1 DEF ClosedByStart, DoneCounts
<1> QED
  BY <1>1, <1>2, <1>3, <1>4, <1>5, <1>6, <1>7, <1>8 DEF Next, Consume

-----------------------------------------------------------------------------
(* Every variable keeps its type; the channel never holds more than its     *)
(* buffer, and done never more than a token for each consumer.             *)
THEOREM TypeCorrect == Spec => []TypeOK
<1>1. CountInv => TypeOK
  BY DEF CountInv
<1> QED
  BY InitCounts, StepCounts, <1>1, PTL DEF Spec

-----------------------------------------------------------------------------
(* A consumer holds an event exactly while it processes one. *)
HoldsFollows ==
  \A k \in Consumers : holds[k] # NoEvent <=> consumer[k] = "processing"

(* No two consumers hold the same event, and each has taken the one it holds. *)
HeldOnce ==
  /\ \A k, l \in Consumers : holds[k] = holds[l] /\ holds[k] # NoEvent => k = l
  /\ Held \subseteq ToSet(received)

(* An event waits in one place only, and not after it was taken. *)
WaitsOnce ==
  /\ \A i, j \in 1..Len(queue) : queue[i] = queue[j] => i = j
  /\ ToSet(queue) \cap ToSet(received) = {}

(* Whatever the worker has seen was offered to it. *)
SeenIsOffered == ToSet(queue) \cup ToSet(received) \cup dropped \subseteq offered

HandInv == CountInv /\ HoldsFollows /\ HeldOnce /\ WaitsOnce /\ SeenIsOffered

-----------------------------------------------------------------------------
(* What a queue holds after an event was appended, and where. *)
LEMMA AppendedSet ==
  ASSUME NEW S, NEW q \in Seq(S), NEW e \in S
  PROVE  /\ ToSet(Append(q, e)) = ToSet(q) \cup {e}
         /\ Append(q, e) \in Seq(S)
         /\ \A i \in 1..Len(Append(q, e)) :
              IF i <= Len(q) THEN i \in 1..Len(q) /\ Append(q, e)[i] = q[i]
                             ELSE i = Len(q) + 1 /\ Append(q, e)[i] = e
<1>1. /\ Append(q, e) \in Seq(S) /\ Len(q) \in Nat
      /\ Len(Append(q, e)) = Len(q) + 1
      /\ DOMAIN q = 1..Len(q) /\ DOMAIN Append(q, e) = 1..(Len(q) + 1)
  OBVIOUS
<1>2. Append(q, e)[Len(q) + 1] = e
  OBVIOUS
<1>3. \A i \in 1..Len(q) : Append(q, e)[i] = q[i]
  OBVIOUS
<1>4. \A i \in 1..(Len(q) + 1) : i \in 1..Len(q) \/ i = Len(q) + 1
  BY <1>1
<1>5. 1..Len(q) \subseteq 1..(Len(q) + 1) /\ Len(q) + 1 \in 1..(Len(q) + 1)
  BY <1>1
<1>6. ToSet(Append(q, e)) = ToSet(q) \cup {e}
  BY <1>1, <1>2, <1>3, <1>4, <1>5 DEF ToSet
<1>7. \A i \in 1..Len(q) : i <= Len(q)
  BY <1>1
<1>8. ~(Len(q) + 1 <= Len(q))
  BY <1>1
<1> QED
  BY <1>1, <1>2, <1>3, <1>4, <1>6, <1>7, <1>8

(* The rest of a sequence without repetition no longer has its head. *)
LEMMA RestSet ==
  ASSUME NEW S, NEW q \in Seq(S), q # <<>>,
         \A i, j \in 1..Len(q) : q[i] = q[j] => i = j
  PROVE  /\ ToSet(Tail(q)) = ToSet(q) \ {Head(q)}
         /\ Head(q) \in ToSet(q)
         /\ \A i, j \in 1..Len(Tail(q)) : Tail(q)[i] = Tail(q)[j] => i = j
<1>1. /\ Len(q) \in Nat /\ Len(q) > 0 /\ Tail(q) \in Seq(S)
      /\ Len(Tail(q)) = Len(q) - 1
      /\ DOMAIN q = 1..Len(q) /\ DOMAIN Tail(q) = 1..(Len(q) - 1)
      /\ Head(q) = q[1]
  OBVIOUS
<1>2. \A i \in 1..(Len(q) - 1) : Tail(q)[i] = q[i + 1] /\ i + 1 \in 1..Len(q) /\ i + 1 # 1
  BY <1>1
<1>3. \A j \in 1..Len(q) : j # 1 => j - 1 \in 1..(Len(q) - 1) /\ Tail(q)[j - 1] = q[j]
  <2> SUFFICES ASSUME NEW j \in 1..Len(q), j # 1
               PROVE  j - 1 \in 1..(Len(q) - 1) /\ Tail(q)[j - 1] = q[j]
    OBVIOUS
  <2>1. j - 1 \in 1..(Len(q) - 1) /\ (j - 1) + 1 = j
    BY <1>1
  <2> QED
    BY <1>2, <2>1
<1>4. 1 \in 1..Len(q)
  BY <1>1
<1>5. ToSet(Tail(q)) \subseteq ToSet(q) \ {Head(q)}
  BY <1>1, <1>2, <1>4 DEF ToSet
<1>6. ToSet(q) \ {Head(q)} \subseteq ToSet(Tail(q))
  <2> SUFFICES ASSUME NEW j \in 1..Len(q), q[j] # q[1] PROVE q[j] \in ToSet(Tail(q))
    BY <1>1 DEF ToSet
  <2>1. j - 1 \in DOMAIN Tail(q) /\ Tail(q)[j - 1] = q[j]
    BY <1>1, <1>3
  <2> QED
    BY <2>1 DEF ToSet
<1>7. \A i, j \in 1..(Len(q) - 1) : Tail(q)[i] = Tail(q)[j] => i = j
  <2> SUFFICES ASSUME NEW i \in 1..(Len(q) - 1), NEW j \in 1..(Len(q) - 1),
                      Tail(q)[i] = Tail(q)[j]
               PROVE  i = j
    OBVIOUS
  <2>1. i + 1 = j + 1
    BY <1>2
  <2> QED
    BY <2>1, <1>1
<1> QED
  BY <1>1, <1>4, <1>5, <1>6, <1>7 DEF ToSet

-----------------------------------------------------------------------------
(* Initially every event is in exactly one hand. *)
LEMMA InitHand == Init => HandInv
<1> SUFFICES ASSUME Init PROVE HandInv
  OBVIOUS
<1>1. CountInv
  BY InitCounts
<1>2. ToSet(<<>>) = {} /\ Len(<<>>) = 0
  BY DEF ToSet
<1>3. HoldsFollows /\ HeldOnce
  BY DEF Init, HoldsFollows, HeldOnce, Held
<1>4. WaitsOnce /\ SeenIsOffered
  BY <1>2 DEF Init, WaitsOnce, SeenIsOffered
<1> QED
  BY <1>1, <1>3, <1>4 DEF HandInv

(* What takes an event out of the channel. *)
LEMMA ReceiveHand ==
  ASSUME HandInv, NEW k \in Consumers, Receive(k)
  PROVE  /\ HoldsFollows' /\ HeldOnce' /\ WaitsOnce' /\ SeenIsOffered'
         /\ Held' = Held \cup {Head(queue)}
         /\ ToSet(received') = ToSet(received) \cup {Head(queue)}
         /\ Head(queue) \notin ToSet(received)
<1> DEFINE h == Head(queue)
<1>1. /\ queue \in Seq(Events) /\ queue # <<>> /\ received \in Seq(Events)
      /\ consumer \in [Consumers -> {"ready", "processing", "checking", "gone"}]
      /\ holds \in [Consumers -> Events \cup {NoEvent}]
      /\ \A i, j \in 1..Len(queue) : queue[i] = queue[j] => i = j
  BY DEF HandInv, CountInv, TypeOK, Receive, WaitsOnce
<1>2. h \in Events /\ h # NoEvent
  BY <1>1, WorkerAssumption
<1>3. /\ ToSet(queue') = ToSet(queue) \ {h} /\ h \in ToSet(queue)
      /\ \A i, j \in 1..Len(queue') : queue'[i] = queue'[j] => i = j
  <2>1. queue' = Tail(queue)
    BY DEF Receive, Rest
  <2>2. /\ ToSet(Tail(queue)) = ToSet(queue) \ {Head(queue)} /\ Head(queue) \in ToSet(queue)
        /\ \A i, j \in 1..Len(Tail(queue)) : Tail(queue)[i] = Tail(queue)[j] => i = j
    BY <1>1, RestSet
  <2> QED
    BY <2>1, <2>2
<1>4. ToSet(received') = ToSet(received) \cup {h}
  BY <1>1, <1>2, AppendedSet DEF Receive
<1>5. h \notin ToSet(received)
  BY <1>3 DEF HandInv, WaitsOnce
<1>6. /\ holds' = [holds EXCEPT ![k] = h] /\ consumer' = [consumer EXCEPT ![k] = "processing"]
      /\ holds[k] = NoEvent
  BY DEF Receive, HandInv, HoldsFollows
<1>7. Held' = Held \cup {h}
  BY <1>1, <1>2, <1>6 DEF Held
<1>8. h \notin Held
  BY <1>5 DEF HandInv, HeldOnce
<1>9. HoldsFollows'
  BY <1>1, <1>2, <1>6 DEF HandInv, HoldsFollows
<1>10. HeldOnce'
  <2>1. \A l \in Consumers : holds[l] # h
    BY <1>2, <1>8 DEF Held
  <2>2. Held' \subseteq ToSet(received')
    BY <1>4, <1>7 DEF HandInv, HeldOnce
  <2> QED
    BY <1>1, <1>6, <2>1, <2>2 DEF HandInv, HeldOnce
<1>11. WaitsOnce'
  BY <1>3, <1>4 DEF HandInv, WaitsOnce
<1>12. SeenIsOffered'
  BY <1>3, <1>4 DEF HandInv, SeenIsOffered, Receive
<1> QED
  BY <1>4, <1>5, <1>7, <1>9, <1>10, <1>11, <1>12

(* What a consumer gives up when its event is done. *)
LEMMA ProcessHand ==
  ASSUME HandInv, NEW k \in Consumers, Process(k)
  PROVE  /\ HoldsFollows' /\ HeldOnce'
         /\ Held' = Held \ {holds[k]}
         /\ holds[k] \in Held /\ holds[k] \in Events
<1>1. /\ consumer \in [Consumers -> {"ready", "processing", "checking", "gone"}]
      /\ holds \in [Consumers -> Events \cup {NoEvent}]
  BY DEF HandInv, CountInv, TypeOK
<1>2. /\ holds' = [holds EXCEPT ![k] = NoEvent] /\ consumer' = [consumer EXCEPT ![k] = "checking"]
      /\ holds[k] # NoEvent
  BY DEF Process, HandInv, HoldsFollows
<1>3. \A l \in Consumers \ {k} : holds[l] # holds[k]
  BY <1>2 DEF HandInv, HeldOnce
<1>4. Held' = Held \ {holds[k]}
  BY <1>1, <1>2, <1>3 DEF Held
<1>5. HoldsFollows'
  BY <1>1, <1>2 DEF HandInv, HoldsFollows
<1>6. HeldOnce'
  <2>1. Held' \subseteq ToSet(received')
    BY <1>4 DEF HandInv, HeldOnce, Process
  <2> QED
    BY <1>1, <1>2, <2>1 DEF HandInv, HeldOnce
<1> QED
  BY <1>1, <1>2, <1>4, <1>5, <1>6 DEF Held

(* No step puts an event into two hands. *)
LEMMA StepHand == HandInv /\ CountInv' /\ [Next]_vars => HandInv'
<1> SUFFICES ASSUME HandInv, CountInv', [Next]_vars
             PROVE  HoldsFollows' /\ HeldOnce' /\ WaitsOnce' /\ SeenIsOffered'
  BY DEF HandInv
<1> USE DEF HandInv
<1>1. ASSUME NEW e \in Events, Enqueue(e)
      PROVE  HoldsFollows' /\ HeldOnce' /\ WaitsOnce' /\ SeenIsOffered'
  <2>1. HoldsFollows' /\ HeldOnce'
    BY <1>1 DEF Enqueue, HoldsFollows, HeldOnce, Held
  <2>2. CASE queue' = Append(queue, e) /\ dropped' = dropped
    <3>1. queue \in Seq(Events) /\ e \notin ToSet(queue) /\ e \notin ToSet(received)
      BY <1>1 DEF Enqueue, SeenIsOffered, CountInv, TypeOK
    <3>2. ToSet(queue') = ToSet(queue) \cup {e}
      BY <2>2, <3>1, AppendedSet
    <3>3. \A i \in 1..Len(queue') :
            IF i <= Len(queue) THEN i \in 1..Len(queue) /\ queue'[i] = queue[i]
                               ELSE i = Len(queue) + 1 /\ queue'[i] = e
      BY <2>2, <3>1, AppendedSet
    <3>4. \A i \in 1..Len(queue) : queue[i] # e
      BY <3>1 DEF ToSet
    <3>5. \A i, j \in 1..Len(queue') : queue'[i] = queue'[j] => i = j
      BY <3>3, <3>4 DEF WaitsOnce
    <3>6. WaitsOnce'
      BY <1>1, <3>1, <3>2, <3>5 DEF Enqueue, WaitsOnce
    <3>7. SeenIsOffered'
      BY <1>1, <2>2, <3>2 DEF Enqueue, SeenIsOffered
    <3> QED
      BY <2>1, <3>6, <3>7
  <2>3. CASE UNCHANGED queue
    BY <1>1, <2>1, <2>3 DEF Enqueue, WaitsOnce, SeenIsOffered
  <2> QED
    BY <1>1, <2>2, <2>3 DEF Enqueue
<1>2. ASSUME NEW k \in Consumers, Receive(k)
      PROVE  HoldsFollows' /\ HeldOnce' /\ WaitsOnce' /\ SeenIsOffered'
  BY <1>2, ReceiveHand
<1>3. ASSUME NEW k \in Consumers, Process(k)
      PROVE  HoldsFollows' /\ HeldOnce' /\ WaitsOnce' /\ SeenIsOffered'
  BY <1>3, ProcessHand DEF Process, WaitsOnce, SeenIsOffered
<1>4. ASSUME NEW k \in Consumers, Check(k) \/ RangeEnds(k)
      PROVE  HoldsFollows' /\ HeldOnce' /\ WaitsOnce' /\ SeenIsOffered'
  <2>1. /\ UNCHANGED <<queue, holds, offered, dropped, received>>
        /\ \/ consumer' = [consumer EXCEPT ![k] = "gone"]
           \/ consumer' = [consumer EXCEPT ![k] = "ready"]
        /\ consumer[k] \in {"checking", "ready"}
    BY <1>4 DEF Check, RangeEnds, Leave
  <2>2. HoldsFollows'
    BY <2>1 DEF HoldsFollows, CountInv, TypeOK
  <2> QED
    BY <2>1, <2>2 DEF HeldOnce, Held, WaitsOnce, SeenIsOffered
<1>5. CASE Cancel \/ CloseQueue \/ DrainDone \/ DrainTimeout \/ UNCHANGED vars
  <2>1. UNCHANGED <<queue, holds, consumer, offered, dropped, received>>
    BY <1>5 DEF Cancel, CloseQueue, DrainDone, DrainTimeout, vars
  <2> QED
    BY <2>1 DEF HoldsFollows, HeldOnce, Held, WaitsOnce, SeenIsOffered
<1> QED
  BY <1>1, <1>2, <1>3, <1>4, <1>5 DEF Next, Consume

-----------------------------------------------------------------------------
Past == dropped \cup (ToSet(received) \ Held)

(* The initial states map to the initial states of EventHandoff. *)
LEMMA InitMaps == Init => Handoff!Init
<1> SUFFICES ASSUME Init PROVE Handoff!Init
  OBVIOUS
<1>1. ToSet(<<>>) = {}
  BY DEF ToSet
<1>2. Held = {}
  BY DEF Init, Held
<1> QED
  BY <1>1, <1>2 DEF Init, Handoff!Init

(* Each action is the step of EventHandoff that its name says, or none. *)
LEMMA StepMaps == HandInv /\ [Next]_vars => [Handoff!Next]_(Handoff!vars)
<1> SUFFICES ASSUME HandInv, [Next]_vars
             PROVE  Handoff!Next \/ UNCHANGED <<queue, Held, Past, closed>>
  BY DEF Handoff!vars, Past
<1>1. ASSUME NEW e \in Events, Enqueue(e)
      PROVE  Handoff!Next \/ UNCHANGED <<queue, Held, Past, closed>>
  <2>1. UNCHANGED <<Held, closed, received>>
    BY <1>1 DEF Enqueue, Held
  <2>2. Handoff!IsNew(e)
    <3>1. e \notin ToSet(queue) /\ e \notin Held \cup Past
      BY <1>1 DEF Enqueue, HandInv, SeenIsOffered, HeldOnce, Past
    <3> QED
      BY <3>1 DEF Handoff!IsNew, ToSet, Past
  <2>3. CASE closed
    BY <1>1, <2>1, <2>3 DEF Enqueue, Past
  <2>4. CASE ~closed /\ Room
    <3>1. Handoff!Admit(e)
      BY <1>1, <2>1, <2>2, <2>4 DEF Enqueue, Handoff!Admit, Room
    <3> QED
      BY <3>1 DEF Handoff!Next
  <2>5. CASE ~closed /\ ~Room
    <3>1. Len(queue) = BufferSize
      BY <2>5, WorkerAssumption DEF Room, HandInv, CountInv, TypeOK
    <3>2. Past' = Past \cup {e}
      BY <1>1, <2>1, <2>5 DEF Enqueue, Past
    <3>3. Handoff!Drop(e)
      BY <1>1, <2>1, <2>2, <2>5, <3>1, <3>2 DEF Enqueue, Handoff!Drop, Past
    <3> QED
      BY <3>3 DEF Handoff!Next
  <2> QED
    BY <2>3, <2>4, <2>5
<1>2. CASE CloseQueue
  <2>1. ~closed
    BY <1>2 DEF CloseQueue, HandInv, CountInv, ClosedByStart
  <2>2. Handoff!Close
    BY <1>2, <2>1 DEF CloseQueue, Handoff!Close, Held
  <2> QED
    BY <2>2 DEF Handoff!Next
<1>3. ASSUME NEW k \in Consumers, Receive(k)
      PROVE  Handoff!Next
  <2>1. Past' = Past
    BY <1>3, ReceiveHand DEF Past, Receive
  <2>2. Handoff!Take
    BY <1>3, <2>1, ReceiveHand DEF Receive, Rest, Handoff!Take, Past
  <2> QED
    BY <2>2 DEF Handoff!Next
<1>4. ASSUME NEW k \in Consumers, Process(k)
      PROVE  Handoff!Next
  <2>1. holds[k] \in ToSet(received)
    BY <1>4, ProcessHand DEF HandInv, HeldOnce
  <2>2. Past' = Past \cup {holds[k]}
    BY <1>4, <2>1, ProcessHand DEF Past, Process
  <2>3. Handoff!Finish(holds[k])
    BY <1>4, <2>2, ProcessHand DEF Process, Handoff!Finish, Past
  <2> QED
    BY <1>4, <2>3, ProcessHand DEF Handoff!Next
<1>5. CASE UNCHANGED <<queue, holds, dropped, received, closed>>
  BY <1>5 DEF Held, Past
<1> QED
  BY <1>1, <1>2, <1>3, <1>4, <1>5
     DEF Next, Consume, Cancel, DrainDone, DrainTimeout, Check, RangeEnds, Leave, vars

-----------------------------------------------------------------------------
(* The worker, with its goroutines and its channel, does what EventHandoff  *)
(* promises: events are handed on in their order, each to one consumer and  *)
(* never again, and one is dropped only while the buffer is full.           *)
THEOREM Implements == Spec => ImplementsHandoff
<1>1. Spec => []HandInv
  <2>1. HandInv => CountInv
    BY DEF HandInv
  <2>2. HandInv /\ [Next]_vars => HandInv'
    BY <2>1, StepCounts, StepHand
  <2> QED
    BY InitHand, <2>2, PTL DEF Spec
<1>2. Spec => Handoff!Spec
  BY <1>1, InitMaps, StepMaps, PTL DEF Spec, Handoff!Spec
<1> QED
  BY <1>2 DEF ImplementsHandoff
=============================================================================

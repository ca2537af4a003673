-------------------------- MODULE ClickPipelineProofs --------------------------
(***************************************************************************)
(* Proofs about ClickPipeline, for any number of requests, deliveries and  *)
(* crashes.                                                                *)
(***************************************************************************)
EXTENDS ClickPipeline, FiniteSetTheorems, TLAPS

Underway == {"arrived", "saving", "counting", "ok", "failed"}

TypeOK ==
  /\ stage \in [Requests -> {"coming", "serving", "answering", "returned"}]
  /\ holds \in [Requests -> Pool \cup {Nobody}]
  /\ request \in [Pool -> Requests \cup {Nobody}]
  /\ context \in [Requests -> {"none", "open", "canceled"}]
  /\ publisher \in [Clicks -> {"none", "started", "ready", "ended"}]
  /\ under \in [Clicks -> Requests \cup {Nobody}]
  /\ variant \in [Clicks -> {"none", "there", "deleted"}]
  /\ message \in [Clicks -> {"none", "waiting", "delivering", "acked", "dead"}]
  /\ tries \in [Clicks -> 0..Tries]
  /\ attempt \in [Clicks -> [Numbers -> Underway \cup {"none", "over"}]]
  /\ rows \in [Clicks -> Nat] /\ counted \in [Clicks -> Nat]
  /\ cause \in [Clicks -> SUBSET {"gave_up", "unconfirmed"}]
  /\ foiled \in [Clicks -> SUBSET Numbers]

(* A request that has begun has an echo.Context, which is some request's. *)
ServedInv ==
  \A q \in Requests : stage[q] # "coming" => holds[q] \in Pool /\ request[holds[q]] # Nobody

(* The goroutine begins with the answer, and QStash with the goroutine's end. *)
SendingInv ==
  \A c \in Clicks :
    /\ stage[c] \in {"coming", "serving"} => publisher[c] = "none"
    /\ publisher[c] = "ready" => under[c] # Nobody
    /\ publisher[c] # "ended" => message[c] = "none" /\ tries[c] = 0

(* The attempts of a click that are in a state, and their number. *)
In(c, state) == {n \in Numbers : attempt[c][n] = state}

Tally(c, state) == Cardinality(In(c, state))

(* The attempts of a click are numbered as they come; QStash gives up after the last. *)
Numbered(c) ==
  /\ \A n \in Numbers : tries[c] < n <=> attempt[c][n] = "none"
  /\ message[c] = "dead" => tries[c] = Tries

(* Every attempt inserts and counts once at most. *)
Counts(c) ==
  /\ rows[c] + Tally(c, "arrived") + Tally(c, "saving") <= tries[c]
  /\ counted[c] + Tally(c, "counting") <= rows[c]

(* An attempt that has got past its insert leaves a row. *)
Records(c) ==
  /\ \A n \in Numbers : attempt[c][n] \in {"counting", "ok"} => rows[c] >= 1
  /\ message[c] = "acked" => rows[c] >= 1

(* Without a cause one attempt comes after the other, and none after a row. *)
Single(c) ==
  cause[c] = {} =>
    /\ \A n \in Numbers :
         attempt[c][n] \in Underway => n = tries[c] /\ message[c] = "delivering"
    /\ rows[c] <= 1
    /\ rows[c] = 1 =>
         /\ message[c] \in {"delivering", "acked"}
         /\ \A n \in Numbers : attempt[c][n] \notin {"arrived", "saving", "failed"}

(* An attempt that left no row is on its way to it, or met one of the obstacles. *)
Accounted(c) ==
  \A n \in Numbers :
    \/ attempt[c][n] = "none" \/ Unsaved(c, n)
    \/ rows[c] >= 1 \/ ~Storable(c) \/ n \in foiled[c]

DeliveryInv(c) == Numbered(c) /\ Counts(c) /\ Records(c) /\ Single(c) /\ Accounted(c)

IInv == TypeOK /\ ServedInv /\ SendingInv /\ \A c \in Clicks : DeliveryInv(c)

-----------------------------------------------------------------------------
(* Nobody is no request and no context; clicks are requests. *)
LEMMA NobodyApart == Nobody \notin Requests /\ Nobody \notin Pool /\ Clicks \subseteq Requests
BY PipelineAssumption DEF Requests

(* The deliveries of a click in a state can be counted. *)
LEMMA Tallies ==
  ASSUME NEW c, NEW state
  PROVE  IsFiniteSet(In(c, state)) /\ Tally(c, state) \in Nat
<1>1. IsFiniteSet(Numbers)
  BY FS_Interval, PipelineAssumption DEF Numbers
<1>2. In(c, state) \in SUBSET Numbers
  BY DEF In
<1> QED
  BY <1>1, <1>2, FS_Subset, FS_CardinalityType DEF Tally

(* An attempt goes from one state to another, and is counted there instead. *)
Moves(c, n, from, to) ==
  /\ attempt[c][n] = from /\ attempt'[c][n] = to /\ from # to
  /\ \A m \in Numbers \ {n} : attempt'[c][m] = attempt[c][m]

(* Deliveries that do not move leave the counts alone. *)
LEMMA TallyStays ==
  ASSUME NEW c, attempt'[c] = attempt[c] PROVE \A state : Tally(c, state)' = Tally(c, state)
BY DEF Tally, In

(* A delivery that moves changes the counts of two states by one. *)
LEMMA TallyMoves ==
  ASSUME NEW c, NEW n \in Numbers, NEW from, NEW to, Moves(c, n, from, to)
  PROVE  /\ Tally(c, to)' = Tally(c, to) + 1
         /\ Tally(c, from)' = Tally(c, from) - 1
         /\ \A state : state \notin {from, to} => Tally(c, state)' = Tally(c, state)
<1> USE DEF Tally
<1>1. Tally(c, to)' = Tally(c, to) + 1
  <2>1. In(c, to)' = In(c, to) \cup {n} /\ n \notin In(c, to)
    BY DEF In, Moves
  <2> QED
    BY <2>1, Tallies, FS_AddElement
<1>2. Tally(c, from)' = Tally(c, from) - 1
  <2>1. In(c, from)' = In(c, from) \ {n} /\ n \in In(c, from)
    BY DEF In, Moves
  <2> QED
    BY <2>1, Tallies, FS_RemoveElement
<1>3. ASSUME NEW state, state \notin {from, to} PROVE Tally(c, state)' = Tally(c, state)
  <2>1. In(c, state)' = In(c, state)
    BY <1>3 DEF In, Moves
  <2> QED
    BY <2>1
<1> QED
  BY <1>1, <1>2, <1>3

-----------------------------------------------------------------------------
(* The inductive invariant holds initially. *)
LEMMA InitInv == Init => IInv
<1> SUFFICES ASSUME Init PROVE IInv
  OBVIOUS
<1> USE DEF Init
<1>1. TypeOK
  BY PipelineAssumption DEF TypeOK
<1>2. ServedInv /\ SendingInv
  BY NobodyApart DEF ServedInv, SendingInv
<1>3. ASSUME NEW c \in Clicks PROVE DeliveryInv(c)
  <2>1. /\ message[c] = "none" /\ tries[c] = 0 /\ rows[c] = 0 /\ counted[c] = 0
        /\ \A n \in Numbers : attempt[c][n] = "none" /\ n \in Nat /\ 0 < n
    BY PipelineAssumption DEF Numbers
  <2>2. In(c, "arrived") = {} /\ In(c, "saving") = {} /\ In(c, "counting") = {}
    BY <2>1 DEF In
  <2>3. Counts(c)
    <3> HIDE DEF Init
    <3>1. Tally(c, "arrived") = 0 /\ Tally(c, "saving") = 0 /\ Tally(c, "counting") = 0
      BY <2>2, Tallies, FS_EmptySet DEF Tally
    <3> QED
      BY <2>1, <2>2, <3>1 DEF Counts
  <2> QED
    BY <2>1, <2>3 DEF DeliveryInv, Numbered, Records, Single, Accounted, Unsaved, Underway
<1> QED
  BY <1>1, <1>2, <1>3 DEF IInv

-----------------------------------------------------------------------------
(* Nothing happens to the delivery of d. *)
Same(d) ==
  /\ message'[d] = message[d] /\ tries'[d] = tries[d] /\ attempt'[d] = attempt[d]
  /\ rows'[d] = rows[d] /\ counted'[d] = counted[d] /\ variant'[d] = variant[d]
  /\ cause'[d] = cause[d] /\ foiled'[d] = foiled[d]

(* What does not touch a click keeps the invariant of its delivery. *)
LEMMA SameDelivery ==
  ASSUME NEW d \in Clicks, DeliveryInv(d), Same(d) PROVE DeliveryInv(d)'
<1>1. Tally(d, "arrived")' = Tally(d, "arrived") /\ Tally(d, "saving")' = Tally(d, "saving")
      /\ Tally(d, "counting")' = Tally(d, "counting")
  BY TallyStays DEF Same
<1> QED
  BY <1>1 DEF Same, DeliveryInv, Numbered, Counts, Records, Single, Accounted, Unsaved, Storable

(* What remains to be shown of a step that is about the delivery of c. *)
LEMMA DeliveryStep ==
  ASSUME IInv, NEW c \in Clicks, UNCHANGED <<serving, publisher, under>>,
         publisher[c] = "ended" \/ (message'[c] = message[c] /\ tries'[c] = tries[c]),
         \A d \in Clicks \ {c} : Same(d), TypeOK', DeliveryInv(c)'
  PROVE  IInv'
<1>1. ServedInv'
  BY DEF IInv, ServedInv, serving
<1>2. SendingInv'
  BY DEF IInv, SendingInv, serving, Same
<1>3. \A d \in Clicks : DeliveryInv(d)'
  BY SameDelivery DEF IInv
<1> QED
  BY <1>1, <1>2, <1>3 DEF IInv

(* What remains to be shown of a step before the delivery. *)
LEMMA SendingStep ==
  ASSUME IInv, TypeOK', ServedInv', SendingInv', \A d \in Clicks : Same(d)
  PROVE  IInv'
BY SameDelivery DEF IInv

-----------------------------------------------------------------------------
(* The requests and their goroutines. *)

LEMMA ServerInv ==
  ASSUME IInv, NEW q \in Requests,
         Return(q) \/ CancelContext(q) \/ ClientLeaves(q) \/ \E x \in Pool : Begin(q, x)
  PROVE  IInv'
<1> USE NobodyApart DEF sending, queued, stored, history
<1>1. \A d \in Clicks : Same(d)
  BY DEF Return, CancelContext, ClientLeaves, Cancels, Begin, Same
<1>2. TypeOK'
  <2>1. CASE Return(q) \/ CancelContext(q) \/ ClientLeaves(q)
    BY <2>1 DEF Return, CancelContext, ClientLeaves, Cancels, IInv, TypeOK
  <2>2. ASSUME NEW x \in Pool, Begin(q, x) PROVE TypeOK'
    BY <2>2 DEF Begin, IInv, TypeOK
  <2> QED
    BY <2>1, <2>2
<1>3. ServedInv'
  BY DEF Return, CancelContext, ClientLeaves, Cancels, Begin, InPool, IInv, TypeOK, ServedInv
<1>4. SendingInv'
  BY DEF Return, CancelContext, ClientLeaves, Cancels, Begin, IInv, TypeOK, SendingInv
<1> QED
  BY <1>1, <1>2, <1>3, <1>4, SendingStep

(* Starting the publishing goroutine preserves the inductive invariant. *)
LEMMA StartPublisherInv ==
  ASSUME IInv, NEW c \in Clicks, NEW named \in {"none", "there", "deleted"}, StartPublisher(c, named)
  PROVE  IInv'
<1> USE NobodyApart DEF StartPublisher, queued, stored, history
<1>1. stage[c] = "serving" /\ publisher[c] = "none" /\ tries[c] = 0 /\ message[c] = "none"
  BY DEF IInv, SendingInv
<1>2. TypeOK'
  BY DEF IInv, TypeOK
<1>3. ServedInv'
  BY DEF IInv, TypeOK, ServedInv
<1>4. SendingInv'
  BY <1>1 DEF IInv, TypeOK, SendingInv
<1>5. \A d \in Clicks \ {c} : DeliveryInv(d)'
  BY SameDelivery DEF IInv, TypeOK, Same
<1>6. DeliveryInv(c)'
  <2>1. \A n \in Numbers : attempt[c][n] = "none"
    BY <1>1, PipelineAssumption DEF IInv, DeliveryInv, Numbered, Numbers
  <2>2. Counts(c)'
    BY TallyStays DEF IInv, DeliveryInv, Counts
  <2> QED
    BY <2>1, <2>2 DEF IInv, DeliveryInv, Numbered, Records, Single, Accounted, Unsaved
<1> QED
  BY <1>2, <1>3, <1>4, <1>5, <1>6 DEF IInv

(* Reading the echo.Context preserves the inductive invariant. *)
LEMMA FetchContextInv ==
  ASSUME IInv, NEW c \in Clicks, FetchContext(c) PROVE IInv'
<1> USE NobodyApart DEF FetchContext, serving, queued, stored, history
<1>1. request[holds[c]] \in Requests
  BY DEF IInv, TypeOK, ServedInv, SendingInv
<1>2. TypeOK'
  BY <1>1 DEF IInv, TypeOK
<1>3. ServedInv'
  BY DEF IInv, ServedInv
<1>4. SendingInv'
  BY <1>1 DEF IInv, TypeOK, SendingInv
<1>5. \A d \in Clicks : Same(d)
  BY DEF Same
<1> QED
  BY <1>2, <1>3, <1>4, <1>5, SendingStep

(* A publication that fails preserves the inductive invariant. *)
LEMMA PublishFailsInv ==
  ASSUME IInv, NEW c \in Clicks, PublishFails(c) PROVE IInv'
<1> USE DEF PublishFails, serving, queued, stored, history
<1>1. /\ publisher[c] = "ready" /\ UNCHANGED <<stage, holds, request, under, message, tries>>
      /\ publisher' = [publisher EXCEPT ![c] = "ended"]
  OBVIOUS
<1>2. TypeOK'
  BY DEF IInv, TypeOK
<1>3. ServedInv'
  BY <1>1 DEF IInv, ServedInv
<1>4. SendingInv'
  BY <1>1 DEF IInv, TypeOK, SendingInv
<1>5. \A d \in Clicks : Same(d)
  BY DEF Same
<1> QED
  BY <1>2, <1>3, <1>4, <1>5, SendingStep

(* A publication preserves the inductive invariant. *)
LEMMA PublishInv ==
  ASSUME IInv, NEW c \in Clicks, Publish(c) PROVE IInv'
<1> USE DEF Publish, serving, stored, history
<1>1. tries[c] = 0 /\ message[c] = "none"
  BY DEF IInv, SendingInv
<1>2. TypeOK' /\ ServedInv' /\ SendingInv'
  BY DEF IInv, TypeOK, ServedInv, SendingInv
<1>3. \A d \in Clicks \ {c} : DeliveryInv(d)'
  BY SameDelivery DEF IInv, TypeOK, Same
<1>4. DeliveryInv(c)'
  <2>1. message'[c] = "waiting"
    BY DEF IInv, TypeOK
  <2>2. \A n \in Numbers : attempt[c][n] = "none"
    BY <1>1, PipelineAssumption DEF IInv, DeliveryInv, Numbered, Numbers
  <2>3. rows[c] = 0
    <3>1. /\ Tally(c, "arrived") \in Nat /\ Tally(c, "saving") \in Nat /\ rows[c] \in Nat
          /\ rows[c] + Tally(c, "arrived") + Tally(c, "saving") <= 0
      BY <1>1, Tallies DEF IInv, TypeOK, DeliveryInv, Counts
    <3> QED
      BY <3>1
  <2>4. Counts(c)'
    BY TallyStays DEF IInv, DeliveryInv, Counts
  <2>5. Numbered(c)' /\ Records(c)' /\ Accounted(c)'
    BY <2>1 DEF IInv, DeliveryInv, Numbered, Records, Accounted, Unsaved, Storable
  <2>6. Single(c)'
    BY <2>1, <2>2, <2>3 DEF Single, Underway
  <2> QED
    BY <2>4, <2>5, <2>6 DEF DeliveryInv
<1> QED
  BY <1>2, <1>3, <1>4 DEF IInv

-----------------------------------------------------------------------------
(* QStash. *)

(* The next delivery of a message leaves a new attempt and nothing else. *)
LEMMA Posted ==
  ASSUME IInv, NEW c \in Clicks, NEW to \in {"arrived", "over"}, NEW n, n = tries[c] + 1,
         message[c] = "waiting", tries[c] < Tries, TypeOK', \A d \in Clicks \ {c} : Same(d),
         UNCHANGED <<serving, publisher, under, rows, counted, cause, variant>>,
         tries' = [tries EXCEPT ![c] = n], attempt' = [attempt EXCEPT ![c][n] = to],
         foiled[c] \subseteq foiled'[c],
         \/ to = "arrived" /\ message'[c] = "delivering"
         \/ to = "over" /\ message'[c] = AfterTry(c, n) /\ n \in foiled'[c]
  PROVE  IInv'
<1> DEFINE before == attempt[c]
<1>1. /\ tries'[c] = n /\ n \in Numbers
      /\ attempt'[c] = [before EXCEPT ![n] = to] /\ DOMAIN before = Numbers
      /\ tries[c] \in Nat /\ rows[c] \in Nat /\ counted[c] \in Nat
  BY PipelineAssumption DEF IInv, TypeOK, Numbers
<1>2. publisher[c] = "ended"
  BY DEF IInv, SendingInv
<1>3. DeliveryInv(c)
  BY DEF IInv
<1>4. before[n] = "none"
  BY <1>1, <1>3 DEF DeliveryInv, Numbered
<1>5. message'[c] \in {"delivering", "waiting"} \/ (message'[c] = "dead" /\ n = Tries)
  BY <1>1, PipelineAssumption DEF AfterTry, Numbers
<1>6. attempt'[c][n] = to /\ \A m \in Numbers \ {n} : attempt'[c][m] = before[m]
  BY <1>1
<1>7. Numbered(c)'
  <2>1. \A m \in Numbers : tries[c] < m <=> before[m] = "none"
    BY <1>3 DEF DeliveryInv, Numbered
  <2> HIDE DEF before
  <2>2. ASSUME NEW m \in Numbers PROVE n < m <=> attempt'[c][m] = "none"
    <3>1. m \in Int
      BY DEF Numbers
    <3> QED
      BY <1>1, <1>6, <2>1, <3>1
  <2> QED
    BY <1>1, <1>5, <2>2 DEF Numbered
<1>8. Counts(c)'
  <2>1. Moves(c, n, "none", to)
    BY <1>1, <1>4, <1>6 DEF Moves
  <2>2. /\ Tally(c, "arrived")' \in {Tally(c, "arrived"), Tally(c, "arrived") + 1}
        /\ Tally(c, "saving")' = Tally(c, "saving")
        /\ Tally(c, "counting")' = Tally(c, "counting")
    BY <1>1, <2>1, TallyMoves
  <2>3. Tally(c, "arrived") \in Nat /\ Tally(c, "saving") \in Nat /\ Tally(c, "counting") \in Nat
    BY Tallies
  <2> QED
    BY <1>1, <1>3, <2>2, <2>3 DEF DeliveryInv, Counts
<1>9. Records(c)' /\ Accounted(c)'
  BY <1>1, <1>3, <1>4, <1>5, <1>6 DEF DeliveryInv, Records, Accounted, Unsaved, Storable
<1>10. Single(c)'
  <2>1. cause[c] = {} => rows[c] = 0 /\ \A m \in Numbers : before[m] \notin Underway
    BY <1>1, <1>3 DEF DeliveryInv, Single
  <2>2. to = "over" => to \notin Underway
    BY DEF Underway
  <2> QED
    BY <1>1, <1>6, <2>1, <2>2 DEF Single
<1>11. DeliveryInv(c)'
  BY <1>7, <1>8, <1>9, <1>10 DEF DeliveryInv
<1> QED
  BY <1>2, <1>11, DeliveryStep

(* A delivery, whether or not it reaches the process, preserves the inductive invariant. *)
LEMMA DeliverInv ==
  ASSUME IInv, NEW c \in Clicks, Deliver(c) \/ Unreached(c) PROVE IInv'
<1> DEFINE n == tries[c] + 1
<1>1. n \in Numbers
  BY PipelineAssumption DEF Deliver, Unreached, IInv, TypeOK, Numbers
<1>2. TypeOK'
  <2>1. attempt' \in [Clicks -> [Numbers -> Underway \cup {"none", "over"}]]
    <3>1. attempt[c] \in [Numbers -> Underway \cup {"none", "over"}]
      BY DEF IInv, TypeOK
    <3>2. \E to \in {"arrived", "over"} :
             attempt' = [attempt EXCEPT ![c] = [attempt[c] EXCEPT ![n] = to]]
      BY DEF Deliver, Unreached
    <3> QED
      BY <1>1, <3>1, <3>2 DEF IInv, TypeOK, Underway
  <2>2. message' \in [Clicks -> {"none", "waiting", "delivering", "acked", "dead"}]
    <3>1. message \in [Clicks -> {"none", "waiting", "delivering", "acked", "dead"}]
      BY DEF IInv, TypeOK
    <3>2. CASE Deliver(c)
      BY <3>1, <3>2 DEF Deliver
    <3>3. CASE Unreached(c)
      BY <3>1, <3>3 DEF Unreached, AfterTry
    <3> QED
      BY <3>2, <3>3
  <2>3. tries' \in [Clicks -> 0..Tries]
    <3>1. tries \in [Clicks -> 0..Tries] /\ n \in 0..Tries
      BY <1>1, PipelineAssumption DEF Numbers, IInv, TypeOK
    <3>2. tries' = [tries EXCEPT ![c] = n]
      BY DEF Deliver, Unreached
    <3> QED
      BY <3>1, <3>2
  <2>4. foiled' \in [Clicks -> SUBSET Numbers]
    <3>1. foiled \in [Clicks -> SUBSET Numbers]
      BY DEF IInv, TypeOK
    <3>2. CASE Deliver(c)
      BY <3>1, <3>2 DEF Deliver, history
    <3>3. CASE Unreached(c)
      BY <1>1, <3>1, <3>3 DEF Unreached
    <3> QED
      BY <3>2, <3>3
  <2> HIDE DEF n
  <2>5. UNCHANGED <<serving, sending, stored, cause>>
    BY DEF Deliver, Unreached, history
  <2> QED
    BY <2>1, <2>2, <2>3, <2>4, <2>5 DEF serving, sending, stored, IInv, TypeOK
<1>3. \A d \in Clicks \ {c} : Same(d)
  BY DEF Deliver, Unreached, sending, stored, history, IInv, TypeOK, Same
<1>4. CASE Deliver(c)
  <2>1. message'[c] = "delivering"
    BY <1>4 DEF Deliver, IInv, TypeOK
  <2> QED
    BY <1>2, <1>3, <1>4, <2>1, Posted DEF Deliver, sending, stored, history
<1>5. CASE Unreached(c)
  <2>1. /\ message'[c] = AfterTry(c, n) /\ foiled[c] \subseteq foiled'[c] /\ n \in foiled'[c]
    BY <1>5 DEF Unreached, IInv, TypeOK
  <2> QED
    BY <1>2, <1>3, <1>5, <2>1, Posted DEF Unreached, sending, stored
<1> QED
  BY <1>4, <1>5

(* QStash giving up preserves the inductive invariant. *)
LEMMA GiveUpInv ==
  ASSUME IInv, NEW c \in Clicks, GiveUp(c) PROVE IInv'
<1>1. /\ message[c] = "delivering" /\ message'[c] = AfterTry(c, tries[c]) /\ cause'[c] # {}
      /\ UNCHANGED <<tries, attempt, rows, counted, foiled, variant>>
  BY DEF GiveUp, sending, stored, IInv, TypeOK
<1>2. TypeOK'
  BY DEF GiveUp, AfterTry, serving, sending, stored, IInv, TypeOK
<1>3. \A d \in Clicks \ {c} : Same(d)
  BY DEF GiveUp, sending, stored, IInv, TypeOK, Same
<1>4. publisher[c] = "ended" /\ tries[c] \in 0..Tries
  BY <1>1 DEF IInv, TypeOK, SendingInv
<1>5. message'[c] = "waiting" \/ (message'[c] = "dead" /\ tries[c] = Tries)
  BY <1>1, <1>4, PipelineAssumption DEF AfterTry
<1>6. DeliveryInv(c)'
  <2>1. Counts(c)'
    BY <1>1, TallyStays DEF IInv, DeliveryInv, Counts
  <2> QED
    BY <1>1, <1>5, <2>1 DEF IInv, DeliveryInv, Numbered, Records, Single, Accounted, Unsaved, Storable
<1> QED
  BY <1>2, <1>3, <1>4, <1>6, DeliveryStep DEF GiveUp, sending

(* A delivery that goes on leaves the other clicks alone. *)
LEMMA Moved ==
  ASSUME IInv, NEW c \in Clicks, NEW n \in Numbers, NEW from \in Underway,
         NEW to \in Underway \cup {"over"}, from # to,
         attempt[c][n] = from, attempt' = [attempt EXCEPT ![c][n] = to]
  PROVE  /\ \A d \in Clicks \ {c} : attempt'[d] = attempt[d]
         /\ attempt' \in [Clicks -> [Numbers -> Underway \cup {"none", "over"}]]
         /\ Moves(c, n, from, to)
<1>1. attempt \in [Clicks -> [Numbers -> Underway \cup {"none", "over"}]]
  BY DEF IInv, TypeOK
<1>2. attempt' \in [Clicks -> [Numbers -> Underway \cup {"none", "over"}]]
  BY <1>1
<1>3. attempt'[c] = [attempt[c] EXCEPT ![n] = to]
  BY <1>1
<1> QED
  BY <1>1, <1>2, <1>3 DEF Moves

(* The answer to a delivery preserves the inductive invariant. *)
LEMMA ReplyInv ==
  ASSUME IInv, NEW c \in Clicks, NEW n \in Numbers, Reply(c, n) PROVE IInv'
<1> DEFINE from == attempt[c][n]
           over == message[c] = "delivering" /\ tries[c] = n
<1>1. /\ from \in {"ok", "failed"} /\ attempt' = [attempt EXCEPT ![c][n] = "over"]
      /\ UNCHANGED <<tries, rows, counted, cause, foiled, variant>>
      /\ ~over => message' = message
      /\ over => message' = [message EXCEPT ![c] = IF from = "ok" THEN "acked" ELSE AfterTry(c, n)]
  BY DEF Reply, sending, stored, history
<1>2. AfterTry(c, n) \in {"waiting", "dead"} /\ (over /\ AfterTry(c, n) = "dead" => tries[c] = Tries)
  <2>1. tries[c] \in 0..Tries
    BY DEF IInv, TypeOK
  <2> QED
    BY <2>1, PipelineAssumption DEF AfterTry
<1>3. /\ ~over => message'[c] = message[c]
      /\ over /\ from = "ok" => message'[c] = "acked"
      /\ over /\ from = "failed" => message'[c] = AfterTry(c, n)
      /\ \A d \in Clicks \ {c} : message'[d] = message[d]
      /\ message' \in [Clicks -> {"none", "waiting", "delivering", "acked", "dead"}]
  <2>1. message \in [Clicks -> {"none", "waiting", "delivering", "acked", "dead"}]
    BY DEF IInv, TypeOK
  <2> HIDE DEF from, over
  <2>2. CASE ~over
    BY <1>1, <2>1, <2>2
  <2>3. CASE over
    BY <1>1, <1>2, <2>1, <2>3
  <2> QED
    BY <2>2, <2>3
<1>4. /\ \A d \in Clicks \ {c} : attempt'[d] = attempt[d]
      /\ attempt' \in [Clicks -> [Numbers -> Underway \cup {"none", "over"}]]
      /\ Moves(c, n, from, "over")
  <2>1. from \in Underway /\ "over" \in Underway \cup {"over"} /\ from # "over"
    BY <1>1 DEF Underway
  <2> QED
    BY <1>1, <2>1, Moved
<1>5. TypeOK'
  BY <1>1, <1>3, <1>4 DEF Reply, serving, sending, stored, history, IInv, TypeOK
<1>6. \A d \in Clicks \ {c} : Same(d)
  BY <1>1, <1>3, <1>4 DEF Same
<1>7. DeliveryInv(c) /\ publisher[c] = "ended"
  <2>1. from # "none"
    BY <1>1
  <2>2. tries[c] # 0
    BY <2>1 DEF IInv, DeliveryInv, Numbered, Numbers
  <2> QED
    BY <2>2 DEF IInv, SendingInv
<1>8. from \notin {"none", "arrived", "saving"} /\ from \in Underway
  BY <1>1 DEF Underway
<1> HIDE DEF from, over
<1>9. /\ attempt[c][n] = from /\ attempt'[c][n] = "over"
       /\ \A m \in Numbers \ {n} : attempt'[c][m] = attempt[c][m]
  BY <1>4 DEF Moves
<1>10. Numbered(c)'
  <2>1. message'[c] = "dead" => tries[c] = Tries
    BY <1>1, <1>2, <1>3, <1>7 DEF DeliveryInv, Numbered
  <2> QED
    BY <1>1, <1>9, <1>7, <1>8, <2>1 DEF DeliveryInv, Numbered
<1>11. Counts(c)'
  <2>1. /\ Tally(c, "arrived")' = Tally(c, "arrived") /\ Tally(c, "saving")' = Tally(c, "saving")
        /\ Tally(c, "counting")' = Tally(c, "counting")
    BY <1>1, <1>4, TallyMoves
  <2> QED
    BY <1>1, <1>7, <2>1 DEF DeliveryInv, Counts
<1>12. Records(c)' /\ Accounted(c)'
  BY <1>1, <1>2, <1>3, <1>9, <1>7, <1>8 DEF DeliveryInv, Records, Accounted, Unsaved, Storable
<1>13. Single(c)'
  <2> SUFFICES ASSUME cause[c] = {}
               PROVE  /\ \A m \in Numbers : attempt'[c][m] \notin Underway
                      /\ rows[c] <= 1
                      /\ rows[c] = 1 =>
                           /\ message'[c] \in {"delivering", "acked"}
                           /\ \A m \in Numbers : attempt'[c][m] \notin {"arrived", "saving", "failed"}
    BY <1>1 DEF Single
  <2>1. over
    BY <1>7, <1>8, <1>9 DEF DeliveryInv, Single, over
  <2>2. \A m \in Numbers : attempt'[c][m] \notin Underway
    BY <1>9, <1>7, <2>1 DEF DeliveryInv, Single, Underway, over
  <2>3. rows[c] = 1 => from = "ok"
    BY <1>1, <1>7, <1>9 DEF DeliveryInv, Single
  <2> QED
    BY <1>3, <1>7, <2>1, <2>2, <2>3 DEF DeliveryInv, Single, Underway
<1>14. DeliveryInv(c)'
  BY <1>10, <1>11, <1>12, <1>13 DEF DeliveryInv
<1> QED
  BY <1>5, <1>6, <1>7, <1>14, DeliveryStep DEF Reply, sending

-----------------------------------------------------------------------------
(* Ingest and ProcessClickEvent. *)

(* A statement of an attempt is about the delivery of one click. *)
LEMMA Ingested ==
  ASSUME IInv, NEW c \in Clicks, NEW n \in Numbers, NEW from \in {"arrived", "saving", "counting"},
         NEW to \in {"saving", "counting", "failed", "ok"}, from # to, Goes(c, n, from, to),
         UNCHANGED variant
  PROVE  /\ UNCHANGED <<serving, publisher, under, message, tries>>
         /\ \A d \in Clicks \ {c} : attempt'[d] = attempt[d]
         /\ attempt' \in [Clicks -> [Numbers -> Underway \cup {"none", "over"}]]
         /\ Moves(c, n, from, to) /\ publisher[c] = "ended"
<1>1. from \in Underway /\ to \in Underway \cup {"over"}
  BY DEF Underway
<1>2. attempt[c][n] = from /\ attempt' = [attempt EXCEPT ![c][n] = to]
  BY DEF Goes
<1>3. publisher[c] = "ended"
  <2>1. tries[c] # 0
    BY <1>2 DEF IInv, DeliveryInv, Numbered, Numbers
  <2> QED
    BY <2>1 DEF IInv, SendingInv
<1> QED
  BY <1>1, <1>2, <1>3, Moved DEF Goes, sending, queued

(* The attempt ends without a row: it is refused, or its insert fails. *)
LEMMA NotSaved ==
  ASSUME IInv, NEW c \in Clicks, NEW n \in Numbers,
         NEW from \in {"arrived", "saving"}, Goes(c, n, from, "failed"),
         UNCHANGED <<variant, stored, cause>>,
         \/ ~Storable(c) /\ UNCHANGED foiled
         \/ foiled' = [foiled EXCEPT ![c] = @ \cup {n}]
  PROVE  IInv'
<1>1. /\ UNCHANGED <<serving, publisher, under, message, tries>>
      /\ \A d \in Clicks \ {c} : attempt'[d] = attempt[d]
      /\ attempt' \in [Clicks -> [Numbers -> Underway \cup {"none", "over"}]]
      /\ Moves(c, n, from, "failed") /\ publisher[c] = "ended"
  BY Ingested
<1>2. attempt[c][n] = from /\ attempt'[c][n] = "failed"
      /\ \A m \in Numbers \ {n} : attempt'[c][m] = attempt[c][m]
  BY <1>1 DEF Moves
<1>3. /\ foiled' \in [Clicks -> SUBSET Numbers] /\ foiled[c] \subseteq foiled'[c]
      /\ ~Storable(c) \/ n \in foiled'[c]
      /\ \A d \in Clicks \ {c} : foiled'[d] = foiled[d]
  <2>1. foiled \in [Clicks -> SUBSET Numbers]
    BY DEF IInv, TypeOK
  <2>2. CASE ~Storable(c) /\ UNCHANGED foiled
    BY <2>1, <2>2
  <2>3. CASE foiled' = [foiled EXCEPT ![c] = @ \cup {n}]
    BY <2>1, <2>3
  <2> QED
    BY <2>2, <2>3
<1>4. TypeOK'
  BY <1>1, <1>3 DEF serving, stored, IInv, TypeOK
<1>5. \A d \in Clicks \ {c} : Same(d)
  BY <1>1, <1>3 DEF Same, stored
<1>6. DeliveryInv(c)
  BY DEF IInv
<1>7. Numbered(c)' /\ Records(c)'
  BY <1>1, <1>2, <1>6 DEF DeliveryInv, Numbered, Records, stored
<1>8. Counts(c)'
  <2>1. /\ \/ Tally(c, "arrived")' = Tally(c, "arrived") - 1 /\ Tally(c, "saving")' = Tally(c, "saving")
           \/ Tally(c, "arrived")' = Tally(c, "arrived") /\ Tally(c, "saving")' = Tally(c, "saving") - 1
        /\ Tally(c, "counting")' = Tally(c, "counting")
    BY <1>1, TallyMoves
  <2>2. Tally(c, "arrived") \in Nat /\ Tally(c, "saving") \in Nat /\ rows[c] \in Nat /\ tries[c] \in Nat
    BY Tallies DEF IInv, TypeOK
  <2> QED
    BY <1>1, <1>6, <2>1, <2>2 DEF DeliveryInv, Counts, stored
<1>9. Accounted(c)'
  BY <1>1, <1>2, <1>3, <1>6 DEF DeliveryInv, Accounted, Unsaved, Storable, stored
<1>10. Single(c)'
  BY <1>1, <1>2, <1>6 DEF DeliveryInv, Single, Underway, stored
<1>11. DeliveryInv(c)'
  BY <1>7, <1>8, <1>9, <1>10 DEF DeliveryInv
<1> QED
  BY <1>1, <1>4, <1>5, <1>11, DeliveryStep

(* A delivery that is let in preserves the inductive invariant. *)
LEMMA AdmitInv ==
  ASSUME IInv, NEW c \in Clicks, NEW n \in Numbers, Admit(c, n) PROVE IInv'
<1>1. UNCHANGED <<variant, rows, counted, cause, foiled>> /\ Goes(c, n, "arrived", "saving")
  BY DEF Admit, Goes, sending, stored, history
<1>2. /\ UNCHANGED <<serving, publisher, under, message, tries>>
      /\ \A d \in Clicks \ {c} : attempt'[d] = attempt[d]
      /\ attempt' \in [Clicks -> [Numbers -> Underway \cup {"none", "over"}]]
      /\ Moves(c, n, "arrived", "saving") /\ publisher[c] = "ended"
  BY <1>1, Ingested
<1>3. attempt[c][n] = "arrived" /\ attempt'[c][n] = "saving"
      /\ \A m \in Numbers \ {n} : attempt'[c][m] = attempt[c][m]
  BY <1>2 DEF Moves
<1>4. TypeOK'
  BY <1>1, <1>2 DEF serving, IInv, TypeOK
<1>5. \A d \in Clicks \ {c} : Same(d)
  BY <1>1, <1>2 DEF Same
<1>6. DeliveryInv(c)
  BY DEF IInv
<1>7. Numbered(c)' /\ Records(c)' /\ Accounted(c)' /\ Single(c)'
  <2>1. Numbered(c)' /\ Records(c)'
    BY <1>1, <1>2, <1>3, <1>6 DEF DeliveryInv, Numbered, Records
  <2>2. Accounted(c)'
    BY <1>1, <1>2, <1>3, <1>6 DEF DeliveryInv, Accounted, Unsaved, Storable
  <2>3. Single(c)'
    BY <1>1, <1>2, <1>3, <1>6 DEF DeliveryInv, Single, Underway
  <2> QED
    BY <2>1, <2>2, <2>3
<1>8. Counts(c)'
  <2>1. /\ Tally(c, "arrived")' = Tally(c, "arrived") - 1
        /\ Tally(c, "saving")' = Tally(c, "saving") + 1
        /\ Tally(c, "counting")' = Tally(c, "counting")
    BY <1>2, TallyMoves
  <2>2. /\ Tally(c, "arrived") \in Nat /\ Tally(c, "saving") \in Nat
        /\ rows[c] \in Nat /\ tries[c] \in Nat
    BY Tallies DEF IInv, TypeOK
  <2> QED
    BY <1>1, <1>2, <1>6, <2>1, <2>2 DEF DeliveryInv, Counts
<1>9. DeliveryInv(c)'
  BY <1>7, <1>8 DEF DeliveryInv
<1> QED
  BY <1>2, <1>4, <1>5, <1>9, DeliveryStep

(* It leaves one, whatever the attempt is told. *)
LEMMA Saved ==
  ASSUME IInv, NEW c \in Clicks, NEW n \in Numbers, NEW to \in {"counting", "failed"},
         Goes(c, n, "saving", to), rows' = [rows EXCEPT ![c] = @ + 1],
         UNCHANGED <<variant, counted, foiled>>,
         \/ to = "counting" /\ UNCHANGED cause
         \/ cause' = [cause EXCEPT ![c] = @ \cup {"unconfirmed"}]
  PROVE  IInv'
<1>1. /\ UNCHANGED <<serving, publisher, under, message, tries>>
      /\ \A d \in Clicks \ {c} : attempt'[d] = attempt[d]
      /\ attempt' \in [Clicks -> [Numbers -> Underway \cup {"none", "over"}]]
      /\ Moves(c, n, "saving", to) /\ publisher[c] = "ended"
  BY Ingested
<1>2. attempt[c][n] = "saving" /\ attempt'[c][n] = to
      /\ \A m \in Numbers \ {n} : attempt'[c][m] = attempt[c][m]
  BY <1>1 DEF Moves
<1>3. /\ cause' \in [Clicks -> SUBSET {"gave_up", "unconfirmed"}]
      /\ cause'[c] = {} => cause[c] = {} /\ to = "counting"
      /\ rows[c] \in Nat /\ rows'[c] = rows[c] + 1
      /\ \A d \in Clicks \ {c} : cause'[d] = cause[d] /\ rows'[d] = rows[d]
  <2>1. cause \in [Clicks -> SUBSET {"gave_up", "unconfirmed"}] /\ rows \in [Clicks -> Nat]
    BY DEF IInv, TypeOK
  <2>2. CASE to = "counting" /\ UNCHANGED cause
    BY <2>1, <2>2
  <2>3. CASE cause' = [cause EXCEPT ![c] = @ \cup {"unconfirmed"}]
    <3>1. cause'[c] # {}
      BY <2>1, <2>3
    <3> QED
      BY <2>1, <2>3, <3>1
  <2> QED
    BY <2>2, <2>3
<1>4. TypeOK'
  <2>1. rows' \in [Clicks -> Nat]
    BY DEF IInv, TypeOK
  <2> QED
    BY <1>1, <1>3, <2>1 DEF serving, IInv, TypeOK
<1>5. \A d \in Clicks \ {c} : Same(d)
  BY <1>1, <1>3 DEF Same
<1>6. DeliveryInv(c)
  BY DEF IInv
<1>7. Numbered(c)'
  BY <1>1, <1>2, <1>6 DEF DeliveryInv, Numbered
<1>8. Records(c)' /\ Accounted(c)'
  BY <1>3 DEF Records, Accounted
<1>9. Counts(c)'
  <2>1. /\ Tally(c, "arrived")' = Tally(c, "arrived") /\ Tally(c, "saving")' = Tally(c, "saving") - 1
        /\ Tally(c, "counting")' \in {Tally(c, "counting"), Tally(c, "counting") + 1}
    BY <1>1, TallyMoves
  <2>2. /\ Tally(c, "arrived") \in Nat /\ Tally(c, "saving") \in Nat
        /\ Tally(c, "counting") \in Nat /\ tries[c] \in Nat
        /\ counted[c] \in Nat
    BY Tallies DEF IInv, TypeOK
  <2> QED
    BY <1>1, <1>3, <1>6, <2>1, <2>2 DEF DeliveryInv, Counts
<1>10. Single(c)'
  <2> SUFFICES ASSUME cause'[c] = {}
               PROVE  /\ \A m \in Numbers : attempt'[c][m] \in Underway =>
                             m = tries[c] /\ message[c] = "delivering"
                      /\ rows'[c] <= 1 /\ message[c] = "delivering"
                      /\ \A m \in Numbers : attempt'[c][m] \notin {"arrived", "saving", "failed"}
    BY <1>1 DEF Single
  <2>1. /\ \A m \in Numbers : attempt[c][m] \in Underway => m = n
        /\ n = tries[c] /\ message[c] = "delivering" /\ rows[c] = 0
    BY <1>2, <1>3, <1>6 DEF DeliveryInv, Single, Underway
  <2> QED
    BY <1>2, <1>3, <2>1 DEF Underway
<1>11. DeliveryInv(c)'
  BY <1>7, <1>8, <1>9, <1>10 DEF DeliveryInv
<1> QED
  BY <1>1, <1>4, <1>5, <1>11, DeliveryStep

(* Counting a click, or failing to, preserves the inductive invariant. *)
LEMMA Counted ==
  ASSUME IInv, NEW c \in Clicks, NEW n \in Numbers, Goes(c, n, "counting", "ok"),
         UNCHANGED <<variant, rows, history>>,
         UNCHANGED counted \/ counted' = [counted EXCEPT ![c] = @ + 1]
  PROVE  IInv'
<1>1. /\ UNCHANGED <<serving, publisher, under, message, tries>>
      /\ \A d \in Clicks \ {c} : attempt'[d] = attempt[d]
      /\ attempt' \in [Clicks -> [Numbers -> Underway \cup {"none", "over"}]]
      /\ Moves(c, n, "counting", "ok") /\ publisher[c] = "ended"
  BY Ingested
<1>2. attempt[c][n] = "counting" /\ attempt'[c][n] = "ok"
      /\ \A m \in Numbers \ {n} : attempt'[c][m] = attempt[c][m]
  BY <1>1 DEF Moves
<1>3. /\ counted' \in [Clicks -> Nat] /\ counted'[c] <= counted[c] + 1
      /\ \A d \in Clicks \ {c} : counted'[d] = counted[d]
  <2>1. counted \in [Clicks -> Nat]
    BY DEF IInv, TypeOK
  <2>2. CASE UNCHANGED counted
    BY <2>1, <2>2
  <2>3. CASE counted' = [counted EXCEPT ![c] = @ + 1]
    BY <2>1, <2>3
  <2> QED
    BY <2>2, <2>3
<1>4. TypeOK'
  BY <1>1, <1>3 DEF serving, history, IInv, TypeOK
<1>5. \A d \in Clicks \ {c} : Same(d)
  BY <1>1, <1>3 DEF Same, history
<1>6. DeliveryInv(c)
  BY DEF IInv
<1>7. Numbered(c)' /\ Records(c)' /\ Accounted(c)' /\ Single(c)'
  BY <1>1, <1>2, <1>6
     DEF DeliveryInv, Numbered, Records, Accounted, Single, Storable, Underway, history
<1>8. Counts(c)'
  <2>1. /\ Tally(c, "arrived")' = Tally(c, "arrived") /\ Tally(c, "saving")' = Tally(c, "saving")
        /\ Tally(c, "counting")' = Tally(c, "counting") - 1
    BY <1>1, TallyMoves
  <2>2. Tally(c, "counting") \in Nat /\ counted[c] \in Nat /\ counted'[c] \in Nat /\ rows[c] \in Nat
    BY <1>3, Tallies DEF IInv, TypeOK
  <2> QED
    BY <1>1, <1>3, <1>6, <2>1, <2>2 DEF DeliveryInv, Counts
<1>9. DeliveryInv(c)'
  BY <1>7, <1>8 DEF DeliveryInv
<1> QED
  BY <1>1, <1>4, <1>5, <1>9, DeliveryStep

(* Every step of Ingest preserves the inductive invariant. *)
LEMMA IngestInv ==
  ASSUME IInv, NEW c \in Clicks, NEW n \in Numbers,
         \/ Admit(c, n) \/ Refuse(c, n)
         \/ Save(c, n) \/ SaveRefused(c, n) \/ SaveFails(c, n) \/ SaveUnconfirmed(c, n)
         \/ Count(c, n) \/ CountFails(c, n)
  PROVE  IInv'
<1>1. CASE Refuse(c, n) \/ SaveRefused(c, n) \/ SaveFails(c, n)
  <2>1. /\ Goes(c, n, "arrived", "failed") \/ Goes(c, n, "saving", "failed")
        /\ UNCHANGED <<variant, stored, cause>>
    BY <1>1 DEF Refuse, SaveRefused, SaveFails, Goes, sending, history
  <2>2. \/ ~Storable(c) /\ UNCHANGED foiled
        \/ foiled' = [foiled EXCEPT ![c] = @ \cup {n}]
    BY <1>1 DEF Refuse, SaveRefused, SaveFails, history
  <2> QED
    BY <2>1, <2>2, NotSaved
<1>2. CASE Save(c, n)
  <2>1. Goes(c, n, "saving", "counting") /\ UNCHANGED <<variant, counted, foiled, cause>>
        /\ rows' = [rows EXCEPT ![c] = @ + 1]
    BY <1>2 DEF Save, Goes, sending, history
  <2> QED
    BY <2>1, Saved
<1>3. CASE SaveUnconfirmed(c, n)
  <2>1. Goes(c, n, "saving", "failed") /\ UNCHANGED <<variant, counted, foiled>>
        /\ rows' = [rows EXCEPT ![c] = @ + 1]
        /\ cause' = [cause EXCEPT ![c] = @ \cup {"unconfirmed"}]
    BY <1>3 DEF SaveUnconfirmed, Goes, sending
  <2> QED
    BY <2>1, Saved
<1>4. CASE Count(c, n) \/ CountFails(c, n)
  BY <1>4, Counted DEF Count, CountFails, Goes, sending, stored
<1> QED
  BY <1>1, <1>2, <1>3, <1>4, AdmitInv

(* Deleting the variant preserves the inductive invariant. *)
LEMMA DeleteVariantInv ==
  ASSUME IInv, NEW c \in Clicks, DeleteVariant(c) PROVE IInv'
<1> USE DEF DeleteVariant, queued, stored, history
<1>1. TypeOK'
  BY DEF serving, IInv, TypeOK
<1>2. \A d \in Clicks \ {c} : Same(d)
  BY DEF Same, IInv, TypeOK
<1>3. ~Storable(c)'
  BY DEF Storable, IInv, TypeOK
<1>4. DeliveryInv(c)'
  <2>1. Counts(c)'
    BY TallyStays DEF IInv, DeliveryInv, Counts
  <2> QED
    BY <1>3, <2>1 DEF IInv, DeliveryInv, Numbered, Records, Single, Accounted, Unsaved
<1> QED
  BY <1>1, <1>2, <1>4, DeliveryStep

-----------------------------------------------------------------------------
(* The process dies: no attempt is under way, and what was not inserted yet is foiled. *)
LEMMA CrashInv == ASSUME IInv, Crash PROVE IInv'
<1> USE DEF Crash, queued, stored
<1>1. TypeOK'
  BY DEF IInv, TypeOK
<1>2. ServedInv'
  BY DEF IInv, TypeOK, ServedInv
<1>3. SendingInv'
  BY NobodyApart DEF IInv, TypeOK, SendingInv
<1>4. ASSUME NEW c \in Clicks PROVE DeliveryInv(c)'
  <2>1. /\ \A n \in Numbers : attempt'[c][n] = IF attempt[c][n] = "none" THEN "none" ELSE "over"
        /\ foiled'[c] = foiled[c] \cup {n \in Numbers : Unsaved(c, n)}
        /\ UNCHANGED <<message, tries, rows, counted, variant, cause>>
    OBVIOUS
  <2>2. DeliveryInv(c) /\ tries[c] \in Nat /\ rows[c] \in Nat /\ counted[c] \in Nat
    BY DEF IInv, TypeOK
  <2> HIDE DEF Crash
  <2>3. Counts(c)'
    <3>1. In(c, "arrived")' = {} /\ In(c, "saving")' = {} /\ In(c, "counting")' = {}
      BY <2>1 DEF In
    <3>2. Tally(c, "arrived")' = 0 /\ Tally(c, "saving")' = 0 /\ Tally(c, "counting")' = 0
      BY <3>1, FS_EmptySet DEF Tally
    <3>3. Tally(c, "arrived") \in Nat /\ Tally(c, "saving") \in Nat /\ Tally(c, "counting") \in Nat
      BY Tallies
    <3> QED
      BY <2>1, <2>2, <3>2, <3>3 DEF DeliveryInv, Counts
  <2>4. Numbered(c)' /\ Records(c)' /\ Accounted(c)'
    BY <2>1, <2>2 DEF DeliveryInv, Numbered, Records, Accounted, Unsaved, Storable
  <2>5. Single(c)'
    BY <2>1, <2>2 DEF DeliveryInv, Single, Underway
  <2> QED
    BY <2>3, <2>4, <2>5 DEF DeliveryInv
<1> QED
  BY <1>1, <1>2, <1>3, <1>4 DEF IInv

(* Every step preserves the inductive invariant. *)
LEMMA NextInv == IInv /\ [Next]_vars => IInv'
<1> SUFFICES ASSUME IInv, [Next]_vars PROVE IInv'
  OBVIOUS
<1>1. CASE UNCHANGED vars
  <2> USE <1>1 DEF vars, serving, sending, queued, stored, history
  <2>1. TypeOK'
    BY DEF IInv, TypeOK
  <2>2. ServedInv' /\ SendingInv'
    BY DEF IInv, ServedInv, SendingInv
  <2>3. \A d \in Clicks : Same(d)
    BY DEF Same
  <2> QED
    BY <2>1, <2>2, <2>3, SendingStep
<1> QED
  BY <1>1, ServerInv, StartPublisherInv, DeleteVariantInv, FetchContextInv, PublishInv,
     PublishFailsInv, DeliverInv, GiveUpInv, IngestInv, ReplyInv, CrashInv DEF Next

(* The inductive invariant holds in every reachable state. *)
LEMMA Invariance == Spec => []IInv
BY InitInv, NextInv, PTL DEF Spec

-----------------------------------------------------------------------------
(* Handlers, goroutines, messages and attempts keep to their states, and no *)
(* message is delivered more often than QStash was asked to.               *)
THEOREM TypeCorrect == Spec => []TypeOK
<1>1. IInv => TypeOK
  BY DEF IInv
<1> QED
  BY <1>1, Invariance, PTL

(* Ingest answers 200 only after ProcessClickEvent has inserted the event,  *)
(* so a message that QStash regards as delivered has its row.              *)
THEOREM Recording == Spec => []AckedIsRecorded
<1>1. IInv => AckedIsRecorded
  BY DEF IInv, DeliveryInv, Records, AckedIsRecorded
<1> QED
  BY <1>1, Invariance, PTL

(* Every attempt inserts the event before it increments click_count, and    *)
(* does each once: the counter never passes the rows, nor the rows the     *)
(* deliveries, with any number of attempts at the same time.               *)
THEOREM Counting == Spec => []CountWithinRows
<1>1. IInv => CountWithinRows
  <2> SUFFICES ASSUME IInv, NEW c \in Clicks PROVE counted[c] <= rows[c] /\ rows[c] <= tries[c]
    BY DEF CountWithinRows
  <2>1. rows[c] \in Nat /\ counted[c] \in Nat /\ tries[c] \in Nat
    BY DEF IInv, TypeOK
  <2>2. /\ Tally(c, "arrived") \in Nat /\ Tally(c, "saving") \in Nat
        /\ Tally(c, "counting") \in Nat
    BY Tallies
  <2> QED
    BY <2>1, <2>2 DEF IInv, DeliveryInv, Counts
<1> QED
  BY <1>1, Invariance, PTL

(* A failing insert, geo lookup or counter makes Ingest answer 500 or 200   *)
(* without a second row: only an attempt that outlives QStash's patience    *)
(* or an unconfirmed commit makes one.                                     *)
THEOREM Duplication == Spec => []DuplicateHasCause
<1>1. IInv => DuplicateHasCause
  <2> SUFFICES ASSUME IInv, NEW c \in Clicks, rows[c] > 1 PROVE cause[c] # {}
    BY DEF DuplicateHasCause
  <2>1. rows[c] \in Nat /\ ~(rows[c] <= 1)
    BY DEF IInv, TypeOK
  <2> QED
    BY <2>1 DEF IInv, DeliveryInv, Single
<1> QED
  BY <1>1, Invariance, PTL

(* QStash repeats what is refused, fails or arrives nowhere until its       *)
(* retries are used up: a click is lost for good only if its variant is     *)
(* gone or not one of all its deliveries got through to an insert that      *)
(* succeeded.                                                               *)
THEOREM Loss == Spec => []LostHasCause
<1>1. IInv => LostHasCause
  <2> SUFFICES ASSUME IInv, NEW c \in Clicks, message[c] = "dead", rows[c] = 0, Storable(c),
                      \A n \in Numbers : ~Unsaved(c, n)
               PROVE  foiled[c] = Numbers
    BY DEF LostHasCause
  <2>1. \A n \in Numbers : attempt[c][n] # "none"
    BY PipelineAssumption DEF IInv, DeliveryInv, Numbered, Numbers
  <2>2. Numbers \subseteq foiled[c]
    BY <2>1 DEF IInv, DeliveryInv, Accounted
  <2> QED
    BY <2>2 DEF IInv, TypeOK
<1> QED
  BY <1>1, Invariance, PTL
=============================================================================

----------------------------- MODULE EventHandoff -----------------------------
(***************************************************************************)
(* What the analytics worker promises to whoever offers it an event, with  *)
(* neither its goroutines nor its channel: an event is dropped only while  *)
(* Capacity of them wait, those that wait are taken in the order they came *)
(* in, each is worked on once, and nothing comes in after the end.         *)
(***************************************************************************)
EXTENDS Naturals, Sequences

CONSTANTS
  Events,
  Capacity  \* events that may wait

VARIABLES
  waiting,  \* the events that wait, oldest first
  working,  \* the events that are worked on
  past,     \* the events that were worked on or dropped
  open      \* whether events still come in

vars == <<waiting, working, past, open>>

Init ==
  /\ waiting = <<>>
  /\ working = {}
  /\ past = {}
  /\ open = TRUE

IsNew(e) == e \notin working \cup past /\ \A i \in DOMAIN waiting : waiting[i] # e

Admit(e) ==
  /\ open /\ IsNew(e) /\ Len(waiting) < Capacity
  /\ waiting' = Append(waiting, e)
  /\ UNCHANGED <<working, past, open>>

Drop(e) ==
  /\ open /\ IsNew(e) /\ Len(waiting) = Capacity
  /\ past' = past \cup {e}
  /\ UNCHANGED <<waiting, working, open>>

Take ==
  /\ waiting # <<>>
  /\ waiting' = Tail(waiting)
  /\ working' = working \cup {Head(waiting)}
  /\ UNCHANGED <<past, open>>

Finish(e) ==
  /\ e \in working
  /\ working' = working \ {e}
  /\ past' = past \cup {e}
  /\ UNCHANGED <<waiting, open>>

Close ==
  /\ open
  /\ open' = FALSE
  /\ UNCHANGED <<waiting, working, past>>

Next == Take \/ Close \/ \E e \in Events : Admit(e) \/ Drop(e) \/ Finish(e)

Spec == Init /\ [][Next]_vars
=============================================================================

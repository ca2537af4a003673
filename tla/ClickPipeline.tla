---------------------------- MODULE ClickPipeline ----------------------------
(***************************************************************************)
(* How a click gets from a redirect into the database in production:       *)
(* delivery/http/handler/redirect_handler.go (Redirect starts a goroutine  *)
(* that publishes the click), usecase/redirect_usecase.go                  *)
(* (PublishClickEvent), QStash, which keeps the message and posts it back  *)
(* until it is acknowledged or its retries are used up, delivery/http/     *)
(* handler/worker_handler.go (Ingest: turn away what is not signed or      *)
(* cannot be bound) and usecase/analytics_usecase.go (ProcessClickEvent:   *)
(* insert the event, then count it).                                       *)
(*                                                                         *)
(* The goroutine asks the echo.Context for its request's context after the *)
(* handler may have returned; echo keeps its Context objects in a pool and *)
(* hands them to later requests, and the context of a request is canceled  *)
(* when its handler has returned or its client has gone away.              *)
(*                                                                         *)
(* A click served by an A/B variant names it, and click_events refers to   *)
(* ab_tests: somebody may have deleted the variant before the click, or a  *)
(* retry of it, arrives.                                                   *)
(***************************************************************************)
EXTENDS Integers, FiniteSets

CONSTANTS
  Clicks,      \* GET /:slug requests that find a live link, each with its click
  Others,      \* requests of other routes
  Pool,        \* echo.Context objects
  Tries,       \* deliveries QStash attempts: one, and Upstash-Retries more
  MaxCrashes,  \* bound: process crashes
  Nobody

ASSUME PipelineAssumption ==
  /\ Tries \in Nat \ {0} /\ MaxCrashes \in Nat
  /\ Clicks \cap Others = {} /\ Nobody \notin Clicks \cup Others \cup Pool

VARIABLES
  stage,      \* the handler of each request
  context,    \* the request's context: open, or canceled
  holds,      \* the echo.Context the request was given
  request,    \* the request each echo.Context was last reset to
  publisher,  \* the goroutine that publishes each click
  under,      \* the request whose context the publisher has got
  variant,    \* the variant that each click's payload names
  message,    \* the click's message at QStash
  tries,      \* deliveries of it so far
  attempt,    \* the Ingest handler of each delivery
  rows,       \* rows of the click in click_events
  counted,    \* increments of click_count for the click
  cause,      \* history: what made QStash deliver a stored click again
  foiled,     \* history: deliveries that were lost, refused, or met a failing insert or a crash
  crashes

serving  == <<stage, context, holds, request>>
sending  == <<publisher, under, variant>>
queued   == <<message, tries>>
stored   == <<rows, counted>>
history  == <<cause, foiled>>
vars     == <<serving, sending, queued, attempt, stored, history, crashes>>

Requests == Clicks \cup Others

Numbers == 1..Tries

-----------------------------------------------------------------------------
Init ==
  /\ stage = [c \in Requests |-> "coming"]
  /\ context = [c \in Requests |-> "none"]
  /\ holds = [c \in Requests |-> Nobody]
  /\ request = [x \in Pool |-> Nobody]
  /\ publisher = [c \in Clicks |-> "none"]
  /\ under = [c \in Clicks |-> Nobody]
  /\ variant = [c \in Clicks |-> "none"]
  /\ message = [c \in Clicks |-> "none"]
  /\ tries = [c \in Clicks |-> 0]
  /\ attempt = [c \in Clicks |-> [n \in Numbers |-> "none"]]
  /\ rows = [c \in Clicks |-> 0]
  /\ counted = [c \in Clicks |-> 0]
  /\ cause = [c \in Clicks |-> {}]
  /\ foiled = [c \in Clicks |-> {}]
  /\ crashes = 0

-----------------------------------------------------------------------------
(* The server: any request takes an echo.Context from the pool, is decided, *)
(* answered, and gives the echo.Context back.                               *)

InPool(x) == \A q \in Requests : holds[q] = x => stage[q] \notin {"serving", "answering"}

Begin(q, x) ==
  /\ stage[q] = "coming" /\ InPool(x)
  /\ stage' = [stage EXCEPT ![q] = "serving"]
  /\ context' = [context EXCEPT ![q] = "open"]
  /\ holds' = [holds EXCEPT ![q] = x]
  /\ request' = [request EXCEPT ![x] = q]
  /\ UNCHANGED <<sending, queued, attempt, stored, history, crashes>>

(* The redirect is decided, with or without a variant of the link, and the  *)
(* goroutine started, before the answer. The link may come from a stale     *)
(* cache entry, its variant be gone already.                                *)
StartPublisher(c, named) ==
  /\ stage[c] = "serving"
  /\ variant' = [variant EXCEPT ![c] = named]
  /\ stage' = [stage EXCEPT ![c] = "answering"]
  /\ publisher' = [publisher EXCEPT ![c] = "started"]
  /\ UNCHANGED <<context, holds, request, under, queued, attempt, stored, history, crashes>>

Return(q) ==
  /\ stage[q] = IF q \in Clicks THEN "answering" ELSE "serving"
  /\ stage' = [stage EXCEPT ![q] = "returned"]
  /\ UNCHANGED <<context, holds, request, sending, queued, attempt, stored, history, crashes>>

Cancels(q) ==
  /\ context[q] = "open"
  /\ context' = [context EXCEPT ![q] = "canceled"]
  /\ UNCHANGED <<stage, holds, request, sending, queued, attempt, stored, history, crashes>>

(* net/http cancels the request's context once the handler has returned. *)
CancelContext(q) == stage[q] = "returned" /\ Cancels(q)

(* The client closes the connection before it has the answer. *)
ClientLeaves(q) == stage[q] \in {"serving", "answering"} /\ Cancels(q)

-----------------------------------------------------------------------------
(* The goroutine.                                                          *)

(* c.Request().Context(), whatever the echo.Context has become. *)
FetchContext(c) ==
  /\ publisher[c] = "started"
  /\ publisher' = [publisher EXCEPT ![c] = "ready"]
  /\ under' = [under EXCEPT ![c] = request[holds[c]]]
  /\ UNCHANGED <<serving, variant, queued, attempt, stored, history, crashes>>

(* QStash accepts the message, whether or not the goroutine hears of it. *)
Publish(c) ==
  /\ publisher[c] = "ready" /\ context[under[c]] = "open"
  /\ publisher' = [publisher EXCEPT ![c] = "ended"]
  /\ message' = [message EXCEPT ![c] = "waiting"]
  /\ UNCHANGED <<serving, under, variant, tries, attempt, stored, history, crashes>>

(* A network error, a refusal of QStash, or a context that is canceled       *)
(* before the call or in it: the click is lost, and nobody is told.         *)
PublishFails(c) ==
  /\ publisher[c] = "ready"
  /\ publisher' = [publisher EXCEPT ![c] = "ended"]
  /\ UNCHANGED <<serving, under, variant, queued, attempt, stored, history, crashes>>

-----------------------------------------------------------------------------
(* QStash.                                                                 *)

(* A delivery is posted and reaches Ingest. *)
Deliver(c) ==
  /\ message[c] = "waiting" /\ tries[c] < Tries
  /\ message' = [message EXCEPT ![c] = "delivering"]
  /\ tries' = [tries EXCEPT ![c] = @ + 1]
  /\ attempt' = [attempt EXCEPT ![c][tries[c] + 1] = "arrived"]
  /\ UNCHANGED <<serving, sending, stored, history, crashes>>

(* Slip: no retries are asked for. *)
AfterTry_Once(c, n) == "dead"

(* What becomes of a message whose n-th delivery was not acknowledged. *)
AfterTry(c, n) == IF n < Tries THEN "waiting" ELSE "dead"

(* A delivery is posted and reaches nobody: the process is down, or not to  *)
(* be reached.                                                             *)
Unreached(c) ==
  LET n == tries[c] + 1 IN
  /\ message[c] = "waiting" /\ tries[c] < Tries
  /\ message' = [message EXCEPT ![c] = AfterTry(c, n)]
  /\ tries' = [tries EXCEPT ![c] = n]
  /\ attempt' = [attempt EXCEPT ![c][n] = "over"]
  /\ foiled' = [foiled EXCEPT ![c] = @ \cup {n}]
  /\ UNCHANGED <<serving, sending, stored, cause, crashes>>

(* No answer in time, or the connection is lost; the handler goes on. *)
GiveUp(c) ==
  /\ message[c] = "delivering"
  /\ message' = [message EXCEPT ![c] = AfterTry(c, tries[c])]
  /\ cause' = [cause EXCEPT ![c] = @ \cup {"gave_up"}]
  /\ UNCHANGED <<serving, sending, tries, attempt, stored, foiled, crashes>>

(* Ingest answers 200, or 401, 400 or 500, which QStash takes alike; nobody *)
(* waits for an attempt given up before.                                   *)
Reply(c, n) ==
  /\ attempt[c][n] \in {"ok", "failed"}
  /\ attempt' = [attempt EXCEPT ![c][n] = "over"]
  /\ message' = IF message[c] # "delivering" \/ tries[c] # n THEN message
                ELSE [message EXCEPT ![c] =
                        IF attempt[c][n] = "ok" THEN "acked" ELSE AfterTry(c, n)]
  /\ UNCHANGED <<serving, sending, tries, stored, history, crashes>>

-----------------------------------------------------------------------------
(* Ingest and ProcessClickEvent.                                           *)

Unsaved(c, n) == attempt[c][n] \in {"arrived", "saving"}

Goes(c, n, from, to) ==
  /\ attempt[c][n] = from
  /\ attempt' = [attempt EXCEPT ![c][n] = to]
  /\ UNCHANGED <<serving, sending, queued, crashes>>

(* The signature is valid and the payload can be bound. Its link is never 0, *)
(* for PublishClickEvent had it from a row.                                 *)
Admit(c, n) == Goes(c, n, "arrived", "saving") /\ UNCHANGED <<stored, history>>

(* Slip: a body that cannot be bound is acknowledged like a click that was   *)
(* stored, so that QStash does not send it again.                           *)
Refuse_Acked(c, n) ==
  /\ Goes(c, n, "arrived", "ok")
  /\ foiled' = [foiled EXCEPT ![c] = @ \cup {n}]
  /\ UNCHANGED <<stored, cause>>

(* 401: the signature is of a key the process does not have, or has expired. *)
(* 400: the body breaks off.                                                *)
Refuse(c, n) ==
  /\ Goes(c, n, "arrived", "failed")
  /\ foiled' = [foiled EXCEPT ![c] = @ \cup {n}]
  /\ UNCHANGED <<stored, cause>>

(* click_events.ab_test_id REFERENCES ab_tests. *)
Storable(c) == variant[c] # "deleted"

Save(c, n) ==
  /\ Storable(c)
  /\ Goes(c, n, "saving", "counting")
  /\ rows' = [rows EXCEPT ![c] = @ + 1]
  /\ UNCHANGED <<counted, history>>

(* The variant that the payload names is gone: an error like any other. *)
SaveRefused(c, n) ==
  /\ ~Storable(c)
  /\ Goes(c, n, "saving", "failed")
  /\ UNCHANGED <<stored, history>>

(* Slip: the error of the insert is taken for non-fatal as well. *)
SaveFails_NonFatal(c, n) ==
  /\ Goes(c, n, "saving", "ok")
  /\ foiled' = [foiled EXCEPT ![c] = @ \cup {n}]
  /\ UNCHANGED <<stored, cause>>

SaveFails(c, n) ==
  /\ Goes(c, n, "saving", "failed")
  /\ foiled' = [foiled EXCEPT ![c] = @ \cup {n}]
  /\ UNCHANGED <<stored, cause>>

(* The row is committed, but the handler gets an error. *)
SaveUnconfirmed(c, n) ==
  /\ Storable(c)
  /\ Goes(c, n, "saving", "failed")
  /\ rows' = [rows EXCEPT ![c] = @ + 1]
  /\ cause' = [cause EXCEPT ![c] = @ \cup {"unconfirmed"}]
  /\ UNCHANGED <<counted, foiled>>

(* Slip: the counter is incremented once more after the lost answer. *)
Count_Twice(c, n) ==
  /\ Goes(c, n, "counting", "ok")
  /\ counted' = [counted EXCEPT ![c] = @ + 2]
  /\ UNCHANGED <<rows, history>>

Count(c, n) ==
  /\ Goes(c, n, "counting", "ok")
  /\ counted' = [counted EXCEPT ![c] = @ + 1]
  /\ UNCHANGED <<rows, history>>

(* Slip: an error of the counter is returned. *)
CountFails_Fatal(c, n) == Goes(c, n, "counting", "failed") /\ UNCHANGED <<stored, history>>

(* An error of the counter is not fatal. *)
CountFails(c, n) == Goes(c, n, "counting", "ok") /\ UNCHANGED <<stored, history>>

(* Somebody deletes the variant; rows of the click keep their place without it. *)
DeleteVariant(c) ==
  /\ variant[c] = "there"
  /\ variant' = [variant EXCEPT ![c] = "deleted"]
  /\ UNCHANGED <<serving, publisher, under, queued, attempt, stored, history, crashes>>

-----------------------------------------------------------------------------
(* Every handler and goroutine of the process dies; QStash waits in vain    *)
(* for the answers.                                                         *)
Crash ==
  /\ crashes < MaxCrashes
  /\ crashes' = crashes + 1
  /\ stage' = [q \in Requests |-> IF stage[q] = "coming" THEN "coming" ELSE "returned"]
  /\ context' = [q \in Requests |-> IF context[q] = "open" THEN "canceled" ELSE context[q]]
  /\ publisher' = [c \in Clicks |-> IF stage[c] = "coming" THEN "none" ELSE "ended"]
  /\ attempt' = [c \in Clicks |-> [n \in Numbers |->
       IF attempt[c][n] = "none" THEN "none" ELSE "over"]]
  /\ foiled' = [c \in Clicks |-> foiled[c] \cup {n \in Numbers : Unsaved(c, n)}]
  /\ UNCHANGED <<holds, request, under, variant, queued, stored, cause>>

Next ==
  \/ \E q \in Requests : Return(q) \/ CancelContext(q) \/ ClientLeaves(q) \/ \E x \in Pool : Begin(q, x)
  \/ \E c \in Clicks :
       \/ \E named \in {"none", "there", "deleted"} : StartPublisher(c, named)
       \/ DeleteVariant(c)
       \/ FetchContext(c) \/ Publish(c) \/ PublishFails(c)
       \/ Deliver(c) \/ Unreached(c) \/ GiveUp(c)
  \/ \E c \in Clicks, n \in Numbers :
       \/ Admit(c, n) \/ Refuse(c, n)
       \/ Save(c, n) \/ SaveRefused(c, n) \/ SaveFails(c, n) \/ SaveUnconfirmed(c, n)
       \/ Count(c, n) \/ CountFails(c, n)
       \/ Reply(c, n)
  \/ Crash

Spec == Init /\ [][Next]_vars

-----------------------------------------------------------------------------
(* A click that QStash holds for delivered is in click_events. *)
AckedIsRecorded == \A c \in Clicks : message[c] = "acked" => rows[c] >= 1

(* The denormalized counter never runs ahead of the table, however the      *)
(* deliveries of a click overlap, and no click has more rows than tries.    *)
CountWithinRows == \A c \in Clicks : counted[c] <= rows[c] /\ rows[c] <= tries[c]

(* A click is stored twice only if QStash gave up on a delivery that had    *)
(* inserted it or went on to, or a commit was not confirmed: a crash after  *)
(* the insert is the first case, since QStash then waits in vain. Failures  *)
(* of the counter or of the insert, refusals and deliveries that reach      *)
(* nobody never duplicate a click.                                          *)
DuplicateHasCause == \A c \in Clicks : rows[c] > 1 => cause[c] # {}

(* A click that QStash has given up without a row named a variant that is   *)
(* gone, or each of its deliveries, up to the last one asked for, was lost  *)
(* on its way, was refused, or met a failing insert or a crash: a single    *)
(* delivery that meets none is enough, whatever happened before it.         *)
LostHasCause ==
  \A c \in Clicks :
    message[c] = "dead" /\ rows[c] = 0 /\ (\A n \in Numbers : ~Unsaved(c, n))
      => ~Storable(c) \/ foiled[c] = Numbers
=============================================================================

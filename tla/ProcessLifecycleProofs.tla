----------------------- MODULE ProcessLifecycleProofs -----------------------
(***************************************************************************)
(* For any set of requests: what ProcessLifecycle's run shows for three.   *)
(***************************************************************************)
EXTENDS ProcessLifecycle, TLAPS

Before == {"migrating", "opening_postgres", "opening_redis", "starting"}

Stopping == {"canceling", "closing_redis", "closing_postgres"}

(* The stores are open from their step of main to their deferred call. *)
StoresFollowMain ==
  /\ Alive /\ main \notin {"migrating", "opening_postgres"} => postgres # "none"
  /\ Alive /\ main \notin {"migrating", "opening_postgres", "opening_redis"} => redis # "none"
  /\ Alive /\ main \notin {"migrating", "opening_postgres", "closing_postgres"} =>
       postgres = "open"

(* The listener is there between Start and ReceiveSignal only. *)
ServerFollowsMain ==
  /\ main \in Before => server = "none"
  /\ server \in {"starting", "open"} => main \in {"listening", "serving"}

(* Requests are accepted from Start on, and have been waited for, or given  *)
(* up, when main stops waiting.                                            *)
RequestsFollowMain ==
  /\ main \in Before => \A r \in Requests : request[r] = "none"
  /\ main \in Stopping => forced \/ Quiet
  /\ ~Alive => Quiet

(* The worker's context is canceled at start, with QStash, or as the last   *)
(* thing before the stores are closed.                                     *)
CanceledLast ==
  canceled => config.qstash \/ main \in {"closing_redis", "closing_postgres", "exited"}

(* How the process ended is known only once it has. *)
EndedIsOver == ending # "not" => ~Alive

(* The inductive invariant of this module. *)
IInv ==
  /\ TypeOK
  /\ StoresFollowMain /\ ServerFollowsMain /\ RequestsFollowMain
  /\ CanceledLast /\ EndedIsOver
  /\ AcceptedIsAnswered

-----------------------------------------------------------------------------
(* The invariant holds before main has opened anything. *)
LEMMA InitIInv == Init => IInv
<1> SUFFICES ASSUME Init PROVE IInv
  OBVIOUS
<1> USE DEF Init
<1>1. TypeOK
  BY DEF TypeOK, Booting, Tasks, Alive
<1>2. StoresFollowMain /\ ServerFollowsMain /\ RequestsFollowMain
  BY DEF StoresFollowMain, ServerFollowsMain, RequestsFollowMain, Before, Stopping, Alive, Quiet, Active
<1>3. CanceledLast /\ EndedIsOver /\ AcceptedIsAnswered
  BY DEF CanceledLast, EndedIsOver, AcceptedIsAnswered
<1> QED
  BY <1>1, <1>2, <1>3 DEF IInv

(* Every action of main, the server, the handlers and the background        *)
(* goroutines preserves it.                                                *)
LEMMA StepIInv == IInv /\ [Next]_vars => IInv'
<1> SUFFICES ASSUME IInv, [Next]_vars PROVE IInv'
  OBVIOUS
<1> USE DEF IInv, TypeOK, StoresFollowMain, ServerFollowsMain, RequestsFollowMain, CanceledLast, EndedIsOver, AcceptedIsAnswered
<1> USE DEF Before, Stopping, Alive, Quiet, Active, Booting, Tasks, Stores, Serving, Background
<1>1. CASE Migrate
  BY <1>1 DEF Migrate
<1>2. CASE OpenPostgres
  BY <1>2 DEF OpenPostgres
<1>3. CASE OpenRedis
  BY <1>3 DEF OpenRedis
<1>4. CASE BootFails
  BY <1>4 DEF BootFails, Fatal, Exit
<1>5. CASE Start
  <2> USE <1>5 DEF Start
  <2>1. task' \in [Tasks -> {"none", "running", "over", "killed"}]
    OBVIOUS
  <2>2. canceled' \in BOOLEAN /\ CanceledLast'
    OBVIOUS
  <2>3. TypeOK'
    BY <2>1, <2>2
  <2>4. StoresFollowMain' /\ ServerFollowsMain' /\ RequestsFollowMain'
    OBVIOUS
  <2>5. EndedIsOver' /\ AcceptedIsAnswered'
    OBVIOUS
  <2> QED
    BY <2>2, <2>3, <2>4, <2>5
<1>6. CASE Notify
  BY <1>6 DEF Notify
<1>7. CASE ServerError
  BY <1>7 DEF ServerError, Fatal, Exit
<1>8. CASE ReceiveSignal
  BY <1>8 DEF ReceiveSignal
<1>9. CASE ShutdownDone
  BY <1>9 DEF ShutdownDone
<1>10. CASE ShutdownTimesOut
  BY <1>10 DEF ShutdownTimesOut
<1>11. CASE CancelWorker
  BY <1>11 DEF CancelWorker
<1>12. CASE CloseRedis
  BY <1>12 DEF CloseRedis
<1>13. CASE ClosePostgres
  BY <1>13 DEF ClosePostgres, Exit
<1>14. CASE Signal
  <2>1. CASE main \in Booting
    <3>1. Exit("killed") /\ UNCHANGED <<config, Stores, serverErr, quit, canceled, forced>>
      BY <1>14, <2>1 DEF Signal
    <3>2. TypeOK'
      BY <3>1 DEF Exit
    <3>3. StoresFollowMain' /\ ServerFollowsMain' /\ RequestsFollowMain'
      BY <3>1 DEF Exit
    <3>4. CanceledLast' /\ EndedIsOver' /\ AcceptedIsAnswered'
      BY <3>1 DEF Exit
    <3> QED
      BY <3>2, <3>3, <3>4
  <2>2. CASE main \notin Booting
    <3>1. quit' = TRUE /\ UNCHANGED <<config, main, ending, Stores, Serving, Background, request, forced>>
      BY <1>14, <2>2 DEF Signal
    <3> QED
      BY <3>1
  <2> QED
    BY <2>1, <2>2
<1>15. CASE Listen
  BY <1>15 DEF Listen
<1>16. CASE ServerFails
  BY <1>16 DEF ServerFails
<1>17. ASSUME NEW r \in Requests, Accept(r) PROVE IInv'
  BY <1>17 DEF Accept, Moves
<1>18. ASSUME NEW r \in Requests, Query(r) PROVE IInv'
  BY <1>18 DEF Query, Moves
<1>19. ASSUME NEW r \in Requests, QueryRefused(r) PROVE IInv'
  BY <1>19 DEF QueryRefused, Moves
<1>20. ASSUME NEW r \in Requests, QueryEnds(r) PROVE IInv'
  BY <1>20 DEF QueryEnds, Moves
<1>21. ASSUME NEW r \in Requests, Answer(r) PROVE IInv'
  BY <1>21 DEF Answer, Moves
<1>22. ASSUME NEW t \in Tasks, TaskEnds(t) PROVE IInv'
  BY <1>22 DEF TaskEnds
<1>23. CASE UNCHANGED vars
  BY <1>23 DEF vars
<1> QED
  BY <1>1, <1>2, <1>3, <1>4, <1>5, <1>6, <1>7, <1>8, <1>9, <1>10, <1>11, <1>12, <1>13, <1>14, <1>15, <1>16, <1>17, <1>18, <1>19, <1>20, <1>21, <1>22, <1>23 DEF Next, Main

-----------------------------------------------------------------------------
(* main and everything it starts keep their types, and the server is never  *)
(* there without both stores, for any set of requests.                     *)
THEOREM TypeCorrect == Spec => []TypeOK
<1>1. IInv => TypeOK
  BY DEF IInv
<1> QED
  BY InitIInv, StepIInv, <1>1, PTL DEF Spec

(* The order of the shutdown answers every accepted request, however many   *)
(* there are, unless Shutdown gave up or the process was brought down.      *)
THEOREM AcceptedAnswered == Spec => []AcceptedIsAnswered
<1>1. IInv => AcceptedIsAnswered
  BY DEF IInv
<1> QED
  BY InitIInv, StepIInv, <1>1, PTL DEF Spec

(* The worker's context outlives every handler that main still waits for.   *)
THEOREM WorkerOutlives == Spec => []WorkerOutlivesHandlers
<1>1. IInv => WorkerOutlivesHandlers
  BY DEF IInv, WorkerOutlivesHandlers, CanceledLast, RequestsFollowMain, Stopping, Alive
<1> QED
  BY InitIInv, StepIInv, <1>1, PTL DEF Spec

-----------------------------------------------------------------------------
(* The push has not ended while its context is alive and main serves. *)
PushFollowsContext ==
  main \in {"listening", "serving", "shutting_down"} /\ config.remote_write /\ ~canceled
    => task["remote_write"] = "running"

(* Start is the only way into these steps of main, Exit the only end of a   *)
(* goroutine with a live context.                                          *)
LEMMA StepPush == IInv /\ PushFollowsContext /\ [Next]_vars => PushFollowsContext'
<1> SUFFICES ASSUME IInv, PushFollowsContext, [Next]_vars PROVE PushFollowsContext'
  OBVIOUS
<1> USE DEF IInv, TypeOK, PushFollowsContext, CanceledLast, Tasks, Stores, Serving, Background
<1>1. CASE Start
  BY <1>1 DEF Start
<1>2. CASE Notify
  BY <1>2 DEF Notify
<1>3. CASE ReceiveSignal
  BY <1>3 DEF ReceiveSignal
<1>4. CASE ShutdownDone \/ ShutdownTimesOut \/ CancelWorker \/ CloseRedis
  BY <1>4 DEF ShutdownDone, ShutdownTimesOut, CancelWorker, CloseRedis
<1>5. CASE Migrate \/ OpenPostgres \/ OpenRedis
  BY <1>5 DEF Migrate, OpenPostgres, OpenRedis
<1>6. CASE BootFails \/ ServerError \/ ClosePostgres
  BY <1>6 DEF BootFails, ServerError, ClosePostgres, Fatal, Exit
<1>7. CASE Signal
  BY <1>7 DEF Signal, Exit
<1>8. CASE Listen \/ ServerFails
  BY <1>8 DEF Listen, ServerFails
<1>9. ASSUME NEW r \in Requests,
             Accept(r) \/ Query(r) \/ QueryRefused(r) \/ QueryEnds(r) \/ Answer(r)
      PROVE  PushFollowsContext'
  BY <1>9 DEF Accept, Query, QueryRefused, QueryEnds, Answer, Moves
<1>10. ASSUME NEW t \in Tasks, TaskEnds(t) PROVE PushFollowsContext'
  BY <1>10 DEF TaskEnds
<1>11. CASE UNCHANGED vars
  BY <1>11 DEF vars
<1> QED
  BY <1>1, <1>2, <1>3, <1>4, <1>5, <1>6, <1>7, <1>8, <1>9, <1>10, <1>11 DEF Next, Main

(* Until main has stopped waiting for the handlers, nothing but the context *)
(* that QStash's configuration cancels at start ends the push of metrics.   *)
THEOREM PushLost == Spec => []PushLostOnlyToQStash
<1>1. Init => PushFollowsContext
  BY DEF Init, PushFollowsContext
<1>2. IInv /\ PushFollowsContext => PushLostOnlyToQStash
  BY DEF IInv, CanceledLast, PushFollowsContext, PushLostOnlyToQStash, TypeOK
<1> QED
  BY InitIInv, StepIInv, StepPush, <1>1, <1>2, PTL DEF Spec
=============================================================================

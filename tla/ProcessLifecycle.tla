-------------------------- MODULE ProcessLifecycle --------------------------
(***************************************************************************)
(* cmd/api/main.go from the migrations to the end of the process: what it  *)
(* opens, the goroutines it starts, and the order in which it stops them,  *)
(* with requests under way. pkg/metrics/remote_write.go is one of the      *)
(* goroutines; the analytics worker's inside is in AnalyticsWorker.        *)
(***************************************************************************)
EXTENDS Naturals, FiniteSets

CONSTANT Requests

VARIABLES
  config,     \* whether QStash and the remote write of metrics are configured
  main,       \* where main is
  ending,     \* how the process has ended, or "not"
  postgres,   \* the connection pool: "none", "open", "closing" or "closed"
  redis,      \* the Redis client: "none", "open" or "closed"
  server,     \* the HTTP server: "none", "starting", "open", "failed" or "closed"
  serverErr,  \* an error waits in the channel serverErr
  quit,       \* a signal waits in the channel quit
  canceled,   \* workerCancel has been called
  task,       \* the background goroutines
  request,    \* the requests
  forced      \* history: Shutdown has given up on requests

vars == <<config, main, ending, postgres, redis, server, serverErr, quit, canceled, task, request, forced>>

Stores == <<postgres, redis>>
Serving == <<server, serverErr>>
Background == <<canceled, task>>

Tasks == {"worker", "queue_gauge", "remote_write"}

Booting == {"migrating", "opening_postgres", "opening_redis", "starting", "listening"}

Active == {"running", "querying"}

-----------------------------------------------------------------------------
Init ==
  /\ config \in [qstash : BOOLEAN, remote_write : BOOLEAN]
  /\ main = "migrating"
  /\ ending = "not"
  /\ postgres = "none" /\ redis = "none"
  /\ server = "none" /\ serverErr = FALSE
  /\ quit = FALSE
  /\ canceled = FALSE
  /\ task = [t \in Tasks |-> "none"]
  /\ request = [r \in Requests |-> "none"]
  /\ forced = FALSE

-----------------------------------------------------------------------------
(* The process is gone, and every goroutine with it. *)
Exit(how) ==
  /\ main' = "exited"
  /\ ending' = how
  /\ server' = "closed"
  /\ task' = [t \in Tasks |-> IF task[t] = "running" THEN "killed" ELSE task[t]]
  /\ request' = [r \in Requests |-> IF request[r] \in Active THEN "cut" ELSE request[r]]

Alive == main # "exited"

(* log.Fatal: the process exits and no deferred call runs. *)
Fatal ==
  /\ Exit("fatal")
  /\ UNCHANGED <<config, Stores, serverErr, quit, canceled, forced>>

Migrate ==
  /\ main = "migrating"
  /\ main' = "opening_postgres"
  /\ UNCHANGED <<config, ending, Stores, Serving, quit, Background, request, forced>>

(* Slip: a failed connection is logged, and main goes on. *)
OpenPostgres_Skip ==
  /\ main = "opening_postgres"
  /\ main' = "opening_redis"
  /\ postgres' \in {"none", "open"}
  /\ UNCHANGED <<config, ending, redis, Serving, quit, Background, request, forced>>

OpenPostgres ==
  /\ main = "opening_postgres"
  /\ main' = "opening_redis"
  /\ postgres' = "open"
  /\ UNCHANGED <<config, ending, redis, Serving, quit, Background, request, forced>>

OpenRedis ==
  /\ main = "opening_redis"
  /\ main' = "starting"
  /\ redis' = "open"
  /\ UNCHANGED <<config, ending, postgres, Serving, quit, Background, request, forced>>

BootFails == main \in {"migrating", "opening_postgres", "opening_redis"} /\ Fatal

(* Slip: the context is canceled in either configuration. *)
Start_CancelAlways ==
  /\ main = "starting"
  /\ main' = "listening"
  /\ canceled' = TRUE
  /\ task' = [t \in Tasks |->
       IF t = "remote_write" THEN IF config.remote_write THEN "running" ELSE "over"
       ELSE IF config.qstash THEN "none" ELSE "running"]
  /\ server' = "starting"
  /\ UNCHANGED <<config, ending, Stores, serverErr, quit, request, forced>>

(* The background goroutines and the server are started. With QStash the    *)
(* worker is not, and its context is canceled, which the remote write has   *)
(* as well; without a URL the remote write returns at once.                 *)
Start ==
  /\ main = "starting"
  /\ main' = "listening"
  /\ canceled' = config.qstash
  /\ task' = [t \in Tasks |->
       IF t = "remote_write" THEN IF config.remote_write THEN "running" ELSE "over"
       ELSE IF config.qstash THEN "none" ELSE "running"]
  /\ server' = "starting"
  /\ UNCHANGED <<config, ending, Stores, serverErr, quit, request, forced>>

(* signal.Notify; from here on a signal no longer kills the process. *)
Notify ==
  /\ main = "listening"
  /\ main' = "serving"
  /\ UNCHANGED <<config, ending, Stores, Serving, quit, Background, request, forced>>

Signal ==
  \/ /\ main \in Booting
     /\ Exit("killed")
     /\ UNCHANGED <<config, Stores, serverErr, quit, canceled, forced>>
  \/ /\ Alive /\ main \notin Booting /\ ~quit
     /\ quit' = TRUE
     /\ UNCHANGED <<config, main, ending, Stores, Serving, Background, request, forced>>

-----------------------------------------------------------------------------
(* The server's goroutine and the handlers.                                *)

Listen ==
  /\ server = "starting"
  /\ server' = "open"
  /\ UNCHANGED <<config, main, ending, Stores, serverErr, quit, Background, request, forced>>

ServerFails ==
  /\ server \in {"starting", "open"}
  /\ server' = "failed"
  /\ serverErr' = TRUE
  /\ UNCHANGED <<config, main, ending, Stores, quit, Background, request, forced>>

Moves(r, from, to) ==
  /\ request[r] = from
  /\ request' = [request EXCEPT ![r] = to]
  /\ UNCHANGED <<config, main, ending, Stores, Serving, quit, Background, forced>>

Accept(r) == server = "open" /\ Moves(r, "none", "running")

Query(r) == postgres = "open" /\ Moves(r, "running", "querying")

(* The pool gives no connections any more: the request fails. *)
QueryRefused(r) == postgres # "open" /\ Moves(r, "running", "refused")

QueryEnds(r) == Moves(r, "querying", "running")

Answer(r) == Moves(r, "running", "answered")

-----------------------------------------------------------------------------
(* A background goroutine sees that its context is canceled. *)
TaskEnds(t) ==
  /\ Alive /\ canceled /\ task[t] = "running"
  /\ task' = [task EXCEPT ![t] = "over"]
  /\ UNCHANGED <<config, main, ending, Stores, Serving, quit, canceled, request, forced>>

-----------------------------------------------------------------------------
(* Shutdown. *)

ServerError == main = "serving" /\ serverErr /\ Fatal

(* Slip: the worker is stopped first. *)
ReceiveSignal_CancelFirst ==
  /\ main = "serving" /\ quit
  /\ main' = "shutting_down"
  /\ server' = IF server = "failed" THEN "failed" ELSE "closed"
  /\ canceled' = TRUE
  /\ quit' = FALSE
  /\ UNCHANGED <<config, ending, Stores, serverErr, task, request, forced>>

(* Shutdown closes the listener and begins to wait for the requests. *)
ReceiveSignal ==
  /\ main = "serving" /\ quit
  /\ main' = "shutting_down"
  /\ server' = IF server = "failed" THEN "failed" ELSE "closed"
  /\ quit' = FALSE
  /\ UNCHANGED <<config, ending, Stores, serverErr, Background, request, forced>>

Quiet == \A r \in Requests : request[r] \notin Active

(* Slip: Close in place of Shutdown, which does not wait. *)
ShutdownDone_NoWait ==
  /\ main = "shutting_down"
  /\ main' = "canceling"
  /\ UNCHANGED <<config, ending, Stores, Serving, quit, Background, request, forced>>

ShutdownDone ==
  /\ main = "shutting_down" /\ Quiet
  /\ main' = "canceling"
  /\ UNCHANGED <<config, ending, Stores, Serving, quit, Background, request, forced>>

(* Slip: Shutdown gets a context without a deadline. *)
ShutdownTimesOut_Never == FALSE /\ ShutdownDone

(* Ten seconds have passed; main goes on and leaves the requests alone. *)
ShutdownTimesOut ==
  /\ main = "shutting_down" /\ ~Quiet
  /\ main' = "canceling"
  /\ forced' = TRUE
  /\ UNCHANGED <<config, ending, Stores, Serving, quit, Background, request>>

CancelWorker ==
  /\ main = "canceling"
  /\ main' = "closing_redis"
  /\ canceled' = TRUE
  /\ UNCHANGED <<config, ending, Stores, Serving, quit, task, request, forced>>

(* The deferred calls, the last one first. *)
CloseRedis ==
  /\ main = "closing_redis"
  /\ main' = "closing_postgres"
  /\ redis' = "closed"
  /\ postgres' = "closing"
  /\ UNCHANGED <<config, ending, Serving, quit, Background, request, forced>>

(* Close of the pool returns when every connection has come back. *)
ClosePostgres ==
  /\ main = "closing_postgres"
  /\ \A r \in Requests : request[r] # "querying"
  /\ postgres' = "closed"
  /\ Exit("clean")
  /\ UNCHANGED <<config, redis, serverErr, quit, canceled, forced>>

-----------------------------------------------------------------------------
Main ==
  \/ Migrate \/ OpenPostgres \/ OpenRedis \/ BootFails \/ Start \/ Notify
  \/ ServerError \/ ReceiveSignal \/ ShutdownDone \/ ShutdownTimesOut
  \/ CancelWorker \/ CloseRedis \/ ClosePostgres

Next ==
  \/ Main \/ Signal \/ Listen \/ ServerFails
  \/ \E r \in Requests : Accept(r) \/ Query(r) \/ QueryRefused(r) \/ QueryEnds(r) \/ Answer(r)
  \/ \E t \in Tasks : TaskEnds(t)

Spec == Init /\ [][Next]_vars

(* main goes on, and a query comes to an end; a handler may hang. *)
Fairness ==
  /\ WF_vars(Main)
  /\ \A r \in Requests : WF_vars(QueryEnds(r)) /\ WF_vars(QueryRefused(r))

FairSpec == Spec /\ Fairness

-----------------------------------------------------------------------------
(* The types, and that nothing is served before both stores are open. *)
TypeOK ==
  /\ config \in [qstash : BOOLEAN, remote_write : BOOLEAN]
  /\ main \in Booting \cup {"serving", "shutting_down", "canceling", "closing_redis",
                            "closing_postgres", "exited"}
  /\ ending \in {"not", "fatal", "killed", "clean"}
  /\ postgres \in {"none", "open", "closing", "closed"} /\ redis \in {"none", "open", "closed"}
  /\ server \in {"none", "starting", "open", "failed", "closed"} /\ serverErr \in BOOLEAN
  /\ quit \in BOOLEAN /\ canceled \in BOOLEAN /\ forced \in BOOLEAN
  /\ task \in [Tasks -> {"none", "running", "over", "killed"}]
  /\ request \in [Requests -> {"none", "answered", "refused", "cut"} \cup Active]
  /\ server # "none" => ~Alive \/ (postgres # "none" /\ redis # "none")

(* Every request that was accepted is answered with the stores open, unless *)
(* Shutdown gave up on it, the server failed, or a signal came before main  *)
(* listened for signals.                                                   *)
AcceptedIsAnswered ==
  \A r \in Requests : request[r] \in {"refused", "cut"} => forced \/ ending \in {"fatal", "killed"}

(* As long as a handler may run, and Shutdown has not given up, the worker  *)
(* that handlers would enqueue into has not been told to close its queue:   *)
(* a send on the closed queue would end the process.                       *)
WorkerOutlivesHandlers ==
  canceled /\ ~config.qstash => forced \/ Quiet

(* Once a signal has been noticed, or the server has failed while main was  *)
(* listening, the process ends, even if handlers hang.                     *)
StopEnds == quit \/ (main = "serving" /\ serverErr) ~> ~Alive

(* Until main has stopped waiting for the handlers, the push of metrics     *)
(* ends only in a process with QStash, where its context is canceled from   *)
(* the start: no signal and no failure of the server ends it earlier.       *)
PushLostOnlyToQStash ==
  main \in {"serving", "shutting_down"} /\ config.remote_write /\ task["remote_write"] # "running"
    => config.qstash
=============================================================================

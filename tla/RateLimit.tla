------------------------------ MODULE RateLimit ------------------------------
(***************************************************************************)
(* The rate limiter in front of every route: IncrRateLimit of              *)
(* repository/redis/cache_repo.go, called by RedirectRateLimiter and       *)
(* APIRateLimiter of delivery/http/middleware/ratelimit.go.                *)
(*                                                                         *)
(* Each request sends INCR and EXPIRE in one pipeline, which is not a      *)
(* transaction: other requests' commands and the passing of time come      *)
(* between the two, and the connection may break after the first.          *)
(* A client stands for one limiter key: an address or a user.              *)
(***************************************************************************)
EXTENDS Integers, FiniteSets

CONSTANTS
  Clients,
  Limit,     \* requestsPerMinute
  Window,    \* windowSecs, in ticks
  Patience,  \* the Redis client's timeouts: ticks a pipeline may take
  MaxSends,  \* how often the Redis client sends a pipeline that meets network errors
  MaxCalls,  \* bound: requests in all
  Absent,    \* no key
  NoTTL      \* a key that no EXPIRE has reached

ASSUME LimitAssumption ==
  /\ Limit \in Nat \ {0}
  /\ Window \in Nat \ {0}
  /\ Patience \in Nat /\ Patience < Window
  /\ MaxSends \in 1..Limit
  /\ MaxCalls \in Nat
  /\ NoTTL \notin Nat

VARIABLES
  key,   \* Redis: rl:{client}, or Absent
  calls  \* history of the requests, in the order in which they reached the limiter

vars == <<key, calls>>

Key == [count : Nat \ {0}, ttl : (1..Window) \cup {NoTTL}]

ASSUME AbsentAssumption == Absent \notin Key

(* count    what INCR returned                                             *)
(* sends    how often the pipeline was sent                                 *)
(* age      time since the request's last command, up to Window             *)
(* recent   the client's requests that were younger than Window when it was *)
(*          counted, and those that came while it was under way             *)
(* straddled  the key expired between its INCR and its EXPIRE               *)
Call ==
  [client : Clients,
   pc     : {"incremented", "admitted", "refused", "cut", "unheard"},
   count : Nat, sends : 0..MaxSends, age : 0..Window, recent : SUBSET Nat, straddled : BOOLEAN]

Calls == DOMAIN calls

UnderWay(i) == calls[i].pc = "incremented"

Recent(c) == {i \in Calls : calls[i].client = c /\ calls[i].age < Window}

-----------------------------------------------------------------------------
Init ==
  /\ key = [c \in Clients |-> Absent]
  /\ calls = <<>>

NewCall(c, pc, count, sends) ==
  LET n == Cardinality(Calls) + 1
      new == [client |-> c, pc |-> pc, count |-> count, sends |-> sends, age |-> 0,
              recent |-> Recent(c), straddled |-> FALSE]
      meets(i) == calls[i].client = c /\ UnderWay(i)
  IN
  calls' = [i \in Calls \cup {n} |->
    IF i = n THEN new
    ELSE IF meets(i) THEN [calls[i] EXCEPT !.recent = @ \cup {n}]
    ELSE calls[i]]

Counted(k) == IF k = Absent THEN [count |-> 1, ttl |-> NoTTL] ELSE [k EXCEPT !.count = @ + 1]

(* INCR creates a missing key without a TTL and keeps the TTL of one it finds. *)
Incr(c) ==
  /\ Cardinality(Calls) < MaxCalls
  /\ key' = [key EXCEPT ![c] = Counted(@)]
  /\ NewCall(c, "incremented", Counted(key[c]).count, 1)

(* Redis cannot be reached: the request is let through. *)
FailOpen(c) ==
  /\ Cardinality(Calls) < MaxCalls
  /\ NewCall(c, "unheard", 0, 0)
  /\ UNCHANGED key

(* Slip: only INCR is queued in the pipeline. *)
Expired_Missing(k) == k

(* EXPIRE starts the window anew, at every request; it finds nothing when   *)
(* the key has just expired.                                                *)
Expired(k) == IF k = Absent THEN Absent ELSE [k EXCEPT !.ttl = Window]

(* Slip: one request more than the limit is let through. *)
Exceeded_OffByOne(count) == count > Limit + 1

Exceeded(count) == count > Limit

(* EXPIRE runs and both replies arrive. *)
Decide(i) ==
  /\ UnderWay(i)
  /\ key' = [key EXCEPT ![calls[i].client] = Expired(@)]
  /\ calls' = [calls EXCEPT ![i] =
       [@ EXCEPT !.pc = IF Exceeded(calls[i].count) THEN "refused" ELSE "admitted", !.age = 0]]

(* The connection breaks after the two commands or between them: Exec       *)
(* returns an error and the limiter lets the request through.               *)
Break(i) ==
  /\ UnderWay(i)
  /\ \/ /\ key' = [key EXCEPT ![calls[i].client] = Expired(@)]
        /\ calls' = [calls EXCEPT ![i] = [@ EXCEPT !.pc = "unheard", !.age = 0]]
     \/ /\ calls' = [calls EXCEPT ![i].pc = "cut"]
        /\ UNCHANGED key

(* It breaks, and the client sends the whole pipeline once more: the        *)
(* request is counted twice.                                                *)
Resend(i) ==
  LET c == calls[i].client IN
  /\ UnderWay(i) /\ calls[i].sends < MaxSends
  /\ \E k \in {key[c], Expired(key[c])} :
       /\ key' = [key EXCEPT ![c] = Counted(k)]
       /\ calls' = [calls EXCEPT ![i] =
            [calls[i] EXCEPT !.count = Counted(k).count, !.sends = @ + 1, !.age = 0,
                             !.recent = @ \cup (Recent(c) \ {i}), !.straddled = FALSE]]

(* Slip: a key is kept when its time is up. *)
Older_Kept(k) ==
  IF k = Absent \/ k.ttl = NoTTL THEN k ELSE [k EXCEPT !.ttl = @ - 1]

Older(k) ==
  IF k = Absent \/ k.ttl = 1 THEN Absent
  ELSE IF k.ttl = NoTTL THEN k
  ELSE [k EXCEPT !.ttl = @ - 1]

Tick ==
  /\ \A i \in Calls : UnderWay(i) => calls[i].age < Patience
  /\ key' = [c \in Clients |-> Older(key[c])]
  /\ calls' = [i \in Calls |->
       [calls[i] EXCEPT
          !.age = IF @ = Window THEN @ ELSE @ + 1,
          !.straddled = @ \/ (UnderWay(i) /\ Older(key[calls[i].client]) = Absent)]]

Next ==
  \/ \E c \in Clients : Incr(c) \/ FailOpen(c)
  \/ \E i \in Calls : Decide(i) \/ Break(i) \/ Resend(i)
  \/ Tick

Spec == Init /\ [][Next]_vars

(* A pipeline that was begun ends one way or another, and time passes. *)
Fairness ==
  /\ \A i \in 1..MaxCalls : WF_vars(i \in Calls /\ (Decide(i) \/ Break(i)))
  /\ WF_vars(Tick)

FairSpec == Spec /\ Fairness

-----------------------------------------------------------------------------
TypeOK ==
  /\ key \in [Clients -> Key \cup {Absent}]
  /\ Cardinality(Calls) <= MaxCalls
  /\ calls \in [1..Cardinality(Calls) -> Call]

(* Among the requests of a client no older than the window, no more than   *)
(* Limit were let through by count, wherever the window begins: only a      *)
(* Redis error, or a key that expires inside a pipeline, lets more in.      *)
AdmittedWithinLimit ==
  \A c \in Clients :
    Cardinality({i \in Recent(c) : calls[i].pc = "admitted" /\ ~calls[i].straddled}) <= Limit

(* A client that has been silent for a whole window is not refused, unless  *)
(* a pipeline of its own was once cut between INCR and EXPIRE, which leaves *)
(* a count that never expires by itself.                                    *)
SilenceForgives ==
  \A i \in Calls :
    calls[i].pc = "refused" /\ calls[i].recent = {} =>
      \E j \in Calls : j # i /\ calls[j].client = calls[i].client /\ calls[j].pc = "cut"

(* Clients that stop asking are forgotten: every key goes away, except one  *)
(* that a cut pipeline left without a time to live.                         *)
EventuallyForgotten ==
  <>[](\A c \in Clients : key[c] # Absent =>
         \E i \in Calls : calls[i].client = c /\ calls[i].pc = "cut")

(* ratelimit.go:16-17, "Default: 60 requests per minute per IP. Uses a      *)
(* fixed-window counter": as long as no pipeline has broken, a request is   *)
(* refused only when the client has used up its Limit within the window.    *)
RefusedOnlyOverLimit ==
  (\A i \in Calls : calls[i].pc \notin {"cut", "unheard"}) =>
    \A i \in Calls : calls[i].pc = "refused" => Cardinality(calls[i].recent) >= Limit
=============================================================================

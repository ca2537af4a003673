------------------------------- MODULE Accounts -------------------------------
(***************************************************************************)
(* Registration, login and the check of credentials: usecase/              *)
(* auth_usecase.go, repository/postgres/user_repo.go, delivery/http/       *)
(* handler/auth_handler.go and AnyAuthMiddleware of delivery/http/         *)
(* middleware/auth.go. What an authenticated call goes on to do is in      *)
(* ManagementAPI.                                                          *)
(*                                                                         *)
(* The id and the API key of an account are named after the registration   *)
(* that drew them, a token pair after the request it was issued to: uuids  *)
(* and 32 random bytes do not repeat. A password stands for its hash.      *)
(***************************************************************************)
EXTENDS Naturals, FiniteSets

CONSTANTS
  Ops,         \* the requests, each made once
  Emails,
  Passwords,
  Overlong,    \* passwords of more than the 72 bytes that bcrypt takes
  AccessLife,  \* lifetime of an access token
  MaxCrashes,  \* bound: process crashes
  Host,        \* an account that is there from the start
  HostEmail,
  HostPassword,
  None         \* no such credential, or no account

ASSUME AccountsAssumption ==
  /\ AccessLife \in Nat \ {0} /\ MaxCrashes \in Nat
  /\ HostEmail \in Emails /\ HostPassword \in Passwords \ Overlong
  /\ Host \notin Ops /\ None \notin Ops \cup {Host} \cup Emails
  /\ "unknown" \notin Ops \cup {Host, None}

VARIABLES
  users,    \* the rows of users
  life,     \* what each access token has left of its lifetime
  op,       \* the requests
  failed,   \* history: requests that met a failing statement or a crash
  crashes

accounts == <<users, life, op, failed, crashes>>

Ids == Ops \cup {Host}

(* email, password  of a registration or a login                           *)
(* caller  the account that is registered, logged in or acted for          *)
(* key     the account whose API key was presented                         *)
(* bearer  history: the account whose unexpired access token was presented *)
(* known   history: when the login began its account was there             *)
Waiting == [pc |-> "waiting", email |-> None, password |-> None, caller |-> None,
            bearer |-> None, key |-> None, known |-> FALSE]

AuthRunning == {"registering", "logging_in", "checking_key"}

InitAccounts ==
  /\ users = {[id |-> Host, email |-> HostEmail, password |-> HostPassword]}
  /\ life = [i \in Ids |-> IF i = Host THEN AccessLife ELSE 0]
  /\ op = [o \in Ops |-> Waiting]
  /\ failed = {}
  /\ crashes = 0

Ends(o, how) == op' = [op EXCEPT ![o].pc = how]

Begins(o, request) == op[o].pc = "waiting" /\ op' = [op EXCEPT ![o] = request]

(* What an unanswered request was about does not matter any more. *)
Over(how) == [Waiting EXCEPT !.pc = how]

(* Tokens are issued to o for account id. *)
Issues(o, how, id) ==
  /\ op' = [op EXCEPT ![o].pc = how, ![o].caller = id]
  /\ life' = [life EXCEPT ![o] = AccessLife]

-----------------------------------------------------------------------------
(* Register. Nothing but JSON is asked of the input: no request type has a  *)
(* Validate method.                                                        *)

(* bcrypt refuses a password that is too long, which is no error of the     *)
(* domain.                                                                 *)
BeginRegister(o, email, password) ==
  /\ Begins(o, IF password \in Overlong THEN Over("internal_error")
               ELSE [Waiting EXCEPT !.pc = "registering", !.email = email, !.password = password])
  /\ UNCHANGED <<users, life, failed, crashes>>

HasAccount(email) == \E u \in users : u.email = email

Row(o) == [id |-> o, email |-> op[o].email, password |-> op[o].password]

(* Slip: INSERT ... ON CONFLICT (email) DO UPDATE. *)
InsertUser_Upsert(o) ==
  /\ op[o].pc = "registering"
  /\ users' = {u \in users : u.email # op[o].email} \cup {Row(o)}
  /\ Issues(o, "registered", o)
  /\ UNCHANGED <<failed, crashes>>

InsertUser(o) ==
  /\ op[o].pc = "registering" /\ ~HasAccount(op[o].email)
  /\ users' = users \cup {Row(o)}
  /\ Issues(o, "registered", o)
  /\ UNCHANGED <<failed, crashes>>

(* The unique index; there is no look beforehand. *)
InsertRefused(o) ==
  /\ op[o].pc = "registering" /\ HasAccount(op[o].email)
  /\ Ends(o, "email_exists")
  /\ UNCHANGED <<users, life, failed, crashes>>

(* The row is committed and nobody is told of its key. *)
InsertUnconfirmed(o) ==
  /\ op[o].pc = "registering" /\ ~HasAccount(op[o].email)
  /\ users' = users \cup {Row(o)}
  /\ op' = [op EXCEPT ![o] = Over("internal_error")]
  /\ failed' = failed \cup {o}
  /\ UNCHANGED <<life, crashes>>

-----------------------------------------------------------------------------
(* Login.                                                                  *)

Matching(email, password) == {u \in users : u.email = email /\ u.password = password}

BeginLogin(o, email, password) ==
  /\ Begins(o, [Waiting EXCEPT !.email = email, !.password = password, !.pc = "logging_in",
                               !.known = Matching(email, password) # {}])
  /\ UNCHANGED <<users, life, failed, crashes>>

LogIn(o) ==
  /\ op[o].pc = "logging_in"
  /\ \E u \in Matching(op[o].email, op[o].password) : Issues(o, "logged_in", u.id)
  /\ UNCHANGED <<users, failed, crashes>>

(* No such e-mail, or another password: one answer for both. *)
LoginRefused(o) ==
  /\ op[o].pc = "logging_in" /\ Matching(op[o].email, op[o].password) = {}
  /\ Ends(o, "invalid_credentials")
  /\ UNCHANGED <<users, life, failed, crashes>>

-----------------------------------------------------------------------------
(* AnyAuthMiddleware: first the bearer token, which is checked without a    *)
(* query, then the API key.                                                *)

Issued(i) == i = Host \/ op[i].pc \in {"registered", "logged_in"}

Owner(i) == IF i = Host THEN Host ELSE op[i].caller

(* Slip: both kinds of tokens are signed with the same secret. *)
Valid_AnySecret(token) == token.kind = "refresh" \/ life[token.of] > 0

(* A refresh token is signed with another secret; an access token lives    *)
(* AccessLife.                                                             *)
Valid(token) == token.kind = "access" /\ life[token.of] > 0

Tokens == [kind : {"access", "refresh"}, of : {i \in Ids : Issued(i)}]

Unexpired(token) == token.kind = "access" /\ life[token.of] > 0

(* token is what the Authorization header holds: nothing, or one that was   *)
(* issued; key stands in the same way for the X-API-Key header. A token     *)
(* that is not valid is not mentioned again.                               *)
BeginCall(o, token, key) ==
  LET bearer == IF token # None /\ Valid(token) THEN Owner(token.of) ELSE None IN
  /\ Begins(o, [Waiting EXCEPT
       !.pc = CASE bearer # None                -> "authenticated"
                [] bearer = None /\ key # None  -> "checking_key"
                [] OTHER                        -> "unauthorized",
       !.caller = bearer,
       !.bearer = IF token # None /\ Unexpired(token) THEN Owner(token.of) ELSE None,
       !.key = key])
  /\ UNCHANGED <<users, life, failed, crashes>>

(* ValidateAPIKey. *)
CheckKey(o) ==
  /\ op[o].pc = "checking_key"
  /\ IF \E u \in users : u.id = op[o].key
     THEN op' = [op EXCEPT ![o].pc = "authenticated", ![o].caller = op[o].key]
     ELSE Ends(o, "unauthorized")
  /\ UNCHANGED <<users, life, failed, crashes>>

-----------------------------------------------------------------------------
(* Slip: every error of FindByEmail is ErrInvalidCredentials. *)
FailedAuth_Invalid(pc) ==
  CASE pc = "checking_key" -> "unauthorized"
    [] pc = "logging_in"   -> "invalid_credentials"
    [] OTHER               -> "internal_error"

(* A statement fails without an effect. The middleware takes that for a     *)
(* wrong key; Login and Register return the error.                         *)
FailedAuth(pc) == IF pc = "checking_key" THEN "unauthorized" ELSE "internal_error"

AuthQueryFails(o) ==
  /\ op[o].pc \in AuthRunning
  /\ Ends(o, FailedAuth(op[o].pc))
  /\ failed' = failed \cup {o}
  /\ UNCHANGED <<users, life, crashes>>

(* Time passes for every token. *)
Tick ==
  /\ \E i \in Ids : life[i] > 0
  /\ life' = [i \in Ids |-> IF life[i] = 0 THEN 0 ELSE life[i] - 1]
  /\ UNCHANGED <<users, op, failed, crashes>>

(* The keys that somebody was told, and any other string. *)
Keys == {i \in Ids : i = Host \/ op[i].pc = "registered"} \cup {"unknown"}

NextAccounts ==
  \/ \E o \in Ops :
       \/ \E email \in Emails, password \in Passwords :
            BeginRegister(o, email, password) \/ BeginLogin(o, email, password)
       \/ InsertUser(o) \/ InsertRefused(o) \/ InsertUnconfirmed(o)
       \/ LogIn(o) \/ LoginRefused(o)
       \/ \E token \in Tokens \cup {None}, key \in Keys \cup {None} : BeginCall(o, token, key)
       \/ CheckKey(o)
       \/ AuthQueryFails(o)
  \/ Tick
=============================================================================

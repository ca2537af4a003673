---------------------------- MODULE ManagementAPI ----------------------------
(***************************************************************************)
(* A call of the management API after its authentication: the handlers of  *)
(* delivery/http/handler/link_handler.go with the operations of usecase/   *)
(* link_usecase.go, each of which finds the link, compares its owner with  *)
(* the caller and then runs one statement more, and the statuses that      *)
(* customErrorHandler of delivery/http/router.go makes of their errors.    *)
(* What the statements mean for slugs and weights is in LinkManagement,    *)
(* for the cache in LinkCache.                                             *)
(*                                                                         *)
(* Links and parts (variants and geo rules) are named after the request    *)
(* that created them. A soft-deleted link is found like any other.         *)
(***************************************************************************)
EXTENDS Accounts

CONSTANTS
  HostLink,   \* a link of Host, there from the start
  HostPart,   \* a variant of it
  Countries   \* that geo rules are for; a variant is for none

ASSUME PartsAssumption == HostPart \notin Ops \cup {None}

VARIABLES
  links,   \* the owner of each link
  parts,   \* the rows of ab_tests and geo_rules
  target   \* the link, and then the part, that each request is about

vars == <<accounts, links, parts, target>>

Calling == {"authenticated", "updating", "adding", "removing"}

Running == AuthRunning \cup Calling

NoTarget == [link |-> None, part |-> None]

Init ==
  /\ InitAccounts
  /\ links = [l \in {HostLink} |-> Host]
  /\ parts = {[id |-> HostPart, link |-> HostLink, country |-> None]}
  /\ target = [o \in Ops |-> NoTarget]

-----------------------------------------------------------------------------
(* APIRateLimiter comes after the authentication. *)
TooMany(o) ==
  /\ op[o].pc = "authenticated"
  /\ Ends(o, "too_many_requests")
  /\ UNCHANGED <<users, life, failed, crashes, links, parts, target>>

Linked(o) == [l \in DOMAIN links \cup {o} |-> IF l = o THEN op[o].caller ELSE links[l]]

(* Create; the slug is free. *)
CreateLink(o) ==
  /\ op[o].pc = "authenticated"
  /\ links' = Linked(o)
  /\ target' = [target EXCEPT ![o].link = o]
  /\ Ends(o, "created")
  /\ UNCHANGED <<users, life, failed, crashes, parts>>

(* FindByID and the comparison of the owner, for every other operation.     *)
(* next is what the operation does then: reading is done with it.           *)
Find(o, link, next) ==
  /\ op[o].pc = "authenticated"
  /\ target' = [target EXCEPT ![o].link = link]
  /\ Ends(o, CASE link \notin DOMAIN links                                   -> "not_found"
               [] link \in DOMAIN links /\ links[link] # op[o].caller        -> "forbidden"
               [] OTHER                                                      -> next)
  /\ UNCHANGED <<users, life, failed, crashes, links, parts>>

(* A destination that is no URL, a weight or a country that is none: after  *)
(* the owner has been compared.                                            *)
Invalid(o) ==
  /\ op[o].pc \in {"updating", "adding"}
  /\ Ends(o, "bad_request")
  /\ UNCHANGED <<users, life, failed, crashes, links, parts, target>>

(* Update and Delete; a link is never removed. *)
UpdateLink(o) ==
  /\ op[o].pc = "updating"
  /\ Ends(o, "ok")
  /\ UNCHANGED <<users, life, failed, crashes, links, parts, target>>

RuleFor(link, country) == \E p \in parts : p.link = link /\ p.country = country

Added(o, country) == [id |-> o, link |-> target[o].link, country |-> country]

(* Slip: the rule that is there gets the new destination. *)
AddPart_Upsert(o, country) ==
  /\ op[o].pc = "adding"
  /\ parts' = {p \in parts : country = None \/ p.link # target[o].link \/ p.country # country}
                \cup {Added(o, country)}
  /\ target' = [target EXCEPT ![o].part = o]
  /\ Ends(o, "created")
  /\ UNCHANGED <<users, life, failed, crashes, links>>

AddPart(o, country) ==
  /\ op[o].pc = "adding" /\ (country = None \/ ~RuleFor(target[o].link, country))
  /\ parts' = parts \cup {Added(o, country)}
  /\ target' = [target EXCEPT ![o].part = o]
  /\ Ends(o, "created")
  /\ UNCHANGED <<users, life, failed, crashes, links>>

(* UNIQUE (link_id, country_code). *)
AddRefused(o, country) ==
  /\ op[o].pc = "adding" /\ country # None /\ RuleFor(target[o].link, country)
  /\ Ends(o, "conflict")
  /\ UNCHANGED <<users, life, failed, crashes, links, parts, target>>

Has(part) == \E p \in parts : p.id = part

Without(part) == {p \in parts : p.id # part}

(* By the part's own id, whatever link it belongs to. *)
RemovePart(o, part) ==
  /\ op[o].pc = "removing" /\ Has(part)
  /\ parts' = Without(part)
  /\ target' = [target EXCEPT ![o].part = part]
  /\ Ends(o, "no_content")
  /\ UNCHANGED <<users, life, failed, crashes, links>>

(* Slip: the number of affected rows is not looked at. *)
RemoveMissing_Ignored(o, part) ==
  /\ op[o].pc = "removing" /\ ~Has(part)
  /\ target' = [target EXCEPT ![o].part = part]
  /\ Ends(o, "no_content")
  /\ UNCHANGED <<users, life, failed, crashes, links, parts>>

(* ErrABTestNotFound and ErrGeoRuleNotFound have no status of their own. *)
RemoveMissing(o, part) ==
  /\ op[o].pc = "removing" /\ ~Has(part)
  /\ target' = [target EXCEPT ![o].part = part]
  /\ Ends(o, "internal_error")
  /\ UNCHANGED <<users, life, failed, crashes, links, parts>>

-----------------------------------------------------------------------------
CallFails(o) ==
  /\ op[o].pc \in Calling
  /\ op' = [op EXCEPT ![o] = Over("internal_error")]
  /\ failed' = failed \cup {o}
  /\ UNCHANGED <<users, life, crashes, links, parts, target>>

(* The row is added or removed, and the database's answer does not arrive. *)
CallUnconfirmed(o) ==
  /\ \/ /\ op[o].pc = "authenticated"
        /\ links' = Linked(o)
        /\ UNCHANGED <<parts, target>>
     \/ \E country \in Countries \cup {None} :
          /\ op[o].pc = "adding" /\ (country = None \/ ~RuleFor(target[o].link, country))
          /\ parts' = parts \cup {Added(o, country)}
          /\ target' = [target EXCEPT ![o].part = o]
          /\ UNCHANGED links
     \/ \E p \in parts :
          /\ op[o].pc = "removing"
          /\ parts' = Without(p.id)
          /\ target' = [target EXCEPT ![o].part = p.id]
          /\ UNCHANGED links
  /\ op' = [op EXCEPT ![o] = Over("internal_error")]
  /\ failed' = failed \cup {o}
  /\ UNCHANGED <<users, life, crashes>>

(* The process dies with every request; tokens and rows outlive it. *)
Crash ==
  LET running == {o \in Ops : op[o].pc \in Running} IN
  /\ crashes < MaxCrashes
  /\ crashes' = crashes + 1
  /\ op' = [o \in Ops |-> IF o \in running THEN Over("killed") ELSE op[o]]
  /\ failed' = failed \cup running
  /\ UNCHANGED <<users, life, links, parts, target>>

-----------------------------------------------------------------------------
(* Ids of parts that anybody has seen. *)
Seen == {HostPart} \cup {o \in Ops : target[o].part = o}

Call(o) ==
  \/ TooMany(o) \/ CreateLink(o)
  \/ \E link \in DOMAIN links \cup {None}, next \in {"ok", "updating", "adding", "removing"} :
       Find(o, link, next)
  \/ Invalid(o) \/ UpdateLink(o)
  \/ \E country \in Countries \cup {None} : AddPart(o, country) \/ AddRefused(o, country)
  \/ \E part \in Seen : RemovePart(o, part) \/ RemoveMissing(o, part)
  \/ CallFails(o) \/ CallUnconfirmed(o)

Next ==
  \/ NextAccounts /\ UNCHANGED <<links, parts, target>>
  \/ \E o \in Ops : Call(o)
  \/ Crash

Spec == Init /\ [][Next]_vars

-----------------------------------------------------------------------------
(* A registration that was answered with tokens and a key has an account    *)
(* with its own password and key, whoever asked for the same e-mail before, *)
(* during or after it; and one that is refused lost to an account that is   *)
(* there.                                                                  *)
RegisteredIsStored ==
  \A o \in Ops :
    /\ op[o].pc = "registered" =>
         /\ Row(o) \in users
         /\ \A u \in users : u.email = op[o].email => u.id = o
    /\ op[o].pc = "email_exists" => \E u \in users : u.email = op[o].email /\ u.id # o

(* Nobody is told that the credentials are wrong who had an account with    *)
(* them when the login began: no failing store is taken for a wrong         *)
(* password. Who is logged in has the account's password.                   *)
LoginIsHonest ==
  \A o \in Ops :
    /\ op[o].pc = "invalid_credentials" => ~op[o].known
    /\ op[o].pc = "logged_in" =>
         \E u \in Matching(op[o].email, op[o].password) : u.id = op[o].caller

(* A call acts for an account whose unexpired access token or API key came  *)
(* with it, which exists; and it is refused only if neither came, or the    *)
(* key's lookup failed.                                                    *)
ActsForHolder ==
  \A o \in Ops :
    /\ op[o].caller # None /\ op[o].email = None =>
         /\ op[o].caller \in {op[o].bearer, op[o].key}
         /\ \E u \in users : u.id = op[o].caller
    /\ op[o].pc = "unauthorized" /\ o \notin failed =>
         op[o].bearer = None /\ \A u \in users : u.id # op[o].key

(* A variant or rule whose creation was answered stays until somebody       *)
(* removes it, one removal of it is answered with success, and another one  *)
(* without a failing statement, whatever its answer, comes too late for a   *)
(* part that somebody has tried to remove.                                  *)
RemovedOnce ==
  LET Removed(part) == {o \in Ops : target[o].part = part /\ op[o].pc = "no_content"}
      Tried(part) == {o \in Ops : target[o].part = part /\ part # o /\ o \in failed}
  IN \A o \in Ops :
    /\ op[o].pc = "created" /\ target[o].part = o =>
         Has(o) \/ Removed(o) \cup Tried(o) # {}
    /\ op[o].pc = "no_content" => Removed(target[o].part) = {o}
    /\ target[o].part \notin {None, o} /\ op[o].pc # "no_content" /\ o \notin failed =>
         Removed(target[o].part) \cup Tried(target[o].part) # {}
=============================================================================

------------------------- MODULE ManagementAPIProofs -------------------------
(***************************************************************************)
(* Proofs about ManagementAPI, for any number of requests, e-mails,        *)
(* passwords, countries and crashes and any lifetime of a token.           *)
(***************************************************************************)
EXTENDS ManagementAPI, TLAPS

Open == {"waiting"} \cup Running

Ended ==
  {"registered", "email_exists", "logged_in", "invalid_credentials", "unauthorized",
   "too_many_requests", "created", "not_found", "forbidden", "ok", "bad_request", "conflict",
   "no_content", "internal_error", "killed"}

Parts == Ops \cup {HostPart}

Request ==
  [pc : Open \cup Ended, email : Emails \cup {None}, password : Passwords \cup {None},
   caller : Ids \cup {None}, bearer : Ids \cup {None}, key : Ids \cup {"unknown", None},
   known : BOOLEAN]

TypeOK ==
  /\ users \subseteq [id : Ids, email : Emails, password : Passwords]
  /\ op \in [Ops -> Request]
  /\ failed \subseteq Ops
  /\ target \in [Ops -> [link : DOMAIN links \cup {None}, part : Parts \cup {None}]]
  /\ parts \subseteq [id : Parts, link : DOMAIN links \cup {None}, country : Countries \cup {None}]

Account(id) == \E u \in users : u.id = id

(* The unique index of users.email. *)
UniqueEmails == \A u, v \in users : u.email = v.email => u = v

(* A row is Host's, or one that a finished registration has inserted. *)
RowsOfRequests ==
  \A u \in users : u.id = Host \/ op[u.id].pc \in {"registered", "internal_error"}

(* What the request has been told about the accounts, and what it may still *)
(* be told. None of it is lost when accounts are added.                     *)
Informed(o) ==
  LET q == op[o] IN
  /\ q.pc \in {"registering", "logging_in"} => q.email \in Emails /\ q.password \in Passwords
  /\ q.pc = "registered" => q.caller = o /\ Row(o) \in users
  /\ q.pc = "email_exists" => \E u \in users : u.email = q.email /\ u.id # o
  /\ q.pc = "logging_in" /\ q.known => Matching(q.email, q.password) # {}
  /\ q.pc = "invalid_credentials" => ~q.known
  /\ q.pc = "logged_in" => \E u \in Matching(q.email, q.password) : u.id = q.caller

(* For whom the request acts. *)
Authorized(o) ==
  LET q == op[o] IN
  /\ q.pc = "checking_key" =>
       /\ q.caller = None /\ q.bearer = None /\ q.email = None
       /\ q.key = "unknown" \/ Account(q.key)
  /\ q.caller # None /\ q.email = None =>
       q.caller \in {q.bearer, q.key} /\ Account(q.caller)
  /\ q.pc = "unauthorized" /\ o \notin failed => q.bearer = None /\ q.key \in {None, "unknown"}

RequestInv(o) ==
  /\ op[o].pc = "waiting" => op[o] = Waiting
  /\ o \in failed => op[o].pc \notin Open
  /\ Informed(o) /\ Authorized(o)

AccountsInv ==
  /\ UniqueEmails /\ RowsOfRequests /\ Account(Host)
  /\ \A o \in Ops : RequestInv(o)

-----------------------------------------------------------------------------
Removed(part) == {o \in Ops : target[o].part = part /\ op[o].pc = "no_content"}

Tried(part) == {o \in Ops : target[o].part = part /\ part # o /\ o \in failed}

(* A request names a part with its last statement, and only one that has been seen. *)
NamedLast ==
  \A o \in Ops :
    /\ target[o].part # None => op[o].pc \notin Open /\ target[o].part \in Seen
    /\ op[o].pc = "no_content" => target[o].part # None

RowsAreSeen == \A p \in parts : p.id \in Seen

(* A part is there, or somebody has tried to remove it; once that was      *)
(* answered with success it is gone, and only one removal was.             *)
RemovedInv ==
  \A part \in Seen :
    /\ Has(part) \/ Removed(part) \cup Tried(part) # {}
    /\ Removed(part) # {} => ~Has(part)
    /\ \A o, p \in Removed(part) : o = p

(* A removal that did not fail, and not succeed, was of a part that was not there. *)
ErrorsInv ==
  \A o \in Ops :
    target[o].part \notin {None, o} /\ op[o].pc # "no_content" /\ o \notin failed
      => Removed(target[o].part) \cup Tried(target[o].part) # {}

PartsInv == NamedLast /\ RowsAreSeen /\ RemovedInv /\ ErrorsInv

IInv == TypeOK /\ AccountsInv /\ PartsInv

-----------------------------------------------------------------------------
(* The values that stand for nothing are no values of the others. *)
LEMMA NamesAreApart ==
  /\ None \notin Ops /\ None \notin Parts /\ None \notin Ids /\ None \notin Emails
  /\ HostPart \notin Ops /\ Host \notin Ops
  /\ "unknown" \notin Ids /\ "unknown" # None
BY AccountsAssumption, PartsAssumption DEF Parts, Ids

(* The inductive invariant holds initially. *)
LEMMA InitInv == Init => IInv
<1> SUFFICES ASSUME Init PROVE IInv
  OBVIOUS
<1> USE DEF Init, InitAccounts
<1>1. users = {[id |-> Host, email |-> HostEmail, password |-> HostPassword]}
  OBVIOUS
<1>2. \A o \in Ops : op[o] = Waiting /\ target[o] = NoTarget
  OBVIOUS
<1>3. TypeOK
  <2>1. users \subseteq [id : Ids, email : Emails, password : Passwords]
    BY <1>1, AccountsAssumption DEF Ids
  <2>2. op \in [Ops -> Request]
    BY DEF Request, Waiting, Open
  <2>3. target \in [Ops -> [link : DOMAIN links \cup {None}, part : Parts \cup {None}]]
    BY DEF NoTarget
  <2>4. parts \subseteq [id : Parts, link : DOMAIN links \cup {None}, country : Countries \cup {None}]
    BY DEF Parts
  <2> QED
    BY <2>1, <2>2, <2>3, <2>4 DEF TypeOK
<1>4. AccountsInv
  <2>1. UniqueEmails /\ RowsOfRequests /\ Account(Host)
    BY <1>1 DEF UniqueEmails, RowsOfRequests, Account
  <2>2. \A o \in Ops : RequestInv(o)
    BY <1>2 DEF RequestInv, Informed, Authorized, Waiting
  <2> QED
    BY <2>1, <2>2 DEF AccountsInv
<1>5. PartsInv
  <2>1. Seen = {HostPart}
    BY <1>2, NamesAreApart DEF Seen, NoTarget
  <2>2. Has(HostPart)
    BY DEF Has
  <2>3. \A part \in Seen : Removed(part) = {}
    BY <1>2 DEF Removed, Waiting
  <2> QED
    BY <1>2, <2>1, <2>2, <2>3 DEF PartsInv, NamedLast, RowsAreSeen, RemovedInv, ErrorsInv, NoTarget, Waiting
<1> QED
  BY <1>3, <1>4, <1>5 DEF IInv

-----------------------------------------------------------------------------
(* More accounts take nothing away from what a request was told. *)
LEMMA ToldStays ==
  ASSUME NEW o \in Ops, RequestInv(o), users \subseteq users',
         op'[o] = op[o], o \in failed' <=> o \in failed
  PROVE  RequestInv(o)'
<1>1. Informed(o)'
  BY DEF RequestInv, Informed, Row, Matching
<1>2. Authorized(o)'
  BY DEF RequestInv, Authorized, Account
<1> QED
  BY <1>1, <1>2 DEF RequestInv

(* A step that adds no account leaves the invariant to the requests it changes, *)
(* which had not ended.                                                     *)
LEMMA SameUsers ==
  ASSUME TypeOK, AccountsInv, UNCHANGED users,
         \A o \in Ops : \/ op'[o] = op[o] /\ (o \in failed' <=> o \in failed)
                        \/ op[o].pc \in Open /\ RequestInv(o)'
  PROVE  AccountsInv'
<1>1. UniqueEmails' /\ Account(Host)'
  BY DEF AccountsInv, UniqueEmails, Account
<1>2. RowsOfRequests'
  <2> SUFFICES ASSUME NEW u \in users, u.id # Host
               PROVE  op'[u.id].pc \in {"registered", "internal_error"}
    BY DEF RowsOfRequests
  <2>1. op[u.id].pc \in {"registered", "internal_error"} /\ u.id \in Ops
    BY DEF AccountsInv, RowsOfRequests, TypeOK, Ids
  <2> QED
    BY <2>1 DEF Open, Running, AuthRunning, Calling
<1>3. \A o \in Ops : RequestInv(o)'
  BY ToldStays DEF AccountsInv
<1> QED
  BY <1>1, <1>2, <1>3 DEF AccountsInv

-----------------------------------------------------------------------------
(* A step of requests that have not ended, which names no part, touches no  *)
(* history of the parts.                                                    *)
LEMMA SameParts ==
  ASSUME TypeOK, PartsInv, UNCHANGED parts,
         \A o \in Ops : /\ target'[o].part = target[o].part
                        /\ \/ op'[o] = op[o] /\ (o \in failed' <=> o \in failed)
                           \/ op[o].pc \in Open /\ op'[o].pc # "no_content"
  PROVE  PartsInv'
<1>1. Seen' = Seen
  BY DEF Seen
<1>2. \A o \in Ops : target[o].part # None => op'[o] = op[o] /\ (o \in failed' <=> o \in failed)
  BY DEF PartsInv, NamedLast
<1>3. \A part \in Parts : Removed(part)' = Removed(part) /\ Tried(part)' = Tried(part)
  BY <1>2, NamesAreApart DEF Removed, Tried
<1>4. \A part : Has(part)' = Has(part)
  BY DEF Has
<1>5. Seen \subseteq Parts
  BY DEF Seen, Parts
<1>6. NamedLast' /\ RowsAreSeen'
  BY <1>1, <1>2 DEF PartsInv, NamedLast, RowsAreSeen
<1>7. RemovedInv'
  BY <1>1, <1>3, <1>4, <1>5 DEF PartsInv, RemovedInv
<1>8. ErrorsInv'
  <2> SUFFICES ASSUME NEW o \in Ops, target[o].part \notin {None, o}, op'[o].pc # "no_content",
                      o \notin failed'
               PROVE  Removed(target[o].part)' \cup Tried(target[o].part)' # {}
    BY DEF ErrorsInv
  <2>1. op[o].pc # "no_content" /\ o \notin failed /\ target[o].part \in Parts
    BY <1>2, <1>5 DEF PartsInv, NamedLast
  <2> QED
    BY <1>3, <2>1 DEF PartsInv, ErrorsInv
<1> QED
  BY <1>6, <1>7, <1>8 DEF PartsInv

(* The part a request is going to add has not been seen by anybody. *)
LEMMA NotYetSeen ==
  ASSUME PartsInv, NEW o \in Ops, op[o].pc \in Open
  PROVE  target[o].part = None /\ o \notin Seen
BY NamesAreApart DEF PartsInv, NamedLast, Seen

(* What a last statement about a part does to the requests. *)
NamesPart(o, part, how, fails) ==
  /\ \A x \in Ops \ {o} : op'[x] = op[x] /\ target'[x] = target[x]
  /\ op'[o].pc = how /\ target'[o].part = part
  /\ failed' = IF fails THEN failed \cup {o} ELSE failed

(* An operation that adds a variant or rule keeps the invariant of the *)
(* parts.                                                              *)
LEMMA PartAdded ==
  ASSUME TypeOK, PartsInv, NEW o \in Ops, op[o].pc \in Open, NEW country, NEW fails \in BOOLEAN,
         parts' = parts \cup {Added(o, country)},
         NamesPart(o, o, IF fails THEN "internal_error" ELSE "created", fails)
  PROVE  PartsInv'
<1> USE DEF NamesPart
<1>1. target[o].part = None /\ o \notin Seen
  BY NotYetSeen
<1>2. Seen' = Seen \cup {o} /\ Seen \subseteq Parts
  BY <1>1, NamesAreApart DEF Seen, Parts
<1>3. op'[o].pc \notin Open /\ op'[o].pc # "no_content" /\ o \notin Ops \ {o}
  BY DEF Open, Running, AuthRunning, Calling
<1>4. \A part \in Seen : Removed(part)' = Removed(part) /\ Tried(part)' = Tried(part)
  BY <1>1, <1>2, <1>3, NamesAreApart DEF Removed, Tried
<1>5. Removed(o)' = {}
  BY <1>1, <1>3, NamesAreApart DEF Removed, PartsInv, NamedLast
<1>6. (\A part \in Seen : Has(part)' <=> Has(part)) /\ Has(o)'
  <2>1. Added(o, country).id = o /\ Added(o, country) \in parts'
    BY DEF Added
  <2>2. \A part \in Seen : part # o
    BY <1>1
  <2> QED
    BY <2>1, <2>2 DEF Has
<1>7. NamedLast'
  BY <1>2, <1>3 DEF PartsInv, NamedLast
<1>8. RowsAreSeen'
  BY <1>2 DEF PartsInv, RowsAreSeen, Added
<1>9. RemovedInv'
  BY <1>2, <1>4, <1>5, <1>6 DEF PartsInv, RemovedInv
<1>10. ErrorsInv'
  <2> SUFFICES ASSUME NEW x \in Ops, op'[x].pc # "no_content", x \notin failed',
                      NEW named, named = target'[x].part, named \notin {None, x}
               PROVE  Removed(named)' \cup Tried(named)' # {}
    BY DEF ErrorsInv
  <2>1. x # o
    OBVIOUS
  <2>2. op[x].pc # "no_content" /\ x \notin failed /\ target[x].part = named /\ named \in Seen
    BY <2>1 DEF PartsInv, NamedLast
  <2> QED
    BY <1>4, <2>1, <2>2 DEF PartsInv, ErrorsInv
<1> QED
  BY <1>7, <1>8, <1>9, <1>10 DEF PartsInv

(* An operation that removes a variant or rule keeps the invariant of the *)
(* parts.                                                                 *)
LEMMA PartRemoved ==
  ASSUME TypeOK, PartsInv, NEW o \in Ops, op[o].pc \in Open, NEW fails \in BOOLEAN,
         NEW part \in Seen, Has(part), parts' = Without(part),
         NamesPart(o, part, IF fails THEN "internal_error" ELSE "no_content", fails)
  PROVE  PartsInv'
<1> USE DEF NamesPart
<1>1. target[o].part = None /\ o \notin Seen /\ part # o /\ part # None
  <2>1. target[o].part = None /\ o \notin Seen
    BY NotYetSeen
  <2> QED
    BY <2>1, NamesAreApart DEF Seen, Parts
<1>2. Seen' = Seen /\ Seen \subseteq Parts
  BY <1>1, NamesAreApart DEF Seen, Parts
<1>3. op'[o].pc \notin Open
  BY DEF Open, Running, AuthRunning, Calling
<1>4. \A p \in Seen \ {part} : /\ Removed(p)' = Removed(p) /\ Tried(p)' = Tried(p)
                               /\ Has(p)' = Has(p)
  BY <1>1, <1>2, NamesAreApart DEF Removed, Tried, Has, Without
<1>5. ~Has(part)' /\ Removed(part) = {}
  BY DEF Has, Without, PartsInv, RemovedInv
<1>6. Removed(part)' \subseteq {o} /\ Removed(part)' \cup Tried(part)' # {}
  BY <1>1, <1>5 DEF Removed, Tried
<1>7. NamedLast'
  BY <1>1, <1>2, <1>3 DEF PartsInv, NamedLast
<1>8. RowsAreSeen'
  BY <1>2 DEF PartsInv, RowsAreSeen, Without
<1>9. RemovedInv'
  BY <1>2, <1>4, <1>5, <1>6 DEF PartsInv, RemovedInv
<1>10. ErrorsInv'
  <2> SUFFICES ASSUME NEW x \in Ops, op'[x].pc # "no_content", x \notin failed',
                      NEW named, named = target'[x].part, named \notin {None, x}
               PROVE  Removed(named)' \cup Tried(named)' # {}
    BY DEF ErrorsInv
  <2>1. x # o
    OBVIOUS
  <2>2. op[x].pc # "no_content" /\ x \notin failed /\ target[x].part = named /\ named \in Seen
    BY <2>1 DEF PartsInv, NamedLast
  <2> QED
    BY <1>4, <1>6, <2>1, <2>2 DEF PartsInv, ErrorsInv
<1> QED
  BY <1>7, <1>8, <1>9, <1>10 DEF PartsInv

(* An operation that finds nothing to remove keeps the invariant of the *)
(* parts.                                                               *)
LEMMA PartMissed ==
  ASSUME TypeOK, PartsInv, NEW o \in Ops, op[o].pc \in Open, o \notin failed,
         NEW part \in Seen, ~Has(part), UNCHANGED parts,
         NamesPart(o, part, "internal_error", FALSE)
  PROVE  PartsInv'
<1> USE DEF NamesPart
<1>1. target[o].part = None /\ o \notin Seen /\ part # o /\ part # None
  <2>1. target[o].part = None /\ o \notin Seen
    BY NotYetSeen
  <2> QED
    BY <2>1, NamesAreApart DEF Seen, Parts
<1>2. Seen' = Seen /\ Seen \subseteq Parts
  BY <1>1, NamesAreApart DEF Seen, Parts
<1>3. op'[o].pc \notin Open
  BY DEF Open, Running, AuthRunning, Calling
<1>4. \A p \in Seen : Removed(p)' = Removed(p) /\ Tried(p)' = Tried(p) /\ Has(p)' = Has(p)
  BY <1>1, <1>2, NamesAreApart DEF Removed, Tried, Has
<1>5. NamedLast' /\ RowsAreSeen'
  BY <1>2, <1>3 DEF PartsInv, NamedLast, RowsAreSeen
<1>6. RemovedInv'
  BY <1>2, <1>4 DEF PartsInv, RemovedInv
<1>7. ErrorsInv'
  <2> SUFFICES ASSUME NEW x \in Ops, op'[x].pc # "no_content", x \notin failed',
                      NEW named, named = target'[x].part, named \notin {None, x}
               PROVE  Removed(named)' \cup Tried(named)' # {}
    BY DEF ErrorsInv
  <2>1. CASE x = o
    BY <1>4, <2>1 DEF PartsInv, RemovedInv
  <2>2. CASE x # o
    BY <1>4, <2>2 DEF PartsInv, NamedLast, ErrorsInv
  <2> QED
    BY <2>1, <2>2
<1> QED
  BY <1>5, <1>6, <1>7 DEF PartsInv

-----------------------------------------------------------------------------
(* What a request that has not ended becomes: how, and all else as it was. *)
Becomes(o, r) ==
  /\ op[o].pc \in Open /\ r \in Request
  /\ op' = [op EXCEPT ![o] = r]
  /\ failed' = failed \/ (failed' = failed \cup {o} /\ r.pc \notin Open)

TargetType == target \in [Ops -> [link : DOMAIN links \cup {None}, part : Parts \cup {None}]]

RowsType == parts \subseteq [id : Parts, link : DOMAIN links \cup {None}, country : Countries \cup {None}]

(* An operation that moves on changes nothing but its own state. *)
LEMMA EndsBecomes ==
  ASSUME TypeOK, NEW o \in Ops, NEW how \in Open \cup Ended, op[o].pc \in Open, Ends(o, how),
         failed' = failed \/ (failed' = failed \cup {o} /\ how \notin Open)
  PROVE  Becomes(o, [op[o] EXCEPT !.pc = how])
<1>1. op[o] \in Request
  BY DEF TypeOK
<1>2. [op[o] EXCEPT !.pc = how] \in Request /\ [op[o] EXCEPT !.pc = how].pc = how
  BY <1>1 DEF Request
<1> QED
  BY <1>2 DEF Becomes, Ends, TypeOK

(* An operation that ends in an error changes nothing but its own state. *)
LEMMA OverBecomes ==
  ASSUME TypeOK, NEW o \in Ops, op[o].pc \in Open,
         op' = [op EXCEPT ![o] = Over("internal_error")],
         failed' = failed \/ failed' = failed \cup {o}
  PROVE  Becomes(o, Over("internal_error")) /\ RequestInv(o)'
<1>1. /\ Over("internal_error") \in Request /\ Over("internal_error").pc = "internal_error"
      /\ "internal_error" \notin Open
  BY DEF Over, Waiting, Request, Ended, Open, Running, AuthRunning, Calling
<1>2. Becomes(o, Over("internal_error"))
  BY <1>1 DEF Becomes
<1>3. op'[o] = Over("internal_error")
  BY DEF TypeOK
<1> QED
  BY <1>1, <1>2, <1>3 DEF RequestInv, Informed, Authorized, Over, Waiting

(* An ending that tells nothing about the accounts. *)
LEMMA PlainEnding ==
  ASSUME TypeOK, AccountsInv, NEW o \in Ops, op[o].pc \in Open, NEW how, Ends(o, how), UNCHANGED users,
         failed' = failed \/ failed' = failed \cup {o},
         (how \in {"updating", "adding", "removing"} /\ failed' = failed)
           \/ how \in Ended \ {"registered", "email_exists", "logged_in", "invalid_credentials",
                               "unauthorized"}
  PROVE  Becomes(o, [op[o] EXCEPT !.pc = how]) /\ RequestInv(o)'
<1>1. how \in Open \cup Ended /\ (how \in Ended => how \notin Open)
  BY DEF Ended, Open, Running, AuthRunning, Calling
<1>2. Becomes(o, [op[o] EXCEPT !.pc = how])
  <2>1. failed' = failed \/ (failed' = failed \cup {o} /\ how \notin Open)
    BY <1>1
  <2> QED
    BY <1>1, <2>1, EndsBecomes
<1>3. op'[o] = [op[o] EXCEPT !.pc = how] /\ op[o] \in Request
  BY DEF Ends, TypeOK
<1>4. /\ op'[o].pc = how /\ op'[o].email = op[o].email /\ op'[o].caller = op[o].caller
      /\ op'[o].bearer = op[o].bearer /\ op'[o].key = op[o].key
  BY <1>3 DEF Request
<1>5. /\ how \notin {"waiting", "registering", "logging_in", "checking_key"}
      /\ how \notin {"registered", "email_exists", "logged_in", "invalid_credentials", "unauthorized"}
  BY DEF Ended
<1>6. o \in failed' => op'[o].pc \notin Open
  BY <1>1, <1>4 DEF AccountsInv, RequestInv, Open
<1>7. Informed(o)'
  BY <1>4, <1>5 DEF Informed
<1>8. Authorized(o)'
  BY <1>4, <1>5 DEF AccountsInv, RequestInv, Authorized, Account
<1> QED
  BY <1>2, <1>4, <1>5, <1>6, <1>7, <1>8 DEF RequestInv

(* What remains to be shown of a step of one request. *)
LEMMA OneRequest ==
  ASSUME IInv, NEW o \in Ops, NEW r, Becomes(o, r), RequestInv(o)',
         UNCHANGED users
  PROVE  /\ AccountsInv'
         /\ TargetType' /\ RowsType' => TypeOK'
         /\ /\ UNCHANGED parts /\ \A x \in Ops : target'[x].part = target[x].part
            /\ r.pc # "no_content"
            => PartsInv'
<1>1. \A x \in Ops : \/ op'[x] = op[x] /\ (x \in failed' <=> x \in failed)
                     \/ op[x].pc \in Open /\ x = o /\ op'[x] = r
  BY DEF Becomes, IInv, TypeOK
<1>2. AccountsInv'
  BY <1>1, SameUsers DEF IInv
<1>3. op' \in [Ops -> Request] /\ failed' \subseteq Ops
  BY DEF IInv, TypeOK, Becomes
<1>4. TargetType' /\ RowsType' => TypeOK'
  BY <1>3 DEF IInv, TypeOK, TargetType, RowsType
<1>5. /\ UNCHANGED parts /\ \A x \in Ops : target'[x].part = target[x].part
      /\ r.pc # "no_content"
      => PartsInv'
  BY <1>1, SameParts DEF IInv
<1> QED
  BY <1>2, <1>4, <1>5

(* Such a step of registration, login or authentication, with no part in it. *)
LEMMA AccountStep ==
  ASSUME IInv, NEW o \in Ops, NEW r, Becomes(o, r), r.pc # "no_content", RequestInv(o)',
         UNCHANGED <<users, links, parts, target>>
  PROVE  IInv'
<1>1. TargetType' /\ RowsType'
  BY DEF IInv, TypeOK, TargetType, RowsType
<1> QED
  BY <1>1, OneRequest DEF IInv

-----------------------------------------------------------------------------
(* Registration. *)

LEMMA BeginRegisterInv ==
  ASSUME IInv, NEW o \in Ops, NEW email \in Emails, NEW password \in Passwords,
         BeginRegister(o, email, password), UNCHANGED <<links, parts, target>>
  PROVE  IInv'
<1> DEFINE q == [Waiting EXCEPT !.pc = "registering", !.email = email, !.password = password]
<1>1. op[o].pc = "waiting" /\ op[o].pc \in Open /\ failed' = failed /\ o \notin failed
  BY DEF BeginRegister, Begins, Open, IInv, AccountsInv, RequestInv
<1>2. CASE password \in Overlong
  <2>1. Becomes(o, Over("internal_error")) /\ RequestInv(o)'
    BY <1>1, <1>2, OverBecomes DEF BeginRegister, Begins, IInv
  <2> QED
    BY <2>1, AccountStep DEF BeginRegister, Over, Waiting
<1>3. CASE password \notin Overlong
  <2>1. /\ q \in Request /\ q.pc = "registering" /\ q.email = email /\ q.password = password
        /\ q.caller = None
    BY DEF Waiting, Request, Open, Running, AuthRunning
  <2>2. op' = [op EXCEPT ![o] = q] /\ op'[o] = q
    BY <1>3 DEF BeginRegister, Begins, IInv, TypeOK
  <2>3. Becomes(o, q)
    BY <1>1, <2>1, <2>2 DEF Becomes
  <2>4. RequestInv(o)'
    BY <1>1, <2>1, <2>2, NamesAreApart DEF RequestInv, Informed, Authorized
  <2> QED
    BY <2>1, <2>3, <2>4, AccountStep DEF BeginRegister
<1> QED
  BY <1>2, <1>3

(* A refused registration preserves the inductive invariant. *)
LEMMA InsertRefusedInv ==
  ASSUME IInv, NEW o \in Ops, InsertRefused(o), UNCHANGED <<links, parts, target>>
  PROVE  IInv'
<1> DEFINE q == [op[o] EXCEPT !.pc = "email_exists"]
<1>1. op[o].pc = "registering" /\ failed' = failed /\ op[o] \in Request /\ UNCHANGED users
  BY DEF InsertRefused, IInv, TypeOK
<1>2. Becomes(o, q)
  BY <1>1, EndsBecomes DEF InsertRefused, IInv, Open, Running, AuthRunning, Ended
<1>3. op'[o] = q /\ q.pc = "email_exists" /\ q.email = op[o].email /\ q.caller = op[o].caller
      /\ q.key = op[o].key /\ q.bearer = op[o].bearer
  BY <1>1 DEF InsertRefused, Ends, IInv, TypeOK, Request
<1>4. \E u \in users : u.email = op[o].email /\ u.id # o
  <2>1. PICK u \in users : u.email = op[o].email
    BY DEF InsertRefused, HasAccount
  <2>2. u.id # o
    BY <1>1, AccountsAssumption DEF IInv, AccountsInv, RowsOfRequests
  <2> QED
    BY <2>1, <2>2
<1>5. Informed(o)'
  BY <1>1, <1>3, <1>4 DEF Informed
<1>6. Authorized(o)'
  BY <1>1, <1>3 DEF Authorized, IInv, AccountsInv, RequestInv, Account
<1>7. o \notin failed
  BY <1>1 DEF IInv, AccountsInv, RequestInv, Open, Running, AuthRunning
<1>8. RequestInv(o)'
  BY <1>1, <1>3, <1>5, <1>6, <1>7 DEF RequestInv
<1> QED
  BY <1>2, <1>3, <1>8, AccountStep DEF InsertRefused

(* The row that a registration inserts: its e-mail is new, its id too. *)
LEMMA RowInserted ==
  ASSUME IInv, NEW o \in Ops, op[o].pc = "registering", ~HasAccount(op[o].email),
         users' = users \cup {Row(o)}, op'[o].pc \in {"registered", "internal_error"},
         op'[o] \in Request, op' = [op EXCEPT ![o] = op'[o]],
         failed' = failed \/ failed' = failed \cup {o}, RequestInv(o)',
         UNCHANGED <<links, parts, target>>
  PROVE  IInv'
<1>1. /\ op[o].pc \in Open /\ op[o] \in Request
      /\ op[o].email \in Emails /\ op[o].password \in Passwords
  BY DEF IInv, TypeOK, AccountsInv, RequestInv, Informed, Open, Running, AuthRunning
<1>2. Row(o) = [id |-> o, email |-> op[o].email, password |-> op[o].password]
  BY DEF Row
<1>3. TypeOK'
  <2>1. users' \subseteq [id : Ids, email : Emails, password : Passwords]
    BY <1>1, <1>2 DEF IInv, TypeOK, Ids
  <2>2. op' \in [Ops -> Request] /\ failed' \subseteq Ops
    BY DEF IInv, TypeOK
  <2> QED
    BY <2>1, <2>2 DEF IInv, TypeOK
<1>4. \A x \in Ops \ {o} : op'[x] = op[x] /\ (x \in failed' <=> x \in failed)
  BY DEF IInv, TypeOK
<1>5. UniqueEmails'
  BY <1>2 DEF IInv, AccountsInv, UniqueEmails, HasAccount
<1>6. RowsOfRequests'
  <2>1. \A u \in users : u.id # Host => u.id \in Ops \ {o}
    BY <1>1, AccountsAssumption DEF IInv, TypeOK, AccountsInv, RowsOfRequests, Ids
  <2> QED
    BY <1>2, <1>4, <2>1 DEF IInv, AccountsInv, RowsOfRequests
<1>7. Account(Host)'
  BY DEF IInv, AccountsInv, Account
<1>8. \A x \in Ops \ {o} : RequestInv(x)'
  BY <1>4, ToldStays DEF IInv, AccountsInv
<1>9. PartsInv'
  <2>1. \A x \in Ops : \/ op'[x] = op[x] /\ (x \in failed' <=> x \in failed)
                       \/ op[x].pc \in Open /\ op'[x].pc # "no_content"
    BY <1>1, <1>4
  <2> QED
    BY <2>1, SameParts DEF IInv
<1> QED
  BY <1>3, <1>5, <1>6, <1>7, <1>8, <1>9 DEF IInv, AccountsInv

(* A registration preserves the inductive invariant. *)
LEMMA InsertUserInv ==
  ASSUME IInv, NEW o \in Ops, InsertUser(o), UNCHANGED <<links, parts, target>>
  PROVE  IInv'
<1> DEFINE q == [op[o] EXCEPT !.pc = "registered", !.caller = o]
<1>1. op[o].pc = "registering" /\ op[o] \in Request /\ failed' = failed
  BY DEF InsertUser, IInv, TypeOK
<1>2. /\ q \in Request /\ q.pc = "registered" /\ q.caller = o /\ q.email = op[o].email
      /\ q.password = op[o].password
  BY <1>1 DEF Request, Ids, Ended
<1>3. op' = [op EXCEPT ![o] = q] /\ op'[o] = q
  BY DEF InsertUser, Issues, IInv, TypeOK
<1>4. q.email \in Emails /\ o \notin failed
  BY <1>1, <1>2 DEF IInv, AccountsInv, RequestInv, Informed, Open, Running, AuthRunning
<1>5. Row(o)' = Row(o) /\ users' = users \cup {Row(o)}
  BY <1>2, <1>3 DEF Row, InsertUser
<1>6. RequestInv(o)'
  BY <1>1, <1>2, <1>3, <1>4, <1>5, NamesAreApart DEF RequestInv, Informed, Authorized
<1> QED
  BY <1>1, <1>2, <1>3, <1>5, <1>6, RowInserted DEF InsertUser

(* A registration that is not confirmed preserves the inductive invariant. *)
LEMMA InsertUnconfirmedInv ==
  ASSUME IInv, NEW o \in Ops, InsertUnconfirmed(o), UNCHANGED <<links, parts, target>>
  PROVE  IInv'
<1>1. op[o].pc = "registering" /\ op[o].pc \in Open
  BY DEF InsertUnconfirmed, Open, Running, AuthRunning
<1>2. Becomes(o, Over("internal_error")) /\ RequestInv(o)'
  BY <1>1, OverBecomes DEF InsertUnconfirmed, IInv
<1>3. op'[o] = Over("internal_error") /\ op'[o] \in Request /\ op'[o].pc = "internal_error"
  BY <1>2 DEF Becomes, IInv, TypeOK, Over, Waiting
<1> QED
  BY <1>1, <1>2, <1>3, RowInserted DEF InsertUnconfirmed

-----------------------------------------------------------------------------
(* Login. *)

LEMMA BeginLoginInv ==
  ASSUME IInv, NEW o \in Ops, NEW email \in Emails, NEW password \in Passwords,
         BeginLogin(o, email, password), UNCHANGED <<links, parts, target>>
  PROVE  IInv'
<1> DEFINE there == Matching(email, password) # {}
           q == [Waiting EXCEPT !.email = email, !.password = password, !.pc = "logging_in",
                                !.known = there]
<1>1. op[o].pc = "waiting" /\ op[o].pc \in Open /\ failed' = failed /\ o \notin failed
  BY DEF BeginLogin, Begins, Open, IInv, AccountsInv, RequestInv
<1>2. there \in BOOLEAN
  OBVIOUS
<1>3. /\ q \in Request /\ q.pc = "logging_in" /\ q.email = email /\ q.password = password
      /\ q.caller = None /\ q.known = there
  <2> HIDE DEF there
  <2> QED
    BY <1>2 DEF Waiting, Request, Open, Running, AuthRunning
<1>4. op' = [op EXCEPT ![o] = q] /\ op'[o] = q
  BY DEF BeginLogin, Begins, IInv, TypeOK
<1>5. Becomes(o, q)
  BY <1>1, <1>3, <1>4 DEF Becomes
<1>6. Matching(email, password)' = Matching(email, password)
  BY DEF BeginLogin, Matching
<1>7. Informed(o)'
  <2>1. op'[o].known => Matching(email, password)' # {}
    BY <1>3, <1>4, <1>6
  <2> HIDE DEF q
  <2> QED
    BY <1>3, <1>4, <2>1 DEF Informed
<1>8. RequestInv(o)'
  <2> HIDE DEF q
  <2> QED
    BY <1>1, <1>3, <1>4, <1>7, NamesAreApart DEF RequestInv, Authorized
<1> QED
  BY <1>3, <1>5, <1>8, AccountStep DEF BeginLogin

(* A login preserves the inductive invariant. *)
LEMMA LogInInv ==
  ASSUME IInv, NEW o \in Ops, LogIn(o), UNCHANGED <<links, parts, target>>
  PROVE  IInv'
<1>1. PICK u \in Matching(op[o].email, op[o].password) : Issues(o, "logged_in", u.id)
  BY DEF LogIn
<1> DEFINE q == [op[o] EXCEPT !.pc = "logged_in", !.caller = u.id]
<1>2. op[o].pc = "logging_in" /\ op[o].pc \in Open /\ op[o] \in Request /\ UNCHANGED <<users, failed>>
  BY DEF LogIn, IInv, TypeOK, Open, Running, AuthRunning
<1>3. u \in users /\ u.id \in Ids
  BY DEF Matching, IInv, TypeOK
<1>4. /\ q \in Request /\ q.pc = "logged_in" /\ q.caller = u.id /\ q.email = op[o].email
      /\ q.password = op[o].password
  BY <1>2, <1>3 DEF Request, Ended
<1>5. op' = [op EXCEPT ![o] = q] /\ op'[o] = q
  BY <1>1 DEF Issues, IInv, TypeOK
<1>6. q.email \in Emails /\ o \notin failed
  BY <1>2, <1>4 DEF IInv, AccountsInv, RequestInv, Informed
<1>7. Becomes(o, q)
  BY <1>2, <1>4, <1>5 DEF Becomes
<1>8. Informed(o)'
  BY <1>2, <1>4, <1>5 DEF Informed, Matching
<1>9. RequestInv(o)'
  BY <1>2, <1>4, <1>5, <1>6, <1>8, NamesAreApart DEF RequestInv, Authorized
<1> QED
  BY <1>4, <1>7, <1>9, AccountStep DEF LogIn

(* A refused login preserves the inductive invariant. *)
LEMMA LoginRefusedInv ==
  ASSUME IInv, NEW o \in Ops, LoginRefused(o), UNCHANGED <<links, parts, target>>
  PROVE  IInv'
<1> DEFINE q == [op[o] EXCEPT !.pc = "invalid_credentials"]
<1>1. op[o].pc = "logging_in" /\ op[o].pc \in Open /\ op[o] \in Request /\ UNCHANGED <<users, failed>>
  BY DEF LoginRefused, IInv, TypeOK, Open, Running, AuthRunning
<1>2. Becomes(o, q)
  BY <1>1, EndsBecomes DEF LoginRefused, IInv, Ended
<1>3. /\ op'[o] = q /\ q.pc = "invalid_credentials" /\ q.email = op[o].email
      /\ q.known = op[o].known
  BY <1>1 DEF LoginRefused, Ends, IInv, TypeOK, Request
<1>4. op[o].email \in Emails /\ o \notin failed
  BY <1>1 DEF IInv, AccountsInv, RequestInv, Informed
<1>5. ~op[o].known
  BY <1>1 DEF LoginRefused, IInv, AccountsInv, RequestInv, Informed
<1>6. RequestInv(o)'
  BY <1>1, <1>3, <1>4, <1>5, NamesAreApart DEF RequestInv, Informed, Authorized
<1> QED
  BY <1>2, <1>3, <1>6, AccountStep DEF LoginRefused

-----------------------------------------------------------------------------
(* The credentials of a call. *)

(* Whoever a token was issued for has an account. *)
LEMMA OwnerHasAccount ==
  ASSUME IInv, NEW i \in Ids, Issued(i)
  PROVE  Account(Owner(i)) /\ Owner(i) \in Ids
<1>1. CASE i = Host
  BY <1>1 DEF Owner, IInv, AccountsInv, Ids
<1>2. CASE i # Host
  <2>1. i \in Ops /\ op[i].pc \in {"registered", "logged_in"} /\ RequestInv(i)
    BY <1>2 DEF Ids, Issued, IInv, AccountsInv
  <2>2. Account(op[i].caller)
    BY <2>1 DEF RequestInv, Informed, Row, Matching, Account
  <2>3. op[i].caller \in Ids
    BY <2>2 DEF Account, IInv, TypeOK
  <2> QED
    BY <1>2, <2>2, <2>3 DEF Owner
<1> QED
  BY <1>1, <1>2

(* Beginning a call preserves the inductive invariant. *)
LEMMA BeginCallInv ==
  ASSUME IInv, NEW o \in Ops, NEW token \in Tokens \cup {None}, NEW key \in Keys \cup {None},
         BeginCall(o, token, key), UNCHANGED <<links, parts, target>>
  PROVE  IInv'
<1> DEFINE presented == token # None /\ Valid(token)
           bearer == IF presented THEN Owner(token.of) ELSE None
           pc == CASE bearer # None               -> "authenticated"
                   [] bearer = None /\ key # None -> "checking_key"
                   [] OTHER                       -> "unauthorized"
           q == [Waiting EXCEPT !.pc = pc, !.caller = bearer, !.bearer = bearer, !.key = key]
<1>1. op[o].pc = "waiting" /\ op[o].pc \in Open /\ UNCHANGED <<users, failed>> /\ o \notin failed
  BY DEF BeginCall, Begins, Open, IInv, AccountsInv, RequestInv
<1>2. bearer # None => Account(bearer) /\ bearer \in Ids
  BY OwnerHasAccount DEF Tokens
<1>3. key \in {None, "unknown"} \/ Account(key)
  BY DEF Keys, Account, IInv, AccountsInv, RequestInv, Informed, Row, Ids
<1>4. key \in Ids \cup {"unknown", None}
  BY DEF Keys
<1>5. op' = [op EXCEPT ![o] = q]
  BY DEF BeginCall, Begins, Valid, Unexpired
<1> HIDE DEF bearer
<1>6. bearer \in Ids \cup {None}
  BY <1>2
<1>7. pc \in {"authenticated", "checking_key", "unauthorized"}
  OBVIOUS
<1>8. /\ q \in Request /\ q.pc = pc /\ q.caller = bearer /\ q.bearer = bearer /\ q.key = key
      /\ q.email = None
  BY <1>4, <1>6, <1>7 DEF Waiting, Request, Open, Running, AuthRunning, Calling, Ended
<1>9. op'[o] = q
  BY <1>5 DEF IInv, TypeOK
<1>10. Becomes(o, q)
  BY <1>1, <1>5, <1>8 DEF Becomes
<1> HIDE DEF q
<1>11. Informed(o)'
  BY <1>7, <1>8, <1>9 DEF Informed
<1>12. Authorized(o)'
  <2>1. \A id : Account(id)' <=> Account(id)
    BY <1>1 DEF Account
  <2>2. pc = "checking_key" => bearer = None /\ key # None
    OBVIOUS
  <2>3. pc = "unauthorized" => bearer = None /\ key = None
    OBVIOUS
  <2> HIDE DEF pc
  <2> QED
    BY <1>2, <1>3, <1>8, <1>9, <2>1, <2>2, <2>3 DEF Authorized
<1>13. RequestInv(o)'
  BY <1>1, <1>7, <1>8, <1>9, <1>11, <1>12 DEF RequestInv
<1> QED
  BY <1>1, <1>7, <1>8, <1>10, <1>13, AccountStep

(* Looking up an API key preserves the inductive invariant. *)
LEMMA CheckKeyInv ==
  ASSUME IInv, NEW o \in Ops, CheckKey(o), UNCHANGED <<links, parts, target>>
  PROVE  IInv'
<1>1. /\ op[o].pc = "checking_key" /\ op[o].pc \in Open /\ op[o] \in Request
      /\ UNCHANGED <<users, failed>> /\ o \notin failed
  BY DEF CheckKey, IInv, TypeOK, AccountsInv, RequestInv, Open, Running, AuthRunning
<1>2. /\ op[o].caller = None /\ op[o].bearer = None /\ op[o].email = None
      /\ op[o].key = "unknown" \/ Account(op[o].key)
  BY <1>1 DEF IInv, AccountsInv, RequestInv, Authorized
<1>3. CASE Account(op[o].key)
  <2> DEFINE q == [op[o] EXCEPT !.pc = "authenticated", !.caller = op[o].key]
  <2>1. op[o].key \in Ids
    BY <1>3 DEF Account, IInv, TypeOK
  <2>2. /\ q \in Request /\ q.pc = "authenticated" /\ q.caller = op[o].key /\ q.key = op[o].key
        /\ q.pc \in Open
    BY <1>1, <2>1 DEF Request, Open, Running, Calling
  <2>3. op' = [op EXCEPT ![o] = q] /\ op'[o] = q
    BY <1>3 DEF CheckKey, Account, IInv, TypeOK
  <2>4. Becomes(o, q)
    BY <1>1, <2>2, <2>3 DEF Becomes
  <2>5. \E u \in users' : u.id = op[o].key
    BY <1>1, <1>3 DEF Account
  <2>6. RequestInv(o)'
    <3> HIDE DEF q
    <3> QED
      BY <1>1, <2>2, <2>3, <2>5 DEF RequestInv, Informed, Authorized, Account
  <2> QED
    BY <2>2, <2>4, <2>6, AccountStep DEF CheckKey
<1>4. CASE ~Account(op[o].key)
  <2> DEFINE q == [op[o] EXCEPT !.pc = "unauthorized"]
  <2>1. Ends(o, "unauthorized")
    BY <1>4 DEF CheckKey, Account
  <2>2. Becomes(o, q)
    BY <1>1, <2>1, EndsBecomes DEF IInv, Ended
  <2>3. /\ op'[o] = q /\ q.pc = "unauthorized" /\ q.caller = None /\ q.bearer = None
        /\ q.key = op[o].key
    BY <1>1, <1>2, <2>1 DEF Ends, IInv, TypeOK, Request
  <2>4. op[o].key = "unknown"
    BY <1>2, <1>4
  <2>5. RequestInv(o)'
    <3> HIDE DEF q
    <3> QED
      BY <1>1, <2>3, <2>4 DEF RequestInv, Informed, Authorized
  <2> QED
    BY <2>2, <2>3, <2>5, AccountStep DEF CheckKey
<1> QED
  BY <1>3, <1>4

(* A failing statement of the accounts preserves the inductive invariant. *)
LEMMA AuthQueryFailsInv ==
  ASSUME IInv, NEW o \in Ops, AuthQueryFails(o), UNCHANGED <<links, parts, target>>
  PROVE  IInv'
<1> DEFINE how == FailedAuth(op[o].pc)
<1>1. /\ op[o].pc \in Open /\ op[o] \in Request /\ UNCHANGED users /\ Ends(o, how)
      /\ failed' = failed \cup {o}
  BY DEF AuthQueryFails, IInv, TypeOK, Open, Running
<1>2. how = "internal_error" \/ (how = "unauthorized" /\ op[o].pc = "checking_key")
  BY DEF FailedAuth
<1> HIDE DEF how
<1>3. CASE how = "internal_error"
  <2>1. Becomes(o, [op[o] EXCEPT !.pc = "internal_error"]) /\ RequestInv(o)'
    BY <1>1, <1>3, PlainEnding DEF IInv, Ended
  <2>2. [op[o] EXCEPT !.pc = "internal_error"].pc = "internal_error"
    BY <1>1 DEF Request
  <2> QED
    BY <2>1, <2>2, AccountStep DEF AuthQueryFails
<1>4. CASE how = "unauthorized" /\ op[o].pc = "checking_key"
  <2> DEFINE q == [op[o] EXCEPT !.pc = "unauthorized"]
  <2>1. Becomes(o, q)
    BY <1>1, <1>4, EndsBecomes DEF IInv, Ended, Open, Running, AuthRunning, Calling
  <2>2. op'[o] = q /\ q.pc = "unauthorized" /\ q.caller = op[o].caller
    BY <1>1, <1>4 DEF Ends, IInv, TypeOK, Request
  <2>3. op[o].caller = None /\ "unauthorized" \notin Open
    BY <1>4 DEF IInv, AccountsInv, RequestInv, Authorized, Open, Running, AuthRunning, Calling
  <2>4. RequestInv(o)'
    <3> HIDE DEF q
    <3> QED
      BY <1>1, <2>2, <2>3 DEF RequestInv, Informed, Authorized
  <2> QED
    BY <2>1, <2>2, <2>4, AccountStep DEF AuthQueryFails
<1> QED
  BY <1>2, <1>3, <1>4

(* Time preserves the inductive invariant. *)
LEMMA TickInv == ASSUME IInv, Tick, UNCHANGED <<links, parts, target>> PROVE IInv'
<1> USE DEF Tick
<1>1. TypeOK'
  BY DEF IInv, TypeOK
<1>2. AccountsInv'
  BY SameUsers DEF IInv
<1>3. PartsInv'
  BY SameParts DEF IInv
<1> QED
  BY <1>1, <1>2, <1>3 DEF IInv

-----------------------------------------------------------------------------
(* An authenticated call. *)

(* It ends, or goes on, without naming a part. *)
LEMMA CallWithoutPart ==
  ASSUME IInv, NEW o \in Ops, op[o].pc \in Open, NEW how, Ends(o, how), UNCHANGED <<users, parts>>,
         DOMAIN links \subseteq DOMAIN links', failed' = failed \/ failed' = failed \cup {o},
         (how \in {"updating", "adding", "removing"} /\ failed' = failed)
           \/ how \in Ended \ {"registered", "email_exists", "logged_in", "invalid_credentials",
                               "unauthorized"},
         how # "no_content", TargetType', \A x \in Ops : target'[x].part = target[x].part
  PROVE  IInv'
<1>1. Becomes(o, [op[o] EXCEPT !.pc = how]) /\ RequestInv(o)'
  BY PlainEnding DEF IInv
<1>2. RowsType'
  BY DEF IInv, TypeOK, RowsType
<1>3. [op[o] EXCEPT !.pc = how].pc = how
  BY DEF IInv, TypeOK, Request
<1> QED
  BY <1>1, <1>2, <1>3, OneRequest DEF IInv

(* A call that changes no row preserves the inductive invariant. *)
LEMMA QuietCallInv ==
  ASSUME IInv, NEW o \in Ops,
         \/ TooMany(o) \/ Invalid(o) \/ UpdateLink(o)
         \/ \E country \in Countries \cup {None} : AddRefused(o, country)
  PROVE  IInv'
<1>1. op[o].pc \in Open
  BY DEF TooMany, Invalid, UpdateLink, AddRefused, Open, Running, Calling
<1>2. TargetType' /\ \A x \in Ops : target'[x].part = target[x].part
  BY DEF TooMany, Invalid, UpdateLink, AddRefused, IInv, TypeOK, TargetType
<1>3. PICK how \in {"too_many_requests", "bad_request", "ok", "conflict"} : Ends(o, how)
  BY DEF TooMany, Invalid, UpdateLink, AddRefused
<1>4. how \in Ended \ {"registered", "email_exists", "logged_in", "invalid_credentials", "unauthorized"}
  BY DEF Ended
<1> QED
  BY <1>1, <1>2, <1>3, <1>4, CallWithoutPart DEF TooMany, Invalid, UpdateLink, AddRefused

(* Finding the link or the part of a call preserves the inductive *)
(* invariant.                                                     *)
LEMMA FindInv ==
  ASSUME IInv, NEW o \in Ops, NEW link \in DOMAIN links \cup {None},
         NEW next \in {"ok", "updating", "adding", "removing"}, Find(o, link, next)
  PROVE  IInv'
<1>1. op[o].pc \in Open
  BY DEF Find, Open, Running, Calling
<1>2. TargetType' /\ \A x \in Ops : target'[x].part = target[x].part
  BY DEF Find, IInv, TypeOK, TargetType
<1> DEFINE how == CASE link \notin DOMAIN links                               -> "not_found"
                    [] link \in DOMAIN links /\ links[link] # op[o].caller    -> "forbidden"
                    [] OTHER                                                  -> next
<1>3. Ends(o, how)
  BY DEF Find
<1>4. how \in {"not_found", "forbidden", next}
  OBVIOUS
<1> HIDE DEF how
<1>5. how \in {"updating", "adding", "removing"}
      \/ how \in Ended \ {"registered", "email_exists", "logged_in", "invalid_credentials", "unauthorized"}
  BY <1>4 DEF Ended
<1> QED
  BY <1>1, <1>2, <1>3, <1>4, <1>5, CallWithoutPart DEF Find

(* Creating a link preserves the inductive invariant. *)
LEMMA CreateLinkInv ==
  ASSUME IInv, NEW o \in Ops, CreateLink(o) PROVE IInv'
<1>1. op[o].pc \in Open
  BY DEF CreateLink, Open, Running, Calling
<1>2. DOMAIN links' = DOMAIN links \cup {o}
  BY DEF CreateLink, Linked
<1>3. target' = [target EXCEPT ![o].link = o]
  BY DEF CreateLink
<1>4. TargetType' /\ \A x \in Ops : target'[x].part = target[x].part
  BY <1>2, <1>3 DEF IInv, TypeOK, TargetType
<1>5. "created" \in Ended \ {"registered", "email_exists", "logged_in", "invalid_credentials",
                             "unauthorized"}
  BY DEF Ended
<1> QED
  BY <1>1, <1>2, <1>4, <1>5, CallWithoutPart DEF CreateLink

(* It ends with a statement about a part. *)

LEMMA LastStatement ==
  ASSUME IInv, NEW o \in Ops, NEW r, NEW part \in Parts, NEW fails \in BOOLEAN,
         Becomes(o, r), RequestInv(o)', UNCHANGED <<users, links>>,
         failed' = IF fails THEN failed \cup {o} ELSE failed,
         target' = [target EXCEPT ![o].part = part]
  PROVE  /\ AccountsInv' /\ NamesPart(o, part, r.pc, fails)
         /\ RowsType' => TypeOK'
<1>1. NamesPart(o, part, r.pc, fails)
  BY DEF NamesPart, Becomes, IInv, TypeOK
<1>2. TargetType'
  BY DEF TargetType, IInv, TypeOK
<1> QED
  BY <1>1, <1>2, OneRequest

(* Adding a variant or rule preserves the inductive invariant. *)
LEMMA AddPartInv ==
  ASSUME IInv, NEW o \in Ops, NEW country \in Countries \cup {None}, NEW fails \in BOOLEAN,
         op[o].pc = "adding", UNCHANGED <<users, links>>,
         parts' = parts \cup {Added(o, country)}, target' = [target EXCEPT ![o].part = o],
         op' = IF fails THEN [op EXCEPT ![o] = Over("internal_error")]
                        ELSE [op EXCEPT ![o].pc = "created"],
         failed' = IF fails THEN failed \cup {o} ELSE failed
  PROVE  IInv'
<1>1. op[o].pc \in Open /\ o \in Parts
  BY DEF Open, Running, Calling, Parts
<1>2. RowsType'
  BY DEF RowsType, Added, IInv, TypeOK, Parts
<1>3. CASE fails
  <2>1. Becomes(o, Over("internal_error")) /\ RequestInv(o)'
    BY <1>1, <1>3, OverBecomes DEF IInv
  <2>2. Over("internal_error").pc = "internal_error"
    BY DEF Over, Waiting
  <2>3. AccountsInv' /\ NamesPart(o, o, "internal_error", TRUE) /\ TypeOK'
    BY <1>1, <1>2, <1>3, <2>1, <2>2, LastStatement
  <2>4. PartsInv'
    BY <1>1, <2>3, PartAdded DEF IInv
  <2> QED
    BY <2>3, <2>4 DEF IInv
<1>4. CASE ~fails
  <2> DEFINE q == [op[o] EXCEPT !.pc = "created"]
  <2>1. "created" \in Ended \ {"registered", "email_exists", "logged_in", "invalid_credentials",
                               "unauthorized"}
    BY DEF Ended
  <2>2. Becomes(o, q) /\ RequestInv(o)'
    BY <1>1, <1>4, <2>1, PlainEnding DEF Ends, IInv
  <2>3. q.pc = "created"
    BY DEF IInv, TypeOK, Request
  <2>4. AccountsInv' /\ NamesPart(o, o, "created", FALSE) /\ TypeOK'
    <3> HIDE DEF q
    <3> QED
      BY <1>1, <1>2, <1>4, <2>2, <2>3, LastStatement
  <2>5. PartsInv'
    BY <1>1, <2>4, PartAdded DEF IInv
  <2> QED
    BY <2>4, <2>5 DEF IInv
<1> QED
  BY <1>3, <1>4

(* Removing a variant or rule preserves the inductive invariant. *)
LEMMA RemovePartInv ==
  ASSUME IInv, NEW o \in Ops, NEW part \in Seen, Has(part), NEW fails \in BOOLEAN,
         op[o].pc = "removing", UNCHANGED <<users, links>>,
         parts' = Without(part), target' = [target EXCEPT ![o].part = part],
         op' = IF fails THEN [op EXCEPT ![o] = Over("internal_error")]
                        ELSE [op EXCEPT ![o].pc = "no_content"],
         failed' = IF fails THEN failed \cup {o} ELSE failed
  PROVE  IInv'
<1>1. op[o].pc \in Open /\ part \in Parts
  BY DEF Open, Running, Calling, Parts, Seen
<1>2. RowsType'
  BY DEF RowsType, Without, IInv, TypeOK
<1>3. CASE fails
  <2>1. Becomes(o, Over("internal_error")) /\ RequestInv(o)'
    BY <1>1, <1>3, OverBecomes DEF IInv
  <2>2. Over("internal_error").pc = "internal_error"
    BY DEF Over, Waiting
  <2>3. AccountsInv' /\ NamesPart(o, part, "internal_error", TRUE) /\ TypeOK'
    BY <1>1, <1>2, <1>3, <2>1, <2>2, LastStatement
  <2>4. PartsInv'
    BY <1>1, <2>3, PartRemoved DEF IInv
  <2> QED
    BY <2>3, <2>4 DEF IInv
<1>4. CASE ~fails
  <2> DEFINE q == [op[o] EXCEPT !.pc = "no_content"]
  <2>1. "no_content" \in Ended \ {"registered", "email_exists", "logged_in", "invalid_credentials",
                                  "unauthorized"}
    BY DEF Ended
  <2>2. Becomes(o, q) /\ RequestInv(o)'
    BY <1>1, <1>4, <2>1, PlainEnding DEF Ends, IInv
  <2>3. q.pc = "no_content"
    BY DEF IInv, TypeOK, Request
  <2>4. AccountsInv' /\ NamesPart(o, part, "no_content", FALSE) /\ TypeOK'
    <3> HIDE DEF q
    <3> QED
      BY <1>1, <1>2, <1>4, <2>2, <2>3, LastStatement
  <2>5. PartsInv'
    BY <1>1, <2>4, PartRemoved DEF IInv
  <2> QED
    BY <2>4, <2>5 DEF IInv
<1> QED
  BY <1>3, <1>4

(* Removing what is gone preserves the inductive invariant. *)
LEMMA RemoveMissingInv ==
  ASSUME IInv, NEW o \in Ops, NEW part \in Seen, RemoveMissing(o, part)
  PROVE  IInv'
<1> DEFINE q == [op[o] EXCEPT !.pc = "internal_error"]
<1>1. op[o].pc \in Open /\ part \in Parts /\ UNCHANGED <<users, links, parts, failed>>
  BY DEF RemoveMissing, Open, Running, Calling, Parts, Seen
<1>2. "internal_error" \in Ended \ {"registered", "email_exists", "logged_in", "invalid_credentials",
                                    "unauthorized"}
  BY DEF Ended
<1>3. Becomes(o, q) /\ RequestInv(o)'
  BY <1>1, <1>2, PlainEnding DEF RemoveMissing, IInv
<1>4. q.pc = "internal_error"
  BY DEF IInv, TypeOK, Request
<1>5. RowsType'
  BY <1>1 DEF RowsType, IInv, TypeOK
<1>6. AccountsInv' /\ NamesPart(o, part, "internal_error", FALSE) /\ TypeOK'
  <2> HIDE DEF q
  <2> QED
    BY <1>1, <1>3, <1>4, <1>5, LastStatement DEF RemoveMissing
<1>7. o \notin failed
  BY <1>1 DEF IInv, AccountsInv, RequestInv
<1>8. PartsInv'
  BY <1>1, <1>6, <1>7, PartMissed DEF RemoveMissing, IInv
<1> QED
  BY <1>6, <1>8 DEF IInv

(* A failing statement of a call preserves the inductive invariant. *)
LEMMA CallFailsInv ==
  ASSUME IInv, NEW o \in Ops, CallFails(o) PROVE IInv'
<1>1. op[o].pc \in Open
  BY DEF CallFails, Open, Running
<1>2. Becomes(o, Over("internal_error")) /\ RequestInv(o)'
  BY <1>1, OverBecomes DEF CallFails, IInv
<1> QED
  BY <1>2, AccountStep DEF CallFails, Over, Waiting

(* A statement of a call that is not confirmed preserves the inductive *)
(* invariant.                                                          *)
LEMMA CallUnconfirmedInv ==
  ASSUME IInv, NEW o \in Ops, CallUnconfirmed(o) PROVE IInv'
<1>1. /\ op' = [op EXCEPT ![o] = Over("internal_error")] /\ failed' = failed \cup {o}
      /\ UNCHANGED users
  BY DEF CallUnconfirmed
<1>2. CASE op[o].pc = "authenticated" /\ links' = Linked(o) /\ UNCHANGED <<parts, target>>
  <2>1. Becomes(o, Over("internal_error")) /\ RequestInv(o)'
    BY <1>1, <1>2, OverBecomes DEF IInv, Open, Running, Calling
  <2>2. DOMAIN links' = DOMAIN links \cup {o}
    BY <1>2 DEF Linked
  <2>3. TargetType' /\ RowsType'
    BY <1>2, <2>2 DEF IInv, TypeOK, TargetType, RowsType
  <2> QED
    BY <1>1, <1>2, <2>1, <2>3, OneRequest DEF IInv, Over, Waiting
<1>3. ASSUME NEW country \in Countries \cup {None}, op[o].pc = "adding", UNCHANGED links,
             parts' = parts \cup {Added(o, country)}, target' = [target EXCEPT ![o].part = o]
      PROVE  IInv'
  BY <1>1, <1>3, AddPartInv
<1>4. ASSUME NEW p \in parts, op[o].pc = "removing", UNCHANGED links,
             parts' = Without(p.id), target' = [target EXCEPT ![o].part = p.id]
      PROVE  IInv'
  <2>1. p.id \in Seen /\ Has(p.id)
    BY DEF IInv, PartsInv, RowsAreSeen, Has
  <2> QED
    BY <1>1, <1>4, <2>1, RemovePartInv
<1> QED
  BY <1>2, <1>3, <1>4 DEF CallUnconfirmed

(* Every step of a call preserves the inductive invariant. *)
LEMMA CallInv ==
  ASSUME IInv, NEW o \in Ops, Call(o) PROVE IInv'
<1>1. CASE \/ TooMany(o) \/ Invalid(o) \/ UpdateLink(o)
           \/ \E country \in Countries \cup {None} : AddRefused(o, country)
  BY <1>1, QuietCallInv
<1>2. ASSUME NEW country \in Countries \cup {None}, AddPart(o, country) PROVE IInv'
  BY <1>2, AddPartInv DEF AddPart, Ends
<1>3. ASSUME NEW part \in Seen, RemovePart(o, part) PROVE IInv'
  BY <1>3, RemovePartInv DEF RemovePart, Ends
<1> QED
  BY <1>1, <1>2, <1>3, CreateLinkInv, FindInv, RemoveMissingInv, CallFailsInv, CallUnconfirmedInv
     DEF Call

-----------------------------------------------------------------------------
(* Every request that runs ends at once; a part has been named by none of them. *)
LEMMA CrashInv == ASSUME IInv, Crash PROVE IInv'
<1> DEFINE running == {o \in Ops : op[o].pc \in Running}
<1>1. /\ op' = [o \in Ops |-> IF o \in running THEN Over("killed") ELSE op[o]]
      /\ failed' = failed \cup running /\ UNCHANGED <<users, links, parts, target>>
  BY DEF Crash
<1>2. /\ Over("killed") \in Request /\ Over("killed").pc = "killed" /\ "killed" \notin Open
      /\ Over("killed").caller = None
  BY DEF Over, Waiting, Request, Ended, Open, Running, AuthRunning, Calling
<1>3. TypeOK'
  BY <1>1, <1>2 DEF IInv, TypeOK
<1>4. \A o \in Ops \ running : op'[o] = op[o] /\ (o \in failed' <=> o \in failed)
  BY <1>1
<1>5. \A o \in running : op[o].pc \in Open /\ RequestInv(o)'
  <2> SUFFICES ASSUME NEW o \in running PROVE op[o].pc \in Open /\ RequestInv(o)'
    OBVIOUS
  <2>1. op'[o] = Over("killed")
    BY <1>1
  <2>2. RequestInv(o)'
    BY <1>2, <2>1 DEF RequestInv, Informed, Authorized
  <2> QED
    BY <2>2 DEF Open
<1>6. AccountsInv'
  <2>1. \A o \in Ops : \/ op'[o] = op[o] /\ (o \in failed' <=> o \in failed)
                       \/ op[o].pc \in Open /\ RequestInv(o)'
    BY <1>4, <1>5
  <2> QED
    BY <1>1, <2>1, SameUsers DEF IInv
<1>7. PartsInv'
  <2>1. \A o \in Ops : /\ target'[o].part = target[o].part
                       /\ \/ op'[o] = op[o] /\ (o \in failed' <=> o \in failed)
                          \/ op[o].pc \in Open /\ op'[o].pc # "no_content"
    BY <1>1, <1>2, <1>4, <1>5
  <2> QED
    BY <1>1, <2>1, SameParts DEF IInv
<1> QED
  BY <1>3, <1>6, <1>7 DEF IInv

(* Every step preserves the inductive invariant. *)
LEMMA NextInv == IInv /\ [Next]_vars => IInv'
<1> SUFFICES ASSUME IInv, [Next]_vars PROVE IInv'
  OBVIOUS
<1>1. CASE NextAccounts /\ UNCHANGED <<links, parts, target>>
  BY <1>1, BeginRegisterInv, BeginLoginInv, InsertUserInv, InsertRefusedInv, InsertUnconfirmedInv,
     LogInInv, LoginRefusedInv, BeginCallInv, CheckKeyInv, AuthQueryFailsInv, TickInv
     DEF NextAccounts
<1>2. CASE \E o \in Ops : Call(o)
  BY <1>2, CallInv
<1>3. CASE Crash
  BY <1>3, CrashInv
<1>4. CASE UNCHANGED vars
  <2>1. TypeOK'
    BY <1>4 DEF vars, accounts, IInv, TypeOK
  <2>2. AccountsInv'
    BY <1>4, SameUsers DEF vars, accounts, IInv
  <2>3. PartsInv'
    BY <1>4, SameParts DEF vars, accounts, IInv
  <2> QED
    BY <2>1, <2>2, <2>3 DEF IInv
<1> QED
  BY <1>1, <1>2, <1>3, <1>4 DEF Next

(* The inductive invariant holds in every reachable state. *)
LEMMA Invariance == Spec => []IInv
BY InitInv, NextInv, PTL DEF Spec

-----------------------------------------------------------------------------
(* Rows, requests and targets keep their types: an account is always that  *)
(* of Host or of a registration, a part is always named after its creator. *)
THEOREM TypeCorrect == Spec => []TypeOK
<1>1. IInv => TypeOK
  BY DEF IInv
<1> QED
  BY <1>1, Invariance, PTL

(* Register answers with tokens and a key only for a row that is committed *)
(* under its own id, which no other registration for the e-mail replaces,  *)
(* and refuses an e-mail only for the sake of a row of somebody else.      *)
THEOREM Registration == Spec => []RegisteredIsStored
<1>1. IInv => RegisteredIsStored
  BY DEF IInv, AccountsInv, RequestInv, Informed, UniqueEmails, Row, RegisteredIsStored
<1> QED
  BY <1>1, Invariance, PTL

(* Login answers invalid credentials only if no row had matched them when  *)
(* it began, however many registrations and failing queries came between,  *)
(* and with tokens only for the account whose password was given.          *)
THEOREM Login == Spec => []LoginIsHonest
<1>1. IInv => LoginIsHonest
  BY DEF IInv, AccountsInv, RequestInv, Informed, LoginIsHonest
<1> QED
  BY <1>1, Invariance, PTL

(* AnyAuthMiddleware lets a call act for an account only with that         *)
(* account's access token or key, and refuses one only without either.     *)
THEOREM Authentication == Spec => []ActsForHolder
<1>1. IInv => ActsForHolder
  <2> SUFFICES ASSUME IInv PROVE ActsForHolder
    OBVIOUS
  <2>1. \A o \in Ops : Authorized(o)
    BY DEF IInv, AccountsInv, RequestInv
  <2>2. \A u \in users : u.id # None /\ u.id # "unknown"
    BY NamesAreApart DEF IInv, TypeOK
  <2> QED
    BY <2>1, <2>2 DEF ActsForHolder, Authorized, Account
<1> QED
  BY <1>1, Invariance, PTL

(* AddABTest, AddGeoRule and their removals: a part whose creation was     *)
(* answered is there until a removal of it was tried, one removal at most  *)
(* is answered with success, and a removal that does not fail finds no row *)
(* only after another removal, whatever it is answered with.               *)
THEOREM Removal == Spec => []RemovedOnce
<1>1. IInv => RemovedOnce
  <2> SUFFICES ASSUME IInv, NEW o \in Ops
               PROVE  /\ op[o].pc = "created" /\ target[o].part = o =>
                           Has(o) \/ Removed(o) \cup Tried(o) # {}
                      /\ op[o].pc = "no_content" => Removed(target[o].part) = {o}
                      /\ target[o].part \notin {None, o} /\ op[o].pc # "no_content" /\ o \notin failed =>
                           Removed(target[o].part) \cup Tried(target[o].part) # {}
    BY DEF RemovedOnce, Removed, Tried
  <2>1. op[o].pc = "created" /\ target[o].part = o => Has(o) \/ Removed(o) \cup Tried(o) # {}
    BY DEF IInv, PartsInv, RemovedInv, Seen
  <2>2. op[o].pc = "no_content" => Removed(target[o].part) = {o}
    BY DEF IInv, PartsInv, RemovedInv, Removed, NamedLast
  <2> QED
    BY <2>1, <2>2 DEF IInv, PartsInv, ErrorsInv
<1> QED
  BY <1>1, Invariance, PTL
=============================================================================

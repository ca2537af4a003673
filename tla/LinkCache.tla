------------------------------ MODULE LinkCache ------------------------------
(***************************************************************************)
(* The cache-aside protocol between PostgreSQL and Redis that every        *)
(* redirect goes through: usecase/redirect_usecase.go (resolveLink and its *)
(* background fill), repository/postgres/link_repo.go (FindBySlug reads a  *)
(* link with three queries and no transaction), repository/redis/          *)
(* cache_repo.go (GetLink, SetLink, DeleteLink and their TTLs) and the     *)
(* management operations of usecase/link_usecase.go, which write to        *)
(* PostgreSQL and then delete the cached copy.                             *)
(*                                                                         *)
(* Handlers, the goroutines they leave behind and management operations    *)
(* interleave at every database query and every Redis command.             *)
(***************************************************************************)
EXTENDS RedirectDecision

CONSTANTS
  Links,       \* existing links, each standing for its slug as well
  Slots,       \* concurrent redirect handlers, each with the fill it may leave running
  Admins,      \* concurrent management operations
  DefaultTTL,  \* defaultLinkTTL, in ticks
  Buffer,      \* how long an entry outlives its link's expiry, in ticks
  Expiries,    \* bound: the times to expiry an owner sets, in ticks, -1 for one in the past
  MaxWrites,   \* bound: committed management writes
  MaxCrashes,  \* bound: process crashes
  Nil

ASSUME TimesAssumption ==
  /\ DefaultTTL \in Nat \ {0}
  /\ Buffer \in Nat
  /\ Expiries \subseteq Nat \cup {-1}
  /\ Never \notin Int

ASSUME BoundsAssumption == MaxWrites \in Nat /\ MaxCrashes \in Nat

VARIABLES
  db,       \* the link as its three tables hold it
  stamp,    \* management writes committed so far; a write is named by its number
  cache,    \* Redis: the entry under link:{slug}, or Nil
  req,      \* the redirect handler in each slot
  fill,     \* the goroutine that will run SetLink, or Nil
  admin,    \* a management operation between its write and its DeleteLink, or Nil
  acked,    \* history: newest write to each part of a link whose DeleteLink succeeded
  crashes

vars == <<db, stamp, cache, req, fill, admin, acked, crashes>>

-----------------------------------------------------------------------------
Lives == {Never, -1} \cup Nat

(* Which write last set the row, the variants and the geo rules.           *)
Version == [row : Nat, ab : Nat, geo : Nat]

Unwritten == [row |-> 0, ab |-> 0, geo |-> 0]

Copy == [ver : Version, active : BOOLEAN, left : Lives]

(* Why an entry may hold something older than the database: it was read    *)
(* while a write happened, its DeleteLink did not happen, or the DeleteLink *)
(* went to another link's key.                                             *)
Causes == {"raced", "lost", "other_key"}

Entry == [copy : Copy, ttl : Nat \ {0}, cause : SUBSET Causes]

Fill == [slug : Links, copy : Copy]

Operation == [link : Links, key : Links, wrote : Version]

Request ==
  [pc : {"idle", "row", "ab", "geo", "answer"}, slug : Links, copy : Copy,
   floor : Version, excused : BOOLEAN]

ASSUME LinksAssumption == Links # {} /\ Nil \notin Operation

NoCopy == [ver |-> Unwritten, active |-> TRUE, left |-> Never]

Idle == [pc |-> "idle", slug |-> CHOOSE l \in Links : TRUE, copy |-> NoCopy,
         floor |-> Unwritten, excused |-> FALSE]

NotOlder(v, w) == v.row >= w.row /\ v.ab >= w.ab /\ v.geo >= w.geo

Larger(m, n) == IF m >= n THEN m ELSE n

Newest(v, w) == [row |-> Larger(v.row, w.row), ab |-> Larger(v.ab, w.ab), geo |-> Larger(v.geo, w.geo)]

Current(l, copy) == copy.ver = db[l].ver

Owed(l) == \E a \in Admins : admin[a] # Nil /\ admin[a].key = l

Blame(entry, why) ==
  IF entry = Nil THEN Nil ELSE [entry EXCEPT !.cause = @ \cup {why}]

-----------------------------------------------------------------------------
Init ==
  /\ db \in [Links -> [ver : {Unwritten}, active : {TRUE}, left : {Never} \cup Expiries]]
  /\ stamp = 0
  /\ cache = [l \in Links |-> Nil]
  /\ req = [r \in Slots |-> Idle]
  /\ fill = [r \in Slots |-> Nil]
  /\ admin = [a \in Admins |-> Nil]
  /\ acked = [l \in Links |-> Unwritten]
  /\ crashes = 0

-----------------------------------------------------------------------------
(* Redirect handlers.                                                      *)

Free(r) == req[r].pc = "idle" /\ fill[r] = Nil

(* Slip: a hit restarts the entry's TTL. *)
Hit_Touch(r, l) ==
  /\ Free(r) /\ cache[l] # Nil
  /\ req' = [req EXCEPT ![r] =
       [pc |-> "answer", slug |-> l, copy |-> cache[l].copy,
        floor |-> acked[l], excused |-> cache[l].cause # {}]]
  /\ cache' = [cache EXCEPT ![l].ttl = DefaultTTL]
  /\ UNCHANGED <<db, stamp, fill, admin, acked, crashes>>

(* A request for a cached slug is answered from the entry as it is. *)
Hit(r, l) ==
  /\ Free(r) /\ cache[l] # Nil
  /\ req' = [req EXCEPT ![r] =
       [pc |-> "answer", slug |-> l, copy |-> cache[l].copy,
        floor |-> acked[l], excused |-> cache[l].cause # {}]]
  /\ UNCHANGED <<db, stamp, cache, fill, admin, acked, crashes>>

GoToDatabase(r, l) ==
  /\ req' = [req EXCEPT ![r] = [Idle EXCEPT !.pc = "row", !.slug = l, !.floor = acked[l]]]
  /\ UNCHANGED <<db, stamp, cache, fill, admin, acked, crashes>>

Miss(r, l) == Free(r) /\ cache[l] = Nil /\ GoToDatabase(r, l)

(* A Redis error is treated like a miss, whatever the entry. *)
CacheError(r, l) == Free(r) /\ cache[l] # Nil /\ GoToDatabase(r, l)

(* The first query of FindBySlug; is_active and expired_at come with the row. *)
FindRow(r) ==
  LET l == req[r].slug IN
  /\ req[r].pc = "row"
  /\ req' = [req EXCEPT ![r].pc = "ab",
       ![r].copy = [db[l] EXCEPT !.ver = [Unwritten EXCEPT !.row = db[l].ver.row]]]
  /\ UNCHANGED <<db, stamp, cache, fill, admin, acked, crashes>>

FindVariants(r) ==
  /\ req[r].pc = "ab"
  /\ req' = [req EXCEPT ![r].pc = "geo", ![r].copy.ver.ab = db[req[r].slug].ver.ab]
  /\ UNCHANGED <<db, stamp, cache, fill, admin, acked, crashes>>

(* The last query; resolveLink starts the fill as it returns the link. *)
FindRules(r) ==
  LET found == [req[r].copy EXCEPT !.ver.geo = db[req[r].slug].ver.geo] IN
  /\ req[r].pc = "geo"
  /\ req' = [req EXCEPT ![r].pc = "answer", ![r].copy = found]
  /\ fill' = [fill EXCEPT ![r] = [slug |-> req[r].slug, copy |-> found]]
  /\ UNCHANGED <<db, stamp, cache, admin, acked, crashes>>

EndRequest(r) ==
  /\ req' = [req EXCEPT ![r] = Idle]
  /\ UNCHANGED <<db, stamp, cache, fill, admin, acked, crashes>>

(* A failing query ends the request with an error and leaves no fill. *)
QueryFails(r) == req[r].pc \in {"row", "ab", "geo"} /\ EndRequest(r)

AnswerNotFound(r) == req[r].pc = "answer" /\ Gone(req[r].copy) /\ EndRequest(r)

AnswerRedirect(r) == req[r].pc = "answer" /\ ~Gone(req[r].copy) /\ EndRequest(r)

-----------------------------------------------------------------------------
(* The fill: SetLink with a TTL that ends Buffer after the link's expiry.  *)

(* Slip: an expiring link is kept for the default time as well. *)
LifeInCache_Default(copy) == DefaultTTL

LifeInCache(copy) == IF copy.left = Never THEN DefaultTTL ELSE copy.left + Buffer

(* Slip: the early return is missing. *)
NotCached_Never(copy) == FALSE

(* SetLink returns early, leaving the key alone, for an expired link. *)
NotCached(copy) == copy.left # Never /\ copy.left <= 0

StoreFill(r) ==
  LET l == fill[r].slug
      copy == fill[r].copy
  IN
  /\ fill[r] # Nil
  /\ cache' = IF NotCached(copy) THEN cache
              ELSE [cache EXCEPT ![l] =
                [copy |-> copy, ttl |-> LifeInCache(copy),
                 cause |-> IF Current(l, copy) THEN {} ELSE {"raced"}]]
  /\ fill' = [fill EXCEPT ![r] = Nil]
  /\ UNCHANGED <<db, stamp, req, admin, acked, crashes>>

(* A Redis error or the one-second timeout; nobody is told. *)
LoseFill(r) ==
  /\ fill[r] # Nil
  /\ fill' = [fill EXCEPT ![r] = Nil]
  /\ UNCHANGED <<db, stamp, cache, req, admin, acked, crashes>>

-----------------------------------------------------------------------------
(* Management operations: one write to the database, then DeleteLink.      *)

(* Operation a writes new to l and will delete the entry under key. *)
Write(a, l, key, new, wrote) ==
  /\ admin[a] = Nil
  /\ stamp < MaxWrites
  /\ db' = [db EXCEPT ![l] = new]
  /\ stamp' = stamp + 1
  /\ admin' = [admin EXCEPT ![a] = [link |-> l, key |-> key, wrote |-> wrote]]
  /\ cache' = IF key = l THEN cache ELSE [cache EXCEPT ![l] = Blame(@, "other_key")]
  /\ UNCHANGED <<req, fill, acked, crashes>>

WriteRow(a, l, active, left) ==
  Write(a, l, l, [ver |-> [db[l].ver EXCEPT !.row = stamp + 1], active |-> active, left |-> left],
        [Unwritten EXCEPT !.row = stamp + 1])

WriteVariants(a, l, key) ==
  Write(a, l, key, [db[l] EXCEPT !.ver.ab = stamp + 1], [Unwritten EXCEPT !.ab = stamp + 1])

WriteRules(a, l, key) ==
  Write(a, l, key, [db[l] EXCEPT !.ver.geo = stamp + 1], [Unwritten EXCEPT !.geo = stamp + 1])

(* An owner may set a new expiry, even one in the past, but not remove it:  *)
(* a nil ExpiredAt means that it was not provided.                          *)
UpdateLink(a, l) ==
  \E active \in BOOLEAN, left \in {db[l].left} \cup Expiries :
    WriteRow(a, l, active, left)

SoftDelete(a, l) == WriteRow(a, l, FALSE, db[l].left)

CreateABTest(a, l) == WriteVariants(a, l, l)

(* Slip: the handler forgets DeleteLink. *)
CreateGeoRule_NoDelete(a, l) ==
  /\ stamp < MaxWrites
  /\ db' = [db EXCEPT ![l].ver.geo = stamp + 1]
  /\ stamp' = stamp + 1
  /\ UNCHANGED <<cache, req, fill, admin, acked, crashes>>

CreateGeoRule(a, l) == WriteRules(a, l, l)

(* The variant and the rule are deleted by their own id; the key is that of *)
(* the link in the request path, which need not be the link they belong to. *)
DeleteABTest(a, l, key) == WriteVariants(a, l, key)

DeleteGeoRule(a, l, key) == WriteRules(a, l, key)

(* Slip: the key is built from the link's numeric id, so DEL finds nothing. *)
Invalidate_WrongKey(a) ==
  LET l == admin[a].link IN
  /\ admin[a] # Nil
  /\ acked' = [acked EXCEPT ![l] = Newest(@, admin[a].wrote)]
  /\ admin' = [admin EXCEPT ![a] = Nil]
  /\ UNCHANGED <<db, stamp, cache, req, fill, crashes>>

(* DeleteLink succeeds: from here on the write is acknowledged. *)
Invalidate(a) ==
  LET l == admin[a].link IN
  /\ admin[a] # Nil
  /\ cache' = [cache EXCEPT ![admin[a].key] = Nil]
  /\ acked' = [acked EXCEPT ![l] = Newest(@, admin[a].wrote)]
  /\ admin' = [admin EXCEPT ![a] = Nil]
  /\ UNCHANGED <<db, stamp, req, fill, crashes>>

(* DeleteLink fails, the request was cancelled, or the commit was not      *)
(* confirmed and the operation returned before it came to DeleteLink.      *)
LoseInvalidation(a) ==
  /\ admin[a] # Nil
  /\ cache' = [cache EXCEPT ![admin[a].key] = Blame(@, "lost")]
  /\ admin' = [admin EXCEPT ![a] = Nil]
  /\ UNCHANGED <<db, stamp, req, fill, acked, crashes>>

-----------------------------------------------------------------------------
Aged(copy) ==
  IF copy.left # Never /\ copy.left >= 0 THEN [copy EXCEPT !.left = @ - 1] ELSE copy

AgedEntry(entry) ==
  IF entry = Nil \/ entry.ttl = 1 THEN Nil
  ELSE [entry EXCEPT !.copy = Aged(@), !.ttl = @ - 1]

(* Time passes for every ExpiredAt, wherever it has been copied to, and for *)
(* every key in Redis.                                                      *)
Tick ==
  /\ db' = [l \in Links |-> Aged(db[l])]
  /\ cache' = [l \in Links |-> AgedEntry(cache[l])]
  /\ req' = [r \in Slots |-> [req[r] EXCEPT !.copy = Aged(@)]]
  /\ fill' = [r \in Slots |-> IF fill[r] = Nil THEN Nil ELSE [fill[r] EXCEPT !.copy = Aged(@)]]
  /\ UNCHANGED <<stamp, admin, acked, crashes>>

(* The process dies and is restarted; PostgreSQL and Redis keep what they have. *)
Crash ==
  /\ crashes < MaxCrashes
  /\ req' = [r \in Slots |-> Idle]
  /\ fill' = [r \in Slots |-> Nil]
  /\ admin' = [a \in Admins |-> Nil]
  /\ cache' = [l \in Links |-> IF Owed(l) THEN Blame(cache[l], "lost") ELSE cache[l]]
  /\ crashes' = crashes + 1
  /\ UNCHANGED <<db, stamp, acked>>

-----------------------------------------------------------------------------
Handler(r) ==
  \/ \E l \in Links : Hit(r, l) \/ Miss(r, l) \/ CacheError(r, l)
  \/ FindRow(r) \/ FindVariants(r) \/ FindRules(r) \/ QueryFails(r)
  \/ AnswerNotFound(r) \/ AnswerRedirect(r)
  \/ StoreFill(r) \/ LoseFill(r)

Management(a) ==
  \/ \E l \in Links : UpdateLink(a, l) \/ SoftDelete(a, l) \/ CreateABTest(a, l) \/ CreateGeoRule(a, l)
  \/ \E l, key \in Links : DeleteABTest(a, l, key) \/ DeleteGeoRule(a, l, key)
  \/ Invalidate(a) \/ LoseInvalidation(a)

Next ==
  \/ \E r \in Slots : Handler(r)
  \/ \E a \in Admins : Management(a)
  \/ Tick
  \/ Crash

Spec == Init /\ [][Next]_vars

(* A started handler, fill or operation goes on, every key runs out of its  *)
(* time; nobody has to start a request, and nothing has to fail.            *)
Fairness ==
  /\ \A r \in Slots :
       WF_vars(FindRow(r) \/ FindVariants(r) \/ FindRules(r) \/ AnswerNotFound(r) \/ AnswerRedirect(r))
  /\ \A r \in Slots : WF_vars(StoreFill(r) \/ LoseFill(r))
  /\ \A a \in Admins : WF_vars(Invalidate(a) \/ LoseInvalidation(a))
  /\ WF_vars(Tick)

FairSpec == Spec /\ Fairness

-----------------------------------------------------------------------------
TypeOK ==
  /\ db \in [Links -> Copy]
  /\ stamp \in Nat
  /\ cache \in [Links -> Entry \cup {Nil}]
  /\ req \in [Slots -> Request]
  /\ fill \in [Slots -> Fill \cup {Nil}]
  /\ admin \in [Admins -> Operation \cup {Nil}]
  /\ acked \in [Links -> Version]
  /\ crashes \in Nat

(* An entry that differs from the database is either about to be deleted by *)
(* an operation under way, or something is to blame: the fill that stored   *)
(* it had read around a write, a DeleteLink was lost, or it went to another *)
(* link's key. No other order of queries, fills, writes, deletions, expiry  *)
(* and crashes leaves a stale entry behind.                                 *)
StaleIsExplained ==
  \A l \in Links :
    cache[l] # Nil /\ cache[l].cause = {} /\ ~Current(l, cache[l].copy) => Owed(l)

(* A redirect that starts after a management operation has finished is      *)
(* answered from a copy at least as new as that operation's write, unless   *)
(* the entry it hit has one of the causes above.                            *)
AnswersSeeAckedWrites ==
  \A r \in Slots :
    req[r].pc = "answer" /\ ~req[r].excused => NotOlder(req[r].copy.ver, req[r].floor)

(* An entry leaves Redis at most Buffer after the expiry it carries, also   *)
(* when the owner has moved the expiry since, and it never leaves without   *)
(* a time to live.                                                          *)
ExpiredEntriesGoAway ==
  \A l \in Links :
    cache[l] # Nil /\ cache[l].copy.left # Never
      => cache[l].ttl <= Larger(cache[l].copy.left, 0) + Buffer

(* Once the owners stop writing, every entry becomes and stays equal to the *)
(* database, although nobody retries a lost DeleteLink: whatever is stale    *)
(* runs out of its time, and the fills still running end.                   *)
EventuallyFresh == <>[](\A l \in Links : cache[l] # Nil => Current(l, cache[l].copy))

(* link_usecase.go:179, "Invalidate cache -- next redirect will re-fetch    *)
(* from DB": a redirect that starts after an operation has deleted the      *)
(* cached copy is answered from data at least as new as its write.          *)
NextRedirectRefetches ==
  \A r \in Slots : req[r].pc = "answer" => NotOlder(req[r].copy.ver, req[r].floor)

-----------------------------------------------------------------------------
(* The inductive invariant: what the two properties rest on.               *)

(* A link's parts carry the numbers of writes that have happened. *)
StampIsNewest ==
  \A l \in Links : NotOlder([row |-> stamp, ab |-> stamp, geo |-> stamp], db[l].ver)

AckedIsCommitted == \A l \in Links : NotOlder(db[l].ver, acked[l])

UnderWayIsCommitted ==
  \A a \in Admins : admin[a] # Nil => NotOlder(db[admin[a].link].ver, admin[a].wrote)

Blameless(l) == cache[l] # Nil /\ cache[l].cause = {}

EntrySeesAcked == \A l \in Links : Blameless(l) => NotOlder(cache[l].copy.ver, acked[l])

(* An operation that will delete another link's key has nothing left to do *)
(* for its own link: a blameless entry there holds its write already.      *)
EntrySeesMisdirected ==
  \A a \in Admins :
    admin[a] # Nil /\ admin[a].key # admin[a].link /\ Blameless(admin[a].link)
      => NotOlder(cache[admin[a].link].copy.ver, admin[a].wrote)

(* A handler at the database never reads below what was acknowledged when it began. *)
ReadsSeeFloor ==
  \A r \in Slots :
    LET q == req[r] IN
    /\ q.pc \in {"row", "ab", "geo"} => NotOlder(db[q.slug].ver, q.floor)
    /\ q.pc \in {"ab", "geo"} => q.copy.ver.row >= q.floor.row
    /\ q.pc = "geo" => q.copy.ver.ab >= q.floor.ab

IInv ==
  /\ TypeOK
  /\ StampIsNewest
  /\ AckedIsCommitted
  /\ UnderWayIsCommitted
  /\ EntrySeesAcked
  /\ EntrySeesMisdirected
  /\ ReadsSeeFloor
  /\ StaleIsExplained
  /\ AnswersSeeAckedWrites
=============================================================================

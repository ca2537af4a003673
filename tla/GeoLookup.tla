----------------------------- MODULE GeoLookup -----------------------------
(***************************************************************************)
(* The country of a client's address: pkg/geoip/geoip.go (Lookup,          *)
(* fetchFromAPI, isPrivateIP) with its cache in Redis, pkg/geoip/cache.go. *)
(*                                                                         *)
(* There is one public address, which may move from country to country, and*)
(* the lookups of it by redirects and by Ingest. A lookup that asks the    *)
(* service stores what it got in the background.                           *)
(***************************************************************************)
EXTENDS Integers

CONSTANTS
  Lookups,    \* calls of Lookup
  Countries,
  NoCountry,  \* an empty Location
  CacheLife,  \* geoIPTTL, in ticks
  Delay,      \* bound: ticks that begin between the service's answer and the fill
  MaxMoves    \* bound: moves of the address

ASSUME GeoAssumption ==
  /\ NoCountry \notin Countries
  /\ CacheLife \in Nat \ {0} /\ Delay \in Nat /\ MaxMoves \in Nat

VARIABLES
  home,    \* the country the address is in
  since,   \* history: ticks since the address was in each country, up to Horizon
  entry,   \* the Redis key geo:{ip}: its value and the ticks it has left
  lookup,  \* each Lookup: where it is, its answer, and how old that is
  fill,    \* the goroutine each Lookup may leave behind
  moves

geo == <<home, since, entry, lookup, fill, moves>>

(* What the address left this long ago is long past. *)
Horizon == CacheLife + Delay

NoEntry == [country |-> NoCountry, life |-> 0]

NoFill == [country |-> NoCountry, age |-> -1]

Idle == [at |-> "idle", country |-> NoCountry, lag |-> 0]

Over == [Idle EXCEPT !.at = "over"]

GeoInit ==
  /\ home \in Countries
  /\ since = [c \in Countries |-> IF c = home THEN 0 ELSE Horizon]
  /\ entry = NoEntry
  /\ lookup = [l \in Lookups |-> Idle]
  /\ fill = [l \in Lookups |-> NoFill]
  /\ moves = 0

-----------------------------------------------------------------------------
(* Lookup. *)

Goes(l, from, to) == lookup[l].at = from /\ lookup' = [lookup EXCEPT ![l].at = to]

Answers(l, c) ==
  lookup' = [lookup EXCEPT ![l] =
    [at |-> "resolved", country |-> c, lag |-> IF c \in Countries THEN since[c] ELSE Horizon]]

(* A lookup of the address, or of one that is private or cannot be read and *)
(* has no country: then nobody is asked.                                   *)
BeginLookup(l, public) ==
  /\ Goes(l, "idle", IF public THEN "cache" ELSE "unresolved")
  /\ UNCHANGED <<home, since, entry, fill, moves>>

(* Slip: an entry that is used gets its lifetime again. *)
Hit_Touch(l) ==
  /\ lookup[l].at = "cache" /\ entry.life > 0
  /\ Answers(l, entry.country)
  /\ entry' = [entry EXCEPT !.life = CacheLife]
  /\ UNCHANGED <<home, since, fill, moves>>

Hit(l) ==
  /\ lookup[l].at = "cache" /\ entry.life > 0
  /\ Answers(l, entry.country)
  /\ UNCHANGED <<home, since, entry, fill, moves>>

(* No entry, one that cannot be read, or Redis does not answer. *)
Miss(l) == Goes(l, "cache", "service") /\ UNCHANGED <<home, since, entry, fill, moves>>

Fetch(l) ==
  /\ lookup[l].at = "service"
  /\ Answers(l, home)
  /\ fill' = [fill EXCEPT ![l] = [country |-> home, age |-> 0]]
  /\ UNCHANGED <<home, since, entry, moves>>

(* Slip: the empty answer is stored like any other. *)
FetchFails_Cached(l) ==
  /\ Goes(l, "service", "unresolved")
  /\ fill' = [fill EXCEPT ![l] = [country |-> NoCountry, age |-> 0]]
  /\ UNCHANGED <<home, since, entry, moves>>

(* The service is slow, refuses, or the caller's context ends. *)
FetchFails(l) == Goes(l, "service", "unresolved") /\ UNCHANGED <<home, since, entry, fill, moves>>

(* The caller is through with the answer. *)
Used(l) ==
  /\ lookup[l].at \in {"resolved", "unresolved"}
  /\ lookup' = [lookup EXCEPT ![l] = Over]
  /\ UNCHANGED <<home, since, entry, fill, moves>>

-----------------------------------------------------------------------------
(* The goroutine: within its second it stores the answer, or it is lost. *)

StoreFill(l) ==
  /\ fill[l].age >= 0
  /\ entry' = [country |-> fill[l].country, life |-> CacheLife]
  /\ fill' = [fill EXCEPT ![l] = NoFill]
  /\ UNCHANGED <<home, since, lookup, moves>>

LoseFill(l) ==
  /\ fill[l].age >= 0
  /\ fill' = [fill EXCEPT ![l] = NoFill]
  /\ UNCHANGED <<home, since, entry, lookup, moves>>

-----------------------------------------------------------------------------
Move(c) ==
  /\ c # home /\ moves < MaxMoves
  /\ home' = c
  /\ since' = [since EXCEPT ![c] = 0]
  /\ moves' = moves + 1
  /\ UNCHANGED <<entry, lookup, fill>>

GeoTick ==
  /\ \A l \in Lookups : fill[l].age < Delay
  /\ since' = [c \in Countries |->
       IF c = home \/ since[c] = Horizon THEN since[c] ELSE since[c] + 1]
  /\ entry' = IF entry.life > 1 THEN [entry EXCEPT !.life = @ - 1] ELSE NoEntry
  /\ fill' = [l \in Lookups |->
       IF fill[l].age < 0 THEN NoFill ELSE [fill[l] EXCEPT !.age = @ + 1]]
  /\ UNCHANGED <<home, lookup, moves>>

(* What goes on between the beginning of a lookup and time's passing. *)
GeoNext ==
  \/ \E l \in Lookups :
       Hit(l) \/ Miss(l) \/ Fetch(l) \/ FetchFails(l) \/ StoreFill(l) \/ LoseFill(l)
  \/ \E c \in Countries : Move(c)

-----------------------------------------------------------------------------
(* A country that Lookup answers is where the address was within the life  *)
(* of an entry and the delay of a fill, however many lookups and fills     *)
(* overlap, hit and overwrite each other; that a lookup of somebody else   *)
(* has failed is never an answer.                                          *)
CountryIsRecent ==
  \A l \in Lookups :
    lookup[l].at = "resolved" => lookup[l].country # NoCountry /\ lookup[l].lag < Horizon
=============================================================================

--------------------------- MODULE ClickAnalytics ---------------------------
(***************************************************************************)
(* What the owner of a link gets to see of its clicks while more come in:  *)
(* GetBreakdown of handler/analytics_handler.go, usecase/                  *)
(* analytics_usecase.go and repository/postgres/analytics_repo.go, which   *)
(* reads the five dimensions with five queries and no transaction, beside  *)
(* ProcessClickEvent, which looks up a country (GeoLookup) and stores a    *)
(* click.                                                                  *)
(***************************************************************************)
EXTENDS GeoLookup, Sequences, FiniteSetsExt

CONSTANTS
  Agents,       \* what Ingest makes of a User-Agent and a Referer
  Nil,          \* a query parameter that is missing or unreadable
  Starts, Ends, \* bound: dates that the owner asks for
  Lateness,     \* bound: ticks between a click and its Ingest
  Limits,       \* values of the parameter limit
  UsualItems, MaxItems,   \* 10 and 50
  Span,         \* 30 days, in ticks
  MaxCalls,     \* bound: lookups, and at most one breakdown
  MaxTime       \* bound: ticks

ASSUME AnalyticsAssumption ==
  /\ UsualItems \in Nat \ {0} /\ MaxItems \in Nat /\ Limits \subseteq Int
  /\ Starts \cup Ends \subseteq Int /\ Lateness \subseteq Nat
  /\ Span \in Nat /\ MaxCalls \in Nat /\ MaxTime \in Nat

VARIABLES
  now,
  rows,       \* click_events, each row with its id
  ask,        \* the breakdown that the owner asks for: its filter and what it has read
  calls

vars == <<geo, now, rows, ask, calls>>

Init ==
  /\ GeoInit
  /\ now = 0
  /\ rows = {}
  /\ ask = [at |-> "idle"]
  /\ calls = 0

-----------------------------------------------------------------------------
(* ProcessClickEvent: the country is looked up, then the click stored. A    *)
(* delivery may be late, and not the first one of its click.               *)

Called == calls < MaxCalls /\ calls' = calls + 1

Ingest(l, public) ==
  /\ Called
  /\ BeginLookup(l, public)
  /\ UNCHANGED <<now, rows, ask>>

SaveClick(l, agent, clicked_at) ==
  /\ Used(l)
  /\ rows' = rows \cup {[id |-> Cardinality(rows) + 1, country |-> lookup[l].country,
                         agent |-> agent, clicked_at |-> clicked_at]}
  /\ UNCHANGED <<now, ask, calls>>

(* The insert fails; or the lookup was a redirect's, which stores nothing. *)
SaveFails(l) == Used(l) /\ UNCHANGED <<now, rows, ask, calls>>

-----------------------------------------------------------------------------
(* GetBreakdown, once the link is known to be the owner's.                 *)

End(e) == IF e = Nil THEN now ELSE e

Start(s, e) == IF s = Nil THEN End(e) - Span ELSE s

Items(n) == IF n \in 1..MaxItems THEN n ELSE UsualItems

Within(r, start, end) == start <= r.clicked_at /\ r.clicked_at <= end

(* The filter of all five queries is set before the first one. *)
GetBreakdown(s, e, n) ==
  /\ Called
  /\ ask.at = "idle"
  /\ ask' = [at |-> "reading", start |-> Start(s, e), end |-> End(e), items |-> Items(n),
              lists |-> <<>>]
  /\ UNCHANGED <<geo, now, rows>>

(* Slip: the filter's defaults are taken at every query. *)
Matching_Fresh == {r \in rows : Within(r, now - Span, now)}

Matching == {r \in rows : Within(r, ask.start, ask.end)}

Dimensions == <<"country_code", "device", "os", "browser", "referrer">>

Label(r, dimension) == IF dimension = "country_code" THEN r.country ELSE r.agent

Labels(dimension) == {Label(r, dimension) : r \in Matching}

(* What GROUP BY counts under these labels together. *)
CountBy(dimension, labels) == Cardinality({r \in Matching : Label(r, dimension) \in labels})

(* The counts that ORDER BY clicks DESC LIMIT n leaves, added up. *)
Largest(dimension, n) ==
  CHOOSE x \in {CountBy(dimension, S) : S \in kSubset(n, Labels(dimension))} :
    \A S \in kSubset(n, Labels(dimension)) : CountBy(dimension, S) <= x

(* The query of the next dimension: what its items count together, which   *)
(* is what the percentages refer to, and whether all are listed.           *)
ReadDimension ==
  /\ ask.at = "reading"
  /\ LET dimension == Dimensions[Len(ask.lists) + 1]
         all == Cardinality(Labels(dimension))
         listed == IF all < ask.items THEN all ELSE ask.items
     IN ask' = [ask EXCEPT
          !.lists = Append(@, [clicks |-> Largest(dimension, listed), full |-> all = listed]),
          !.at = IF Len(ask.lists) + 1 = Len(Dimensions) THEN "answered" ELSE @]
  /\ UNCHANGED <<geo, now, rows, calls>>

(* A query fails: the request is answered with an error and nothing else. *)
QueryFails ==
  /\ ask.at = "reading"
  /\ ask' = [at |-> "failed"]
  /\ UNCHANGED <<geo, now, rows, calls>>

-----------------------------------------------------------------------------
Tick ==
  /\ now < MaxTime
  /\ now' = now + 1
  /\ GeoTick
  /\ UNCHANGED <<rows, ask, calls>>

Next ==
  \/ \E l \in Lookups :
       \/ \E public \in BOOLEAN : Ingest(l, public)
       \/ \E agent \in Agents, late \in Lateness : SaveClick(l, agent, now - late)
       \/ SaveFails(l)
  \/ GeoNext /\ UNCHANGED <<now, rows, ask, calls>>
  \/ \E s \in Starts \cup {Nil}, e \in Ends \cup {Nil}, n \in Limits : GetBreakdown(s, e, n)
  \/ ReadDimension \/ QueryFails
  \/ Tick

Spec == Init /\ [][Next]_vars

-----------------------------------------------------------------------------
(* The five queries of a breakdown may see more and more clicks, but a     *)
(* dimension listed in full never counts fewer than one read before it:    *)
(* all five are about the same days, although hours pass between them.     *)
DimensionsOnlyGrow ==
  ask.at \in {"reading", "answered"} =>
    \A i, j \in DOMAIN ask.lists :
      i < j /\ ask.lists[j].full => ask.lists[i].clicks <= ask.lists[j].clicks
=============================================================================

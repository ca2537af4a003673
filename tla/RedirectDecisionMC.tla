------------------------ MODULE RedirectDecisionMC ------------------------
(***************************************************************************)
(* Grows one link through every combination of expiry, password, geo rules *)
(* and A/B variants within the bounds, and judges the redirect decision,   *)
(* and the responses to requests for it, for every visit and every random  *)
(* pick.                                                                   *)
(***************************************************************************)
EXTENDS RedirectResponse, SequencesExt

CONSTANTS
  Countries,    \* country codes a rule or a visitor may have
  Passwords,    \* passwords an owner may set or a visitor may submit
  VariantIds,   \* one id per A/B variant, bounds their number
  FullWeight,   \* stands for the 100 of the code: the weights of a link add up to at most this
  MaxLeft       \* furthest expiry, in ticks

VARIABLE link

MCLives == {Never} \cup -1..MaxLeft

Visits == [password : Passwords \cup {NoPassword}, country : Countries \cup {NoCountry}]

(* rand.Intn(totalWeight); without variants no pick is drawn. *)
Picks == IF link.ab = <<>> THEN {0} ELSE 0..TotalWeight(link.ab) - 1

Answers ==
  {Redirect(link, v, p) : v \in Visits, p \in Picks}
    \cup {UnlockWithPassword(link, v.password, p) : v \in Visits, p \in Picks}

MCInit == link \in [left   : MCLives,
                    active : {TRUE},
                    hash   : Passwords \cup {NoPassword},
                    dest   : {<<"home">>},
                    geo    : {<<>>},
                    ab     : {<<>>}]

(* Rules keep their priority order; a new one may come anywhere in it, and *)
(* the table holds one rule per country (migrations/000004).               *)
AddGeoRule(country, place) ==
  /\ \A i \in DOMAIN link.geo : link.geo[i].country # country
  /\ link' = [link EXCEPT !.geo =
       InsertAt(@, place, [country |-> country, dest |-> <<"geo", country>>])]

AddVariant(id, weight) ==
  /\ \A i \in DOMAIN link.ab : link.ab[i].id # id
  /\ TotalWeight(link.ab) + weight <= FullWeight
  /\ link' = [link EXCEPT !.ab =
       Append(@, [id |-> id, dest |-> <<"ab", id>>, weight |-> weight])]

Delete == link.active /\ link' = [link EXCEPT !.active = FALSE]

MCNext ==
  \/ \E country \in Countries, place \in 1..Len(link.geo) + 1 : AddGeoRule(country, place)
  \/ \E id \in VariantIds, weight \in 1..FullWeight : AddVariant(id, weight)
  \/ Delete

MCSpec == MCInit /\ [][MCNext]_link

-----------------------------------------------------------------------------
(* The walk over cumulative weights gives each variant exactly its weight's *)
(* share of the picks, and always finds one: no pick falls off the end of  *)
(* the loop of selectABVariant.                                             *)
PicksMatchWeights ==
  \A i \in DOMAIN link.ab :
    LET drawn == {p \in Picks : SelectABVariant(link.ab, p).id = link.ab[i].id}
    IN  Cardinality(drawn) = link.ab[i].weight

(* A click is attributed to a variant exactly when that variant's own       *)
(* destination was served; a geo match is never attributed to one.          *)
ClickAttribution ==
  \A a \in Answers :
    a.error = "none" =>
      \/ a.variant = NoVariant /\ a.dest \notin {link.ab[i].dest : i \in DOMAIN link.ab}
      \/ \E i \in DOMAIN link.ab : link.ab[i].id = a.variant /\ link.ab[i].dest = a.dest

-----------------------------------------------------------------------------
Requests == [route : {"redirect", "unlock"}, proto : {"http", "https"},
             limit : {"within", "over", "down"}, slug : {"some", "empty"},
             body : {"ok", "malformed"}, visit : Visits]

(* resolveLink found the link, found no row, or could not ask. *)
Resolved == [error |-> "none", link |-> link]
Missing  == [error |-> "link_not_found"]
Failed   == [error |-> "query"]

(* For a link that has expired or was deleted every request, on both routes *)
(* and with whatever password, is answered and recorded as for a slug that  *)
(* never existed: neither the password prompt, nor the wrong-password       *)
(* answer, nor a status shows that the link exists.                         *)
GoneLooksMissing ==
  Gone(link) =>
    \A r \in Requests, p \in Picks : Exchange(Resolved, r, p) = Exchange(Missing, r, p)

(* A click is published exactly for the requests that redirects_total counts *)
(* as redirected: not for an unlock, not for the redirect to https, and not  *)
(* for a request the limiter or the password turned away.                    *)
ClicksMatchRedirects ==
  \A found \in {Resolved, Missing, Failed}, r \in Requests, p \in Picks :
    LET e == Exchange(found, r, p)
    IN  e.clicks = Cardinality({i \in DOMAIN e.redirects :
                                  e.redirects[i] \in {"redirect_301", "redirect_302"}})
=============================================================================
